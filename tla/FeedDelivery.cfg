CONSTANTS
    t1 = t1
    t2 = t2
    s1 = s1
    s2 = s2
    Tasks = {t1, t2}
    Shards = {s1, s2}
    Length <- Lengths
    MaxEvents = 3
    QuietLength = 0
    Discarded = {2}
    Modes = {"earliest", "latest", "auto"}
    MaxRetries = 2
    MaxFaults = 2
SPECIFICATION FairSpec
CHECK_DEADLOCK FALSE
INVARIANTS TypeOK CheckpointCovers InFeedOrder
PROPERTIES EventsArrive LogImplemented
