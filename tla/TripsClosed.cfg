\* The trips of a vehicle, with restarts, failures, lag and the sweeper.
SPECIFICATION FairSpec
CONSTANTS
    MaxTrips = 3
    LastFrame = 3
    Horizon = 7
    MaxFaults = 1
    MaxRestarts = 1
    Scenarios <- Cases
    Delays = {0, 1}
    Fresh = 0
    Gap = 1
    Age = 2
    Stuck = 3
INVARIANTS TypeOK OneOpen
PROPERTIES OwnClosureStays TripsEnd
CHECK_DEADLOCK FALSE
