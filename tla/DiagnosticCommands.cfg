CONSTANTS
    c1 = c1
    c2 = c2
    c3 = c3
    k1 = k1
    a1 = a1
    Calls = {c1, c2}
    Sovd = {k1}
    Actuators = {}
    Ecus = 2
    Refusals = {"RATE_LIMITED"}
    Outcomes = {"SUCCEEDED"}
    AgentStatuses = {"FAILED"}
    OutcomesInS3 = {"PARTIAL"}
SPECIFICATION FairSpec
CHECK_DEADLOCK FALSE
INVARIANTS TypeOK BestAnswerWins ProgressIsLatest BodyNeverBetter AcceptedOwnsRow
PROPERTIES OutcomeImplemented SuccessReachesRow
