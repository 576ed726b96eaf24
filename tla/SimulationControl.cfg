\* Starts, stops and agents of two vehicles, with failures and crashes.
SPECIFICATION FairSpec
CONSTANTS
    v1 = v1
    v2 = v2
    Vehicle = {v1, v2}
    MaxCalls = 3
    Plans <- Scenarios
    Alike <- Prefixes
    ScanOrder <- Scanned
    ListPage = 2
    MaxTasks = 3
INVARIANTS TypeOK DrivenAsOrdered CompletedMeansOver BusesDistinct
PROPERTIES FinishedStays RunningEnds IntentServed
CHECK_DEADLOCK FALSE
