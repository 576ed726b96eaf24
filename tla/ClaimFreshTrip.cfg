\* A stale trip is closed, and no fresh one replaces it.
SPECIFICATION Spec
CONSTANTS
    MaxTrips = 2
    LastFrame = 3
    Horizon = 7
    MaxFaults = 1
    MaxRestarts = 1
    Scenarios <- Cases
    Delays = {0, 1}
    Fresh = 0
    Gap = 1
    Age = 2
    Stuck = 3
INVARIANT StaleTripReplaced
CHECK_DEADLOCK FALSE
