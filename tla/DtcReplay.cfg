\* Reports replayed, late and reordered, against clears, failures and a restart.
SPECIFICATION Spec
CONSTANTS
    c1 = c1
    c2 = c2
    Codes = {c1, c2}
    Cases <- Mix
    Horizon = 3
    Ahead = 2
    Tolerance = 1
    Probes = 2
INVARIANTS TypeOK OneActive AppliedOnce AlertsFollow
PROPERTIES RowsKept ClearHolds DropsOnlyReflected
CHECK_DEADLOCK FALSE
