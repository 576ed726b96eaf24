CONSTANTS
    v1 = v1
    v2 = v2
    c1 = c1
    c2 = c2
    f1 = f1
    f2 = f2
    s1 = s1
    k1 = k1
    Vins = {v1, v2}
    Fleets = {f1}
    Skus = {s1}
    Keys = {k1}
    MaxRequests = 1
    EnrollCodes = {3, 9999}
    UnenrollCodes = {7}
    Calls = {c1, c2}
    Batches <- BothVins
    Slow = {1}
    HardDeletes = {TRUE}
    PageSize = 4
    MaxAborts = 1
SPECIFICATION Spec
SYMMETRY Symmetry
CHECK_DEADLOCK FALSE
INVARIANTS ClosedOnlyWhenSettled
