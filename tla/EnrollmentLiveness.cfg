CONSTANTS
    v1 = v1
    v2 = v2
    c1 = c1
    c2 = c2
    f1 = f1
    f2 = f2
    s1 = s1
    k1 = k1
    Vins = {v1}
    Fleets = {f1}
    Skus = {s1}
    Keys = {}
    MaxRequests = 2
    EnrollCodes = {3}
    UnenrollCodes = {7, 9999}
    Calls = {c1}
    Batches <- BothVins
    Slow = {2}
    HardDeletes = {FALSE}
    PageSize = 4
    MaxAborts = 1
SPECIFICATION FairSpec
CHECK_DEADLOCK FALSE
PROPERTIES RequestsClose RemovalReachesFleet
