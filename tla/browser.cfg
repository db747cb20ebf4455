SPECIFICATION BoundedSpec
CONSTANTS
    k1 = k1
    v1 = v1
    v2 = v2
    lossy = lossy
    o1 = o1
    i1 = i1
    None = None
    Keys = {k1}
    Values = {v1, v2, lossy}
    Lossy = {lossy}
    Origins = {o1}
    Items = {i1}
    Labels = {l1}
    BaselineCookies <- MCBaselineCookies
    BaselineStorage <- MCBaselineStorage
    MaxSnapshots = 1
INVARIANTS
    AcceptedStands
    CookiesAreExact
    SnapshotsAreSeedable
CHECK_DEADLOCK FALSE
