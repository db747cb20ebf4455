SPECIFICATION BoundedSpec
CONSTANTS
    None = None
    t = t
    u = u
    s1 = s1
    s2 = s2
    e1 = e1
    e2 = e2
    Episodes = {e1, e2}
    Tools = {t, u}
    Schemas = {s1, s2}
    Allowed = {t}
    Contracts <- MCContracts
    MaxPages = 2
    MaxTools = 2
    MaxSteps <- MCMaxSteps
INVARIANTS
    SentUnderBaseline
    RecordsAreExecuted
    ResultsAreBound
PROPERTIES
    HostCallsEnd
CHECK_DEADLOCK FALSE
