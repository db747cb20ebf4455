SPECIFICATION ComponentsSpec
CONSTANTS
    Evaluations = {accepted, rejected}
    NoEvaluation = NoEvaluation
    Sources = {source1, source2}
    NoSource = NoSource
    MaxRecords = 10
    h1 = h1
    h2 = h2
    t = t
    u = u
    Handles = {h1, h2}
    Tools = {t, u}
    Contents = {c0, c1}
    InitialContent = c0
    Occurrences = {1, 2}
    None = None
    MaxFaults = 2
    MaxSnapshots = 2
    MaxTime = 2
    N = 3
    MaxState = 1
    Fidelity <- MCFidelity
    Failures <- MCFailures
SYMMETRY Symmetry
INVARIANTS
    HistoryIsWalk
    NoPhaseSkipped
    FiredInTime
    RefsStayTrue
    WorldIsOwn
    LeftoversAreOptional
    ReadyIsProvisioned
    ResultHonest
CHECK_DEADLOCK FALSE
