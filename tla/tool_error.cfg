SPECIFICATION FairSpec
CONSTANTS
    Results <- MCResults
    OracleIds <- MCOracleIds
    SessionPolicies <- NoTelemetry
    Worlds = {w0}
    InitialWorld = w0
    Faults = {}
    Sources = {}
    NoSource = NoSource
    NoEvaluation = NoEvaluation
    MaxCalls = 1
    AdapterWraps = FALSE
    RetainsSession = FALSE
    StoreWraps = TRUE
    LeavesCallsOpen = FALSE
PROPERTIES
    RunningEnds
CHECK_DEADLOCK FALSE
