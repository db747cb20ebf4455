SPECIFICATION Spec
CONSTANTS
    Results <- MixedResults
    OracleIds <- MCOracleIds
    SessionPolicies <- NoTelemetry
    Worlds = {w0}
    InitialWorld = w0
    Faults = {}
    Sources = {}
    NoSource = NoSource
    NoEvaluation = NoEvaluation
    MaxCalls = 1
    AdapterWraps = TRUE
    RetainsSession = FALSE
    StoreWraps = TRUE
    LeavesCallsOpen = FALSE
INVARIANTS
    VerdictIsRecorded
CHECK_DEADLOCK FALSE
