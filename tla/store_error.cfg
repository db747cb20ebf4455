SPECIFICATION Spec
CONSTANTS
    Results <- MCResults
    OracleIds <- MCOracleIds
    SessionPolicies <- NoTelemetry
    Worlds = {w0}
    InitialWorld = w0
    Faults = {}
    Sources = {}
    NoSource = NoSource
    NoEvaluation = NoEvaluation
    MaxCalls = 1
    AdapterWraps = TRUE
    RetainsSession = FALSE
    StoreWraps = FALSE
    LeavesCallsOpen = FALSE
INVARIANTS
    VerifyingExecutes
CHECK_DEADLOCK FALSE
