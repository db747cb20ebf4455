SPECIFICATION FairSpec
CONSTANTS
    Results <- MCResults
    OracleIds <- MCOracleIds
    SessionPolicies <- RequiredPolicy
    Worlds = {w0, w1}
    InitialWorld = w0
    Faults = {}
    Sources = {}
    NoSource = NoSource
    NoEvaluation = NoEvaluation
    MaxCalls = 2
    AdapterWraps = TRUE
    RetainsSession = TRUE
    StoreWraps = TRUE
    LeavesCallsOpen = FALSE
INVARIANTS
    JudgedWorldIsFinal
PROPERTIES
    HandlersSettle
CHECK_DEADLOCK FALSE
