SPECIFICATION Spec
CONSTANTS
    Results <- AllResults
    OracleIds <- MCOracleIds
    SessionPolicies <- MCPolicies
    Worlds = {w0, w1}
    InitialWorld = w0
    Faults = {f1}
    Sources = {source1}
    NoSource = NoSource
    NoEvaluation = NoEvaluation
    MaxCalls = 2
    AdapterWraps = TRUE
    RetainsSession = TRUE
    StoreWraps = FALSE
    LeavesCallsOpen = TRUE
INVARIANTS
    AcceptanceSound
    OutcomeConsistent
    CompletedIsTraced
PROPERTIES
    OutcomeFinal
    EvidenceNeverReplaced
    LifecycleSpec
CHECK_DEADLOCK FALSE
