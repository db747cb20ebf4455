SPECIFICATION BackendsSpec
CONSTANTS
    r1 = r1
    r2 = r2
    k1 = k1
    v1 = v1
    v2 = v2
    Relations = {r1, r2}
    Keys = {k1}
    Values = {v1, v2}
    NoRow = NoRow
    Labels = {l1, l2}
    Writers = {w1}
    Control = Control
    Unheld = 0
    Unobserved = Unobserved
    MaxMutations = 2
    Baseline <- MCBaseline
    ForeignState <- MCForeign
INVARIANTS
    DiffLeadsToState
    RowsAreKeyed
PROPERTIES
    FinalProjectionStands
    OrphanedOnlyByDrift
    ImplementsStore
    ProjectionStands
    ImplementsBackend
CHECK_DEADLOCK FALSE
