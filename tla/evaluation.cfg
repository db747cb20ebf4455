SPECIFICATION BoundedSpec
CONSTANTS
    None = None
    e1 = e1
    record = record
    evidence = evidence
    h1 = h1
    h2 = h2
    Homes = {h1, h2}
    HomeOf <- MCHomeOf
    Evaluations = {e1}
    Publishers = {e1, p2}
    Contents = {record, evidence}
    RecordOf <- MCRecordOf
    EvidenceOf <- MCEvidenceOf
INVARIANTS
    SuccessIsAnswered
    NothingIsLeftInGroup
    ReferencesLead
    ValidIsFounded
PROPERTIES
    ImplementsImmutable
    VerificationEnds
