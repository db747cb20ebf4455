SPECIFICATION BoundedSpec
CONSTANTS
    Threads = {t1, t2, t3}
    None = None
SYMMETRY Symmetry
INVARIANTS
    WorkIsExclusive
    HistoryIsComplete
    LostOnlyByFailure
PROPERTY StateWalks
CHECK_DEADLOCK FALSE
