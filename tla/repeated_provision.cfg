SPECIFICATION Spec
CONSTANTS
    Threads = {t1, t2}
    None = None
SYMMETRY Symmetry
PROPERTY TerminalStays
