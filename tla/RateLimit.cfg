SPECIFICATION Spec
CONSTANTS
    None = None
    a = a
    b = b
    c = c
    Callers <- Three
    Limit = 2
    Window = 2
    MaxBuckets = 2
    MaxTime = 4
    MaxAccepted = 3
INVARIANTS
    TypeOK
    WindowRespected
    RejectedAtLimit
SYMMETRY Symmetry
CHECK_DEADLOCK FALSE
