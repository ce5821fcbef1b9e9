SPECIFICATION Spec
CONSTANTS
    N = 2
    MaxOps = 3
    MaxIds = 4
    MaxAttempts = 2
    Execs = {e1}
    Clients = {c1, c2}
    Overlap = FALSE
    LiveAbandon = FALSE
SYMMETRY Symmetry
INVARIANTS
    TypeOK
    ReadyMeansObserved
    DestroyedMeansProved
    InFlightAgrees
PROPERTIES
    NeverForgets
    DestroyedIsFinal
CHECK_DEADLOCK FALSE
