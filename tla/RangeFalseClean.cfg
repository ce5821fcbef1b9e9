SPECIFICATION Spec
CONSTANTS
    N = 1
    MaxOps = 3
    MaxIds = 3
    MaxAttempts = 3
    Execs = {e1}
    Clients = {c1}
    Overlap = FALSE
    LiveAbandon = FALSE
INVARIANTS
    DestroyedMeansGone
CHECK_DEADLOCK FALSE
