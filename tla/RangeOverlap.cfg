SPECIFICATION Spec
CONSTANTS
    N = 1
    MaxOps = 2
    MaxIds = 3
    MaxAttempts = 3
    Execs = {e1, e2}
    Clients = {c1}
    Overlap = TRUE
    LiveAbandon = FALSE
PROPERTIES
    ResolvedOnce
CHECK_DEADLOCK FALSE
