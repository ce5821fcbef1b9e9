SPECIFICATION FairSpec
CONSTANTS
    N = 1
    MaxOps = 2
    MaxIds = 4
    MaxAttempts = 1
    Execs = {e1, e2}
    Clients = {c1}
    Overlap = TRUE
    LiveAbandon = TRUE
INVARIANTS
    ReadyMeansEnumerated
PROPERTIES
    OperationsSettle
CHECK_DEADLOCK FALSE
