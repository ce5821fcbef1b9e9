SPECIFICATION Spec
CONSTANTS
    Teams = {t1}
    Clients = {c1, c2}
    MaxAttempts = 1
    MaxSubmissions = 3
    CaseSensitive = TRUE
SYMMETRY Symmetry
INVARIANTS TypeOK AcceptedIsAwarded AttemptsBounded
