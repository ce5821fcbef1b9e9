SPECIFICATION Spec
CONSTANTS
  Workers = {w1, w2}
  Clients = {c1, c2}
  MaxDossiers = 1
  MaxVersions = 2
  AttemptBudget = 2
SYMMETRY Symmetry
CHECK_DEADLOCK FALSE
INVARIANTS
  TypeOK
  OneProcess
  ResultsAreLeased
  BudgetOverrunBounded
PROPERTIES
  DecisionsStand
