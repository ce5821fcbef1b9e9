CONSTANTS
  Workers = {w1, w2}
  Requests = {t1, t2}
  Sweepers = {s1}
  Nobody = Nobody
SYMMETRY Symmetry
SPECIFICATION Spec
CHECK_DEADLOCK FALSE
INVARIANTS
  TypeOK
  HistoryAgrees
  SingleUse
  ReceiptsTruthful
  OwnedBeforeHealthy
  HealthyIsAgreed
PROPERTIES
  ClosedNeverReopens
  NoStaleHealthy
  ImplementsAgreement
