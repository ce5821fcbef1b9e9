CONSTANTS
  Workers = {w1}
  Requests = {t1}
  Sweepers = {s1, s2}
  Nobody = Nobody
SPECIFICATION FairSpec
CHECK_DEADLOCK FALSE
PROPERTIES
  ExpiredIsRecovered
