SPECIFICATION Spec
CONSTANTS
  Runs = {1, 2, 3}
  Poison = {1}
  Publishers = {p1, p2}
  Limit = 2
  Workers = {w1}
  MaxFaults = 2
  NoOne = NoOne
CHECK_DEADLOCK FALSE
INVARIANTS
  TypeOK
  SubmittedWasTaken
PROPERTIES
  RunsFinish
