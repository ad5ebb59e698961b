SPECIFICATION FairSpec
CONSTANTS
  Cards = {1, 2, 3, 4}
  FirstCards = {1, 3, 4}
  Runs = {1, 2}
  Callers = {a1, a2}
  NoRun = NoRun
  MaxPerPass = 2
  BatchLimit = 2
  MaxChanges = 1
  MaxFailures = 1
  MaxRollbacks = 1
INVARIANTS
  CompletedIsCurrent
PROPERTIES
  NothingPassedOver
  RunEnds
CHECK_DEADLOCK FALSE
