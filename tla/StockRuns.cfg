SPECIFICATION FairSpec
CONSTANTS
  Runs = {1, 2}
  Requests = {q1, q2}
  NoRun = NoRun
  MaxPerPass = 2
  MaxRequests = 2
  MaxFailures = 1
INVARIANTS
  SuccessHasResult
  RunsAsAsked
PROPERTIES
  CancelInTimeWins
  ImplementsRunBoard
  QueuedIsSettled
CHECK_DEADLOCK FALSE
