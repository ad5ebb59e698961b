SPECIFICATION FairSpec
CONSTANTS
  Evaluators = {e1}
  Rechecks = {r1}
  Users = {u1}
  Configured = NoStatus
  NoStatus = NoStatus
  Reopening = {}
  Conditions = {"match", "clear"}
  MaxRequests = 2
  MaxFailures = 1
PROPERTIES
  ReopenedNotCleared
  ReadSaveIsKept
  ClearedIsClosed
  MatchedIsOpen
