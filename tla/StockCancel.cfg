SPECIFICATION Spec
CONSTANTS
  Runs = {1}
  Requests = {q1}
  NoRun = NoRun
  MaxPerPass = 2
  MaxRequests = 1
  MaxFailures = 1
PROPERTIES
  CompletedNotCancelled
CHECK_DEADLOCK FALSE
