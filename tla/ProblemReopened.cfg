SPECIFICATION Spec
CONSTANTS
  Evaluators = {e1}
  Rechecks = {r1}
  Users = {u1}
  Configured = NoStatus
  NoStatus = NoStatus
  Reopening = {}
  Conditions = {"match"}
  MaxRequests = 3
  MaxFailures = 1
SYMMETRY Symmetry
PROPERTIES
  ReopenedMeansMatched
