SPECIFICATION Spec
CONSTANTS
  Evaluators = {e1}
  Rechecks = {}
  Users = {u1}
  Configured = NoStatus
  NoStatus = NoStatus
  Reopening = {}
  Conditions = {"match"}
  MaxRequests = 1
  MaxFailures = 0
SYMMETRY Symmetry
PROPERTIES
  EngineOnlyResolves
