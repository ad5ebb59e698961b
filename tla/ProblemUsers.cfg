SPECIFICATION Spec
CONSTANTS
  Evaluators = {e1}
  Rechecks = {}
  Users = {u1, u2}
  Configured = NoStatus
  NoStatus = NoStatus
  Reopening = {}
  Conditions = {"match"}
  MaxRequests = 3
  MaxFailures = 0
SYMMETRY Symmetry
PROPERTIES
  UsersFollowTransitions
