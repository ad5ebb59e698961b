SPECIFICATION Spec
CONSTANTS
  Evaluators = {e1, e2}
  Rechecks = {}
  Users = {u1}
  Configured = NoStatus
  NoStatus = NoStatus
  Reopening = {"postponed"}
  Conditions = {"match", "blocker", "unclear"}
  MaxRequests = 2
  MaxFailures = 1
SYMMETRY Symmetry
INVARIANTS
  TypeOK
PROPERTIES
  SeenDecisionIsKept
  CreatedOnce
