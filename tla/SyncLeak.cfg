SPECIFICATION Spec
CONSTANTS
  Runs = {1}
  Tasks = {}
  Triggers = {}
  Cron = cron
  Conns = {c1, c2}
  NoConn = NoConn
  NoRun = NoRun
  CursorStates = {"completed"}
  MayAge = {1}
  MaxRuns = 3
  MaxTriggers = 0
  MaxCrashes = 1
  MaxKills = 0
  MaxTimeouts = 1
SYMMETRY Symmetry
INVARIANTS
  NoLockAtRest
CHECK_DEADLOCK FALSE
