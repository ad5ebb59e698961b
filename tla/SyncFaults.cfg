SPECIFICATION Spec
CONSTANTS
  Runs = {1}
  Tasks = {t1}
  Triggers = {g1}
  Cron = cron
  Conns = {c1, c2, c3}
  NoConn = NoConn
  NoRun = NoRun
  CursorStates = {"completed"}
  MayAge = {1}
  MaxRuns = 3
  MaxTriggers = 1
  MaxCrashes = 1
  MaxKills = 1
  MaxTimeouts = 1
SYMMETRY Symmetry
INVARIANTS
  TypeOK
  ServiceExclusive
PROPERTIES
  CompletedWithData
  CursorMonotone
CHECK_DEADLOCK FALSE
