SPECIFICATION Spec
CONSTANTS
  Runs = {1, 2}
  Tasks = {t1}
  Triggers = {}
  Cron = cron
  Conns = {c1, c2, c3}
  NoConn = NoConn
  NoRun = NoRun
  CursorStates = {"running"}
  MayAge = {1, 2}
  MaxRuns = 3
  MaxTriggers = 0
  MaxCrashes = 1
  MaxKills = 0
  MaxTimeouts = 0
SYMMETRY Symmetry
PROPERTIES
  SettledIsFinal
  ImplementsBoard
CHECK_DEADLOCK FALSE
