SPECIFICATION FairSpec
CONSTANTS
  Runs = {1, 2}
  Tasks = {t1}
  Triggers = {}
  Cron = cron
  Conns = {c1, c2}
  NoConn = NoConn
  NoRun = NoRun
  CursorStates = {"completed"}
  MayAge = {1}
  MaxRuns = 1
  MaxTriggers = 0
  MaxCrashes = 1
  MaxKills = 0
  MaxTimeouts = 0
PROPERTIES
  AcceptedIsSettled
  WorkerReturns
CHECK_DEADLOCK FALSE
