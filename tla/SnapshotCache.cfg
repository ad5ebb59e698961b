SPECIFICATION FairSpec
CONSTANTS
  Servers = {api}
  Workers = {worker}
  Keys = {k}
  NoKey = NoKey
  MinAccess = 2
  MaxSpecs = 1
  MaxChanges = 2
  MaxFailures = 1
INVARIANTS
  StaleHasCause
PROPERTIES
  DefaultsAreFresh
  ReadIsFresh
