\* Who may hold which name, and for how long.  Two clients, no viewers.
SPECIFICATION FairEarlyIssue
CONSTANTS
  Conn = {c1, c2}
  Viewer = {}
  Hellos <- AdmissionHellos
  Name <- Names
  ValidName <- Valid
  Generated = {"gen", "hop"}
  Cfg <- MCCfg
  FAEnabled = TRUE
  SessionTTL = 0
  TokenAsks <- MCTokenAsks
  EnrollIDs = {"tok_e"}
  DefaultTTL = 1
  MaxTTL = 1
  MaxRolls = 2
  MaxTime = 2
INVARIANTS
  TypeOK
  HolderIsEntitled
PROPERTIES
  ClosedSessionFreesItsName
CHECK_DEADLOCK FALSE
