\* Three clients compete for one name while a request comes in.
SPECIFICATION Spec
CONSTANTS
  Conn = {c1, c2, c3}
  Viewer = {v1}
  Hellos <- TakeoverHellos
  Name <- Valid
  ValidName <- Valid
  Generated = {"app"}
  Cfg <- MCCfg
  FAEnabled = TRUE
  SessionTTL = 0
  TokenAsks = {}
  EnrollIDs = {}
  DefaultTTL = 1
  MaxTTL = 1
  MaxRolls = 1
  MaxTime = 2
SYMMETRY Symmetry
INVARIANTS
  RegistryIsExact
  OneOpenSessionPerName
  NoFrameBeforeAck
PROPERTIES
  OptInIsEnforced
CHECK_DEADLOCK FALSE
