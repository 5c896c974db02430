\* The token expires during the handshake.
SPECIFICATION Spec
CONSTANTS
  Conn = {c1}
  Viewer = {v1}
  Hellos <- MandateHellos
  Name <- Names
  ValidName <- Valid
  Generated = {"gen"}
  Cfg <- MCCfg
  FAEnabled = TRUE
  SessionTTL = 0
  TokenAsks = {}
  EnrollIDs = {}
  DefaultTTL = 1
  MaxTTL = 1
  MaxRolls = 1
  MaxTime = 2
INVARIANTS
  MandateIsEnforced
CHECK_DEADLOCK FALSE
