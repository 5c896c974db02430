\* Ping 2 and Idle 4 keep the code's order Ping < 1.5 Ping < Idle; a large frame
\* of 6 parts takes longer than Idle to arrive.
SPECIFICATION Spec
CONSTANTS
  Ping = 2
  Idle = 4
  Delay = 1
  Window = 1
  BigParts = 6
  Talkers = {"client"}
INVARIANTS
  TypeOK
  NoFalseIdleClose
  StaleMeansGone
  SilenceIsBounded
PROPERTIES
  LostPeerIsNoticed
