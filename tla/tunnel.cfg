\* Two slots and two handlers: the channel gets full, and handlers outlive Run.
SPECIFICATION Spec
CONSTANTS
  EventCap = 2
  Handler = {h1, h2}
  Answers <- AllAnswers
INVARIANTS
  TypeOK
  PlaintextRefusalIsFinal
  StatusIsCurrent
PROPERTIES
  NoSendAfterClose
  CancelEndsProcess
CHECK_DEADLOCK FALSE
