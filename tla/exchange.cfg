\* The viewer may leave, the timer fire, or the tunnel die before the request is sent
\* or while the response is relayed.  A finished exchange has no step left.
SPECIFICATION EXSpecDying
CONSTANTS
  StreamId = {1}
  MaxWrites <- OneAndTwo
  Faults <- AbortAndClose
  ChunkCap = 1
  WireCap = 2
  Kinds = {"short", "framed", "close"}
INVARIANTS
  TimeoutIsAnswered504
  CompleteMeansWhole
PROPERTIES
  GoneFreesLocal
  HeaderWaitEnds
  ExchangeIsRetired
CHECK_DEADLOCK FALSE
