\* One stream, one fault of any kind, nobody obliged to read.  A finished or dead
\* session has no step left: no deadlock check.
SPECIFICATION FairOneFault
CONSTANTS
  StreamId = {1}
  MaxWrites <- TwoFromServer
  Faults <- AbortCloseBreak
  ChunkCap = 1
  WireCap = 2
INVARIANTS
  TypeOK
  NoDataAfterClose
  DoneMarksEveryStream
  ClosedBothWaysRetired
  AbortedIsAbnormal
PROPERTIES
  ImplementsByteStream
  CloseEndsReadLoop
  ReadersAreReleased
  AbortFreesReadLoop
  AbortReachesPeer
  ClosedStreamsAreRetired
CHECK_DEADLOCK FALSE
