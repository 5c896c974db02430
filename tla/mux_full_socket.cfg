\* The client's read loop is blocked on a stream nobody reads and the connection
\* towards it is full when the server aborts.
SPECIFICATION FairSpec
CONSTANTS
  StreamId = {1}
  MaxWrites <- TwoFromServer
  Faults <- AbortAtServer
  ChunkCap = 1
  WireCap = 1
PROPERTIES
  AbortEndsLocally
CHECK_DEADLOCK FALSE
