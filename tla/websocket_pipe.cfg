\* Traffic in both directions; one fault, which may be the end of the session below.
\* A finished pipe has no step left.
SPECIFICATION WSSpecOneFault
CONSTANTS
  StreamId = {1}
  MaxWrites <- FourFromViewer
  Faults <- ServerCloses
  ChunkCap = 1
  WireCap = 1
INVARIANTS
  PipeLeavesNothingOpen
PROPERTIES
  PipeEndsTogether
CHECK_DEADLOCK FALSE
