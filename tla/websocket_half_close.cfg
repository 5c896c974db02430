\* The viewer keeps sending while the local service leaves.
SPECIFICATION WSSpec
CONSTANTS
  StreamId = {1}
  MaxWrites <- FiveFromViewer
  Faults <- NoFaults
  ChunkCap = 1
  WireCap = 1
PROPERTIES
  HalvesEndTogether
CHECK_DEADLOCK FALSE
