SPECIFICATION FairSpec
CONSTANTS
  Capabilities <- MCCapabilities
  Utf8 = TRUE
  BufSize = 6
  Streams <- MCStreams
  Junk = {5, 99}
  WaitTime = 1
  StartSize = "small"
  Sizes <- MCSizes
  MaxNest = 2
INVARIANTS
  BytesInOrder
  CutsDoNotMatter
  ResizeSeen
PROPERTIES
  ForcedWhenDue
  ResizeHeard
CHECK_DEADLOCK FALSE
