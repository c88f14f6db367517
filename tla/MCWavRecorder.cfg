SPECIFICATION Spec
CONSTANTS
  Channels = 2
  RingFrames = 2
  ChunkFrames = 2
  BlockSizes <- MCBlockSizes
  MaxFrames = 6
  MaxRecordings = 2
INVARIANTS
  NothingLost
  FinalDrain
PROPERTIES
  StopReturns
CHECK_DEADLOCK FALSE
