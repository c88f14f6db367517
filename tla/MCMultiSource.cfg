SPECIFICATION StreamSpec
CONSTANTS
  Channels = 2
  MaxBlock = 2
  RingFrames = 3
  Blocks <- MCBlocks
  Devices <- MCDevices
  Routes <- MCRoutes
  MaxCalls = 2
INVARIANTS
  StreamsInStep
  SlipWithinOneBlock
  HeardAsCaptured
CHECK_DEADLOCK FALSE
