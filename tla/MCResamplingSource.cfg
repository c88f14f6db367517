SPECIFICATION Spec
CONSTANTS
  Channels = 2
  RingFrames = 3
  Room = 3
  StageCap = 4
  PushSizes <- MCPushSizes
  LongestPush = 2
  Blocks <- MCBlocks
  Wants <- MCWants
  MaxPushed = 7
  MaxUnderruns = 2
INVARIANTS
  LeadIntact
  LagWithinOnePush
CHECK_DEADLOCK FALSE
