SPECIFICATION Spec
CONSTANTS
  NodeIds <- MCNodeIds
  Resets <- MCResets
  QueueRoom = 2
  MaxGraphs = 2
  MaxSchedules = 3
  MaxPosts = 2
  MaxBlocks = 2
INVARIANTS
  NoUseAfterFree
  SchedulesAccounted
  NodesOutliveBlocks
  BlockReflectsCommands
PROPERTIES
  CommandsApplyInOrder
CHECK_DEADLOCK FALSE
