SPECIFICATION NodesSpec
CONSTANTS
  Class <- MCClass
  Setups <- MCSetups
  Channels = 2
  Rates = {1, 2}
  MaxBlock = 2
  Blocks = {1, 3}
  Values = {0, 2}
  MaxFrames = 5
  MaxEdits = 1
  MaxCompiles = 2
INVARIANTS
  DelayInsideRing
  NothingStale
  BlocksDoNotShow
  InPhase
CHECK_DEADLOCK FALSE
