SPECIFICATION TapSpec
CONSTANT MaxRecorders = 3
INVARIANTS
  SafeUnlessStopped
  NothingMissed
