SPECIFICATION Spec
CONSTANTS
  Ins <- MCIns
  Outs <- MCOuts
  Latency <- MCLatency
  FixedWidth <- MCFixedWidth
  Host = 2
  Script <- MCScript
  Wirings <- MCWirings
  Connects <- MCConnects
  MaxEdges = 3
INVARIANTS
  GraphSound
  ScheduleInOrder
  BranchesInPhase
  LatencyIsLongest
CHECK_DEADLOCK FALSE
