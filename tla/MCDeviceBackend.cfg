SPECIFICATION Spec
CONSTANTS
  mic = mic
  speaker = speaker
  None = None
  Devices <- MCDevices
  Kinds = {"output", "input", "duplex"}
  Layouts <- MCLayouts
  BlockSizes = {1, 2}
  MaxOpens = 2
INVARIANTS
  HalInStep
  StopSilences
  DisconnectIsReal
  BlocksFit
  StartBegins
PROPERTIES
  DeathReported
CHECK_DEADLOCK FALSE
