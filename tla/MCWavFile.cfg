SPECIFICATION Spec
CONSTANTS
  Full = 8
  Fine = 4
  SizeMod = 18
  Sources <- MCSources
  Formats = {"Int16", "Float32"}
  BlockSizes = {1, 2}
  Channels = 2
  MaxCopies = 4
INVARIANTS
  FramesAreBacked
  FileIsTheRendering
  CopiesStayClose
CHECK_DEADLOCK FALSE
