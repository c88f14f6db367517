SPECIFICATION Spec
CONSTANTS
  Capacity <- MCCapacity
  Counts <- MCCounts
  MaxOffered = 9
  MaxMissed = 4
INVARIANTS
  NoSlotRace
  ShortWriteFilledUp
  SizeIsReadable
PROPERTIES
  ImplementsQueue
CHECK_DEADLOCK FALSE
