SPECIFICATION FairSpec
CONSTANTS
  Half = 8
  InitialSequence = 13
  Window = 4
  FieldMax = 5
  AckEvery = 2
  StreamBytes = 4
  MaxSegment = 2
  VmTrims = FALSE
PROPERTIES
  FinAcknowledged
