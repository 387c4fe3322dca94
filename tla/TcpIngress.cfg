SPECIFICATION FairSpec
CONSTANTS
  Half = 8
  InitialSequence = 14
  Window = 4
  FieldMax = 5
  AckEvery = 3
  StreamBytes = 5
  MaxSegment = 3
  VmTrims = TRUE
INVARIANTS
  TypeOK
  DeliversInOrder
  BufferExact
  VmIsTold
PROPERTIES
  FinAcknowledged
