\* Two connections that together have more to send than one window allows.
CONSTANTS
  MaxBytes = 3
  WindowMs = 2
  CompactAt = 1
  InitialBurst = 1
  MaxBurst = 2
  IntervalMs = 2
  None = None
  Conns = {c1, c2}
  Long = {c1}
  StreamBytes = 8
  Chunks = {2, 6}
  Mss = 2
  Windows = {1}
  RetryMs = 1
  MaxSetBack = 1
SPECIFICATION FairSpec
INVARIANTS
  TypeOK
  WindowExact
  BurstBounded
PROPERTIES
  AllSent
CHECK_DEADLOCK FALSE
