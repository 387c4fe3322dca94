\* The forward connection again, small enough for liveness.
CONSTANTS
  Half = 8
  InitialRto = 1
  MaxRto = 2
  MaxRetransmissions = 1
  Sources = {"socket"}
  StreamBytes = 1
  InitialSequence = 14
  Mss = 1
  InitialCwnd = 2
  ReceiveWindow = 2
  HighWater = 1
  PacedSources = {"socket"}
  CooperativeLimit = 1
  VmWindows = {0, 2}
  MaxPending = 1
SPECIFICATION FairSpec
PROPERTIES DeliversOrCloses
CHECK_DEADLOCK FALSE
