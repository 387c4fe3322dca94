\* A forwarded client that sends nothing, ends and goes.
CONSTANTS
  Half = 8
  InitialRto = 1
  MaxRto = 2
  MaxRetransmissions = 1
  Sources = {"forwarded"}
  StreamBytes = 0
  InitialSequence = 14
  Mss = 1
  InitialCwnd = 2
  ReceiveWindow = 3
  HighWater = 2
  PacedSources = {"forwarded"}
  CooperativeLimit = 1
  VmWindows = {0, 2}
  MaxPending = 1
SPECIFICATION Spec
PROPERTIES FinIsLast
CHECK_DEADLOCK FALSE
