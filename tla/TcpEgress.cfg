\* A connection the VM opened, fed by a socket and paced, or one the relay opened for a
\* forwarding rule, unpaced, whose client may close at any time, or never.
CONSTANTS
  Half = 8
  InitialRto = 1
  MaxRto = 2
  MaxRetransmissions = 1
  Sources = {"socket", "forwarded"}
  StreamBytes = 3
  InitialSequence = 14
  Mss = 2
  InitialCwnd = 2
  ReceiveWindow = 3
  HighWater = 2
  PacedSources = {"socket"}
  CooperativeLimit = 1
  VmWindows = {0, 1, 3}
  MaxPending = 1
SPECIFICATION Spec
INVARIANTS TypeOK NothingLostOrRepeated NoStall NothingPendingAfterEnd RecoveryExact
PROPERTIES RespectsWindows
CHECK_DEADLOCK FALSE
