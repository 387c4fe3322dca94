\* Two connections, on one key of the VM or on two ports of the relay, of every kind.
CONSTANTS
  Opens = 2
  Keys = {k1}
  FirstPort = 30
  LastPort = 31
  MaxAttempts = 1
  ClientKinds = {"forwarded", "http", "upgrade"}
  None = None
SPECIFICATION FairSpec
INVARIANTS
  TypeOK
  EventsStayHome
  GoneMeansReleased
PROPERTIES
  ClientsAnswered
CHECK_DEADLOCK FALSE
