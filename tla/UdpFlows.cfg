SPECIFICATION FlowsFairSpec
CONSTANTS
  Keys = {k1, k2, k3}
  Sockets = {s1, s2, s3}
  MaxFlows = 2
  IdleTimeout = 2
  None = none
INVARIANTS
  FlowsTypeOK
  SocketsAccounted
PROPERTIES
  RefusesOnlyWhenBusy
  IdleFlowsGo
