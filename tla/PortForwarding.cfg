\* Two rules that may ask for the same port, and more datagrams than NAT ports.
CONSTANTS
  MaxRules = 2
  MaxDatagrams = 3
  HostPorts = {80, 81}
  FirstNatPort = 40
  NatPorts = 2
SPECIFICATION Spec
INVARIANTS
  TypeOK
  ListenersAccounted
  RepliesReachSender
CHECK_DEADLOCK FALSE
