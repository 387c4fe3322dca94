\* A machine reconnects before its old websocket is closed.
CONSTANTS
  Ids = {s1, s2, s3}
  Macs = {m1, m2, m3}
  Clients = {c1, c2}
  Pool = {1, 2, 3}
  MaxConnections = 2
  Environments = {"reconnecting"}
  None = None
SPECIFICATION Spec
INVARIANTS RoutedToHolder
CHECK_DEADLOCK FALSE
