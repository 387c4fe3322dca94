\* A pool too small for all, and two kinds of machines: those that keep their MAC and
\* reconnect once their old websocket is closed, and those that do anything.
CONSTANTS
  Ids = {s1, s2, s3}
  Macs = {m1, m2, m3}
  Clients = {c1, c2}
  Pool = {1, 2, 3}
  MaxConnections = 2
  Environments = {"exclusive", "any"}
  None = None
SPECIFICATION Spec
INVARIANTS
  TypeOK
  TablesExact
  RoutedToHolder
  LeasesReturned
CHECK_DEADLOCK FALSE
