----------------------------- MODULE SessionsProofs -----------------------------
(***************************************************************************)
(* What holds of Sessions for any sessions, machines, clients and pool.    *)
(***************************************************************************)
EXTENDS Sessions, TLAPS, FiniteSetTheorems

USE IdsAssumption, PoolAssumption, MaxConnectionsAssumption, NoneAssumption,
    EnvironmentsAssumption
-----------------------------------------------------------------------------
(* The pool.  allocateIP takes the first address that is free.             *)

\* A set of natural numbers that is not empty has a least element.
LEMMA LeastExists ==
  ASSUME NEW S \in SUBSET Nat, S # {}
  PROVE  \E x \in S : \A y \in S : x <= y
  <1>1. PICK x \in S : \A y \in S : ~ (<<y, x>> \in OpToRel(<, Nat))
    BY NatLessThanWellFounded, WFMin, Zenon
  <1>2. \A y \in S : ~ (y < x)
    BY <1>1 DEF OpToRel
  <1> QED
    BY <1>2

LEMMA LeastFreeIsFree ==
  ASSUME Free # {}
  PROVE  LeastFree \in Free
  <1>1. \E ip \in Free : \A other \in Free : ip <= other
    BY LeastExists DEF Free
  <1> QED
    BY <1>1, Zenon DEF LeastFree

LEMMA AllocatedType ==
  ASSUME TypeOK, NEW mac \in Macs, CanLease(mac)
  PROVE  Allocated(mac) \in Pool
  BY LeastFreeIsFree DEF TypeOK, CanLease, Allocated, Free

\* What a MAC without a lease gets is nobody's, nor reserved, if the pool is consistent.
LEMMA AllocatedIsNew ==
  ASSUME TypeOK, PoolConsistent, NEW mac \in Macs, CanLease(mac), leases[mac] = None
  PROVE  /\ Allocated(mac) \notin Reserved
         /\ \A other \in Macs : leases[other] # Allocated(mac)
  BY LeastFreeIsFree DEF TypeOK, PoolConsistent, CanLease, Allocated, Free, Leased
-----------------------------------------------------------------------------
(* Type correctness.                                                       *)

LEMMA InitType == Init => TypeOK
  BY DEF Init, TypeOK, Reserved

LEMMA ConnectType ==
  ASSUME TypeOK, NEW s \in Ids, Connect(s)
  PROVE  TypeOK'
  BY DEF TypeOK, Connect

LEMMA FrameType ==
  ASSUME TypeOK, NEW s \in Ids, NEW mac \in Macs, Frame(s, mac)
  PROVE  /\ environment' \in Environments
         /\ state' \in [Ids -> {"new", "open", "refused", "closed"}]
         /\ clientOf' \in [Ids -> Clients]
         /\ vmMAC' \in [Ids -> Macs \cup {None}]
         /\ connections' \in [Clients -> Nat]
  BY DEF TypeOK, Frame

LEMMA AllocateType ==
  ASSUME TypeOK, NEW mac \in Macs, CanLease(mac), Allocate(mac)
  PROVE  /\ leases' \in [Macs -> Pool \cup {None}]
         /\ usedIPs' \subseteq Pool \cup {2}
  <1>1. Allocated(mac) \in Pool
    BY AllocatedType
  <1>2. leases \in [Macs -> Pool \cup {None}] /\ usedIPs \subseteq Pool \cup {2}
    BY DEF TypeOK
  <1> QED
    BY <1>1, <1>2 DEF Allocate

LEMMA AssignType ==
  ASSUME TypeOK, NEW s \in Ids, NEW ip \in Pool, Assign(s, ip)
  PROVE  /\ vmIP' \in [Ids -> Pool \cup {None}]
         /\ routes' \in [Pool -> Ids \cup {None}]
  BY DEF TypeOK, Assign

LEMMA ArpType ==
  ASSUME TypeOK, NEW s \in Ids, NEW mac \in Macs, Arp(s, mac)
  PROVE  TypeOK'
  <1>1. CASE vmIP[s] = None /\ CanLease(mac)
    <2>1. Allocate(mac) /\ Assign(s, Allocated(mac)) /\ Allocated(mac) \in Pool
      BY <1>1, AllocatedType DEF Arp
    <2> QED
      BY <1>1, <2>1, FrameType, AllocateType, AssignType DEF Arp, TypeOK
  <1>2. CASE ~(vmIP[s] = None /\ CanLease(mac))
    BY <1>2, FrameType DEF Arp, TypeOK
  <1> QED
    BY <1>1, <1>2

LEMMA DhcpType ==
  ASSUME TypeOK, NEW s \in Ids, NEW mac \in Macs, NEW clientMAC \in Macs,
         Dhcp(s, mac, clientMAC)
  PROVE  TypeOK'
  <1>1. CASE CanLease(clientMAC)
    <2>1. Allocate(clientMAC) /\ Allocated(clientMAC) \in Pool
      BY <1>1, AllocatedType DEF Dhcp
    <2>2. /\ vmIP' \in [Ids -> Pool \cup {None}]
          /\ routes' \in [Pool -> Ids \cup {None}]
      BY <1>1, <2>1, AssignType DEF Dhcp, TypeOK
    <2> QED
      BY <1>1, <2>1, <2>2, FrameType, AllocateType DEF Dhcp, TypeOK
  <1>2. CASE ~CanLease(clientMAC)
    BY <1>2, FrameType DEF Dhcp, TypeOK
  <1> QED
    BY <1>1, <1>2

LEMMA OtherFrameType ==
  ASSUME TypeOK, NEW s \in Ids, NEW mac \in Macs, OtherFrame(s, mac)
  PROVE  TypeOK'
  BY FrameType DEF TypeOK, OtherFrame

LEMMA CloseType ==
  ASSUME TypeOK, NEW s \in Ids, Close(s)
  PROVE  TypeOK'
  <1>1. /\ leases' \in [Macs -> Pool \cup {None}]
        /\ usedIPs' \subseteq Pool \cup {2}
        /\ routes' \in [Pool -> Ids \cup {None}]
    BY DEF TypeOK, Close, Release
  <1>2. connections' \in [Clients -> Nat]
    BY DEF TypeOK, Close
  <1> QED
    BY <1>1, <1>2 DEF TypeOK, Close

LEMMA NextType ==
  ASSUME TypeOK, [Next]_vars
  PROVE  TypeOK'
  <1>1. CASE UNCHANGED vars
    BY <1>1 DEF vars, TypeOK
  <1> QED
    BY <1>1, ConnectType, ArpType, DhcpType, OtherFrameType, CloseType DEF Next

\* The tables of sessions, leases and routes keep their types.
THEOREM TypeCorrect == Spec => []TypeOK
  BY InitType, NextType, PTL DEF Spec
-----------------------------------------------------------------------------
(* The pool stays consistent whatever MACs the frames carry.               *)

\* What allocateIP does to a consistent pool: nothing, or it adds one new lease.
LEMMA AllocatePool ==
  ASSUME TypeOK, PoolConsistent, NEW mac \in Macs, CanLease(mac), Allocate(mac)
  PROVE  /\ usedIPs' = Leased' \cup Reserved
         /\ Leased' \cap Reserved = {}
         /\ \A m, n \in Macs : leases'[m] = leases'[n] /\ leases'[m] # None => m = n
         /\ Leased' = Leased \cup {Allocated(mac)}
  <1> DEFINE ip == Allocated(mac)
  <1>1. ip \in Pool /\ ip # None
    BY AllocatedType
  <1>2. \A m \in Macs : leases'[m] = IF m = mac THEN ip ELSE leases[m]
    BY DEF TypeOK, Allocate
  <1>3. CASE leases[mac] # None
    <2>1. ip = leases[mac]
      BY <1>3 DEF Allocated
    <2>2. leases' = leases
      BY <2>1 DEF TypeOK, Allocate
    <2>3. ip \in Leased
      BY <1>3, <2>1 DEF Leased
    <2> QED
      BY <2>2, <2>3 DEF PoolConsistent, Leased, Allocate
  <1>4. CASE leases[mac] = None
    <2>1. ip \notin Reserved /\ \A other \in Macs : leases[other] # ip
      BY <1>4, AllocatedIsNew
    <2> HIDE DEF ip
    <2>2. Leased' = Leased \cup {ip}
      BY <1>1, <1>2, <1>4 DEF Leased
    <2>3. \A m, n \in Macs : leases'[m] = leases'[n] /\ leases'[m] # None => m = n
      BY <1>2, <2>1 DEF PoolConsistent
    <2> QED
      BY <2>1, <2>2, <2>3 DEF PoolConsistent, Allocate, ip
  <1> QED
    BY <1>3, <1>4

LEMMA InitPool == Init => PoolConsistent
  BY DEF Init, PoolConsistent, Leased, Reserved

\* A step that does not touch the pool.
LEMMA PoolUnchanged ==
  ASSUME PoolConsistent, UNCHANGED <<leases, usedIPs, routes>>
  PROVE  PoolConsistent'
  BY DEF PoolConsistent, Leased

LEMMA ArpPool ==
  ASSUME TypeOK, PoolConsistent, NEW s \in Ids, NEW mac \in Macs, Arp(s, mac)
  PROVE  PoolConsistent'
  <1>1. CASE vmIP[s] = None /\ CanLease(mac)
    <2>1. Allocate(mac) /\ Assign(s, Allocated(mac))
      BY <1>1 DEF Arp
    <2>2. \A ip \in Pool : routes'[ip] # None => ip \in Leased \cup {Allocated(mac)}
      BY <2>1 DEF Assign, TypeOK, PoolConsistent
    <2> QED
      BY <1>1, <2>1, <2>2, AllocatePool DEF PoolConsistent
  <1>2. CASE ~(vmIP[s] = None /\ CanLease(mac))
    BY <1>2, PoolUnchanged DEF Arp
  <1> QED
    BY <1>1, <1>2

LEMMA DhcpPool ==
  ASSUME TypeOK, PoolConsistent, NEW s \in Ids, NEW mac \in Macs, NEW clientMAC \in Macs,
         Dhcp(s, mac, clientMAC)
  PROVE  PoolConsistent'
  <1>1. CASE CanLease(clientMAC)
    <2>1. Allocate(clientMAC)
      BY <1>1 DEF Dhcp
    <2>2. \A ip \in Pool : routes'[ip] # None => ip \in Leased \cup {Allocated(clientMAC)}
      BY <1>1 DEF Dhcp, Assign, TypeOK, PoolConsistent
    <2> QED
      BY <1>1, <2>1, <2>2, AllocatePool DEF PoolConsistent
  <1>2. CASE ~CanLease(clientMAC)
    BY <1>2, PoolUnchanged DEF Dhcp
  <1> QED
    BY <1>1, <1>2

\* releaseIP takes one lease away, with its route.
LEMMA ReleasePool ==
  ASSUME TypeOK, PoolConsistent, NEW mac \in Macs \cup {None}, Release(mac)
  PROVE  PoolConsistent'
  <1>1. CASE mac = None \/ leases[mac] = None
    BY <1>1, PoolUnchanged DEF Release
  <1>2. CASE ~(mac = None \/ leases[mac] = None)
    <2> DEFINE ip == leases[mac]
    <2>1. mac \in Macs /\ ip \in Pool /\ ip # None
      BY <1>2 DEF TypeOK
    <2>2. /\ usedIPs' = usedIPs \ {ip}
          /\ \A m \in Macs : leases'[m] = IF m = mac THEN None ELSE leases[m]
          /\ \A other \in Pool : routes'[other] = IF other = ip THEN None ELSE routes[other]
      BY <1>2, <2>1 DEF TypeOK, Release
    <2>3. \A m \in Macs : leases[m] = ip => m = mac
      BY <2>1 DEF PoolConsistent
    <2> HIDE DEF ip
    <2>4. Leased' = Leased \ {ip}
      BY <2>1, <2>2, <2>3 DEF Leased, ip
    <2>5. ip \notin Reserved
      BY <2>1 DEF PoolConsistent, Leased, ip
    <2>6. \A m, n \in Macs : leases'[m] = leases'[n] /\ leases'[m] # None => m = n
      BY <2>2 DEF PoolConsistent
    <2>7. \A other \in Pool : routes'[other] # None => other \in Leased'
      BY <2>2, <2>4 DEF PoolConsistent
    <2> QED
      BY <2>2, <2>4, <2>5, <2>6, <2>7 DEF PoolConsistent
  <1> QED
    BY <1>1, <1>2

LEMMA NextPool ==
  ASSUME TypeOK, PoolConsistent, [Next]_vars
  PROVE  PoolConsistent'
  <1>1. ASSUME NEW s \in Ids, Connect(s) PROVE PoolConsistent'
    BY <1>1, PoolUnchanged DEF Connect
  <1>2. ASSUME NEW s \in Ids, NEW mac \in Macs, OtherFrame(s, mac) PROVE PoolConsistent'
    BY <1>2, PoolUnchanged DEF OtherFrame
  <1>3. ASSUME NEW s \in Ids, Close(s) PROVE PoolConsistent'
    BY <1>3, ReleasePool DEF Close, TypeOK
  <1>4. CASE UNCHANGED vars
    BY <1>4, PoolUnchanged DEF vars
  <1> QED
    BY <1>1, <1>2, <1>3, <1>4, ArpPool, DhcpPool DEF Next
-----------------------------------------------------------------------------
(* connectionsPerIP counts the open sessions.                              *)

OpenOf(c) == {s \in Ids : IsOpen(s) /\ clientOf[s] = c}

LEMMA OpenFinite == \A c : IsFiniteSet(OpenOf(c))
  BY FS_Subset DEF OpenOf

LEMMA InitCounted == Init => ConnectionsCounted
  <1> SUFFICES ASSUME Init, NEW c \in Clients
               PROVE  connections[c] = Cardinality(OpenOf(c)) /\ connections[c] <= MaxConnections
    BY DEF ConnectionsCounted, OpenOf
  <1>1. OpenOf(c) = {}
    BY DEF Init, OpenOf, IsOpen
  <1> QED
    BY <1>1, FS_EmptySet DEF Init

LEMMA CountedUnchanged ==
  ASSUME ConnectionsCounted, UNCHANGED <<state, clientOf, connections>>
  PROVE  ConnectionsCounted'
  BY DEF ConnectionsCounted, IsOpen

LEMMA ConnectCounted ==
  ASSUME TypeOK, ConnectionsCounted, NEW s \in Ids, Connect(s)
  PROVE  ConnectionsCounted'
  <1> SUFFICES ASSUME NEW c \in Clients
               PROVE  /\ connections'[c] = Cardinality(OpenOf(c)')
                      /\ connections'[c] <= MaxConnections
    BY DEF ConnectionsCounted, OpenOf
  <1>1. connections[c] = Cardinality(OpenOf(c)) /\ connections[c] <= MaxConnections
    BY DEF ConnectionsCounted, OpenOf
  <1>2. s \notin OpenOf(c)
    BY DEF Connect, OpenOf, IsOpen
  <1>3. CASE Admits(clientOf[s]) /\ clientOf[s] = c
    <2>1. OpenOf(c)' = OpenOf(c) \cup {s}
      BY <1>3 DEF Connect, OpenOf, IsOpen, TypeOK
    <2>2. Cardinality(OpenOf(c)') = Cardinality(OpenOf(c)) + 1
      BY <1>2, <2>1, OpenFinite, FS_AddElement
    <2>3. connections'[c] = connections[c] + 1 /\ connections[c] < MaxConnections
      BY <1>3 DEF Connect, TypeOK, Admits
    <2> QED
      BY <1>1, <2>2, <2>3 DEF TypeOK
  <1>4. CASE ~(Admits(clientOf[s]) /\ clientOf[s] = c)
    <2>1. OpenOf(c)' = OpenOf(c) /\ connections'[c] = connections[c]
      BY <1>4 DEF Connect, OpenOf, IsOpen, TypeOK
    <2> QED
      BY <1>1, <2>1
  <1> QED
    BY <1>3, <1>4

LEMMA CloseCounted ==
  ASSUME TypeOK, ConnectionsCounted, NEW s \in Ids, Close(s)
  PROVE  ConnectionsCounted'
  <1> SUFFICES ASSUME NEW c \in Clients
               PROVE  /\ connections'[c] = Cardinality(OpenOf(c)')
                      /\ connections'[c] <= MaxConnections
    BY DEF ConnectionsCounted, OpenOf
  <1>1. connections[c] = Cardinality(OpenOf(c)) /\ connections[c] <= MaxConnections
    BY DEF ConnectionsCounted, OpenOf
  <1>2. CASE clientOf[s] = c
    <2>1. s \in OpenOf(c)
      BY <1>2 DEF Close, OpenOf
    <2>2. OpenOf(c)' = OpenOf(c) \ {s}
      BY DEF Close, OpenOf, IsOpen, TypeOK
    <2>3. Cardinality(OpenOf(c)') = Cardinality(OpenOf(c)) - 1
      BY <2>1, <2>2, OpenFinite, FS_RemoveElement
    <2>4. Cardinality(OpenOf(c)) # 0 /\ Cardinality(OpenOf(c)) \in Nat
      BY <2>1, OpenFinite, FS_EmptySet, FS_CardinalityType
    <2>5. connections'[c] = connections[c] - 1
      BY <1>1, <1>2, <2>4 DEF Close, TypeOK
    <2> QED
      BY <1>1, <2>3, <2>5 DEF TypeOK
  <1>3. CASE clientOf[s] # c
    <2>1. OpenOf(c)' = OpenOf(c) /\ connections'[c] = connections[c]
      BY <1>3 DEF Close, OpenOf, IsOpen, TypeOK
    <2> QED
      BY <1>1, <2>1
  <1> QED
    BY <1>2, <1>3

LEMMA NextCounted ==
  ASSUME TypeOK, ConnectionsCounted, [Next]_vars
  PROVE  ConnectionsCounted'
  <1>1. ASSUME NEW s \in Ids, NEW mac \in Macs, Frame(s, mac) PROVE ConnectionsCounted'
    BY <1>1, CountedUnchanged DEF Frame
  <1>2. CASE UNCHANGED vars
    BY <1>2, CountedUnchanged DEF vars
  <1> QED
    BY <1>1, <1>2, ConnectCounted, CloseCounted DEF Next, Arp, Dhcp, OtherFrame

LEMMA TablesInvariant == Spec => [](TypeOK /\ PoolConsistent /\ ConnectionsCounted)
  BY TypeCorrect, InitPool, NextPool, InitCounted, NextCounted, PTL DEF Spec

\* Whatever MACs the frames carry, an address is used exactly when one MAC leases it, the
\* reserved one never is, routes lead to leased addresses only, and connectionsPerIP
\* counts the open websockets within their limit (allocateIP, releaseIP, connect, close).
THEOREM TablesAreExact == Spec => []TablesExact
  <1>1. PoolConsistent /\ ConnectionsCounted => TablesExact
    BY DEF TablesExact
  <1> QED
    BY <1>1, TablesInvariant, PTL
-----------------------------------------------------------------------------
(* Machines that keep their MAC and close their old websocket first.  Their*)
(* leases, routes and sessions correspond to one another.                  *)

\* A session with an address holds the lease of its MAC, and is where it is routed.
HoldersRouted ==
  \A s \in Ids : IsOpen(s) /\ vmIP[s] # None =>
    /\ vmMAC[s] # None
    /\ leases[vmMAC[s]] = vmIP[s]
    /\ routes[vmIP[s]] = s

LeasesHeld ==
  \A mac \in Macs : leases[mac] # None =>
    \E s \in Ids : IsOpen(s) /\ vmMAC[s] = mac /\ vmIP[s] = leases[mac]

MacsDistinct ==
  \A s, t \in Ids : IsOpen(s) /\ IsOpen(t) /\ vmMAC[s] = vmMAC[t] /\ vmMAC[s] # None => s = t

NewUnnamed == \A s \in Ids : state[s] = "new" => vmMAC[s] = None /\ vmIP[s] = None

ExclusiveInv == Exclusive => HoldersRouted /\ LeasesHeld /\ MacsDistinct /\ NewUnnamed

LEMMA InitExclusive == Init => ExclusiveInv
  BY DEF Init, ExclusiveInv, HoldersRouted, LeasesHeld, MacsDistinct, NewUnnamed, IsOpen

LEMMA ExclusiveUnchanged ==
  ASSUME ExclusiveInv, UNCHANGED vars
  PROVE  ExclusiveInv'
  BY DEF ExclusiveInv, Exclusive, HoldersRouted, LeasesHeld, MacsDistinct, NewUnnamed, IsOpen, vars

LEMMA ConnectExclusive ==
  ASSUME TypeOK, ExclusiveInv, Exclusive, NEW s \in Ids, Connect(s)
  PROVE  ExclusiveInv'
  <1>1. vmMAC[s] = None /\ vmIP[s] = None
    BY DEF ExclusiveInv, NewUnnamed, Connect
  <1>2. /\ UNCHANGED <<vmMAC, vmIP, leases, routes>>
        /\ \A t \in Ids : IsOpen(t)' => IsOpen(t) \/ t = s
        /\ \A t \in Ids : IsOpen(t) => IsOpen(t)'
        /\ \A t \in Ids : state'[t] = "new" => state[t] = "new"
    BY DEF Connect, IsOpen, TypeOK
  <1>3. HoldersRouted'
    BY <1>1, <1>2 DEF ExclusiveInv, HoldersRouted
  <1>4. LeasesHeld'
    BY <1>2 DEF ExclusiveInv, LeasesHeld
  <1>5. MacsDistinct'
    BY <1>1, <1>2 DEF ExclusiveInv, MacsDistinct
  <1>6. NewUnnamed'
    BY <1>2 DEF ExclusiveInv, NewUnnamed
  <1> QED
    BY <1>3, <1>4, <1>5, <1>6 DEF ExclusiveInv

\* What a frame leaves: its MAC is the session's, and no other session's.
LEMMA FrameExclusive ==
  ASSUME TypeOK, ExclusiveInv, Exclusive, NEW s \in Ids, NEW mac \in Macs, Frame(s, mac)
  PROVE  /\ state' = state /\ IsOpen(s)
         /\ \A t \in Ids : vmMAC'[t] = IF t = s THEN mac ELSE vmMAC[t]
         /\ vmMAC[s] \in {None, mac}
         /\ \A t \in Ids : IsOpen(t) /\ vmMAC[t] = mac => t = s
         /\ vmIP[s] # None => vmMAC[s] = mac
         /\ MacsDistinct'
         /\ \A t \in Ids : state[t] = "new" => t # s
  <1>1. state' = state /\ IsOpen(s) /\ vmMAC[s] \in {None, mac}
    BY DEF Frame, MayCarry, Exclusive
  <1>2. \A t \in Ids : vmMAC'[t] = IF t = s THEN mac ELSE vmMAC[t]
    BY DEF Frame, TypeOK
  <1>3. \A t \in Ids : IsOpen(t) /\ vmMAC[t] = mac => t = s
    BY DEF Frame, MayCarry, Exclusive
  <1>4. vmIP[s] # None => vmMAC[s] = mac
    BY <1>1 DEF ExclusiveInv, HoldersRouted
  <1>5. MacsDistinct'
    BY <1>1, <1>2, <1>3 DEF ExclusiveInv, MacsDistinct, IsOpen
  <1>6. \A t \in Ids : state[t] = "new" => t # s
    BY <1>1 DEF IsOpen
  <1> QED
    BY <1>1, <1>2, <1>3, <1>4, <1>5, <1>6

\* A frame that assigns nothing.
LEMMA QuietFrameExclusive ==
  ASSUME TypeOK, ExclusiveInv, Exclusive, NEW s \in Ids, NEW mac \in Macs, Frame(s, mac),
         UNCHANGED <<vmIP, leases, routes>>
  PROVE  ExclusiveInv'
  <1>1. HoldersRouted'
    BY FrameExclusive DEF ExclusiveInv, HoldersRouted, IsOpen, TypeOK
  <1>2. LeasesHeld'
    <2> SUFFICES ASSUME NEW m \in Macs, leases[m] # None
                 PROVE  \E t \in Ids : IsOpen(t)' /\ vmMAC'[t] = m /\ vmIP[t] = leases[m]
      BY DEF LeasesHeld
    <2>1. PICK t \in Ids : IsOpen(t) /\ vmMAC[t] = m /\ vmIP[t] = leases[m]
      BY DEF ExclusiveInv, LeasesHeld
    <2>2. IsOpen(t)' /\ vmMAC'[t] = m
      BY <2>1, FrameExclusive DEF IsOpen
    <2> QED
      BY <2>1, <2>2
  <1>3. MacsDistinct' /\ NewUnnamed'
    BY FrameExclusive DEF ExclusiveInv, NewUnnamed
  <1> QED
    BY <1>1, <1>2, <1>3 DEF ExclusiveInv

\* A frame that gives a session its first address: its MAC has no lease yet, because a
\* lease has a session that is open, with that MAC and an address.
LEMMA AssigningFrameExclusive ==
  ASSUME TypeOK, PoolConsistent, ExclusiveInv, Exclusive, NEW s \in Ids, NEW mac \in Macs,
         Frame(s, mac), vmIP[s] = None, CanLease(mac), Allocate(mac), Assign(s, Allocated(mac))
  PROVE  ExclusiveInv'
  <1> DEFINE ip == Allocated(mac)
  <1>1. leases[mac] = None
    <2>1. SUFFICES ASSUME leases[mac] # None PROVE FALSE
      OBVIOUS
    <2>2. PICK t \in Ids : IsOpen(t) /\ vmMAC[t] = mac /\ vmIP[t] = leases[mac]
      BY <2>1 DEF ExclusiveInv, LeasesHeld
    <2>3. t = s
      BY <2>2, FrameExclusive
    <2> QED
      BY <2>1, <2>2, <2>3
  <1>2. ip \in Pool /\ ip # None /\ \A other \in Macs : leases[other] # ip
    BY <1>1, AllocatedType, AllocatedIsNew
  <1>3. /\ \A m \in Macs : leases'[m] = IF m = mac THEN ip ELSE leases[m]
        /\ \A t \in Ids : vmIP'[t] = IF t = s THEN ip ELSE vmIP[t]
        /\ \A other \in Pool : routes'[other] = IF other = ip THEN s ELSE routes[other]
    BY <1>2 DEF TypeOK, Allocate, Assign
  <1> HIDE DEF ip
  <1>4. HoldersRouted'
    <2> SUFFICES ASSUME NEW t \in Ids, IsOpen(t)', vmIP'[t] # None
                 PROVE  vmMAC'[t] # None /\ leases'[vmMAC'[t]] = vmIP'[t] /\ routes'[vmIP'[t]] = t
      BY DEF HoldersRouted
    <2>1. CASE t = s
      BY <1>2, <1>3, <2>1, FrameExclusive
    <2>2. CASE t # s
      <3>1. IsOpen(t) /\ vmIP'[t] = vmIP[t] /\ vmMAC'[t] = vmMAC[t]
        BY <1>3, <2>2, FrameExclusive DEF IsOpen
      <3>2. vmMAC[t] \in Macs /\ leases[vmMAC[t]] = vmIP[t] /\ routes[vmIP[t]] = t /\ vmIP[t] \in Pool
        BY <3>1 DEF ExclusiveInv, HoldersRouted, TypeOK
      <3>3. vmIP[t] # ip /\ vmMAC[t] # mac
        BY <1>1, <1>2, <3>1, <3>2
      <3> QED
        BY <1>3, <3>1, <3>2, <3>3
    <2> QED
      BY <2>1, <2>2
  <1>5. LeasesHeld'
    <2> SUFFICES ASSUME NEW m \in Macs, leases'[m] # None
                 PROVE  \E t \in Ids : IsOpen(t)' /\ vmMAC'[t] = m /\ vmIP'[t] = leases'[m]
      BY DEF LeasesHeld
    <2>1. CASE m = mac
      <3>1. IsOpen(s)' /\ vmMAC'[s] = mac /\ vmIP'[s] = leases'[mac]
        BY <1>3, FrameExclusive DEF IsOpen
      <3> QED
        BY <2>1, <3>1
    <2>2. CASE m # mac
      <3>1. PICK t \in Ids : IsOpen(t) /\ vmMAC[t] = m /\ vmIP[t] = leases[m]
        BY <1>3, <2>2 DEF ExclusiveInv, LeasesHeld
      <3>2. t # s
        BY <1>3, <2>2, <3>1
      <3>3. IsOpen(t)' /\ vmMAC'[t] = m /\ vmIP'[t] = leases'[m]
        BY <1>3, <2>2, <3>1, <3>2, FrameExclusive DEF IsOpen
      <3> QED
        BY <3>3
    <2> QED
      BY <2>1, <2>2
  <1>6. MacsDistinct' /\ NewUnnamed'
    BY <1>3, FrameExclusive DEF ExclusiveInv, NewUnnamed
  <1> QED
    BY <1>4, <1>5, <1>6 DEF ExclusiveInv

LEMMA ArpExclusive ==
  ASSUME TypeOK, PoolConsistent, ExclusiveInv, Exclusive,
         NEW s \in Ids, NEW mac \in Macs, Arp(s, mac)
  PROVE  ExclusiveInv'
  BY QuietFrameExclusive, AssigningFrameExclusive DEF Arp

LEMMA DhcpExclusive ==
  ASSUME TypeOK, PoolConsistent, ExclusiveInv, Exclusive,
         NEW s \in Ids, NEW mac \in Macs, NEW clientMAC \in Macs, Dhcp(s, mac, clientMAC)
  PROVE  ExclusiveInv'
  <1>1. clientMAC = mac /\ Frame(s, mac)
    BY DEF Dhcp, Exclusive
  <1>2. CASE CanLease(mac) /\ vmIP[s] # None
    <2>1. leases[mac] = vmIP[s]
      BY <1>1, <1>2, FrameExclusive DEF ExclusiveInv, HoldersRouted
    <2>2. UNCHANGED <<vmIP, leases, routes>>
      BY <1>1, <1>2, <2>1 DEF Dhcp, Allocate, Allocated, TypeOK
    <2> QED
      BY <1>1, <2>2, QuietFrameExclusive
  <1>3. CASE CanLease(mac) /\ vmIP[s] = None
    BY <1>1, <1>3, AssigningFrameExclusive DEF Dhcp
  <1>4. CASE ~CanLease(mac)
    BY <1>1, <1>4, QuietFrameExclusive DEF Dhcp
  <1> QED
    BY <1>2, <1>3, <1>4

LEMMA CloseExclusive ==
  ASSUME TypeOK, PoolConsistent, ExclusiveInv, Exclusive, NEW s \in Ids, Close(s)
  PROVE  ExclusiveInv'
  <1> DEFINE mac == vmMAC[s]
             ip == leases[mac]
  <1>1. /\ UNCHANGED <<vmMAC, vmIP>>
        /\ \A t \in Ids : IsOpen(t)' <=> IsOpen(t) /\ t # s
        /\ \A t \in Ids : state'[t] = "new" => state[t] = "new"
        /\ IsOpen(s)
    BY DEF Close, IsOpen, TypeOK
  <1>2. MacsDistinct' /\ NewUnnamed'
    BY <1>1 DEF ExclusiveInv, MacsDistinct, NewUnnamed
  <1>3. CASE mac = None \/ ip = None
    <2>1. UNCHANGED <<leases, routes>> /\ vmIP[s] = None
      BY <1>1, <1>3 DEF Close, Release, ExclusiveInv, HoldersRouted
    <2>2. HoldersRouted'
      BY <1>1, <2>1 DEF ExclusiveInv, HoldersRouted
    <2>3. LeasesHeld'
      BY <1>1, <2>1 DEF ExclusiveInv, LeasesHeld
    <2> QED
      BY <1>2, <2>2, <2>3 DEF ExclusiveInv
  <1>4. CASE ~(mac = None \/ ip = None)
    <2>1. mac \in Macs /\ ip \in Pool /\ ip # None
      BY <1>4 DEF TypeOK
    <2>2. /\ \A m \in Macs : leases'[m] = IF m = mac THEN None ELSE leases[m]
          /\ \A other \in Pool : routes'[other] = IF other = ip THEN None ELSE routes[other]
      BY <1>4, <2>1 DEF Close, Release, TypeOK
    <2>3. \A m \in Macs : leases[m] = ip => m = mac
      BY <2>1 DEF PoolConsistent
    <2>4. \A t \in Ids : IsOpen(t) /\ vmMAC[t] = mac => t = s
      BY <1>1, <2>1 DEF ExclusiveInv, MacsDistinct
    <2> HIDE DEF ip
    <2>5. HoldersRouted'
      <3> SUFFICES ASSUME NEW t \in Ids, IsOpen(t)', vmIP[t] # None
                   PROVE  vmMAC[t] # None /\ leases'[vmMAC[t]] = vmIP[t] /\ routes'[vmIP[t]] = t
        BY <1>1 DEF HoldersRouted
      <3>1. IsOpen(t) /\ t # s /\ vmMAC[t] \in Macs /\ vmIP[t] \in Pool
            /\ leases[vmMAC[t]] = vmIP[t] /\ routes[vmIP[t]] = t
        BY <1>1 DEF ExclusiveInv, HoldersRouted, TypeOK
      <3>2. vmMAC[t] # mac
        BY <2>4, <3>1
      <3>3. vmIP[t] # ip
        BY <2>3, <3>1, <3>2
      <3> QED
        BY <2>1, <2>2, <3>1, <3>2, <3>3
    <2>6. LeasesHeld'
      <3> SUFFICES ASSUME NEW m \in Macs, leases'[m] # None
                   PROVE  \E t \in Ids : IsOpen(t)' /\ vmMAC[t] = m /\ vmIP[t] = leases'[m]
        BY <1>1 DEF LeasesHeld
      <3>1. m # mac /\ leases'[m] = leases[m]
        BY <2>2
      <3>2. PICK t \in Ids : IsOpen(t) /\ vmMAC[t] = m /\ vmIP[t] = leases[m]
        BY <3>1 DEF ExclusiveInv, LeasesHeld
      <3> QED
        BY <1>1, <3>1, <3>2
    <2> QED
      BY <1>2, <2>5, <2>6 DEF ExclusiveInv
  <1> QED
    BY <1>3, <1>4

LEMMA NextExclusive ==
  ASSUME TypeOK, PoolConsistent, ExclusiveInv, [Next]_vars
  PROVE  ExclusiveInv'
  <1>1. environment' = environment
    BY DEF Next, Connect, Arp, Dhcp, OtherFrame, Frame, Close, vars
  <1>2. CASE ~Exclusive
    BY <1>1, <1>2 DEF ExclusiveInv, Exclusive
  <1>3. CASE Exclusive
    <2>1. ASSUME NEW s \in Ids, NEW mac \in Macs, OtherFrame(s, mac) PROVE ExclusiveInv'
      BY <1>3, <2>1, QuietFrameExclusive DEF OtherFrame
    <2>2. CASE UNCHANGED vars
      BY <2>2, ExclusiveUnchanged
    <2> QED
      BY <1>3, <2>1, <2>2, ConnectExclusive, ArpExclusive, DhcpExclusive, CloseExclusive DEF Next
  <1> QED
    BY <1>2, <1>3

LEMMA ExclusiveInvariant == Spec => []ExclusiveInv
  BY TablesInvariant, InitExclusive, NextExclusive, PTL DEF Spec

\* Packets for a connected VM reach its session and no other, when its machine keeps its
\* MAC and closes its old websocket first.  (Of machines that do not, TLC finds that it
\* fails; of those that carry any MAC it is not asked.)
THEOREM RoutesReachHolder ==
  ASSUME "reconnecting" \notin Environments
  PROVE  Spec => []RoutedToHolder
  <1>1. TypeOK /\ ExclusiveInv => RoutedToHolder
    <2> SUFFICES ASSUME TypeOK, ExclusiveInv, environment # "any"
                 PROVE  RoutedToHolder
      BY DEF RoutedToHolder
    <2>1. Exclusive
      BY DEF TypeOK, Exclusive
    <2>2. ASSUME NEW s \in Ids, IsOpen(s), vmIP[s] # None
          PROVE  routes[vmIP[s]] = s /\ s # None
      BY <2>1, <2>2 DEF ExclusiveInv, HoldersRouted
    <2> QED
      BY <2>2, Zenon DEF RoutedToHolder
  <1> QED
    BY <1>1, TypeCorrect, ExclusiveInvariant, PTL

\* Every lease belongs to a connected VM, of the same machines, so that those that left
\* never use the pool up (VMSession.close, releaseIP).
THEOREM LeasesAreReturned == Spec => []LeasesReturned
  <1>1. ExclusiveInv => LeasesReturned
    BY DEF ExclusiveInv, LeasesHeld, LeasesReturned
  <1> QED
    BY <1>1, ExclusiveInvariant, PTL
=============================================================================
