------------------------------- MODULE Sessions -------------------------------
(***************************************************************************)
(* The relay's process-wide tables about its VMs (relay.js): how many      *)
(* websockets each client address has open, which address of the pool each *)
(* MAC leases, and which session the packets for an address go to.  A VM   *)
(* gets its address from the first ARP or DHCP frame it sends, and gives   *)
(* it back when its websocket closes, which may be long after the machine  *)
(* has connected again.                                                    *)
(*                                                                         *)
(* Seeded faults, used to see that the properties can fail: FreePastEnd,   *)
(* ArpOnlyAllocates, ReleasedKeepsLease and ReleasedKeepsUsed.             *)
(***************************************************************************)
EXTENDS Integers, FiniteSets

CONSTANTS
  Ids,             \* sessions, each opened once: a bound of the model
  Macs, Clients,   \* MAC addresses of VMs, addresses of their hosts
  Pool,            \* DHCP_START .. DHCP_END
  MaxConnections,  \* MAX_CONNECTIONS_PER_IP
  Environments,    \* what VMs may do with MAC addresses, see MayCarry
  None

ASSUME IdsAssumption == IsFiniteSet(Ids)
ASSUME PoolAssumption == Pool \subseteq Nat
ASSUME MaxConnectionsAssumption == MaxConnections \in Nat
ASSUME NoneAssumption == None \notin Ids \cup Macs \cup Pool
ASSUME EnvironmentsAssumption == Environments \subseteq {"exclusive", "reconnecting", "any"}

VARIABLES
  environment,  \* what the VMs of this behaviour do with MAC addresses
  state,        \* of each session: "new", "open", "refused" or "closed"
  clientOf,     \* session.clientIP
  vmMAC,        \* session.vmMAC
  vmIP,         \* session.vmIP
  connections,  \* connectionsPerIP
  leases,       \* macToIP
  usedIPs,
  routes        \* ipToSession

vars == <<environment, state, clientOf, vmMAC, vmIP, connections, leases, usedIPs, routes>>

IsOpen(s) == state[s] = "open"

TypeOK ==
  /\ environment \in Environments
  /\ state \in [Ids -> {"new", "open", "refused", "closed"}]
  /\ clientOf \in [Ids -> Clients]
  /\ vmMAC \in [Ids -> Macs \cup {None}]
  /\ vmIP \in [Ids -> Pool \cup {None}]
  /\ connections \in [Clients -> Nat]
  /\ leases \in [Macs -> Pool \cup {None}]
  /\ usedIPs \subseteq Pool \cup {2}
  /\ routes \in [Pool -> Ids \cup {None}]

Reserved == {2}

Init ==
  /\ environment \in Environments
  /\ state = [s \in Ids |-> "new"]
  /\ clientOf \in [Ids -> Clients]
  /\ vmMAC = [s \in Ids |-> None]
  /\ vmIP = [s \in Ids |-> None]
  /\ connections = [c \in Clients |-> 0]
  /\ leases = [mac \in Macs |-> None]
  /\ usedIPs = Reserved
  /\ routes = [ip \in Pool |-> None]
-----------------------------------------------------------------------------
(* allocateIP and releaseIP.                                               *)

FreePastEnd == (Pool \cup {ip + 1 : ip \in Pool}) \ usedIPs

Free == Pool \ usedIPs

LeastFree == CHOOSE ip \in Free : \A other \in Free : ip <= other

CanLease(mac) == leases[mac] # None \/ Free # {}

\* What allocateIP(mac) returns when it does not throw.
Allocated(mac) == IF leases[mac] # None THEN leases[mac] ELSE LeastFree

Allocate(mac) ==
  /\ leases' = [leases EXCEPT ![mac] = Allocated(mac)]
  /\ usedIPs' = usedIPs \cup {Allocated(mac)}

ReleasedKeepsLease(mac) ==
  LET ip == leases[mac]
  IN IF mac = None \/ ip = None THEN UNCHANGED <<leases, usedIPs, routes>>
     ELSE /\ usedIPs' = usedIPs \ {ip}
          /\ routes' = [routes EXCEPT ![ip] = None]
          /\ UNCHANGED leases

ReleasedKeepsUsed(mac) ==
  LET ip == leases[mac]
  IN IF mac = None \/ ip = None THEN UNCHANGED <<leases, usedIPs, routes>>
     ELSE /\ leases' = [leases EXCEPT ![mac] = None]
          /\ routes' = [routes EXCEPT ![ip] = None]
          /\ UNCHANGED usedIPs

Release(mac) ==
  LET ip == leases[mac]
  IN IF mac = None \/ ip = None THEN UNCHANGED <<leases, usedIPs, routes>>
     ELSE /\ usedIPs' = usedIPs \ {ip}
          /\ leases' = [leases EXCEPT ![mac] = None]
          /\ routes' = [routes EXCEPT ![ip] = None]
-----------------------------------------------------------------------------
(* The life of a session.                                                  *)

Admits(client) == connections[client] < MaxConnections

Connect(s) ==
  /\ state[s] = "new"
  /\ IF Admits(clientOf[s])
     THEN /\ state' = [state EXCEPT ![s] = "open"]
          /\ connections' = [connections EXCEPT ![clientOf[s]] = @ + 1]
     ELSE /\ state' = [state EXCEPT ![s] = "refused"]
          /\ UNCHANGED connections
  /\ UNCHANGED <<environment, clientOf, vmMAC, vmIP, leases, usedIPs, routes>>

\* May a frame of session s carry this source MAC?  "exclusive": a machine has one
\* MAC, and its old websocket is closed before it uses a new one; "reconnecting":
\* the old websocket may linger.
MayCarry(s, mac) ==
  \/ environment = "any"
  \/ /\ vmMAC[s] \in {None, mac}
     /\ \/ environment = "reconnecting"
        \/ \A other \in Ids \ {s} : IsOpen(other) => vmMAC[other] # mac

\* handleEthernetFrame notes the source MAC of every frame.
Frame(s, mac) ==
  /\ IsOpen(s)
  /\ MayCarry(s, mac)
  /\ vmMAC' = [vmMAC EXCEPT ![s] = mac]
  /\ UNCHANGED <<environment, state, clientOf, connections>>

\* handleARP and handleDHCP give the session the address unless it has one.
Assign(s, ip) ==
  /\ vmIP' = [vmIP EXCEPT ![s] = ip]
  /\ routes' = [routes EXCEPT ![ip] = s]

ArpOnlyAllocates(s, mac) ==
  /\ Frame(s, mac)
  /\ IF vmIP[s] = None /\ CanLease(mac)
     THEN /\ Allocate(mac)
          /\ vmIP' = [vmIP EXCEPT ![s] = Allocated(mac)]
          /\ UNCHANGED routes
     ELSE UNCHANGED <<vmIP, leases, usedIPs, routes>>

Arp(s, mac) ==
  /\ Frame(s, mac)
  /\ IF vmIP[s] = None /\ CanLease(mac)
     THEN Allocate(mac) /\ Assign(s, Allocated(mac))
     ELSE UNCHANGED <<vmIP, leases, usedIPs, routes>>

\* A DHCP packet names the MAC it asks for itself.
Dhcp(s, mac, clientMAC) ==
  /\ Frame(s, mac)
  /\ environment # "any" => clientMAC = mac
  /\ IF CanLease(clientMAC)
     THEN /\ Allocate(clientMAC)
          /\ IF vmIP[s] = None THEN Assign(s, Allocated(clientMAC))
             ELSE UNCHANGED <<vmIP, routes>>
     ELSE UNCHANGED <<vmIP, leases, usedIPs, routes>>

OtherFrame(s, mac) ==
  /\ Frame(s, mac)
  /\ UNCHANGED <<vmIP, leases, usedIPs, routes>>

\* The "close" event of the websocket, and VMSession.close.
Close(s) ==
  /\ IsOpen(s)
  /\ state' = [state EXCEPT ![s] = "closed"]
  /\ connections' = [connections EXCEPT ![clientOf[s]] = IF @ > 0 THEN @ - 1 ELSE 0]
  /\ Release(vmMAC[s])
  /\ UNCHANGED <<environment, clientOf, vmMAC, vmIP>>

Next ==
  \E s \in Ids :
    \/ Connect(s)
    \/ \E mac \in Macs : Arp(s, mac)
    \/ \E mac, clientMAC \in Macs : Dhcp(s, mac, clientMAC)
    \/ \E mac \in Macs : OtherFrame(s, mac)
    \/ Close(s)

Spec == Init /\ [][Next]_vars
-----------------------------------------------------------------------------
(* Properties.                                                             *)

Leased == {leases[mac] : mac \in Macs} \ {None}

PoolConsistent ==
  /\ usedIPs = Leased \cup Reserved
  /\ Leased \cap Reserved = {}
  /\ \A m, n \in Macs : leases[m] = leases[n] /\ leases[m] # None => m = n
  /\ \A ip \in Pool : routes[ip] # None => ip \in Leased

ConnectionsCounted ==
  \A c \in Clients :
    /\ connections[c] = Cardinality({s \in Ids : IsOpen(s) /\ clientOf[s] = c})
    /\ connections[c] <= MaxConnections

\* The tables agree whatever MACs the frames carry.  An address is used exactly when
\* one MAC leases it, no two MACs lease the same, the reserved number is never
\* leased, and packets are routed only for leased addresses (allocateIP, releaseIP,
\* and the ipToSession entries of handleARP and handleDHCP).  connectionsPerIP
\* counts the open websockets of each client address, refused ones not included,
\* and never lets one have more than MAX_CONNECTIONS_PER_IP.
TablesExact == PoolConsistent /\ ConnectionsCounted

\* What follows asks something of the machines: each keeps its MAC, and its old
\* websocket has closed before it uses another one.
Exclusive == environment = "exclusive"

\* "Track IP -> VMSession for inter-VM routing" (relay.js:241): the packets for the
\* address of a connected VM go to a connected session that has it; and to no other
\* VM, so that no two that are connected have the same address.
RoutedToHolder ==
  environment # "any" =>
    \A s \in Ids : IsOpen(s) /\ vmIP[s] # None =>
      LET target == routes[vmIP[s]]
      IN /\ target # None /\ IsOpen(target) /\ vmIP[target] = vmIP[s]
         /\ Exclusive => target = s

\* "Release IP when session closes" (relay.js:2446): every lease belongs to a VM
\* that is still connected, so the pool is never used up by those that left.
LeasesReturned ==
  Exclusive =>
    \A mac \in Macs : leases[mac] # None =>
      \E s \in Ids : IsOpen(s) /\ vmMAC[s] = mac /\ vmIP[s] = leases[mac]
=============================================================================
