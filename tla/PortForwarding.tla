---------------------------- MODULE PortForwarding ----------------------------
(***************************************************************************)
(* The forwarding rules of the admin server (relay.js): the listeners they *)
(* start on the host, and the NAT table by which a VM's session finds who  *)
(* sent the UDP datagram a VM answers.                                     *)
(*                                                                         *)
(* A listener is started when its rule is posted and noted in the running  *)
(* maps by a callback, once it is bound; the removal of a rule stops what  *)
(* the maps hold.  A rule removed in between leaves a listener behind that *)
(* nothing stops any more: its status is "removed early".                  *)
(*                                                                         *)
(* The VM sees each datagram of a client come from a port of the gateway   *)
(* taken for it alone, and answers to that port.  Datagrams are numbered,  *)
(* and every one is taken to have a sender of its own.  What a forwarded   *)
(* TCP client does once it is accepted is in ConnectionTables.             *)
(*                                                                         *)
(* Seeded faults, used to see that the properties can fail:                *)
(* RandomPortsPastEnd, StoppedFirstOnly and FreePortsUnchecked.            *)
(***************************************************************************)
EXTENDS Integers, Sequences, Functions

CONSTANTS
  MaxRules,      \* rules posted in all: a bound of the model
  MaxDatagrams,  \* datagrams of clients forwarded in all: a bound of the model
  HostPorts,     \* ports of the host that rules name
  FirstNatPort, NatPorts  \* 40000 and 10000

ASSUME BoundsAssumption == MaxRules \in Nat /\ MaxDatagrams \in Nat
ASSUME HostPortsAssumption == HostPorts \subseteq Nat \ {0}
ASSUME NatPortsAssumption == FirstNatPort \in Nat /\ NatPorts \in Nat \ {0}

Ids == 1 .. MaxRules
Protocols == {"tcp", "udp"}

VARIABLES
  rules,            \* by id: those in proxyRules, and those there were
  listener,         \* of each rule and protocol
  running,          \* the keys of runningTcpProxies and runningUdpProxies
  udpProxySockets,  \* its keys
  nat,              \* udpProxyNatTable of the VM's present session: datagrams by port
  sent,             \* the datagrams that were forwarded to the VM
  process

hostVars == <<rules, listener, running, udpProxySockets>>
natVars == <<nat, sent>>
vars == <<hostVars, natVars, process>>

NatPortSet == FirstNatPort .. FirstNatPort + NatPorts - 1

\* A rule of the HTTP proxy has no protocols and no port of its own.
Rule == [status : {"none", "kept", "removed", "removed early"},
         protocols : SUBSET Protocols, hostPort : HostPorts \cup {0}]

\* "pending" is its timer, "young" a lastSeen that will not be long enough ago when the
\* timer looks at it, the clock having been set back meanwhile.
Datagram == [rule : Ids, port : NatPortSet, pending : BOOLEAN, young : BOOLEAN]

TypeOK ==
  /\ rules \in [Ids -> Rule]
  /\ listener \in [Ids -> [Protocols -> {"none", "starting", "listening", "closed"}]]
  /\ running \in [Protocols -> SUBSET Ids]
  /\ udpProxySockets \subseteq Ids
  /\ \E ports \in SUBSET NatPortSet : nat \in [ports -> DOMAIN sent]
  /\ sent \in Seq(Datagram)
  /\ process \in {"running", "hung", "ended"}

Init ==
  /\ rules = [id \in Ids |-> [status |-> "none", protocols |-> {}, hostPort |-> 0]]
  /\ listener = [id \in Ids |-> [p \in Protocols |-> "none"]]
  /\ running = [p \in Protocols |-> {}]
  /\ udpProxySockets = {}
  /\ nat = <<>>
  /\ sent = <<>>
  /\ process = "running"

Up == process = "running"
-----------------------------------------------------------------------------
(* Rules and their listeners.                                              *)

\* Ids are given in order and never again.
IsNextId(id) == rules[id].status = "none" /\ \A other \in 1 .. id - 1 : rules[other].status # "none"

Post(id, protocols, hostPort) ==
  /\ Up
  /\ IsNextId(id)
  /\ rules' = [rules EXCEPT ![id] = [status |-> "kept", protocols |-> protocols,
                                     hostPort |-> hostPort]]
  /\ listener' = [listener EXCEPT ![id] = [p \in Protocols |->
                    IF p \in protocols THEN "starting" ELSE "none"]]
  /\ UNCHANGED <<running, udpProxySockets, natVars, process>>

Bound(p, hostPort) ==
  \E id \in Ids : listener[id][p] = "listening" /\ rules[id].hostPort = hostPort

\* A starting listener is bound, and its callback runs.
Binds(id, p) ==
  /\ Up
  /\ listener[id][p] = "starting"
  /\ ~Bound(p, rules[id].hostPort)
  /\ listener' = [listener EXCEPT ![id][p] = "listening"]
  /\ running' = [running EXCEPT ![p] = @ \cup {id}]
  /\ UNCHANGED <<rules, natVars, process>>

TcpListening(id) == Binds(id, "tcp") /\ UNCHANGED udpProxySockets

UdpListening(id) == Binds(id, "udp") /\ udpProxySockets' = udpProxySockets \cup {id}

\* The "error" event instead: the port is taken, by a rule or another program, or not
\* allowed.  The UDP handler also stops the rule, which is not in the map.
ListenFails(id, p) ==
  /\ Up
  /\ listener[id][p] = "starting"
  /\ listener' = [listener EXCEPT ![id][p] = "closed"]
  /\ UNCHANGED <<rules, running, udpProxySockets, natVars, process>>

StoppedFirstOnly(id) ==
  LET found == {p \in rules[id].protocols : id \in running[p]}
  IN IF "tcp" \in found THEN {"tcp"} ELSE found

\* stopPortForward stops what the maps hold.
Stopped(id) == {p \in rules[id].protocols : id \in running[p]}

Stop(id, protocols) ==
  /\ listener' = [listener EXCEPT ![id] =
                   [p \in Protocols |-> IF p \in protocols THEN "closed" ELSE @[p]]]
  /\ running' = [p \in Protocols |-> IF p \in protocols THEN running[p] \ {id} ELSE running[p]]
  /\ udpProxySockets' = IF "udp" \in protocols THEN udpProxySockets \ {id} ELSE udpProxySockets

Delete(id) ==
  LET early == \E p \in Protocols : listener[id][p] = "starting"
  IN /\ Up
     /\ rules[id].status = "kept"
     /\ rules' = [rules EXCEPT ![id].status = IF early THEN "removed early" ELSE "removed"]
     /\ Stop(id, Stopped(id))
     /\ UNCHANGED <<natVars, process>>

\* An error of a bound UDP socket, of a send for instance: its handler closes it, and
\* stopUdpForward closes it again, which throws where nobody catches it.
UdpSocketFails(id) ==
  /\ Up
  /\ listener[id].udp = "listening"
  /\ id \in running["udp"]
  /\ process' = "ended"
  /\ UNCHANGED <<hostVars, natVars>>
-----------------------------------------------------------------------------
(* UDP datagrams of clients, and the NAT table.                            *)

RandomPortsPastEnd == {FirstNatPort + k : k \in 0 .. NatPorts}

\* 40000 + Math.floor(Math.random() * 10000)
RandomPorts == {FirstNatPort + k : k \in 0 .. NatPorts - 1}

FreePortsUnchecked == RandomPorts

FreePorts == RandomPorts \ DOMAIN nat

Arrives(id) == Up /\ listener[id].udp = "listening" /\ Len(sent) < MaxDatagrams

\* forwardUdpPacket; without a session of the VM the datagram is dropped.
ForwardUdpPacket(id, port) ==
  /\ Arrives(id)
  /\ port \in FreePorts
  /\ nat' = [other \in DOMAIN nat \cup {port} |->
              IF other = port THEN Len(sent) + 1 ELSE nat[other]]
  /\ sent' = Append(sent, [rule |-> id, port |-> port, pending |-> TRUE, young |-> FALSE])
  /\ UNCHANGED <<hostVars, process>>

\* The search tries ports until it finds a free one.
SearchHangs(id) ==
  /\ Arrives(id)
  /\ FreePorts = {}
  /\ process' = "hung"
  /\ UNCHANGED <<hostVars, natVars>>

\* 31 seconds after a datagram.  What is under its port is looked at, this once.
NatTimer(d) ==
  LET port == sent[d].port
      old == port \in DOMAIN nat /\ ~sent[nat[port]].young
  IN /\ Up
     /\ sent[d].pending
     /\ sent' = [sent EXCEPT ![d].pending = FALSE]
     /\ nat' = IF old THEN RestrictDomain(nat, LAMBDA other : other # port) ELSE nat
     /\ UNCHANGED <<hostVars, process>>

\* By more than a second, and Date.now goes back with it.
ClockSetBack ==
  /\ Up
  /\ sent' = [d \in DOMAIN sent |-> [sent[d] EXCEPT !.young = @ \/ sent[d].pending]]
  /\ UNCHANGED <<hostVars, nat, process>>

\* A new session starts with an empty table; the old one's, and its timers, decide
\* nothing any more.
VmReconnects ==
  /\ Up
  /\ nat' = <<>>
  /\ sent' = [d \in DOMAIN sent |->
               [sent[d] EXCEPT !.pending = FALSE, !.young = FALSE]]
  /\ UNCHANGED <<hostVars, process>>

Next ==
  \/ \E id \in Ids :
       \/ Post(id, {}, 0)
       \/ \E protocols \in SUBSET Protocols \ {{}}, hostPort \in HostPorts :
            Post(id, protocols, hostPort)
       \/ TcpListening(id) \/ UdpListening(id)
       \/ \E p \in Protocols : ListenFails(id, p)
       \/ Delete(id)
       \/ UdpSocketFails(id)
       \/ \E port \in RandomPorts : ForwardUdpPacket(id, port)
       \/ SearchHangs(id)
  \/ \E d \in DOMAIN sent : NatTimer(d)
  \/ ClockSetBack
  \/ VmReconnects

Spec == Init /\ [][Next]_vars
-----------------------------------------------------------------------------
(* Properties.                                                             *)

\* What listens is known: the maps hold exactly the listeners that are bound, both
\* UDP maps the same ones, whichever listeners started or failed and in what order;
\* and a rule that was removed listens no more, unless it was removed while it still
\* had a listener to start (the callbacks of startTcpForward and startUdpForward
\* against stopPortForward).
ListenersAccounted ==
  /\ \A id \in Ids, p \in Protocols : id \in running[p] <=> listener[id][p] = "listening"
  /\ udpProxySockets = running["udp"]
  /\ \A id \in Ids, p \in Protocols :
       rules[id].status = "removed" => listener[id][p] \notin {"starting", "listening"}

\* To which datagram a datagram of the VM to a port is taken to be the answer
\* (handleUDP, before it looks at anything else).
AnswerTo(port) ==
  IF port \notin DOMAIN nat THEN {}
  ELSE {d \in {nat[port]} : sent[d].rule \in udpProxySockets}

\* In the 31 seconds after a client's datagram, the VM's answers to it go to that
\* client, or nowhere once its rule has been removed, however many datagrams of
\* whichever rules come in; and an entry is not kept longer unless the clock was set
\* back, so that the search for a port hangs only when as many datagrams as there are
\* ports came within 31 seconds (forwardUdpPacket and its timer, handleUDP,
\* stopUdpForward).
RepliesReachSender ==
  /\ \A d \in DOMAIN sent : sent[d].pending =>
       AnswerTo(sent[d].port) = IF listener[sent[d].rule].udp = "listening" THEN {d} ELSE {}
  /\ \A port \in DOMAIN nat :
       LET entry == sent[nat[port]]
       IN entry.port = port /\ (entry.pending \/ entry.young)
=============================================================================
