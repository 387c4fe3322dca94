-------------------------- MODULE ForwardingProofs --------------------------
(***************************************************************************)
(* The two modules that carry datagrams between the VMs and the world:     *)
(* what holds of PortForwarding for any number of rules, datagrams and NAT *)
(* ports, and of UdpFlows for any keys, sockets, limit and timeout.        *)
(***************************************************************************)
EXTENDS PortForwarding, UdpFlows, FiniteSetTheorems, TLAPS

USE BoundsAssumption, HostPortsAssumption, NatPortsAssumption
-----------------------------------------------------------------------------
(* Type correctness.  The NAT table is the conjunct that needs an argument *)
(* of its own: its ports come and go, and its datagrams are those sent.    *)

LEMMA NatFields ==
  ASSUME TypeOK
  PROVE  /\ nat \in [DOMAIN nat -> DOMAIN sent]
         /\ DOMAIN nat \subseteq NatPortSet
         /\ DOMAIN sent = 1 .. Len(sent) /\ Len(sent) \in Nat
         /\ \A d \in DOMAIN sent : sent[d] \in Datagram
  BY DEF TypeOK

\* A step keeps the types if it keeps them in each variable.
LEMMA TypeFromParts ==
  ASSUME rules' \in [Ids -> Rule],
         listener' \in [Ids -> [Protocols -> {"none", "starting", "listening", "closed"}]],
         running' \in [Protocols -> SUBSET Ids],
         udpProxySockets' \subseteq Ids,
         DOMAIN nat' \subseteq NatPortSet,
         nat' \in [DOMAIN nat' -> DOMAIN sent'],
         sent' \in Seq(Datagram),
         process' \in {"running", "hung", "ended"}
  PROVE  TypeOK'
  BY DEF TypeOK

LEMMA EmptyTable == DOMAIN <<>> = {} /\ \A S : <<>> \in [{} -> S]
  OBVIOUS

LEMMA InitType == Init => TypeOK
  <1> SUFFICES ASSUME Init PROVE TypeOK
    OBVIOUS
  <1>1. \E ports \in SUBSET NatPortSet : nat \in [ports -> DOMAIN sent]
    <2>1. nat \in [{} -> DOMAIN sent] /\ {} \in SUBSET NatPortSet
      BY DEF Init
    <2> QED
      BY <2>1
  <1>2. rules \in [Ids -> Rule]
    BY DEF Init, Rule
  <1>3. running \in [Protocols -> SUBSET Ids] /\ udpProxySockets \subseteq Ids
    BY DEF Init
  <1>4. listener \in [Ids -> [Protocols -> {"none", "starting", "listening", "closed"}]]
    BY DEF Init
  <1>5. sent \in Seq(Datagram) /\ process \in {"running", "hung", "ended"}
    BY DEF Init
  <1> QED
    BY <1>1, <1>2, <1>3, <1>4, <1>5 DEF TypeOK

\* Steps that change nothing of NAT.
LEMMA RulesType ==
  ASSUME TypeOK, UNCHANGED natVars,
         rules' \in [Ids -> Rule],
         listener' \in [Ids -> [Protocols -> {"none", "starting", "listening", "closed"}]],
         running' \in [Protocols -> SUBSET Ids],
         udpProxySockets' \subseteq Ids,
         process' \in {"running", "hung", "ended"}
  PROVE  TypeOK'
  BY DEF TypeOK, natVars, NatPortSet

LEMMA PostType ==
  ASSUME TypeOK, NEW id \in Ids, NEW protocols \in SUBSET Protocols,
         NEW hostPort \in HostPorts \cup {0}, Post(id, protocols, hostPort)
  PROVE  TypeOK'
  BY RulesType DEF TypeOK, Post, Rule

LEMMA BindsType ==
  ASSUME TypeOK, NEW id \in Ids, TcpListening(id) \/ UdpListening(id)
  PROVE  TypeOK'
  <1>1. PICK p \in Protocols : Binds(id, p)
    BY DEF TcpListening, UdpListening, Protocols
  <1>2. udpProxySockets' \subseteq Ids
    BY DEF TypeOK, TcpListening, UdpListening
  <1>3. /\ listener' \in [Ids -> [Protocols -> {"none", "starting", "listening", "closed"}]]
        /\ running' \in [Protocols -> SUBSET Ids]
    BY <1>1 DEF TypeOK, Binds
  <1>4. UNCHANGED <<rules, natVars, process>>
    BY <1>1 DEF Binds
  <1> QED
    BY <1>2, <1>3, <1>4, RulesType DEF TypeOK

LEMMA ListenFailsType ==
  ASSUME TypeOK, NEW id \in Ids, NEW p \in Protocols, ListenFails(id, p)
  PROVE  TypeOK'
  BY RulesType DEF TypeOK, ListenFails

LEMMA DeleteType ==
  ASSUME TypeOK, NEW id \in Ids, Delete(id)
  PROVE  TypeOK'
  <1>1. rules' \in [Ids -> Rule]
    <2>1. PICK status \in {"removed early", "removed"} : rules' = [rules EXCEPT ![id].status = status]
      BY DEF Delete
    <2>2. [rules[id] EXCEPT !.status = status] \in Rule
      <3>1. rules[id] \in Rule
        BY DEF TypeOK
      <3> QED
        BY <3>1 DEF Rule
    <2> QED
      BY <2>1, <2>2 DEF TypeOK
  <1>2. /\ listener' \in [Ids -> [Protocols -> {"none", "starting", "listening", "closed"}]]
        /\ running' \in [Protocols -> SUBSET Ids]
        /\ udpProxySockets' \subseteq Ids
    BY DEF TypeOK, Delete, Stop
  <1>3. UNCHANGED natVars /\ process' \in {"running", "hung", "ended"}
    BY DEF TypeOK, Delete
  <1> QED
    BY <1>1, <1>2, <1>3, RulesType

LEMMA EndsType ==
  ASSUME TypeOK, NEW id \in Ids, UdpSocketFails(id) \/ SearchHangs(id)
  PROVE  TypeOK'
  BY RulesType DEF TypeOK, UdpSocketFails, SearchHangs, hostVars

LEMMA ForwardType ==
  ASSUME TypeOK, NEW id \in Ids, NEW port \in RandomPorts, ForwardUdpPacket(id, port)
  PROVE  TypeOK'
  <1> DEFINE datagram == [rule |-> id, port |-> port, pending |-> TRUE, young |-> FALSE]
  <1>1. port \in NatPortSet
    BY DEF RandomPorts, NatPortSet
  <1>2. datagram \in Datagram
    BY <1>1 DEF Datagram
  <1>3. sent' = Append(sent, datagram) /\ sent \in Seq(Datagram)
    BY DEF ForwardUdpPacket, TypeOK
  <1>4. sent' \in Seq(Datagram) /\ DOMAIN sent' = DOMAIN sent \cup {Len(sent) + 1}
    BY <1>2, <1>3
  <1>5. DOMAIN nat' \subseteq NatPortSet /\ nat' \in [DOMAIN nat' -> DOMAIN sent']
    BY <1>1, <1>4, NatFields DEF ForwardUdpPacket
  <1> QED
    BY <1>4, <1>5, TypeFromParts DEF TypeOK, ForwardUdpPacket, hostVars

\* Steps that only mark datagrams and drop entries.
LEMMA MarksType ==
  ASSUME TypeOK, UNCHANGED <<hostVars, process>>,
         sent' \in [DOMAIN sent -> Datagram],
         DOMAIN nat' \subseteq DOMAIN nat,
         nat' \in [DOMAIN nat' -> DOMAIN sent]
  PROVE  TypeOK'
  <1>1. sent' \in Seq(Datagram) /\ DOMAIN sent' = DOMAIN sent
    BY NatFields
  <1> QED
    BY <1>1, NatFields, TypeFromParts DEF TypeOK, hostVars

LEMMA NatTimerType ==
  ASSUME TypeOK, NEW d \in DOMAIN sent, NatTimer(d)
  PROVE  TypeOK'
  <1>1. sent' \in [DOMAIN sent -> Datagram]
    <2>1. [sent[d] EXCEPT !.pending = FALSE] \in Datagram
      BY NatFields, Zenon DEF Datagram
    <2> QED
      BY <2>1, NatFields DEF NatTimer
  <1>2. DOMAIN nat' \subseteq DOMAIN nat /\ nat' \in [DOMAIN nat' -> DOMAIN sent]
    BY NatFields DEF NatTimer, RestrictDomain, Restrict
  <1> QED
    BY <1>1, <1>2, MarksType DEF NatTimer

LEMMA ClockSetBackType ==
  ASSUME TypeOK, ClockSetBack
  PROVE  TypeOK'
  <1>1. ASSUME NEW d \in DOMAIN sent
        PROVE  [sent[d] EXCEPT !.young = @ \/ sent[d].pending] \in Datagram
    BY NatFields, Zenon DEF Datagram
  <1>2. sent' \in [DOMAIN sent -> Datagram]
    BY <1>1, Zenon DEF ClockSetBack
  <1>3. nat' \in [DOMAIN nat' -> DOMAIN sent] /\ DOMAIN nat' \subseteq DOMAIN nat
    BY NatFields DEF ClockSetBack
  <1> QED
    BY <1>2, <1>3, MarksType DEF ClockSetBack

LEMMA VmReconnectsType ==
  ASSUME TypeOK, VmReconnects
  PROVE  TypeOK'
  <1>1. ASSUME NEW d \in DOMAIN sent
        PROVE  [sent[d] EXCEPT !.pending = FALSE, !.young = FALSE] \in Datagram
    BY NatFields, Zenon DEF Datagram
  <1>2. sent' \in [DOMAIN sent -> Datagram]
    BY <1>1, Zenon DEF VmReconnects
  <1>3. DOMAIN nat' \subseteq DOMAIN nat /\ nat' \in [DOMAIN nat' -> DOMAIN sent]
    <2>1. nat' = <<>>
      BY DEF VmReconnects
    <2> QED
      BY <2>1, EmptyTable
  <1> QED
    BY <1>2, <1>3, MarksType DEF VmReconnects

LEMMA NextType ==
  ASSUME TypeOK, [Next]_vars
  PROVE  TypeOK'
  <1>1. ASSUME NEW id \in Ids, Post(id, {}, 0) PROVE TypeOK'
    BY <1>1, PostType
  <1>2. ASSUME NEW id \in Ids, NEW protocols \in SUBSET Protocols, NEW hostPort \in HostPorts,
               Post(id, protocols, hostPort)
        PROVE  TypeOK'
    BY <1>2, PostType
  <1>3. ASSUME NEW id \in Ids, TcpListening(id) \/ UdpListening(id) PROVE TypeOK'
    BY <1>3, BindsType
  <1>4. ASSUME NEW id \in Ids, NEW p \in Protocols, ListenFails(id, p) PROVE TypeOK'
    BY <1>4, ListenFailsType
  <1>5. ASSUME NEW id \in Ids, Delete(id) PROVE TypeOK'
    BY <1>5, DeleteType
  <1>6. ASSUME NEW id \in Ids, UdpSocketFails(id) \/ SearchHangs(id) PROVE TypeOK'
    BY <1>6, EndsType
  <1>7. ASSUME NEW id \in Ids, NEW port \in RandomPorts, ForwardUdpPacket(id, port) PROVE TypeOK'
    BY <1>7, ForwardType
  <1>8. ASSUME NEW d \in DOMAIN sent, NatTimer(d) PROVE TypeOK'
    BY <1>8, NatTimerType
  <1>9. CASE ClockSetBack \/ VmReconnects
    BY <1>9, ClockSetBackType, VmReconnectsType
  <1>10. CASE UNCHANGED vars
    BY <1>10, RulesType DEF TypeOK, vars, hostVars
  <1> QED
    BY <1>1, <1>2, <1>3, <1>4, <1>5, <1>6, <1>7, <1>8, <1>9, <1>10, Zenon DEF Next

\* The rules, listeners, NAT entries and datagrams keep their types.
THEOREM TypeCorrect == Spec => []TypeOK
  BY InitType, NextType, PTL DEF Spec
-----------------------------------------------------------------------------
(* The listeners.  A listener that exists is one its rule asked for, so    *)
(* that the removal of the rule finds it.                                  *)

ListenersAsked ==
  \A id \in Ids, p \in Protocols :
    listener[id][p] # "none" => rules[id].status # "none" /\ p \in rules[id].protocols

ListenerInv == ListenersAccounted /\ ListenersAsked

LEMMA InitListeners == Init => ListenerInv
  BY DEF Init, ListenerInv, ListenersAccounted, ListenersAsked, Protocols

LEMMA PostListeners ==
  ASSUME TypeOK, ListenerInv, NEW id \in Ids, NEW protocols \in SUBSET Protocols,
         NEW hostPort \in HostPorts \cup {0}, Post(id, protocols, hostPort)
  PROVE  ListenerInv'
  <1>1. rules[id].status = "none" /\ \A p \in Protocols : listener[id][p] = "none"
    BY DEF Post, IsNextId, ListenerInv, ListenersAsked
  <1>2. \A p \in Protocols : id \notin running[p]
    BY <1>1 DEF ListenerInv, ListenersAccounted
  <1>3. ListenersAccounted'
    <2>1. /\ \A other \in Ids \ {id} : rules'[other] = rules[other] /\ listener'[other] = listener[other]
          /\ rules'[id].status = "kept"
          /\ \A p \in Protocols : listener'[id][p] \in {"starting", "none"}
          /\ running' = running /\ udpProxySockets' = udpProxySockets
      BY DEF TypeOK, Post, Rule
    <2> QED
      BY <1>2, <2>1 DEF ListenerInv, ListenersAccounted
  <1>4. ListenersAsked'
    BY DEF TypeOK, Post, ListenerInv, ListenersAsked, Rule
  <1> QED
    BY <1>3, <1>4 DEF ListenerInv

LEMMA BindsListeners ==
  ASSUME TypeOK, ListenerInv, NEW id \in Ids, TcpListening(id) \/ UdpListening(id)
  PROVE  ListenerInv'
  <1>1. PICK p \in Protocols : /\ Binds(id, p)
                               /\ udpProxySockets' = IF p = "udp" THEN udpProxySockets \cup {id}
                                                     ELSE udpProxySockets
    BY DEF TcpListening, UdpListening, Protocols
  <1>2. /\ listener' = [listener EXCEPT ![id][p] = "listening"]
        /\ running' = [running EXCEPT ![p] = @ \cup {id}]
        /\ listener[id][p] = "starting" /\ UNCHANGED rules
    BY <1>1 DEF Binds
  <1>3. ListenersAsked'
    BY <1>2 DEF TypeOK, ListenerInv, ListenersAsked
  <1>4. ListenersAccounted'
    <2>1. \A other \in Ids, q \in Protocols :
            other \in running'[q] <=> listener'[other][q] = "listening"
      BY <1>2 DEF TypeOK, ListenerInv, ListenersAccounted
    <2>2. udpProxySockets' = running'["udp"]
      BY <1>1, <1>2 DEF TypeOK, ListenerInv, ListenersAccounted, Protocols
    <2>3. \A other \in Ids, q \in Protocols :
            rules'[other].status = "removed" => listener'[other][q] \notin {"starting", "listening"}
      BY <1>2 DEF TypeOK, ListenerInv, ListenersAccounted
    <2> QED
      BY <2>1, <2>2, <2>3 DEF ListenersAccounted
  <1> QED
    BY <1>3, <1>4 DEF ListenerInv

LEMMA ListenFailsListeners ==
  ASSUME TypeOK, ListenerInv, NEW id \in Ids, NEW p \in Protocols, ListenFails(id, p)
  PROVE  ListenerInv'
  BY DEF TypeOK, ListenFails, ListenerInv, ListenersAccounted, ListenersAsked

\* Whatever the maps hold of the rule is stopped, and that is all that listens.
LEMMA DeleteListeners ==
  ASSUME TypeOK, ListenerInv, NEW id \in Ids, Delete(id)
  PROVE  ListenerInv'
  <1> DEFINE early == \E p \in Protocols : listener[id][p] = "starting"
  <1>1. \A p \in Protocols : p \in Stopped(id) <=> listener[id][p] = "listening"
    BY DEF Stopped, ListenerInv, ListenersAccounted, ListenersAsked
  <1>2. \A other \in Ids, p \in Protocols :
          listener'[other][p] = IF other = id /\ p \in Stopped(id) THEN "closed"
                                ELSE listener[other][p]
    BY DEF TypeOK, Delete, Stop
  <1>3. \A p \in Protocols :
          running'[p] = IF p \in Stopped(id) THEN running[p] \ {id} ELSE running[p]
    BY DEF Delete, Stop
  <1>4. \A other \in Ids :
          /\ rules'[other].protocols = rules[other].protocols
          /\ rules'[other].status =
               IF other = id THEN IF early THEN "removed early" ELSE "removed"
               ELSE rules[other].status
    BY DEF TypeOK, Delete, Rule
  <1> HIDE DEF early
  <1>5. ListenersAsked'
    <2> SUFFICES ASSUME NEW other \in Ids, NEW p \in Protocols, listener'[other][p] # "none"
                 PROVE  rules'[other].status # "none" /\ p \in rules'[other].protocols
      BY DEF ListenersAsked
    <2>1. listener[other][p] # "none"
      BY <1>1, <1>2
    <2> QED
      BY <1>4, <2>1 DEF ListenerInv, ListenersAsked
  <1>6. ListenersAccounted'
    <2>1. \A other \in Ids, p \in Protocols :
            other \in running'[p] <=> listener'[other][p] = "listening"
      <3> TAKE other \in Ids, p \in Protocols
      <3>1. other \in running[p] <=> listener[other][p] = "listening"
        BY DEF ListenerInv, ListenersAccounted
      <3> QED
        BY <3>1, <1>1, <1>2, <1>3
    <2>2. udpProxySockets' = running'["udp"]
      BY <1>3 DEF Delete, Stop, ListenerInv, ListenersAccounted, Protocols
    <2>3. \A other \in Ids, p \in Protocols :
            rules'[other].status = "removed" => listener'[other][p] \notin {"starting", "listening"}
      <3> SUFFICES ASSUME NEW other \in Ids, NEW p \in Protocols,
                          rules'[other].status = "removed"
                   PROVE  listener'[other][p] \notin {"starting", "listening"}
        OBVIOUS
      <3>1. CASE other = id
        <4>1. listener[id][p] # "starting"
          BY <1>4, <3>1 DEF early
        <4> QED
          BY <1>1, <1>2, <3>1, <4>1
      <3>2. CASE other # id
        BY <1>2, <1>4, <3>2 DEF ListenerInv, ListenersAccounted
      <3> QED
        BY <3>1, <3>2
    <2> QED
      BY <2>1, <2>2, <2>3 DEF ListenersAccounted
  <1> QED
    BY <1>5, <1>6 DEF ListenerInv

\* All other actions leave the rules and their listeners alone.
LEMMA HostUnchanged ==
  ASSUME ListenerInv, UNCHANGED hostVars
  PROVE  ListenerInv'
  BY DEF hostVars, ListenerInv, ListenersAccounted, ListenersAsked

LEMMA NextListeners ==
  ASSUME TypeOK, ListenerInv, [Next]_vars
  PROVE  ListenerInv'
  <1>1. ASSUME NEW id \in Ids, Post(id, {}, 0) PROVE ListenerInv'
    BY <1>1, PostListeners
  <1>2. ASSUME NEW id \in Ids, NEW protocols \in SUBSET Protocols, NEW hostPort \in HostPorts,
               Post(id, protocols, hostPort)
        PROVE  ListenerInv'
    BY <1>2, PostListeners
  <1>3. ASSUME NEW id \in Ids, TcpListening(id) \/ UdpListening(id) PROVE ListenerInv'
    BY <1>3, BindsListeners
  <1>4. ASSUME NEW id \in Ids, NEW p \in Protocols, ListenFails(id, p) PROVE ListenerInv'
    BY <1>4, ListenFailsListeners
  <1>5. ASSUME NEW id \in Ids, Delete(id) PROVE ListenerInv'
    BY <1>5, DeleteListeners
  <1>6. ASSUME NEW id \in Ids, UdpSocketFails(id) \/ SearchHangs(id) PROVE ListenerInv'
    BY <1>6, HostUnchanged DEF UdpSocketFails, SearchHangs
  <1>7. ASSUME NEW id \in Ids, NEW port \in RandomPorts, ForwardUdpPacket(id, port)
        PROVE  ListenerInv'
    BY <1>7, HostUnchanged DEF ForwardUdpPacket
  <1>8. ASSUME NEW d \in DOMAIN sent, NatTimer(d) PROVE ListenerInv'
    BY <1>8, HostUnchanged DEF NatTimer
  <1>9. CASE ClockSetBack \/ VmReconnects
    BY <1>9, HostUnchanged DEF ClockSetBack, VmReconnects
  <1>10. CASE UNCHANGED vars
    BY <1>10, HostUnchanged DEF vars
  <1> QED
    BY <1>1, <1>2, <1>3, <1>4, <1>5, <1>6, <1>7, <1>8, <1>9, <1>10, Zenon DEF Next

LEMMA ListenerInvariant == Spec => []ListenerInv
  BY TypeCorrect, InitListeners, NextListeners, PTL DEF Spec

\* The maps hold exactly the listeners that are bound, and a removed rule listens no
\* more unless it was removed early (startTcpForward, startUdpForward, stopPortForward).
THEOREM ListenersAreAccounted == Spec => []ListenersAccounted
  <1>1. ListenerInv => ListenersAccounted
    BY DEF ListenerInv
  <1> QED
    BY <1>1, ListenerInvariant, PTL
-----------------------------------------------------------------------------
(* The NAT table.  RepliesReachSender says where answers go, which depends *)
(* on the listeners; the table itself maps the port of every datagram that *)
(* still has its timer to that datagram, so that no two of them share one. *)

PendingMapped ==
  \A d \in DOMAIN sent :
    sent[d].pending => sent[d].port \in DOMAIN nat /\ nat[sent[d].port] = d

EntriesTimed ==
  \A port \in DOMAIN nat :
    /\ sent[nat[port]].port = port
    /\ sent[nat[port]].pending \/ sent[nat[port]].young

NatInv == PendingMapped /\ EntriesTimed

LEMMA InitNat == Init => NatInv
  BY DEF Init, NatInv, PendingMapped, EntriesTimed

\* The port is free, so that it is nobody else's.
LEMMA ForwardNat ==
  ASSUME TypeOK, NatInv, NEW id \in Ids, NEW port \in RandomPorts, ForwardUdpPacket(id, port)
  PROVE  NatInv'
  <1> DEFINE datagram == [rule |-> id, port |-> port, pending |-> TRUE, young |-> FALSE]
             new == Len(sent) + 1
  <1>1. port \notin DOMAIN nat
    BY DEF ForwardUdpPacket, FreePorts
  <1>2. /\ DOMAIN sent' = DOMAIN sent \cup {new} /\ new \notin DOMAIN sent
        /\ \A d \in DOMAIN sent : sent'[d] = sent[d]
        /\ sent'[new] = datagram
    BY NatFields DEF ForwardUdpPacket, TypeOK
  <1>3. /\ DOMAIN nat' = DOMAIN nat \cup {port}
        /\ nat'[port] = new
        /\ \A other \in DOMAIN nat : nat'[other] = nat[other]
    BY <1>1 DEF ForwardUdpPacket
  <1>4. \A other \in DOMAIN nat : nat[other] \in DOMAIN sent
    BY NatFields
  <1>5. PendingMapped'
    BY <1>1, <1>2, <1>3 DEF NatInv, PendingMapped
  <1>6. EntriesTimed'
    BY <1>1, <1>2, <1>3, <1>4 DEF NatInv, EntriesTimed
  <1> QED
    BY <1>5, <1>6 DEF NatInv

\* The timer finds its own datagram, and no other pending one is under that port.
LEMMA NatTimerNat ==
  ASSUME TypeOK, NatInv, NEW d \in DOMAIN sent, NatTimer(d)
  PROVE  NatInv'
  <1> DEFINE port == sent[d].port
  <1>1. port \in DOMAIN nat /\ nat[port] = d
    BY DEF NatTimer, NatInv, PendingMapped
  <1>2. /\ DOMAIN sent' = DOMAIN sent
        /\ \A e \in DOMAIN sent :
             /\ sent'[e].port = sent[e].port /\ sent'[e].young = sent[e].young
             /\ sent'[e].pending = IF e = d THEN FALSE ELSE sent[e].pending
    BY NatFields DEF NatTimer, Datagram
  <1>3. nat' = IF ~sent[d].young THEN RestrictDomain(nat, LAMBDA other : other # port) ELSE nat
    BY <1>1 DEF NatTimer
  <1>4. /\ DOMAIN nat' = IF ~sent[d].young THEN DOMAIN nat \ {port} ELSE DOMAIN nat
        /\ \A other \in DOMAIN nat' : nat'[other] = nat[other]
    BY <1>3 DEF RestrictDomain, Restrict
  <1>5. \A other \in DOMAIN nat : nat[other] \in DOMAIN sent
    BY NatFields
  <1> HIDE DEF port
  <1>6. PendingMapped'
    <2> SUFFICES ASSUME NEW e \in DOMAIN sent, sent'[e].pending
                 PROVE  sent'[e].port \in DOMAIN nat' /\ nat'[sent'[e].port] = e
      BY <1>2 DEF PendingMapped
    <2>1. e # d /\ sent[e].pending
      BY <1>2
    <2>2. sent[e].port \in DOMAIN nat /\ nat[sent[e].port] = e
      BY <2>1 DEF NatInv, PendingMapped
    <2>3. sent[e].port # port
      BY <1>1, <2>1, <2>2
    <2> QED
      BY <1>2, <1>4, <2>2, <2>3
  <1>7. EntriesTimed'
    <2> SUFFICES ASSUME NEW other \in DOMAIN nat'
                 PROVE  /\ sent'[nat'[other]].port = other
                        /\ sent'[nat'[other]].pending \/ sent'[nat'[other]].young
      BY DEF EntriesTimed
    <2>1. other \in DOMAIN nat /\ nat'[other] = nat[other] /\ nat[other] \in DOMAIN sent
      BY <1>4, <1>5
    <2>2. sent[nat[other]].port = other /\ (sent[nat[other]].pending \/ sent[nat[other]].young)
      BY <2>1 DEF NatInv, EntriesTimed
    <2>3. nat[other] = d => sent[d].young
      BY <1>4, <2>2 DEF port
    <2> QED
      BY <1>2, <2>1, <2>2, <2>3
  <1> QED
    BY <1>6, <1>7 DEF NatInv

LEMMA ClockSetBackNat ==
  ASSUME TypeOK, NatInv, ClockSetBack
  PROVE  NatInv'
  <1>1. /\ DOMAIN sent' = DOMAIN sent /\ nat' = nat
        /\ \A e \in DOMAIN sent :
             /\ sent'[e].port = sent[e].port /\ sent'[e].pending = sent[e].pending
             /\ sent'[e].young <=> sent[e].young \/ sent[e].pending
    BY NatFields, Zenon DEF ClockSetBack, Datagram
  <1>2. \A other \in DOMAIN nat : nat[other] \in DOMAIN sent
    BY NatFields
  <1> QED
    BY <1>1, <1>2 DEF NatInv, PendingMapped, EntriesTimed

LEMMA VmReconnectsNat ==
  ASSUME TypeOK, NatInv, VmReconnects
  PROVE  NatInv'
  <1>1. DOMAIN nat' = {} /\ DOMAIN sent' = DOMAIN sent
    BY EmptyTable DEF VmReconnects
  <1>2. \A e \in DOMAIN sent : sent'[e].pending = FALSE
    BY NatFields, Zenon DEF VmReconnects, Datagram
  <1> QED
    BY <1>1, <1>2 DEF NatInv, PendingMapped, EntriesTimed

LEMMA NatUnchanged ==
  ASSUME NatInv, UNCHANGED natVars
  PROVE  NatInv'
  BY DEF natVars, NatInv, PendingMapped, EntriesTimed

LEMMA NextNat ==
  ASSUME TypeOK, NatInv, [Next]_vars
  PROVE  NatInv'
  <1>1. ASSUME NEW id \in Ids, NEW protocols \in SUBSET Protocols, NEW hostPort \in HostPorts \cup {0},
               Post(id, protocols, hostPort)
        PROVE  NatInv'
    BY <1>1, NatUnchanged DEF Post
  <1>2. ASSUME NEW id \in Ids, TcpListening(id) \/ UdpListening(id) PROVE NatInv'
    BY <1>2, NatUnchanged DEF TcpListening, UdpListening, Binds
  <1>3. ASSUME NEW id \in Ids, NEW p \in Protocols, ListenFails(id, p) PROVE NatInv'
    BY <1>3, NatUnchanged DEF ListenFails
  <1>4. ASSUME NEW id \in Ids, Delete(id) \/ UdpSocketFails(id) \/ SearchHangs(id) PROVE NatInv'
    BY <1>4, NatUnchanged DEF Delete, UdpSocketFails, SearchHangs
  <1>5. ASSUME NEW id \in Ids, NEW port \in RandomPorts, ForwardUdpPacket(id, port) PROVE NatInv'
    BY <1>5, ForwardNat
  <1>6. ASSUME NEW d \in DOMAIN sent, NatTimer(d) PROVE NatInv'
    BY <1>6, NatTimerNat
  <1>7. CASE ClockSetBack \/ VmReconnects
    BY <1>7, ClockSetBackNat, VmReconnectsNat
  <1>8. CASE UNCHANGED vars
    BY <1>8, NatUnchanged DEF vars
  <1>9. ASSUME NEW id \in Ids, Post(id, {}, 0) PROVE NatInv'
    BY <1>9, <1>1
  <1> QED
    BY <1>1, <1>2, <1>3, <1>4, <1>5, <1>6, <1>7, <1>8, <1>9 DEF Next

LEMMA NatInvariant == Spec => []NatInv
  BY TypeCorrect, InitNat, NextNat, PTL DEF Spec

LEMMA NatImpliesReplies ==
  ASSUME TypeOK, ListenerInv, NatInv
  PROVE  RepliesReachSender
  <1>1. ASSUME NEW d \in DOMAIN sent, sent[d].pending
        PROVE  AnswerTo(sent[d].port) = IF listener[sent[d].rule].udp = "listening" THEN {d} ELSE {}
    <2>1. sent[d].port \in DOMAIN nat /\ nat[sent[d].port] = d
      BY <1>1 DEF NatInv, PendingMapped
    <2>2. sent[d].rule \in Ids
      BY NatFields DEF Datagram
    <2>3. sent[d].rule \in udpProxySockets <=> listener[sent[d].rule].udp = "listening"
      BY <2>2 DEF ListenerInv, ListenersAccounted, Protocols
    <2> QED
      BY <2>1, <2>3 DEF AnswerTo
  <1> QED
    BY <1>1 DEF NatInv, EntriesTimed, RepliesReachSender

\* For 31 seconds the answers to a client's datagram go to that client, or nowhere once
\* its rule is gone, and no entry is kept longer unless the clock was set back, however
\* many datagrams of however many rules come in (forwardUdpPacket, handleUDP).
THEOREM AnswersReachSender == Spec => []RepliesReachSender
  BY TypeCorrect, ListenerInvariant, NatInvariant, NatImpliesReplies, PTL
-----------------------------------------------------------------------------
(* UdpFlows, for any keys, sockets, limit and timeout.                     *)

USE LimitAssumption, NamesAssumption

FlowType == [key : Keys, socket : Sockets]

\* A table as the code keeps it between two calls: each socket is open exactly as long as
\* its one flow is there, lastFlow is a flow of the table, and there are no more than
\* MaxFlows.  The last conjunct makes "no room" mean that exactly MaxFlows are in use; the
\* third, that counting flows and counting sockets is the same.
Sound(t) ==
  /\ t = [flows |-> t.flows, lastFlow |-> t.lastFlow, open |-> t.open]
  /\ t.flows \in [DOMAIN t.flows -> Sockets] /\ DOMAIN t.flows \subseteq Keys
  /\ \A j, k \in DOMAIN t.flows : t.flows[j] = t.flows[k] => j = k
  /\ t.open = {t.flows[k] : k \in DOMAIN t.flows}
  /\ t.lastFlow # None =>
       /\ t.lastFlow \in FlowType
       /\ t.lastFlow.key \in DOMAIN t.flows
       /\ t.flows[t.lastFlow.key] = t.lastFlow.socket
  /\ IsFiniteSet(DOMAIN t.flows) /\ Cardinality(DOMAIN t.flows) <= MaxFlows

FlowsInv ==
  /\ Sound(table)
  /\ age \in [Sockets -> 0 .. IdleTimeout]
  /\ answer \in {"none", "sent", "dropped", "failed"}
  /\ closed \in BOOLEAN
  /\ closed => DOMAIN table.flows = {}
-----------------------------------------------------------------------------
(* The operations on a table.                                              *)

LEMMA NoFlows == DOMAIN <<>> = {} /\ <<>> \in [{} -> Sockets]
  OBVIOUS

LEMMA FlowIsTyped ==
  ASSUME NEW key \in Keys, NEW s \in Sockets
  PROVE  /\ Flow(key, s) \in FlowType /\ Flow(key, s) # None
         /\ Flow(key, s).key = key /\ Flow(key, s).socket = s
  BY DEF Flow, FlowType

\* removeFlow keeps the table sound, whichever flows it is called for.
LEMMA RemovedSound ==
  ASSUME NEW t, Sound(t), NEW K \in SUBSET (DOMAIN t.flows)
  PROVE  Sound(Removed(t, K)) /\ DOMAIN Removed(t, K).flows = DOMAIN t.flows \ K
  <1> DEFINE gone == {Flow(k, t.flows[k]) : k \in K}
             D == DOMAIN t.flows \ K
             f == RestrictDomain(t.flows, LAMBDA k : k \notin K)
             o == t.open \ {flow.socket : flow \in gone}
             last == IF t.lastFlow \in gone THEN None ELSE t.lastFlow
  <1>1. DOMAIN f = D /\ f \in [D -> Sockets] /\ \A k \in D : f[k] = t.flows[k]
    BY DEF RestrictDomain, Restrict, Sound
  <1>2. o = {f[k] : k \in D}
    <2>1. {flow.socket : flow \in gone} = {t.flows[k] : k \in K}
      <3>1. \A k \in K : Flow(k, t.flows[k]).socket = t.flows[k] /\ Flow(k, t.flows[k]) \in gone
        BY DEF Flow
      <3>2. \A flow \in gone : \E k \in K : flow = Flow(k, t.flows[k])
        OBVIOUS
      <3> HIDE DEF gone
      <3> QED
        BY <3>1, <3>2
    <2> HIDE DEF gone, f
    <2>2. o = {t.flows[k] : k \in D}
      BY <2>1 DEF Sound
    <2> QED
      BY <1>1, <2>2
  <1>3. last # None => last \in FlowType /\ last.key \in D /\ f[last.key] = last.socket
    <2> SUFFICES ASSUME t.lastFlow # None, t.lastFlow.key \in K
                 PROVE  t.lastFlow \in gone
      <3> HIDE DEF gone, f
      <3> QED
        BY <1>1 DEF Sound
    <2>1. t.lastFlow \in FlowType /\ t.flows[t.lastFlow.key] = t.lastFlow.socket
      BY DEF Sound
    <2>2. t.lastFlow = Flow(t.lastFlow.key, t.flows[t.lastFlow.key])
      BY <2>1 DEF Flow, FlowType
    <2> QED
      BY <2>2
  <1>4. IsFiniteSet(D) /\ Cardinality(D) <= Cardinality(DOMAIN t.flows)
    BY FS_Subset DEF Sound
  <1>5. Cardinality(D) <= MaxFlows
    BY <1>4, FS_CardinalityType DEF Sound
  <1>6. Removed(t, K) = [flows |-> f, lastFlow |-> last, open |-> o]
    BY DEF Removed
  <1> HIDE DEF f, o, last
  <1>7. D \subseteq Keys /\ \A j, k \in D : f[j] = f[k] => j = k
    BY <1>1 DEF Sound
  <1> QED
    BY <1>1, <1>2, <1>3, <1>4, <1>5, <1>6, <1>7 DEF Sound

\* Using a flow of the table makes it the cached one.
LEMMA CachedSound ==
  ASSUME NEW t, Sound(t), NEW key \in DOMAIN t.flows
  PROVE  /\ Sound([t EXCEPT !.lastFlow = Flow(key, t.flows[key])])
         /\ [t EXCEPT !.lastFlow = Flow(key, t.flows[key])].flows = t.flows
  <1>1. key \in Keys /\ t.flows[key] \in Sockets
    BY DEF Sound
  <1> QED
    BY <1>1, FlowIsTyped DEF Sound

\* createFlow, in a table with room, with a socket that is not open.
LEMMA AddedSound ==
  ASSUME NEW t, Sound(t), ~Full(t),
         NEW key \in Keys, key \notin DOMAIN t.flows, NEW s \in Sockets, s \notin t.open
  PROVE  /\ Sound(Added(t, key, s))
         /\ key \in DOMAIN Added(t, key, s).flows /\ Added(t, key, s).flows[key] = s
  <1> DEFINE D == DOMAIN t.flows \cup {key}
             u == Added(t, key, s)
  <1>1. /\ u = [flows |-> u.flows, lastFlow |-> u.lastFlow, open |-> u.open]
        /\ u.flows = [k \in D |-> IF k = key THEN s ELSE t.flows[k]]
        /\ u.lastFlow = t.lastFlow /\ u.open = t.open \cup {s}
    BY DEF Added
  <1> HIDE DEF u
  <1>2. /\ DOMAIN u.flows = D /\ u.flows \in [D -> Sockets] /\ D \subseteq Keys
        /\ u.flows[key] = s /\ \A k \in DOMAIN t.flows : u.flows[k] = t.flows[k]
    BY <1>1 DEF Sound
  <1>3. \A k \in DOMAIN t.flows : t.flows[k] # s
    BY DEF Sound
  <1>4. \A j, k \in D : u.flows[j] = u.flows[k] => j = k
    BY <1>2, <1>3 DEF Sound
  <1>5. u.open = {u.flows[k] : k \in D}
    <2>1. {u.flows[k] : k \in D} = {u.flows[k] : k \in DOMAIN t.flows} \cup {u.flows[key]}
      OBVIOUS
    <2>2. {u.flows[k] : k \in DOMAIN t.flows} = {t.flows[k] : k \in DOMAIN t.flows}
      BY <1>2
    <2>3. t.open = {t.flows[k] : k \in DOMAIN t.flows}
      BY DEF Sound
    <2> QED
      BY <1>1, <1>2, <2>1, <2>2, <2>3
  <1>6. u.lastFlow # None => /\ u.lastFlow \in FlowType /\ u.lastFlow.key \in D
                             /\ u.flows[u.lastFlow.key] = u.lastFlow.socket
    BY <1>1, <1>2 DEF Sound
  <1>7. IsFiniteSet(D) /\ Cardinality(D) = Cardinality(DOMAIN t.flows) + 1
    BY FS_AddElement DEF Sound
  <1>8. Cardinality(D) <= MaxFlows
    BY <1>7, FS_CardinalityType DEF Full, Sound
  <1>9. Sound(u)
    BY <1>1, <1>2, <1>4, <1>5, <1>6, <1>7, <1>8 DEF Sound
  <1> QED
    BY <1>2, <1>9 DEF u
-----------------------------------------------------------------------------
(* The steps.                                                              *)

LEMMA FlowsInitInv == FlowsInit => FlowsInv
  <1> SUFFICES ASSUME FlowsInit PROVE FlowsInv
    OBVIOUS
  <1> DEFINE empty == <<>>
  <1>1. DOMAIN empty = {} /\ empty \in [{} -> Sockets]
    BY NoFlows
  <1>2. table = [flows |-> empty, lastFlow |-> None, open |-> {}]
    BY DEF FlowsInit
  <1> HIDE DEF empty
  <1>3. IsFiniteSet({}) /\ Cardinality({}) = 0
    BY FS_EmptySet
  <1>4. Sound(table)
    BY <1>1, <1>2, <1>3 DEF Sound
  <1>5. age \in [Sockets -> 0 .. IdleTimeout]
    BY DEF FlowsInit
  <1>6. DOMAIN table.flows = {}
    BY <1>1, <1>2
  <1> QED
    BY <1>4, <1>5, <1>6 DEF FlowsInit, FlowsInv

\* The end of send, for a flow of the table.
LEMMA UsedInv ==
  ASSUME age \in [Sockets -> 0 .. IdleTimeout], closed = FALSE,
         NEW t, Sound(t), NEW key \in DOMAIN t.flows, Used(t, key, t.flows[key])
  PROVE  FlowsInv' /\ answer' \in {"sent", "failed"}
  <1> DEFINE c == [t EXCEPT !.lastFlow = Flow(key, t.flows[key])]
  <1>1. Sound(c) /\ c.flows = t.flows
    BY CachedSound
  <1>2. t.flows[key] \in Sockets /\ key \in DOMAIN t.flows
    BY DEF Sound
  <1>3. age' \in [Sockets -> 0 .. IdleTimeout] /\ closed' = FALSE /\ answer' \in {"sent", "failed"}
    BY <1>2 DEF Used
  <1>4. table' = c \/ table' = Removed(c, {key} \cap DOMAIN t.flows)
    BY DEF Used
  <1> HIDE DEF c
  <1>5. Sound(Removed(c, {key} \cap DOMAIN t.flows))
    BY <1>1, RemovedSound
  <1>6. Sound(table')
    BY <1>1, <1>4, <1>5
  <1> QED
    BY <1>3, <1>6 DEF FlowsInv, Sound

\* The table after cleanup holds the active flows.
LEMMA CleanedSound ==
  ASSUME FlowsInv
  PROVE  Sound(Cleaned(table)) /\ DOMAIN Cleaned(table).flows = Active
  <1>1. Expired(table) \in SUBSET (DOMAIN table.flows)
    BY DEF Expired
  <1>2. /\ Sound(Cleaned(table))
        /\ DOMAIN Cleaned(table).flows = DOMAIN table.flows \ Expired(table)
    BY <1>1, RemovedSound DEF Cleaned, FlowsInv
  <1>3. \A k \in DOMAIN table.flows : age[table.flows[k]] \in 0 .. IdleTimeout
    BY DEF FlowsInv, Sound
  <1>4. DOMAIN table.flows \ Expired(table) = Active
    BY <1>3 DEF Expired, Active
  <1> QED
    BY <1>2, <1>4

LEMMA SendNewInv ==
  ASSUME FlowsInv, ~closed, NEW key \in Keys, SendNew(key)
  PROVE  FlowsInv' /\ answer' \in {"sent", "failed"}
  <1> DEFINE t == Cleaned(table)
  <1>1. Sound(t)
    BY CleanedSound
  <1>2. key \notin DOMAIN t.flows
    BY CleanedSound DEF SendNew, Unknown, Active
  <1>3. ~Full(t)
    BY DEF SendNew
  <1> HIDE DEF t
  <1>4. CASE table' = t /\ answer' = "failed" /\ UNCHANGED <<age, closed>>
    BY <1>1, <1>4 DEF FlowsInv
  <1>5. ASSUME NEW s \in Sockets \ t.open, Used(Added(t, key, s), key, s)
        PROVE  FlowsInv' /\ answer' \in {"sent", "failed"}
    <2>1. /\ Sound(Added(t, key, s))
          /\ key \in DOMAIN Added(t, key, s).flows /\ Added(t, key, s).flows[key] = s
      BY <1>1, <1>2, <1>3, AddedSound
    <2> QED
      BY <1>5, <2>1, UsedInv DEF FlowsInv
  <1> QED
    BY <1>4, <1>5 DEF SendNew, t

LEMMA SendInv ==
  ASSUME FlowsInv, NEW key \in Keys, Send(key)
  PROVE  FlowsInv' /\ (answer' = "dropped" => SendRefused(key))
  <1>1. closed = FALSE /\ Sound(table) /\ age \in [Sockets -> 0 .. IdleTimeout]
    BY DEF Send, FlowsInv
  <1>2. CASE SendCached(key)
    <2>1. key \in DOMAIN table.flows /\ table.lastFlow.socket = table.flows[key]
      BY <1>1, <1>2 DEF SendCached, Cached, Sound
    <2> QED
      BY <1>1, <1>2, <2>1, UsedInv DEF SendCached
  <1>3. CASE SendFound(key)
    BY <1>1, <1>3, UsedInv DEF SendFound
  <1>4. CASE SendRefused(key)
    BY <1>1, <1>4, CleanedSound DEF SendRefused, FlowsInv
  <1>5. CASE SendNew(key)
    BY <1>1, <1>5, SendNewInv
  <1> QED
    BY <1>2, <1>3, <1>4, <1>5 DEF Send

LEMMA FlowsNextInv ==
  ASSUME FlowsInv, [FlowsNext]_flowVars
  PROVE  FlowsInv' /\ (answer' = "dropped" => UNCHANGED flowVars \/ \E key \in Keys : SendRefused(key))
  <1>1. ASSUME NEW key \in Keys, Response(key) PROVE FlowsInv' /\ answer' # "dropped"
    BY <1>1 DEF Response, FlowsInv, Sound
  <1>2. ASSUME NEW key \in Keys, SocketError(key) PROVE FlowsInv' /\ answer' # "dropped"
    <2>1. Sound(Removed(table, {key})) /\ DOMAIN Removed(table, {key}).flows \subseteq DOMAIN table.flows
      BY <1>2, RemovedSound DEF SocketError, FlowsInv
    <2> QED
      BY <1>2, <2>1 DEF SocketError, FlowsInv
  <1>3. CASE Cleanup
    BY <1>3, CleanedSound DEF Cleanup, FlowsInv
  <1>4. CASE Close
    <2>1. /\ Sound(Removed(table, DOMAIN table.flows))
          /\ DOMAIN Removed(table, DOMAIN table.flows).flows = {}
      BY RemovedSound DEF FlowsInv
    <2> QED
      BY <1>4, <2>1 DEF Close, FlowsInv
  <1>5. CASE Tick
    BY <1>5 DEF Tick, FlowsInv
  <1>6. CASE UNCHANGED flowVars
    BY <1>6 DEF flowVars, FlowsInv
  <1> QED
    BY <1>1, <1>2, <1>3, <1>4, <1>5, <1>6, SendInv DEF FlowsNext

LEMMA FlowsInvariant == FlowsSpec => []FlowsInv
  BY FlowsInitInv, FlowsNextInv, PTL DEF FlowsSpec
-----------------------------------------------------------------------------
(* The theorems.                                                           *)

\* Every variable keeps its type.
THEOREM FlowsTypeCorrect == FlowsSpec => []FlowsTypeOK
  <1>1. FlowsInv => FlowsTypeOK
    <2> SUFFICES ASSUME FlowsInv PROVE FlowsTypeOK
      OBVIOUS
    <2>1. table.flows \in UNION {[K -> Sockets] : K \in SUBSET Keys}
      BY DEF FlowsInv, Sound
    <2>2. table.lastFlow \in FlowType \cup {None} /\ table.open \subseteq Sockets
      BY DEF FlowsInv, Sound
    <2> QED
      BY <2>1, <2>2 DEF FlowsInv, FlowType, FlowsTypeOK
  <1> QED
    BY <1>1, FlowsInvariant, PTL

\* No socket leaks, none is shared, and lastFlow is never stale, whichever way flows have
\* ended (createFlow, removeFlow, handleFlowError, cleanup, close).
THEOREM NoSocketLeaks == FlowsSpec => []SocketsAccounted
  <1>1. FlowsInv => SocketsAccounted
    <2> SUFFICES ASSUME FlowsInv PROVE SocketsAccounted
      OBVIOUS
    <2> DEFINE D == DOMAIN table.flows
               f == table.flows
    <2>1. f \in Bijection(D, table.open)
      BY DEF FlowsInv, Sound, Bijection, Injection, Surjection, IsInjective
    <2>2. Cardinality(table.open) = Cardinality(D)
      BY <2>1, FS_Bijection DEF FlowsInv, Sound, ExistsBijection
    <2>3. closed => table.open = {}
      BY DEF FlowsInv, Sound
    <2> QED
      BY <2>2, <2>3 DEF FlowsInv, Sound, SocketsAccounted
  <1> QED
    BY <1>1, FlowsInvariant, PTL

\* send drops a packet only when MaxFlows flows that are not idle are in the table, and
\* none of them makes room.
THEOREM DropsOnlyWhenBusy == FlowsSpec => RefusesOnlyWhenBusy
  <1> DEFINE Busy == answer' = "dropped" =>
               Cardinality(Active) = MaxFlows /\ Active \subseteq DOMAIN table'.flows
  <1>1. ASSUME FlowsInv, NEW key \in Keys, SendRefused(key) PROVE Busy
    <2>1. Full(Cleaned(table)) /\ table' = Cleaned(table)
      BY <1>1 DEF SendRefused
    <2>2. Cardinality(Active) <= MaxFlows /\ Cardinality(Active) \in Nat
      BY <1>1, CleanedSound, FS_CardinalityType DEF Sound
    <2> QED
      BY <1>1, <2>1, <2>2, CleanedSound DEF Full
  <1>2. FlowsInv /\ [FlowsNext]_flowVars => [Busy]_flowVars
    BY <1>1, FlowsNextInv
  <1> QED
    BY <1>2, FlowsInvariant, PTL DEF FlowsSpec, RefusesOnlyWhenBusy
=============================================================================
