------------------------------- MODULE UdpFlows -------------------------------
(***************************************************************************)
(* UDPFlowManager (udp_flow_manager.js): one dgram socket per flow, a flow *)
(* being a VM endpoint and a remote endpoint.  A flow ends when it has     *)
(* been idle, when its socket fails, or with its session.  lastFlow caches *)
(* the flow used last.                                                     *)
(*                                                                         *)
(* Sockets are names that may be used again once closed.  Time is counted  *)
(* in steps of the cleanup interval or less; an age stops at IdleTimeout,  *)
(* beyond which the code tells no ages apart.  "Flows" begins the names    *)
(* that PortForwarding, extended beside this module, has too.              *)
(*                                                                         *)
(* Seeded faults, used to see that the properties can fail: FlowSwapped,   *)
(* RemovedStaysCached, RefusesUnswept and ExpiredLater.                    *)
(***************************************************************************)
EXTENDS Naturals, FiniteSets, Functions

CONSTANTS
  Keys,         \* flow keys
  Sockets,      \* names of sockets
  MaxFlows,     \* MAX_UDP_FLOWS_PER_SESSION
  IdleTimeout,  \* UDP_FLOW_IDLE_TIMEOUT_MS, in ticks
  None

ASSUME LimitAssumption == {MaxFlows, IdleTimeout} \subseteq Nat \ {0}
ASSUME NamesAssumption ==
  Cardinality(Sockets) > MaxFlows /\ None \notin [key : Keys, socket : Sockets]

VARIABLES
  table,   \* the flow table, lastFlow, and the sockets that are open
  age,     \* per socket: time since lastSeen
  answer,  \* what the last call of send did
  closed   \* the session is closed

flowVars == <<table, age, answer, closed>>

FlowSwapped(key, socket) == [key |-> socket, socket |-> key]

Flow(key, socket) == [key |-> key, socket |-> socket]

FlowsTypeOK ==
  /\ table.flows \in UNION {[K -> Sockets] : K \in SUBSET Keys}
  /\ table.lastFlow \in [key : Keys, socket : Sockets] \cup {None}
  /\ table.open \subseteq Sockets
  /\ age \in [Sockets -> 0 .. IdleTimeout]
  /\ answer \in {"none", "sent", "dropped", "failed"}
  /\ closed \in BOOLEAN

FlowsInit ==
  /\ table = [flows |-> <<>>, lastFlow |-> None, open |-> {}]
  /\ age = [s \in Sockets |-> 0]
  /\ answer = "none"
  /\ closed = FALSE
-----------------------------------------------------------------------------
\* createFlow, with the socket it is given.
Added(t, key, socket) ==
  [flows |-> [k \in DOMAIN t.flows \cup {key} |-> IF k = key THEN socket ELSE t.flows[k]],
   lastFlow |-> t.lastFlow,
   open |-> t.open \cup {socket}]

RemovedStaysCached(t, keys) ==
  [t EXCEPT !.flows = RestrictDomain(@, LAMBDA k : k \notin keys),
            !.open = @ \ {t.flows[k] : k \in keys}]

\* removeFlow of each of the keys, all of which are in the table.
Removed(t, keys) ==
  LET gone == {Flow(k, t.flows[k]) : k \in keys}
  IN [flows |-> RestrictDomain(t.flows, LAMBDA k : k \notin keys),
      lastFlow |-> IF t.lastFlow \in gone THEN None ELSE t.lastFlow,
      open |-> t.open \ {flow.socket : flow \in gone}]

ExpiredLater(t) == {k \in DOMAIN t.flows : age[t.flows[k]] > IdleTimeout}

Expired(t) == {k \in DOMAIN t.flows : age[t.flows[k]] >= IdleTimeout}

Cleaned(t) == Removed(t, Expired(t))

Full(t) == Cardinality(DOMAIN t.flows) >= MaxFlows

\* The end of send: the flow is used.  socket.send throws when the socket is closed,
\* and for reasons of its own (a destination port of 0); the flow then goes.
Used(t, key, socket) ==
  LET cached == [t EXCEPT !.lastFlow = Flow(key, socket)]
  IN /\ age' = [age EXCEPT ![socket] = 0]
     /\ UNCHANGED closed
     /\ \/ socket \in t.open /\ table' = cached /\ answer' = "sent"
        \/ table' = Removed(cached, {key} \cap DOMAIN t.flows) /\ answer' = "failed"

Cached(key) == table.lastFlow # None /\ table.lastFlow.key = key

SendCached(key) ==
  /\ Cached(key)
  /\ Used(table, key, table.lastFlow.socket)

SendFound(key) ==
  /\ ~Cached(key) /\ key \in DOMAIN table.flows
  /\ Used(table, key, table.flows[key])

Unknown(key) == ~Cached(key) /\ key \notin DOMAIN table.flows

RefusesUnswept(key) ==
  /\ Unknown(key)
  /\ Full(table)
  /\ answer' = "dropped"
  /\ UNCHANGED <<table, age, closed>>

\* No room even after the idle flows are gone.
SendRefused(key) ==
  /\ Unknown(key)
  /\ Full(Cleaned(table))
  /\ table' = Cleaned(table)
  /\ answer' = "dropped"
  /\ UNCHANGED <<age, closed>>

SendNew(key) ==
  /\ Unknown(key)
  /\ ~Full(Cleaned(table))
  /\ LET t == Cleaned(table)
     IN \/ \* createSocket throws
           table' = t /\ answer' = "failed" /\ UNCHANGED <<age, closed>>
        \/ \E s \in Sockets \ t.open :
             Used(Added(t, key, s), key, s)

Send(key) ==
  /\ ~closed
  /\ SendCached(key) \/ SendFound(key) \/ SendRefused(key) \/ SendNew(key)

\* The "message" event, from the flow's remote endpoint.
Response(key) ==
  /\ key \in DOMAIN table.flows
  /\ age' = [age EXCEPT ![table.flows[key]] = 0]
  /\ answer' = "none"
  /\ UNCHANGED <<table, closed>>

\* The "error" event: Node emits it only on a socket that is still open.
SocketError(key) ==
  /\ key \in DOMAIN table.flows
  /\ table' = Removed(table, {key})
  /\ answer' = "none"
  /\ UNCHANGED <<age, closed>>

\* The interval.
Cleanup ==
  /\ ~closed
  /\ table' = Cleaned(table)
  /\ answer' = "none"
  /\ UNCHANGED <<age, closed>>

Close ==
  /\ ~closed
  /\ closed' = TRUE
  /\ table' = Removed(table, DOMAIN table.flows)
  /\ answer' = "none"
  /\ UNCHANGED age

Tick ==
  /\ age' = [s \in Sockets |->
               IF s \in table.open /\ age[s] < IdleTimeout THEN age[s] + 1 ELSE age[s]]
  /\ answer' = "none"
  /\ UNCHANGED <<table, closed>>

FlowsNext ==
  \/ \E key \in Keys : Send(key) \/ Response(key) \/ SocketError(key)
  \/ Cleanup \/ Close \/ Tick

FlowsSpec == FlowsInit /\ [][FlowsNext]_flowVars
-----------------------------------------------------------------------------
(* Safety.                                                                 *)

\* No socket leaks and none is shared: the open sockets are exactly those of the
\* flows in the table, one for each, whichever way flows have ended; and lastFlow,
\* which send trusts without a look at the table, is the table's flow (createFlow,
\* removeFlow, handleFlowError, cleanup, close).
SocketsAccounted ==
  /\ table.open = {table.flows[k] : k \in DOMAIN table.flows}
  /\ Cardinality(table.open) = Cardinality(DOMAIN table.flows)
  /\ closed => table.open = {}
  /\ table.lastFlow # None =>
       /\ table.lastFlow.key \in DOMAIN table.flows
       /\ table.flows[table.lastFlow.key] = table.lastFlow.socket

Active == {k \in DOMAIN table.flows : age[table.flows[k]] < IdleTimeout}

\* A packet is dropped for want of room only when maxFlows flows are in use: an idle
\* flow that the interval has not collected yet never costs a packet, and an active
\* one never makes room.
RefusesOnlyWhenBusy ==
  [][answer' = "dropped" => Cardinality(Active) = MaxFlows /\ Active \subseteq DOMAIN table'.flows]_flowVars
-----------------------------------------------------------------------------
(* Liveness: Node runs the interval, until close() clears it.              *)

FlowsFairSpec == FlowsSpec /\ WF_flowVars(Cleanup)

Idle == DOMAIN table.flows \ Active

\* A flow that has been idle long enough does not stay: it goes, or is used again
\* (cleanup, send, and the "message" event).
IdleFlowsGo == \A key \in Keys : key \in Idle ~> key \notin Idle
=============================================================================
