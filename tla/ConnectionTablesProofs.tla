------------------------ MODULE ConnectionTablesProofs ------------------------
(***************************************************************************)
(* What holds of ConnectionTables for any number of connections, any keys, *)
(* any range of ports and any kinds of client.                             *)
(***************************************************************************)
EXTENDS ConnectionTables, FiniteSetTheorems, TLAPS

USE OpensAssumption, PortsAssumption, ClientKindsAssumption, NoneAssumption

SessionType ==
  [tcpConnections : Maps(Keys), reverseTcpConnections : Maps(Ports),
   recentlyClosed : SUBSET Ports, restTimers : [Ports -> Nat],
   conn : [Conns -> Connection], open : BOOLEAN]

\* What is under a key was opened under that key.
Entries(s) ==
  /\ \A key \in DOMAIN s.tcpConnections :
       LET r == s.conn[s.tcpConnections[key]]
       IN r.kind = "forward" /\ r.key = key /\ r.state # "unused"
  /\ \A port \in DOMAIN s.reverseTcpConnections :
       LET r == s.conn[s.reverseTcpConnections[port]]
       IN r.kind \in ClientKinds /\ r.key = port /\ r.state # "unused"

\* What a connection may hold, whether or not it is in its table.  What can act on a key
\* (a real socket that still reads, the idle timer) is held only by the connection in the
\* table: that is why it finds itself.  A connection that waits for the two-second timer
\* may lose its place, so all of that must be gone by then; its real socket has ended,
\* because a FIN is owed to the VM only once it has.
Holds(r, present) ==
  /\ r.state = "unused" => r = Unused
  /\ {"queue", "idle"} \cap r.alive # {} \/ r.sink = "open" \/ r.promise = "pending" => present
  /\ r.promise = "pending" => r.state = "SYN_SENT"
  /\ r.state = "CLOSED" => r.alive \subseteq {"linger"} /\ r.sink # "open"
  /\ r.kind = "forward" /\ ~r.sourceEnded => present /\ "pending" \notin r.fins
  /\ "linger" \in r.alive => r.kind = "forward" /\ r.state = "CLOSED" /\ r.sourceEnded

\* Nothing is held that only a connection in its table may hold.
HoldsNothing(r) == Holds(r, FALSE)

\* A port rests from the removal of its connection until its one timer fires.
Rests(s) ==
  \A port \in Ports :
    /\ s.restTimers[port] = IF port \in s.recentlyClosed THEN 1 ELSE 0
    /\ port \in s.recentlyClosed => port \notin DOMAIN s.reverseTcpConnections

\* Connections are numbered in the order they are opened.
Numbered(s) ==
  \A c, d \in Conns : d < c /\ s.conn[c].state # "unused" => s.conn[d].state # "unused"

Good(s) ==
  /\ s \in SessionType
  /\ Entries(s)
  /\ \A c \in Conns : Holds(s.conn[c], InTable(s, c))
  /\ Rests(s)
  /\ Numbered(s)

IInv == Good(session) /\ nextPort \in Ports /\ EventsStayHome
-----------------------------------------------------------------------------
(* Reading a session.                                                      *)

LEMMA MapsAre ==
  ASSUME NEW S, NEW t
  PROVE  t \in Maps(S) <=> t \in [DOMAIN t -> Conns] /\ DOMAIN t \subseteq S
  BY DEF Maps

LEMMA Fields ==
  ASSUME NEW s \in SessionType
  PROVE  /\ s.tcpConnections \in [DOMAIN s.tcpConnections -> Conns]
         /\ DOMAIN s.tcpConnections \subseteq Keys
         /\ s.reverseTcpConnections \in [DOMAIN s.reverseTcpConnections -> Conns]
         /\ DOMAIN s.reverseTcpConnections \subseteq Ports
         /\ s.conn \in [Conns -> Connection]
         /\ s.recentlyClosed \subseteq Ports /\ s.restTimers \in [Ports -> Nat]
         /\ s.open \in BOOLEAN
  <1>1. s.tcpConnections \in Maps(Keys) /\ s.reverseTcpConnections \in Maps(Ports)
    BY DEF SessionType
  <1> QED
    BY <1>1, MapsAre DEF SessionType

\* What is found under the key of a connection is the connection in the table there.
LEMMA FoundIs ==
  ASSUME NEW s, Good(s), NEW c \in Conns, Found(s, c) # None
  PROVE  /\ Found(s, c) \in Conns /\ InTable(s, Found(s, c))
         /\ s.conn[Found(s, c)].key = s.conn[c].key
         /\ s.conn[Found(s, c)].state # "unused"
         /\ s.conn[Found(s, c)].kind = "forward" <=> s.conn[c].kind = "forward"
  <1> DEFINE key == s.conn[c].key
             d == Found(s, c)
  <1>1. s \in SessionType /\ Entries(s)
    BY DEF Good
  <1>2. CASE s.conn[c].kind = "forward"
    <2>1. key \in DOMAIN s.tcpConnections /\ d = s.tcpConnections[key]
      BY <1>2 DEF Found, Table
    <2>2. d \in Conns /\ s.conn[d].kind = "forward" /\ s.conn[d].key = key /\ s.conn[d].state # "unused"
      <3>1. d \in Conns
        BY <1>1, <2>1, Fields
      <3> QED
        BY <1>1, <2>1, <3>1 DEF Entries
    <2> QED
      BY <1>2, <2>1, <2>2 DEF InTable, Found, Table
  <1>3. CASE s.conn[c].kind # "forward"
    <2>1. key \in DOMAIN s.reverseTcpConnections /\ d = s.reverseTcpConnections[key]
      BY <1>3 DEF Found, Table
    <2>2. d \in Conns /\ s.conn[d].kind \in ClientKinds /\ s.conn[d].key = key /\ s.conn[d].state # "unused"
      <3>1. d \in Conns
        BY <1>1, <2>1, Fields
      <3> QED
        BY <1>1, <2>1, <3>1 DEF Entries
    <2>3. s.conn[d].kind # "forward"
      BY <2>2
    <2> QED
      BY <1>3, <2>1, <2>2, <2>3 DEF InTable, Found, Table
  <1> QED
    BY <1>2, <1>3
-----------------------------------------------------------------------------
(* Two ways to change a session: a connection changes and stays where it   *)
(* is, or it changes and leaves its table.                                 *)

Replaced(s, c, r) == [s EXCEPT !.conn[c] = r]

Retired(s, c, r) == [Removed(s, c) EXCEPT !.conn[c] = r]

\* r is what becomes of the connection r0.
Becomes(r0, r) == r \in Connection /\ r.kind = r0.kind /\ r.key = r0.key /\ r.state # "unused"

LEMMA ReplacedFields ==
  ASSUME NEW s \in SessionType, NEW c \in Conns, NEW r \in Connection
  PROVE  /\ Replaced(s, c, r) \in SessionType
         /\ Replaced(s, c, r).conn = [s.conn EXCEPT ![c] = r]
         /\ Replaced(s, c, r).tcpConnections = s.tcpConnections
         /\ Replaced(s, c, r).reverseTcpConnections = s.reverseTcpConnections
         /\ Replaced(s, c, r).recentlyClosed = s.recentlyClosed
         /\ Replaced(s, c, r).restTimers = s.restTimers
         /\ Replaced(s, c, r).open = s.open
  BY DEF SessionType, Replaced

LEMMA ReplacedConn ==
  ASSUME NEW s \in SessionType, NEW c \in Conns, NEW r \in Connection
  PROVE  /\ Replaced(s, c, r).conn[c] = r
         /\ \A d \in Conns \ {c} : Replaced(s, c, r).conn[d] = s.conn[d]
  <1>1. Replaced(s, c, r).conn = [s.conn EXCEPT ![c] = r]
    BY ReplacedFields
  <1>2. s.conn \in [Conns -> Connection]
    BY Fields
  <1> QED
    BY <1>1, <1>2

LEMMA ReplacedFound ==
  ASSUME NEW s \in SessionType, NEW c \in Conns, NEW r \in Connection,
         r.kind = s.conn[c].kind, r.key = s.conn[c].key
  PROVE  \A d \in Conns : Found(Replaced(s, c, r), d) = Found(s, d)
  <1> DEFINE t == Replaced(s, c, r)
  <1>1. /\ t.tcpConnections = s.tcpConnections
        /\ t.reverseTcpConnections = s.reverseTcpConnections
    BY ReplacedFields
  <1>2. \A d \in Conns : t.conn[d].kind = s.conn[d].kind /\ t.conn[d].key = s.conn[d].key
    BY ReplacedConn
  <1> HIDE DEF t
  <1>3. \A d \in Conns : Found(t, d) = Found(s, d)
    BY <1>1, <1>2 DEF Found, Table
  <1> QED
    BY <1>3 DEF t

LEMMA ReplacedGood ==
  ASSUME NEW s, Good(s), NEW c \in Conns, s.conn[c].state # "unused",
         NEW r, Becomes(s.conn[c], r), Holds(r, InTable(s, c))
  PROVE  Good(Replaced(s, c, r))
  <1> DEFINE t == Replaced(s, c, r)
  <1>1. /\ t \in SessionType /\ t.conn = [s.conn EXCEPT ![c] = r]
        /\ t.tcpConnections = s.tcpConnections /\ t.reverseTcpConnections = s.reverseTcpConnections
        /\ t.recentlyClosed = s.recentlyClosed /\ t.restTimers = s.restTimers
    BY ReplacedFields DEF Good, Becomes
  <1> HIDE DEF t
  <1>2. s \in SessionType
    BY DEF Good
  <1>3. \A d \in Conns : t.conn[d].kind = s.conn[d].kind /\ t.conn[d].key = s.conn[d].key
                         /\ (t.conn[d].state = "unused" <=> s.conn[d].state = "unused")
    BY <1>1, <1>2, Fields DEF Becomes
  <1>4. \A d \in Conns : InTable(t, d) = InTable(s, d)
    BY <1>1, <1>3 DEF Found, InTable, Table
  <1>5. Entries(t)
    BY <1>1, <1>2, <1>3, Fields DEF Entries, Good
  <1>6. \A d \in Conns : Holds(t.conn[d], InTable(t, d))
    BY <1>1, <1>2, <1>4, Fields DEF Good
  <1>7. Rests(t) /\ Numbered(t)
    BY <1>1, <1>3 DEF Rests, Numbered, Good
  <1> QED
    BY <1>1, <1>5, <1>6, <1>7 DEF Good, t

\* The parts of a session that has lost a connection: its entry is gone, the others are
\* where they were.
LEMMA RetiredForward ==
  ASSUME NEW s \in SessionType, NEW c \in Conns, InTable(s, c), NEW r \in Connection,
         s.conn[c].kind = "forward"
  PROVE  /\ Retired(s, c, r) \in SessionType
         /\ Retired(s, c, r).conn[c] = r
         /\ \A d \in Conns \ {c} : Retired(s, c, r).conn[d] = s.conn[d]
         /\ s.conn[c].key \in DOMAIN s.tcpConnections /\ s.tcpConnections[s.conn[c].key] = c
         /\ DOMAIN Retired(s, c, r).tcpConnections = DOMAIN s.tcpConnections \ {s.conn[c].key}
         /\ \A k \in DOMAIN s.tcpConnections \ {s.conn[c].key} :
              Retired(s, c, r).tcpConnections[k] = s.tcpConnections[k]
         /\ Retired(s, c, r).reverseTcpConnections = s.reverseTcpConnections
         /\ Retired(s, c, r).recentlyClosed = s.recentlyClosed
         /\ Retired(s, c, r).restTimers = s.restTimers
  <1> DEFINE t == Retired(s, c, r)
             key == s.conn[c].key
             less == Without(s.tcpConnections, key)
             conn == [s.conn EXCEPT ![c] = r]
  <1>1. /\ less \in Maps(Keys) /\ DOMAIN less = DOMAIN s.tcpConnections \ {key}
        /\ \A k \in DOMAIN s.tcpConnections \ {key} : less[k] = s.tcpConnections[k]
    BY MapsAre, Fields DEF Without, RestrictDomain, Restrict
  <1>2. key \in DOMAIN s.tcpConnections /\ s.tcpConnections[key] = c
    <2>1. c # None
      OBVIOUS
    <2> QED
      BY <2>1 DEF InTable, Found, Table
  <1>3. conn \in [Conns -> Connection] /\ conn[c] = r /\ \A d \in Conns \ {c} : conn[d] = s.conn[d]
    BY Fields
  <1>4. t = [[s EXCEPT !.tcpConnections = less] EXCEPT !.conn[c] = r]
    BY DEF Retired, Removed
  <1> HIDE DEF t, less
  <1>5. t = [tcpConnections |-> less, reverseTcpConnections |-> s.reverseTcpConnections,
             recentlyClosed |-> s.recentlyClosed, restTimers |-> s.restTimers,
             conn |-> conn, open |-> s.open]
    BY <1>4 DEF SessionType
  <1> HIDE DEF conn
  <1>6. t \in SessionType
    BY <1>1, <1>3, <1>5 DEF SessionType
  <1> QED
    BY <1>1, <1>2, <1>3, <1>5, <1>6 DEF t

LEMMA RetiredReverse ==
  ASSUME NEW s \in SessionType, NEW c \in Conns, InTable(s, c), NEW r \in Connection,
         s.conn[c].kind # "forward"
  PROVE  /\ Retired(s, c, r) \in SessionType
         /\ Retired(s, c, r).conn[c] = r
         /\ \A d \in Conns \ {c} : Retired(s, c, r).conn[d] = s.conn[d]
         /\ s.conn[c].key \in DOMAIN s.reverseTcpConnections
         /\ s.reverseTcpConnections[s.conn[c].key] = c
         /\ DOMAIN Retired(s, c, r).reverseTcpConnections
              = DOMAIN s.reverseTcpConnections \ {s.conn[c].key}
         /\ \A k \in DOMAIN s.reverseTcpConnections \ {s.conn[c].key} :
              Retired(s, c, r).reverseTcpConnections[k] = s.reverseTcpConnections[k]
         /\ Retired(s, c, r).tcpConnections = s.tcpConnections
         /\ Retired(s, c, r).recentlyClosed = s.recentlyClosed \cup {s.conn[c].key}
         /\ \A port \in Ports : Retired(s, c, r).restTimers[port] =
              IF port = s.conn[c].key THEN s.restTimers[port] + 1 ELSE s.restTimers[port]
  <1> DEFINE t == Retired(s, c, r)
             key == s.conn[c].key
             less == Without(s.reverseTcpConnections, key)
             timers == [s.restTimers EXCEPT ![key] = @ + 1]
             conn == [s.conn EXCEPT ![c] = r]
  <1>1. /\ less \in Maps(Ports) /\ DOMAIN less = DOMAIN s.reverseTcpConnections \ {key}
        /\ \A k \in DOMAIN s.reverseTcpConnections \ {key} : less[k] = s.reverseTcpConnections[k]
    BY MapsAre, Fields DEF Without, RestrictDomain, Restrict
  <1>2. key \in DOMAIN s.reverseTcpConnections /\ s.reverseTcpConnections[key] = c
    <2>1. c # None
      OBVIOUS
    <2> QED
      BY <2>1 DEF InTable, Found, Table
  <1>3. conn \in [Conns -> Connection] /\ conn[c] = r /\ \A d \in Conns \ {c} : conn[d] = s.conn[d]
    BY Fields
  <1>4. /\ timers \in [Ports -> Nat]
        /\ \A port \in Ports : timers[port] =
             IF port = key THEN s.restTimers[port] + 1 ELSE s.restTimers[port]
    BY <1>2, Fields
  <1>5. t = [[s EXCEPT !.reverseTcpConnections = less, !.recentlyClosed = @ \cup {key},
                       !.restTimers[key] = @ + 1] EXCEPT !.conn[c] = r]
    BY DEF Retired, Removed
  <1> HIDE DEF t, less
  <1>6. t = [tcpConnections |-> s.tcpConnections, reverseTcpConnections |-> less,
             recentlyClosed |-> s.recentlyClosed \cup {key}, restTimers |-> timers,
             conn |-> conn, open |-> s.open]
    BY <1>5 DEF SessionType
  <1> HIDE DEF conn, timers
  <1>7. t \in SessionType
    <2>1. s.recentlyClosed \cup {key} \subseteq Ports
      BY <1>2, Fields
    <2> QED
      BY <1>1, <1>3, <1>4, <1>6, <2>1 DEF SessionType
  <1> QED
    BY <1>1, <1>2, <1>3, <1>4, <1>6, <1>7 DEF t

LEMMA RetiredConn ==
  ASSUME NEW s \in SessionType, NEW c \in Conns, InTable(s, c), NEW r \in Connection
  PROVE  /\ Retired(s, c, r).conn[c] = r
         /\ \A d \in Conns \ {c} : Retired(s, c, r).conn[d] = s.conn[d]
  <1>1. CASE s.conn[c].kind = "forward"
    BY <1>1, RetiredForward
  <1>2. CASE s.conn[c].kind # "forward"
    BY <1>2, RetiredReverse
  <1> QED
    BY <1>1, <1>2

LEMMA RetiredFound ==
  ASSUME NEW s, Good(s), NEW c \in Conns, InTable(s, c), NEW r \in Connection,
         r.kind = s.conn[c].kind, r.key = s.conn[c].key
  PROVE  \A d \in Conns : Found(Retired(s, c, r), d) = IF Found(s, d) = c THEN None ELSE Found(s, d)
  <1> DEFINE t == Retired(s, c, r)
             key == s.conn[c].key
  <1>1. s \in SessionType /\ c # None
    BY DEF Good
  <1>3. \A d \in Conns : t.conn[d].kind = s.conn[d].kind /\ t.conn[d].key = s.conn[d].key
    BY <1>1, RetiredConn
  <1> SUFFICES ASSUME NEW d \in Conns
               PROVE  Found(t, d) = IF Found(s, d) = c THEN None ELSE Found(s, d)
    OBVIOUS
  <1>4. Found(s, d) = c => key = s.conn[d].key
                           /\ (s.conn[c].kind = "forward" <=> s.conn[d].kind = "forward")
    BY <1>1, FoundIs
  <1>5. CASE s.conn[c].kind = "forward"
    <2>1. /\ t.reverseTcpConnections = s.reverseTcpConnections
          /\ key \in DOMAIN s.tcpConnections /\ s.tcpConnections[key] = c
          /\ DOMAIN t.tcpConnections = DOMAIN s.tcpConnections \ {key}
          /\ \A k \in DOMAIN s.tcpConnections \ {key} : t.tcpConnections[k] = s.tcpConnections[k]
      BY <1>1, <1>5, RetiredForward
    <2> HIDE DEF t
    <2> QED
      BY <1>3, <1>4, <1>5, <2>1 DEF Found, Table
  <1>6. CASE s.conn[c].kind # "forward"
    <2>1. /\ t.tcpConnections = s.tcpConnections
          /\ key \in DOMAIN s.reverseTcpConnections /\ s.reverseTcpConnections[key] = c
          /\ DOMAIN t.reverseTcpConnections = DOMAIN s.reverseTcpConnections \ {key}
          /\ \A k \in DOMAIN s.reverseTcpConnections \ {key} :
               t.reverseTcpConnections[k] = s.reverseTcpConnections[k]
      BY <1>1, <1>6, RetiredReverse
    <2> HIDE DEF t
    <2> QED
      BY <1>3, <1>4, <1>6, <2>1 DEF Found, Table
  <1> QED
    BY <1>5, <1>6

LEMMA RetiredGood ==
  ASSUME NEW s, Good(s), NEW c \in Conns, InTable(s, c),
         NEW r, Becomes(s.conn[c], r), HoldsNothing(r)
  PROVE  Good(Retired(s, c, r))
  <1> DEFINE t == Retired(s, c, r)
             key == s.conn[c].key
  <1>1. s \in SessionType /\ Entries(s) /\ s.conn[c].state # "unused" /\ c # None /\ r \in Connection
    <2>1. Found(s, c) = c /\ c # None
      BY DEF InTable
    <2> QED
      BY <2>1, FoundIs DEF Good, Becomes
  <1>2. t.conn[c] = r /\ \A d \in Conns \ {c} : t.conn[d] = s.conn[d]
    BY <1>1, RetiredConn
  <1>3. \A d \in Conns : Found(t, d) = IF Found(s, d) = c THEN None ELSE Found(s, d)
    BY <1>1, RetiredFound DEF Becomes
  <1>4. ASSUME NEW d \in Conns
        PROVE  t.conn[d].kind = s.conn[d].kind /\ t.conn[d].key = s.conn[d].key
               /\ (t.conn[d].state = "unused" <=> s.conn[d].state = "unused")
    BY <1>1, <1>2 DEF Becomes
  <1>5. ASSUME NEW d \in Conns PROVE Holds(t.conn[d], InTable(t, d))
    <2> HIDE DEF t
    <2>1. CASE d = c
      <3>1. t.conn[d] = r /\ InTable(t, d) = FALSE
        BY <1>1, <1>2, <1>3, <2>1 DEF InTable
      <3> QED
        BY <3>1 DEF HoldsNothing
    <2>2. CASE d # c
      <3>1. t.conn[d] = s.conn[d]
        BY <1>2, <2>2
      <3>2. InTable(t, d) = InTable(s, d)
        BY <1>3, <2>2 DEF InTable
      <3> QED
        BY <3>1, <3>2 DEF Good
    <2> QED
      BY <2>1, <2>2
  <1>6. Numbered(t)
    BY <1>4 DEF Numbered, Good
  <1>7. CASE s.conn[c].kind = "forward"
    <2>1. /\ t \in SessionType
          /\ t.reverseTcpConnections = s.reverseTcpConnections
          /\ DOMAIN t.tcpConnections = DOMAIN s.tcpConnections \ {key}
          /\ \A k \in DOMAIN s.tcpConnections \ {key} : t.tcpConnections[k] = s.tcpConnections[k]
          /\ t.recentlyClosed = s.recentlyClosed /\ t.restTimers = s.restTimers
      BY <1>1, <1>7, RetiredForward
    <2> HIDE DEF t
    <2>2. Entries(t)
      <3>1. \A k \in DOMAIN t.tcpConnections :
              k \in DOMAIN s.tcpConnections /\ t.tcpConnections[k] = s.tcpConnections[k]
              /\ s.tcpConnections[k] \in Conns
        BY <1>1, <2>1, Fields
      <3>2. \A k \in DOMAIN t.reverseTcpConnections : t.reverseTcpConnections[k] \in Conns
        BY <1>1, <2>1, Fields
      <3> QED
        BY <1>1, <1>4, <2>1, <3>1, <3>2 DEF Entries
    <2>3. Rests(t)
      BY <2>1 DEF Rests, Good
    <2> QED
      BY <1>5, <1>6, <2>1, <2>2, <2>3 DEF Good, t
  <1>8. CASE s.conn[c].kind # "forward"
    <2>1. /\ t \in SessionType
          /\ t.tcpConnections = s.tcpConnections
          /\ key \in DOMAIN s.reverseTcpConnections
          /\ DOMAIN t.reverseTcpConnections = DOMAIN s.reverseTcpConnections \ {key}
          /\ \A k \in DOMAIN s.reverseTcpConnections \ {key} :
               t.reverseTcpConnections[k] = s.reverseTcpConnections[k]
          /\ t.recentlyClosed = s.recentlyClosed \cup {key}
      BY <1>1, <1>8, RetiredReverse
    <2>2. \A port \in Ports : t.restTimers[port] =
            IF port = key THEN s.restTimers[port] + 1 ELSE s.restTimers[port]
      BY <1>1, <1>8, RetiredReverse
    <2> HIDE DEF t
    <2>3. Entries(t)
      <3>1. \A k \in DOMAIN t.reverseTcpConnections :
              k \in DOMAIN s.reverseTcpConnections
              /\ t.reverseTcpConnections[k] = s.reverseTcpConnections[k]
              /\ s.reverseTcpConnections[k] \in Conns
        BY <1>1, <2>1, Fields
      <3>2. \A k \in DOMAIN t.tcpConnections : t.tcpConnections[k] \in Conns
        BY <1>1, <2>1, Fields
      <3> QED
        BY <1>1, <1>4, <2>1, <3>1, <3>2 DEF Entries
    <2>4. Rests(t)
      <3>1. key \in Ports /\ key \notin s.recentlyClosed /\ s.restTimers[key] = 0
        BY <1>1, <2>1, Fields DEF Rests, Good
      <3> QED
        BY <2>1, <2>2, <3>1 DEF Rests, Good
    <2> QED
      BY <1>5, <1>6, <2>1, <2>3, <2>4 DEF Good, t
  <1> QED
    BY <1>7, <1>8
-----------------------------------------------------------------------------
(* What the handlers make of a connection.                                 *)

\* A connection that gives things up, and takes nothing, holds no more than it may.
LEMMA LessHolds ==
  ASSUME NEW r0 \in Connection, NEW r \in Connection, NEW present \in BOOLEAN,
         Holds(r0, present), r.state # "unused",
         r.kind = r0.kind, r.state = r0.state, r.alive \subseteq r0.alive,
         r.sink = "open" => r0.sink = "open",
         r.promise = "pending" => r0.promise = "pending",
         r0.sourceEnded => r.sourceEnded,
         r.kind = "forward" /\ "pending" \in r.fins => "pending" \in r0.fins \/ r.sourceEnded
  PROVE  Holds(r, present)
  BY DEF Holds, Connection

\* The parts of a connection that is released.
LEMMA ReleasedIs ==
  ASSUME NEW r \in Connection
  PROVE  /\ Released(r) \in Connection
         /\ Released(r).kind = r.kind /\ Released(r).key = r.key /\ Released(r).state = r.state
         /\ Released(r).fins = r.fins /\ Released(r).alive = r.alive \ {"queue", "idle"}
         /\ Released(r).sink = "destroyed" /\ Released(r).sourceEnded = TRUE
         /\ Released(r).promise # "pending"
  <1> DEFINE promise == IF r.promise = "pending" THEN "rejected" ELSE r.promise
             client == IF r.promise = "pending" /\ r.client = "here" THEN "gone" ELSE r.client
             x == [kind |-> r.kind, key |-> r.key, state |-> r.state, fins |-> r.fins,
                   alive |-> r.alive \ {"queue", "idle"}, sink |-> "destroyed",
                   sourceEnded |-> TRUE, promise |-> promise, client |-> client]
  <1>1. promise \in {"none", "resolved", "rejected"} /\ client \in {"none", "here", "left", "gone"}
    BY DEF Connection
  <1>2. r = [kind |-> r.kind, key |-> r.key, state |-> r.state, fins |-> r.fins,
             alive |-> r.alive, sink |-> r.sink, sourceEnded |-> r.sourceEnded,
             promise |-> r.promise, client |-> r.client]
    BY DEF Connection
  <1>3. Released(r) = [r EXCEPT !.alive = r.alive \ {"queue", "idle"}, !.sink = "destroyed",
                                !.sourceEnded = TRUE, !.promise = promise, !.client = client]
    BY <1>2 DEF Released
  <1> HIDE DEF promise, client
  <1>4. Released(r) = x
    BY <1>2, <1>3
  <1>5. x \in Connection
    BY <1>1 DEF Connection
  <1> QED
    BY <1>1, <1>4, <1>5

Closed(r) == [Released(r) EXCEPT !.state = "CLOSED"]

LEMMA ClosedIs ==
  ASSUME NEW r \in Connection
  PROVE  /\ Closed(r) \in Connection
         /\ Closed(r).kind = r.kind /\ Closed(r).key = r.key /\ Closed(r).state = "CLOSED"
         /\ Closed(r).fins = r.fins /\ Closed(r).alive = r.alive \ {"queue", "idle"}
         /\ Closed(r).sink = "destroyed" /\ Closed(r).sourceEnded = TRUE
         /\ Closed(r).promise # "pending"
  <1> DEFINE y == Released(r)
             z == [y EXCEPT !.state = "CLOSED"]
  <1>1. /\ y \in Connection /\ y.kind = r.kind /\ y.key = r.key
        /\ y.fins = r.fins /\ y.alive = r.alive \ {"queue", "idle"}
        /\ y.sink = "destroyed" /\ y.sourceEnded = TRUE /\ y.promise # "pending"
    BY ReleasedIs
  <1> HIDE DEF y
  <1>2. /\ z \in Connection /\ z.kind = y.kind /\ z.key = y.key /\ z.state = "CLOSED"
        /\ z.fins = y.fins /\ z.alive = y.alive /\ z.sink = y.sink
        /\ z.sourceEnded = y.sourceEnded /\ z.promise = y.promise
    BY <1>1 DEF Connection
  <1>3. Closed(r) = z
    BY DEF Closed, y
  <1> HIDE DEF z
  <1> QED
    BY <1>1, <1>2, <1>3

LEMMA AbortedIs ==
  ASSUME NEW s, Good(s), NEW c \in Conns
  PROVE  Aborted(s, c) = Retired(s, c, Closed(s.conn[c]))
  <1>1. Removed(s, c).conn = s.conn
    BY DEF Removed, SessionType, Good
  <1> QED
    BY <1>1 DEF Aborted, Retired, Closed

LEMMA AbortedGood ==
  ASSUME NEW s, Good(s), NEW c \in Conns, InTable(s, c)
  PROVE  Good(Aborted(s, c))
  <1> DEFINE r0 == s.conn[c]
             r == Closed(r0)
  <1>1. r0 \in Connection /\ Holds(r0, InTable(s, c))
    BY Fields DEF Good
  <1>2. /\ r \in Connection /\ r.kind = r0.kind /\ r.key = r0.key /\ r.state = "CLOSED"
        /\ r.fins = r0.fins /\ r.alive = r0.alive \ {"queue", "idle"}
        /\ r.sink = "destroyed" /\ r.sourceEnded = TRUE /\ r.promise # "pending"
    BY <1>1, ClosedIs
  <1>3. Becomes(r0, r)
    BY <1>2 DEF Becomes
  <1>4. HoldsNothing(r)
    <2>1. {"queue", "idle"} \cap r.alive = {} /\ r.alive \subseteq {"linger"}
      BY <1>1, <1>2 DEF Connection
    <2>2. "linger" \in r.alive => r.kind = "forward" /\ r.state = "CLOSED" /\ r.sourceEnded
      BY <1>1, <1>2 DEF Holds
    <2> QED
      BY <1>2, <2>1, <2>2 DEF Holds, HoldsNothing
  <1> HIDE DEF r
  <1>5. Good(Retired(s, c, r))
    BY <1>3, <1>4, RetiredGood
  <1> QED
    BY <1>5, AbortedIs DEF r

LEMMA AbortedConn ==
  ASSUME NEW s, Good(s), NEW c \in Conns, InTable(s, c)
  PROVE  /\ Aborted(s, c).conn[c] = Closed(s.conn[c])
         /\ \A d \in Conns \ {c} : Aborted(s, c).conn[d] = s.conn[d]
  <1>1. s \in SessionType /\ s.conn[c] \in Connection
    BY Fields DEF Good
  <1>2. Closed(s.conn[c]) \in Connection
    BY <1>1, ClosedIs
  <1> QED
    BY <1>1, <1>2, AbortedIs, RetiredConn

LEMMA AbortedFound ==
  ASSUME NEW s, Good(s), NEW c \in Conns, InTable(s, c)
  PROVE  \A d \in Conns : Found(Aborted(s, c), d) = IF Found(s, d) = c THEN None ELSE Found(s, d)
  <1> DEFINE r == Closed(s.conn[c])
  <1>0. s.conn[c] \in Connection
    BY Fields DEF Good
  <1>1. r \in Connection /\ r.kind = s.conn[c].kind /\ r.key = s.conn[c].key
    BY <1>0, ClosedIs
  <1> HIDE DEF r
  <1>2. \A d \in Conns : Found(Retired(s, c, r), d) = IF Found(s, d) = c THEN None ELSE Found(s, d)
    BY <1>1, RetiredFound
  <1> QED
    BY <1>2, AbortedIs DEF r

\* The same for what is found under a key, if anything.
LEMMA AbortedByKeyGood ==
  ASSUME NEW s, Good(s), NEW c \in Conns
  PROVE  LET t == AbortedByKey(s, c)
         IN /\ Good(t)
            /\ Found(t, c) = None
            /\ t.conn[c] = IF InTable(s, c) THEN Closed(s.conn[c])
                           ELSE s.conn[c]
            /\ t.conn[c].kind = s.conn[c].kind /\ t.conn[c].key = s.conn[c].key
            /\ s.conn[c].state # "unused" => t.conn[c].state # "unused"
  <1> DEFINE t == AbortedByKey(s, c)
             d == Found(s, c)
  <1>1. s \in SessionType /\ s.conn[c] \in Connection /\ c # None
    BY Fields DEF Good
  <1>2. CASE d = None
    BY <1>1, <1>2 DEF AbortedByKey, InTable
  <1>3. CASE d # None
    <2>1. d \in Conns /\ InTable(s, d)
      BY <1>3, FoundIs
    <2>2. t = Aborted(s, d)
      BY <1>3 DEF AbortedByKey
    <2> HIDE DEF d, t
    <2>3. /\ Good(t) /\ Found(t, c) = None /\ t.conn[d] = Closed(s.conn[d])
          /\ \A e \in Conns \ {d} : t.conn[e] = s.conn[e]
      BY <2>1, <2>2, AbortedGood, AbortedFound, AbortedConn DEF d
    <2>4. CASE c = d
      <3> DEFINE x == Closed(s.conn[c])
      <3>1. InTable(s, c) /\ t.conn[c] = x
        BY <2>1, <2>3, <2>4
      <3>2. x.kind = s.conn[c].kind /\ x.key = s.conn[c].key /\ x.state = "CLOSED"
        BY <1>1, ClosedIs
      <3> HIDE DEF x
      <3>3. t.conn[c].kind = s.conn[c].kind /\ t.conn[c].key = s.conn[c].key /\ t.conn[c].state = "CLOSED"
        BY <3>1, <3>2
      <3> QED
        BY <2>3, <3>1, <3>3 DEF t, x
    <2>5. CASE c # d
      <3>1. ~InTable(s, c) /\ t.conn[c] = s.conn[c]
        BY <2>1, <2>3, <2>5 DEF InTable, d
      <3> QED
        BY <2>3, <3>1 DEF t
    <2> QED
      BY <2>4, <2>5
  <1> QED
    BY <1>2, <1>3

\* A connection that gives something up where it is.
LEMMA LessGood ==
  ASSUME NEW s, Good(s), NEW c \in Conns, NEW r \in Connection, r.state # "unused",
         r.kind = s.conn[c].kind, r.key = s.conn[c].key, r.state = s.conn[c].state,
         r.alive \subseteq s.conn[c].alive,
         r.sink = "open" => s.conn[c].sink = "open",
         r.promise = "pending" => s.conn[c].promise = "pending",
         s.conn[c].sourceEnded => r.sourceEnded,
         r.kind = "forward" /\ "pending" \in r.fins => "pending" \in s.conn[c].fins \/ r.sourceEnded
  PROVE  Good(Replaced(s, c, r))
  <1>1. s.conn[c] \in Connection /\ Holds(s.conn[c], InTable(s, c)) /\ InTable(s, c) \in BOOLEAN
    BY Fields DEF Good, InTable
  <1> DEFINE present == InTable(s, c)
  <1> HIDE DEF present
  <1>2. Holds(s.conn[c], present) /\ present \in BOOLEAN
    BY <1>1 DEF present
  <1>3. Holds(r, present)
    BY <1>1, <1>2, LessHolds
  <1>4. Becomes(s.conn[c], r)
    BY DEF Becomes
  <1> QED
    BY <1>3, <1>4, ReplacedGood DEF present

\* finishTCPConnection and finishReverseConnection, called when both FINs have passed.
LEMMA FinishedGood ==
  ASSUME NEW s, Good(s), NEW c \in Conns, InTable(s, c), s.conn[c].state = "ESTABLISHED",
         s.conn[c].kind = "forward" => s.conn[c].sourceEnded
  PROVE  /\ Good(Finished(s, c))
         /\ Finished(s, c).conn[c].kind = s.conn[c].kind
         /\ Finished(s, c).conn[c].state = "CLOSED"
         /\ s.conn[c].kind # "forward" => Found(Finished(s, c), c) = None
  <1> DEFINE r0 == s.conn[c]
             closed == [r0 EXCEPT !.state = "CLOSED", !.alive = @ \ {"queue", "idle"}, !.sink = Ended(@)]
  <1>1. s \in SessionType /\ r0 \in Connection /\ Holds(r0, InTable(s, c))
    BY Fields DEF Good
  <1>2. /\ closed \in Connection /\ closed.kind = r0.kind /\ closed.key = r0.key
        /\ closed.state = "CLOSED" /\ closed.alive = r0.alive \ {"queue", "idle"}
        /\ closed.sink # "open" /\ closed.promise = r0.promise
        /\ closed.sourceEnded = r0.sourceEnded
    BY <1>1 DEF Connection, Ended
  <1>3. closed.promise # "pending" /\ closed.alive \subseteq {"linger"}
        /\ ("linger" \in closed.alive => FALSE)
    BY <1>1, <1>2 DEF Holds, Connection
  <1> HIDE DEF closed
  <1>4. CASE r0.kind = "forward"
    <2> DEFINE r == [closed EXCEPT !.alive = @ \cup {"linger"}]
    <2>1. Finished(s, c) = Replaced(s, c, r)
      BY <1>4, Zenon DEF Finished, Replaced, closed
    <2>2. /\ r \in Connection /\ r.kind = "forward" /\ r.key = r0.key /\ r.state = "CLOSED"
          /\ r.alive = {"linger"} /\ r.sink # "open" /\ r.promise # "pending" /\ r.sourceEnded = TRUE
      BY <1>1, <1>2, <1>3, <1>4 DEF Connection
    <2> HIDE DEF r
    <2>3. Becomes(r0, r) /\ Holds(r, InTable(s, c))
      BY <1>4, <2>2 DEF Becomes, Holds
    <2>4. Good(Replaced(s, c, r))
      BY <2>3, ReplacedGood
    <2>5. Replaced(s, c, r).conn[c] = r
      BY <1>1, <2>2, ReplacedConn
    <2> QED
      BY <1>4, <2>1, <2>2, <2>4, <2>5
  <1>5. CASE r0.kind # "forward"
    <2> DEFINE r == [closed EXCEPT !.sourceEnded = TRUE]
    <2>1. Finished(s, c) = Retired(s, c, r)
      BY <1>5, Zenon DEF Finished, Retired, closed
    <2>2. /\ r \in Connection /\ r.kind = r0.kind /\ r.key = r0.key /\ r.state = "CLOSED"
          /\ r.alive = closed.alive /\ r.sink # "open" /\ r.promise # "pending"
          /\ r.sourceEnded = TRUE
      BY <1>2, <1>3 DEF Connection
    <2> HIDE DEF r
    <2>3. Becomes(r0, r) /\ HoldsNothing(r)
      BY <1>3, <2>2 DEF Becomes, Holds, HoldsNothing
    <2>4. Good(Retired(s, c, r))
      BY <2>3, RetiredGood
    <2>5. Retired(s, c, r).conn[c] = r
      BY <1>1, <2>2, RetiredConn
    <2>6. Found(Retired(s, c, r), c) = None
      BY <2>2, RetiredFound DEF InTable
    <2> QED
      BY <1>5, <2>1, <2>2, <2>4, <2>5, <2>6
  <1> QED
    BY <1>4, <1>5
-----------------------------------------------------------------------------
(* The frames of the VM.                                                   *)

LEMMA ChangeInv ==
  ASSUME IInv, NEW s, Good(s), NEW crossings \in SUBSET {"socket error", "client"},
         Change(s, crossings)
  PROVE  IInv'
  BY DEF IInv, Change, EventsStayHome

\* The connection of a step, and the session it is in.
LEMMA StepFrom ==
  ASSUME IInv, NEW c \in Conns
  PROVE  /\ Good(session) /\ session \in SessionType
         /\ session.conn[c] \in Connection
         /\ Holds(session.conn[c], InTable(session, c))
         /\ InTable(session, c) => session.conn[c].state # "unused"
  <1>1. Good(session) /\ session \in SessionType /\ c # None
    BY DEF IInv, Good
  <1>2. InTable(session, c) => session.conn[c].state # "unused"
    BY <1>1, FoundIs DEF InTable
  <1> QED
    BY <1>1, <1>2, Fields DEF Good

\* A connection that still has something, or somebody, has been opened.
LEMMA UsedIs ==
  ASSUME IInv, NEW c \in Conns,
         LET r == session.conn[c]
         IN r.sink # "destroyed" \/ ~r.sourceEnded \/ r.promise # "none" \/ r.alive # {}
  PROVE  session.conn[c].state # "unused"
  <1>1. Holds(session.conn[c], InTable(session, c))
    BY StepFrom
  <1> QED
    BY <1>1 DEF Holds, Unused

LEMMA VmAcceptsInv ==
  ASSUME IInv, NEW c \in Conns, VmAccepts(c)
  PROVE  IInv'
  <1> DEFINE r0 == session.conn[c]
             promise == IF r0.promise = "pending" THEN "resolved" ELSE r0.promise
             r == [r0 EXCEPT !.state = "ESTABLISHED", !.promise = promise]
             s == [session EXCEPT !.conn[c] = [@ EXCEPT !.state = "ESTABLISHED", !.promise = promise]]
  <1>1. /\ Good(session) /\ session \in SessionType /\ r0 \in Connection
        /\ Holds(r0, InTable(session, c)) /\ InTable(session, c) /\ r0.state = "SYN_SENT"
    BY StepFrom DEF VmAccepts, FromVM
  <1>2. s = Replaced(session, c, r)
    BY Zenon DEF Replaced
  <1>3. /\ r \in Connection /\ r.kind = r0.kind /\ r.key = r0.key /\ r.state = "ESTABLISHED"
        /\ r.promise # "pending" /\ r.alive = r0.alive /\ r.sink = r0.sink /\ r.fins = r0.fins
        /\ r.sourceEnded = r0.sourceEnded
    BY <1>1 DEF Connection
  <1>4. Change(s, {})
    BY DEF VmAccepts
  <1> HIDE DEF r, s
  <1>5. Becomes(r0, r) /\ Holds(r, InTable(session, c))
    BY <1>1, <1>3 DEF Becomes, Holds
  <1>6. Good(s)
    BY <1>1, <1>2, <1>5, ReplacedGood
  <1> QED
    BY <1>4, <1>6, ChangeInv

LEMMA VmResetsInv ==
  ASSUME IInv, NEW c \in Conns, VmResets(c)
  PROVE  IInv'
  <1>1. Good(Aborted(session, c)) /\ Change(Aborted(session, c), {})
    BY StepFrom, AbortedGood DEF VmResets, FromVM
  <1> QED
    BY <1>1, ChangeInv

LEMMA VmAcknowledgesFinInv ==
  ASSUME IInv, NEW c \in Conns, VmAcknowledgesFin(c)
  PROVE  IInv'
  <1>1. session.conn[c].kind = "forward" => session.conn[c].sourceEnded
    BY StepFrom DEF VmAcknowledgesFin, Holds
  <1>2. Good(Finished(session, c))
    BY <1>1, StepFrom, FinishedGood DEF VmAcknowledgesFin, FromVM
  <1> QED
    BY <1>2, ChangeInv DEF VmAcknowledgesFin

\* The end of downstream, before or after the FIN is answered.
LEMMA EndsResponseGood ==
  ASSUME NEW s, Good(s), NEW c \in Conns, s.conn[c].state # "unused"
  PROVE  Good(EndsResponse(s, c))
  <1>1. CASE s.conn[c].kind # "http" \/ s.conn[c].promise # "resolved"
    BY <1>1 DEF EndsResponse
  <1>2. CASE ~(s.conn[c].kind # "http" \/ s.conn[c].promise # "resolved")
    <2> DEFINE t == AbortedByKey(s, c)
               r == [t.conn[c] EXCEPT !.client = "gone", !.sink = "destroyed"]
    <2>1. Good(t) /\ t.conn[c].state # "unused"
      BY AbortedByKeyGood
    <2>2. EndsResponse(s, c) = [t EXCEPT !.conn[c] = [@ EXCEPT !.client = "gone", !.sink = "destroyed"]]
      BY <1>2 DEF EndsResponse
    <2> HIDE DEF t
    <2>3. t \in SessionType /\ t.conn[c] \in Connection
      BY <2>1, Fields DEF Good
    <2>4. EndsResponse(s, c) = Replaced(t, c, r)
      BY <2>2, Zenon DEF Replaced
    <2>5. /\ r \in Connection /\ r.kind = t.conn[c].kind /\ r.key = t.conn[c].key
          /\ r.state = t.conn[c].state /\ r.alive = t.conn[c].alive /\ r.sink = "destroyed"
          /\ r.promise = t.conn[c].promise /\ r.sourceEnded = t.conn[c].sourceEnded
          /\ r.fins = t.conn[c].fins
      BY <2>3 DEF Connection
    <2> HIDE DEF r
    <2> QED
      BY <2>1, <2>4, <2>5, LessGood
  <1> QED
    BY <1>1, <1>2

LEMMA VmEndsInv ==
  ASSUME IInv, NEW c \in Conns, NEW acknowledges \in BOOLEAN, VmEnds(c, acknowledges)
  PROVE  IInv'
  <1> DEFINE r0 == session.conn[c]
             peered == [r0 EXCEPT !.fins = r0.fins \cup {"peer"}, !.sink = Ended(r0.sink)]
             ended == [session EXCEPT !.conn[c] =
                     [@ EXCEPT !.fins = r0.fins \cup {"peer"}, !.sink = Ended(r0.sink)]]
  <1>1. /\ Good(session) /\ session \in SessionType /\ r0 \in Connection
        /\ Holds(r0, InTable(session, c)) /\ InTable(session, c) /\ r0.state = "ESTABLISHED"
    BY StepFrom DEF VmEnds, FromVM
  <1>0. /\ acknowledges => "pending" \in r0.fins
        /\ Change(EndsResponse(IF acknowledges THEN Finished(ended, c) ELSE ended, c), {})
    BY DEF VmEnds
  <1>2. ended = Replaced(session, c, peered)
    BY Zenon DEF Replaced
  <1>3. /\ peered \in Connection /\ peered.kind = r0.kind /\ peered.key = r0.key /\ peered.state = "ESTABLISHED"
        /\ peered.promise = r0.promise /\ peered.alive = r0.alive /\ peered.sink # "open"
        /\ peered.fins = r0.fins \cup {"peer"} /\ peered.sourceEnded = r0.sourceEnded
    BY <1>1 DEF Connection, Ended
  <1> HIDE DEF peered, ended
  <1>4. Becomes(r0, peered) /\ Holds(peered, InTable(session, c))
    BY <1>1, <1>3 DEF Becomes, Holds
  <1>5. Good(ended) /\ ended.conn[c] = peered /\ InTable(ended, c)
    <2>0. Good(session) /\ session.conn[c].state # "unused"
      BY <1>1
    <2>1. Good(Replaced(session, c, peered))
      BY <1>4, <2>0, ReplacedGood
    <2>2. Found(Replaced(session, c, peered), c) = Found(session, c)
      BY <1>1, <1>3, ReplacedFound
    <2>3. ended.conn[c] = peered
      BY <1>1, <1>2, <1>3, ReplacedConn
    <2> QED
      BY <1>1, <1>2, <2>1, <2>2, <2>3 DEF InTable
  <1>6. acknowledges => Good(Finished(ended, c)) /\ Finished(ended, c).conn[c].state # "unused"
    <2>1. acknowledges /\ peered.kind = "forward" => peered.sourceEnded
      BY <1>0, <1>1, <1>3 DEF Holds
    <2> QED
      BY <1>3, <1>5, <2>1, FinishedGood
  <1> DEFINE last == IF acknowledges THEN Finished(ended, c) ELSE ended
  <1>7. Good(last) /\ last.conn[c].state # "unused"
    BY <1>3, <1>5, <1>6
  <1>8. Change(EndsResponse(last, c), {})
    BY <1>0
  <1> HIDE DEF last
  <1>9. Good(EndsResponse(last, c))
    BY <1>7, EndsResponseGood
  <1> QED
    BY <1>8, <1>9, ChangeInv
-----------------------------------------------------------------------------
(* The real socket of a connection the VM opened.                          *)

LEMMA ReplacedTwice ==
  ASSUME NEW s \in SessionType, NEW c \in Conns, NEW r1 \in Connection, NEW r2 \in Connection
  PROVE  Replaced(Replaced(s, c, r1), c, r2) = Replaced(s, c, r2)
  BY DEF Replaced, SessionType

\* A socket that reads, an idle timer and a retransmission queue find their connection.
LEMMA HoldersArePresent ==
  ASSUME IInv, NEW c \in Conns,
         Readable(c) \/ {"queue", "idle"} \cap session.conn[c].alive # {}
  PROVE  InTable(session, c)
  BY StepFrom DEF Readable, Holds

LEMMA SocketDataInv ==
  ASSUME IInv, NEW c \in Conns, SocketData(c)
  PROVE  IInv'
  <1>1. Crosses(session, c, "socket data") = {}
    BY HoldersArePresent DEF SocketData, Crosses, InTable
  <1> QED
    BY <1>1, StepFrom, ChangeInv DEF SocketData

LEMMA SocketEndInv ==
  ASSUME IInv, NEW c \in Conns, SocketEnd(c)
  PROVE  IInv'
  <1> DEFINE r0 == session.conn[c]
             r1 == [r0 EXCEPT !.fins = @ \cup {"pending"}]
             s1 == MarkFin(session, c)
             s2 == [s1 EXCEPT !.conn[c] = [@ EXCEPT !.sourceEnded = TRUE, !.sink = Ended(r0.sink)]]
             r2 == [s1.conn[c] EXCEPT !.sourceEnded = TRUE, !.sink = Ended(r0.sink)]
  <1>1. /\ Good(session) /\ session \in SessionType /\ r0 \in Connection
        /\ InTable(session, c) /\ r0.state # "unused" /\ r0.kind = "forward" /\ c # None
    BY StepFrom, HoldersArePresent DEF SocketEnd, Readable
  <1>2. Crosses(session, c, "socket end") = {} /\ Found(session, c) = c
    BY <1>1 DEF Crosses, InTable
  <1>3. Change(s2, {})
    BY <1>2 DEF SocketEnd
  <1>4. /\ r1 \in Connection /\ r1.kind = r0.kind /\ r1.key = r0.key /\ r1.state = r0.state
        /\ r1.alive = r0.alive /\ r1.promise = r0.promise
    BY <1>1 DEF Connection
  <1>5. s2 = Replaced(s1, c, r2)
    BY Zenon DEF Replaced
  <1> HIDE DEF s2
  <1>6. s1 = session \/ s1 = Replaced(session, c, r1)
    BY <1>1 DEF MarkFin, Replaced
  <1> HIDE DEF r1, s1
  <1>7. /\ s1 \in SessionType /\ s1.conn[c] \in Connection /\ s1.conn[c].kind = r0.kind
        /\ s1.conn[c].key = r0.key /\ s1.conn[c].state = r0.state
        /\ s1.conn[c].alive = r0.alive /\ s1.conn[c].promise = r0.promise
    <2>1. CASE s1 = session
      BY <1>1, <2>1
    <2>2. CASE s1 = Replaced(session, c, r1)
      <3>1. s1 \in SessionType
        BY <1>1, <1>4, <2>2, ReplacedFields
      <3>2. s1.conn[c] = r1
        BY <1>1, <1>4, <2>2, ReplacedConn
      <3> QED
        BY <1>4, <3>1, <3>2
    <2> QED
      BY <1>6, <2>1, <2>2
  <1>8. /\ r2 \in Connection /\ r2.kind = r0.kind /\ r2.key = r0.key /\ r2.state = r0.state
        /\ r2.alive = r0.alive /\ r2.promise = r0.promise /\ r2.sink # "open"
        /\ r2.sourceEnded = TRUE
    <2> DEFINE sink == Ended(r0.sink)
    <2>1. sink \in {"open", "ended", "destroyed"} /\ sink # "open"
      BY <1>1 DEF Connection, Ended
    <2> HIDE DEF sink
    <2>2. r2 = [s1.conn[c] EXCEPT !.sourceEnded = TRUE, !.sink = sink]
      BY DEF sink
    <2> HIDE DEF r2
    <2> QED
      BY <1>7, <2>1, <2>2 DEF Connection
  <1> HIDE DEF r2
  <1>9. Good(Replaced(session, c, r2))
    BY <1>1, <1>8, LessGood
  <1>10. s2 = Replaced(session, c, r2)
    <2>1. CASE s1 = session
      BY <1>5, <2>1
    <2>2. CASE s1 = Replaced(session, c, r1)
      BY <1>1, <1>4, <1>5, <1>8, <2>2, ReplacedTwice
    <2> QED
      BY <1>6, <2>1, <2>2
  <1> QED
    BY <1>3, <1>9, <1>10, ChangeInv

LEMMA SocketErrorInv ==
  ASSUME IInv, NEW c \in Conns, SocketError(c)
  PROVE  IInv'
  <1> DEFINE t == AbortedByKey(session, c)
             r == [t.conn[c] EXCEPT !.sourceEnded = TRUE, !.sink = "destroyed"]
             s == [t EXCEPT !.conn[c] = [@ EXCEPT !.sourceEnded = TRUE, !.sink = "destroyed"]]
  <1>1. Good(session) /\ session.conn[c].state # "unused"
    BY StepFrom, UsedIs DEF SocketError
  <1>2. Good(t) /\ t.conn[c].state # "unused"
    BY <1>1, AbortedByKeyGood
  <1>3. Change(s, Crosses(session, c, "socket error"))
    BY DEF SocketError
  <1>4. Crosses(session, c, "socket error") \in SUBSET {"socket error", "client"}
    BY DEF Crosses
  <1>5. s = Replaced(t, c, r)
    BY Zenon DEF Replaced
  <1> HIDE DEF s, t
  <1>6. t.conn[c] \in Connection
    BY <1>2, Fields DEF Good
  <1>7. /\ r \in Connection /\ r.kind = t.conn[c].kind /\ r.key = t.conn[c].key
        /\ r.state = t.conn[c].state /\ r.alive = t.conn[c].alive /\ r.sink = "destroyed"
        /\ r.promise = t.conn[c].promise /\ r.sourceEnded = TRUE
    BY <1>6 DEF Connection
  <1> HIDE DEF r
  <1>8. Good(s)
    BY <1>2, <1>5, <1>7, LessGood
  <1> QED
    BY <1>3, <1>4, <1>8, ChangeInv

LEMMA SocketClosesInv ==
  ASSUME IInv, NEW c \in Conns, SocketCloses(c)
  PROVE  IInv'
  <1> DEFINE r0 == session.conn[c]
             r == [r0 EXCEPT !.sink = "destroyed"]
             s == [session EXCEPT !.conn[c].sink = "destroyed"]
  <1>1. /\ Good(session) /\ session \in SessionType /\ r0 \in Connection /\ r0.state # "unused"
        /\ r0.sourceEnded
    BY StepFrom, UsedIs DEF SocketCloses
  <1>2. s = Replaced(session, c, r)
    BY <1>1 DEF Replaced
  <1>3. Change(s, {})
    BY DEF SocketCloses
  <1> HIDE DEF s
  <1>4. /\ r \in Connection /\ r.kind = r0.kind /\ r.key = r0.key /\ r.state = r0.state
        /\ r.alive = r0.alive /\ r.sink = "destroyed" /\ r.promise = r0.promise
        /\ r.sourceEnded = r0.sourceEnded
    BY <1>1 DEF Connection
  <1> HIDE DEF r
  <1>5. Good(s)
    BY <1>1, <1>2, <1>4, LessGood
  <1> QED
    BY <1>3, <1>5, ChangeInv
-----------------------------------------------------------------------------
(* The client of a connection the relay opened.                            *)

LEMMA ClientEndsInv ==
  ASSUME IInv, NEW c \in Conns, ClientEnds(c)
  PROVE  IInv'
  <1> DEFINE r0 == session.conn[c]
             found == IF InTable(session, c) THEN c ELSE None
             r1 == [r0 EXCEPT !.fins = @ \cup {"pending"}]
             s1 == MarkFin(session, found)
             s2 == [s1 EXCEPT !.conn[c].sourceEnded = TRUE]
             r2 == [s1.conn[c] EXCEPT !.sourceEnded = TRUE]
  <1>1. /\ Good(session) /\ session \in SessionType /\ r0 \in Connection
        /\ r0.state # "unused" /\ c # None
    BY StepFrom, UsedIs DEF ClientEnds, Listening
  <1>2. Change(s2, {})
    BY DEF ClientEnds
  <1>3. /\ r1 \in Connection /\ r1.kind = r0.kind /\ r1.key = r0.key /\ r1.state = r0.state
        /\ r1.alive = r0.alive /\ r1.promise = r0.promise /\ r1.sink = r0.sink
    BY <1>1 DEF Connection
  <1>4. s1 = session \/ s1 = Replaced(session, c, r1)
    BY <1>1 DEF MarkFin, Replaced
  <1> HIDE DEF r1, s1
  <1>5. /\ s1 \in SessionType /\ s1.conn[c] \in Connection /\ s1.conn[c].kind = r0.kind
        /\ s1.conn[c].key = r0.key /\ s1.conn[c].state = r0.state
        /\ s1.conn[c].alive = r0.alive /\ s1.conn[c].promise = r0.promise
        /\ s1.conn[c].sink = r0.sink
    <2>1. CASE s1 = session
      BY <1>1, <2>1
    <2>2. CASE s1 = Replaced(session, c, r1)
      <3>1. s1 \in SessionType
        BY <1>1, <1>3, <2>2, ReplacedFields
      <3>2. s1.conn[c] = r1
        BY <1>1, <1>3, <2>2, ReplacedConn
      <3> QED
        BY <1>3, <3>1, <3>2
    <2> QED
      BY <1>4, <2>1, <2>2
  <1>6. s2 = Replaced(s1, c, r2)
    BY <1>5 DEF Replaced
  <1> HIDE DEF s2
  <1>7. /\ r2 \in Connection /\ r2.kind = r0.kind /\ r2.key = r0.key /\ r2.state = r0.state
        /\ r2.alive = r0.alive /\ r2.promise = r0.promise /\ r2.sink = r0.sink
        /\ r2.sourceEnded = TRUE
    BY <1>5 DEF Connection
  <1> HIDE DEF r2
  <1>8. Good(Replaced(session, c, r2))
    BY <1>1, <1>7, LessGood
  <1>9. s2 = Replaced(session, c, r2)
    <2>1. CASE s1 = session
      BY <1>6, <2>1
    <2>2. CASE s1 = Replaced(session, c, r1)
      BY <1>1, <1>3, <1>6, <1>7, <2>2, ReplacedTwice
    <2> QED
      BY <1>4, <2>1, <2>2
  <1> QED
    BY <1>2, <1>8, <1>9, ChangeInv

\* A client that leaves, or whose going is noted, takes nothing from its connection.
LEMMA GoneGood ==
  ASSUME NEW s, Good(s), NEW c \in Conns, s.conn[c].state # "unused",
         NEW client \in {"left", "gone"}
  PROVE  Good([s EXCEPT !.conn[c].client = client])
  <1> DEFINE r0 == s.conn[c]
             r == [r0 EXCEPT !.client = client]
             t == [s EXCEPT !.conn[c].client = client]
  <1>1. s \in SessionType /\ r0 \in Connection
    BY Fields DEF Good
  <1>2. t = Replaced(s, c, r)
    BY <1>1 DEF Replaced
  <1>3. /\ r \in Connection /\ r.kind = r0.kind /\ r.key = r0.key /\ r.state = r0.state
        /\ r.alive = r0.alive /\ r.sink = r0.sink /\ r.promise = r0.promise
        /\ r.sourceEnded = r0.sourceEnded /\ r.fins = r0.fins
    BY <1>1 DEF Connection
  <1> HIDE DEF r, t
  <1>4. Good(Replaced(s, c, r))
    BY <1>3, LessGood
  <1>5. Good(t)
    BY <1>2, <1>4
  <1> QED
    BY <1>5 DEF t

LEMMA ClientLeavesInv ==
  ASSUME IInv, NEW c \in Conns, ClientLeaves(c)
  PROVE  IInv'
  <1> DEFINE s == [session EXCEPT !.conn[c].client = "left"]
  <1>1. Good(session) /\ session.conn[c].state # "unused"
    BY StepFrom, UsedIs DEF ClientLeaves
  <1>2. Good(s)
    BY <1>1, GoneGood
  <1>3. Change(s, {})
    BY DEF ClientLeaves
  <1> HIDE DEF s
  <1> QED
    BY <1>2, <1>3, ChangeInv

LEMMA CleanedUpGood ==
  ASSUME NEW s, Good(s), NEW c \in Conns, s.conn[c].state # "unused"
  PROVE  Good(CleanedUp(s, c)) /\ CleanedUp(s, c).conn[c].state # "unused"
  <1> DEFINE t == AbortedByKey(s, c)
             r == [t.conn[c] EXCEPT !.client = "gone", !.sink = "destroyed", !.sourceEnded = TRUE]
             u == [t EXCEPT !.conn[c] = [@ EXCEPT !.client = "gone", !.sink = "destroyed",
                                                  !.sourceEnded = TRUE]]
  <1>1. Good(t) /\ t.conn[c].state # "unused"
    BY AbortedByKeyGood
  <1>2. CleanedUp(s, c) = u
    BY DEF CleanedUp
  <1>3. u = Replaced(t, c, r)
    BY Zenon DEF Replaced
  <1> HIDE DEF t, u
  <1>4. t \in SessionType /\ t.conn[c] \in Connection
    BY <1>1, Fields DEF Good
  <1>5. /\ r \in Connection /\ r.kind = t.conn[c].kind /\ r.key = t.conn[c].key
        /\ r.state = t.conn[c].state /\ r.alive = t.conn[c].alive /\ r.sink = "destroyed"
        /\ r.promise = t.conn[c].promise /\ r.sourceEnded = TRUE
    BY <1>4 DEF Connection
  <1> HIDE DEF r
  <1>6. Good(Replaced(t, c, r))
    BY <1>1, <1>5, LessGood
  <1>7. Replaced(t, c, r).conn[c] = r
    BY <1>4, <1>5, ReplacedConn
  <1> QED
    BY <1>1, <1>2, <1>3, <1>5, <1>6, <1>7

\* The FIN of a forwarded client goes to whatever is under its key.
LEMMA ForwardedEndGood ==
  ASSUME IInv, NEW c \in Conns, session.conn[c].kind = "forwarded",
         session.conn[c].state # "unused", Found(session, c) # None
  PROVE  LET s == [session EXCEPT !.conn[Found(session, c)].fins = @ \cup {"pending"}]
         IN Good(s) /\ s.conn[c].state # "unused"
  <1> DEFINE d == Found(session, c)
             r0 == session.conn[d]
             r == [r0 EXCEPT !.fins = @ \cup {"pending"}]
             s == [session EXCEPT !.conn[d].fins = @ \cup {"pending"}]
  <1>1. Good(session) /\ session \in SessionType
    BY StepFrom
  <1>2. d \in Conns /\ r0.kind # "forward" /\ r0.state # "unused"
    BY <1>1, FoundIs
  <1> HIDE DEF d
  <1>3. r0 \in Connection
    BY <1>1, <1>2, Fields
  <1>4. s = Replaced(session, d, r)
    BY <1>1, <1>2 DEF Replaced
  <1>5. /\ r \in Connection /\ r.kind = r0.kind /\ r.key = r0.key /\ r.state = r0.state
        /\ r.alive = r0.alive /\ r.sink = r0.sink /\ r.promise = r0.promise
        /\ r.sourceEnded = r0.sourceEnded
    BY <1>3 DEF Connection
  <1> HIDE DEF r, s
  <1>6. Good(Replaced(session, d, r))
    BY <1>1, <1>2, <1>5, LessGood
  <1>7. /\ Replaced(session, d, r).conn[d] = r
        /\ \A e \in Conns \ {d} : Replaced(session, d, r).conn[e] = session.conn[e]
    BY <1>1, <1>2, <1>5, ReplacedConn
  <1>8. Good(s) /\ s.conn[c].state # "unused"
    BY <1>2, <1>4, <1>5, <1>6, <1>7
  <1> QED
    BY <1>8 DEF d, s

LEMMA ClientClosesInv ==
  ASSUME IInv, NEW c \in Conns, NEW failed \in BOOLEAN, ClientCloses(c, failed)
  PROVE  IInv'
  <1> DEFINE marked == [session EXCEPT !.conn[Found(session, c)].fins = @ \cup {"pending"}]
             s == IF session.conn[c].kind # "forwarded" THEN CleanedUp(session, c)
                  ELSE IF failed THEN AbortedByKey(session, c)
                  ELSE IF Found(session, c) = None THEN session
                  ELSE marked
             t == [s EXCEPT !.conn[c].client = "gone"]
  <1>1. Good(session) /\ session.conn[c].state # "unused"
    BY StepFrom, UsedIs DEF ClientCloses, Listening
  <1>2. Change(t, Crosses(session, c, "client"))
    BY DEF ClientCloses
  <1>3. Crosses(session, c, "client") \in SUBSET {"socket error", "client"}
    BY DEF Crosses
  <1>4. Good(s) /\ s.conn[c].state # "unused"
    <2>1. CASE session.conn[c].kind # "forwarded"
      BY <1>1, <2>1, CleanedUpGood
    <2>2. CASE session.conn[c].kind = "forwarded" /\ failed
      <3>1. Good(AbortedByKey(session, c)) /\ AbortedByKey(session, c).conn[c].state # "unused"
        BY <1>1, AbortedByKeyGood
      <3> QED
        BY <2>2, <3>1
    <2>3. CASE session.conn[c].kind = "forwarded" /\ ~failed /\ Found(session, c) = None
      BY <1>1, <2>3
    <2>4. CASE session.conn[c].kind = "forwarded" /\ ~failed /\ Found(session, c) # None
      <3>1. Good(marked) /\ marked.conn[c].state # "unused"
        BY <1>1, <2>4, ForwardedEndGood
      <3> HIDE DEF marked
      <3> QED
        BY <2>4, <3>1
    <2> QED
      BY <2>1, <2>2, <2>3, <2>4
  <1> HIDE DEF s
  <1>5. Good(t)
    BY <1>4, GoneGood
  <1> HIDE DEF t
  <1> QED
    BY <1>2, <1>3, <1>5, ChangeInv

LEMMA ResponseTimeoutInv ==
  ASSUME IInv, NEW c \in Conns, ResponseTimeout(c)
  PROVE  IInv'
  <1>1. Good(session) /\ session.conn[c].state # "unused"
    BY StepFrom, UsedIs DEF ResponseTimeout
  <1>2. Good(CleanedUp(session, c))
    BY <1>1, CleanedUpGood
  <1>3. Crosses(session, c, "client") \in SUBSET {"socket error", "client"}
    BY DEF Crosses
  <1> QED
    BY <1>2, <1>3, ChangeInv DEF ResponseTimeout
-----------------------------------------------------------------------------
(* The timers and the end of the session.                                  *)

\* A timer that has fired, or a queue that has given up, is held no more.
LEMMA FiredGood ==
  ASSUME NEW s, Good(s), NEW c \in Conns, s.conn[c].state # "unused", NEW timer
  PROVE  Good([s EXCEPT !.conn[c].alive = @ \ {timer}])
  <1> DEFINE r0 == s.conn[c]
             r == [r0 EXCEPT !.alive = @ \ {timer}]
             t == [s EXCEPT !.conn[c].alive = @ \ {timer}]
  <1>1. s \in SessionType /\ r0 \in Connection
    BY Fields DEF Good
  <1>2. t = Replaced(s, c, r)
    BY <1>1 DEF Replaced
  <1>3. /\ r \in Connection /\ r.kind = r0.kind /\ r.key = r0.key /\ r.state = r0.state
        /\ r.alive \subseteq r0.alive /\ r.sink = r0.sink /\ r.promise = r0.promise
        /\ r.sourceEnded = r0.sourceEnded /\ r.fins = r0.fins
    BY <1>1 DEF Connection
  <1> HIDE DEF r, t
  <1>4. Good(Replaced(s, c, r))
    BY <1>3, LessGood
  <1>5. Good(t)
    BY <1>2, <1>4
  <1> QED
    BY <1>5 DEF t

LEMMA GivesUpInv ==
  ASSUME IInv, NEW c \in Conns, GivesUp(c)
  PROVE  IInv'
  <1> DEFINE t == Aborted(session, c)
             s == [t EXCEPT !.conn[c].alive = @ \ {"queue"}]
  <1>1. Good(session) /\ InTable(session, c) /\ session.conn[c] \in Connection
    BY StepFrom, HoldersArePresent DEF GivesUp
  <1>2. t.conn[c] = Closed(session.conn[c])
    BY <1>1, AbortedConn
  <1>3. Closed(session.conn[c]).state = "CLOSED"
    BY <1>1, ClosedIs
  <1>4. Good(t) /\ t.conn[c].state # "unused"
    BY <1>1, <1>2, <1>3, AbortedGood
  <1>5. Change(s, {})
    BY <1>1 DEF GivesUp
  <1> HIDE DEF t
  <1>6. Good(s)
    BY <1>4, FiredGood
  <1> HIDE DEF s
  <1> QED
    BY <1>5, <1>6, ChangeInv

LEMMA IdleTimeoutInv ==
  ASSUME IInv, NEW c \in Conns, IdleTimeout(c)
  PROVE  IInv'
  <1> DEFINE t == AbortedByKey(session, c)
             s == [t EXCEPT !.conn[c].alive = @ \ {"idle"}]
  <1>1. Good(session) /\ InTable(session, c) /\ session.conn[c].state # "unused"
    BY StepFrom, HoldersArePresent DEF IdleTimeout
  <1>2. Good(t) /\ t.conn[c].state # "unused"
    BY <1>1, AbortedByKeyGood
  <1>3. Crosses(session, c, "idle timer") = {}
    BY <1>1 DEF Crosses, InTable
  <1>4. Change(s, {})
    BY <1>3 DEF IdleTimeout
  <1> HIDE DEF t
  <1>5. Good(s)
    BY <1>2, FiredGood
  <1> HIDE DEF s
  <1> QED
    BY <1>4, <1>5, ChangeInv

LEMMA LingerEndsInv ==
  ASSUME IInv, NEW c \in Conns, LingerEnds(c)
  PROVE  IInv'
  <1> DEFINE r0 == session.conn[c]
             r == [r0 EXCEPT !.alive = @ \ {"linger"}]
             s == [session EXCEPT
                     !.conn[c].alive = @ \ {"linger"},
                     !.tcpConnections = IF InTable(session, c) THEN Without(@, r0.key) ELSE @]
  <1>1. /\ Good(session) /\ session \in SessionType /\ r0 \in Connection
        /\ Holds(r0, InTable(session, c)) /\ r0.state # "unused" /\ "linger" \in r0.alive
    BY StepFrom, UsedIs DEF LingerEnds
  <1>2. Change(s, {})
    BY DEF LingerEnds
  <1>3. CASE ~InTable(session, c)
    <2>1. s = [session EXCEPT !.conn[c].alive = @ \ {"linger"}]
      BY <1>1, <1>3 DEF SessionType
    <2> HIDE DEF s
    <2>2. Good(s)
      BY <1>1, <2>1, FiredGood
    <2> QED
      BY <1>2, <2>2, ChangeInv
  <1>4. CASE InTable(session, c)
    <2>1. r0.kind = "forward" /\ r0.state = "CLOSED" /\ r0.sourceEnded
      BY <1>1 DEF Holds
    <2>2. s = Retired(session, c, r)
      BY <1>1, <1>4, <2>1 DEF SessionType, Retired, Removed
    <2>3. /\ r \in Connection /\ r.kind = r0.kind /\ r.key = r0.key /\ r.state = r0.state
          /\ r.alive = r0.alive \ {"linger"} /\ r.sink = r0.sink /\ r.promise = r0.promise
          /\ r.sourceEnded = r0.sourceEnded
      BY <1>1 DEF Connection
    <2> HIDE DEF r, s
    <2>4. Becomes(r0, r) /\ HoldsNothing(r)
      BY <1>1, <2>1, <2>3 DEF Becomes, Holds, HoldsNothing
    <2>5. Good(Retired(session, c, r))
      BY <1>1, <1>4, <2>4, RetiredGood
    <2> QED
      BY <1>2, <2>2, <2>5, ChangeInv
  <1> QED
    BY <1>3, <1>4

LEMMA RestEndsInv ==
  ASSUME IInv, NEW port \in Ports, RestEnds(port)
  PROVE  IInv'
  <1> DEFINE timers == [session.restTimers EXCEPT ![port] = @ - 1]
             s == [session EXCEPT !.recentlyClosed = @ \ {port}, !.restTimers[port] = @ - 1]
             t == [session EXCEPT !.recentlyClosed = @ \ {port}, !.restTimers = timers]
  <1>1. /\ Good(session) /\ session \in SessionType /\ Rests(session) /\ Entries(session)
        /\ session.restTimers \in [Ports -> Nat]
    BY Fields DEF IInv, Good
  <1>2. Change(s, {})
    BY DEF RestEnds
  <1>3. session.restTimers[port] = 1
    BY <1>1 DEF RestEnds, Rests
  <1>4. timers \in [Ports -> Nat] /\ timers[port] = 0
        /\ \A other \in Ports \ {port} : timers[other] = session.restTimers[other]
    BY <1>1, <1>3
  <1>5. s = [tcpConnections |-> session.tcpConnections,
             reverseTcpConnections |-> session.reverseTcpConnections,
             recentlyClosed |-> session.recentlyClosed \ {port}, restTimers |-> timers,
             conn |-> session.conn, open |-> session.open]
    <2>1. s = t
      BY <1>1 DEF SessionType
    <2> HIDE DEF timers, s
    <2> QED
      BY <1>1, <2>1 DEF SessionType
  <1> HIDE DEF timers, s
  <1>6. s \in SessionType
    BY <1>1, <1>4, <1>5 DEF SessionType
  <1>7. \A c \in Conns : InTable(s, c) = InTable(session, c) /\ s.conn[c] = session.conn[c]
    BY <1>5 DEF InTable, Found, Table
  <1>8. Entries(s) /\ Numbered(s)
    BY <1>1, <1>5 DEF Entries, Numbered, Good
  <1>9. Rests(s)
    BY <1>1, <1>4, <1>5 DEF Rests
  <1>10. \A c \in Conns : Holds(s.conn[c], InTable(s, c))
    BY <1>1, <1>7 DEF Good
  <1>11. Good(s)
    BY <1>6, <1>8, <1>9, <1>10 DEF Good
  <1> QED
    BY <1>2, <1>11, ChangeInv

LEMMA EmptyTable ==
  ASSUME NEW S
  PROVE  <<>> \in Maps(S) /\ DOMAIN <<>> = {}
  <1>1. DOMAIN <<>> = {} /\ <<>> \in [{} -> Conns]
    OBVIOUS
  <1>2. \E D \in SUBSET S : <<>> \in [D -> Conns]
    <2>1. {} \in SUBSET S
      OBVIOUS
    <2> QED
      BY <1>1, <2>1
  <1> QED
    BY <1>1, <1>2 DEF Maps

LEMMA CloseSessionInv ==
  ASSUME IInv, CloseSession
  PROVE  IInv'
  <1> DEFINE conn == [c \in Conns |-> IF InTable(session, c) THEN Released(session.conn[c])
                                      ELSE session.conn[c]]
             empty == <<>>
             open == FALSE
             s == [session EXCEPT !.tcpConnections = empty, !.reverseTcpConnections = empty,
                                  !.open = open, !.conn = conn]
  <1>1. /\ Good(session) /\ session \in SessionType /\ Rests(session) /\ Numbered(session)
        /\ session.restTimers \in [Ports -> Nat]
    BY Fields DEF IInv, Good
  <1>2. Change(s, {})
    BY DEF CloseSession
  <1>12. open \in BOOLEAN
    OBVIOUS
  <1> HIDE DEF conn, empty, open
  <1>4. empty \in Maps(Keys) /\ empty \in Maps(Ports) /\ DOMAIN empty = {}
    BY EmptyTable DEF empty
  <1>3. s = [tcpConnections |-> empty, reverseTcpConnections |-> empty,
             recentlyClosed |-> session.recentlyClosed, restTimers |-> session.restTimers,
             conn |-> conn, open |-> open]
    <2> DEFINE s1 == [session EXCEPT !.tcpConnections = empty]
               s2 == [s1 EXCEPT !.reverseTcpConnections = empty]
               s3 == [s2 EXCEPT !.open = open]
               s4 == [s3 EXCEPT !.conn = conn]
    <2>1. s = s4
      OBVIOUS
    <2>2. /\ s1 \in SessionType
          /\ s1 = [tcpConnections |-> empty,
                   reverseTcpConnections |-> session.reverseTcpConnections,
                   recentlyClosed |-> session.recentlyClosed,
                   restTimers |-> session.restTimers, conn |-> session.conn,
                   open |-> session.open]
      BY <1>1, <1>4 DEF SessionType
    <2> HIDE DEF s, s1
    <2>3. /\ s2 \in SessionType
          /\ s2 = [tcpConnections |-> empty, reverseTcpConnections |-> empty,
                   recentlyClosed |-> session.recentlyClosed,
                   restTimers |-> session.restTimers, conn |-> session.conn,
                   open |-> session.open]
      BY <1>4, <2>2 DEF SessionType
    <2> HIDE DEF s2
    <2>4. /\ s3 \in SessionType
          /\ s3 = [tcpConnections |-> empty, reverseTcpConnections |-> empty,
                   recentlyClosed |-> session.recentlyClosed,
                   restTimers |-> session.restTimers, conn |-> session.conn,
                   open |-> open]
      BY <1>12, <2>3 DEF SessionType
    <2> HIDE DEF s3
    <2> QED
      BY <2>1, <2>4 DEF SessionType
  <1> HIDE DEF s
  <1>5. ASSUME NEW c \in Conns
        PROVE  /\ conn[c] \in Connection
               /\ conn[c].state = session.conn[c].state
               /\ HoldsNothing(conn[c])
    <2> DEFINE r0 == session.conn[c]
               r == Released(r0)
    <2>1. /\ r0 \in Connection /\ Holds(r0, InTable(session, c))
          /\ InTable(session, c) => r0.state # "unused"
      BY StepFrom
    <2>2. CASE ~InTable(session, c)
      <3>1. conn[c] = r0 /\ InTable(session, c) = FALSE
        BY <2>2 DEF InTable, conn
      <3> QED
        BY <2>1, <3>1 DEF HoldsNothing
    <2>3. CASE InTable(session, c)
      <3>1. /\ r \in Connection /\ r.kind = r0.kind /\ r.state = r0.state
            /\ r.alive = r0.alive \ {"queue", "idle"} /\ r.sink = "destroyed"
            /\ r.sourceEnded = TRUE /\ r.promise # "pending"
        BY <2>1, ReleasedIs
      <3>2. conn[c] = r
        BY <2>3 DEF conn
      <3> HIDE DEF r
      <3>3. HoldsNothing(r)
        BY <2>1, <2>3, <3>1 DEF Holds, HoldsNothing, Connection
      <3> QED
        BY <3>1, <3>2, <3>3
    <2> QED
      BY <2>2, <2>3
  <1>6. conn \in [Conns -> Connection]
    <2>1. conn = [c \in Conns |-> conn[c]]
      BY DEF conn
    <2> QED
      BY <1>5, <2>1
  <1>7. s \in SessionType
    BY <1>1, <1>3, <1>4, <1>6, <1>12 DEF SessionType
  <1>8. Entries(s) /\ Rests(s)
    BY <1>1, <1>3, <1>4 DEF Entries, Rests
  <1>9. Numbered(s)
    BY <1>1, <1>3, <1>5 DEF Numbered
  <1>10. ASSUME NEW c \in Conns PROVE Holds(s.conn[c], InTable(s, c))
    <2>1. InTable(s, c) = FALSE
      BY <1>3, <1>4 DEF InTable, Found, Table
    <2> QED
      BY <1>3, <1>5, <2>1 DEF HoldsNothing
  <1>11. Good(s)
    BY <1>7, <1>8, <1>9, <1>10 DEF Good
  <1> QED
    BY <1>2, <1>11, ChangeInv
-----------------------------------------------------------------------------
(* Opening.                                                                *)

LEMMA UpTo ==
  ASSUME NEW n \in Nat
  PROVE  IsFiniteSet(1 .. n) /\ Cardinality(1 .. n) = n
  <1>1. 1 \in Int /\ n \in Int
    OBVIOUS
  <1>2. IsFiniteSet(1 .. n) /\ Cardinality(1 .. n) = IF 1 > n THEN 0 ELSE n - 1 + 1
    BY <1>1, FS_Interval, Zenon
  <1> QED
    BY <1>2

\* The connections opened so far are those numbered up to how many they are.
LEMMA NextConnIsNew ==
  ASSUME IInv, NextConn \in Conns
  PROVE  /\ session.conn[NextConn].state = "unused"
         /\ \A d \in Conns : d < NextConn => session.conn[d].state # "unused"
  <1> DEFINE used == {c \in Conns : session.conn[c].state # "unused"}
             k == Cardinality(used)
  <1>1. NextConn = k + 1 /\ Numbered(session)
    BY DEF NextConn, IInv, Good
  <1>2. IsFiniteSet(Conns) /\ used \subseteq Conns
    BY UpTo DEF Conns
  <1>3. IsFiniteSet(used) /\ k \in Nat
    BY <1>2, FS_Subset, FS_CardinalityType
  <1>4. IsFiniteSet(1 .. k) /\ Cardinality(1 .. k) = k
        /\ IsFiniteSet(1 .. (k + 1)) /\ Cardinality(1 .. (k + 1)) = k + 1
    BY <1>3, UpTo
  <1> HIDE DEF k
  <1>5. k + 1 \notin used
    <2> SUFFICES ASSUME k + 1 \in used PROVE FALSE
      OBVIOUS
    <2>1. 1 .. (k + 1) \subseteq used
      BY <1>1, <1>3 DEF Numbered, Conns
    <2>2. Cardinality(1 .. (k + 1)) <= Cardinality(used)
      BY <1>3, <2>1, FS_Subset, Zenon
    <2>3. k + 1 <= k
      BY <1>4, <2>2 DEF k
    <2> QED
      BY <1>3, <2>3
  <1>6. used \subseteq 1 .. k
    BY <1>1, <1>3, <1>5 DEF Numbered, Conns
  <1>7. used = 1 .. k
    BY <1>3, <1>4, <1>6, FS_Subset DEF k
  <1> QED
    BY <1>1, <1>3, <1>5, <1>7 DEF Conns

LEMMA UnusedType == Unused \in Connection
  BY DEF Unused, Connection

LEMMA PlusType ==
  ASSUME NEW S, NEW t \in Maps(S), NEW key \in S, NEW c \in Conns
  PROVE  Plus(t, key, c) \in Maps(S)
  BY MapsAre DEF Plus

\* The parts of a session that has one more connection.
LEMMA OpenedConn ==
  ASSUME NEW s \in SessionType, NEW n \in Conns, s.conn[n].state = "unused",
         \A d \in Conns : d < n => s.conn[d].state # "unused", Numbered(s),
         NEW conn, conn = [s.conn EXCEPT ![n] = conn[n]], conn[n] \in Connection,
         conn[n].state # "unused"
  PROVE  /\ conn \in [Conns -> Connection]
         /\ \A d \in Conns \ {n} : conn[d] = s.conn[d]
         /\ \A c, d \in Conns : d < c /\ conn[c].state # "unused" => conn[d].state # "unused"
  <1>1. s.conn \in [Conns -> Connection]
    BY Fields
  <1>2. conn \in [Conns -> Connection] /\ \A d \in Conns \ {n} : conn[d] = s.conn[d]
    BY <1>1
  <1>3. \A c \in Conns : s.conn[c].state # "unused" => c < n
    BY DEF Numbered, Conns
  <1>4. \A c \in Conns : conn[c].state # "unused" => c <= n
    BY <1>2, <1>3 DEF Conns
  <1>5. \A d \in Conns : d < n => conn[d].state # "unused"
    BY <1>2 DEF Conns
  <1>6. \A c, d \in Conns : d < c /\ c <= n => d < n
    BY DEF Conns
  <1> QED
    BY <1>2, <1>4, <1>5, <1>6

LEMMA OpenedForwardGood ==
  ASSUME NEW s, Good(s), NEW key \in Keys, key \notin DOMAIN s.tcpConnections,
         NEW n \in Conns, s.conn[n].state = "unused",
         \A d \in Conns : d < n => s.conn[d].state # "unused",
         NEW r \in Connection, r.kind = "forward", r.key = key, r.state = "SYN_SENT",
         r.fins = {}, "linger" \notin r.alive
  PROVE  Good([s EXCEPT !.tcpConnections = Plus(@, key, n), !.conn[n] = r])
  <1> DEFINE table == Plus(s.tcpConnections, key, n)
             conn == [s.conn EXCEPT ![n] = r]
             t == [s EXCEPT !.tcpConnections = Plus(@, key, n), !.conn[n] = r]
  <1>1. s \in SessionType /\ Entries(s) /\ Rests(s) /\ Numbered(s) /\ n # None
    BY DEF Good
  <1>2. s.tcpConnections \in Maps(Keys) /\ s.conn \in [Conns -> Connection]
    BY <1>1, Fields, MapsAre
  <1>3. /\ table \in Maps(Keys) /\ DOMAIN table = DOMAIN s.tcpConnections \cup {key}
        /\ table[key] = n /\ \A k \in DOMAIN s.tcpConnections \ {key} : table[k] = s.tcpConnections[k]
    <2>1. table \in Maps(Keys)
      BY <1>2, PlusType
    <2> QED
      BY <2>1 DEF Plus
  <1>4. conn[n] = r /\ conn = [s.conn EXCEPT ![n] = conn[n]]
    BY <1>2
  <1>5. t = [tcpConnections |-> table, reverseTcpConnections |-> s.reverseTcpConnections,
             recentlyClosed |-> s.recentlyClosed, restTimers |-> s.restTimers,
             conn |-> conn, open |-> s.open]
    <2> DEFINE s1 == [s EXCEPT !.tcpConnections = table]
    <2>1. t = [s1 EXCEPT !.conn = conn]
      BY <1>1 DEF SessionType
    <2> HIDE DEF t, conn, table
    <2>2. s1 \in SessionType /\ s1 = [s EXCEPT !.tcpConnections = table]
      BY <1>1, <1>3 DEF SessionType
    <2> QED
      BY <1>1, <2>1, <2>2 DEF SessionType
  <1> HIDE DEF table, conn, t
  <1>6. /\ conn \in [Conns -> Connection]
        /\ \A d \in Conns \ {n} : conn[d] = s.conn[d]
        /\ \A c, d \in Conns : d < c /\ conn[c].state # "unused" => conn[d].state # "unused"
    BY <1>1, <1>4, OpenedConn
  <1>7. t \in SessionType
    BY <1>1, <1>3, <1>5, <1>6 DEF SessionType
  <1>8. Rests(t) /\ Numbered(t)
    BY <1>1, <1>5, <1>6 DEF Rests, Numbered
  <1>9. Entries(t)
    <2>1. \A k \in DOMAIN s.tcpConnections : s.tcpConnections[k] \in Conns \ {n}
      BY <1>1, Fields DEF Entries
    <2>2. \A k \in DOMAIN s.reverseTcpConnections : s.reverseTcpConnections[k] \in Conns \ {n}
      BY <1>1, Fields DEF Entries
    <2> QED
      BY <1>1, <1>3, <1>4, <1>5, <1>6, <2>1, <2>2 DEF Entries
  <1>10. ASSUME NEW d \in Conns PROVE Holds(t.conn[d], InTable(t, d))
    <2>1. CASE d = n
      <3>1. InTable(t, d) /\ t.conn[d] = r
        BY <1>1, <1>3, <1>4, <1>5, <2>1 DEF InTable, Found, Table
      <3> QED
        BY <3>1 DEF Holds
    <2>2. CASE d # n
      <3>1. t.conn[d] = s.conn[d] /\ d # None
        BY <1>5, <1>6, <2>2
      <3>2. InTable(t, d) = InTable(s, d)
        <4>1. CASE s.conn[d].kind = "forward"
          BY <1>3, <1>5, <2>2, <3>1, <4>1 DEF InTable, Found, Table
        <4>2. CASE s.conn[d].kind # "forward"
          BY <1>5, <3>1, <4>2 DEF InTable, Found, Table
        <4> QED
          BY <4>1, <4>2
      <3> QED
        BY <3>1, <3>2 DEF Good
    <2> QED
      BY <2>1, <2>2
  <1> QED
    BY <1>7, <1>8, <1>9, <1>10 DEF Good, t
LEMMA OpenedReverseGood ==
  ASSUME NEW s, Good(s), NEW port \in Ports, port \notin DOMAIN s.reverseTcpConnections,
         port \notin s.recentlyClosed,
         NEW n \in Conns, s.conn[n].state = "unused",
         \A d \in Conns : d < n => s.conn[d].state # "unused",
         NEW r \in Connection, r.kind \in ClientKinds, r.key = port, r.state = "SYN_SENT",
         r.fins = {}, "linger" \notin r.alive
  PROVE  Good([s EXCEPT !.reverseTcpConnections = Plus(@, port, n), !.conn[n] = r])
  <1> DEFINE table == Plus(s.reverseTcpConnections, port, n)
             conn == [s.conn EXCEPT ![n] = r]
             t == [s EXCEPT !.reverseTcpConnections = Plus(@, port, n), !.conn[n] = r]
  <1>1. s \in SessionType /\ Entries(s) /\ Rests(s) /\ Numbered(s) /\ n # None
    BY DEF Good
  <1>2. s.reverseTcpConnections \in Maps(Ports) /\ s.conn \in [Conns -> Connection]
    BY <1>1, Fields, MapsAre
  <1>3. /\ table \in Maps(Ports) /\ DOMAIN table = DOMAIN s.reverseTcpConnections \cup {port}
        /\ table[port] = n
        /\ \A k \in DOMAIN s.reverseTcpConnections \ {port} : table[k] = s.reverseTcpConnections[k]
    <2>1. table \in Maps(Ports)
      BY <1>2, PlusType
    <2> QED
      BY <2>1 DEF Plus
  <1>4. conn[n] = r /\ conn = [s.conn EXCEPT ![n] = conn[n]]
    BY <1>2
  <1>5. t = [tcpConnections |-> s.tcpConnections, reverseTcpConnections |-> table,
             recentlyClosed |-> s.recentlyClosed, restTimers |-> s.restTimers,
             conn |-> conn, open |-> s.open]
    <2> DEFINE s1 == [s EXCEPT !.reverseTcpConnections = table]
    <2>1. t = [s1 EXCEPT !.conn = conn]
      BY <1>1 DEF SessionType
    <2> HIDE DEF t, conn, table
    <2>2. s1 \in SessionType /\ s1 = [s EXCEPT !.reverseTcpConnections = table]
      BY <1>1, <1>3 DEF SessionType
    <2> QED
      BY <1>1, <2>1, <2>2 DEF SessionType
  <1> HIDE DEF table, conn, t
  <1>6. /\ conn \in [Conns -> Connection]
        /\ \A d \in Conns \ {n} : conn[d] = s.conn[d]
        /\ \A c, d \in Conns : d < c /\ conn[c].state # "unused" => conn[d].state # "unused"
    BY <1>1, <1>4, OpenedConn
  <1>7. t \in SessionType
    BY <1>1, <1>3, <1>5, <1>6 DEF SessionType
  <1>8. Rests(t) /\ Numbered(t)
    BY <1>1, <1>3, <1>5, <1>6 DEF Rests, Numbered
  <1>9. Entries(t)
    <2>1. \A k \in DOMAIN s.tcpConnections : s.tcpConnections[k] \in Conns \ {n}
      BY <1>1, Fields DEF Entries
    <2>2. \A k \in DOMAIN s.reverseTcpConnections : s.reverseTcpConnections[k] \in Conns \ {n}
      BY <1>1, Fields DEF Entries
    <2> QED
      BY <1>1, <1>3, <1>4, <1>5, <1>6, <2>1, <2>2 DEF Entries
  <1>10. ASSUME NEW d \in Conns PROVE Holds(t.conn[d], InTable(t, d))
    <2>1. CASE d = n
      <3>1. InTable(t, d) /\ t.conn[d] = r
        BY <1>1, <1>3, <1>4, <1>5, <2>1 DEF InTable, Found, Table
      <3> QED
        BY <3>1 DEF Holds
    <2>2. CASE d # n
      <3>1. t.conn[d] = s.conn[d] /\ d # None
        BY <1>5, <1>6, <2>2
      <3>2. InTable(t, d) = InTable(s, d)
        <4>1. CASE s.conn[d].kind # "forward"
          BY <1>3, <1>5, <2>2, <3>1, <4>1 DEF InTable, Found, Table
        <4>2. CASE s.conn[d].kind = "forward"
          BY <1>5, <3>1, <4>2 DEF InTable, Found, Table
        <4> QED
          BY <4>1, <4>2
      <3> QED
        BY <3>1, <3>2 DEF Good
    <2> QED
      BY <2>1, <2>2
  <1> QED
    BY <1>7, <1>8, <1>9, <1>10 DEF Good, t

\* A connection whose client is answered at once that there is no port.
LEMMA RefusedGood ==
  ASSUME NEW s, Good(s), NEW n \in Conns, s.conn[n].state = "unused",
         \A d \in Conns : d < n => s.conn[d].state # "unused",
         NEW r \in Connection, r.kind \in ClientKinds, r.key = None, r.state = "CLOSED",
         r.alive = {}, r.sink = "destroyed", r.promise = "rejected"
  PROVE  Good([s EXCEPT !.conn[n] = r])
  <1> DEFINE conn == [s.conn EXCEPT ![n] = r]
             t == [s EXCEPT !.conn[n] = r]
  <1>1. s \in SessionType /\ Entries(s) /\ Rests(s) /\ Numbered(s) /\ n # None
    BY DEF Good
  <1>2. s.conn \in [Conns -> Connection] /\ DOMAIN s.reverseTcpConnections \subseteq Ports
    BY <1>1, Fields
  <1>3. conn[n] = r /\ conn = [s.conn EXCEPT ![n] = conn[n]]
    BY <1>2
  <1>4. t = [tcpConnections |-> s.tcpConnections,
             reverseTcpConnections |-> s.reverseTcpConnections,
             recentlyClosed |-> s.recentlyClosed, restTimers |-> s.restTimers,
             conn |-> conn, open |-> s.open]
    BY <1>1 DEF SessionType
  <1> HIDE DEF conn, t
  <1>5. /\ conn \in [Conns -> Connection]
        /\ \A d \in Conns \ {n} : conn[d] = s.conn[d]
        /\ \A c, d \in Conns : d < c /\ conn[c].state # "unused" => conn[d].state # "unused"
    BY <1>1, <1>3, OpenedConn
  <1>6. t \in SessionType
    BY <1>1, <1>4, <1>5 DEF SessionType
  <1>7. Rests(t) /\ Numbered(t)
    BY <1>1, <1>4, <1>5 DEF Rests, Numbered
  <1>8. Entries(t)
    <2>1. \A k \in DOMAIN s.tcpConnections : s.tcpConnections[k] \in Conns \ {n}
      BY <1>1, Fields DEF Entries
    <2>2. \A k \in DOMAIN s.reverseTcpConnections : s.reverseTcpConnections[k] \in Conns \ {n}
      BY <1>1, Fields DEF Entries
    <2> QED
      BY <1>1, <1>4, <1>5, <2>1, <2>2 DEF Entries
  <1>9. ASSUME NEW d \in Conns PROVE Holds(t.conn[d], InTable(t, d))
    <2>1. CASE d = n
      <3>1. InTable(t, d) = FALSE /\ t.conn[d] = r
        BY <1>1, <1>2, <1>3, <1>4, <2>1 DEF InTable, Found, Table
      <3> QED
        BY <3>1 DEF Holds
    <2>2. CASE d # n
      <3>1. t.conn[d] = s.conn[d]
        BY <1>4, <1>5, <2>2
      <3>2. InTable(t, d) = InTable(s, d)
        BY <1>4, <3>1 DEF InTable, Found, Table
      <3> QED
        BY <3>1, <3>2 DEF Good
    <2> QED
      BY <2>1, <2>2
  <1> QED
    BY <1>6, <1>7, <1>8, <1>9 DEF Good, t

LEMMA OpenForwardInv ==
  ASSUME IInv, NEW key \in Keys, OpenForward(key)
  PROVE  IInv'
  <1> DEFINE n == NextConn
             r == [Unused EXCEPT
                     !.kind = "forward", !.key = key, !.state = "SYN_SENT", !.alive = {"queue"},
                     !.sink = "open", !.sourceEnded = FALSE]
             s == [session EXCEPT !.tcpConnections = Plus(@, key, n), !.conn[n] = r]
  <1>1. /\ Good(session) /\ n \in Conns /\ key \notin DOMAIN session.tcpConnections
        /\ session.conn[n].state = "unused"
        /\ \A d \in Conns : d < n => session.conn[d].state # "unused"
    BY NextConnIsNew DEF OpenForward, IInv
  <1>2. Change(s, {})
    BY DEF OpenForward
  <1>3. /\ r \in Connection /\ r.kind = "forward" /\ r.key = key /\ r.state = "SYN_SENT"
        /\ r.fins = {} /\ r.alive = {"queue"}
    BY UnusedType DEF Unused, Connection
  <1> HIDE DEF n, r
  <1>4. Good(s)
    BY <1>1, <1>3, OpenedForwardGood
  <1> HIDE DEF s
  <1> QED
    BY <1>2, <1>4, ChangeInv

LEMMA CandidateIsPort ==
  ASSUME nextPort \in Ports, NEW i \in Nat
  PROVE  Candidate(i) \in Ports
  <1> DEFINE span == LastPort - FirstPort + 1
             n == nextPort - FirstPort + i
  <1>1. n \in Nat /\ span \in Nat \ {0} /\ FirstPort \in Nat /\ LastPort = FirstPort + span - 1
    BY DEF Ports
  <1>2. Candidate(i) = FirstPort + (n % span)
    BY DEF Candidate
  <1> HIDE DEF n, span
  <1>3. n % span \in 0 .. span - 1
    BY <1>1
  <1> QED
    BY <1>1, <1>2, <1>3 DEF Ports

LEMMA LeastExists ==
  ASSUME NEW S \in SUBSET Nat, S # {}
  PROVE  \E x \in S : \A y \in S : x <= y
  <1>1. PICK x \in S : \A y \in S : ~ (<<y, x>> \in OpToRel(<, Nat))
    BY NatLessThanWellFounded, WFMin, Zenon
  <1>2. \A y \in S : ~ (y < x)
    BY <1>1 DEF OpToRel
  <1> QED
    BY <1>2

LEMMA OpenReverseInv ==
  ASSUME IInv, NEW kind \in ClientKinds, OpenReverse(kind)
  PROVE  IInv'
  <1> DEFINE n == NextConn
             free == {i \in 0 .. MaxAttempts - 1 : ~Taken(Candidate(i))}
             steps == CHOOSE i \in free : \A j \in free : i <= j
             asked == [Unused EXCEPT !.kind = kind]
  <1>1. /\ Good(session) /\ n \in Conns /\ session.conn[n].state = "unused"
        /\ \A d \in Conns : d < n => session.conn[d].state # "unused"
        /\ nextPort \in Ports /\ EventsStayHome /\ crossed' = crossed
    BY NextConnIsNew DEF OpenReverse, IInv
  <1>2. /\ asked \in Connection /\ asked.kind = kind /\ asked.key = None /\ asked.fins = {}
        /\ asked.alive = {} /\ asked.sink = "destroyed"
    BY UnusedType DEF Unused, Connection
  <1>3. CASE free = {}
    <2> DEFINE r == [asked EXCEPT !.state = "CLOSED", !.promise = "rejected", !.client = "gone"]
               s == [session EXCEPT !.conn[n] = r]
    <2>1. session' = s /\ nextPort' = Candidate(MaxAttempts + 1)
      BY <1>3 DEF OpenReverse
    <2> HIDE DEF free, asked, n
    <2>2. /\ r \in Connection /\ r.kind = kind /\ r.key = None /\ r.state = "CLOSED"
          /\ r.alive = {} /\ r.sink = "destroyed" /\ r.promise = "rejected"
      BY <1>2 DEF Connection
    <2> HIDE DEF r
    <2>3. Good(s)
      BY <1>1, <2>2, RefusedGood
    <2>4. nextPort' \in Ports
      BY <1>1, <2>1, CandidateIsPort
    <2> HIDE DEF s
    <2> QED
      BY <1>1, <2>1, <2>3, <2>4 DEF IInv, EventsStayHome
  <1>4. CASE free # {}
    <2> DEFINE port == Candidate(steps)
               r == [asked EXCEPT
                      !.key = port, !.state = "SYN_SENT", !.alive = {"queue", "idle"},
                      !.sink = "open", !.sourceEnded = FALSE, !.promise = "pending",
                      !.client = "here"]
               s == [session EXCEPT !.reverseTcpConnections = Plus(@, port, n), !.conn[n] = r]
    <2>1. session' = s /\ nextPort' = Candidate(steps + 1)
      BY <1>4 DEF OpenReverse
    <2>2. steps \in free
      <3>1. free \in SUBSET Nat
        OBVIOUS
      <3>2. \E i \in free : \A j \in free : i <= j
        BY <1>4, <3>1, LeastExists
      <3> HIDE DEF free
      <3> QED
        BY <3>2, Zenon
    <2> HIDE DEF steps
    <2>3. steps \in Nat /\ ~Taken(port)
      BY <2>2
    <2>4. port \in Ports /\ nextPort' \in Ports
      BY <1>1, <2>1, <2>3, CandidateIsPort
    <2>5. port \notin DOMAIN session.reverseTcpConnections /\ port \notin session.recentlyClosed
      BY <2>3 DEF Taken
    <2> HIDE DEF free, asked, n, port
    <2>6. /\ r \in Connection /\ r.kind = kind /\ r.key = port /\ r.state = "SYN_SENT"
          /\ r.fins = {} /\ r.alive = {"queue", "idle"}
      BY <1>2, <2>4 DEF Connection
    <2> HIDE DEF r
    <2>7. Good(s)
      BY <1>1, <2>4, <2>5, <2>6, OpenedReverseGood
    <2> HIDE DEF s
    <2> QED
      BY <1>1, <2>1, <2>4, <2>7 DEF IInv, EventsStayHome
  <1> QED
    BY <1>3, <1>4

LEMMA OtherSessionOpensInv ==
  ASSUME IInv, OtherSessionOpens
  PROVE  IInv'
  <1>1. nextPort' \in Ports
    BY CandidateIsPort DEF IInv, OtherSessionOpens
  <1> QED
    BY <1>1 DEF IInv, OtherSessionOpens, EventsStayHome
-----------------------------------------------------------------------------
(* The theorems.                                                           *)

LEMMA InitInv == Init => IInv
  <1> SUFFICES ASSUME Init PROVE IInv
    OBVIOUS
  <1> DEFINE empty == <<>>
             timers == [p \in Ports |-> 0]
             conn == [c \in Conns |-> Unused]
  <1>1. session = [tcpConnections |-> empty, reverseTcpConnections |-> empty,
                   recentlyClosed |-> {}, restTimers |-> timers, conn |-> conn, open |-> TRUE]
    BY DEF Init
  <1>2. empty \in Maps(Keys) /\ empty \in Maps(Ports) /\ DOMAIN empty = {}
    BY EmptyTable
  <1>3. timers \in [Ports -> Nat] /\ \A port \in Ports : timers[port] = 0
    OBVIOUS
  <1>4. conn \in [Conns -> Connection] /\ \A c \in Conns : conn[c] = Unused
    BY UnusedType
  <1>5. HoldsNothing(Unused) /\ Unused.state = "unused"
    BY DEF HoldsNothing, Holds, Unused
  <1> HIDE DEF empty, timers, conn
  <1>6. session \in SessionType
    BY <1>1, <1>2, <1>3, <1>4 DEF SessionType
  <1>7. Entries(session) /\ Rests(session) /\ Numbered(session)
    BY <1>1, <1>2, <1>3, <1>4, <1>5 DEF Entries, Rests, Numbered
  <1>8. ASSUME NEW c \in Conns PROVE Holds(session.conn[c], InTable(session, c))
    <2>1. InTable(session, c) = FALSE
      BY <1>1, <1>2 DEF InTable, Found, Table
    <2> QED
      BY <1>1, <1>4, <1>5, <2>1 DEF HoldsNothing
  <1>9. nextPort \in Ports /\ EventsStayHome
    BY DEF Init, EventsStayHome, Ports
  <1> QED
    BY <1>6, <1>7, <1>8, <1>9 DEF IInv, Good

LEMMA NextInv ==
  ASSUME IInv, [Next]_vars
  PROVE  IInv'
  <1>1. ASSUME NEW key \in Keys, OpenForward(key) PROVE IInv'
    BY <1>1, OpenForwardInv
  <1>2. ASSUME NEW kind \in ClientKinds, OpenReverse(kind) PROVE IInv'
    BY <1>2, OpenReverseInv
  <1>3. CASE OtherSessionOpens
    BY <1>3, OtherSessionOpensInv
  <1>4. ASSUME NEW c \in Conns, VmAccepts(c) PROVE IInv'
    BY <1>4, VmAcceptsInv
  <1>5. ASSUME NEW c \in Conns, VmResets(c) PROVE IInv'
    BY <1>5, VmResetsInv
  <1>6. ASSUME NEW c \in Conns, VmAcknowledgesFin(c) PROVE IInv'
    BY <1>6, VmAcknowledgesFinInv
  <1>7. ASSUME NEW c \in Conns, NEW acknowledges \in BOOLEAN, VmEnds(c, acknowledges) PROVE IInv'
    BY <1>7, VmEndsInv
  <1>8. ASSUME NEW c \in Conns, SocketData(c) PROVE IInv'
    BY <1>8, SocketDataInv
  <1>9. ASSUME NEW c \in Conns, SocketEnd(c) PROVE IInv'
    BY <1>9, SocketEndInv
  <1>10. ASSUME NEW c \in Conns, SocketError(c) PROVE IInv'
    BY <1>10, SocketErrorInv
  <1>11. ASSUME NEW c \in Conns, SocketCloses(c) PROVE IInv'
    BY <1>11, SocketClosesInv
  <1>12. ASSUME NEW c \in Conns, ClientEnds(c) PROVE IInv'
    BY <1>12, ClientEndsInv
  <1>13. ASSUME NEW c \in Conns, ClientLeaves(c) PROVE IInv'
    BY <1>13, ClientLeavesInv
  <1>14. ASSUME NEW c \in Conns, ResponseTimeout(c) PROVE IInv'
    BY <1>14, ResponseTimeoutInv
  <1>15. ASSUME NEW c \in Conns, NEW failed \in BOOLEAN, ClientCloses(c, failed) PROVE IInv'
    BY <1>15, ClientClosesInv
  <1>16. ASSUME NEW c \in Conns, GivesUp(c) PROVE IInv'
    BY <1>16, GivesUpInv
  <1>17. ASSUME NEW c \in Conns, IdleTimeout(c) PROVE IInv'
    BY <1>17, IdleTimeoutInv
  <1>18. ASSUME NEW c \in Conns, LingerEnds(c) PROVE IInv'
    BY <1>18, LingerEndsInv
  <1>19. ASSUME NEW port \in Ports, RestEnds(port) PROVE IInv'
    BY <1>19, RestEndsInv
  <1>20. CASE CloseSession
    BY <1>20, CloseSessionInv
  <1>21. CASE UNCHANGED vars
    BY <1>21 DEF vars, IInv, EventsStayHome
  <1> QED
    BY <1>1, <1>2, <1>3, <1>4, <1>5, <1>6, <1>7, <1>8, <1>9, <1>10, <1>11, <1>12, <1>13,
       <1>14, <1>15, <1>16, <1>17, <1>18, <1>19, <1>20, <1>21 DEF Next

\* In every reachable state the invariant holds: entries lead to the connections opened
\* under their key, and whatever can act on a key belongs to the connection found there.
THEOREM InductiveInvariant == Spec => []IInv
  <1> QED
    BY InitInv, NextInv, PTL DEF Spec

\* Each variable keeps its type, and with it every connection the fields the handlers read.
THEOREM TypeCorrect == Spec => []TypeOK
  <1>1. IInv => TypeOK
    BY DEF IInv, Good, SessionType, TypeOK, EventsStayHome
  <1> QED
    BY <1>1, InductiveInvariant, PTL

\* However keys are used again and whatever comes late, only the error of a real socket
\* and the departure of a client can reach another connection than their own: data, ends
\* and idle timers find theirs, because whoever may still cause them is in its table.
THEOREM EventsStay == Spec => []EventsStayHome
  <1>1. IInv => EventsStayHome
    BY DEF IInv
  <1> QED
    BY <1>1, InductiveInvariant, PTL

\* A connection that has left its table, by whichever of its ways, holds no queue, no idle
\* timer, no open sink and no waiting client; the port of a reverse one rests, out of use,
\* until its own timer has fired.
THEOREM GoneIsReleased == Spec => []GoneMeansReleased
  <1>1. IInv => GoneMeansReleased
    <2> SUFFICES ASSUME IInv PROVE GoneMeansReleased
      OBVIOUS
    <2>1. ASSUME NEW c \in Conns, ~InTable(session, c)
          PROVE  /\ session.conn[c].alive \subseteq {"linger"}
                 /\ session.conn[c].sink # "open" /\ session.conn[c].promise # "pending"
      <3>1. session.conn[c] \in Connection /\ Holds(session.conn[c], InTable(session, c))
        BY StepFrom
      <3> QED
        BY <2>1, <3>1 DEF Holds, Connection
    <2> QED
      BY <2>1 DEF GoneMeansReleased, IInv, Good, Rests
  <1> QED
    BY <1>1, InductiveInvariant, PTL
=============================================================================
