--------------------------- MODULE ConnectionTables ---------------------------
(***************************************************************************)
(* The TCP connections of one VMSession (relay.js): the table of those the *)
(* VM opened, keyed by its port and the remote endpoint, and the table of  *)
(* those opened to the VM for a client of a forwarding rule, of the HTTP   *)
(* proxy or of an upgraded request, keyed by a port the relay chooses.     *)
(*                                                                         *)
(* Keys are used again, and what a connection leaves behind may come late: *)
(* events of its real socket, events of its client, its idle timer, its    *)
(* retransmission timer, the timer that removes it two seconds after it    *)
(* has finished.  Some of them hold on to the connection, others look up   *)
(* its key and take what they find; "crossed" records the latter's errors. *)
(*                                                                         *)
(* What happens inside a connection is abstracted to what decides its end: *)
(* see TcpEgress and TcpIngress.  Retransmission may give a connection up  *)
(* at any time its queue is open, and the VM may acknowledge at any time.  *)
(*                                                                         *)
(* The continuation of "await createTCPConnection" runs before any other   *)
(* event, so a client is listened to exactly from the moment its promise   *)
(* is resolved.  (A client that fails, rather than leaves, before that ends*)
(* the process: its socket has no listener for the error.)                 *)
(*                                                                         *)
(* Seeded faults, used to see that the properties can fail:                *)
(* CandidateUnwrapped, AbortedTimerKept, LingerEndsUnchecked and           *)
(* ReleasedUntold.                                                         *)
(***************************************************************************)
EXTENDS Integers, FiniteSets, Functions

CONSTANTS
  Opens,                \* connections opened in all: a bound of the model
  Keys,                 \* keys of connections the VM opens
  FirstPort, LastPort,  \* 30000 and 65535
  MaxAttempts,          \* 1000
  ClientKinds,          \* the clients there are
  None

ASSUME OpensAssumption == Opens \in Nat
ASSUME PortsAssumption ==
  {FirstPort, LastPort, MaxAttempts} \subseteq Nat /\ FirstPort <= LastPort
ASSUME ClientKindsAssumption == ClientKinds \subseteq {"forwarded", "http", "upgrade"}

Conns == 1 .. Opens
Ports == FirstPort .. LastPort

ASSUME NoneAssumption == None \notin Conns \cup Keys \cup Ports

VARIABLES
  session,   \* the tables, and the connections by number
  nextPort,  \* nextProxyPort, which all sessions share
  crossed    \* history: events that reached another connection than their own

vars == <<session, nextPort, crossed>>

\* "alive" is what may still call back: its retransmission queue, its idle timer,
\* the two-second timer of finishTCPConnection.  "sink" is the side the VM's data
\* goes to: the real socket, or downstream.  "sourceEnded": the socket has reported
\* its end, or upstream is closed.  A client has "left" when it did so unheard.
Connection ==
  [kind : {"forward", None} \cup ClientKinds,
   key : Keys \cup Ports \cup {None},
   state : {"unused", "SYN_SENT", "ESTABLISHED", "CLOSED"},
   fins : SUBSET {"pending", "peer"},
   alive : SUBSET {"queue", "idle", "linger"},
   sink : {"open", "ended", "destroyed"},
   sourceEnded : BOOLEAN,
   promise : {"none", "pending", "resolved", "rejected"},
   client : {"none", "here", "left", "gone"}]

Maps(S) == UNION {[D -> Conns] : D \in SUBSET S}

TypeOK ==
  /\ session \in [tcpConnections : Maps(Keys), reverseTcpConnections : Maps(Ports),
                  recentlyClosed : SUBSET Ports, restTimers : [Ports -> Nat],
                  conn : [Conns -> Connection], open : BOOLEAN]
  /\ nextPort \in Ports
  /\ crossed \subseteq {"socket data", "socket end", "socket error", "idle timer", "client"}

Unused ==
  [kind |-> None, key |-> None, state |-> "unused", fins |-> {}, alive |-> {},
   sink |-> "destroyed", sourceEnded |-> TRUE, promise |-> "none", client |-> "none"]

Init ==
  /\ session = [tcpConnections |-> <<>>, reverseTcpConnections |-> <<>>,
                recentlyClosed |-> {}, restTimers |-> [p \in Ports |-> 0],
                conn |-> [c \in Conns |-> Unused], open |-> TRUE]
  /\ nextPort = FirstPort
  /\ crossed = {}
-----------------------------------------------------------------------------
(* The tables.                                                             *)

Table(s, c) ==
  IF s.conn[c].kind = "forward" THEN s.tcpConnections ELSE s.reverseTcpConnections

\* The connection found under the key of c.
Found(s, c) ==
  IF s.conn[c].key \in DOMAIN Table(s, c) THEN Table(s, c)[s.conn[c].key] ELSE None

InTable(s, c) == Found(s, c) = c

Without(table, key) == RestrictDomain(table, LAMBDA k : k # key)

Plus(table, key, c) ==
  [k \in DOMAIN table \cup {key} |-> IF k = key THEN c ELSE table[k]]

Removed(s, c) ==
  LET key == s.conn[c].key
  IN IF s.conn[c].kind = "forward"
     THEN [s EXCEPT !.tcpConnections = Without(@, key)]
     ELSE [s EXCEPT !.reverseTcpConnections = Without(@, key),
                    !.recentlyClosed = @ \cup {key},
                    !.restTimers[key] = @ + 1]

ReleasedUntold(r) ==
  [r EXCEPT !.alive = @ \ {"queue", "idle"}, !.sink = "destroyed", !.sourceEnded = TRUE]

\* A client whose promise is rejected is answered by its handler's catch.
Released(r) ==
  [r EXCEPT !.alive = @ \ {"queue", "idle"}, !.sink = "destroyed", !.sourceEnded = TRUE,
            !.promise = IF @ = "pending" THEN "rejected" ELSE @,
            !.client = IF r.promise = "pending" /\ @ = "here" THEN "gone" ELSE @]

\* clearReverseConnTimer looks the connection up: after the removal it finds none.
AbortedTimerKept(s, c) ==
  LET kept == s.conn[c].alive \cap {"idle"}
  IN [Removed(s, c) EXCEPT !.conn[c] = [Released(@) EXCEPT !.state = "CLOSED", !.alive = @ \cup kept]]

Aborted(s, c) ==
  [Removed(s, c) EXCEPT !.conn[c] = [Released(@) EXCEPT !.state = "CLOSED"]]

Ended(sink) == IF sink = "open" THEN "ended" ELSE sink

\* finishTCPConnection leaves the entry to its timer; finishReverseConnection, whose
\* promise was resolved long ago, does not.
Finished(s, c) ==
  LET closed == [s.conn[c] EXCEPT !.state = "CLOSED", !.alive = @ \ {"queue", "idle"},
                                  !.sink = Ended(@)]
  IN IF s.conn[c].kind = "forward"
     THEN [s EXCEPT !.conn[c] = [closed EXCEPT !.alive = @ \cup {"linger"}]]
     ELSE [Removed(s, c) EXCEPT !.conn[c] = [closed EXCEPT !.sourceEnded = TRUE]]

\* A handler of c aborts whatever it finds under the key of c.
AbortedByKey(s, c) == IF Found(s, c) = None THEN s ELSE Aborted(s, Found(s, c))

Crosses(s, c, event) == IF Found(s, c) \in {c, None} THEN {} ELSE {event}

\* Handlers that change no port number.
Change(s, crossings) ==
  session' = s /\ crossed' = crossed \cup crossings /\ UNCHANGED nextPort
-----------------------------------------------------------------------------
(* Opening.                                                                *)

NextConn == Cardinality({c \in Conns : session.conn[c].state # "unused"}) + 1

\* A SYN of the VM; net.connect only starts connecting.
OpenForward(key) ==
  /\ session.open
  /\ NextConn \in Conns
  /\ key \notin DOMAIN session.tcpConnections
  /\ Change([session EXCEPT
       !.tcpConnections = Plus(@, key, NextConn),
       !.conn[NextConn] = [Unused EXCEPT
         !.kind = "forward", !.key = key, !.state = "SYN_SENT", !.alive = {"queue"},
         !.sink = "open", !.sourceEnded = FALSE]], {})

CandidateUnwrapped(i) == nextPort + i

\* The port the search comes to after i steps.
Candidate(i) == FirstPort + ((nextPort - FirstPort + i) % (LastPort - FirstPort + 1))

Taken(port) ==
  port \in DOMAIN session.reverseTcpConnections \/ port \in session.recentlyClosed

\* createTCPConnection gives up after MaxAttempts ports, having passed over one more.
\* The session may be closed: its route stays when its VM has changed its MAC, see
\* Sessions.
OpenReverse(kind) ==
  LET free == {i \in 0 .. MaxAttempts - 1 : ~Taken(Candidate(i))}
      steps == CHOOSE i \in free : \A j \in free : i <= j
      asked == [Unused EXCEPT !.kind = kind]
  IN /\ NextConn \in Conns
     /\ IF free = {}
        THEN /\ nextPort' = Candidate(MaxAttempts + 1)
             /\ session' = [session EXCEPT
                  !.conn[NextConn] = [asked EXCEPT !.state = "CLOSED", !.promise = "rejected",
                                                   !.client = "gone"]]
        ELSE /\ nextPort' = Candidate(steps + 1)
             /\ session' = [session EXCEPT
                  !.reverseTcpConnections = Plus(@, Candidate(steps), NextConn),
                  !.conn[NextConn] = [asked EXCEPT
                    !.key = Candidate(steps), !.state = "SYN_SENT", !.alive = {"queue", "idle"},
                    !.sink = "open", !.sourceEnded = FALSE, !.promise = "pending",
                    !.client = "here"]]
     /\ UNCHANGED crossed

OtherSessionOpens == nextPort' = Candidate(1) /\ UNCHANGED <<session, crossed>>
-----------------------------------------------------------------------------
(* Frames of the VM, for a connection in its table.                        *)

FromVM(c) == session.open /\ InTable(session, c)

VmAccepts(c) ==
  /\ FromVM(c)
  /\ session.conn[c].state = "SYN_SENT"
  /\ LET promise == IF session.conn[c].promise = "pending" THEN "resolved" ELSE session.conn[c].promise
     IN Change([session EXCEPT !.conn[c] = [@ EXCEPT !.state = "ESTABLISHED", !.promise = promise]], {})

VmResets(c) == FromVM(c) /\ Change(Aborted(session, c), {})

Listening(r) == r.promise = "resolved" /\ r.client = "here"

\* The HTTP proxy waits for the end of downstream, even if its client has left, and
\* then cleans up.
EndsResponse(s, c) ==
  IF s.conn[c].kind # "http" \/ s.conn[c].promise # "resolved" THEN s
  ELSE [AbortedByKey(s, c) EXCEPT !.conn[c] = [@ EXCEPT !.client = "gone", !.sink = "destroyed"]]

\* FIN of the VM; the same segment may acknowledge the relay's.
VmEnds(c, acknowledges) ==
  LET r == session.conn[c]
      ended == [session EXCEPT !.conn[c] =
                  [@ EXCEPT !.fins = r.fins \cup {"peer"}, !.sink = Ended(r.sink)]]
  IN /\ FromVM(c)
     /\ session.conn[c].state = "ESTABLISHED"
     /\ "peer" \notin session.conn[c].fins
     /\ acknowledges => "pending" \in session.conn[c].fins
     /\ Change(EndsResponse(IF acknowledges THEN Finished(ended, c) ELSE ended, c), {})

VmAcknowledgesFin(c) ==
  /\ FromVM(c)
  /\ session.conn[c].state = "ESTABLISHED"
  /\ session.conn[c].fins = {"pending", "peer"}
  /\ Change(Finished(session, c), {})
-----------------------------------------------------------------------------
(* The real socket of a connection the VM opened.                          *)

MarkFin(s, t) ==
  IF t = None \/ s.conn[t].state = "CLOSED" THEN s
  ELSE [s EXCEPT !.conn[t].fins = @ \cup {"pending"}]

Readable(c) == session.conn[c].kind = "forward" /\ ~session.conn[c].sourceEnded

SocketData(c) ==
  /\ Readable(c)
  /\ Change(session, Crosses(session, c, "socket data"))

\* Node ends the writing half of a socket whose reading half has ended.
SocketEnd(c) ==
  /\ Readable(c)
  /\ Change([MarkFin(session, Found(session, c)) EXCEPT !.conn[c] =
               [@ EXCEPT !.sourceEnded = TRUE, !.sink = Ended(session.conn[c].sink)]],
            Crosses(session, c, "socket end"))

\* All that was written to an ended socket may still fail to reach the other side.
SocketError(c) ==
  /\ session.conn[c].kind = "forward"
  /\ session.conn[c].sink # "destroyed"
  /\ Change([AbortedByKey(session, c) EXCEPT !.conn[c] =
               [@ EXCEPT !.sourceEnded = TRUE, !.sink = "destroyed"]],
            Crosses(session, c, "socket error"))

SocketCloses(c) ==
  /\ session.conn[c].kind = "forward"
  /\ session.conn[c].sourceEnded
  /\ session.conn[c].sink = "ended"
  /\ Change([session EXCEPT !.conn[c].sink = "destroyed"], {})
-----------------------------------------------------------------------------
(* The client of a connection the relay opened.                            *)

\* Its data ends, and with it upstream, whose "close" handler knows its connection.
ClientEnds(c) ==
  /\ Listening(session.conn[c])
  /\ ~session.conn[c].sourceEnded
  /\ Change([MarkFin(session, IF InTable(session, c) THEN c ELSE None)
               EXCEPT !.conn[c].sourceEnded = TRUE], {})

\* Before it is listened to: nobody will know.
ClientLeaves(c) ==
  /\ session.conn[c].promise = "pending"
  /\ session.conn[c].client = "here"
  /\ Change([session EXCEPT !.conn[c].client = "left"], {})

\* The cleanup functions of the HTTP proxy and of upgraded requests.
CleanedUp(s, c) ==
  [AbortedByKey(s, c) EXCEPT !.conn[c] =
     [@ EXCEPT !.client = "gone", !.sink = "destroyed", !.sourceEnded = TRUE]]

\* The close of a forwarded client's socket, with or without an error before it.
ClientCloses(c, failed) ==
  LET s == IF session.conn[c].kind # "forwarded" THEN CleanedUp(session, c)
           ELSE IF failed THEN AbortedByKey(session, c)
           ELSE IF Found(session, c) = None THEN session
           ELSE [session EXCEPT !.conn[Found(session, c)].fins = @ \cup {"pending"}]
  IN /\ Listening(session.conn[c])
     /\ Change([s EXCEPT !.conn[c].client = "gone"], Crosses(session, c, "client"))

\* Ten seconds without data from the VM.
ResponseTimeout(c) ==
  /\ session.conn[c].kind = "http"
  /\ session.conn[c].promise = "resolved"
  /\ session.conn[c].client # "gone"
  /\ Change(CleanedUp(session, c), Crosses(session, c, "client"))
-----------------------------------------------------------------------------
(* Timers.                                                                 *)

\* The retransmission queue is exhausted; onExhausted knows its connection.
GivesUp(c) ==
  /\ "queue" \in session.conn[c].alive
  /\ Change([(IF InTable(session, c) THEN Aborted(session, c) ELSE session)
               EXCEPT !.conn[c].alive = @ \ {"queue"}], {})

IdleTimeout(c) ==
  /\ "idle" \in session.conn[c].alive
  /\ Change([AbortedByKey(session, c) EXCEPT !.conn[c].alive = @ \ {"idle"}],
            Crosses(session, c, "idle timer"))

LingerEndsUnchecked(c) ==
  /\ "linger" \in session.conn[c].alive
  /\ Change([session EXCEPT !.conn[c].alive = @ \ {"linger"},
                            !.tcpConnections = Without(@, session.conn[c].key)], {})

\* Two seconds after finishTCPConnection.
LingerEnds(c) ==
  /\ "linger" \in session.conn[c].alive
  /\ Change([session EXCEPT
       !.conn[c].alive = @ \ {"linger"},
       !.tcpConnections = IF InTable(session, c) THEN Without(@, session.conn[c].key) ELSE @], {})

\* Two seconds after a reverse connection was removed.
RestEnds(port) ==
  /\ session.restTimers[port] > 0
  /\ Change([session EXCEPT !.recentlyClosed = @ \ {port}, !.restTimers[port] = @ - 1], {})

\* The websocket closes: every connection in a table is released, none is marked
\* CLOSED and no port rests.
CloseSession ==
  /\ session.open
  /\ Change([session EXCEPT
       !.tcpConnections = <<>>, !.reverseTcpConnections = <<>>, !.open = FALSE,
       !.conn = [c \in Conns |-> IF InTable(session, c) THEN Released(session.conn[c])
                                 ELSE session.conn[c]]], {})

Next ==
  \/ \E key \in Keys : OpenForward(key)
  \/ \E kind \in ClientKinds : OpenReverse(kind)
  \/ OtherSessionOpens
  \/ \E c \in Conns :
       \/ VmAccepts(c) \/ VmResets(c) \/ VmAcknowledgesFin(c)
       \/ \E acknowledges \in BOOLEAN : VmEnds(c, acknowledges)
       \/ SocketData(c) \/ SocketEnd(c) \/ SocketError(c) \/ SocketCloses(c)
       \/ ClientEnds(c) \/ ClientLeaves(c) \/ ResponseTimeout(c)
       \/ \E failed \in BOOLEAN : ClientCloses(c, failed)
       \/ GivesUp(c) \/ IdleTimeout(c) \/ LingerEnds(c)
  \/ \E port \in Ports : RestEnds(port)
  \/ CloseSession

Spec == Init /\ [][Next]_vars
-----------------------------------------------------------------------------
(* Safety.                                                                 *)

\* Though so many handlers look up a key that may have a new owner, only two kinds
\* of event ever reach the wrong connection: the error of a socket whose connection
\* has finished, and the departure of a client whose connection is gone.  Data and
\* ends of old sockets, and idle timers, never do (the socket handlers of handleTCP,
\* bumpReverseConnActivity, clearReverseConnTimer, and the order of the statements
\* in the abort and finish functions).
EventsStayHome == crossed \subseteq {"socket error", "client"}

\* A connection that is in no table, whichever way it left, holds nothing: no
\* retransmission queue and no idle timer that could act, no sink still open, no
\* client still waiting for its promise.  And the port of a reverse connection
\* rests: it is not used again while it does, and no earlier timer cuts its rest
\* short (the abort and finish functions, close, createTCPConnection).
GoneMeansReleased ==
  /\ \A c \in Conns : ~InTable(session, c) =>
       LET r == session.conn[c]
       IN r.alive \subseteq {"linger"} /\ r.sink # "open" /\ r.promise # "pending"
  /\ \A port \in Ports :
       /\ session.restTimers[port] = IF port \in session.recentlyClosed THEN 1 ELSE 0
       /\ port \in session.recentlyClosed => port \notin DOMAIN session.reverseTcpConnections
-----------------------------------------------------------------------------
(* Liveness.  The VM answers a SYN or its retransmissions end (see         *)
(* GivesUpOnSilence of RetransmissionQueue); Node fires the response timer *)
(* of a client that gets no more data, its connection being gone.          *)

FairSpec ==
  /\ Spec
  /\ \A c \in Conns :
       /\ WF_vars(GivesUp(c))
       /\ WF_vars(~InTable(session, c) /\ ResponseTimeout(c))

Waiting(c) ==
  \/ session.conn[c].promise = "pending"
  \/ /\ session.conn[c].kind = "http" /\ session.conn[c].promise = "resolved"
     /\ session.conn[c].client # "gone" /\ ~InTable(session, c)

\* Whoever awaits createTCPConnection gets an answer; and a client of the HTTP proxy
\* whose connection has ended, aborted by the VM, by a timer or with the session, is
\* not left waiting (onConnected, onError, resetTimeout and cleanup).
ClientsAnswered == \A c \in Conns : Waiting(c) ~> ~Waiting(c)
=============================================================================
