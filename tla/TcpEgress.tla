------------------------------ MODULE TcpEgress ------------------------------
(***************************************************************************)
(* The half of a TCP connection that carries data to the VM (relay.js):    *)
(* the bytes a real socket delivers are queued, cut into segments that the *)
(* VM's window, the congestion window, the rate limiter, the pacer and the *)
(* websocket let through, tracked for retransmission, and followed by FIN. *)
(*                                                                         *)
(* A handler of the relay is one action, except that drainTCPToVM sends    *)
(* one segment per step: conn.sending is TRUE exactly while its loop runs, *)
(* and nothing else happens then, nor before the handler that called it    *)
(* has run its remaining statements ("after").  What a wake-up needs lives *)
(* in "wake": the pacer's timer (which is pending exactly while the pacer  *)
(* is blocked), the connection's entry in tcpTransportWaiters, and the     *)
(* setImmediate and setTimeout callbacks that call trySend again.          *)
(*                                                                         *)
(* Bytes are counted: the queue is a FIFO, and a byte's place in the       *)
(* stream is its sequence number.                                          *)
(*                                                                         *)
(* Seeded faults, used to see that the properties can fail: the operators  *)
(* ConsumeWholeSegment, SendBytesUnwrapped, ShouldPersistForData,          *)
(* AvailableIgnoresFlight, AbortWithKeepsWaiter, RecoveredUnwrapped and    *)
(* WebsocketDrainsForgets, each before the operator it spoils.             *)
(***************************************************************************)
EXTENDS TcpRetransmission, FiniteSetsExt

CONSTANTS
  Sources,           \* what may feed the connection, see below
  StreamBytes,       \* length of the stream it delivers: a bound of the model
  InitialSequence,   \* relayIsn
  Mss,               \* tcpMss(conn)
  InitialCwnd,       \* TCP_INITIAL_CWND_BYTES
  ReceiveWindow,     \* TCP_WINDOW_SIZE
  HighWater,         \* TCP_SEND_QUEUE_HIGH_WATER_BYTES
  PacedSources,      \* sources whose connection has a pacer: the others' is off
  CooperativeLimit,  \* segments sent before an unpaced connection yields (64)
  VmWindows,         \* windows the VM announces: a bound of the model
  MaxPending         \* setImmediate, setTimeout callbacks told apart: a bound

\* A connection the VM opened is fed by a net.Socket.  One the relay opened to the
\* VM is fed by a PassThrough, into which the HTTP proxy ("proxied") or a socket
\* accepted for a port-forwarding rule ("forwarded") is piped; the latter also
\* reports the close of that socket.
ASSUME SourcesAssumption == Sources \subseteq {"socket", "proxied", "forwarded"}
ASSUME SizesAssumption ==
  /\ StreamBytes \in Nat
  /\ {Mss, InitialCwnd, ReceiveWindow, HighWater, CooperativeLimit, MaxPending} \subseteq Nat \ {0}
  /\ VmWindows \subseteq Nat
\* A window the VM announces has 16 bits, as no scale is agreed: with SYN and the FIN
\* of each end event, and in place of a window a probe's byte, it is far from half the
\* sequence space.
ASSUME WindowsAssumption == \A window \in VmWindows \cup {1} : window + 3 < Half
ASSUME InitialSequenceAssumption == InitialSequence \in SeqNumbers
ASSUME PacedSourcesAssumption == PacedSources \subseteq Sources

LowWater == HighWater \div 2

VARIABLES
  q,       \* conn.retransmission
  conn,    \* the other fields of the connection
  source,  \* its kind, what it has left to deliver, and the end events to come
  loop,    \* the drain loop's counter, and what its caller does afterwards
  wake,    \* pending wake-ups of the connection
  wsFull   \* is ws.bufferedAmount > 32768?

vars == <<q, conn, source, loop, wake, wsFull>>

None == -1

Forward == source.kind = "socket"
Paced == source.kind \in PacedSources

\* "GONE": no longer in tcpConnections or reverseTcpConnections.
States == {"SYN_SENT", "ESTABLISHED", "FIN_WAIT", "CLOSING", "CLOSED", "GONE"}
Established == {"ESTABLISHED", "FIN_WAIT", "CLOSING"}

TypeOK ==
  /\ q \in Queue
  /\ conn \in [state : States, relaySeq : SeqNumbers, queued : 0 .. StreamBytes,
               paused : BOOLEAN, vmWindow : Nat, cwnd : Nat,
               recovery : SeqNumbers \cup {None}, fastAck : SeqNumbers \cup {None},
               dupAcks : 0 .. 2, pendingFin : BOOLEAN, finSent : BOOLEAN,
               peerFin : BOOLEAN, sending : BOOLEAN]
  /\ source \in [kind : Sources, left : 0 .. StreamBytes, ends : SUBSET {"end", "localClose"}]
  /\ loop \in [sent : Nat, after : SUBSET {"again", "fin"}]
  /\ wake \in [blocked : BOOLEAN, waiting : BOOLEAN,
               immediates : 0 .. MaxPending, rateTimers : 0 .. MaxPending]
  /\ wsFull \in BOOLEAN

Init ==
  /\ q = Track(NewQueue(InitialSequence), 0, {"syn"})
  /\ source \in {[kind |-> kind, left |-> StreamBytes,
                  ends |-> IF kind = "forwarded" THEN {"end", "localClose"} ELSE {"end"}] :
                   kind \in Sources}
  /\ \E window \in IF Forward THEN VmWindows ELSE {ReceiveWindow} :
       conn = [state |-> "SYN_SENT", relaySeq |-> (InitialSequence + 1) % SeqSpace,
               queued |-> 0, paused |-> FALSE,
               vmWindow |-> Min({window, ReceiveWindow}),
               cwnd |-> Min({InitialCwnd, ReceiveWindow}),
               recovery |-> None, fastAck |-> None, dupAcks |-> 0,
               pendingFin |-> FALSE, finSent |-> FALSE, peerFin |-> FALSE,
               sending |-> FALSE]
  /\ loop = [sent |-> 0, after |-> {}]
  /\ wake = [blocked |-> FALSE, waiting |-> FALSE, immediates |-> 0, rateTimers |-> 0]
  /\ wsFull = FALSE

\* No handler is running: the event loop may start one.
Quiet == ~conn.sending /\ loop.after = {}

OneMore(n) == Min({n + 1, MaxPending})
-----------------------------------------------------------------------------
(* Congestion control.                                                     *)

SeqLessThan(a, b) == SequenceDistance(a, b) >= Half

CongestionLoss(c, reason) ==
  LET threshold == Max({2 * Mss, q.inFlight \div 2})
  IN IF q.inFlight = 0 THEN c
     ELSE [c EXCEPT !.cwnd = IF reason = "timeout" THEN Mss ELSE threshold,
                    !.recovery = q.nxt, !.fastAck = q.una]

RecoveredUnwrapped(c, una) == una >= c.recovery

Recovered(c, una) == una = c.recovery \/ SeqLessThan(c.recovery, una)

\* p is the queue after the acknowledgement; the head it may resend is not tracked.
CongestionAck(c, p, acked, ack) ==
  LET current == Max({Mss, c.cwnd})
      grown == current + Max({1, (Mss * acked) \div current})
  IN IF acked = 0 THEN c
     ELSE IF c.recovery = None THEN [c EXCEPT !.cwnd = Min({ReceiveWindow, grown})]
     ELSE IF Recovered(c, ack) THEN [c EXCEPT !.recovery = None]
     ELSE IF HasOutstanding(p) THEN [c EXCEPT !.fastAck = p.una]
     ELSE c

RecoveryActive(c, p) == c.recovery # None /\ ~Recovered(c, p.una)

\* isTCPCongestionRecoveryActive forgets a recovery it finds complete.
CheckRecovery(c, p) == IF RecoveryActive(c, p) THEN c ELSE [c EXCEPT !.recovery = None]
-----------------------------------------------------------------------------
(* The queue of bytes, and FIN.                                            *)

Enqueue(c, bytes) ==
  LET queued == c.queued + bytes
  IN [c EXCEPT !.queued = queued, !.paused = @ \/ queued >= HighWater]

ConsumeWholeSegment(c, bytes) ==
  LET queued == Max({0, c.queued - Mss})
  IN [c EXCEPT !.queued = queued, !.paused = @ /\ queued > LowWater]

Consume(c, bytes) ==
  LET queued == c.queued - bytes
  IN [c EXCEPT !.queued = queued, !.paused = @ /\ queued > LowWater]

SendBytesUnwrapped(c, bytes) ==
  [Consume(c, bytes) EXCEPT !.relaySeq = @ + bytes]

\* sendTrackedTCP of bytes taken from the queue.
SendBytes(c, bytes) ==
  [Consume(c, bytes) EXCEPT !.relaySeq = (@ + bytes) % SeqSpace]

SendFin(c) ==
  [c EXCEPT !.pendingFin = FALSE, !.finSent = TRUE, !.state = "FIN_WAIT",
            !.relaySeq = (@ + 1) % SeqSpace]

\* The guards of maybeSendTCPFin and maybeSendReverseFin before the last two.
FinDue(c, p) == c.pendingFin /\ ~c.finSent /\ c.queued = 0 /\ p.inFlight < c.vmWindow

\* The end of a round that leaves nothing to send now.
MaybeFin(c, p) ==
  LET checked == CheckRecovery(c, p)
  IN IF ~FinDue(c, p) THEN conn' = c /\ q' = p
     ELSE IF RecoveryActive(c, p) THEN conn' = checked /\ q' = p
     ELSE conn' = SendFin(checked) /\ q' = Track(p, 0, {"fin"})
-----------------------------------------------------------------------------
(* drainTCPToVM and the functions that call it.                            *)

MaySend(c, w) ==
  /\ ~c.sending
  /\ ~w.blocked
  /\ c.state \in IF Forward THEN States \ {"SYN_SENT", "GONE"} ELSE Established

ShouldPersistForData(c, p) == c.vmWindow = 0 /\ (HasOutstanding(p) \/ c.queued > 0)

ShouldPersist(c, p) ==
  c.vmWindow = 0 /\ (HasOutstanding(p) \/ c.queued > 0 \/ c.pendingFin)

\* trySendToVM and trySendReverseToVM, and what the handler does next.
TrySend(c, p, w, after) ==
  /\ wake' = w
  /\ loop' = [sent |-> 0, after |-> after]
  /\ IF MaySend(c, w)
     THEN /\ conn' = [c EXCEPT !.sending = TRUE]
          /\ q' = SetPersist(p, ShouldPersist(c, p), "sent")
     ELSE conn' = c /\ q' = p

Stop(c) == [c EXCEPT !.sending = FALSE]

DrainEmpty ==
  /\ conn.sending
  /\ conn.queued = 0
  /\ MaybeFin(Stop(conn), q)
  /\ UNCHANGED <<source, loop, wake, wsFull>>

DrainTransportFull ==
  /\ conn.sending
  /\ conn.queued > 0
  /\ wsFull
  /\ conn' = Stop(conn)
  /\ wake' = [wake EXCEPT !.waiting = TRUE]
  /\ UNCHANGED <<q, source, loop, wsFull>>

AvailableIgnoresFlight(c) == IF RecoveryActive(c, q) THEN 0 ELSE Min({c.vmWindow, c.cwnd})

Available(c) ==
  IF RecoveryActive(c, q) THEN 0
  ELSE Max({0, Min({c.vmWindow, c.cwnd}) - q.inFlight})

ToSend(c) == Min({Mss, c.queued, Available(c)})

DrainNoRoom ==
  /\ conn.sending
  /\ conn.queued > 0
  /\ ~wsFull
  /\ ToSend(conn) = 0
  /\ conn' = Stop(CheckRecovery(conn, q))
  /\ UNCHANGED <<q, source, loop, wake, wsFull>>

\* The token bucket refuses: try again in 20 ms.
DrainRateLimited ==
  /\ conn.sending
  /\ conn.queued > 0
  /\ ~wsFull
  /\ ToSend(conn) > 0
  /\ Forward
  /\ conn' = Stop(CheckRecovery(conn, q))
  /\ wake' = [wake EXCEPT !.rateTimers = OneMore(@)]
  /\ UNCHANGED <<q, source, loop, wsFull>>

\* burstEnds: the pacer takes this segment for the last of its burst.  fills: the
\* frame brings the websocket above its limit.
DrainSend(burstEnds, fills) ==
  LET bytes == ToSend(conn)
      sent == SendBytes(CheckRecovery(conn, q), bytes)
      tracked == Track(q, bytes, {})
      last == sent.queued = 0 \/ Available(conn) <= bytes
      yields == ~Paced /\ loop.sent + 1 >= CooperativeLimit
  IN /\ conn.sending
     /\ conn.queued > 0
     /\ ~wsFull
     /\ bytes > 0
     /\ burstEnds => Paced
     /\ wsFull' = fills
     /\ loop' = [loop EXCEPT !.sent = Min({@ + 1, CooperativeLimit})]
     /\ wake' = [wake EXCEPT !.blocked = burstEnds,
                             !.immediates = IF ~last /\ yields THEN OneMore(@) ELSE @]
     /\ IF ~burstEnds /\ last THEN MaybeFin(Stop(sent), tracked)
        ELSE /\ conn' = IF burstEnds \/ yields THEN Stop(sent) ELSE sent
             /\ q' = tracked
     /\ UNCHANGED source

\* The pacer's timer, a setImmediate and the rate limiter's setTimeout.
PacerReady ==
  /\ Quiet
  /\ wake.blocked
  /\ TrySend(conn, q, [wake EXCEPT !.blocked = FALSE], {})
  /\ UNCHANGED <<source, wsFull>>

ImmediateRuns ==
  /\ Quiet
  /\ wake.immediates > 0
  /\ TrySend(conn, q, [wake EXCEPT !.immediates = @ - 1], {})
  /\ UNCHANGED <<source, wsFull>>

RateTimerFires ==
  /\ Quiet
  /\ wake.rateTimers > 0
  /\ TrySend(conn, q, [wake EXCEPT !.rateTimers = @ - 1], {})
  /\ UNCHANGED <<source, wsFull>>
-----------------------------------------------------------------------------
(* The source.                                                             *)

\* Data of a forwarded or proxied client is piped once the VM has answered.
SourceData(bytes) ==
  /\ Quiet
  /\ conn.state # "GONE"
  /\ ~Forward => conn.state # "SYN_SENT"
  /\ ~conn.paused
  /\ bytes <= source.left
  /\ source' = [source EXCEPT !.left = @ - bytes]
  /\ TrySend(Enqueue(conn, bytes), q, wake, {})
  /\ UNCHANGED wsFull

\* socket "end", or upstream "close", once everything has been read; a stream that
\* is paused and holds nothing still reports its end.
SourceEnd ==
  /\ Quiet
  /\ conn.state \notin {"CLOSED", "GONE"}
  /\ ~Forward => conn.state # "SYN_SENT"
  /\ source.left = 0
  /\ "end" \in source.ends
  /\ source' = [source EXCEPT !.ends = @ \ {"end"}]
  /\ TrySend([conn EXCEPT !.pendingFin = TRUE], q, wake, {})
  /\ UNCHANGED wsFull

\* localSocket "close": the client is gone, and all it sent is in the PassThrough,
\* which keeps it only as long as its reader has paused it.
LocalClose ==
  /\ Quiet
  /\ conn.state \notin {"SYN_SENT", "GONE"}
  /\ source.left > 0 => conn.paused
  /\ "localClose" \in source.ends
  /\ source' = [source EXCEPT !.ends = @ \ {"localClose"}]
  /\ TrySend([conn EXCEPT !.pendingFin = TRUE], q, wake, {})
  /\ UNCHANGED wsFull
-----------------------------------------------------------------------------
(* Closing.                                                                *)

\* finishTCPConnection keeps the entry for two seconds; the others remove it.
InState(c, state) == [c EXCEPT !.state = state]

Finish(c, p) ==
  /\ conn' = InState(c, IF Forward THEN "CLOSED" ELSE "GONE")
  /\ q' = Close(p)
  /\ wake' = [wake EXCEPT !.blocked = FALSE, !.waiting = FALSE]
  /\ loop' = [loop EXCEPT !.after = {}]

AbortWithKeepsWaiter(p) ==
  /\ conn' = InState(conn, "GONE")
  /\ q' = Close(p)
  /\ UNCHANGED <<source, loop, wake, wsFull>>

AbortWith(p) ==
  /\ conn' = InState(conn, "GONE")
  /\ q' = Close(p)
  /\ wake' = [wake EXCEPT !.blocked = FALSE, !.waiting = FALSE]
  /\ UNCHANGED <<source, loop, wsFull>>

\* A reset from the VM, a socket error, the idle timer, the end of the session.
Abort ==
  /\ Quiet
  /\ conn.state # "GONE"
  /\ AbortWith(q)

LingerEnds ==
  /\ Quiet
  /\ conn.state = "CLOSED"
  /\ conn' = InState(conn, "GONE")
  /\ UNCHANGED <<q, source, loop, wake, wsFull>>
-----------------------------------------------------------------------------
(* Segments from the VM.                                                   *)

AllAcknowledged(c, p) == c.peerFin /\ c.finSent /\ ~HasOutstanding(p)

\* The third duplicate acknowledgement resends the head, unless it just was.
DuplicateAcknowledgement(c, p, ack) ==
  IF c.dupAcks < 2 THEN conn' = [c EXCEPT !.dupAcks = @ + 1] /\ q' = p
  ELSE IF c.fastAck = ack THEN conn' = [c EXCEPT !.dupAcks = 0] /\ q' = p
  ELSE /\ conn' = [(IF Persisting(p) THEN c ELSE CongestionLoss(c, "fast"))
                     EXCEPT !.dupAcks = 0]
       /\ q' = FastRetransmit(p, "sent")

\* A segment with the ACK flag.  "kind" is what else it carries; "older": its
\* sequence number is below the last that set the window.  An acknowledgement
\* outside sndUna .. sndNxt makes the handler return at once.
VmSegment(ack, window, kind, older) ==
  LET status == AckStatus(q, ack)
      acked == Acknowledge(q, ack)
      changed == ~older /\ conn.vmWindow # window
      updated == [conn EXCEPT !.vmWindow = IF older THEN @ ELSE window]
      fin == IF kind = "fin" THEN {"fin"} ELSE {}
      again == IF changed /\ ~Forward THEN {"again"} ELSE {}
      credited == CongestionAck([updated EXCEPT !.dupAcks = 0, !.fastAck = None],
                                acked, q.inFlight - acked.inFlight, ack)
      opened == IF conn.state = "SYN_SENT" THEN [credited EXCEPT !.state = "ESTABLISHED"]
                ELSE credited
  IN /\ Quiet
     /\ conn.state \in IF Forward THEN States \ {"GONE"} ELSE Established
     /\ status \in {"duplicate", "advanced"}
     /\ \/ /\ status = "advanced"
           /\ IF AllAcknowledged(opened, acked) THEN Finish(opened, acked)
              ELSE TrySend(opened, acked, wake, fin \cup again)
        \/ /\ status = "duplicate"
           /\ changed /\ conn.state \in Established
           /\ IF Forward /\ AllAcknowledged(updated, acked) THEN Finish(updated, acked)
              ELSE TrySend([updated EXCEPT !.dupAcks = 0], acked, wake, fin)
        \/ /\ status = "duplicate"
           /\ ~(changed /\ conn.state \in Established)
           /\ loop' = [loop EXCEPT !.after = IF conn.state \in Established THEN fin ELSE {}]
           /\ IF ~changed /\ updated.vmWindow > 0 /\ kind = "pure" /\ HasOutstanding(q)
              THEN DuplicateAcknowledgement(updated, acked, ack)
              ELSE conn' = updated /\ q' = acked
           /\ UNCHANGED wake
     /\ UNCHANGED <<source, wsFull>>

\* What the handler does after trySend: a second trySend for the window, then FIN.
SendAgain ==
  /\ ~conn.sending
  /\ "again" \in loop.after
  /\ TrySend([conn EXCEPT !.dupAcks = 0], q, wake, loop.after \ {"again"})
  /\ UNCHANGED <<source, wsFull>>

PeerFin ==
  LET closing == [conn EXCEPT !.peerFin = TRUE, !.state = "CLOSING"]
  IN /\ ~conn.sending
     /\ loop.after = {"fin"}
     /\ IF conn.peerFin
        THEN UNCHANGED <<conn, q, wake>> /\ loop' = [loop EXCEPT !.after = {}]
        ELSE IF AllAcknowledged(closing, q) THEN Finish(closing, q)
        ELSE conn' = closing /\ loop' = [loop EXCEPT !.after = {}] /\ UNCHANGED <<q, wake>>
     /\ UNCHANGED <<source, wsFull>>

\* The VM's answer to the relay's SYN on a connection the relay opens.
SynAck(ack, window) ==
  LET acked == Acknowledge(q, ack)
  IN /\ Quiet
     /\ ~Forward
     /\ conn.state = "SYN_SENT"
     /\ IF AckStatus(q, ack) = "advanced" /\ ~HasOutstanding(acked)
        THEN TrySend([conn EXCEPT !.state = "ESTABLISHED", !.vmWindow = window], acked, wake, {})
        ELSE q' = acked /\ UNCHANGED <<conn, loop, wake>>
     /\ UNCHANGED <<source, wsFull>>

\* The VM repeats the SYN that opened the connection.
SynAgain ==
  /\ Quiet
  /\ Forward
  /\ conn.state = "SYN_SENT"
  /\ q' = FastRetransmit(q, "sent")
  /\ conn' = IF Persisting(q) THEN conn ELSE CongestionLoss(conn, "fast")
  /\ UNCHANGED <<source, loop, wake, wsFull>>
-----------------------------------------------------------------------------
(* The retransmission timer and the websocket.                             *)

ProbeOutcome ==
  IF ~Persisting(q) THEN "sent"
  ELSE IF wsFull THEN "refused"
  ELSE IF HasOutstanding(q) THEN "sent"
  ELSE IF conn.queued > 0 THEN "byte"
  ELSE IF conn.pendingFin THEN "fin"
  ELSE "sent"

RetransmissionTimer ==
  /\ Quiet
  /\ \E age \in q.callbacks :
       LET fired == TimerCallback(q, age, ProbeOutcome)
       IN IF Exhausted(fired) THEN AbortWith(fired)
          ELSE /\ q' = fired
               /\ conn' = CASE ProbeOutcome = "byte" -> SendBytes(conn, 1)
                            [] ProbeOutcome = "fin" -> SendFin(conn)
                            [] ProbeOutcome \in {"sent", "refused"} ->
                                 IF Persisting(q) THEN conn ELSE CongestionLoss(conn, "timeout")
               /\ UNCHANGED <<source, loop, wake, wsFull>>

\* Other connections of the session share the websocket.
WebsocketFills ==
  /\ Quiet
  /\ ~wsFull
  /\ wsFull' = TRUE
  /\ UNCHANGED <<q, conn, source, loop, wake>>

WebsocketDrainsForgets ==
  /\ Quiet
  /\ wsFull
  /\ wsFull' = FALSE
  /\ wake' = [wake EXCEPT !.waiting = FALSE]
  /\ UNCHANGED <<q, conn, source, loop>>

\* The completion callback of a send, with the buffer below its limit again.
WebsocketDrains ==
  /\ Quiet
  /\ wsFull
  /\ wsFull' = FALSE
  /\ wake' = IF wake.waiting
             THEN [wake EXCEPT !.waiting = FALSE, !.immediates = OneMore(@)]
             ELSE wake
  /\ UNCHANGED <<q, conn, source, loop>>
-----------------------------------------------------------------------------
\* Every number the VM can acknowledge.
AckChoices == {(q.una + n) % SeqSpace : n \in 0 .. Outstanding(q)}

Drain ==
  \/ DrainEmpty \/ DrainTransportFull \/ DrainNoRoom \/ DrainRateLimited
  \/ \E burstEnds, fills \in BOOLEAN : DrainSend(burstEnds, fills)

Next ==
  \/ Drain
  \/ PacerReady \/ ImmediateRuns \/ RateTimerFires
  \/ \E bytes \in 1 .. StreamBytes : SourceData(bytes)
  \/ SourceEnd \/ LocalClose
  \/ \E ack \in AckChoices, window \in VmWindows, kind \in {"pure", "data", "fin"},
        older \in BOOLEAN : VmSegment(ack, window, kind, older)
  \/ SendAgain \/ PeerFin
  \/ \E ack \in AckChoices, window \in VmWindows : SynAck(ack, window)
  \/ SynAgain
  \/ RetransmissionTimer
  \/ WebsocketFills \/ WebsocketDrains
  \/ Abort \/ LingerEnds

Spec == Init /\ [][Next]_vars
-----------------------------------------------------------------------------
(* Safety.                                                                 *)

SomethingToSend == conn.queued > 0 \/ (conn.pendingFin /\ ~conn.finSent)

Open == conn.state \notin {"CLOSED", "GONE"}

\* The client of a forwarding rule has closed, which marks FIN as due whatever has
\* been sent and whatever data is still held back: see FinIsLast.
ClientGone == source.kind = "forwarded" /\ "localClose" \notin source.ends

\* What has left the queue, and been given a number.
BytesSent == StreamBytes - (source.left + conn.queued)
FinsSent == IF conn.finSent THEN 1 ELSE 0

\* Every byte read from the source is either queued or has a number of its own:
\* none is lost or sent twice, however the segments were cut by the windows, the
\* congestion window, a probe's single byte or the wraparound of the numbers; and
\* FIN comes after the last of them (enqueueTCPData, takeQueuedBytes,
\* consumeTCPQueuedData, maybeSendTCPFin).  The next number, relaySeq, is where the
\* retransmission queue ends, whoever sent last: the drain loop, a zero-window
\* probe that consumed a byte, or a probe that sent FIN (sendTCP, sendTrackedTCP,
\* onPersistProbe).
NothingLostOrRepeated ==
  /\ conn.relaySeq = q.nxt
  /\ ~ClientGone =>
       /\ conn.relaySeq = (InitialSequence + 1 + BytesSent + FinsSent) % SeqSpace
       /\ conn.finSent => source.left = 0 /\ conn.queued = 0

\* A connection with something to send always has something that will make it try
\* again: a pending timer, a callback, a place among the websocket's waiters, or
\* an acknowledgement the retransmission timer stands for.  And a source is never
\* left paused behind an empty queue (drainTCPToVM's five returns, trySend's
\* guards, setPersist's argument, consumeTCPQueuedData).
NoStall ==
  Quiet /\ Open =>
    /\ SomethingToSend =>
          \/ wake.blocked \/ wake.waiting
          \/ wake.immediates > 0 \/ wake.rateTimers > 0
          \/ q.timer # NoTimer
    /\ conn.paused => conn.queued > 0
    /\ wake.waiting => wsFull

\* "The FIN flag also only applies to the very last segment of the connection"
\* (relay.js:1932): nothing takes a new number once FIN has one.
FinIsLast == [][ conn.finSent => q'.nxt = q.nxt ]_vars

\* New payload stays within the window the VM announced last and the congestion
\* window, both as they are when it is sent and not when the drain was asked for;
\* a probe of a closed window is one byte (tcpSendLimit, onPersistProbe).
RespectsWindows ==
  [][ q'.inFlight > q.inFlight =>
        \/ /\ q'.inFlight <= Min({conn.vmWindow, conn.cwnd})
           /\ ~RecoveryActive(conn, q)
        \/ /\ Persisting(q)
           /\ q'.inFlight = q.inFlight + 1 ]_vars

\* Loss recovery holds new data back exactly while a number that was outstanding at the
\* loss has not been acknowledged: neither a recovery whose end the acknowledgements
\* have passed without telling onTCPCongestionAck (SYN, FIN), nor one across the
\* wraparound, is taken for the other (onTCPCongestionLoss,
\* isTCPCongestionRecoveryActive, seqLessThan).
RecoveryExact ==
  Open /\ conn.recovery # None =>
    (RecoveryActive(conn, q) <=>
       SequenceDistance(conn.recovery, q.una) \in 1 .. Outstanding(q))

\* A connection that has ended holds no timer of its own and no place among the
\* websocket's waiters, so nothing revives it (the finish and abort functions).
NothingPendingAfterEnd ==
  ~Open => /\ ~wake.blocked /\ ~wake.waiting
           /\ q.timer = NoTimer /\ q.callbacks = {}
           /\ Closed(q)
-----------------------------------------------------------------------------
(* Liveness.  A drain runs on to its return; Node's event loop serves      *)
(* every timer, callback and stream in turn, however busy the others are;  *)
(* the token bucket refills; the websocket drains, and the session's other *)
(* connections do not refill it each time before a wake-up gets to run; a  *)
(* VM that is not silent now and then acknowledges all, its window open.   *)
(* No fairness is assumed of the retransmission timer.                     *)

VmAnswers ==
  \E window \in VmWindows \ {0} :
    \/ VmSegment(q.nxt, window, "pure", FALSE)
    \/ SynAck(q.nxt, window)

Fairness ==
  /\ WF_vars(Drain)
  /\ SF_vars(\E burstEnds, fills \in BOOLEAN : DrainSend(burstEnds, fills))
  /\ SF_vars(PacerReady)
  /\ SF_vars(~wsFull /\ (ImmediateRuns \/ RateTimerFires))
  /\ SF_vars(\E bytes \in 1 .. StreamBytes : SourceData(bytes)) /\ SF_vars(SourceEnd)
  /\ WF_vars(SendAgain) /\ WF_vars(PeerFin)
  /\ SF_vars(WebsocketDrains)
  /\ SF_vars(VmAnswers)

FairSpec == Spec /\ Fairness

\* A connection does not hang: unless the VM closes its window again and again,
\* all that the source had reaches the VM, FIN included, or the connection is
\* closed (every return of drainTCPToVM leaves the one wake-up it needs).
DeliversOrCloses ==
  <>[](conn.vmWindow > 0) => <>(~Open \/ (conn.finSent /\ ~HasOutstanding(q)))
=============================================================================
