-------------------------- MODULE RetransmissionQueue --------------------------
(***************************************************************************)
(* One TCPRetransmissionQueue and the code that calls it: the connection   *)
(* tracks what it sends, the VM acknowledges (any number whatever: a VM    *)
(* may acknowledge twice, late, or what was never sent), opens and closes  *)
(* its window, goes silent, and the event loop fires the timer.            *)
(*                                                                         *)
(* The loop of acknowledge() is modelled one iteration at a time, because  *)
(* its invariant is what the rest of the relay depends on.  JavaScript     *)
(* runs it to completion, so nothing else happens while call.pc = "acking".*)
(***************************************************************************)
EXTENDS TcpRetransmission

CONSTANTS
  MaxPayload   \* longest payload tracked: a bound of the model

ASSUME MaxPayloadAssumption == MaxPayload \in Nat

VARIABLES
  q,           \* the queue
  call,        \* the acknowledge() in progress, or Idle
  unanswered,  \* history: timer-driven sends since the VM was last heard
  peerAlive    \* environment: FALSE once the VM has stopped answering

vars == <<q, call, unanswered, peerAlive>>

Idle == [pc |-> "idle"]

\* "before" is history: the queue when the call began.
AckCall == [pc : {"acking"}, ack : SeqNumbers, remaining : Nat, data : Nat,
            before : Queue]

TypeOK ==
  /\ q \in Queue
  /\ call \in AckCall \cup {Idle}
  /\ unanswered \in Nat
  /\ peerAlive \in BOOLEAN

Init ==
  /\ q \in {NewQueue(initialSequence) : initialSequence \in SeqNumbers}
  /\ call = Idle
  /\ unanswered = 0
  /\ peerAlive = TRUE
-----------------------------------------------------------------------------
Room(size) == Outstanding(q) + size < Half

DoTrackWhenClosed(len, flags) ==
  /\ call = Idle
  /\ SequenceLength(len, flags) > 0
  /\ Room(SequenceLength(len, flags))
  /\ q' = Track(q, len, flags)
  /\ UNCHANGED <<call, unanswered, peerAlive>>

\* The relay never tracks on a queue that is closed or exhausted: both end the
\* connection at once.  It never has 2^31 numbers outstanding either, since the
\* largest scaled window a VM can announce is 65535 * 2^14.
DoTrack(len, flags) ==
  /\ call = Idle
  /\ Live(q)
  /\ SequenceLength(len, flags) > 0
  /\ Room(SequenceLength(len, flags))
  /\ q' = Track(q, len, flags)
  /\ UNCHANGED <<call, unanswered, peerAlive>>

\* Closed queues are not asked: closing removes the connection, or follows its
\* last acknowledgement.  The early returns leave without entering the loop.
BeginAcknowledge(ack) ==
  /\ call = Idle
  /\ ~Closed(q)
  /\ peerAlive
  /\ IF AckStatus(q, ack) = "advanced"
     THEN /\ call' = [pc |-> "acking", ack |-> ack, data |-> 0, before |-> q,
                      remaining |-> SequenceDistance(ack, q.una)]
          /\ UNCHANGED <<q, unanswered>>
     ELSE /\ q' = IF AckStatus(q, ack) = "duplicate" THEN DuplicateAck(q) ELSE q
          /\ unanswered' = IF AckStatus(q, ack) = "duplicate" /\ Persisting(q)
                           THEN 0 ELSE unanswered
          /\ UNCHANGED call
  /\ UNCHANGED peerAlive

PopSegmentByPayload ==
  /\ call # Idle
  /\ HasOutstanding(q)
  /\ call.remaining > 0
  /\ LET s == Head(q.segs)
     IN /\ call.remaining >= s.len
        /\ q' = [q EXCEPT !.segs = Tail(@), !.inFlight = @ - s.len]
        /\ call' = [call EXCEPT !.remaining = @ - s.len, !.data = @ + s.len]
  /\ UNCHANGED <<unanswered, peerAlive>>

PopSegment ==
  /\ call # Idle
  /\ HasOutstanding(q)
  /\ call.remaining > 0
  /\ LET s == Head(q.segs)
     IN /\ call.remaining >= s.size
        /\ q' = [q EXCEPT !.segs = Tail(@), !.inFlight = @ - s.len]
        /\ call' = [call EXCEPT !.remaining = @ - s.size, !.data = @ + s.len]
  /\ UNCHANGED <<unanswered, peerAlive>>

TrimSegment ==
  /\ call # Idle
  /\ HasOutstanding(q)
  /\ call.remaining > 0
  /\ LET s == Head(q.segs)
         data == ConsumedData(s, call.remaining)
     IN /\ call.remaining < s.size
        /\ q' = [q EXCEPT !.segs[1] = ConsumeSegmentPrefix(s, call.remaining),
                          !.inFlight = @ - data]
        /\ call' = [call EXCEPT !.remaining = 0, !.data = @ + data]
  /\ UNCHANGED <<unanswered, peerAlive>>

EndAcknowledge ==
  /\ call # Idle
  /\ call.remaining = 0
  /\ q' = FinishAck(q, call.ack)
  /\ call' = Idle
  /\ unanswered' = 0
  /\ UNCHANGED peerAlive

\* The third duplicate acknowledgement, or a partial one during recovery.
DoFastRetransmit(outcome) ==
  /\ call = Idle
  /\ peerAlive
  /\ q' = FastRetransmit(q, outcome)
  /\ UNCHANGED <<call, unanswered, peerAlive>>

\* updateTCPWindow, on any acknowledgement the VM sends.
DoSetPersist(enabled, outcome) ==
  /\ call = Idle
  /\ peerAlive
  /\ q' = SetPersist(q, enabled, outcome)
  /\ unanswered' = IF Live(q) /\ Persisting(q) # enabled THEN 0 ELSE unanswered
  /\ UNCHANGED <<call, peerAlive>>

\* A send that reached the websocket and asks the VM for an answer.
Asked(outcome) ==
  /\ q'.retries > q.retries
  /\ outcome \notin {"refused", "throws", "notCurrent"}

TimerFires(age, outcome) ==
  /\ call = Idle
  /\ q' = TimerCallback(q, age, outcome)
  /\ unanswered' = IF Asked(outcome) THEN unanswered + 1 ELSE unanswered
  /\ UNCHANGED <<call, peerAlive>>

DoClose ==
  /\ call = Idle
  /\ ~Closed(q)
  /\ q' = Close(q)
  /\ UNCHANGED <<call, unanswered, peerAlive>>

\* The VM is gone: no acknowledgement and no window update arrives again.
PeerGoesSilent ==
  /\ call = Idle
  /\ peerAlive' = FALSE
  /\ UNCHANGED <<q, call, unanswered>>

FireTimer ==
  \E age \in q.callbacks, outcome \in TimeoutOutcomes(q) :
    /\ outcome = "byte" => Room(1)
    /\ outcome = "fin" => Room(1)
    /\ TimerFires(age, outcome)

Next ==
  \/ \E len \in 0 .. MaxPayload, flags \in Flags : DoTrack(len, flags)
  \/ \E ack \in SeqNumbers : BeginAcknowledge(ack)
  \/ PopSegment
  \/ TrimSegment
  \/ EndAcknowledge
  \/ \E outcome \in EmitOutcomes : DoFastRetransmit(outcome)
  \/ \E enabled \in BOOLEAN, outcome \in EmitOutcomes : DoSetPersist(enabled, outcome)
  \/ FireTimer
  \/ DoClose
  \/ PeerGoesSilent

Spec == Init /\ [][Next]_vars
-----------------------------------------------------------------------------
(* Safety.                                                                 *)

\* The sequence number the loop has reached: sndUna when no call is running.
LoopPosition ==
  IF call = Idle THEN q.una
  ELSE (call.ack - call.remaining) % SeqSpace

Offset(i) == SequenceDistance(q.segs[i].seq, LoopPosition)
EndOffset(i) == Offset(i) + q.segs[i].size
Unacked == SequenceDistance(q.nxt, LoopPosition)

SegmentsConsistent ==
  \A i \in 1 .. Len(q.segs) :
    LET s == q.segs[i]
    IN /\ s.size = SequenceLength(s.len, s.flags)
       /\ s.size > 0
       /\ s.first = (s.seq + Flag("syn", s.flags)) % SeqSpace

SegmentsAdjacent ==
  /\ q.segs = <<>> => Unacked = 0
  /\ q.segs # <<>> => Offset(1) = 0 /\ EndOffset(Len(q.segs)) = Unacked
  /\ \A i \in 1 .. Len(q.segs) - 1 : EndOffset(i) = Offset(i + 1)

\* The segments held are exactly the numbers from sndUna to sndNxt, once each and
\* in order, and each carries the payload bytes its numbers stand for: whatever
\* acknowledgements arrived, partial ones and wraparound included, no byte the VM
\* still needs is dropped and none is kept under another number.  And
\* payloadBytesInFlight, which congestion control compares with its window, is
\* their payload, an acknowledgement's count of bytes what left it (track,
\* acknowledge, consumeSegmentPrefix).
Tiled ==
  /\ ~Closed(q) => SegmentsConsistent /\ SegmentsAdjacent
  /\ q.inFlight = PayloadBytes(q.segs)
  /\ call # Idle => call.data + q.inFlight = call.before.inFlight

\* acknowledge() throws neither "ACK advanced beyond tracked TCP segments" nor
\* "invalid partial TCP acknowledgement": the loop never runs out of segments,
\* and what it takes from a segment is consumed to the last number.
AckNeverThrows ==
  call # Idle /\ call.remaining > 0 =>
    /\ HasOutstanding(q)
    /\ call.remaining < Head(q.segs).size => ConsumesExactly(Head(q.segs), call.remaining)

\* There is exactly one callback pending when there is something to wait for and
\* none otherwise, whichever path cleared, armed or refused to arm it last: a
\* queue is never left without a timer, nor with two of them (armTimer, clearTimer,
\* and the probe that arms one by tracking its byte).
TimerArmed ==
  call = Idle =>
    IF Live(q) /\ (HasOutstanding(q) \/ Persisting(q))
    THEN q.timer = 0 /\ q.callbacks = {0}
    ELSE q.timer = NoTimer /\ q.callbacks = {}

\* "Transport backpressure is not a missed response from the peer"
\* (tcp_retransmission.js:239): a connection is given up for silence only after
\* maxRetransmissions sends that left the relay and that the VM never answered.
NoPrematureGiveUp ==
  [][ q'.failures # q.failures /\ q'.failures[Len(q'.failures)] = "limit"
        => unanswered >= MaxRetransmissions ]_vars

\* While the VM keeps its window closed the probes only become rarer: an
\* acknowledgement, a tracked probe byte or a refused probe never brings the
\* initial timeout back (currentRtoMs in acknowledge and handleTimeout).
ProbesOnlySlowDown ==
  [][ Persisting(q) /\ Persisting(q') => q'.rto >= q.rto ]_vars

\* The loop of acknowledge() computes what Acknowledge says in one step.
AckLoopCorrect ==
  [][ call # Idle /\ call' = Idle => q' = Acknowledge(call.before, call.ack) ]_vars
-----------------------------------------------------------------------------
(* Liveness.  The event loop fires a pending timer.  That some timeout     *)
(* finds room to send, although the websocket refuses probes, is assumed   *)
(* of the environment: a VM that stops reading its websocket and keeps it  *)
(* open may refuse them for ever.  No fairness is asked of the outcomes    *)
(* that close or fail the queue.                                           *)
(* acknowledge() runs to completion.                                       *)

TimerSends ==
  \E age \in q.callbacks, outcome \in TimeoutOutcomes(q) \cap {"sent", "byte", "fin"} :
    /\ outcome \in {"byte", "fin"} => Room(1)
    /\ TimerFires(age, outcome)

Fairness ==
  /\ SF_vars(TimerSends)
  /\ WF_vars(PopSegment \/ TrimSegment \/ EndAcknowledge)

FairSpec == Spec /\ Fairness

\* A VM that stops answering does not hold its connection for ever: with data
\* unacknowledged, or a closed window to probe, the queue gives up (or is closed).
GivesUpOnSilence ==
  ~peerAlive /\ (HasOutstanding(q) \/ Persisting(q)) ~> ~Live(q)
-----------------------------------------------------------------------------
(* What the queue promises, without segments or timers: SendWindow.        *)

Window == INSTANCE SendWindow WITH
            una <- q.una, nxt <- q.nxt, open <- ~Closed(q)

ImplementsSendWindow == Window!Spec
=============================================================================
