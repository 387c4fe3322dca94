--------------------------- MODULE TcpRetransmission ---------------------------
(***************************************************************************)
(* The data of class TCPRetransmissionQueue (tcp_retransmission.js) and    *)
(* what each of its methods does to it.  The queue holds every segment     *)
(* sent to the VM and not yet acknowledged, one retransmission timer, and  *)
(* the zero-window ("persist") probing state.                              *)
(*                                                                         *)
(* A queue is a record; a method is an operator from a queue to a queue.   *)
(* A payload is the interval of the byte stream it carries: "first", the   *)
(* sequence number its first byte had when it was tracked, and "len".      *)
(* subarray() moves "first" and consumeSegmentPrefix moves "seq", so that  *)
(* a disagreement between the two is visible in the model.                 *)
(*                                                                         *)
(* timerGeneration is kept by age: every ++timerGeneration makes each      *)
(* callback one generation older, and the current generation has age 0.    *)
(* "callbacks" are the ages of the callbacks the event loop still holds    *)
(* and "timer" is the age of the one this.timer refers to.                 *)
(*                                                                         *)
(* Operators named after a plausible mistake (TrackUnwrapped, ...) are     *)
(* seeded faults: no specification uses them; each shows that a property   *)
(* would notice the mistake.                                               *)
(***************************************************************************)
EXTENDS Integers, Sequences

CONSTANTS
  Half,               \* HALF_SEQUENCE_SPACE
  InitialRto,         \* initialRtoMs
  MaxRto,             \* maxRtoMs
  MaxRetransmissions  \* maxRetransmissions

\* The checks the constructor makes, and a sequence space that has a half.
ASSUME HalfAssumption == Half \in Nat \ {0}
ASSUME RtoAssumption == InitialRto \in Nat \ {0} /\ MaxRto \in Nat /\ MaxRto >= InitialRto
ASSUME RetransmissionsAssumption == MaxRetransmissions \in Nat \ {0}

SeqSpace == 2 * Half
SeqNumbers == 0 .. SeqSpace - 1

SequenceDistance(later, earlier) == (later - earlier) % SeqSpace

\* A flag takes one sequence number, like a byte of payload.
Flag(flag, flags) == IF flag \in flags THEN 1 ELSE 0
SequenceLength(len, flags) == len + Flag("syn", flags) + Flag("fin", flags)

\* Both are generous on numbers: the invariants say what really bounds them.
Flags == SUBSET {"syn", "fin"}
Segment == [seq : SeqNumbers, first : SeqNumbers, len : Nat, size : Int, flags : Flags]

NoTimer == -1

Queue == [una : SeqNumbers, nxt : SeqNumbers, segs : Seq(Segment), inFlight : Int,
          rto : Nat, retries : Nat,
          timer : Nat \cup {NoTimer}, callbacks : SUBSET Nat,
          modes : SUBSET {"persist", "closed", "exhausted"},
          failures : Seq({"limit", "thrown"})]

NewQueue(initialSequence) ==
  [una |-> initialSequence, nxt |-> initialSequence, segs |-> <<>>, inFlight |-> 0,
   rto |-> InitialRto, retries |-> 0, timer |-> NoTimer, callbacks |-> {},
   modes |-> {},            \* which of persist, closed and exhausted are true
   failures |-> <<>>]       \* the onExhausted calls made so far

HasOutstanding(q) == q.segs # <<>>
Persisting(q) == "persist" \in q.modes
Closed(q) == "closed" \in q.modes
Exhausted(q) == "exhausted" \in q.modes
Live(q) == ~Closed(q) /\ ~Exhausted(q)
Outstanding(q) == SequenceDistance(q.nxt, q.una)
-----------------------------------------------------------------------------
(* The timer.                                                              *)

NextGeneration(q) ==
  [q EXCEPT !.callbacks = {age + 1 : age \in @},
            !.timer = IF @ = NoTimer THEN NoTimer ELSE @ + 1]

ArmTimer(q) ==
  IF Live(q) /\ (HasOutstanding(q) \/ Persisting(q))
  THEN [NextGeneration(q) EXCEPT !.callbacks = @ \cup {0}, !.timer = 0]
  ELSE q

ClearTimer(q) ==
  LET older == NextGeneration(q)
  IN [older EXCEPT !.callbacks = @ \ {older.timer}, !.timer = NoTimer]

Backoff(q) == [q EXCEPT !.rto = IF 2 * @ < MaxRto THEN 2 * @ ELSE MaxRto]

\* The three places that give up: exhausted, then clearTimer, then onExhausted.
Exhaust(q, error) ==
  [ClearTimer(q) EXCEPT !.modes = @ \cup {"exhausted"}, !.failures = Append(@, error)]

Close(q) ==
  IF Closed(q) THEN q
  ELSE [ClearTimer(q) EXCEPT !.modes = (@ \ {"persist"}) \cup {"closed"},
                             !.segs = <<>>, !.inFlight = 0]
-----------------------------------------------------------------------------
(* Sending.                                                                *)

TrackUnwrapped(q, len, flags) ==
  LET size == SequenceLength(len, flags)
      segment == [seq |-> q.nxt, first |-> (q.nxt + Flag("syn", flags)) % SeqSpace,
                  len |-> len, size |-> size, flags |-> flags]
  IN ArmTimer([q EXCEPT !.segs = Append(@, segment), !.inFlight = @ + len,
                        !.nxt = @ + size])

\* The caller's segment starts at sndNxt: TcpEgress shows that it does.
Track(q, len, flags) ==
  LET size == SequenceLength(len, flags)
      segment == [seq |-> q.nxt, first |-> (q.nxt + Flag("syn", flags)) % SeqSpace,
                  len |-> len, size |-> size, flags |-> flags]
      tracked == [q EXCEPT !.segs = Append(@, segment), !.inFlight = @ + len,
                           !.nxt = (@ + size) % SeqSpace]
  IN IF size = 0 THEN q
     ELSE IF Len(tracked.segs) = 1 /\ q.timer = NoTimer THEN ArmTimer(tracked)
     ELSE tracked

\* What the onRetransmit callback may do to the queue: send the segment, close
\* the queue because the connection is no longer the current one, or throw.
EmitOutcomes == {"sent", "notCurrent", "throws"}

EmitRetransmission(q, outcome) ==
  CASE outcome = "sent" -> q
    [] outcome = "notCurrent" -> Close(q)
    [] outcome = "throws" -> Exhaust(q, "thrown")

FastRetransmit(q, outcome) ==
  IF Persisting(q) \/ ~HasOutstanding(q) \/ ~Live(q) THEN q
  ELSE LET emitted == EmitRetransmission(ClearTimer([q EXCEPT !.rto = InitialRto]), outcome)
       IN IF outcome = "throws" THEN emitted ELSE ArmTimer(emitted)

SetPersist(q, enabled, outcome) ==
  IF ~Live(q) \/ Persisting(q) = enabled THEN q
  ELSE LET reset == [ClearTimer(q) EXCEPT
                       !.modes = IF enabled THEN @ \cup {"persist"} ELSE @ \ {"persist"},
                       !.rto = InitialRto, !.retries = 0]
       IN ArmTimer(IF ~enabled /\ HasOutstanding(q)
                   THEN EmitRetransmission(reset, outcome) ELSE reset)
-----------------------------------------------------------------------------
(* Timeouts.                                                               *)

\* What onPersistProbe (relay.js) may do: resend the first byte of the oldest
\* segment or find nothing to send ("sent"), be held back by the websocket
\* ("refused"), track a queued byte or the FIN, find the connection gone, throw.
ProbeOutcomes(q) ==
  {"sent", "refused", "notCurrent", "throws"} \cup
  (IF HasOutstanding(q) THEN {} ELSE {"byte", "fin"})

ProbeCountsRefusals(q, outcome) ==
  CASE outcome \in {"sent", "refused"} -> q
    [] outcome = "byte" -> Track(q, 1, {})
    [] outcome = "fin" -> Track(q, 0, {"fin"})
    [] outcome = "notCurrent" -> Close(q)
    [] outcome = "throws" -> Exhaust(q, "thrown")

Probe(q, outcome) ==
  CASE outcome = "sent" -> q
    [] outcome = "refused" -> [q EXCEPT !.retries = @ - 1]
    [] outcome = "byte" -> Track(q, 1, {})
    [] outcome = "fin" -> Track(q, 0, {"fin"})
    [] outcome = "notCurrent" -> Close(q)
    [] outcome = "throws" -> Exhaust(q, "thrown")

PersistTimeoutKeepsTimer(q, outcome) ==
  IF q.retries >= MaxRetransmissions THEN Exhaust(q, "limit")
  ELSE LET probed == Probe([q EXCEPT !.retries = @ + 1], outcome)
       IN IF outcome = "throws" THEN probed ELSE ArmTimer(Backoff(probed))

PersistTimeout(q, outcome) ==
  IF q.retries >= MaxRetransmissions THEN Exhaust(q, "limit")
  ELSE LET probed == Probe([q EXCEPT !.retries = @ + 1], outcome)
       IN IF outcome = "throws" THEN probed
          ELSE ArmTimer(Backoff(ClearTimer(probed)))

RetransmissionTimeoutUncounted(q, outcome) ==
  LET emitted == EmitRetransmission(q, outcome)
  IN IF outcome = "throws" THEN emitted ELSE ArmTimer(Backoff(emitted))

RetransmissionTimeout(q, outcome) ==
  IF q.retries >= MaxRetransmissions THEN Exhaust(q, "limit")
  ELSE LET emitted == EmitRetransmission([q EXCEPT !.retries = @ + 1], outcome)
       IN IF outcome = "throws" THEN emitted ELSE ArmTimer(Backoff(emitted))

HandleTimeout(q, outcome) ==
  IF ~Live(q) THEN q
  ELSE IF Persisting(q) THEN PersistTimeout(q, outcome)
  ELSE IF HasOutstanding(q) THEN RetransmissionTimeout(q, outcome)
  ELSE q

TimeoutOutcomes(q) == IF Persisting(q) THEN ProbeOutcomes(q) ELSE EmitOutcomes

\* The callback armTimer registered: an older generation returns at once.
TimerCallback(q, age, outcome) ==
  LET fired == [q EXCEPT !.callbacks = @ \ {age}]
  IN IF age # 0 \/ ~Live(q) THEN fired
     ELSE HandleTimeout([fired EXCEPT !.timer = NoTimer], outcome)
-----------------------------------------------------------------------------
(* Acknowledgements.                                                       *)

AckStatusTrustsPeer(q, ack) ==
  LET advance == SequenceDistance(ack, q.una)
  IN IF advance = 0 THEN "duplicate"
     ELSE IF advance >= Half THEN "stale" ELSE "advanced"

AckStatus(q, ack) ==
  LET advance == SequenceDistance(ack, q.una)
  IN IF advance = 0 THEN "duplicate"
     ELSE IF advance >= Half THEN "stale"
     ELSE IF advance > Outstanding(q) THEN "future"
     ELSE "advanced"

\* The early return of a duplicate: a peer that answers probes is alive.
DuplicateAck(q) == IF Persisting(q) THEN [q EXCEPT !.retries = 0] ELSE q

ConsumedSyn(s, count) == IF count > 0 THEN Flag("syn", s.flags) ELSE 0
ConsumedData(s, count) ==
  LET rest == count - ConsumedSyn(s, count) IN IF rest < s.len THEN rest ELSE s.len
ConsumedFin(s, count) ==
  IF count - ConsumedSyn(s, count) - ConsumedData(s, count) > 0
  THEN Flag("fin", s.flags) ELSE 0

Spent(flag, consumed) == IF consumed > 0 THEN {flag} ELSE {}

ConsumeSegmentPrefixMovesByData(s, count) ==
  LET syn == ConsumedSyn(s, count)  data == ConsumedData(s, count)
      fin == ConsumedFin(s, count)
  IN [seq |-> (s.seq + data) % SeqSpace, first |-> (s.first + data) % SeqSpace,
      len |-> s.len - data, size |-> s.size - syn - data - fin,
      flags |-> s.flags \ (Spent("syn", syn) \cup Spent("fin", fin))]

\* What consumeSegmentPrefix leaves of a segment of which count numbers are acked.
ConsumeSegmentPrefix(s, count) ==
  LET syn == ConsumedSyn(s, count)  data == ConsumedData(s, count)
      fin == ConsumedFin(s, count)
  IN [seq |-> (s.seq + count) % SeqSpace, first |-> (s.first + data) % SeqSpace,
      len |-> s.len - data, size |-> s.size - syn - data - fin,
      flags |-> s.flags \ (Spent("syn", syn) \cup Spent("fin", fin))]

\* The throw at the end of consumeSegmentPrefix.
ConsumesExactly(s, count) ==
  /\ count = ConsumedSyn(s, count) + ConsumedData(s, count) + ConsumedFin(s, count)
  /\ ConsumeSegmentPrefix(s, count).size > 0

FinishAckResetsBackoff(q, ack) ==
  ArmTimer(ClearTimer([q EXCEPT !.una = ack, !.retries = 0, !.rto = InitialRto]))

\* After the loop: the window moves, the backoff ends, the timer restarts.
FinishAck(q, ack) ==
  ArmTimer(ClearTimer([q EXCEPT !.una = ack, !.retries = 0,
                                !.rto = IF Persisting(q) THEN @ ELSE InitialRto]))

\* acknowledge() in one step, for the modules that do not look inside its loop
\* (RetransmissionQueue does, and shows that the two agree): whole segments are
\* dropped while they are covered, and the next one loses its covered prefix.
PayloadBytes(segs) ==
  LET bytes[i \in 0 .. Len(segs)] == IF i = 0 THEN 0 ELSE bytes[i - 1] + segs[i].len
  IN bytes[Len(segs)]

\* The loop drops the segments it meets before the first that reaches further.
WholeSegments(q, ack) ==
  LET covered(s) == SequenceDistance(s.seq, q.una) + s.size <= SequenceDistance(ack, q.una)
  IN CHOOSE n \in 0 .. Len(q.segs) :
       /\ \A i \in 1 .. n : covered(q.segs[i])
       /\ n < Len(q.segs) => ~covered(q.segs[n + 1])

Unacknowledged(q, ack) ==
  LET rest == SubSeq(q.segs, WholeSegments(q, ack) + 1, Len(q.segs))
      prefix == SequenceDistance(ack, q.una) - SequenceDistance(rest[1].seq, q.una)
  IN IF rest # <<>> /\ prefix > 0
     THEN [rest EXCEPT ![1] = ConsumeSegmentPrefix(@, prefix)]
     ELSE rest

Acknowledge(q, ack) ==
  CASE AckStatus(q, ack) = "duplicate" -> DuplicateAck(q)
    [] AckStatus(q, ack) = "advanced" ->
         LET rest == Unacknowledged(q, ack)
         IN FinishAck([q EXCEPT !.segs = rest, !.inFlight = PayloadBytes(rest)], ack)
    [] OTHER -> q
=============================================================================
