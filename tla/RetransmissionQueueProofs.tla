----------------------- MODULE RetransmissionQueueProofs -----------------------
(***************************************************************************)
(* What holds of RetransmissionQueue for every sequence space, every       *)
(* retransmission limit and every timeout range: its timer, its retries,   *)
(* and its segments, which are exactly the numbers in use, with their      *)
(* payload, whatever is acknowledged in the middle of them; so the loop of *)
(* acknowledge() never throws, and the queue keeps SendWindow's promise.   *)
(***************************************************************************)
EXTENDS RetransmissionQueue, TcpRetransmissionProofs

USE HalfAssumption, RtoAssumption, RetransmissionsAssumption, MaxPayloadAssumption
-----------------------------------------------------------------------------
(* Type correctness.                                                       *)

LEMMA CallFields ==
  ASSUME TypeOK, call # Idle
  PROVE  /\ call.pc = "acking" /\ call.ack \in SeqNumbers /\ call.before \in Queue
         /\ call.remaining \in Nat /\ call.data \in Nat /\ call \in AckCall
  BY Zenon DEF TypeOK, AckCall

\* A call in progress is not the idle record.
LEMMA AckingIsNotIdle ==
  ASSUME NEW c, c.pc = "acking"
  PROVE  c # Idle
  <1>1. Idle.pc = "idle"
    BY Zenon DEF Idle
  <1>2. "acking" # "idle"
    BY SMT
  <1> QED
    BY <1>1, <1>2

LEMMA PopSegmentType ==
  ASSUME TypeOK, PopSegment
  PROVE  TypeOK'
  <1> DEFINE s == Head(q.segs)
  <1>1. q \in Queue /\ HasOutstanding(q) /\ call # Idle /\ call.remaining >= s.size
    BY Zenon DEF TypeOK, PopSegment
  <1>2. s \in Segment /\ Tail(q.segs) \in Seq(Segment)
    BY <1>1, HeadType
  <1>3. s.len \in Nat /\ s.size \in Int
    BY <1>2, Zenon DEF Segment
  <1>4. /\ q.inFlight - s.len \in Int
        /\ call.remaining - s.size \in Nat
        /\ call.data + s.len \in Nat
    BY <1>1, <1>3, QueueFields, CallFields, SMT
  <1>5. q' \in Queue
    BY <1>1, <1>2, <1>4, Zenon DEF PopSegment, Queue
  <1>6. call' \in AckCall
    BY <1>1, <1>4, CallFields, Zenon DEF PopSegment, AckCall
  <1> QED
    BY <1>5, <1>6, Zenon DEF TypeOK, PopSegment

LEMMA TrimSegmentType ==
  ASSUME TypeOK, TrimSegment
  PROVE  TypeOK'
  <1> DEFINE s == Head(q.segs)
             rest == ConsumeSegmentPrefix(s, call.remaining)
             data == ConsumedData(s, call.remaining)
  <1>1. q \in Queue /\ HasOutstanding(q) /\ call # Idle
    BY Zenon DEF TypeOK, TrimSegment
  <1>2. s \in Segment /\ Len(q.segs) \in Nat \ {0}
    BY <1>1, HeadType
  <1>3. rest \in Segment
    BY <1>1, <1>2, CallFields, ConsumeSegmentPrefixType
  <1>4. data \in Nat
    <2>1. s.len \in Nat /\ data \in 0 .. s.len
      BY <1>1, <1>2, CallFields, ConsumedBounds, Zenon DEF Segment
    <2> QED
      BY <2>1, SMT
  <1> HIDE DEF data, rest
  <1>5. [q.segs EXCEPT ![1] = rest] \in Seq(Segment)
    BY <1>1, <1>2, <1>3, QueueFields, SMT
  <1>6. q.inFlight - data \in Int /\ 0 \in Nat /\ call.data + data \in Nat
    BY <1>1, <1>4, QueueFields, CallFields, SMT
  <1>7. q' = [q EXCEPT !.segs = [q.segs EXCEPT ![1] = rest], !.inFlight = q.inFlight - data]
    BY Zenon DEF TrimSegment, rest, data
  <1>8. q' \in Queue
    BY <1>1, <1>5, <1>6, <1>7, Zenon DEF Queue
  <1>9. call' \in AckCall
    BY <1>1, <1>6, CallFields, Zenon DEF TrimSegment, AckCall, data
  <1> QED
    BY <1>8, <1>9, Zenon DEF TypeOK, TrimSegment

LEMMA BeginAcknowledgeType ==
  ASSUME TypeOK, NEW ack \in SeqNumbers, BeginAcknowledge(ack)
  PROVE  TypeOK'
  <1>1. q \in Queue /\ q.una \in SeqNumbers
    BY QueueFields, Zenon DEF TypeOK
  <1>2. CASE AckStatus(q, ack) = "advanced"
    <2>1. SequenceDistance(ack, q.una) \in Nat /\ 0 \in Nat
      BY <1>1, DistanceType, SMT DEF SeqNumbers
    <2>2. [pc |-> "acking", ack |-> ack, data |-> 0, before |-> q,
           remaining |-> SequenceDistance(ack, q.una)] \in AckCall
      BY <1>1, <2>1, Zenon DEF AckCall
    <2> QED
      BY <1>2, <2>2, Zenon DEF TypeOK, BeginAcknowledge
  <1>3. CASE AckStatus(q, ack) # "advanced"
    <2>1. 0 \in Nat /\ DuplicateAck(q) \in Queue
      BY <1>1, DuplicateAckType, SMT
    <2> QED
      BY <1>3, <2>1, Zenon DEF TypeOK, BeginAcknowledge
  <1> QED
    BY <1>2, <1>3

LEMMA TimerFiresType ==
  ASSUME TypeOK, NEW age \in q.callbacks, NEW outcome \in TimeoutOutcomes(q),
         TimerFires(age, outcome)
  PROVE  TypeOK'
  <1>1. q \in Queue /\ age \in Nat
    BY QueueFields, SMT DEF TypeOK
  <1>2. TimerCallback(q, age, outcome) \in Queue
    BY <1>1, TimerCallbackType
  <1>3. unanswered \in Nat
    BY Zenon DEF TypeOK
  <1>4. unanswered + 1 \in Nat
    BY <1>3, SMT
  <1> QED
    BY <1>2, <1>3, <1>4, Zenon DEF TypeOK, TimerFires

LEMMA NextType ==
  ASSUME TypeOK, [Next]_vars
  PROVE  TypeOK'
  <1>1. q \in Queue /\ 0 \in Nat
    BY SMT DEF TypeOK
  <1>2. ASSUME NEW len \in 0 .. MaxPayload, NEW flags \in Flags, DoTrack(len, flags)
        PROVE  TypeOK'
    <2>1. len \in Nat
      BY SMT
    <2> QED
      BY <1>1, <1>2, <2>1, TrackType, Zenon DEF TypeOK, DoTrack
  <1>3. ASSUME NEW ack \in SeqNumbers, BeginAcknowledge(ack)
        PROVE  TypeOK'
    BY <1>3, BeginAcknowledgeType
  <1>4. CASE PopSegment
    BY <1>4, PopSegmentType
  <1>5. CASE TrimSegment
    BY <1>5, TrimSegmentType
  <1>6. CASE EndAcknowledge
    BY <1>1, <1>6, FinishAckType, CallFields, Zenon DEF TypeOK, EndAcknowledge
  <1>7. ASSUME NEW outcome \in EmitOutcomes, DoFastRetransmit(outcome)
        PROVE  TypeOK'
    BY <1>1, <1>7, FastRetransmitType, Zenon DEF TypeOK, DoFastRetransmit
  <1>8. ASSUME NEW enabled \in BOOLEAN, NEW outcome \in EmitOutcomes,
               DoSetPersist(enabled, outcome)
        PROVE  TypeOK'
    BY <1>1, <1>8, SetPersistType, Zenon DEF TypeOK, DoSetPersist
  <1>9. CASE FireTimer
    BY <1>9, TimerFiresType, Zenon DEF FireTimer
  <1>10. CASE DoClose
    BY <1>1, <1>10, CloseType, Zenon DEF TypeOK, DoClose
  <1>11. CASE PeerGoesSilent
    BY <1>11, Zenon DEF TypeOK, PeerGoesSilent
  <1>12. CASE UNCHANGED vars
    BY <1>12, Zenon DEF TypeOK, vars
  <1> QED
    BY <1>2, <1>3, <1>4, <1>5, <1>6, <1>7, <1>8, <1>9, <1>10, <1>11, <1>12, Zenon DEF Next

LEMMA InitType ==
  ASSUME Init
  PROVE  TypeOK
  <1>1. 0 \in Nat /\ TRUE \in BOOLEAN
    BY SMT
  <1> QED
    BY <1>1, NewQueueType, Zenon DEF Init, TypeOK

\* The queue and the acknowledge() running on it always have the shape the code
\* gives them; in particular retries is never negative although a refused probe
\* decrements it, and the loop never takes more from remaining than there is.
THEOREM TypeCorrect == Spec => []TypeOK
  BY InitType, NextType, PTL DEF Spec
-----------------------------------------------------------------------------
(* The timer.                                                              *)

TimerInv ==
  /\ TypeOK
  /\ TimerCurrent(q)
  /\ call = Idle => TimerFollows(q)

LEMMA TimerInvInit == Init => TimerInv
  <1> SUFFICES ASSUME Init PROVE TimerInv
    OBVIOUS
  <1>1. PICK n \in SeqNumbers : q = NewQueue(n)
    BY Zenon DEF Init
  <1>2. q.segs = <<>> /\ q.modes = {} /\ q.timer = NoTimer /\ q.callbacks = {}
    BY <1>1, Zenon DEF NewQueue
  <1>3. TimerStopped(q) /\ ~HasOutstanding(q) /\ ~Persisting(q)
    BY <1>2, Zenon DEF TimerStopped, HasOutstanding, Persisting
  <1> QED
    BY <1>3, InitType, Zenon DEF TimerInv, TimerCurrent, TimerStopped, TimerFollows

LEMMA TimerInvNext == TimerInv /\ [Next]_vars => TimerInv'
  <1> SUFFICES ASSUME TimerInv, [Next]_vars PROVE TimerInv'
    OBVIOUS
  <1>1. TypeOK /\ TypeOK' /\ q \in Queue /\ q' \in Queue
    BY NextType, Zenon DEF TimerInv, TypeOK
  <1>2. ASSUME TimerFollows(q') PROVE TimerInv'
    BY <1>1, <1>2, FollowsIsCurrent, Zenon DEF TimerInv
  <1>3. ASSUME call' # Idle, q'.timer = q.timer, q'.callbacks = q.callbacks PROVE TimerInv'
    BY <1>1, <1>3, Zenon DEF TimerInv, TimerCurrent
  <1>4. ASSUME NEW len \in 0 .. MaxPayload, NEW flags \in Flags, DoTrack(len, flags)
        PROVE  TimerInv'
    <2>1. len \in Nat
      BY SMT
    <2> QED
      BY <1>1, <1>2, <1>4, <2>1, TrackTimer, Zenon DEF TimerInv, DoTrack
  <1>5. ASSUME NEW ack \in SeqNumbers, BeginAcknowledge(ack)
        PROVE  TimerInv'
    <2>1. CASE AckStatus(q, ack) = "advanced"
      <3>1. call'.pc = "acking" /\ q' = q
        BY <1>5, <2>1, SMT DEF BeginAcknowledge
      <3> QED
        BY <1>3, <3>1, AckingIsNotIdle
    <2>2. CASE AckStatus(q, ack) # "advanced"
      BY <1>1, <1>2, <1>5, <2>2, DuplicateAckTimer, Zenon DEF TimerInv, BeginAcknowledge
    <2> QED
      BY <2>1, <2>2
  <1>6. CASE PopSegment
    <2>1. q'.timer = q.timer /\ q'.callbacks = q.callbacks
      BY <1>1, <1>6, Zenon DEF PopSegment, Queue
    <2>2. call'.pc = "acking"
      BY <1>1, <1>6, CallFields, Zenon DEF PopSegment, AckCall
    <2> QED
      BY <1>3, <2>1, <2>2, AckingIsNotIdle
  <1>7. CASE TrimSegment
    <2>1. q'.timer = q.timer /\ q'.callbacks = q.callbacks
      BY <1>1, <1>7, Zenon DEF TrimSegment, Queue
    <2>2. call'.pc = "acking"
      BY <1>1, <1>7, CallFields, Zenon DEF TrimSegment, AckCall
    <2> QED
      BY <1>3, <2>1, <2>2, AckingIsNotIdle
  <1>8. CASE EndAcknowledge
    BY <1>1, <1>2, <1>8, FinishAckTimer, CallFields, Zenon DEF TimerInv, EndAcknowledge
  <1>9. ASSUME NEW outcome \in EmitOutcomes, DoFastRetransmit(outcome)
        PROVE  TimerInv'
    BY <1>1, <1>2, <1>9, FastRetransmitTimer, Zenon DEF TimerInv, DoFastRetransmit
  <1>10. ASSUME NEW enabled \in BOOLEAN, NEW outcome \in EmitOutcomes,
                DoSetPersist(enabled, outcome)
         PROVE  TimerInv'
    BY <1>1, <1>2, <1>10, SetPersistTimer, Zenon DEF TimerInv, DoSetPersist
  <1>11. CASE FireTimer
    BY <1>1, <1>2, <1>11, TimerCallbackTimer, Zenon DEF TimerInv, FireTimer, TimerFires
  <1>12. CASE DoClose
    BY <1>1, <1>2, <1>12, CloseTimer, Zenon DEF TimerInv, DoClose
  <1>13. CASE PeerGoesSilent
    BY <1>1, <1>2, <1>13, Zenon DEF TimerInv, PeerGoesSilent
  <1>14. CASE UNCHANGED vars
    BY <1>1, <1>14, Zenon DEF TimerInv, vars
  <1> QED
    BY <1>4, <1>5, <1>6, <1>7, <1>8, <1>9, <1>10, <1>11, <1>12, <1>13, <1>14, Zenon DEF Next

\* Whatever the queue holds and whichever of the paths through acknowledge,
\* fastRetransmit, setPersist, the timer callback and close ran last, exactly one
\* retransmission timer is pending when one is needed, and none otherwise.
THEOREM TimerAlwaysArmed == Spec => []TimerArmed
  <1>1. TimerInv => TimerArmed
    BY Zenon DEF TimerInv, TimerFollows, TimerStopped, TimerArmed
  <1> QED
    BY <1>1, TimerInvInit, TimerInvNext, PTL DEF Spec
-----------------------------------------------------------------------------
(* Retries never outnumber the sends the VM did not answer.                *)

PaceInv ==
  /\ TypeOK
  /\ q.rto <= MaxRto
  /\ Live(q) => q.retries <= unanswered

GivesUpLate ==
  q'.failures # q.failures /\ q'.failures[Len(q'.failures)] = "limit"
    => unanswered >= MaxRetransmissions

SlowsDown == Persisting(q) /\ Persisting(q') => q'.rto >= q.rto

LEMMA ThrownIsNotLimit ==
  ASSUME q \in Queue, q'.failures = q.failures \/ q'.failures = Append(q.failures, "thrown")
  PROVE  GivesUpLate
  <1>1. q.failures \in Seq({"limit", "thrown"})
    BY QueueFields
  <1>2. Append(q.failures, "thrown")[Len(Append(q.failures, "thrown"))] = "thrown"
    BY <1>1, SMT
  <1>3. "thrown" # "limit"
    BY SMT
  <1> QED
    BY <1>2, <1>3, Zenon DEF GivesUpLate

LEMMA UnhurriedStep ==
  ASSUME q \in Queue, Unhurried(q, q')
  PROVE  q'.rto <= MaxRto /\ GivesUpLate /\ SlowsDown
  BY ThrownIsNotLimit, Zenon DEF Unhurried, SlowsDown

LEMMA PaceInvInit == Init => PaceInv
  <1> SUFFICES ASSUME Init PROVE PaceInv
    OBVIOUS
  <1>1. PICK n \in SeqNumbers : q = NewQueue(n)
    BY Zenon DEF Init
  <1>2. q.rto = InitialRto /\ q.retries = 0 /\ unanswered = 0
    BY <1>1, Zenon DEF NewQueue, Init
  <1>3. InitialRto <= MaxRto /\ 0 <= 0
    BY SMT
  <1> QED
    BY <1>2, <1>3, InitType, Zenon DEF PaceInv

LEMMA FireTimerPace ==
  ASSUME PaceInv, TypeOK', FireTimer
  PROVE  PaceInv' /\ GivesUpLate /\ SlowsDown
  <1>1. q \in Queue /\ q' \in Queue /\ q.rto <= MaxRto /\ unanswered \in Nat /\ unanswered' \in Nat
    BY Zenon DEF PaceInv, TypeOK
  <1>2. PICK age \in q.callbacks, outcome \in TimeoutOutcomes(q) : TimerFires(age, outcome)
    BY Zenon DEF FireTimer
  <1>3. /\ q' = TimerCallback(q, age, outcome)
        /\ unanswered' = IF Asked(outcome) THEN unanswered + 1 ELSE unanswered
    BY <1>2, Zenon DEF TimerFires
  <1>4. TimeoutPace(q, q', outcome)
    BY <1>1, <1>3, TimerCallbackPace
  <1>5. Live(q') => q'.retries <= unanswered'
    <2> SUFFICES ASSUME Live(q') PROVE q'.retries <= unanswered'
      OBVIOUS
    <2>1. q.retries <= unanswered /\ q.retries \in Nat /\ q'.retries \in Nat
      BY <1>1, <1>4, QueueFields, Zenon DEF TimeoutPace, PaceInv
    <2>2. CASE q'.retries = q.retries
      BY <1>1, <1>3, <2>1, <2>2, SMT
    <2>3. CASE /\ q'.retries = q.retries + 1
               /\ outcome \notin {"refused", "throws", "notCurrent"}
      <3>1. Asked(outcome)
        BY <2>1, <2>3, SMT DEF Asked
      <3> QED
        BY <1>1, <1>3, <2>1, <2>3, <3>1, SMT
    <2> QED
      BY <1>4, <2>2, <2>3 DEF TimeoutPace
  <1>6. GivesUpLate
    <2>1. CASE q'.failures = q.failures \/ q'.failures = Append(q.failures, "thrown")
      BY <1>1, <2>1, ThrownIsNotLimit
    <2>2. CASE q.retries >= MaxRetransmissions /\ Live(q)
      <3>1. q.retries <= unanswered /\ q.retries \in Nat
        BY <1>1, <2>2, QueueFields DEF PaceInv
      <3>2. unanswered >= MaxRetransmissions
        BY <1>1, <2>2, <3>1, SMT
      <3> QED
        BY <3>2 DEF GivesUpLate
    <2> QED
      BY <1>4, <2>1, <2>2, Zenon DEF TimeoutPace
  <1> QED
    BY <1>4, <1>5, <1>6, Zenon DEF PaceInv, SlowsDown, TimeoutPace

LEMMA PaceInvNext ==
  ASSUME PaceInv, [Next]_vars
  PROVE  PaceInv' /\ GivesUpLate /\ SlowsDown
  <1>1. /\ TypeOK' /\ q \in Queue /\ q.rto <= MaxRto
        /\ unanswered \in Nat /\ (Live(q) => q.retries <= unanswered)
    BY NextType, Zenon DEF PaceInv, TypeOK
  <1>2. 0 <= 0
    BY SMT
  \* What every step but a timeout has to show.
  <1>3. ASSUME Unhurried(q, q'), Live(q') => q'.retries <= unanswered'
        PROVE  PaceInv' /\ GivesUpLate /\ SlowsDown
    BY <1>1, <1>3, UnhurriedStep DEF PaceInv
  <1>4. ASSUME q'.rto = q.rto, q'.failures = q.failures, q'.retries = q.retries,
               Live(q') => Live(q), unanswered' = unanswered
        PROVE  PaceInv' /\ GivesUpLate /\ SlowsDown
    <2>1. q.rto >= q.rto
      BY <1>1, QueueFields, SMT
    <2>2. Unhurried(q, q')
      BY <1>1, <1>4, <2>1, Zenon DEF Unhurried
    <2> QED
      BY <1>1, <1>3, <1>4, <2>2
  <1>5. ASSUME NEW len \in 0 .. MaxPayload, NEW flags \in Flags, DoTrack(len, flags)
        PROVE  PaceInv' /\ GivesUpLate /\ SlowsDown
    <2>1. len \in Nat /\ q' = Track(q, len, flags) /\ unanswered' = unanswered
      BY <1>5, SMT DEF DoTrack
    <2>2. Calm(q, q')
      BY <1>1, <2>1, TrackCalm
    <2>3. q.rto >= q.rto
      BY <1>1, QueueFields, SMT
    <2> QED
      BY <1>1, <1>3, <2>1, <2>2, <2>3, Zenon DEF Calm, Unhurried
  <1>6. ASSUME NEW ack \in SeqNumbers, BeginAcknowledge(ack)
        PROVE  PaceInv' /\ GivesUpLate /\ SlowsDown
    <2>1. CASE AckStatus(q, ack) = "advanced"
      BY <1>4, <1>6, <2>1, Zenon DEF BeginAcknowledge
    <2>2. CASE AckStatus(q, ack) = "duplicate"
      <3>1. "duplicate" # "advanced"
        BY SMT
      <3>2. /\ q' = DuplicateAck(q)
            /\ unanswered' = IF Persisting(q) THEN 0 ELSE unanswered
        BY <1>6, <2>2, <3>1, Zenon DEF BeginAcknowledge
      <3>3. /\ Unhurried(q, q') /\ (Live(q') <=> Live(q))
            /\ IF Persisting(q) THEN q'.retries = 0 ELSE q' = q
        BY <1>1, <3>2, DuplicateAckPace
      <3> QED
        BY <1>1, <1>2, <1>3, <3>2, <3>3, Zenon
    <2>3. CASE AckStatus(q, ack) # "advanced" /\ AckStatus(q, ack) # "duplicate"
      BY <1>4, <1>6, <2>3, Zenon DEF BeginAcknowledge
    <2> QED
      BY <2>1, <2>2, <2>3
  <1>7. CASE PopSegment
    <2>1. /\ q'.rto = q.rto /\ q'.failures = q.failures /\ q'.retries = q.retries
          /\ q'.modes = q.modes /\ unanswered' = unanswered
      BY <1>1, <1>7, Zenon DEF PopSegment, Queue
    <2> QED
      BY <1>4, <2>1, Zenon DEF Live, Closed, Exhausted
  <1>8. CASE TrimSegment
    <2>1. /\ q'.rto = q.rto /\ q'.failures = q.failures /\ q'.retries = q.retries
          /\ q'.modes = q.modes /\ unanswered' = unanswered
      BY <1>1, <1>8, Zenon DEF TrimSegment, Queue
    <2> QED
      BY <1>4, <2>1, Zenon DEF Live, Closed, Exhausted
  <1>9. CASE EndAcknowledge
    <2>1. q' = FinishAck(q, call.ack) /\ unanswered' = 0 /\ call.ack \in SeqNumbers
      BY <1>9, CallFields, Zenon DEF EndAcknowledge, PaceInv
    <2>2. Unhurried(q, q') /\ q'.retries = 0
      BY <1>1, <2>1, FinishAckPace
    <2> QED
      BY <1>2, <1>3, <2>1, <2>2
  <1>10. ASSUME NEW outcome \in EmitOutcomes, DoFastRetransmit(outcome)
         PROVE  PaceInv' /\ GivesUpLate /\ SlowsDown
    <2>1. q' = FastRetransmit(q, outcome) /\ unanswered' = unanswered
      BY <1>10, Zenon DEF DoFastRetransmit
    <2>2. Unhurried(q, q') /\ q'.retries = q.retries /\ (Live(q') => Live(q))
      BY <1>1, <2>1, FastRetransmitPace
    <2> QED
      BY <1>1, <1>3, <2>1, <2>2
  <1>11. ASSUME NEW enabled \in BOOLEAN, NEW outcome \in EmitOutcomes,
                DoSetPersist(enabled, outcome)
         PROVE  PaceInv' /\ GivesUpLate /\ SlowsDown
    <2>1. /\ q' = SetPersist(q, enabled, outcome)
          /\ unanswered' = IF Live(q) /\ Persisting(q) # enabled THEN 0 ELSE unanswered
      BY <1>11, Zenon DEF DoSetPersist
    <2>2. /\ Unhurried(q, q')
          /\ IF ~Live(q) \/ Persisting(q) = enabled THEN q' = q ELSE q'.retries = 0
      BY <1>1, <2>1, SetPersistPace
    <2> QED
      BY <1>1, <1>2, <1>3, <2>1, <2>2, Zenon
  <1>12. CASE FireTimer
    BY <1>1, <1>12, FireTimerPace
  <1>13. CASE DoClose
    <2>1. q' = Close(q) /\ unanswered' = unanswered
      BY <1>13, Zenon DEF DoClose
    <2>2. Calm(q, q') /\ ~Live(q')
      BY <1>1, <2>1, CloseCalm
    <2>3. q.rto >= q.rto
      BY <1>1, QueueFields, SMT
    <2> QED
      BY <1>1, <1>3, <2>2, <2>3, Zenon DEF Calm, Unhurried
  <1>14. CASE PeerGoesSilent
    BY <1>4, <1>14, Zenon DEF PeerGoesSilent
  <1>15. CASE UNCHANGED vars
    BY <1>4, <1>15, Zenon DEF vars
  <1> QED
    BY <1>5, <1>6, <1>7, <1>8, <1>9, <1>10, <1>11, <1>12, <1>13, <1>14, <1>15, Zenon DEF Next

\* A connection is given up for silence only after maxRetransmissions sends that
\* left the relay and that the VM never answered, for every limit: what the websocket
\* refused is taken back, and every answer starts the count again (handleTimeout).
THEOREM GivesUpOnlyOnSilence == Spec => NoPrematureGiveUp
  <1>1. Spec => []PaceInv
    BY PaceInvInit, PaceInvNext, PTL DEF Spec
  <1>2. PaceInv /\ [Next]_vars => GivesUpLate
    BY PaceInvNext
  <1>3. PaceInv /\ [Next]_vars =>
          [q'.failures # q.failures /\ q'.failures[Len(q'.failures)] = "limit"
             => unanswered >= MaxRetransmissions]_vars
    BY <1>2 DEF GivesUpLate
  <1> QED
    BY <1>1, <1>3, PTL DEF Spec, NoPrematureGiveUp

\* While the window stays closed the time between two probes never becomes shorter,
\* in every range of timeouts (currentRtoMs in acknowledge and handleTimeout).
THEOREM PersistSlowsDown == Spec => ProbesOnlySlowDown
  <1>1. Spec => []PaceInv
    BY PaceInvInit, PaceInvNext, PTL DEF Spec
  <1>2. PaceInv /\ [Next]_vars => SlowsDown
    BY PaceInvNext
  <1>3. PaceInv /\ [Next]_vars =>
          [Persisting(q) /\ Persisting(q') => q'.rto >= q.rto]_vars
    BY <1>2 DEF SlowsDown
  <1> QED
    BY <1>1, <1>3, PTL DEF Spec, ProbesOnlySlowDown
-----------------------------------------------------------------------------
(* The invariant: between sndUna, or the number the loop of acknowledge()  *)
(* has reached, and sndNxt the segments lie end to end.                    *)

CallSound ==
  /\ ~Closed(q)
  /\ call.remaining <= Unacked
  /\ call.data + q.inFlight = call.before.inFlight
  /\ SequenceDistance(call.ack, q.una) \in 1 .. Outstanding(q)

DataInv ==
  /\ TypeOK
  /\ Sound(q, LoopPosition)
  /\ call # Idle => CallSound

LEMMA DataInvInit == Init => DataInv
  <1> SUFFICES ASSUME Init PROVE DataInv
    OBVIOUS
  <1>1. PICK n \in SeqNumbers : q = NewQueue(n)
    BY Zenon DEF Init
  <1>2. q.una = n /\ q.nxt = n /\ q.segs = <<>> /\ q.inFlight = 0 /\ call = Idle
    BY <1>1, Zenon DEF NewQueue, Init
  <1>3. SequenceDistance(n, n) = 0 /\ 0 < Half
    BY NoDistance, SMT
  <1>4. Len(<<>>) = 0 /\ 1 .. 0 = {} /\ 1 .. 0 - 1 = {}
    BY SMT
  <1>5. Consistent(<<>>) /\ Laid(<<>>, n, n)
    BY <1>4, Zenon DEF Consistent, Laid
  <1>6. Sound(q, n)
    BY <1>2, <1>3, <1>5, EmptyPayload, Zenon DEF Sound, Outstanding
  <1> QED
    BY <1>2, <1>6, InitType, Zenon DEF DataInv, LoopPosition

\* A step outside acknowledge() that leaves the queue sound.
LEMMA IdleStep ==
  ASSUME TypeOK', call' = Idle, Sound(q', q'.una)
  PROVE  DataInv'
  BY Zenon DEF DataInv, LoopPosition

LEMMA IdleSound ==
  ASSUME DataInv, call = Idle
  PROVE  q \in Queue /\ Sound(q, q.una)
  BY Zenon DEF DataInv, LoopPosition, TypeOK

LEMMA KeepsData ==
  ASSUME DataInv, TypeOK', call = Idle, call' = Idle, Keeps(q, q')
  PROVE  DataInv'
  <1>1. Sound(q', q.una)
    BY IdleSound, KeepsSound
  <1>2. q'.una = q.una
    BY Zenon DEF Keeps, SameData, Emptied
  <1> QED
    BY <1>1, <1>2, IdleStep

LEMMA TrackData ==
  ASSUME DataInv, TypeOK', NEW len \in 0 .. MaxPayload, NEW flags \in Flags, DoTrack(len, flags)
  PROVE  DataInv'
  <1>1. len \in Nat /\ SequenceLength(len, flags) # 0
    BY SMT DEF DoTrack
  <1>2. /\ call = Idle /\ call' = Idle /\ ~Closed(q) /\ q' = Track(q, len, flags)
        /\ SequenceLength(len, flags) > 0 /\ Outstanding(q) + SequenceLength(len, flags) < Half
    BY Zenon DEF DoTrack, Room, Live
  <1>3. q \in Queue /\ Sound(q, q.una)
    BY <1>2, IdleSound
  <1>4. Tracked(q, q', len, flags)
    BY <1>1, <1>2, <1>3, TrackTracked
  <1>5. Sound(q', q'.una)
    BY <1>1, <1>2, <1>3, <1>4, TrackedSound
  <1> QED
    BY <1>2, <1>5, IdleStep

LEMMA FireTimerData ==
  ASSUME DataInv, TypeOK', FireTimer
  PROVE  DataInv'
  <1>1. PICK age \in q.callbacks, outcome \in TimeoutOutcomes(q) :
          /\ outcome = "byte" => Room(1)
          /\ outcome = "fin" => Room(1)
          /\ TimerFires(age, outcome)
    BY Zenon DEF FireTimer
  <1>2. call = Idle /\ call' = Idle /\ q' = TimerCallback(q, age, outcome)
    BY <1>1, Zenon DEF TimerFires
  <1>3. q \in Queue /\ Sound(q, q.una)
    BY <1>2, IdleSound
  <1>4. TimeoutEffect(q, q', outcome)
    BY <1>2, <1>3, TimerCallbackEffect
  <1>5. CASE Keeps(q, q')
    BY <1>2, <1>5, KeepsData
  <1>6. SequenceLength(1, {}) > 0 /\ SequenceLength(0, {"fin"}) > 0
    BY ProbeSegments, SMT
  <1>7. CASE ~Closed(q) /\ outcome = "byte" /\ Tracked(q, q', 1, {})
    <2>1. Outstanding(q) + SequenceLength(1, {}) < Half
      BY <1>1, <1>7, ProbeSegments DEF Room
    <2>2. Sound(q', q'.una)
      BY <1>3, <1>6, <1>7, <2>1, ProbeSegments, TrackedSound
    <2> QED
      BY <1>2, <2>2, IdleStep
  <1>8. CASE ~Closed(q) /\ outcome = "fin" /\ Tracked(q, q', 0, {"fin"})
    <2>1. Outstanding(q) + SequenceLength(0, {"fin"}) < Half
      BY <1>1, <1>8, ProbeSegments DEF Room
    <2>2. Sound(q', q'.una)
      BY <1>3, <1>6, <1>8, <2>1, ProbeSegments, TrackedSound
    <2> QED
      BY <1>2, <2>2, IdleStep
  <1> QED
    BY <1>4, <1>5, <1>7, <1>8 DEF TimeoutEffect

LEMMA BeginAcknowledgeData ==
  ASSUME DataInv, TypeOK', NEW ack \in SeqNumbers, BeginAcknowledge(ack)
  PROVE  DataInv'
  <1>1. call = Idle /\ q \in Queue /\ Sound(q, q.una) /\ ~Closed(q)
    BY IdleSound, Zenon DEF BeginAcknowledge
  <1>2. CASE AckStatus(q, ack) = "advanced"
    <2> DEFINE advance == SequenceDistance(ack, q.una)
    <2>1. /\ q' = q
          /\ call' = [pc |-> "acking", ack |-> ack, data |-> 0, before |-> q,
                      remaining |-> advance]
      BY <1>2, Zenon DEF BeginAcknowledge
    <2>2. /\ call'.pc = "acking" /\ call'.ack = ack /\ call'.data = 0 /\ call'.before = q
          /\ call'.remaining = advance
      BY <2>1, Zenon
    <2>3. call' # Idle
      BY <2>2, AckingIsNotIdle
    <2>4. /\ q.una \in SeqNumbers /\ q.nxt \in SeqNumbers /\ q.inFlight \in Int
          /\ advance \in SeqNumbers /\ Outstanding(q) \in SeqNumbers
      BY <1>1, QueueFields, DistanceType DEF Outstanding
    <2>5. advance # 0 /\ ~ (advance > Outstanding(q))
      BY <1>2, SMT DEF AckStatus
    <2>6. advance \in 1 .. Outstanding(q)
      <3> HIDE DEF advance
      <3> QED
        BY <2>4, <2>5, SMT DEF SeqNumbers, SeqSpace
    <2>7. (ack - advance) % SeqSpace = q.una
      <3>1. advance = IF ack >= q.una THEN ack - q.una ELSE ack - q.una + SeqSpace
        BY <2>4, DistanceCases
      <3>2. (ack - advance) % SeqSpace =
              IF ack >= advance THEN ack - advance ELSE ack - advance + SeqSpace
        BY <2>4, DistanceCases DEF SequenceDistance
      <3> HIDE DEF advance
      <3> QED
        BY <2>4, <3>1, <3>2, SeqSpaceType, SMTT(20) DEF SeqNumbers
    <2> HIDE DEF advance
    <2>8. LoopPosition' = q'.una /\ q'.una = q.una
      BY <2>1, <2>2, <2>3, <2>7, Zenon DEF LoopPosition
    <2>9. Sound(q', q'.una)
      BY <1>1, <2>1
    <2>10. CallSound'
      <3>1. Unacked' = Outstanding(q)
        BY <2>1, <2>8, Zenon DEF Unacked, Outstanding
      <3>2. call'.remaining <= Unacked'
        BY <2>2, <2>4, <2>6, <3>1, SMT DEF SeqNumbers, SeqSpace
      <3>3. call'.data + q'.inFlight = call'.before.inFlight
        BY <2>1, <2>2, <2>4, SMT
      <3> QED
        BY <1>1, <2>1, <2>2, <2>6, <3>2, <3>3, Zenon DEF CallSound, advance
    <2> QED
      BY <2>3, <2>8, <2>9, <2>10, Zenon DEF DataInv
  <1>3. CASE AckStatus(q, ack) # "advanced"
    <2>1. call' = Idle /\ (q' = DuplicateAck(q) \/ q' = q)
      BY <1>1, <1>3, Zenon DEF BeginAcknowledge
    <2>2. Keeps(q, q')
      BY <1>1, <2>1, DuplicateAckSame, KeepsReflexive, Zenon DEF Keeps
    <2> QED
      BY <1>1, <2>1, <2>2, KeepsData
  <1> QED
    BY <1>2, <1>3

\* Where the loop is, and what of the sequence space is still ahead of it.
LEMMA LoopIs ==
  ASSUME DataInv, call # Idle
  PROVE  /\ q \in Queue /\ Sound(q, LoopPosition) /\ CallSound
         /\ LoopPosition = (call.ack - call.remaining) % SeqSpace
         /\ LoopPosition \in SeqNumbers /\ call.remaining \in SeqNumbers
         /\ call.ack \in SeqNumbers /\ call.data \in Nat /\ call.before \in Queue
         /\ Unacked = SequenceDistance(q.nxt, LoopPosition)
         /\ Unacked \in SeqNumbers /\ Unacked < Half /\ call.remaining <= Unacked
         /\ Consistent(q.segs) /\ Laid(q.segs, LoopPosition, q.nxt)
         /\ HasPayload(q.segs, q.inFlight)
  <1>1. /\ q \in Queue /\ Sound(q, LoopPosition) /\ CallSound
        /\ LoopPosition = (call.ack - call.remaining) % SeqSpace
        /\ call.ack \in SeqNumbers /\ call.data \in Nat /\ call.before \in Queue
        /\ call.remaining \in Nat
        /\ Unacked = SequenceDistance(q.nxt, LoopPosition)
    BY CallFields, Zenon DEF DataInv, TypeOK, LoopPosition, Unacked
  <1>2. /\ Unacked < Half /\ call.remaining <= Unacked
        /\ Consistent(q.segs) /\ Laid(q.segs, LoopPosition, q.nxt)
        /\ HasPayload(q.segs, q.inFlight)
    BY <1>1, Zenon DEF Sound, CallSound
  <1>3. LoopPosition \in SeqNumbers
    <2>1. call.ack - call.remaining \in Int
      BY <1>1, SMT DEF SeqNumbers, SeqSpace
    <2> QED
      BY <1>1, <2>1, ModType, Zenon
  <1>4. q.nxt \in SeqNumbers
    BY <1>1, QueueFields
  <1>5. Unacked \in SeqNumbers
    BY <1>1, <1>3, <1>4, DistanceType
  <1>6. call.remaining \in SeqNumbers
    BY <1>1, <1>2, <1>5, SeqSpaceType, SMT DEF SeqNumbers
  <1> QED
    BY <1>1, <1>2, <1>3, <1>5, <1>6

LEMMA PopSegmentData ==
  ASSUME DataInv, TypeOK', PopSegment
  PROVE  DataInv'
  <1> DEFINE s == Head(q.segs)
             k == s.size
             pos == LoopPosition
             to == (pos + k) % SeqSpace
  <1>1. call # Idle /\ HasOutstanding(q) /\ call.remaining >= k
    BY Zenon DEF PopSegment
  <1>2. /\ q \in Queue /\ Sound(q, pos) /\ CallSound
        /\ pos = (call.ack - call.remaining) % SeqSpace
        /\ pos \in SeqNumbers /\ call.remaining \in SeqNumbers
        /\ call.ack \in SeqNumbers /\ call.data \in Nat /\ call.before \in Queue
        /\ Unacked = SequenceDistance(q.nxt, pos)
        /\ Unacked \in SeqNumbers /\ Unacked < Half /\ call.remaining <= Unacked
        /\ Consistent(q.segs) /\ Laid(q.segs, pos, q.nxt)
        /\ HasPayload(q.segs, q.inFlight)
    BY <1>1, LoopIs
  <1>3. /\ q' = [q EXCEPT !.segs = Tail(@), !.inFlight = @ - s.len]
        /\ call' = [call EXCEPT !.remaining = @ - k, !.data = @ + s.len]
    BY Zenon DEF PopSegment
  <1> HIDE DEF pos
  <1>4. /\ q.segs \in Seq(Segment) /\ q.segs # <<>> /\ s = q.segs[1] /\ s \in Segment
        /\ 1 \in 1 .. Len(q.segs)
    <2>1. /\ q.segs \in Seq(Segment) /\ q.segs # <<>> /\ s = q.segs[1] /\ s \in Segment
          /\ Len(q.segs) \in Nat \ {0}
      BY <1>1, <1>2, HeadType, QueueFields DEF HasOutstanding
    <2> QED
      BY <2>1, SMT
  <1>5. s.len \in Nat /\ s.size \in Int /\ s.size > 0 /\ k \in Nat
    <2>1. s.len \in Nat /\ s.size \in Int
      BY <1>4, SegmentFields
    <2>2. s.size > 0
      BY <1>2, <1>4, ConsistentIs, Zenon DEF Describes
    <2> QED
      BY <2>1, <2>2, SMT
  <1>6. /\ q'.una = q.una /\ q'.nxt = q.nxt /\ q'.segs = Tail(q.segs)
        /\ q'.inFlight = q.inFlight - s.len /\ q'.modes = q.modes
    BY <1>2, <1>3, Zenon DEF Queue
  <1>7. /\ call'.pc = "acking" /\ call'.ack = call.ack /\ call'.before = call.before
        /\ call'.remaining = call.remaining - k /\ call'.data = call.data + s.len
    BY <1>1, <1>3, CallFields, Zenon DEF AckCall, DataInv
  <1>8. call' # Idle
    BY <1>7, AckingIsNotIdle
  <1>9. q.nxt \in SeqNumbers /\ q.inFlight \in Int
    BY <1>2, QueueFields
  <1>10. Laid(Tail(q.segs), to, q.nxt) /\ k <= Unacked
    BY <1>2, <1>4, <1>5, <1>9, TailLaid
  <1>11. k \in 0 .. call.remaining /\ k \in 0 .. Unacked
    BY <1>1, <1>2, <1>5, <1>10, SMT DEF SeqNumbers, SeqSpace
  <1>12. LoopPosition' = to
    <2>1. LoopPosition' = (call.ack - (call.remaining - k)) % SeqSpace
      BY <1>7, <1>8, Zenon DEF LoopPosition
    <2>2. call.ack \in SeqNumbers /\ call.remaining \in SeqNumbers /\ k \in 0 .. call.remaining
      BY <1>2, <1>11
    <2> HIDE DEF k
    <2>3. (call.ack - (call.remaining - k)) % SeqSpace
            = (((call.ack - call.remaining) % SeqSpace) + k) % SeqSpace
      BY <2>2, MovedBack
    <2> QED
      BY <1>2, <2>1, <2>3, Zenon
  <1>13. SequenceDistance(q.nxt, to) = Unacked - k
    BY <1>2, <1>9, <1>11, MovedPosition
  <1> HIDE DEF to
  <1>14. Sound(q', LoopPosition')
    <2>1. Outstanding(q') < Half
      BY <1>2, <1>6, Zenon DEF Sound, Outstanding
    <2>2. SequenceDistance(q'.nxt, to) < Half
      BY <1>2, <1>5, <1>6, <1>13, SMT DEF SeqNumbers, SeqSpace
    <2>3. HasPayload(q'.segs, q'.inFlight)
      BY <1>2, <1>4, <1>6, <1>9, TailPayload
    <2>4. Consistent(q'.segs) /\ Laid(q'.segs, to, q'.nxt)
      BY <1>2, <1>4, <1>6, <1>10, TailConsistent
    <2> QED
      BY <1>12, <2>1, <2>2, <2>3, <2>4, Zenon DEF Sound
  <1>15. CallSound'
    <2>1. ~Closed(q')
      BY <1>2, <1>6, Zenon DEF CallSound, Closed
    <2>2. Unacked' = Unacked - k
      BY <1>6, <1>12, <1>13, Zenon DEF Unacked
    <2>3. call'.remaining <= Unacked'
      BY <1>2, <1>5, <1>7, <2>2, SMT DEF SeqNumbers, SeqSpace
    <2>4. call'.data + q'.inFlight = call'.before.inFlight
      <3>1. call.data + q.inFlight = call.before.inFlight
        BY <1>2 DEF CallSound
      <3> QED
        BY <1>2, <1>5, <1>6, <1>7, <1>9, <3>1, SMT
    <2>5. SequenceDistance(call'.ack, q'.una) \in 1 .. Outstanding(q')
      BY <1>2, <1>6, <1>7, Zenon DEF CallSound, Outstanding
    <2> QED
      BY <2>1, <2>3, <2>4, <2>5, Zenon DEF CallSound
  <1> QED
    BY <1>14, <1>15, Zenon DEF DataInv

LEMMA TrimSegmentData ==
  ASSUME DataInv, TypeOK', TrimSegment
  PROVE  DataInv'
  <1> DEFINE s == Head(q.segs)
             k == call.remaining
             data == ConsumedData(s, k)
             left == ConsumeSegmentPrefix(s, k)
             pos == LoopPosition
             to == (pos + k) % SeqSpace
  <1>1. call # Idle /\ HasOutstanding(q) /\ k > 0 /\ k < s.size
    BY Zenon DEF TrimSegment
  <1>2. /\ q \in Queue /\ Sound(q, pos) /\ CallSound
        /\ pos = (call.ack - k) % SeqSpace
        /\ pos \in SeqNumbers /\ k \in SeqNumbers
        /\ call.ack \in SeqNumbers /\ call.data \in Nat /\ call.before \in Queue
        /\ Unacked = SequenceDistance(q.nxt, pos)
        /\ Unacked \in SeqNumbers /\ Unacked < Half /\ k <= Unacked
        /\ Consistent(q.segs) /\ Laid(q.segs, pos, q.nxt)
        /\ HasPayload(q.segs, q.inFlight)
    BY <1>1, LoopIs
  <1>3. /\ q' = [q EXCEPT !.segs = [@ EXCEPT ![1] = left], !.inFlight = @ - data]
        /\ call' = [call EXCEPT !.remaining = 0, !.data = @ + data]
    BY Zenon DEF TrimSegment
  <1> HIDE DEF pos
  <1>4. /\ q.segs \in Seq(Segment) /\ q.segs # <<>> /\ s = q.segs[1] /\ s \in Segment
        /\ 1 \in 1 .. Len(q.segs)
    <2>1. /\ q.segs \in Seq(Segment) /\ q.segs # <<>> /\ s = q.segs[1] /\ s \in Segment
          /\ Len(q.segs) \in Nat \ {0}
      BY <1>1, <1>2, HeadType, QueueFields DEF HasOutstanding
    <2> QED
      BY <2>1, SMT
  <1>5. /\ q'.una = q.una /\ q'.nxt = q.nxt /\ q'.segs = [q.segs EXCEPT ![1] = left]
        /\ q'.inFlight = q.inFlight - data /\ q'.modes = q.modes
    BY <1>2, <1>3, Zenon DEF Queue
  <1>6. /\ call'.pc = "acking" /\ call'.ack = call.ack /\ call'.before = call.before
        /\ call'.remaining = 0 /\ call'.data = call.data + data
    BY <1>1, <1>3, CallFields, Zenon DEF AckCall, DataInv
  <1>7. call' # Idle
    BY <1>6, AckingIsNotIdle
  <1>8. q.nxt \in SeqNumbers /\ q.inFlight \in Int
    BY <1>2, QueueFields
  <1>9. s.len \in Nat /\ s.size \in Int /\ Describes(s)
    BY <1>2, <1>4, SegmentFields, ConsistentIs, Zenon
  <1>10. k \in Nat \ {0} /\ k \in Nat
    BY <1>1, <1>2, SMT DEF SeqNumbers, SeqSpace
  <1>11. s.size < Half
    <2>1. EndsAt(q.segs, pos, 1) <= Unacked /\ At(q.segs, pos, 1) = 0
      BY <1>2, <1>4, Zenon DEF Laid
    <2>2. EndsAt(q.segs, pos, 1) = 0 + s.size
      BY <1>4, <2>1, Zenon DEF EndsAt
    <2> QED
      BY <1>2, <1>9, <2>1, <2>2, SMT DEF SeqNumbers, SeqSpace
  <1>12. /\ Describes(left) /\ left.seq = (s.seq + k) % SeqSpace
         /\ left.size = s.size - k /\ left.len = s.len - data
    BY <1>1, <1>4, <1>9, <1>10, <1>11, PrefixDescribes, Zenon
  <1>13. left \in Segment /\ data \in Int
    <2>1. left \in Segment /\ data \in 0 .. s.len
      BY <1>4, <1>10, ConsumeSegmentPrefixType, ConsumedBounds
    <2> HIDE DEF data, left
    <2> QED
      BY <2>1, SMT
  <1> HIDE DEF left, data, s
  <1>14. Laid([q.segs EXCEPT ![1] = left], to, q.nxt)
    BY <1>1, <1>2, <1>4, <1>8, <1>10, <1>12, <1>13, HeadLaid
  <1>15. k \in 0 .. k /\ k \in 0 .. Unacked /\ k - k = 0 /\ call.ack - 0 = call.ack
    BY <1>2, <1>10, SMT DEF SeqNumbers, SeqSpace
  <1>16. LoopPosition' = to
    <2>1. LoopPosition' = (call.ack - 0) % SeqSpace
      BY <1>6, <1>7, Zenon DEF LoopPosition
    <2>2. call.ack \in SeqNumbers /\ k \in SeqNumbers
      BY <1>2
    <2> HIDE DEF k
    <2>3. k \in 0 .. k
      BY <1>15, Zenon
    <2>4. (call.ack - (k - k)) % SeqSpace = (((call.ack - k) % SeqSpace) + k) % SeqSpace
      BY <2>2, <2>3, MovedBack, Zenon
    <2>5. (call.ack - (k - k)) % SeqSpace = to
      BY <1>2, <2>4, Zenon
    <2>6. call.ack - (k - k) = call.ack - 0
      BY <1>15, Zenon
    <2> QED
      BY <2>1, <2>5, <2>6, Zenon
  <1>17. SequenceDistance(q.nxt, to) = Unacked - k
    <2> HIDE DEF k
    <2>1. q.nxt \in SeqNumbers /\ pos \in SeqNumbers /\ k \in 0 .. SequenceDistance(q.nxt, pos)
      BY <1>2, <1>8, <1>15, Zenon
    <2> QED
      BY <1>2, <2>1, MovedPosition, Zenon
  <1> HIDE DEF to, k
  <1>18. Sound(q', LoopPosition')
    <2>1. Outstanding(q') < Half
      BY <1>2, <1>5, Zenon DEF Sound, Outstanding
    <2>2. SequenceDistance(q'.nxt, to) < Half
      BY <1>2, <1>5, <1>10, <1>17, SMT DEF SeqNumbers, SeqSpace
    <2>3. HasPayload(q'.segs, q'.inFlight)
      <3>1. left.len = q.segs[1].len - data
        BY <1>4, <1>12, Zenon
      <3>2. HasPayload([q.segs EXCEPT ![1] = left], q.inFlight - data)
        BY <1>2, <1>4, <1>8, <1>13, <3>1, HeadPayload, Zenon
      <3> QED
        BY <1>5, <3>2, Zenon
    <2>4. Consistent(q'.segs) /\ Laid(q'.segs, to, q'.nxt)
      BY <1>2, <1>4, <1>5, <1>12, <1>13, <1>14, HeadConsistent, Zenon
    <2> QED
      BY <1>16, <2>1, <2>2, <2>3, <2>4, Zenon DEF Sound
  <1>19. CallSound'
    <2>1. ~Closed(q')
      BY <1>2, <1>5, Zenon DEF CallSound, Closed
    <2>2. Unacked' = Unacked - k
      BY <1>5, <1>16, <1>17, Zenon DEF Unacked
    <2>3. call'.remaining <= Unacked'
      BY <1>2, <1>6, <1>10, <2>2, SMT DEF SeqNumbers, SeqSpace
    <2>4. call'.data + q'.inFlight = call'.before.inFlight
      <3>1. call.data + q.inFlight = call.before.inFlight
        BY <1>2 DEF CallSound
      <3> QED
        BY <1>2, <1>5, <1>6, <1>8, <1>13, <3>1, SMT
    <2>5. SequenceDistance(call'.ack, q'.una) \in 1 .. Outstanding(q')
      BY <1>2, <1>5, <1>6, Zenon DEF CallSound, Outstanding
    <2> QED
      BY <2>1, <2>3, <2>4, <2>5, Zenon DEF CallSound
  <1> QED
    BY <1>18, <1>19, Zenon DEF DataInv

LEMMA EndAcknowledgeData ==
  ASSUME DataInv, TypeOK', EndAcknowledge
  PROVE  DataInv'
  <1>1. /\ call # Idle /\ call.remaining = 0 /\ call' = Idle /\ q' = FinishAck(q, call.ack)
    BY Zenon DEF EndAcknowledge
  <1>2. /\ q \in Queue /\ Sound(q, LoopPosition) /\ call.ack \in SeqNumbers
        /\ LoopPosition = (call.ack - call.remaining) % SeqSpace
        /\ Unacked = SequenceDistance(q.nxt, LoopPosition) /\ Unacked < Half
    BY <1>1, LoopIs
  <1>3. LoopPosition = call.ack
    <2>1. LoopPosition = (call.ack - 0) % SeqSpace
      BY <1>1, <1>2
    <2> QED
      BY <1>2, <2>1, SeqSpaceType, SMT DEF SeqNumbers
  <1>4. /\ q'.una = call.ack /\ q'.nxt = q.nxt /\ q'.segs = q.segs /\ q'.inFlight = q.inFlight
        /\ Closed(q') <=> Closed(q)
    BY <1>1, <1>2, FinishAckData
  <1>5. Sound(q', q'.una)
    BY <1>2, <1>3, <1>4, Zenon DEF Sound, Outstanding
  <1> QED
    BY <1>1, <1>5, IdleStep

LEMMA DataInvNext == DataInv /\ [Next]_vars => DataInv'
  <1> SUFFICES ASSUME DataInv, [Next]_vars PROVE DataInv'
    OBVIOUS
  <1>1. TypeOK /\ TypeOK' /\ q \in Queue
    BY NextType, Zenon DEF DataInv, TypeOK
  <1>2. ASSUME NEW len \in 0 .. MaxPayload, NEW flags \in Flags, DoTrack(len, flags)
        PROVE  DataInv'
    BY <1>1, <1>2, TrackData
  <1>3. ASSUME NEW ack \in SeqNumbers, BeginAcknowledge(ack)
        PROVE  DataInv'
    BY <1>1, <1>3, BeginAcknowledgeData
  <1>4. CASE PopSegment
    BY <1>1, <1>4, PopSegmentData
  <1>5. CASE TrimSegment
    BY <1>1, <1>5, TrimSegmentData
  <1>6. CASE EndAcknowledge
    BY <1>1, <1>6, EndAcknowledgeData
  <1>7. ASSUME NEW outcome \in EmitOutcomes, DoFastRetransmit(outcome)
        PROVE  DataInv'
    BY <1>1, <1>7, FastRetransmitKeeps, KeepsData, Zenon DEF DoFastRetransmit
  <1>8. ASSUME NEW enabled \in BOOLEAN, NEW outcome \in EmitOutcomes,
               DoSetPersist(enabled, outcome)
        PROVE  DataInv'
    BY <1>1, <1>8, SetPersistKeeps, KeepsData, Zenon DEF DoSetPersist
  <1>9. CASE FireTimer
    BY <1>1, <1>9, FireTimerData
  <1>10. CASE DoClose
    BY <1>1, <1>10, CloseKeeps, KeepsData, Zenon DEF DoClose
  <1>11. CASE PeerGoesSilent
    BY <1>1, <1>11, KeepsReflexive, KeepsData, Zenon DEF PeerGoesSilent
  <1>12. CASE UNCHANGED vars
    BY <1>1, <1>12, Zenon DEF DataInv, CallSound, LoopPosition, Unacked, vars
  <1> QED
    BY <1>2, <1>3, <1>4, <1>5, <1>6, <1>7, <1>8, <1>9, <1>10, <1>11, <1>12, Zenon DEF Next
-----------------------------------------------------------------------------
(* What the invariant says of the queue.                                   *)

LEMMA DataInvTiled == DataInv => Tiled
  <1> SUFFICES ASSUME DataInv PROVE Tiled
    OBVIOUS
  <1>1. q \in Queue /\ Sound(q, LoopPosition)
    BY Zenon DEF DataInv, TypeOK
  <1>2. q.segs \in Seq(Segment) /\ q.nxt \in SeqNumbers /\ HasPayload(q.segs, q.inFlight)
    BY <1>1, QueueFields DEF Sound
  <1>3. q.inFlight = PayloadBytes(q.segs)
    BY <1>2, PayloadIs
  <1>4. ASSUME ~Closed(q) PROVE SegmentsConsistent
    <2>1. Consistent(q.segs)
      BY <1>1, <1>4, Zenon DEF Sound
    <2> QED
      BY <2>1, Zenon DEF Consistent, SegmentsConsistent
  <1>5. ASSUME ~Closed(q) PROVE SegmentsAdjacent
    <2>1. Laid(q.segs, LoopPosition, q.nxt)
      BY <1>1, <1>4, <1>5, Zenon DEF Sound
    <2>2. \A i \in 1 .. Len(q.segs) : /\ Offset(i) = At(q.segs, LoopPosition, i)
                                     /\ EndOffset(i) = EndsAt(q.segs, LoopPosition, i)
      BY Zenon DEF Offset, EndOffset, At, EndsAt
    <2>3. q.segs # <<>> => 1 \in 1 .. Len(q.segs) /\ Len(q.segs) \in 1 .. Len(q.segs)
      BY <1>2, SMT
    <2>4. \A i \in 1 .. Len(q.segs) - 1 : i \in 1 .. Len(q.segs) /\ i + 1 \in 1 .. Len(q.segs)
      BY <1>2, SMT
    <2>5. q.segs = <<>> => Unacked = 0
      BY <1>2, <2>1, NoDistance, Zenon DEF Laid, Unacked
    <2>6. q.segs # <<>> => Offset(1) = 0 /\ EndOffset(Len(q.segs)) = Unacked
      BY <2>1, <2>2, <2>3, Zenon DEF Laid, Unacked
    <2>7. \A i \in 1 .. Len(q.segs) - 1 : EndOffset(i) = Offset(i + 1)
      BY <2>1, <2>2, <2>4, Zenon DEF Laid
    <2> QED
      BY <2>5, <2>6, <2>7, Zenon DEF SegmentsAdjacent
  <1>6. call # Idle => call.data + q.inFlight = call.before.inFlight
    BY Zenon DEF DataInv, CallSound
  <1> QED
    BY <1>3, <1>4, <1>5, <1>6, Zenon DEF Tiled

LEMMA DataInvNeverThrows == DataInv => AckNeverThrows
  <1> SUFFICES ASSUME DataInv, call # Idle, call.remaining > 0
               PROVE  /\ HasOutstanding(q)
                      /\ call.remaining < Head(q.segs).size
                           => ConsumesExactly(Head(q.segs), call.remaining)
    BY Zenon DEF AckNeverThrows
  <1> DEFINE pos == LoopPosition
  <1>1. /\ q \in Queue /\ pos \in SeqNumbers /\ call.remaining \in SeqNumbers
        /\ Unacked = SequenceDistance(q.nxt, pos)
        /\ Unacked \in SeqNumbers /\ Unacked < Half /\ call.remaining <= Unacked
        /\ Consistent(q.segs) /\ Laid(q.segs, pos, q.nxt)
    BY LoopIs
  <1>2. q.segs \in Seq(Segment) /\ q.nxt \in SeqNumbers
    BY <1>1, QueueFields
  <1>3. HasOutstanding(q)
    <2>1. Unacked # 0
      BY <1>1, SMT DEF SeqNumbers, SeqSpace
    <2>2. q.segs = <<>> => Unacked = 0
      BY <1>1, <1>2, NoDistance, Zenon DEF Laid
    <2> QED
      BY <2>1, <2>2 DEF HasOutstanding
  <1> DEFINE s == Head(q.segs)
  <1>4. s = q.segs[1] /\ s \in Segment /\ 1 \in 1 .. Len(q.segs) /\ s.size \in Int
    <2>1. s = q.segs[1] /\ s \in Segment /\ Len(q.segs) \in Nat \ {0}
      BY <1>1, <1>3, HeadType
    <2> QED
      BY <2>1, SegmentFields, SMT
  <1>5. Describes(s)
    BY <1>1, <1>4, ConsistentIs, Zenon
  <1>6. s.size < Half
    <2>1. EndsAt(q.segs, pos, 1) <= Unacked /\ At(q.segs, pos, 1) = 0
      BY <1>1, <1>3, <1>4, Zenon DEF Laid, HasOutstanding
    <2>2. EndsAt(q.segs, pos, 1) = 0 + s.size
      BY <1>4, <2>1, Zenon DEF EndsAt
    <2> QED
      BY <1>1, <1>4, <2>1, <2>2, SMT DEF SeqNumbers, SeqSpace
  <1>7. call.remaining \in Nat \ {0}
    BY <1>1, SMT DEF SeqNumbers, SeqSpace
  <1>8. call.remaining < s.size => ConsumesExactly(s, call.remaining)
    BY <1>4, <1>5, <1>6, <1>7, PrefixDescribes, Zenon
  <1> QED
    BY <1>3, <1>8

\* In every sequence space and for every sequence of tracks, acknowledgements,
\* timeouts and closes: the segments held are the numbers from sndUna to sndNxt in
\* order, each with its bytes, also in the middle of acknowledge()'s loop, and
\* payloadBytesInFlight is their payload (track, acknowledge, consumeSegmentPrefix).
THEOREM DataIsTiled == Spec => []Tiled
  <1>1. Spec => []DataInv
    BY DataInvInit, DataInvNext, PTL DEF Spec
  <1> QED
    BY <1>1, DataInvTiled, PTL

\* Neither throw of acknowledge() and consumeSegmentPrefix can happen, whatever
\* the VM acknowledges: the loop finds a segment as long as numbers remain, and
\* takes all of them from it.
THEOREM NeverThrows == Spec => []AckNeverThrows
  <1>1. Spec => []DataInv
    BY DataInvInit, DataInvNext, PTL DEF Spec
  <1> QED
    BY <1>1, DataInvNeverThrows, PTL
-----------------------------------------------------------------------------
(* The queue implements SendWindow: initial state to initial state, and    *)
(* every step to a step of the window or to none.                          *)

window == <<q.una, q.nxt, ~Closed(q)>>

LEMMA WindowNumbers == Window!Mod = SeqSpace /\ Window!Numbers = SeqNumbers
  BY Zenon DEF Window!Mod, Window!Numbers, SeqSpace, SeqNumbers

LEMMA WindowInit == Init => Window!Init
  <1> SUFFICES ASSUME Init PROVE Window!Init
    OBVIOUS
  <1>1. PICK n \in SeqNumbers : q = NewQueue(n)
    BY Zenon DEF Init
  <1>2. q.una = n /\ q.nxt = n /\ q.modes = {}
    BY <1>1, Zenon DEF NewQueue
  <1>3. ~Closed(q)
    BY <1>2, Zenon DEF Closed
  <1> QED
    BY <1>2, <1>3, WindowNumbers, Zenon DEF Window!Init

LEMMA KeepsWindow ==
  ASSUME Keeps(q, q')
  PROVE  [Window!Next]_window
  <1>1. CASE SameData(q, q')
    <2>1. (~Closed(q')) = (~Closed(q))
      BY <1>1, Zenon DEF SameData, Closed
    <2> QED
      BY <1>1, <2>1, Zenon DEF SameData, window
  <1>2. CASE Emptied(q, q') /\ Closed(q)
    <2>1. (~Closed(q')) = (~Closed(q))
      BY <1>2, Zenon DEF Emptied, Closed
    <2> QED
      BY <1>2, <2>1, Zenon DEF Emptied, window
  <1>3. CASE Emptied(q, q') /\ ~Closed(q)
    <2>1. Window!Close
      BY <1>3, Zenon DEF Emptied, Window!Close
    <2> QED
      BY <2>1, Zenon DEF Window!Next
  <1> QED
    BY <1>1, <1>2, <1>3 DEF Keeps

LEMMA TrackedWindow ==
  ASSUME q \in Queue, ~Closed(q), NEW len, NEW flags, Tracked(q, q', len, flags),
         SequenceLength(len, flags) \in Nat \ {0},
         Outstanding(q) + SequenceLength(len, flags) < Half
  PROVE  [Window!Next]_window
  <1> DEFINE n == SequenceLength(len, flags)
  <1>1. Outstanding(q) \in Nat
    <2>1. Outstanding(q) \in SeqNumbers
      BY QueueFields, DistanceType DEF Outstanding
    <2> QED
      BY <2>1, SMT DEF SeqNumbers, SeqSpace
  <1>2. n \in 1 .. Half - 1
    BY <1>1, SMT
  <1>3. Window!InUse = Outstanding(q)
    BY WindowNumbers, Zenon DEF Window!InUse, Outstanding, SequenceDistance
  <1>4. (~Closed(q')) = (~Closed(q))
    BY Zenon DEF Tracked, Closed
  <1>5. Window!Send(n)
    BY <1>3, <1>4, WindowNumbers, Zenon DEF Tracked, Window!Send
  <1> HIDE DEF n
  <1> QED
    BY <1>2, <1>5, Zenon DEF Window!Next

LEMMA EndAcknowledgeWindow ==
  ASSUME DataInv, EndAcknowledge
  PROVE  [Window!Next]_window
  <1> DEFINE n == SequenceDistance(call.ack, q.una)
  <1>1. call # Idle /\ q' = FinishAck(q, call.ack)
    BY Zenon DEF EndAcknowledge
  <1>2. q \in Queue /\ call.ack \in SeqNumbers /\ CallSound /\ Sound(q, LoopPosition)
    BY <1>1, LoopIs
  <1>3. q'.una = call.ack /\ q'.nxt = q.nxt /\ (Closed(q') <=> Closed(q)) /\ ~Closed(q)
    BY <1>1, <1>2, FinishAckData DEF CallSound
  <1>4. n \in 1 .. Outstanding(q) /\ Outstanding(q) < Half
    BY <1>2, Zenon DEF CallSound, Sound
  <1>5. /\ q.una \in SeqNumbers /\ q.nxt \in SeqNumbers /\ n \in SeqNumbers
        /\ Outstanding(q) \in SeqNumbers
        /\ n = IF call.ack >= q.una THEN call.ack - q.una ELSE call.ack - q.una + SeqSpace
    BY <1>2, QueueFields, DistanceType, DistanceCases DEF Outstanding
  <1> HIDE DEF n
  <1>6. n \in 1 .. Half - 1 /\ n <= Outstanding(q) /\ n \in 0 .. SeqSpace
    BY <1>4, <1>5, SeqSpaceType, SMT DEF SeqNumbers, SeqSpace
  <1>7. (q.una + n) % SeqSpace = call.ack
    <2>1. (q.una + n) % SeqSpace =
            IF q.una + n >= SeqSpace THEN q.una + n - SeqSpace ELSE q.una + n
      BY <1>5, <1>6, MovedType
    <2> QED
      BY <1>2, <1>5, <2>1, SeqSpaceType, SMTT(20) DEF SeqNumbers
  <1>8. Window!InUse = Outstanding(q)
    BY WindowNumbers, Zenon DEF Window!InUse, Outstanding, SequenceDistance
  <1>9. (~Closed(q')) = (~Closed(q))
    BY <1>3, Zenon DEF Closed
  <1>10. Window!Acknowledge(n)
    BY <1>3, <1>6, <1>7, <1>8, <1>9, WindowNumbers, Zenon DEF Window!Acknowledge
  <1> QED
    BY <1>6, <1>10, Zenon DEF Window!Next

LEMMA WindowNext == DataInv /\ [Next]_vars => [Window!Next]_window
  <1> SUFFICES ASSUME DataInv, [Next]_vars PROVE [Window!Next]_window
    OBVIOUS
  <1>1. q \in Queue
    BY Zenon DEF DataInv, TypeOK
  <1>2. ASSUME q' = q PROVE [Window!Next]_window
    BY <1>2, KeepsReflexive, KeepsWindow
  <1>3. ASSUME NEW len \in 0 .. MaxPayload, NEW flags \in Flags, DoTrack(len, flags)
        PROVE  [Window!Next]_window
    <2>1. len \in Nat /\ SequenceLength(len, flags) \in Nat
      BY SMT DEF SequenceLength, Flag
    <2>2. SequenceLength(len, flags) # 0 /\ SequenceLength(len, flags) \in Nat \ {0}
      BY <1>3, <2>1, SMT DEF DoTrack
    <2>3. /\ ~Closed(q) /\ q' = Track(q, len, flags)
          /\ Outstanding(q) + SequenceLength(len, flags) < Half
      BY <1>3, Zenon DEF DoTrack, Room, Live
    <2>4. Tracked(q, q', len, flags)
      BY <1>1, <2>1, <2>2, <2>3, TrackTracked
    <2> QED
      BY <1>1, <2>2, <2>3, <2>4, TrackedWindow
  <1>4. ASSUME NEW ack \in SeqNumbers, BeginAcknowledge(ack)
        PROVE  [Window!Next]_window
    <2>1. q' = q \/ q' = DuplicateAck(q)
      BY <1>4, Zenon DEF BeginAcknowledge
    <2>2. Keeps(q, q')
      BY <1>1, <2>1, DuplicateAckSame, KeepsReflexive, Zenon DEF Keeps
    <2> QED
      BY <2>2, KeepsWindow
  <1>5. ASSUME q'.una = q.una, q'.nxt = q.nxt, q'.modes = q.modes
        PROVE  [Window!Next]_window
    BY <1>5, Zenon DEF window, Closed
  <1>6. CASE PopSegment
    BY <1>1, <1>5, <1>6, Zenon DEF PopSegment, Queue
  <1>7. CASE TrimSegment
    BY <1>1, <1>5, <1>7, Zenon DEF TrimSegment, Queue
  <1>8. CASE EndAcknowledge
    BY <1>8, EndAcknowledgeWindow
  <1>9. ASSUME NEW outcome \in EmitOutcomes, DoFastRetransmit(outcome)
        PROVE  [Window!Next]_window
    BY <1>1, <1>9, FastRetransmitKeeps, KeepsWindow, Zenon DEF DoFastRetransmit
  <1>10. ASSUME NEW enabled \in BOOLEAN, NEW outcome \in EmitOutcomes,
                DoSetPersist(enabled, outcome)
         PROVE  [Window!Next]_window
    BY <1>1, <1>10, SetPersistKeeps, KeepsWindow, Zenon DEF DoSetPersist
  <1>11. CASE FireTimer
    <2>1. PICK age \in q.callbacks, outcome \in TimeoutOutcomes(q) :
            /\ outcome = "byte" => Room(1)
            /\ outcome = "fin" => Room(1)
            /\ TimerFires(age, outcome)
      BY <1>11, Zenon DEF FireTimer
    <2>2. TimeoutEffect(q, q', outcome)
      BY <1>1, <2>1, TimerCallbackEffect, Zenon DEF TimerFires
    <2>3. /\ SequenceLength(1, {}) = 1 /\ SequenceLength(0, {"fin"}) = 1
          /\ 1 \in Nat \ {0}
      BY ProbeSegments, SMT
    <2>4. CASE Keeps(q, q')
      BY <2>4, KeepsWindow
    <2>5. CASE ~Closed(q) /\ outcome = "byte" /\ Tracked(q, q', 1, {})
      BY <1>1, <2>1, <2>3, <2>5, TrackedWindow, Zenon DEF Room
    <2>6. CASE ~Closed(q) /\ outcome = "fin" /\ Tracked(q, q', 0, {"fin"})
      BY <1>1, <2>1, <2>3, <2>6, TrackedWindow, Zenon DEF Room
    <2> QED
      BY <2>2, <2>4, <2>5, <2>6 DEF TimeoutEffect
  <1>12. CASE DoClose
    BY <1>1, <1>12, CloseKeeps, KeepsWindow, Zenon DEF DoClose
  <1>13. CASE PeerGoesSilent
    BY <1>2, <1>13, Zenon DEF PeerGoesSilent
  <1>14. CASE UNCHANGED vars
    BY <1>2, <1>14, Zenon DEF vars
  <1> QED
    BY <1>3, <1>4, <1>6, <1>7, <1>8, <1>9, <1>10, <1>11, <1>12, <1>13, <1>14, Zenon DEF Next

\* What the rest of a connection may assume of its queue, for every sequence space:
\* sndUna only ever moves over numbers that were sent, sndNxt over new ones, less
\* than half of the space is in use, and after close() neither moves again.
THEOREM QueueIsSendWindow == Spec => ImplementsSendWindow
  <1>1. Spec => []DataInv
    BY DataInvInit, DataInvNext, PTL DEF Spec
  <1>2. DataInv /\ [Next]_vars => [Window!Next]_<<q.una, q.nxt, ~Closed(q)>>
    BY WindowNext DEF window
  <1> QED
    BY <1>1, <1>2, WindowInit, PTL DEF Spec, ImplementsSendWindow, Window!Spec
-----------------------------------------------------------------------------
(* The loop of acknowledge() against Acknowledge: what it has dropped so   *)
(* far is a front of the segments the call began with, all of it covered.  *)

\* What acknowledge() has checked before its loop.
Accepted(b, ack) ==
  b \in Queue /\ ~Closed(b) /\ Sound(b, b.una) /\ ack \in SeqNumbers /\ AckStatus(b, ack) = "advanced"

Advance(b, ack) == SequenceDistance(ack, b.una)

\* The first n segments are gone, and left numbers are still to go.
Dropped(segs, b, ack, left, n) ==
  /\ \A i \in 1 .. n : EndsAt(b.segs, b.una, i) <= Advance(b, ack)
  /\ left = Advance(b, ack) - Reach(b.segs, b.una, n)
  /\ segs = Suffix(b.segs, n)

Trimmed(segs, b, ack, left) == left = 0 /\ segs = Unacknowledged(b, ack)

LEMMA AcceptedFields ==
  ASSUME NEW b, NEW ack, Accepted(b, ack)
  PROVE  /\ b.segs \in Seq(Segment) /\ b.una \in SeqNumbers /\ b.nxt \in SeqNumbers
         /\ Consistent(b.segs) /\ Laid(b.segs, b.una, b.nxt)
         /\ Len(b.segs) \in Nat /\ Advance(b, ack) \in Nat
         /\ \A n \in 0 .. Len(b.segs) : Reach(b.segs, b.una, n) \in Nat
         /\ \A n \in 0 .. Len(b.segs) :
              n < Len(b.segs) =>
                /\ b.segs[n + 1] \in Segment /\ b.segs[n + 1].size \in Nat \ {0}
                /\ At(b.segs, b.una, n + 1) = Reach(b.segs, b.una, n)
                /\ EndsAt(b.segs, b.una, n + 1) = Reach(b.segs, b.una, n) + b.segs[n + 1].size
                /\ Reach(b.segs, b.una, n + 1) = Reach(b.segs, b.una, n) + b.segs[n + 1].size
  <1>1. /\ b.segs \in Seq(Segment) /\ b.una \in SeqNumbers /\ b.nxt \in SeqNumbers
        /\ Consistent(b.segs) /\ Laid(b.segs, b.una, b.nxt) /\ ack \in SeqNumbers
    BY QueueFields DEF Accepted, Sound
  <1>2. Len(b.segs) \in Nat
    BY <1>1
  <1>3. Advance(b, ack) \in Nat /\ SequenceDistance(b.nxt, b.una) \in Nat
    <2>1. Advance(b, ack) \in SeqNumbers /\ SequenceDistance(b.nxt, b.una) \in SeqNumbers
      BY <1>1, DistanceType DEF Advance
    <2>2. \A n \in SeqNumbers : n \in Nat
      BY SMT DEF SeqNumbers
    <2> QED
      BY <2>1, <2>2
  <1>4. ASSUME NEW n \in 0 .. Len(b.segs)
        PROVE  Reach(b.segs, b.una, n) \in Nat
    <2>1. Reach(b.segs, b.una, n) \in 0 .. SequenceDistance(b.nxt, b.una)
      BY <1>1, ReachType
    <2> QED
      BY <1>3, <2>1, SMT
  <1>5. ASSUME NEW n \in 0 .. Len(b.segs), n < Len(b.segs)
        PROVE  /\ b.segs[n + 1] \in Segment /\ b.segs[n + 1].size \in Nat \ {0}
               /\ At(b.segs, b.una, n + 1) = Reach(b.segs, b.una, n)
               /\ EndsAt(b.segs, b.una, n + 1) = Reach(b.segs, b.una, n) + b.segs[n + 1].size
               /\ Reach(b.segs, b.una, n + 1) = Reach(b.segs, b.una, n) + b.segs[n + 1].size
    BY <1>1, <1>5, ReachType DEF EndsAt
  <1> QED
    BY <1>1, <1>2, <1>3, <1>4, <1>5

\* The next segment reaches further: the loop stops where WholeSegments says.
LEMMA DroppedIsWhole ==
  ASSUME NEW b, NEW ack, Accepted(b, ack), NEW n \in 0 .. Len(b.segs),
         \A i \in 1 .. n : EndsAt(b.segs, b.una, i) <= Advance(b, ack),
         n < Len(b.segs) => ~(EndsAt(b.segs, b.una, n + 1) <= Advance(b, ack))
  PROVE  WholeSegments(b, ack) = n
  <1> DEFINE m == WholeSegments(b, ack)
             Covered(i) == EndsAt(b.segs, b.una, i) <= Advance(b, ack)
  <1>1. Cut(b.segs, b.una, Advance(b, ack), m)
    BY WholeSegmentsCut DEF Accepted, Advance
  <1>2. m \in 0 .. Len(b.segs) /\ (\A i \in 1 .. m : Covered(i)) /\ (m < Len(b.segs) => ~Covered(m + 1))
    BY <1>1 DEF Cut
  <1>3. (\A i \in 1 .. n : Covered(i)) /\ (n < Len(b.segs) => ~Covered(n + 1))
    OBVIOUS
  <1>4. Len(b.segs) \in Nat
    BY AcceptedFields
  <1> HIDE DEF m, Covered
  <1>5. CASE m < n
    <2>1. m + 1 \in 1 .. n /\ m < Len(b.segs)
      BY <1>2, <1>4, <1>5, SMT
    <2> QED
      BY <1>2, <1>3, <2>1
  <1>6. CASE n < m
    <2>1. n + 1 \in 1 .. m /\ n < Len(b.segs)
      BY <1>2, <1>4, <1>6, SMT
    <2> QED
      BY <1>2, <1>3, <2>1
  <1>7. m < n \/ n < m \/ m = n
    BY <1>2, SMT
  <1> QED
    BY <1>5, <1>6, <1>7 DEF m

\* Of the segments that remain the first is where the loop is.
LEMMA FirstLeft ==
  ASSUME NEW b, NEW ack, Accepted(b, ack), NEW n \in 0 .. Len(b.segs),
         WholeSegments(b, ack) = n
  PROVE  LET rest == Suffix(b.segs, n)
             prefix == Advance(b, ack) - Reach(b.segs, b.una, n)
         IN Unacknowledged(b, ack) = IF rest # <<>> /\ prefix > 0
                                     THEN [rest EXCEPT ![1] = ConsumeSegmentPrefix(@, prefix)]
                                     ELSE rest
  <1> DEFINE rest == Suffix(b.segs, n)
  <1>1. Unacknowledged(b, ack) =
          LET prefix == Advance(b, ack) - SequenceDistance(rest[1].seq, b.una)
          IN IF rest # <<>> /\ prefix > 0
             THEN [rest EXCEPT ![1] = ConsumeSegmentPrefix(@, prefix)]
             ELSE rest
    BY DEF Unacknowledged, Suffix, Advance
  <1>2. /\ b.segs \in Seq(Segment) /\ Len(b.segs) \in Nat
    BY AcceptedFields
  <1>3. CASE n = Len(b.segs)
    <2>1. rest = <<>>
      BY <1>2, <1>3, SuffixTail
    <2> QED
      BY <1>1, <2>1
  <1>4. CASE n < Len(b.segs)
    <2>1. rest[1] = b.segs[n + 1]
      BY <1>2, <1>4, SuffixTail
    <2>2. At(b.segs, b.una, n + 1) = Reach(b.segs, b.una, n)
      BY <1>4, AcceptedFields
    <2>3. SequenceDistance(rest[1].seq, b.una) = Reach(b.segs, b.una, n)
      BY <2>1, <2>2 DEF At
    <2> HIDE DEF rest
    <2> QED
      BY <1>1, <2>3 DEF rest
  <1>5. n = Len(b.segs) \/ n < Len(b.segs)
    BY <1>2, SMT
  <1> QED
    BY <1>3, <1>4, <1>5

\* acknowledge() has touched nothing but the segments and their count.
OnlyData(p, b) == p = [b EXCEPT !.segs = p.segs, !.inFlight = p.inFlight]

LoopInv ==
  call # Idle =>
    /\ Accepted(call.before, call.ack) /\ OnlyData(q, call.before)
    /\ \/ \E n \in 0 .. Len(call.before.segs) :
             Dropped(q.segs, call.before, call.ack, call.remaining, n)
       \/ Trimmed(q.segs, call.before, call.ack, call.remaining)

LEMMA LoopBegins ==
  ASSUME DataInv, NEW ack \in SeqNumbers, BeginAcknowledge(ack)
  PROVE  LoopInv'
  <1> SUFFICES ASSUME call' # Idle PROVE LoopInv'
    BY DEF LoopInv
  <1>1. call = Idle /\ q \in Queue /\ Sound(q, q.una) /\ ~Closed(q)
    BY IdleSound, Zenon DEF BeginAcknowledge
  <1>2. /\ q' = q /\ AckStatus(q, ack) = "advanced"
        /\ call' = [pc |-> "acking", ack |-> ack, data |-> 0, before |-> q,
                    remaining |-> SequenceDistance(ack, q.una)]
    BY <1>1, Zenon DEF BeginAcknowledge
  <1>3. call'.before = q /\ call'.ack = ack /\ call'.remaining = Advance(q, ack)
    BY <1>2, Zenon DEF Advance
  <1>4. Accepted(q, ack)
    BY <1>1, <1>2 DEF Accepted
  <1>5. OnlyData(q, q)
    BY <1>1, Zenon DEF OnlyData, Queue
  <1>6. q.segs \in Seq(Segment) /\ Len(q.segs) \in Nat /\ Advance(q, ack) \in Nat
    BY <1>4, AcceptedFields
  <1>7. 0 \in 0 .. Len(q.segs) /\ 1 .. 0 = {} /\ Advance(q, ack) = Advance(q, ack) - 0
    BY <1>6, SMT
  <1>8. Dropped(q.segs, q, ack, Advance(q, ack), 0)
    <2>1. Reach(q.segs, q.una, 0) = 0 /\ Suffix(q.segs, 0) = q.segs
      BY <1>6, SuffixAll DEF Reach
    <2> QED
      BY <1>7, <2>1 DEF Dropped
  <1> QED
    BY <1>2, <1>3, <1>4, <1>5, <1>7, <1>8 DEF LoopInv

\* What is left to go decides which of the two the loop is in.
LEMMA StillDropping ==
  ASSUME LoopInv, call # Idle, call.remaining > 0
  PROVE  /\ Accepted(call.before, call.ack) /\ OnlyData(q, call.before)
         /\ \E n \in 0 .. Len(call.before.segs) :
              Dropped(q.segs, call.before, call.ack, call.remaining, n)
  <1>1. call.remaining # 0
    BY SMT
  <1> QED
    BY <1>1 DEF LoopInv, Trimmed

LEMMA LoopPops ==
  ASSUME DataInv, LoopInv, PopSegment
  PROVE  LoopInv'
  <1> DEFINE b == call.before
             ack == call.ack
             s == Head(q.segs)
             segs == b.segs
             reach(m) == Reach(segs, b.una, m)
  <1>1. call # Idle /\ HasOutstanding(q) /\ call.remaining > 0 /\ call.remaining >= s.size
    BY DEF PopSegment
  <1>2. /\ q' = [q EXCEPT !.segs = Tail(@), !.inFlight = @ - s.len]
        /\ call' = [call EXCEPT !.remaining = @ - s.size, !.data = @ + s.len]
    BY Zenon DEF PopSegment
  <1>3. TypeOK /\ q \in Queue /\ q.segs # <<>>
    BY <1>1, Zenon DEF DataInv, TypeOK, HasOutstanding
  <1>4. Accepted(b, ack) /\ OnlyData(q, b)
    BY <1>1, StillDropping
  <1>5. PICK n \in 0 .. Len(segs) : Dropped(q.segs, b, ack, call.remaining, n)
    BY <1>1, StillDropping
  <1>6. call'.ack = ack /\ call'.before = b /\ call'.remaining = call.remaining - s.size
    BY <1>1, <1>2, <1>3, CallFields, Zenon DEF AckCall
  <1>7. q'.segs = Tail(q.segs) /\ OnlyData(q', b)
    <2>1. q'.segs = Tail(q.segs)
      BY <1>2, <1>3, Zenon DEF Queue
    <2>2. b \in Queue
      BY <1>4 DEF Accepted
    <2> QED
      BY <1>2, <1>3, <1>4, <2>1, <2>2, Zenon DEF OnlyData, Queue
  <1>8. segs \in Seq(Segment) /\ Len(segs) \in Nat /\ Advance(b, ack) \in Nat /\ n \in Nat
    BY <1>4, AcceptedFields
  <1>9. q.segs = Suffix(segs, n) /\ call.remaining = Advance(b, ack) - reach(n)
    BY <1>5 DEF Dropped
  <1>10. n < Len(segs)
    <2>1. n # Len(segs)
      BY <1>3, <1>8, <1>9, SuffixTail
    <2> QED
      BY <1>8, <2>1, SMT
  <1>11. q.segs[1] = segs[n + 1] /\ Tail(q.segs) = Suffix(segs, n + 1)
    BY <1>8, <1>9, <1>10, SuffixTail
  <1>12. s = segs[n + 1]
    BY <1>3, <1>11, HeadType, QueueFields
  <1>13. /\ s.size \in Nat \ {0} /\ reach(n) \in Nat /\ reach(n + 1) = reach(n) + s.size
         /\ EndsAt(segs, b.una, n + 1) = reach(n) + s.size
    BY <1>4, <1>10, <1>12, AcceptedFields
  <1> HIDE DEF reach, s, b, ack, segs
  <1>14. call'.remaining = Advance(b, ack) - reach(n + 1)
    BY <1>6, <1>8, <1>9, <1>13, SMT
  <1>15. EndsAt(segs, b.una, n + 1) <= Advance(b, ack)
    BY <1>1, <1>8, <1>9, <1>13, SMT
  <1>16. \A i \in 1 .. n + 1 : EndsAt(segs, b.una, i) <= Advance(b, ack)
    <2>1. \A i \in 1 .. n : EndsAt(segs, b.una, i) <= Advance(b, ack)
      BY <1>5 DEF Dropped, segs
    <2>2. \A i \in 1 .. n + 1 : i \in 1 .. n \/ i = n + 1
      BY <1>8, SMT
    <2> QED
      BY <1>15, <2>1, <2>2
  <1>17. n + 1 \in 0 .. Len(segs)
    BY <1>8, <1>10, SMT
  <1>18. Dropped(q'.segs, b, ack, call'.remaining, n + 1)
    BY <1>7, <1>11, <1>14, <1>16 DEF Dropped, segs, reach
  <1> QED
    BY <1>4, <1>6, <1>7, <1>17, <1>18 DEF LoopInv, segs

LEMMA LoopTrims ==
  ASSUME DataInv, LoopInv, TrimSegment
  PROVE  LoopInv'
  <1> DEFINE b == call.before
             ack == call.ack
             s == Head(q.segs)
             k == call.remaining
             data == ConsumedData(s, k)
             left == ConsumeSegmentPrefix(s, k)
             segs == b.segs
             reach(m) == Reach(segs, b.una, m)
  <1>1. call # Idle /\ HasOutstanding(q) /\ k > 0 /\ k < s.size
    BY DEF TrimSegment
  <1>2. /\ q' = [q EXCEPT !.segs = [@ EXCEPT ![1] = left], !.inFlight = @ - data]
        /\ call' = [call EXCEPT !.remaining = 0, !.data = @ + data]
    BY Zenon DEF TrimSegment
  <1>3. TypeOK /\ q \in Queue /\ q.segs # <<>>
    BY <1>1, Zenon DEF DataInv, TypeOK, HasOutstanding
  <1>4. Accepted(b, ack) /\ OnlyData(q, b)
    BY <1>1, StillDropping
  <1>5. PICK n \in 0 .. Len(segs) : Dropped(q.segs, b, ack, k, n)
    BY <1>1, StillDropping
  <1>6. call'.ack = ack /\ call'.before = b /\ call'.remaining = 0
    BY <1>1, <1>2, <1>3, CallFields, Zenon DEF AckCall
  <1>7. q'.segs = [q.segs EXCEPT ![1] = left] /\ OnlyData(q', b)
    <2>1. q'.segs = [q.segs EXCEPT ![1] = left]
      BY <1>2, <1>3, Zenon DEF Queue
    <2>2. b \in Queue
      BY <1>4 DEF Accepted
    <2> QED
      BY <1>2, <1>3, <1>4, <2>1, <2>2, Zenon DEF OnlyData, Queue
  <1>8. segs \in Seq(Segment) /\ Len(segs) \in Nat /\ Advance(b, ack) \in Nat /\ n \in Nat
    BY <1>4, AcceptedFields
  <1>9. q.segs = Suffix(segs, n) /\ k = Advance(b, ack) - reach(n)
    BY <1>5 DEF Dropped
  <1>10. n < Len(segs)
    <2>1. n # Len(segs)
      BY <1>3, <1>8, <1>9, SuffixTail
    <2> QED
      BY <1>8, <2>1, SMT
  <1>11. q.segs[1] = segs[n + 1]
    BY <1>8, <1>9, <1>10, SuffixTail
  <1>12. s = q.segs[1]
    BY <1>3, HeadType, QueueFields
  <1>13. s.size \in Nat \ {0} /\ reach(n) \in Nat /\ EndsAt(segs, b.una, n + 1) = reach(n) + s.size
    BY <1>4, <1>10, <1>11, <1>12, AcceptedFields
  <1>14. ~(EndsAt(segs, b.una, n + 1) <= Advance(b, ack))
    <2> HIDE DEF reach, s, b, ack, segs, k
    <2> QED
      BY <1>1, <1>8, <1>9, <1>13, SMT
  <1>15. \A i \in 1 .. n : EndsAt(segs, b.una, i) <= Advance(b, ack)
    BY <1>5 DEF Dropped
  <1>16. WholeSegments(b, ack) = n
    BY <1>4, <1>14, <1>15, DroppedIsWhole
  <1>17. Unacknowledged(b, ack) = [q.segs EXCEPT ![1] = left]
    <2>1. Unacknowledged(b, ack) = IF q.segs # <<>> /\ k > 0
                                   THEN [q.segs EXCEPT ![1] = ConsumeSegmentPrefix(@, k)]
                                   ELSE q.segs
      BY <1>4, <1>9, <1>16, FirstLeft
    <2> QED
      BY <1>1, <1>3, <1>12, <2>1
  <1> HIDE DEF b, ack
  <1>18. Trimmed(q'.segs, b, ack, call'.remaining)
    BY <1>6, <1>7, <1>17 DEF Trimmed
  <1> QED
    BY <1>4, <1>6, <1>7, <1>18 DEF LoopInv

LEMMA LoopEnds ==
  ASSUME DataInv, LoopInv, EndAcknowledge
  PROVE  q' = Acknowledge(call.before, call.ack)
  <1> DEFINE b == call.before
             ack == call.ack
  <1>1. call # Idle /\ call.remaining = 0 /\ q' = FinishAck(q, ack)
    BY DEF EndAcknowledge
  <1>2. Accepted(b, ack) /\ OnlyData(q, b)
    BY <1>1 DEF LoopInv
  <1>3. ASSUME NEW n \in 0 .. Len(b.segs), Dropped(q.segs, b, ack, 0, n)
        PROVE  q.segs = Unacknowledged(b, ack)
    <2>1. /\ Len(b.segs) \in Nat /\ Advance(b, ack) \in Nat /\ Reach(b.segs, b.una, n) \in Nat
      BY <1>2, AcceptedFields
    <2>2. /\ 0 = Advance(b, ack) - Reach(b.segs, b.una, n) /\ q.segs = Suffix(b.segs, n)
          /\ \A i \in 1 .. n : EndsAt(b.segs, b.una, i) <= Advance(b, ack)
      BY <1>3 DEF Dropped
    <2>3. ASSUME n < Len(b.segs) PROVE ~(EndsAt(b.segs, b.una, n + 1) <= Advance(b, ack))
      <3>1. /\ b.segs[n + 1].size \in Nat \ {0}
            /\ EndsAt(b.segs, b.una, n + 1) = Reach(b.segs, b.una, n) + b.segs[n + 1].size
        BY <1>2, <2>3, AcceptedFields
      <3> QED
        BY <2>1, <2>2, <3>1, SMT
    <2>4. WholeSegments(b, ack) = n
      BY <1>2, <2>2, <2>3, DroppedIsWhole
    <2>5. ~(Advance(b, ack) - Reach(b.segs, b.una, n) > 0)
      BY <2>2, SMT
    <2> QED
      BY <1>2, <2>2, <2>4, <2>5, FirstLeft
  <1>4. q.segs = Unacknowledged(b, ack)
    BY <1>1, <1>3 DEF LoopInv, Trimmed
  <1>5. PayloadBytes(q.segs) = q.inFlight
    <2>1. q \in Queue /\ HasPayload(q.segs, q.inFlight)
      BY <1>1, LoopIs
    <2> QED
      BY <2>1, QueueFields, PayloadIs
  <1>6. q = [b EXCEPT !.segs = Unacknowledged(b, ack), !.inFlight = PayloadBytes(Unacknowledged(b, ack))]
    BY <1>2, <1>4, <1>5 DEF OnlyData
  <1>7. Acknowledge(b, ack) =
          FinishAck([b EXCEPT !.segs = Unacknowledged(b, ack),
                              !.inFlight = PayloadBytes(Unacknowledged(b, ack))], ack)
    BY <1>2, Zenon DEF Acknowledge, Accepted
  <1> QED
    BY <1>1, <1>6, <1>7

LEMMA LoopInvInit == Init => LoopInv
  BY DEF Init, LoopInv

LEMMA LoopInvNext == DataInv /\ LoopInv /\ [Next]_vars => LoopInv'
  <1> SUFFICES ASSUME DataInv, LoopInv, [Next]_vars PROVE LoopInv'
    OBVIOUS
  <1>1. CASE call' = Idle
    BY <1>1 DEF LoopInv
  <1>2. ASSUME NEW ack \in SeqNumbers, BeginAcknowledge(ack) PROVE LoopInv'
    BY <1>2, LoopBegins
  <1>3. CASE PopSegment
    BY <1>3, LoopPops
  <1>4. CASE TrimSegment
    BY <1>4, LoopTrims
  <1>5. CASE UNCHANGED vars
    BY <1>5, Zenon DEF LoopInv, vars
  <1>6. CASE call = Idle /\ call' = call
    BY <1>1, <1>6
  <1> QED
    BY <1>1, <1>2, <1>3, <1>4, <1>5, <1>6, Zenon
    DEF Next, DoTrack, EndAcknowledge, DoFastRetransmit, DoSetPersist, FireTimer, TimerFires,
        DoClose, PeerGoesSilent

LEMMA LoopReturns ==
  ASSUME DataInv, LoopInv, [Next]_vars, call # Idle, call' = Idle
  PROVE  q' = Acknowledge(call.before, call.ack)
  <1>1. TypeOK
    BY DEF DataInv
  <1>2. CASE EndAcknowledge
    BY <1>2, LoopEnds
  <1>3. ASSUME PopSegment \/ TrimSegment PROVE FALSE
    <2>1. call.pc = "acking" /\ call \in AckCall
      BY <1>1, CallFields
    <2>2. call'.pc = "acking"
      BY <1>3, <2>1, Zenon DEF PopSegment, TrimSegment, AckCall
    <2> QED
      BY <2>2, AckingIsNotIdle
  <1>4. ASSUME call' = call PROVE FALSE
    BY <1>4
  <1> QED
    BY <1>2, <1>3, <1>4, Zenon
    DEF Next, DoTrack, BeginAcknowledge, DoFastRetransmit, DoSetPersist, FireTimer, TimerFires,
        DoClose, PeerGoesSilent, vars

\* The loop of acknowledge(), which drops segments one by one and cuts the last, comes to
\* what Acknowledge says in one step: the same segments, payload count, window and
\* timer, wherever the number falls and across the wraparound.  What TcpEgress uses in
\* place of the loop is therefore the loop.
THEOREM LoopIsAcknowledge == Spec => AckLoopCorrect
  <1>1. Spec => [](DataInv /\ LoopInv)
    BY DataInvInit, DataInvNext, LoopInvInit, LoopInvNext, PTL DEF Spec
  <1>2. DataInv /\ LoopInv /\ [Next]_vars =>
          [call # Idle /\ call' = Idle => q' = Acknowledge(call.before, call.ack)]_vars
    BY LoopReturns
  <1> QED
    BY <1>1, <1>2, PTL DEF Spec, AckLoopCorrect
=============================================================================
