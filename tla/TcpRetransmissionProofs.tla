------------------------ MODULE TcpRetransmissionProofs ------------------------
(***************************************************************************)
(* What the methods of the retransmission queue do to its types, its       *)
(* timer, its retries and its segments: lemmas about the operators of      *)
(* TcpRetransmission, for the modules that hold a queue.                   *)
(***************************************************************************)
EXTENDS TcpRetransmission, SequenceTheorems, NaturalsInduction, WellFoundedInduction, TLAPS

USE HalfAssumption, RtoAssumption, RetransmissionsAssumption
-----------------------------------------------------------------------------
(* Sequence arithmetic.                                                    *)

LEMMA SeqSpaceType == SeqSpace \in Nat \ {0} /\ Half \in Nat \ {0}
  BY SMT DEF SeqSpace

\* Every result of a reduction modulo the sequence space is a sequence number.
LEMMA ModType == \A x \in Int : x % SeqSpace \in SeqNumbers
  BY SeqSpaceType, SMTT(20) DEF SeqNumbers

\* sequenceDistance without the reduction: the difference, or once around.
LEMMA DistanceCases ==
  ASSUME NEW a \in SeqNumbers, NEW b \in SeqNumbers
  PROVE  SequenceDistance(a, b) = IF a >= b THEN a - b ELSE a - b + SeqSpace
  BY SeqSpaceType, SMTT(20) DEF SequenceDistance, SeqNumbers

LEMMA DistanceType ==
  ASSUME NEW a \in SeqNumbers, NEW b \in SeqNumbers
  PROVE  SequenceDistance(a, b) \in SeqNumbers
  BY SeqSpaceType, DistanceCases, SMTT(20) DEF SeqNumbers

\* A sum of two sequence numbers wraps at most once.
LEMMA WrapCases ==
  ASSUME NEW x \in 0 .. 2 * SeqSpace - 1
  PROVE  x % SeqSpace = IF x >= SeqSpace THEN x - SeqSpace ELSE x
  BY SeqSpaceType, SMTT(20)
-----------------------------------------------------------------------------
(* What the methods make of a queue is a queue.                            *)

LEMMA QueueFields ==
  ASSUME NEW p \in Queue
  PROVE  /\ p.una \in SeqNumbers /\ p.nxt \in SeqNumbers
         /\ p.segs \in Seq(Segment) /\ p.inFlight \in Int
         /\ p.rto \in Nat /\ p.retries \in Nat
         /\ p.timer \in Nat \cup {NoTimer} /\ p.callbacks \in SUBSET Nat
         /\ p.modes \in SUBSET {"persist", "closed", "exhausted"}
         /\ p.failures \in Seq({"limit", "thrown"})
  BY Zenon DEF Queue

LEMMA NextGenerationType ==
  ASSUME NEW p \in Queue
  PROVE  NextGeneration(p) \in Queue
  <1>1. {age + 1 : age \in p.callbacks} \in SUBSET Nat
    BY QueueFields, SMT
  <1>2. (IF p.timer = NoTimer THEN NoTimer ELSE p.timer + 1) \in Nat \cup {NoTimer}
    BY QueueFields, SMT DEF NoTimer
  <1> QED
    BY <1>1, <1>2, Zenon DEF NextGeneration, Queue

LEMMA ArmTimerType ==
  ASSUME NEW p \in Queue
  PROVE  ArmTimer(p) \in Queue
  <1> DEFINE older == NextGeneration(p)
  <1>1. older \in Queue
    BY NextGenerationType
  <1>2. older.callbacks \cup {0} \in SUBSET Nat /\ 0 \in Nat \cup {NoTimer}
    BY <1>1, QueueFields, SMT
  <1>3. [older EXCEPT !.callbacks = @ \cup {0}, !.timer = 0] \in Queue
    BY <1>1, <1>2, Zenon DEF Queue
  <1> QED
    BY <1>3, Zenon DEF ArmTimer

LEMMA ClearTimerType ==
  ASSUME NEW p \in Queue
  PROVE  ClearTimer(p) \in Queue
  <1> DEFINE older == NextGeneration(p)
  <1>1. older \in Queue
    BY NextGenerationType
  <1>2. older.callbacks \ {older.timer} \in SUBSET Nat
    BY <1>1, QueueFields, SMT
  <1> QED
    BY <1>1, <1>2, Zenon DEF ClearTimer, Queue

LEMMA BackoffType ==
  ASSUME NEW p \in Queue
  PROVE  Backoff(p) \in Queue
  <1>1. (IF 2 * p.rto < MaxRto THEN 2 * p.rto ELSE MaxRto) \in Nat
    BY QueueFields, SMT
  <1> QED
    BY <1>1, Zenon DEF Backoff, Queue

LEMMA ExhaustType ==
  ASSUME NEW p \in Queue, NEW error \in {"limit", "thrown"}
  PROVE  Exhaust(p, error) \in Queue
  <1> DEFINE cleared == ClearTimer(p)
  <1>1. cleared \in Queue
    BY ClearTimerType
  <1>2. /\ cleared.modes \cup {"exhausted"} \in SUBSET {"persist", "closed", "exhausted"}
        /\ Append(cleared.failures, error) \in Seq({"limit", "thrown"})
    BY <1>1, QueueFields, SMT
  <1> QED
    BY <1>1, <1>2, Zenon DEF Exhaust, Queue

LEMMA CloseType ==
  ASSUME NEW p \in Queue
  PROVE  Close(p) \in Queue
  <1> DEFINE cleared == ClearTimer(p)
  <1>1. cleared \in Queue
    BY ClearTimerType
  <1>2. (cleared.modes \ {"persist"}) \cup {"closed"} \in SUBSET {"persist", "closed", "exhausted"}
    BY <1>1, QueueFields, SMT
  <1>3. <<>> \in Seq(Segment) /\ 0 \in Int
    BY SMT
  <1> QED
    BY <1>1, <1>2, <1>3, Zenon DEF Close, Queue

LEMMA TrackType ==
  ASSUME NEW p \in Queue, NEW len \in Nat, NEW flags \in Flags
  PROVE  Track(p, len, flags) \in Queue
  <1> DEFINE size == SequenceLength(len, flags)
             segment == [seq |-> p.nxt, first |-> (p.nxt + Flag("syn", flags)) % SeqSpace,
                         len |-> len, size |-> size, flags |-> flags]
             tracked == [p EXCEPT !.segs = Append(@, segment), !.inFlight = @ + len,
                                  !.nxt = (@ + size) % SeqSpace]
  <1>1. size \in Nat /\ Flag("syn", flags) \in Nat
    BY SMT DEF SequenceLength, Flag
  <1>2. p.nxt \in SeqNumbers /\ p.nxt \in Int
    BY QueueFields, SMT DEF SeqNumbers, SeqSpace
  <1>3. (p.nxt + Flag("syn", flags)) % SeqSpace \in SeqNumbers
    BY <1>1, <1>2, ModType, SMT
  <1>4. (p.nxt + size) % SeqSpace \in SeqNumbers
    BY <1>1, <1>2, ModType, SMT
  <1>5. segment \in Segment
    BY <1>1, <1>2, <1>3, SMT DEF Segment
  <1>6. Append(p.segs, segment) \in Seq(Segment) /\ p.inFlight + len \in Int
    BY <1>5, QueueFields, SMT
  <1>7. tracked \in Queue
    BY <1>4, <1>6, Zenon DEF Queue
  <1>8. ArmTimer(tracked) \in Queue
    BY <1>7, ArmTimerType
  <1> QED
    BY <1>7, <1>8, Zenon DEF Track

LEMMA EmitRetransmissionType ==
  ASSUME NEW p \in Queue, NEW outcome \in EmitOutcomes
  PROVE  EmitRetransmission(p, outcome) \in Queue
  BY CloseType, ExhaustType DEF EmitRetransmission, EmitOutcomes

LEMMA FastRetransmitType ==
  ASSUME NEW p \in Queue, NEW outcome \in EmitOutcomes
  PROVE  FastRetransmit(p, outcome) \in Queue
  <1> DEFINE cleared == ClearTimer([p EXCEPT !.rto = InitialRto])
  <1>1. InitialRto \in Nat
    BY SMT
  <1>2. [p EXCEPT !.rto = InitialRto] \in Queue
    BY <1>1, Zenon DEF Queue
  <1>3. cleared \in Queue
    BY <1>2, ClearTimerType
  <1> HIDE DEF cleared
  <1>4. EmitRetransmission(cleared, outcome) \in Queue
    BY <1>3, EmitRetransmissionType
  <1>5. ArmTimer(EmitRetransmission(cleared, outcome)) \in Queue
    BY <1>4, ArmTimerType
  <1> QED
    BY <1>4, <1>5, Zenon DEF FastRetransmit, cleared

LEMMA SetPersistType ==
  ASSUME NEW p \in Queue, NEW enabled \in BOOLEAN, NEW outcome \in EmitOutcomes
  PROVE  SetPersist(p, enabled, outcome) \in Queue
  <1> DEFINE cleared == ClearTimer(p)
             reset == [cleared EXCEPT
                         !.modes = IF enabled THEN @ \cup {"persist"} ELSE @ \ {"persist"},
                         !.rto = InitialRto, !.retries = 0]
  <1>1. cleared \in Queue
    BY ClearTimerType
  <1>2. (IF enabled THEN cleared.modes \cup {"persist"} ELSE cleared.modes \ {"persist"})
          \in SUBSET {"persist", "closed", "exhausted"}
    BY <1>1, QueueFields, SMT
  <1>3. InitialRto \in Nat /\ 0 \in Nat
    BY SMT
  <1>4. reset \in Queue
    BY <1>1, <1>2, <1>3, Zenon DEF Queue
  <1> HIDE DEF reset
  <1>5. EmitRetransmission(reset, outcome) \in Queue
    BY <1>4, EmitRetransmissionType
  <1>6. /\ ArmTimer(EmitRetransmission(reset, outcome)) \in Queue
        /\ ArmTimer(reset) \in Queue
    BY <1>4, <1>5, ArmTimerType
  <1> QED
    BY <1>6, Zenon DEF SetPersist, reset

LEMMA ProbeType ==
  ASSUME NEW p \in Queue, p.retries > 0, NEW r \in Queue, NEW outcome \in ProbeOutcomes(r)
  PROVE  Probe(p, outcome) \in Queue
  <1>1. p.retries - 1 \in Nat
    BY QueueFields, SMT
  <1>2. [p EXCEPT !.retries = @ - 1] \in Queue
    BY <1>1, Zenon DEF Queue
  <1>3. 1 \in Nat /\ 0 \in Nat /\ {} \in Flags /\ {"fin"} \in Flags
    BY SMT DEF Flags
  <1>4. /\ Track(p, 1, {}) \in Queue
        /\ Track(p, 0, {"fin"}) \in Queue
    BY <1>3, TrackType
  <1>5. Close(p) \in Queue /\ Exhaust(p, "thrown") \in Queue
    BY CloseType, ExhaustType
  <1>6. outcome \in {"sent", "refused", "byte", "fin", "notCurrent", "throws"}
    BY Zenon DEF ProbeOutcomes
  <1> QED
    BY <1>2, <1>4, <1>5, <1>6, Zenon DEF Probe

LEMMA CountedType ==
  ASSUME NEW p \in Queue
  PROVE  /\ [p EXCEPT !.retries = @ + 1] \in Queue
         /\ [p EXCEPT !.retries = @ + 1].retries > 0
  <1>1. p.retries + 1 \in Nat /\ p.retries + 1 > 0
    BY QueueFields, SMT
  <1>2. [p EXCEPT !.retries = @ + 1] \in Queue
    BY <1>1, Zenon DEF Queue
  <1>3. [p EXCEPT !.retries = @ + 1].retries = p.retries + 1
    BY Zenon DEF Queue
  <1> QED
    BY <1>1, <1>2, <1>3

LEMMA HandleTimeoutType ==
  ASSUME NEW p \in Queue, NEW r \in Queue, Persisting(r) <=> Persisting(p),
         NEW outcome \in TimeoutOutcomes(r)
  PROVE  HandleTimeout(p, outcome) \in Queue
  <1> DEFINE counted == [p EXCEPT !.retries = @ + 1]
  <1>1. counted \in Queue /\ counted.retries > 0
    BY CountedType
  <1> HIDE DEF counted
  <1>2. Exhaust(p, "limit") \in Queue
    BY ExhaustType
  <1>3. CASE Persisting(p)
    <2>1. outcome \in ProbeOutcomes(r)
      BY <1>3, Zenon DEF TimeoutOutcomes
    <2>2. Probe(counted, outcome) \in Queue
      BY <1>1, <2>1, ProbeType
    <2>3. ArmTimer(Backoff(ClearTimer(Probe(counted, outcome)))) \in Queue
      BY <2>2, ClearTimerType, BackoffType, ArmTimerType
    <2>4. PersistTimeout(p, outcome) \in Queue
      BY <1>2, <2>2, <2>3, Zenon DEF PersistTimeout, counted
    <2> QED
      BY <1>3, <2>4, Zenon DEF HandleTimeout
  <1>4. CASE ~Persisting(p)
    <2>1. outcome \in EmitOutcomes
      BY <1>4, Zenon DEF TimeoutOutcomes
    <2>2. EmitRetransmission(counted, outcome) \in Queue
      BY <1>1, <2>1, EmitRetransmissionType
    <2>3. ArmTimer(Backoff(EmitRetransmission(counted, outcome))) \in Queue
      BY <2>2, BackoffType, ArmTimerType
    <2>4. RetransmissionTimeout(p, outcome) \in Queue
      BY <1>2, <2>2, <2>3, Zenon DEF RetransmissionTimeout, counted
    <2> QED
      BY <1>4, <2>4, Zenon DEF HandleTimeout
  <1> QED
    BY <1>3, <1>4

LEMMA TimerCallbackType ==
  ASSUME NEW p \in Queue, NEW age \in Nat, NEW outcome \in TimeoutOutcomes(p)
  PROVE  TimerCallback(p, age, outcome) \in Queue
  <1> DEFINE fired == [p EXCEPT !.callbacks = @ \ {age}]
             started == [fired EXCEPT !.timer = NoTimer]
  <1>1. p.callbacks \ {age} \in SUBSET Nat /\ NoTimer \in Nat \cup {NoTimer}
    BY QueueFields, SMT
  <1>2. fired \in Queue
    BY <1>1, Zenon DEF Queue
  <1>3. started \in Queue
    BY <1>1, <1>2, Zenon DEF Queue
  <1>4. started.modes = p.modes
    BY Zenon DEF Queue
  <1>5. HandleTimeout(started, outcome) \in Queue
    <2> HIDE DEF started
    <2>1. Persisting(p) <=> Persisting(started)
      BY <1>4, Zenon DEF Persisting
    <2> QED
      BY <1>3, <2>1, HandleTimeoutType
  <1> QED
    BY <1>2, <1>5, Zenon DEF TimerCallback

LEMMA DuplicateAckType ==
  ASSUME NEW p \in Queue
  PROVE  DuplicateAck(p) \in Queue
  <1>1. 0 \in Nat
    BY SMT
  <1> QED
    BY <1>1, Zenon DEF DuplicateAck, Queue

LEMMA FinishAckType ==
  ASSUME NEW p \in Queue, NEW ack \in SeqNumbers
  PROVE  FinishAck(p, ack) \in Queue
  <1> DEFINE moved == [p EXCEPT !.una = ack, !.retries = 0,
                                !.rto = IF Persisting(p) THEN @ ELSE InitialRto]
  <1>1. 0 \in Nat /\ InitialRto \in Nat
    BY SMT
  <1>2. moved \in Queue
    BY <1>1, Zenon DEF Queue
  <1> HIDE DEF moved
  <1>3. ArmTimer(ClearTimer(moved)) \in Queue
    BY <1>2, ClearTimerType, ArmTimerType
  <1> QED
    BY <1>3, Zenon DEF FinishAck, moved

LEMMA ConsumedBounds ==
  ASSUME NEW s \in Segment, NEW count \in Nat
  PROVE  /\ ConsumedSyn(s, count) \in 0 .. count
         /\ ConsumedData(s, count) \in 0 .. s.len
         /\ ConsumedFin(s, count) \in 0 .. 1
  <1>1. s.len \in Nat
    BY Zenon DEF Segment
  <1>2. ConsumedSyn(s, count) \in 0 .. count
    BY SMT DEF ConsumedSyn, Flag
  <1>3. ConsumedData(s, count) \in 0 .. s.len
    BY <1>1, <1>2, SMT DEF ConsumedData
  <1>4. ConsumedFin(s, count) \in 0 .. 1
    BY SMT DEF ConsumedFin, Flag
  <1> QED
    BY <1>2, <1>3, <1>4

LEMMA ConsumeSegmentPrefixType ==
  ASSUME NEW s \in Segment, NEW count \in Nat
  PROVE  ConsumeSegmentPrefix(s, count) \in Segment
  <1> DEFINE syn == ConsumedSyn(s, count)
             data == ConsumedData(s, count)
             fin == ConsumedFin(s, count)
  <1>1. /\ s.seq \in SeqNumbers /\ s.first \in SeqNumbers
        /\ s.len \in Nat /\ s.size \in Int /\ s.flags \in Flags
    BY Zenon DEF Segment
  <1>2. syn \in Nat /\ data \in 0 .. s.len /\ fin \in Nat
    BY ConsumedBounds, SMT
  <1> HIDE DEF syn, data, fin
  <1>3. s.seq + count \in Int /\ s.first + data \in Int
    BY <1>1, <1>2, SMT DEF SeqNumbers, SeqSpace
  <1>4. (s.seq + count) % SeqSpace \in SeqNumbers /\ (s.first + data) % SeqSpace \in SeqNumbers
    BY <1>3, ModType
  <1>5. s.len - data \in Nat /\ s.size - syn - data - fin \in Int
    BY <1>1, <1>2, SMT
  <1>6. s.flags \ (Spent("syn", syn) \cup Spent("fin", fin)) \in Flags
    BY <1>1, SMT DEF Flags
  <1> QED
    BY <1>4, <1>5, <1>6, Zenon DEF ConsumeSegmentPrefix, Segment, syn, data, fin

\* The segments an acknowledgement works on, and their head.
LEMMA HeadType ==
  ASSUME NEW p \in Queue, HasOutstanding(p)
  PROVE  /\ Head(p.segs) \in Segment /\ Tail(p.segs) \in Seq(Segment)
         /\ Len(p.segs) \in Nat \ {0} /\ Head(p.segs) = p.segs[1]
         /\ Len(Tail(p.segs)) = Len(p.segs) - 1
         /\ \A i \in 1 .. Len(p.segs) : p.segs[i] \in Segment
         /\ \A i \in 1 .. Len(p.segs) - 1 : Tail(p.segs)[i] = p.segs[i + 1]
  BY QueueFields, SMT DEF HasOutstanding

LEMMA NewQueueType ==
  ASSUME NEW n \in SeqNumbers
  PROVE  NewQueue(n) \in Queue
  <1>1. /\ <<>> \in Seq(Segment) /\ <<>> \in Seq({"limit", "thrown"})
        /\ 0 \in Int /\ 0 \in Nat /\ InitialRto \in Nat /\ NoTimer \in Nat \cup {NoTimer}
        /\ {} \in SUBSET Nat /\ {} \in SUBSET {"persist", "closed", "exhausted"}
    BY SMT
  <1> QED
    BY <1>1, Zenon DEF NewQueue, Queue
-----------------------------------------------------------------------------
(* The timer.                                                              *)

\* No callback of an older generation is pending.
TimerCurrent(p) ==
  \/ p.timer = 0 /\ p.callbacks = {0}
  \/ p.timer = NoTimer /\ p.callbacks = {}

TimerStopped(p) == p.timer = NoTimer /\ p.callbacks = {}

\* What TimerArmed asks of a queue.
TimerFollows(p) ==
  IF Live(p) /\ (HasOutstanding(p) \/ Persisting(p))
  THEN p.timer = 0 /\ p.callbacks = {0}
  ELSE TimerStopped(p)

SameButTimer(p, r) ==
  /\ r.una = p.una /\ r.nxt = p.nxt /\ r.segs = p.segs /\ r.inFlight = p.inFlight
  /\ r.rto = p.rto /\ r.retries = p.retries /\ r.modes = p.modes
  /\ r.failures = p.failures

LEMMA NextGenerationFrame ==
  ASSUME NEW p \in Queue
  PROVE  /\ SameButTimer(p, NextGeneration(p))
         /\ NextGeneration(p).callbacks = {age + 1 : age \in p.callbacks}
         /\ NextGeneration(p).timer = IF p.timer = NoTimer THEN NoTimer ELSE p.timer + 1
  BY Zenon DEF NextGeneration, SameButTimer, Queue

LEMMA ArmTimerFrame ==
  ASSUME NEW p \in Queue
  PROVE  SameButTimer(p, ArmTimer(p))
  <1> DEFINE older == NextGeneration(p)
  <1>1. older \in Queue /\ SameButTimer(p, older)
    BY NextGenerationType, NextGenerationFrame
  <1>2. SameButTimer(older, [older EXCEPT !.callbacks = @ \cup {0}, !.timer = 0])
    BY <1>1, Zenon DEF SameButTimer, Queue
  <1> QED
    BY <1>1, <1>2, Zenon DEF ArmTimer, SameButTimer

LEMMA ClearTimerFrame ==
  ASSUME NEW p \in Queue
  PROVE  SameButTimer(p, ClearTimer(p))
  <1> DEFINE older == NextGeneration(p)
  <1>1. older \in Queue /\ SameButTimer(p, older)
    BY NextGenerationType, NextGenerationFrame
  <1>2. SameButTimer(older, ClearTimer(p))
    BY <1>1, Zenon DEF SameButTimer, ClearTimer, Queue
  <1> QED
    BY <1>1, <1>2, Zenon DEF SameButTimer

LEMMA SameConditions ==
  ASSUME NEW p, NEW r, SameButTimer(p, r)
  PROVE  /\ Live(p) <=> Live(r)
         /\ HasOutstanding(p) <=> HasOutstanding(r)
         /\ Persisting(p) <=> Persisting(r)
  BY Zenon DEF SameButTimer, Live, HasOutstanding, Persisting, Closed, Exhausted

\* clearTimer cancels the one pending callback.
LEMMA ClearTimerStops ==
  ASSUME NEW p \in Queue, TimerCurrent(p)
  PROVE  TimerStopped(ClearTimer(p))
  <1> DEFINE older == NextGeneration(p)
  <1>1. older \in Queue
    BY NextGenerationType
  <1>2. /\ older.callbacks = {age + 1 : age \in p.callbacks}
        /\ older.timer = IF p.timer = NoTimer THEN NoTimer ELSE p.timer + 1
    BY NextGenerationFrame
  <1>3. older.callbacks \ {older.timer} = {}
    BY <1>2, SMT DEF TimerCurrent, NoTimer
  <1> QED
    BY <1>1, <1>3, Zenon DEF ClearTimer, TimerStopped, Queue

\* armTimer on a stopped timer leaves exactly one callback, or none.
LEMMA ArmTimerFollows ==
  ASSUME NEW p \in Queue, TimerStopped(p)
  PROVE  TimerFollows(ArmTimer(p))
  <1> DEFINE older == NextGeneration(p)
             armed == [older EXCEPT !.callbacks = @ \cup {0}, !.timer = 0]
  <1>1. older \in Queue
    BY NextGenerationType
  <1>2. older.callbacks = {age + 1 : age \in p.callbacks}
    BY NextGenerationFrame
  <1>3. older.callbacks \cup {0} = {0}
    BY <1>2, SMT DEF TimerStopped
  <1>4. armed.callbacks = {0} /\ armed.timer = 0
    BY <1>1, <1>3, Zenon DEF Queue
  <1>5. SameButTimer(p, ArmTimer(p))
    BY ArmTimerFrame
  <1> HIDE DEF older, armed
  <1>6. /\ Live(p) <=> Live(ArmTimer(p))
        /\ HasOutstanding(p) <=> HasOutstanding(ArmTimer(p))
        /\ Persisting(p) <=> Persisting(ArmTimer(p))
    BY <1>5, SameConditions
  <1>7. ArmTimer(p) = IF Live(p) /\ (HasOutstanding(p) \/ Persisting(p)) THEN armed ELSE p
    BY Zenon DEF ArmTimer, armed, older
  <1> QED
    BY <1>4, <1>6, <1>7, Zenon DEF TimerFollows, TimerStopped

\* A queue that is not in use any more has no timer, whatever armTimer is asked.
LEMMA ExhaustStops ==
  ASSUME NEW p \in Queue, TimerCurrent(p), NEW error \in {"limit", "thrown"}
  PROVE  TimerStopped(Exhaust(p, error)) /\ ~Live(Exhaust(p, error))
  <1> DEFINE cleared == ClearTimer(p)
  <1>1. cleared \in Queue /\ TimerStopped(cleared)
    BY ClearTimerType, ClearTimerStops
  <1>2. /\ Exhaust(p, error).timer = cleared.timer
        /\ Exhaust(p, error).callbacks = cleared.callbacks
        /\ Exhaust(p, error).modes = cleared.modes \cup {"exhausted"}
    BY <1>1, Zenon DEF Exhaust, Queue
  <1> HIDE DEF cleared
  <1> QED
    BY <1>1, <1>2, Zenon DEF TimerStopped, Live, Exhausted

LEMMA CloseStops ==
  ASSUME NEW p \in Queue, TimerCurrent(p), Closed(p) => TimerStopped(p)
  PROVE  TimerStopped(Close(p)) /\ ~Live(Close(p))
  <1> DEFINE cleared == ClearTimer(p)
  <1>1. cleared \in Queue /\ TimerStopped(cleared)
    BY ClearTimerType, ClearTimerStops
  <1>2. CASE Closed(p)
    BY <1>2, Zenon DEF Close, Live
  <1>3. CASE ~Closed(p)
    <2>1. /\ Close(p).timer = cleared.timer
          /\ Close(p).callbacks = cleared.callbacks
          /\ Close(p).modes = (cleared.modes \ {"persist"}) \cup {"closed"}
      BY <1>1, <1>3, Zenon DEF Close, Queue
    <2> HIDE DEF cleared
    <2> QED
      BY <1>1, <2>1, Zenon DEF TimerStopped, Live, Closed
  <1> QED
    BY <1>2, <1>3

LEMMA EmitRetransmissionStopped ==
  ASSUME NEW p \in Queue, TimerStopped(p), NEW outcome \in EmitOutcomes
  PROVE  /\ TimerStopped(EmitRetransmission(p, outcome))
         /\ outcome = "throws" => ~Live(EmitRetransmission(p, outcome))
  <1>1. TimerCurrent(p)
    BY Zenon DEF TimerCurrent, TimerStopped
  <1>2. /\ TimerStopped(Close(p))
        /\ TimerStopped(Exhaust(p, "thrown")) /\ ~Live(Exhaust(p, "thrown"))
    BY <1>1, CloseStops, ExhaustStops
  <1> QED
    BY <1>2, Zenon DEF EmitRetransmission, EmitOutcomes

LEMMA StoppedFollows ==
  ASSUME NEW p, TimerStopped(p), ~Live(p)
  PROVE  TimerFollows(p)
  BY Zenon DEF TimerFollows

LEMMA FollowsIsCurrent ==
  ASSUME NEW p, TimerFollows(p)
  PROVE  TimerCurrent(p) /\ (~Live(p) => TimerStopped(p))
  BY Zenon DEF TimerFollows, TimerCurrent, TimerStopped

\* Appending a segment leaves the timer alone, and makes something outstanding.
LEMMA TrackTimer ==
  ASSUME NEW p \in Queue, NEW len \in Nat, NEW flags \in Flags
  PROVE  /\ TimerFollows(p) /\ Live(p) => TimerFollows(Track(p, len, flags))
         /\ TimerStopped(p) => TimerCurrent(Track(p, len, flags))
  <1> DEFINE size == SequenceLength(len, flags)
             segment == [seq |-> p.nxt, first |-> (p.nxt + Flag("syn", flags)) % SeqSpace,
                         len |-> len, size |-> size, flags |-> flags]
             tracked == [p EXCEPT !.segs = Append(@, segment), !.inFlight = @ + len,
                                  !.nxt = (@ + size) % SeqSpace]
  <1>1. size \in Nat
    BY SMT DEF SequenceLength, Flag
  <1>2. CASE size = 0
    <2>1. Track(p, len, flags) = p
      BY <1>2, Zenon DEF Track
    <2> QED
      BY <2>1, Zenon DEF TimerCurrent, TimerStopped
  <1>3. CASE size # 0
    <2>1. /\ tracked.timer = p.timer /\ tracked.callbacks = p.callbacks
          /\ tracked.modes = p.modes /\ tracked.segs = Append(p.segs, segment)
      BY Zenon DEF Queue
    <2>2. /\ Append(p.segs, segment) # <<>>
          /\ p.segs = <<>> => Len(Append(p.segs, segment)) = 1
          /\ Len(Append(p.segs, segment)) = 1 => p.segs = <<>>
      BY QueueFields, SMT
    <2>3. tracked \in Queue
      <3>1. segment \in Segment /\ (p.nxt + size) % SeqSpace \in SeqNumbers
        <4>1. p.nxt \in SeqNumbers /\ p.nxt \in Int /\ Flag("syn", flags) \in Nat
          BY QueueFields, SMT DEF SeqNumbers, SeqSpace, Flag
        <4>2. /\ (p.nxt + Flag("syn", flags)) % SeqSpace \in SeqNumbers
              /\ (p.nxt + size) % SeqSpace \in SeqNumbers
          BY <1>1, <4>1, ModType, SMT
        <4> QED
          BY <1>1, <4>1, <4>2, SMT DEF Segment
      <3>2. Append(p.segs, segment) \in Seq(Segment) /\ p.inFlight + len \in Int
        BY <3>1, QueueFields, SMT
      <3> QED
        BY <3>1, <3>2, Zenon DEF Queue
    <2>4. Track(p, len, flags) =
            IF Len(tracked.segs) = 1 /\ p.timer = NoTimer THEN ArmTimer(tracked) ELSE tracked
      BY <1>3, Zenon DEF Track
    <2> HIDE DEF tracked, segment, size
    <2>5. TimerStopped(p) => TimerFollows(ArmTimer(tracked))
      BY <2>1, <2>3, ArmTimerFollows, Zenon DEF TimerStopped
    <2>6. Live(tracked) <=> Live(p)
      BY <2>1, Zenon DEF Live, Closed, Exhausted
    <2>7. HasOutstanding(tracked)
      BY <2>1, <2>2, Zenon DEF HasOutstanding
    <2>8. ASSUME TimerFollows(p), Live(p)
          PROVE  TimerFollows(Track(p, len, flags))
      <3>1. CASE HasOutstanding(p) \/ Persisting(p)
        <4>1. p.timer = 0 /\ p.callbacks = {0}
          BY <2>8, <3>1, Zenon DEF TimerFollows
        <4>2. p.timer # NoTimer
          BY <4>1, SMT DEF NoTimer
        <4> QED
          BY <2>1, <2>4, <2>6, <2>7, <2>8, <4>1, <4>2, Zenon DEF TimerFollows
      <3>2. CASE ~(HasOutstanding(p) \/ Persisting(p))
        <4>1. TimerStopped(p) /\ p.segs = <<>>
          BY <2>8, <3>2, Zenon DEF TimerFollows, HasOutstanding
        <4> QED
          BY <2>1, <2>2, <2>4, <2>5, <4>1, Zenon DEF TimerStopped
      <3> QED
        BY <3>1, <3>2
    <2>9. ASSUME TimerStopped(p)
          PROVE  TimerCurrent(Track(p, len, flags))
      BY <2>1, <2>4, <2>5, <2>9, FollowsIsCurrent, Zenon DEF TimerStopped, TimerCurrent
    <2> QED
      BY <2>8, <2>9
  <1> QED
    BY <1>2, <1>3

LEMMA BackoffFrame ==
  ASSUME NEW p \in Queue
  PROVE  /\ TimerStopped(p) => TimerStopped(Backoff(p))
         /\ Backoff(p).una = p.una /\ Backoff(p).nxt = p.nxt /\ Backoff(p).segs = p.segs
         /\ Backoff(p).modes = p.modes /\ Backoff(p).retries = p.retries
         /\ Backoff(p).failures = p.failures /\ Backoff(p).inFlight = p.inFlight
  BY Zenon DEF Backoff, TimerStopped, Queue

LEMMA FastRetransmitTimer ==
  ASSUME NEW p \in Queue, TimerFollows(p), NEW outcome \in EmitOutcomes
  PROVE  TimerFollows(FastRetransmit(p, outcome))
  <1> DEFINE reset == [p EXCEPT !.rto = InitialRto]
             cleared == ClearTimer(reset)
             emitted == EmitRetransmission(cleared, outcome)
  <1>1. InitialRto \in Nat
    BY SMT
  <1>2. reset \in Queue /\ reset.timer = p.timer /\ reset.callbacks = p.callbacks
    BY <1>1, Zenon DEF Queue
  <1> HIDE DEF reset
  <1>3. TimerCurrent(reset)
    BY <1>2, FollowsIsCurrent, Zenon DEF TimerCurrent
  <1>4. cleared \in Queue /\ TimerStopped(cleared)
    BY <1>2, <1>3, ClearTimerType, ClearTimerStops
  <1> HIDE DEF cleared
  <1>5. /\ emitted \in Queue /\ TimerStopped(emitted)
        /\ outcome = "throws" => ~Live(emitted)
    BY <1>4, EmitRetransmissionType, EmitRetransmissionStopped
  <1> HIDE DEF emitted
  <1>6. TimerFollows(ArmTimer(emitted)) /\ (outcome = "throws" => TimerFollows(emitted))
    BY <1>5, ArmTimerFollows, StoppedFollows
  <1> QED
    BY <1>6, Zenon DEF FastRetransmit, emitted, cleared, reset

LEMMA SetPersistTimer ==
  ASSUME NEW p \in Queue, TimerFollows(p), NEW enabled \in BOOLEAN, NEW outcome \in EmitOutcomes
  PROVE  TimerFollows(SetPersist(p, enabled, outcome))
  <1> DEFINE cleared == ClearTimer(p)
             reset == [cleared EXCEPT
                         !.modes = IF enabled THEN @ \cup {"persist"} ELSE @ \ {"persist"},
                         !.rto = InitialRto, !.retries = 0]
             emitted == EmitRetransmission(reset, outcome)
  <1>1. cleared \in Queue /\ TimerStopped(cleared)
    BY ClearTimerType, ClearTimerStops, FollowsIsCurrent
  <1>2. (IF enabled THEN cleared.modes \cup {"persist"} ELSE cleared.modes \ {"persist"})
          \in SUBSET {"persist", "closed", "exhausted"}
    BY <1>1, QueueFields, SMT
  <1>3. InitialRto \in Nat /\ 0 \in Nat
    BY SMT
  <1>4. reset \in Queue /\ TimerStopped(reset)
    BY <1>1, <1>2, <1>3, Zenon DEF Queue, TimerStopped
  <1> HIDE DEF reset
  <1>5. emitted \in Queue /\ TimerStopped(emitted)
    BY <1>4, EmitRetransmissionType, EmitRetransmissionStopped
  <1> HIDE DEF emitted
  <1>6. TimerFollows(ArmTimer(emitted)) /\ TimerFollows(ArmTimer(reset))
    BY <1>4, <1>5, ArmTimerFollows
  <1> QED
    BY <1>6, Zenon DEF SetPersist, emitted, reset, cleared

LEMMA HandleTimeoutTimer ==
  ASSUME NEW p \in Queue, TimerStopped(p), NEW r \in Queue, Persisting(r) <=> Persisting(p),
         NEW outcome \in TimeoutOutcomes(r)
  PROVE  TimerFollows(HandleTimeout(p, outcome))
  <1> DEFINE counted == [p EXCEPT !.retries = @ + 1]
             refused == [counted EXCEPT !.retries = @ - 1]
  <1>1. counted \in Queue /\ counted.retries > 0
    BY CountedType
  <1>2. TimerStopped(counted) /\ TimerStopped(refused)
    BY Zenon DEF TimerStopped, Queue
  <1>3. TimerCurrent(p) /\ TimerCurrent(counted) /\ TimerCurrent(refused)
    BY <1>2, Zenon DEF TimerStopped, TimerCurrent
  <1> HIDE DEF counted
  <1>4. TimerFollows(Exhaust(p, "limit"))
    BY <1>3, ExhaustStops, StoppedFollows
  <1>5. CASE Persisting(p)
    <2> DEFINE probed == Probe(counted, outcome)
    <2>1. outcome \in ProbeOutcomes(r)
      BY <1>5, Zenon DEF TimeoutOutcomes
    <2>2. probed \in Queue
      BY <1>1, <2>1, ProbeType
    <2>3. TimerCurrent(probed) /\ (outcome = "throws" => TimerFollows(probed))
      <3>1. 1 \in Nat /\ 0 \in Nat /\ {} \in Flags /\ {"fin"} \in Flags
        BY SMT DEF Flags
      <3>2. TimerCurrent(Track(counted, 1, {})) /\ TimerCurrent(Track(counted, 0, {"fin"}))
        BY <1>1, <1>2, <3>1, TrackTimer
      <3>3. /\ TimerStopped(Close(counted))
            /\ TimerFollows(Exhaust(counted, "thrown")) /\ TimerStopped(Exhaust(counted, "thrown"))
        BY <1>1, <1>2, <1>3, CloseStops, ExhaustStops, StoppedFollows
      <3>4. outcome \in {"sent", "refused", "byte", "fin", "notCurrent", "throws"}
        BY <2>1, Zenon DEF ProbeOutcomes
      <3> QED
        BY <1>3, <3>2, <3>3, <3>4, Zenon DEF Probe, TimerCurrent, TimerStopped
    <2> HIDE DEF probed
    <2>4. ClearTimer(probed) \in Queue /\ TimerStopped(ClearTimer(probed))
      BY <2>2, <2>3, ClearTimerType, ClearTimerStops
    <2>5. Backoff(ClearTimer(probed)) \in Queue /\ TimerStopped(Backoff(ClearTimer(probed)))
      BY <2>4, BackoffType, BackoffFrame
    <2>6. TimerFollows(ArmTimer(Backoff(ClearTimer(probed))))
      BY <2>5, ArmTimerFollows
    <2>7. TimerFollows(PersistTimeout(p, outcome))
      BY <1>4, <2>3, <2>6, Zenon DEF PersistTimeout, counted, probed
    <2> QED
      BY <1>5, <2>7, StoppedFollows, Zenon DEF HandleTimeout
  <1>6. CASE ~Persisting(p)
    <2> DEFINE emitted == EmitRetransmission(counted, outcome)
    <2>1. outcome \in EmitOutcomes
      BY <1>6, Zenon DEF TimeoutOutcomes
    <2>2. /\ emitted \in Queue /\ TimerStopped(emitted)
          /\ outcome = "throws" => ~Live(emitted)
      BY <1>1, <1>2, <2>1, EmitRetransmissionType, EmitRetransmissionStopped
    <2> HIDE DEF emitted
    <2>3. Backoff(emitted) \in Queue /\ TimerStopped(Backoff(emitted))
      BY <2>2, BackoffType, BackoffFrame
    <2>4. TimerFollows(ArmTimer(Backoff(emitted))) /\ (outcome = "throws" => TimerFollows(emitted))
      BY <2>2, <2>3, ArmTimerFollows, StoppedFollows
    <2>5. TimerFollows(RetransmissionTimeout(p, outcome))
      BY <1>4, <2>4, Zenon DEF RetransmissionTimeout, counted, emitted
    <2>6. ~HasOutstanding(p) => TimerFollows(p)
      BY <1>6, Zenon DEF TimerFollows
    <2> QED
      BY <1>6, <2>5, <2>6, StoppedFollows, Zenon DEF HandleTimeout
  <1> QED
    BY <1>5, <1>6

LEMMA TimerCallbackTimer ==
  ASSUME NEW p \in Queue, TimerFollows(p), NEW age \in p.callbacks,
         NEW outcome \in TimeoutOutcomes(p)
  PROVE  TimerFollows(TimerCallback(p, age, outcome))
  <1> DEFINE fired == [p EXCEPT !.callbacks = @ \ {age}]
             started == [fired EXCEPT !.timer = NoTimer]
  <1>1. p.callbacks = {0} /\ age = 0 /\ Live(p)
    BY Zenon DEF TimerFollows, TimerStopped
  <1>2. p.callbacks \ {age} = {} /\ {} \in SUBSET Nat /\ NoTimer \in Nat \cup {NoTimer}
    BY <1>1, SMT
  <1>3. fired \in Queue
    BY <1>2, Zenon DEF Queue
  <1>4. started \in Queue
    BY <1>2, <1>3, Zenon DEF Queue
  <1>5. started.modes = p.modes /\ TimerStopped(started)
    BY <1>2, Zenon DEF TimerStopped, Queue
  <1>6. Persisting(p) <=> Persisting(started)
    BY <1>5, Zenon DEF Persisting
  <1> HIDE DEF started
  <1>7. TimerFollows(HandleTimeout(started, outcome))
    BY <1>4, <1>5, <1>6, HandleTimeoutTimer
  <1> QED
    BY <1>1, <1>7, Zenon DEF TimerCallback, started

LEMMA FinishAckTimer ==
  ASSUME NEW p \in Queue, TimerCurrent(p), NEW ack \in SeqNumbers
  PROVE  TimerFollows(FinishAck(p, ack))
  <1> DEFINE moved == [p EXCEPT !.una = ack, !.retries = 0,
                                !.rto = IF Persisting(p) THEN @ ELSE InitialRto]
  <1>1. 0 \in Nat /\ InitialRto \in Nat
    BY SMT
  <1>2. moved \in Queue /\ TimerCurrent(moved)
    BY <1>1, Zenon DEF Queue, TimerCurrent
  <1> HIDE DEF moved
  <1>3. ClearTimer(moved) \in Queue /\ TimerStopped(ClearTimer(moved))
    BY <1>2, ClearTimerType, ClearTimerStops
  <1>4. TimerFollows(ArmTimer(ClearTimer(moved)))
    BY <1>3, ArmTimerFollows
  <1> QED
    BY <1>4, Zenon DEF FinishAck, moved

LEMMA DuplicateAckTimer ==
  ASSUME NEW p \in Queue, TimerFollows(p)
  PROVE  TimerFollows(DuplicateAck(p))
  <1> DEFINE r == [p EXCEPT !.retries = 0]
  <1>1. /\ r.modes = p.modes /\ r.segs = p.segs /\ r.timer = p.timer
        /\ r.callbacks = p.callbacks
    BY Zenon DEF Queue
  <1> HIDE DEF r
  <1>2. TimerFollows(r)
    BY <1>1, Zenon DEF TimerFollows, TimerStopped, Live, HasOutstanding, Persisting,
                       Closed, Exhausted
  <1> QED
    BY <1>2, Zenon DEF DuplicateAck, r

LEMMA CloseTimer ==
  ASSUME NEW p \in Queue, TimerFollows(p)
  PROVE  TimerFollows(Close(p))
  <1>1. TimerCurrent(p) /\ (Closed(p) => TimerStopped(p))
    BY FollowsIsCurrent, Zenon DEF Live
  <1> QED
    BY <1>1, CloseStops, StoppedFollows
-----------------------------------------------------------------------------
(* The pace of the timeouts, and when they end: what a method does to      *)
(* retries, to the timeout and to the list of failures.                    *)

\* Neither a retry is counted nor the timeout changed; nothing that had ended is
\* in use again, and if the connection was given up it was for a send that threw.
Calm(p, r) ==
  /\ r.retries = p.retries /\ r.rto = p.rto
  /\ Live(r) => Live(p)
  /\ Persisting(r) => Persisting(p)
  /\ r.failures = p.failures \/ r.failures = Append(p.failures, "thrown")

LEMMA CalmReflexive == \A p : Calm(p, p) /\ SameButTimer(p, p)
  BY Zenon DEF Calm, SameButTimer

LEMMA CalmBetween ==
  ASSUME NEW p, NEW r, NEW t, NEW u, SameButTimer(p, r), Calm(r, t), SameButTimer(t, u)
  PROVE  Calm(p, u)
  BY Zenon DEF SameButTimer, Calm, Live, Closed, Exhausted, Persisting

LEMMA ExhaustFields ==
  ASSUME NEW p \in Queue, NEW error \in {"limit", "thrown"}
  PROVE  LET r == Exhaust(p, error)
         IN /\ r.retries = p.retries /\ r.rto = p.rto /\ ~Live(r)
            /\ Persisting(r) => Persisting(p)
            /\ r.failures = Append(p.failures, error)
  <1> DEFINE cleared == ClearTimer(p)
             r == Exhaust(p, error)
  <1>1. cleared \in Queue /\ SameButTimer(p, cleared)
    BY ClearTimerType, ClearTimerFrame
  <1>2. /\ r.retries = cleared.retries /\ r.rto = cleared.rto
        /\ r.modes = cleared.modes \cup {"exhausted"}
        /\ r.failures = Append(cleared.failures, error)
    BY <1>1, Zenon DEF Exhaust, Queue
  <1> HIDE DEF r, cleared
  <1>3. ~Live(r) /\ (Persisting(r) => Persisting(cleared))
    BY <1>2, SMT DEF Live, Exhausted, Persisting
  <1>4. r.retries = p.retries /\ r.rto = p.rto /\ r.failures = Append(p.failures, error)
    BY <1>1, <1>2, Zenon DEF SameButTimer
  <1>5. Persisting(r) => Persisting(p)
    BY <1>1, <1>3, Zenon DEF SameButTimer, Persisting
  <1> QED
    BY <1>3, <1>4, <1>5 DEF r

LEMMA CloseCalm ==
  ASSUME NEW p \in Queue
  PROVE  Calm(p, Close(p)) /\ ~Live(Close(p))
  <1> DEFINE cleared == ClearTimer(p)
             r == Close(p)
  <1>1. cleared \in Queue /\ SameButTimer(p, cleared)
    BY ClearTimerType, ClearTimerFrame
  <1>2. CASE Closed(p)
    <2>1. r = p
      BY <1>2, Zenon DEF Close
    <2> QED
      BY <1>2, <2>1, CalmReflexive, Zenon DEF Live
  <1>3. CASE ~Closed(p)
    <2>1. /\ r.retries = cleared.retries /\ r.rto = cleared.rto /\ r.failures = cleared.failures
          /\ r.modes = (cleared.modes \ {"persist"}) \cup {"closed"}
      BY <1>1, <1>3, Zenon DEF Close, Queue
    <2> HIDE DEF r, cleared
    <2>2. ~Live(r) /\ ~Persisting(r)
      BY <2>1, SMT DEF Live, Closed, Persisting
    <2>3. Calm(p, r)
      BY <1>1, <2>1, <2>2, Zenon DEF Calm, SameButTimer
    <2> QED
      BY <2>2, <2>3 DEF r
  <1> QED
    BY <1>2, <1>3

LEMMA ThrownCalm ==
  ASSUME NEW p \in Queue
  PROVE  Calm(p, Exhaust(p, "thrown")) /\ ~Live(Exhaust(p, "thrown"))
  BY ExhaustFields, Zenon DEF Calm

LEMMA EmitRetransmissionCalm ==
  ASSUME NEW p \in Queue, NEW outcome \in EmitOutcomes
  PROVE  /\ Calm(p, EmitRetransmission(p, outcome))
         /\ outcome # "sent" => ~Live(EmitRetransmission(p, outcome))
  BY CalmReflexive, CloseCalm, ThrownCalm, Zenon DEF EmitRetransmission, EmitOutcomes

LEMMA TrackCalm ==
  ASSUME NEW p \in Queue, NEW len \in Nat, NEW flags \in Flags
  PROVE  Calm(p, Track(p, len, flags))
  <1> DEFINE size == SequenceLength(len, flags)
             segment == [seq |-> p.nxt, first |-> (p.nxt + Flag("syn", flags)) % SeqSpace,
                         len |-> len, size |-> size, flags |-> flags]
             tracked == [p EXCEPT !.segs = Append(@, segment), !.inFlight = @ + len,
                                  !.nxt = (@ + size) % SeqSpace]
  <1>1. Track(p, len, flags) =
          IF size = 0 THEN p
          ELSE IF Len(tracked.segs) = 1 /\ p.timer = NoTimer THEN ArmTimer(tracked) ELSE tracked
    BY Zenon DEF Track
  <1>2. /\ tracked.retries = p.retries /\ tracked.rto = p.rto
        /\ tracked.modes = p.modes /\ tracked.failures = p.failures
    BY Zenon DEF Queue
  <1>3. tracked \in Queue
    <2>1. size \in Nat /\ p.nxt \in SeqNumbers /\ p.nxt \in Int /\ Flag("syn", flags) \in Nat
      BY QueueFields, SMT DEF SequenceLength, Flag, SeqNumbers, SeqSpace
    <2>2. /\ (p.nxt + Flag("syn", flags)) % SeqSpace \in SeqNumbers
          /\ (p.nxt + size) % SeqSpace \in SeqNumbers
      BY <2>1, ModType, SMT
    <2>3. segment \in Segment
      BY <2>1, <2>2, SMT DEF Segment
    <2>4. Append(p.segs, segment) \in Seq(Segment) /\ p.inFlight + len \in Int
      BY <2>3, QueueFields, SMT
    <2> QED
      BY <2>2, <2>4, Zenon DEF Queue
  <1> HIDE DEF tracked, segment, size
  <1>4. Calm(p, tracked)
    BY <1>2, Zenon DEF Calm, Live, Closed, Exhausted, Persisting
  <1>5. Calm(p, ArmTimer(tracked))
    BY <1>3, <1>4, ArmTimerFrame, CalmReflexive, CalmBetween
  <1> QED
    BY <1>1, <1>4, <1>5, CalmReflexive, Zenon

\* A timeout that is at most the longest only grows, up to the longest.
LEMMA BackoffGrows ==
  ASSUME NEW p \in Queue, p.rto <= MaxRto
  PROVE  Backoff(p).rto >= p.rto /\ Backoff(p).rto <= MaxRto
  <1>1. Backoff(p).rto = IF 2 * p.rto < MaxRto THEN 2 * p.rto ELSE MaxRto
    BY Zenon DEF Backoff, Queue
  <1>2. p.rto \in Nat
    BY QueueFields
  <1> HIDE DEF Backoff
  <1> QED
    BY <1>1, <1>2, SMT

\* What a timeout does.  It counts a retry only for a send that left the relay, and
\* gives up for their number only when there were maxRetransmissions of them.
TimeoutPace(p, r, outcome) ==
  /\ r.rto <= MaxRto
  /\ Persisting(p) /\ Persisting(r) => r.rto >= p.rto
  /\ Live(r) => /\ Live(p)
                /\ \/ r.retries = p.retries
                   \/ /\ r.retries = p.retries + 1
                      /\ outcome \notin {"refused", "throws", "notCurrent"}
  /\ \/ r.failures = p.failures
     \/ r.failures = Append(p.failures, "thrown")
     \/ /\ r.failures = Append(p.failures, "limit")
        /\ p.retries >= MaxRetransmissions /\ Live(p)

LEMMA CalmPace ==
  ASSUME NEW p \in Queue, p.rto <= MaxRto, NEW r, Calm(p, r), NEW outcome
  PROVE  TimeoutPace(p, r, outcome)
  <1>1. p.rto >= p.rto
    BY QueueFields, SMT
  <1> QED
    BY <1>1, Zenon DEF Calm, TimeoutPace

LEMMA HandleTimeoutPace ==
  ASSUME NEW p \in Queue, p.rto <= MaxRto, NEW r \in Queue, Persisting(r) <=> Persisting(p),
         NEW outcome \in TimeoutOutcomes(r)
  PROVE  TimeoutPace(p, HandleTimeout(p, outcome), outcome)
  <1> DEFINE counted == [p EXCEPT !.retries = @ + 1]
             refused == [counted EXCEPT !.retries = @ - 1]
             probed == Probe(counted, outcome)
             emitted == EmitRetransmission(counted, outcome)
  <1>1. counted \in Queue /\ counted.retries > 0
    BY CountedType
  <1>2. /\ counted.retries = p.retries + 1 /\ counted.rto = p.rto
        /\ counted.modes = p.modes /\ counted.failures = p.failures
        /\ refused.retries = (p.retries + 1) - 1 /\ refused.rto = p.rto
        /\ refused.modes = p.modes /\ refused.failures = p.failures
    BY Zenon DEF Queue
  <1>3. refused \in Queue
    <2>1. counted.retries - 1 \in Nat
      BY <1>1, QueueFields, SMT
    <2> QED
      BY <1>1, <2>1, Zenon DEF Queue
  <1>4. p.retries \in Nat /\ p.rto \in Nat /\ (p.retries + 1) - 1 = p.retries /\ p.rto >= p.rto
    BY QueueFields, SMT
  <1> HIDE DEF counted, refused
  <1>5. TimeoutPace(p, p, outcome)
    BY CalmReflexive, CalmPace
  <1>6. CASE ~Live(p)
    BY <1>5, <1>6, Zenon DEF HandleTimeout
  <1>7. CASE Live(p) /\ p.retries >= MaxRetransmissions
    <2>1. TimeoutPace(p, Exhaust(p, "limit"), outcome)
      BY <1>4, <1>7, ExhaustFields, Zenon DEF TimeoutPace
    <2> QED
      BY <1>5, <1>7, <2>1, Zenon DEF HandleTimeout, PersistTimeout, RetransmissionTimeout
  \* A send: r follows from counted, or from refused, without another retry counted.
  <1>8. ASSUME NEW t \in Queue,
               \/ Calm(counted, t)
                  /\ (outcome \in {"refused", "throws", "notCurrent"} => ~Live(t))
               \/ t = refused,
               Live(p)
        PROVE  /\ TimeoutPace(p, t, outcome)
               /\ TimeoutPace(p, ArmTimer(Backoff(t)), outcome)
               /\ TimeoutPace(p, ArmTimer(Backoff(ClearTimer(t))), outcome)
    <2>1. /\ t.rto = p.rto
          /\ Live(t) => \/ t.retries = p.retries
                        \/ /\ t.retries = p.retries + 1
                           /\ outcome \notin {"refused", "throws", "notCurrent"}
          /\ Persisting(t) => Persisting(p)
          /\ t.failures = p.failures \/ t.failures = Append(p.failures, "thrown")
      BY <1>2, <1>4, <1>8, Zenon DEF Calm, Persisting
    <2>2. ASSUME NEW u \in Queue, SameButTimer(t, u)
          PROVE  TimeoutPace(p, ArmTimer(Backoff(u)), outcome)
      <3>1. u.rto = p.rto /\ u.rto <= MaxRto
        BY <2>1, <2>2, Zenon DEF SameButTimer
      <3>2. Backoff(u).rto >= p.rto /\ Backoff(u).rto <= MaxRto
        BY <3>1, BackoffGrows
      <3>3. /\ Backoff(u) \in Queue /\ Backoff(u).retries = t.retries
            /\ Backoff(u).modes = t.modes /\ Backoff(u).failures = t.failures
        BY <2>2, BackoffType, BackoffFrame, Zenon DEF SameButTimer
      <3>4. SameButTimer(Backoff(u), ArmTimer(Backoff(u)))
        BY <3>3, ArmTimerFrame
      <3> DEFINE v == ArmTimer(Backoff(u))
      <3>5. /\ v.retries = t.retries /\ v.modes = t.modes /\ v.failures = t.failures
            /\ v.rto >= p.rto /\ v.rto <= MaxRto
        BY <3>2, <3>3, <3>4, Zenon DEF SameButTimer
      <3> HIDE DEF v
      <3>6. (Live(v) <=> Live(t)) /\ (Persisting(v) <=> Persisting(t))
        BY <3>5, Zenon DEF Live, Closed, Exhausted, Persisting
      <3> QED
        BY <1>8, <2>1, <3>5, <3>6, Zenon DEF TimeoutPace, v
    <2>3. TimeoutPace(p, t, outcome)
      BY <1>4, <1>8, <2>1, Zenon DEF TimeoutPace
    <2>4. SameButTimer(t, t) /\ SameButTimer(t, ClearTimer(t)) /\ ClearTimer(t) \in Queue
      BY CalmReflexive, ClearTimerFrame, ClearTimerType
    <2> QED
      BY <2>2, <2>3, <2>4
  <1>9. CASE Live(p) /\ ~ (p.retries >= MaxRetransmissions) /\ Persisting(p)
    <2>1. outcome \in ProbeOutcomes(r)
      BY <1>9, Zenon DEF TimeoutOutcomes
    <2>2. probed \in Queue
      BY <1>1, <2>1, ProbeType
    <2>3. outcome \in {"sent", "refused", "byte", "fin", "notCurrent", "throws"}
      BY <2>1, Zenon DEF ProbeOutcomes
    <2>4. /\ Calm(counted, counted) /\ Calm(counted, Track(counted, 1, {}))
          /\ Calm(counted, Track(counted, 0, {"fin"}))
          /\ Calm(counted, Close(counted)) /\ ~Live(Close(counted))
          /\ Calm(counted, Exhaust(counted, "thrown")) /\ ~Live(Exhaust(counted, "thrown"))
      <3>1. 1 \in Nat /\ 0 \in Nat /\ {} \in Flags /\ {"fin"} \in Flags
        BY SMT DEF Flags
      <3> QED
        BY <1>1, <3>1, CalmReflexive, TrackCalm, CloseCalm, ThrownCalm
    <2>5. \/ Calm(counted, probed)
             /\ (outcome \in {"refused", "throws", "notCurrent"} => ~Live(probed))
          \/ probed = refused
      BY <2>3, <2>4, Zenon DEF Probe, refused
    <2> HIDE DEF probed
    <2>6. /\ TimeoutPace(p, probed, outcome)
          /\ TimeoutPace(p, ArmTimer(Backoff(ClearTimer(probed))), outcome)
      BY <1>8, <1>9, <2>2, <2>5
    <2>7. TimeoutPace(p, PersistTimeout(p, outcome), outcome)
      BY <1>9, <2>6, Zenon DEF PersistTimeout, probed, counted
    <2> QED
      BY <1>9, <2>7, Zenon DEF HandleTimeout
  <1>10. CASE Live(p) /\ ~ (p.retries >= MaxRetransmissions) /\ ~Persisting(p)
    <2>1. outcome \in EmitOutcomes
      BY <1>10, Zenon DEF TimeoutOutcomes
    <2>2. /\ emitted \in Queue /\ Calm(counted, emitted)
          /\ outcome # "sent" => ~Live(emitted)
      BY <1>1, <2>1, EmitRetransmissionType, EmitRetransmissionCalm
    <2>3. outcome \in {"refused", "throws", "notCurrent"} => outcome # "sent"
      BY SMT
    <2> HIDE DEF emitted
    <2>4. /\ TimeoutPace(p, emitted, outcome)
          /\ TimeoutPace(p, ArmTimer(Backoff(emitted)), outcome)
      BY <1>8, <1>10, <2>2, <2>3
    <2>5. TimeoutPace(p, RetransmissionTimeout(p, outcome), outcome)
      BY <1>10, <2>4, Zenon DEF RetransmissionTimeout, emitted, counted
    <2> QED
      BY <1>5, <1>10, <2>5, Zenon DEF HandleTimeout
  <1> QED
    BY <1>6, <1>7, <1>9, <1>10

LEMMA TimerCallbackPace ==
  ASSUME NEW p \in Queue, p.rto <= MaxRto, NEW age \in p.callbacks,
         NEW outcome \in TimeoutOutcomes(p)
  PROVE  TimeoutPace(p, TimerCallback(p, age, outcome), outcome)
  <1> DEFINE fired == [p EXCEPT !.callbacks = @ \ {age}]
             started == [fired EXCEPT !.timer = NoTimer]
  <1>1. p.callbacks \ {age} \in SUBSET Nat /\ NoTimer \in Nat \cup {NoTimer}
    BY QueueFields, SMT
  <1>2. fired \in Queue
    BY <1>1, Zenon DEF Queue
  <1>3. started \in Queue
    BY <1>1, <1>2, Zenon DEF Queue
  <1>4. SameButTimer(p, fired) /\ SameButTimer(p, started)
    BY Zenon DEF Queue, SameButTimer
  <1> HIDE DEF started, fired
  <1>5. /\ Live(p) <=> Live(started)
        /\ Persisting(p) <=> Persisting(started)
    BY <1>4, SameConditions
  <1>6. started.rto <= MaxRto
    BY <1>4 DEF SameButTimer
  <1>7. TimeoutPace(started, HandleTimeout(started, outcome), outcome)
    BY <1>3, <1>5, <1>6, HandleTimeoutPace
  <1>8. TimeoutPace(p, HandleTimeout(started, outcome), outcome)
    BY <1>4, <1>5, <1>7, Zenon DEF TimeoutPace, SameButTimer
  <1>9. TimeoutPace(p, fired, outcome)
    <2>1. Calm(p, fired)
      BY <1>4, CalmReflexive, CalmBetween
    <2> QED
      BY <2>1, CalmPace
  <1> QED
    BY <1>8, <1>9, Zenon DEF TimerCallback, fired, started

\* A method that gives the connection up for a throw only, and leaves a timeout
\* between the shortest and the longest.
Unhurried(p, r) ==
  /\ r.rto <= MaxRto
  /\ Persisting(p) /\ Persisting(r) => r.rto >= p.rto
  /\ r.failures = p.failures \/ r.failures = Append(p.failures, "thrown")

LEMMA UnhurriedReflexive ==
  ASSUME NEW p \in Queue, p.rto <= MaxRto
  PROVE  Unhurried(p, p)
  BY QueueFields, SMT DEF Unhurried

LEMMA FastRetransmitPace ==
  ASSUME NEW p \in Queue, p.rto <= MaxRto, NEW outcome \in EmitOutcomes
  PROVE  LET r == FastRetransmit(p, outcome)
         IN Unhurried(p, r) /\ r.retries = p.retries /\ (Live(r) => Live(p))
  <1> DEFINE reset == [p EXCEPT !.rto = InitialRto]
             cleared == ClearTimer(reset)
             emitted == EmitRetransmission(cleared, outcome)
             armed == ArmTimer(emitted)
  <1>1. InitialRto \in Nat /\ InitialRto <= MaxRto
    BY SMT
  <1>2. /\ reset \in Queue /\ reset.rto = InitialRto /\ reset.retries = p.retries
        /\ reset.modes = p.modes /\ reset.failures = p.failures
    BY <1>1, Zenon DEF Queue
  <1> HIDE DEF reset
  <1>3. cleared \in Queue /\ SameButTimer(reset, cleared)
    BY <1>2, ClearTimerType, ClearTimerFrame
  <1> HIDE DEF cleared
  <1>4. emitted \in Queue /\ Calm(cleared, emitted)
    BY <1>3, EmitRetransmissionType, EmitRetransmissionCalm
  <1> HIDE DEF emitted
  <1>5. SameButTimer(emitted, armed) /\ SameButTimer(emitted, emitted)
    BY <1>4, ArmTimerFrame, CalmReflexive
  <1>6. Calm(reset, armed) /\ Calm(reset, emitted)
    BY <1>3, <1>4, <1>5, CalmBetween
  <1> HIDE DEF armed
  <1>7. FastRetransmit(p, outcome) =
          IF Persisting(p) \/ ~HasOutstanding(p) \/ ~Live(p) THEN p
          ELSE IF outcome = "throws" THEN emitted ELSE armed
    BY Zenon DEF FastRetransmit, armed, emitted, cleared, reset
  <1>8. ASSUME NEW r, Calm(reset, r), ~Persisting(p)
        PROVE  Unhurried(p, r) /\ r.retries = p.retries /\ (Live(r) => Live(p))
    BY <1>1, <1>2, <1>8, Zenon DEF Unhurried, Calm, Live, Closed, Exhausted
  <1> QED
    BY <1>6, <1>7, <1>8, UnhurriedReflexive, Zenon

LEMMA SetPersistPace ==
  ASSUME NEW p \in Queue, p.rto <= MaxRto, NEW enabled \in BOOLEAN, NEW outcome \in EmitOutcomes
  PROVE  LET r == SetPersist(p, enabled, outcome)
         IN /\ Unhurried(p, r)
            /\ IF ~Live(p) \/ Persisting(p) = enabled THEN r = p
               ELSE r.retries = 0
  <1> DEFINE cleared == ClearTimer(p)
             modes == IF enabled THEN cleared.modes \cup {"persist"}
                                 ELSE cleared.modes \ {"persist"}
             reset == [cleared EXCEPT !.modes = modes, !.rto = InitialRto, !.retries = 0]
             emitted == EmitRetransmission(reset, outcome)
             chosen == IF ~enabled /\ HasOutstanding(p) THEN emitted ELSE reset
             armed == ArmTimer(chosen)
  <1>1. cleared \in Queue /\ SameButTimer(p, cleared)
    BY ClearTimerType, ClearTimerFrame
  <1>2. modes \in SUBSET {"persist", "closed", "exhausted"}
    BY <1>1, QueueFields, SMT
  <1>3. enabled = FALSE => "persist" \notin modes
    <2> HIDE DEF cleared
    <2> QED
      BY SMT
  <1>4. InitialRto \in Nat /\ 0 \in Nat /\ InitialRto <= MaxRto
    BY SMT
  <1> HIDE DEF cleared, modes
  <1>5. /\ reset \in Queue /\ reset.modes = modes /\ reset.rto = InitialRto
        /\ reset.retries = 0 /\ reset.failures = cleared.failures
    BY <1>1, <1>2, <1>4, Zenon DEF Queue
  <1>6. reset = [cleared EXCEPT
                   !.modes = IF enabled THEN @ \cup {"persist"} ELSE @ \ {"persist"},
                   !.rto = InitialRto, !.retries = 0]
    BY Zenon DEF modes
  <1> HIDE DEF reset
  <1>7. emitted \in Queue /\ Calm(reset, emitted)
    BY <1>5, EmitRetransmissionType, EmitRetransmissionCalm
  <1> HIDE DEF emitted
  <1>8. chosen \in Queue /\ Calm(reset, chosen)
    BY <1>5, <1>7, CalmReflexive, Zenon
  <1> HIDE DEF chosen
  <1>9. SameButTimer(reset, reset) /\ SameButTimer(chosen, armed)
    BY <1>8, ArmTimerFrame, CalmReflexive
  <1>10. Calm(reset, armed)
    BY <1>8, <1>9, CalmBetween
  <1> HIDE DEF armed
  <1>11. SetPersist(p, enabled, outcome) =
           IF ~Live(p) \/ Persisting(p) = enabled THEN p ELSE armed
    BY <1>6, Zenon DEF SetPersist, armed, chosen, emitted, cleared
  <1>12. ASSUME ~ (Persisting(p) = enabled), Persisting(p)
         PROVE  ~Persisting(armed)
    <2>1. enabled = FALSE
      BY <1>12, Zenon DEF Persisting
    <2>2. ~Persisting(reset)
      BY <1>3, <1>5, <2>1, Zenon DEF Persisting
    <2> QED
      BY <1>10, <2>2, Zenon DEF Calm
  <1>13. armed.rto = InitialRto /\ armed.retries = 0
    BY <1>5, <1>10, Zenon DEF Calm
  <1>14. armed.failures = p.failures \/ armed.failures = Append(p.failures, "thrown")
    BY <1>1, <1>5, <1>10, Zenon DEF Calm, SameButTimer
  <1> QED
    BY <1>4, <1>11, <1>12, <1>13, <1>14, UnhurriedReflexive, Zenon DEF Unhurried

LEMMA FinishAckPace ==
  ASSUME NEW p \in Queue, p.rto <= MaxRto, NEW ack \in SeqNumbers
  PROVE  LET r == FinishAck(p, ack)
         IN Unhurried(p, r) /\ r.retries = 0
  <1> DEFINE moved == [p EXCEPT !.una = ack, !.retries = 0,
                                !.rto = IF Persisting(p) THEN @ ELSE InitialRto]
             armed == ArmTimer(ClearTimer(moved))
  <1>1. 0 \in Nat /\ InitialRto \in Nat /\ InitialRto <= MaxRto /\ p.rto >= p.rto
    BY QueueFields, SMT
  <1>2. /\ moved \in Queue /\ moved.retries = 0 /\ moved.failures = p.failures
        /\ moved.rto = (IF Persisting(p) THEN p.rto ELSE InitialRto)
    BY <1>1, Zenon DEF Queue
  <1>3. FinishAck(p, ack) = armed
    BY Zenon DEF FinishAck
  <1> HIDE DEF moved
  <1>4. SameButTimer(moved, ClearTimer(moved)) /\ ClearTimer(moved) \in Queue
    BY <1>2, ClearTimerFrame, ClearTimerType
  <1>5. SameButTimer(ClearTimer(moved), armed)
    BY <1>4, ArmTimerFrame
  <1> HIDE DEF armed
  <1>6. armed.retries = 0 /\ armed.failures = p.failures /\ armed.rto = moved.rto
    BY <1>2, <1>4, <1>5, Zenon DEF SameButTimer
  <1> QED
    BY <1>1, <1>2, <1>3, <1>6, Zenon DEF Unhurried

LEMMA DuplicateAckPace ==
  ASSUME NEW p \in Queue, p.rto <= MaxRto
  PROVE  LET r == DuplicateAck(p)
         IN /\ Unhurried(p, r) /\ (Live(r) <=> Live(p))
            /\ IF Persisting(p) THEN r.retries = 0 ELSE r = p
  <1> DEFINE reset == [p EXCEPT !.retries = 0]
  <1>1. /\ reset.rto = p.rto /\ reset.modes = p.modes /\ reset.failures = p.failures
        /\ reset.retries = 0
    BY Zenon DEF Queue
  <1>2. DuplicateAck(p) = IF Persisting(p) THEN reset ELSE p
    BY Zenon DEF DuplicateAck
  <1> HIDE DEF reset
  <1>3. p.rto >= p.rto
    BY QueueFields, SMT
  <1>4. Unhurried(p, reset) /\ (Live(reset) <=> Live(p))
    BY <1>1, <1>3, Zenon DEF Unhurried, Live, Closed, Exhausted
  <1> QED
    BY <1>1, <1>2, <1>4, UnhurriedReflexive, Zenon
-----------------------------------------------------------------------------
(* Moving a position forward, around the end of the sequence space.        *)

LEMMA MovedType ==
  ASSUME NEW pos \in SeqNumbers, NEW k \in 0 .. SeqSpace
  PROVE  /\ (pos + k) % SeqSpace \in SeqNumbers
         /\ (pos + k) % SeqSpace = IF pos + k >= SeqSpace THEN pos + k - SeqSpace ELSE pos + k
  <1>1. (pos + k) % SeqSpace = IF pos + k >= SeqSpace THEN pos + k - SeqSpace ELSE pos + k
    BY SeqSpaceType, SMTT(20) DEF SeqNumbers
  <1>2. (pos + k) % SeqSpace \in SeqNumbers
    BY <1>1, SeqSpaceType, SMTT(20) DEF SeqNumbers
  <1> QED
    BY <1>1, <1>2

\* What is ahead of the position comes closer by as much as the position moves.
LEMMA MovedPosition ==
  ASSUME NEW a \in SeqNumbers, NEW pos \in SeqNumbers,
         NEW k \in 0 .. SequenceDistance(a, pos)
  PROVE  SequenceDistance(a, (pos + k) % SeqSpace) = SequenceDistance(a, pos) - k
  <1>1. SequenceDistance(a, pos) = IF a >= pos THEN a - pos ELSE a - pos + SeqSpace
    BY DistanceCases
  <1>2. k \in 0 .. SeqSpace
    BY <1>1, SeqSpaceType, SMTT(20) DEF SeqNumbers
  <1> DEFINE to == (pos + k) % SeqSpace
  <1>3. /\ to \in SeqNumbers
        /\ to = IF pos + k >= SeqSpace THEN pos + k - SeqSpace ELSE pos + k
    BY <1>2, MovedType
  <1> HIDE DEF to
  <1>4. SequenceDistance(a, to) = IF a >= to THEN a - to ELSE a - to + SeqSpace
    BY <1>3, DistanceCases
  <1>5. SequenceDistance(a, to) = SequenceDistance(a, pos) - k
    BY <1>1, <1>2, <1>3, <1>4, SeqSpaceType, SMTT(20) DEF SeqNumbers
  <1> QED
    BY <1>5 DEF to

\* A target moves away by as much as it moves, while all is less than once around.
LEMMA MovedTarget ==
  ASSUME NEW a \in SeqNumbers, NEW pos \in SeqNumbers,
         NEW k \in Nat, SequenceDistance(a, pos) + k < SeqSpace
  PROVE  SequenceDistance((a + k) % SeqSpace, pos) = SequenceDistance(a, pos) + k
  <1>1. /\ SequenceDistance(a, pos) = IF a >= pos THEN a - pos ELSE a - pos + SeqSpace
        /\ SequenceDistance(a, pos) \in SeqNumbers
    BY DistanceCases, DistanceType
  <1>2. k \in 0 .. SeqSpace
    BY <1>1, SeqSpaceType, SMTT(20) DEF SeqNumbers
  <1> DEFINE to == (a + k) % SeqSpace
  <1>3. /\ to \in SeqNumbers
        /\ to = IF a + k >= SeqSpace THEN a + k - SeqSpace ELSE a + k
    BY <1>2, MovedType
  <1> HIDE DEF to
  <1>4. SequenceDistance(to, pos) = IF to >= pos THEN to - pos ELSE to - pos + SeqSpace
    BY <1>3, DistanceCases
  <1>5. SequenceDistance(to, pos) = SequenceDistance(a, pos) + k
    BY <1>1, <1>2, <1>3, <1>4, SeqSpaceType, SMTT(20) DEF SeqNumbers
  <1> QED
    BY <1>5 DEF to

\* Numbers at no distance are the same.
LEMMA NoDistance ==
  ASSUME NEW a \in SeqNumbers, NEW b \in SeqNumbers
  PROVE  SequenceDistance(a, b) = 0 <=> a = b
  BY DistanceCases, SeqSpaceType, SMTT(20) DEF SeqNumbers

\* Going back from ack by what remains and then forward by k of it.
LEMMA MovedBack ==
  ASSUME NEW ack \in SeqNumbers, NEW left \in SeqNumbers, NEW k \in 0 .. left
  PROVE  /\ (ack - left) % SeqSpace \in SeqNumbers
         /\ (ack - (left - k)) % SeqSpace = (((ack - left) % SeqSpace) + k) % SeqSpace
  <1>1. left - k \in SeqNumbers /\ k \in 0 .. SeqSpace
    BY SeqSpaceType, SMT DEF SeqNumbers
  <1> DEFINE from == (ack - left) % SeqSpace
             to == (ack - (left - k)) % SeqSpace
  <1>2. /\ from \in SeqNumbers
        /\ from = IF ack >= left THEN ack - left ELSE ack - left + SeqSpace
    BY DistanceCases, DistanceType DEF SequenceDistance
  <1>3. to = IF ack >= left - k THEN ack - (left - k) ELSE ack - (left - k) + SeqSpace
    <2>1. SequenceDistance(ack, left - k) =
            IF ack >= left - k THEN ack - (left - k) ELSE ack - (left - k) + SeqSpace
      BY <1>1, DistanceCases
    <2> QED
      BY <2>1, Zenon DEF SequenceDistance
  <1> HIDE DEF from, to
  <1>4. (from + k) % SeqSpace =
          IF from + k >= SeqSpace THEN from + k - SeqSpace ELSE from + k
    BY <1>1, <1>2, MovedType
  <1>5. to = (from + k) % SeqSpace
    BY <1>1, <1>2, <1>3, <1>4, SeqSpaceType, SMTT(20) DEF SeqNumbers
  <1> QED
    BY <1>2, <1>5 DEF from, to
-----------------------------------------------------------------------------
(* The segments in the queue, as a function of the list, the number its    *)
(* first segment should start at, and the number after the last.           *)

Consistent(segs) ==
  \A i \in 1 .. Len(segs) :
    /\ segs[i].size = SequenceLength(segs[i].len, segs[i].flags)
    /\ segs[i].size > 0
    /\ segs[i].first = (segs[i].seq + Flag("syn", segs[i].flags)) % SeqSpace

At(segs, pos, i) == SequenceDistance(segs[i].seq, pos)
EndsAt(segs, pos, i) == At(segs, pos, i) + segs[i].size

\* The two last parts follow from the others by induction on the list; stated,
\* they make the whole inductive.
Laid(segs, pos, end) ==
  /\ segs = <<>> => end = pos
  /\ segs # <<>> => /\ At(segs, pos, 1) = 0
                    /\ EndsAt(segs, pos, Len(segs)) = SequenceDistance(end, pos)
  /\ \A i \in 1 .. Len(segs) - 1 : EndsAt(segs, pos, i) = At(segs, pos, i + 1)
  /\ \A i, j \in 1 .. Len(segs) : i < j => EndsAt(segs, pos, i) <= At(segs, pos, j)
  /\ \A i \in 1 .. Len(segs) : EndsAt(segs, pos, i) <= SequenceDistance(end, pos)

LEMMA SegmentFields ==
  ASSUME NEW s \in Segment
  PROVE  /\ s.seq \in SeqNumbers /\ s.first \in SeqNumbers
         /\ s.len \in Nat /\ s.size \in Int /\ s.flags \in Flags
  BY Zenon DEF Segment

LEMMA AtType ==
  ASSUME NEW segs \in Seq(Segment), NEW pos \in SeqNumbers, NEW i \in 1 .. Len(segs)
  PROVE  /\ segs[i] \in Segment /\ At(segs, pos, i) \in SeqNumbers /\ At(segs, pos, i) \in Nat
         /\ segs[i].size \in Int /\ EndsAt(segs, pos, i) \in Int
  <1>1. segs[i] \in Segment
    BY SMT
  <1>2. segs[i].seq \in SeqNumbers /\ segs[i].size \in Int
    BY <1>1, SegmentFields
  <1>3. At(segs, pos, i) \in SeqNumbers
    BY <1>2, DistanceType DEF At
  <1>4. At(segs, pos, i) \in Nat
    BY <1>3, SMT DEF SeqNumbers
  <1>5. EndsAt(segs, pos, i) \in Int
    BY <1>2, <1>4, SMT DEF EndsAt
  <1> QED
    BY <1>1, <1>2, <1>3, <1>4, <1>5

\* track(): the new segment starts where the numbers in use end.
LEMMA AppendLaid ==
  ASSUME NEW segs \in Seq(Segment), NEW pos \in SeqNumbers, NEW end \in SeqNumbers,
         Laid(segs, pos, end), NEW s \in Segment, s.seq = end, s.size > 0,
         SequenceDistance(end, pos) + s.size < SeqSpace
  PROVE  Laid(Append(segs, s), pos, (end + s.size) % SeqSpace)
  <1> DEFINE more == Append(segs, s)
             n == Len(segs)
             used == SequenceDistance(end, pos)
             to == (end + s.size) % SeqSpace
  <1>1. /\ n \in Nat /\ Len(more) = n + 1 /\ more # <<>> /\ more[n + 1] = s
        /\ \A i \in 1 .. n : more[i] = segs[i]
    BY SMT
  <1>2. s.size \in Nat /\ used \in Nat /\ used \in SeqNumbers
    <2>1. s.size \in Int /\ used \in SeqNumbers
      BY SegmentFields, DistanceType
    <2> QED
      BY <2>1, SMT DEF SeqNumbers
  <1>3. SequenceDistance(to, pos) = used + s.size
    BY <1>2, MovedTarget
  <1>4. \A i \in 1 .. n : /\ At(more, pos, i) = At(segs, pos, i)
                          /\ EndsAt(more, pos, i) = EndsAt(segs, pos, i)
                          /\ At(segs, pos, i) \in Nat /\ EndsAt(segs, pos, i) \in Int
    BY <1>1, AtType, Zenon DEF At, EndsAt
  <1>5. At(more, pos, n + 1) = used /\ EndsAt(more, pos, n + 1) = used + s.size
    BY <1>1 DEF At, EndsAt
  <1>6. n = 0 => used = 0
    <2>1. n = 0 => segs = <<>>
      BY SMT
    <2> QED
      BY <2>1, NoDistance, Zenon DEF Laid
  <1>7. n > 0 => At(segs, pos, 1) = 0 /\ EndsAt(segs, pos, n) = used
    <2>1. n > 0 => segs # <<>>
      BY SMT
    <2> QED
      BY <2>1, Zenon DEF Laid
  <1>8. /\ \A i \in 1 .. n - 1 : EndsAt(segs, pos, i) = At(segs, pos, i + 1)
        /\ \A i, j \in 1 .. n : i < j => EndsAt(segs, pos, i) <= At(segs, pos, j)
        /\ \A i \in 1 .. n : EndsAt(segs, pos, i) <= used
    BY DEF Laid
  <1> HIDE DEF more, n, used, to
  <1>9. At(more, pos, 1) = 0 /\ EndsAt(more, pos, n + 1) = SequenceDistance(to, pos)
    BY <1>1, <1>2, <1>3, <1>4, <1>5, <1>6, <1>7, SMT
  <1>10. \A i \in 1 .. (n + 1) - 1 : EndsAt(more, pos, i) = At(more, pos, i + 1)
    <2> SUFFICES ASSUME NEW i \in 1 .. (n + 1) - 1
                 PROVE  EndsAt(more, pos, i) = At(more, pos, i + 1)
      OBVIOUS
    <2>1. i \in 1 .. n
      BY <1>1, SMT
    <2>2. CASE i = n
      BY <1>1, <1>4, <1>5, <1>7, <2>1, <2>2, SMT
    <2>3. CASE i # n
      <3>1. i \in 1 .. n - 1 /\ i + 1 \in 1 .. n
        BY <1>1, <2>1, <2>3, SMT
      <3> QED
        BY <1>4, <1>8, <2>1, <3>1, Zenon
    <2> QED
      BY <2>2, <2>3
  <1>11. \A i, j \in 1 .. n + 1 : i < j => EndsAt(more, pos, i) <= At(more, pos, j)
    <2> SUFFICES ASSUME NEW i \in 1 .. n + 1, NEW j \in 1 .. n + 1, i < j
                 PROVE  EndsAt(more, pos, i) <= At(more, pos, j)
      OBVIOUS
    <2>1. i \in 1 .. n
      BY <1>1, SMT
    <2>2. CASE j = n + 1
      BY <1>4, <1>5, <1>8, <2>1, <2>2, Zenon
    <2>3. CASE j # n + 1
      <3>1. j \in 1 .. n
        BY <1>1, <2>3, SMT
      <3> QED
        BY <1>4, <1>8, <2>1, <3>1, Zenon
    <2> QED
      BY <2>2, <2>3
  <1>12. \A i \in 1 .. n + 1 : EndsAt(more, pos, i) <= SequenceDistance(to, pos)
    <2> SUFFICES ASSUME NEW i \in 1 .. n + 1
                 PROVE  EndsAt(more, pos, i) <= used + s.size
      BY <1>3
    <2>1. CASE i = n + 1
      BY <1>2, <1>5, <2>1, SMT
    <2>2. CASE i # n + 1
      <3>1. i \in 1 .. n
        BY <1>1, <2>2, SMT
      <3>2. EndsAt(more, pos, i) \in Int /\ EndsAt(more, pos, i) <= used
        BY <1>4, <1>8, <3>1, Zenon
      <3> QED
        BY <1>2, <3>2, SMT
    <2> QED
      BY <2>1, <2>2
  <1>13. Laid(more, pos, to)
    BY <1>1, <1>9, <1>10, <1>11, <1>12, Zenon DEF Laid
  <1> QED
    BY <1>13 DEF more, to

\* shift(): the position moves to where the second segment starts.
LEMMA TailLaid ==
  ASSUME NEW segs \in Seq(Segment), segs # <<>>, NEW pos \in SeqNumbers, NEW end \in SeqNumbers,
         Laid(segs, pos, end), NEW k \in Nat, k = segs[1].size
  PROVE  /\ k <= SequenceDistance(end, pos)
         /\ Laid(Tail(segs), (pos + k) % SeqSpace, end)
  <1> DEFINE rest == Tail(segs)
             n == Len(segs)
             used == SequenceDistance(end, pos)
             to == (pos + k) % SeqSpace
  <1>1. /\ n \in Nat \ {0} /\ Len(rest) = n - 1 /\ rest \in Seq(Segment)
        /\ (rest = <<>> <=> n = 1) /\ 1 \in 1 .. n
        /\ \A i \in 1 .. n - 1 : rest[i] = segs[i + 1]
    <2>1. n \in Nat \ {0} /\ Len(rest) = n - 1 /\ rest \in Seq(Segment)
      BY SMT
    <2>2. \A i \in 1 .. n - 1 : rest[i] = segs[i + 1]
      BY <2>1, SMT
    <2> HIDE DEF rest, n
    <2>3. rest = <<>> <=> Len(rest) = 0
      BY <2>1, SMT
    <2>4. (Len(rest) = 0 <=> n = 1) /\ 1 \in 1 .. n
      BY <2>1, SMT
    <2> QED
      BY <2>1, <2>2, <2>3, <2>4
  <1>2. /\ At(segs, pos, 1) = 0 /\ EndsAt(segs, pos, n) = used
        /\ \A i \in 1 .. n - 1 : EndsAt(segs, pos, i) = At(segs, pos, i + 1)
        /\ \A i, j \in 1 .. n : i < j => EndsAt(segs, pos, i) <= At(segs, pos, j)
        /\ \A i \in 1 .. n : EndsAt(segs, pos, i) <= used
    BY DEF Laid
  <1>3. used \in SeqNumbers /\ used \in Nat
    <2>1. used \in SeqNumbers
      BY DistanceType
    <2> QED
      BY <2>1, SMT DEF SeqNumbers
  <1>4. EndsAt(segs, pos, 1) = k
    BY <1>2, SMT DEF EndsAt
  <1>5. k \in 0 .. used
    BY <1>1, <1>2, <1>3, <1>4, SMT
  <1>6. to \in SeqNumbers /\ SequenceDistance(end, to) = used - k
    <2>1. k \in 0 .. SeqSpace
      BY <1>3, <1>5, SeqSpaceType, SMT DEF SeqNumbers
    <2> QED
      BY <1>5, <2>1, MovedType, MovedPosition
  <1>7. ASSUME NEW i \in 1 .. n - 1
        PROVE  /\ At(rest, to, i) = At(segs, pos, i + 1) - k
               /\ EndsAt(rest, to, i) = EndsAt(segs, pos, i + 1) - k
               /\ i + 1 \in 1 .. n
               /\ At(segs, pos, i + 1) \in Nat /\ EndsAt(segs, pos, i + 1) \in Int
    <2>1. i + 1 \in 1 .. n /\ 1 < i + 1 /\ rest[i] = segs[i + 1]
      BY <1>1, SMT
    <2>2. /\ segs[i + 1] \in Segment /\ segs[i + 1].size \in Int
          /\ At(segs, pos, i + 1) \in Nat /\ EndsAt(segs, pos, i + 1) \in Int
      BY <2>1, AtType
    <2>3. segs[i + 1].seq \in SeqNumbers
      BY <2>2, SegmentFields
    <2>4. k <= At(segs, pos, i + 1)
      BY <1>1, <1>2, <1>4, <2>1, Zenon
    <2>5. k \in 0 .. SequenceDistance(segs[i + 1].seq, pos)
      BY <2>2, <2>4, SMT DEF At
    <2>6. At(rest, to, i) = At(segs, pos, i + 1) - k
      BY <2>1, <2>3, <2>5, MovedPosition DEF At
    <2>7. EndsAt(rest, to, i) = EndsAt(segs, pos, i + 1) - k
      BY <2>1, <2>2, <2>6, SMT DEF EndsAt
    <2> QED
      BY <2>1, <2>2, <2>6, <2>7
  <1> HIDE DEF rest, n, used, to
  <1>8. rest = <<>> => end = to
    <2>1. ASSUME n = 1 PROVE SequenceDistance(end, to) = 0
      BY <1>2, <1>4, <1>6, <1>3, <2>1, SMT
    <2> QED
      BY <1>1, <1>6, <2>1, NoDistance, Zenon
  <1>9. ASSUME rest # <<>>
        PROVE  At(rest, to, 1) = 0 /\ EndsAt(rest, to, Len(rest)) = SequenceDistance(end, to)
    <2>1. n # 1 /\ 1 \in 1 .. n - 1 /\ n - 1 \in 1 .. n - 1 /\ (n - 1) + 1 = n /\ 1 + 1 = 2
      BY <1>1, <1>9, SMT
    <2>2. At(segs, pos, 2) = k
      BY <1>2, <1>4, <2>1, Zenon
    <2>3. At(rest, to, 1) = k - k
      BY <1>7, <2>1, <2>2, Zenon
    <2>4. EndsAt(rest, to, n - 1) = used - k
      BY <1>2, <1>7, <2>1, Zenon
    <2>5. k - k = 0
      BY SMT
    <2> QED
      BY <1>1, <1>6, <2>3, <2>4, <2>5, Zenon
  <1>10. \A i \in 1 .. Len(rest) - 1 : EndsAt(rest, to, i) = At(rest, to, i + 1)
    <2> SUFFICES ASSUME NEW i \in 1 .. (n - 1) - 1
                 PROVE  EndsAt(rest, to, i) = At(rest, to, i + 1)
      BY <1>1
    <2>1. i \in 1 .. n - 1 /\ i + 1 \in 1 .. n - 1
      BY <1>1, SMT
    <2>2. EndsAt(segs, pos, i + 1) = At(segs, pos, (i + 1) + 1)
      BY <1>2, <2>1, Zenon
    <2> QED
      BY <1>7, <2>1, <2>2, Zenon
  <1>11. \A i, j \in 1 .. Len(rest) : i < j => EndsAt(rest, to, i) <= At(rest, to, j)
    <2> SUFFICES ASSUME NEW i \in 1 .. n - 1, NEW j \in 1 .. n - 1, i < j
                 PROVE  EndsAt(rest, to, i) <= At(rest, to, j)
      BY <1>1
    <2>1. i + 1 < j + 1 /\ i + 1 \in 1 .. n /\ j + 1 \in 1 .. n
      BY <1>1, SMT
    <2>2. EndsAt(segs, pos, i + 1) <= At(segs, pos, j + 1)
      BY <1>2, <2>1, Zenon
    <2>3. /\ EndsAt(rest, to, i) = EndsAt(segs, pos, i + 1) - k
          /\ At(rest, to, j) = At(segs, pos, j + 1) - k
          /\ At(segs, pos, j + 1) \in Nat /\ EndsAt(segs, pos, i + 1) \in Int
      BY <1>7
    <2> QED
      BY <2>2, <2>3, SMT
  <1>12. \A i \in 1 .. Len(rest) : EndsAt(rest, to, i) <= SequenceDistance(end, to)
    <2> SUFFICES ASSUME NEW i \in 1 .. n - 1
                 PROVE  EndsAt(rest, to, i) <= used - k
      BY <1>1, <1>6
    <2>1. /\ EndsAt(rest, to, i) = EndsAt(segs, pos, i + 1) - k /\ i + 1 \in 1 .. n
          /\ EndsAt(segs, pos, i + 1) \in Int
      BY <1>7
    <2>2. EndsAt(segs, pos, i + 1) <= used
      BY <1>2, <2>1, Zenon
    <2> QED
      BY <1>3, <2>1, <2>2, SMT
  <1>13. Laid(rest, to, end)
    BY <1>8, <1>9, <1>10, <1>11, <1>12, Zenon DEF Laid
  <1>14. k <= used
    BY <1>3, <1>5, SMT
  <1> QED
    BY <1>13, <1>14 DEF rest, to, used

\* consumeSegmentPrefix: the first segment starts later and is shorter.
LEMMA HeadLaid ==
  ASSUME NEW segs \in Seq(Segment), segs # <<>>, NEW pos \in SeqNumbers, NEW end \in SeqNumbers,
         Laid(segs, pos, end), NEW k \in Nat, k < segs[1].size,
         NEW s \in Segment, s.seq = (segs[1].seq + k) % SeqSpace, s.size = segs[1].size - k
  PROVE  /\ k <= SequenceDistance(end, pos)
         /\ Laid([segs EXCEPT ![1] = s], (pos + k) % SeqSpace, end)
  <1> DEFINE rest == [segs EXCEPT ![1] = s]
             n == Len(segs)
             used == SequenceDistance(end, pos)
             to == (pos + k) % SeqSpace
  <1>1. /\ n \in Nat \ {0} /\ Len(rest) = n /\ rest # <<>> /\ 1 \in 1 .. n /\ n \in 1 .. n
        /\ rest[1] = s /\ \A i \in 1 .. n : i # 1 => rest[i] = segs[i]
    <2>1. n \in Nat \ {0} /\ Len(rest) = n /\ rest \in Seq(Segment) /\ DOMAIN segs = 1 .. n
      BY SMT
    <2>2. 1 \in 1 .. n /\ n \in 1 .. n
      BY <2>1, SMT
    <2>3. rest # <<>>
      <3> HIDE DEF rest, n
      <3> QED
        BY <2>1, SMT
    <2>4. rest[1] = s /\ \A i \in 1 .. n : i # 1 => rest[i] = segs[i]
      BY <2>1, <2>2, Zenon
    <2> QED
      BY <2>1, <2>2, <2>3, <2>4
  <1>2. /\ At(segs, pos, 1) = 0 /\ EndsAt(segs, pos, n) = used
        /\ \A i \in 1 .. n - 1 : EndsAt(segs, pos, i) = At(segs, pos, i + 1)
        /\ \A i, j \in 1 .. n : i < j => EndsAt(segs, pos, i) <= At(segs, pos, j)
        /\ \A i \in 1 .. n : EndsAt(segs, pos, i) <= used
    BY DEF Laid
  <1>3. used \in SeqNumbers /\ used \in Nat
    <2>1. used \in SeqNumbers
      BY DistanceType
    <2> QED
      BY <2>1, SMT DEF SeqNumbers
  <1>4. /\ segs[1] \in Segment /\ segs[1].seq \in SeqNumbers /\ segs[1].size \in Int
        /\ segs[1].seq = pos /\ EndsAt(segs, pos, 1) = segs[1].size
    <2>1. segs[1] \in Segment /\ segs[1].seq \in SeqNumbers /\ segs[1].size \in Int
      BY <1>1, AtType, SegmentFields
    <2>2. segs[1].seq = pos
      BY <1>2, <2>1, NoDistance DEF At
    <2>3. EndsAt(segs, pos, 1) = segs[1].size
      BY <1>2, <2>1, SMT DEF EndsAt
    <2> QED
      BY <2>1, <2>2, <2>3
  <1>5. k \in 0 .. used /\ k <= used
    <2>1. segs[1].size <= used
      BY <1>1, <1>2, <1>4, Zenon
    <2> QED
      BY <1>3, <1>4, <2>1, SMT
  <1>6. to \in SeqNumbers /\ SequenceDistance(end, to) = used - k
    <2>1. k \in 0 .. SeqSpace
      BY <1>3, <1>5, SeqSpaceType, SMT DEF SeqNumbers
    <2> QED
      BY <1>5, <2>1, MovedType, MovedPosition
  <1>7. At(rest, to, 1) = 0 /\ EndsAt(rest, to, 1) = EndsAt(segs, pos, 1) - k
    <2>1. At(rest, to, 1) = 0
      BY <1>1, <1>4, <1>6, NoDistance DEF At
    <2> QED
      BY <1>1, <1>4, <2>1, SMT DEF EndsAt
  <1>8. ASSUME NEW i \in 1 .. n, i # 1
        PROVE  /\ At(rest, to, i) = At(segs, pos, i) - k
               /\ EndsAt(rest, to, i) = EndsAt(segs, pos, i) - k
               /\ At(segs, pos, i) \in Nat
    <2>1. 1 < i /\ rest[i] = segs[i]
      BY <1>1, <1>8, SMT
    <2>2. segs[i] \in Segment /\ segs[i].size \in Int /\ At(segs, pos, i) \in Nat
      BY AtType
    <2>3. segs[i].seq \in SeqNumbers
      BY <2>2, SegmentFields
    <2>4. segs[1].size <= At(segs, pos, i)
      BY <1>1, <1>2, <1>4, <2>1, Zenon
    <2>5. k \in 0 .. SequenceDistance(segs[i].seq, pos)
      BY <1>4, <2>2, <2>4, SMT DEF At
    <2>6. At(rest, to, i) = At(segs, pos, i) - k
      BY <2>1, <2>3, <2>5, MovedPosition DEF At
    <2>7. EndsAt(rest, to, i) = EndsAt(segs, pos, i) - k
      BY <2>1, <2>2, <2>6, SMT DEF EndsAt
    <2> QED
      BY <2>2, <2>6, <2>7
  <1>9. \A i \in 1 .. n : /\ EndsAt(rest, to, i) = EndsAt(segs, pos, i) - k
                          /\ EndsAt(segs, pos, i) \in Int
    BY <1>7, <1>8, AtType, Zenon
  <1> HIDE DEF rest, n, used, to
  <1>10. EndsAt(rest, to, n) = SequenceDistance(end, to)
    BY <1>1, <1>2, <1>6, <1>9, Zenon
  <1>11. \A i \in 1 .. n - 1 : EndsAt(rest, to, i) = At(rest, to, i + 1)
    <2> SUFFICES ASSUME NEW i \in 1 .. n - 1
                 PROVE  EndsAt(rest, to, i) = At(rest, to, i + 1)
      OBVIOUS
    <2>1. i \in 1 .. n /\ i + 1 \in 1 .. n /\ i + 1 # 1
      BY <1>1, SMT
    <2> QED
      BY <1>2, <1>8, <1>9, <2>1, Zenon
  <1>12. \A i, j \in 1 .. n : i < j => EndsAt(rest, to, i) <= At(rest, to, j)
    <2> SUFFICES ASSUME NEW i \in 1 .. n, NEW j \in 1 .. n, i < j
                 PROVE  EndsAt(rest, to, i) <= At(rest, to, j)
      OBVIOUS
    <2>1. j # 1
      BY <1>1, SMT
    <2>2. EndsAt(segs, pos, i) <= At(segs, pos, j)
      BY <1>2, Zenon
    <2>3. At(rest, to, j) = At(segs, pos, j) - k /\ At(segs, pos, j) \in Nat
      BY <1>8, <2>1, Zenon
    <2>4. EndsAt(rest, to, i) = EndsAt(segs, pos, i) - k /\ EndsAt(segs, pos, i) \in Int
      BY <1>9, Zenon
    <2> QED
      BY <2>2, <2>3, <2>4, SMT
  <1>13. \A i \in 1 .. n : EndsAt(rest, to, i) <= SequenceDistance(end, to)
    <2> SUFFICES ASSUME NEW i \in 1 .. n
                 PROVE  EndsAt(rest, to, i) <= used - k
      BY <1>6
    <2>1. EndsAt(segs, pos, i) <= used
      BY <1>2, Zenon
    <2>2. EndsAt(rest, to, i) = EndsAt(segs, pos, i) - k /\ EndsAt(segs, pos, i) \in Int
      BY <1>9, Zenon
    <2> QED
      BY <1>3, <2>1, <2>2, SMT
  <1>14. Laid(rest, to, end)
    BY <1>1, <1>7, <1>10, <1>11, <1>12, <1>13, Zenon DEF Laid
  <1> QED
    BY <1>5, <1>14 DEF rest, to, used
-----------------------------------------------------------------------------
(* What a segment says of itself.                                          *)

Describes(s) ==
  /\ s.size = SequenceLength(s.len, s.flags)
  /\ s.size > 0
  /\ s.first = (s.seq + Flag("syn", s.flags)) % SeqSpace

LEMMA ConsistentIs ==
  ASSUME NEW segs
  PROVE  Consistent(segs) <=> \A i \in 1 .. Len(segs) : Describes(segs[i])
  BY Zenon DEF Consistent, Describes

LEMMA AppendConsistent ==
  ASSUME NEW segs \in Seq(Segment), Consistent(segs), NEW s \in Segment, Describes(s)
  PROVE  Consistent(Append(segs, s))
  <1> DEFINE more == Append(segs, s)
  <1>1. /\ Len(segs) \in Nat /\ Len(more) = Len(segs) + 1 /\ more[Len(segs) + 1] = s
        /\ \A i \in 1 .. Len(segs) : more[i] = segs[i]
    BY SMT
  <1> HIDE DEF more
  <1>2. ASSUME NEW i \in 1 .. Len(more) PROVE Describes(more[i])
    <2>1. i = Len(segs) + 1 \/ i \in 1 .. Len(segs)
      BY <1>1, SMT
    <2> QED
      BY <1>1, <2>1, ConsistentIs, Zenon
  <1>3. Consistent(more)
    BY <1>2, ConsistentIs
  <1> QED
    BY <1>3 DEF more

LEMMA TailConsistent ==
  ASSUME NEW segs \in Seq(Segment), segs # <<>>, Consistent(segs)
  PROVE  Consistent(Tail(segs))
  <1> DEFINE rest == Tail(segs)
  <1>1. /\ Len(segs) \in Nat \ {0} /\ Len(rest) = Len(segs) - 1
        /\ \A i \in 1 .. Len(segs) - 1 : rest[i] = segs[i + 1]
    BY SMT
  <1> HIDE DEF rest
  <1>2. ASSUME NEW i \in 1 .. Len(rest) PROVE Describes(rest[i])
    <2>1. i \in 1 .. Len(segs) - 1 /\ i + 1 \in 1 .. Len(segs)
      BY <1>1, SMT
    <2> QED
      BY <1>1, <2>1, ConsistentIs, Zenon
  <1>3. Consistent(rest)
    BY <1>2, ConsistentIs
  <1> QED
    BY <1>3 DEF rest

LEMMA HeadConsistent ==
  ASSUME NEW segs \in Seq(Segment), segs # <<>>, Consistent(segs),
         NEW s \in Segment, Describes(s)
  PROVE  Consistent([segs EXCEPT ![1] = s])
  <1> DEFINE rest == [segs EXCEPT ![1] = s]
  <1>1. Len(segs) \in Nat \ {0} /\ Len(rest) = Len(segs) /\ DOMAIN segs = 1 .. Len(segs)
    BY SMT
  <1>2. ASSUME NEW i \in 1 .. Len(segs) PROVE Describes(rest[i])
    BY <1>1, ConsistentIs, Zenon
  <1> HIDE DEF rest
  <1>3. Consistent(rest)
    BY <1>1, <1>2, ConsistentIs, Zenon
  <1> QED
    BY <1>3 DEF rest

\* The two throws of acknowledge() in one lemma: of a segment that describes
\* itself, any proper prefix can be consumed to the last number, the SYN before
\* the payload and the payload before the FIN; what is left describes itself,
\* starts that much later and still carries the bytes its numbers stand for.
LEMMA PrefixDescribes ==
  ASSUME NEW s \in Segment, Describes(s), s.size < Half, NEW count \in Nat \ {0}, count < s.size
  PROVE  LET rest == ConsumeSegmentPrefix(s, count)
         IN /\ ConsumesExactly(s, count)
            /\ Describes(rest)
            /\ rest.seq = (s.seq + count) % SeqSpace
            /\ rest.size = s.size - count
            /\ rest.len = s.len - ConsumedData(s, count)
  <1> DEFINE rest == ConsumeSegmentPrefix(s, count)
             syn == ConsumedSyn(s, count)
             data == ConsumedData(s, count)
             fin == ConsumedFin(s, count)
             left == s.flags \ (Spent("syn", syn) \cup Spent("fin", fin))
  <1>1. /\ s.seq \in SeqNumbers /\ s.first \in SeqNumbers
        /\ s.len \in Nat /\ s.size \in Int /\ s.flags \in Flags
    BY SegmentFields
  <1>2. /\ s.size = s.len + Flag("syn", s.flags) + Flag("fin", s.flags)
        /\ s.first = (s.seq + Flag("syn", s.flags)) % SeqSpace
    BY DEF Describes, SequenceLength
  <1>3. Flag("syn", s.flags) \in {0, 1} /\ Flag("fin", s.flags) \in {0, 1}
    BY SMT DEF Flag
  <1>4. syn = Flag("syn", s.flags)
    BY SMT DEF ConsumedSyn
  <1>5. data = count - syn /\ data \in 0 .. s.len
    <2>1. data = IF count - syn < s.len THEN count - syn ELSE s.len
      BY Zenon DEF ConsumedData
    <2> HIDE DEF syn, data
    <2> QED
      BY <1>1, <1>2, <1>3, <1>4, <2>1, SMT
  <1>6. fin = 0
    <2>1. fin = IF count - syn - data > 0 THEN Flag("fin", s.flags) ELSE 0
      BY Zenon DEF ConsumedFin
    <2> HIDE DEF syn, data, fin
    <2> QED
      BY <1>3, <1>4, <1>5, <2>1, SMT
  <1>7. Flag("syn", left) = 0 /\ Flag("fin", left) = Flag("fin", s.flags)
    <2>1. fin = 0 /\ Spent("fin", fin) = {}
      BY <1>6, SMT DEF Spent
    <2>2. syn > 0 => "syn" \in Spent("syn", syn)
      BY SMT DEF Spent
    <2>3. "fin" \notin Spent("syn", syn)
      BY SMT DEF Spent
    <2>4. "syn" \in s.flags => syn = 1
      BY <1>4, SMT DEF Flag
    <2> HIDE DEF syn, fin
    <2> QED
      BY <2>1, <2>2, <2>3, <2>4, SMT DEF Flag
  <1>8. /\ rest.seq = (s.seq + count) % SeqSpace
        /\ rest.first = (s.first + data) % SeqSpace
        /\ rest.len = s.len - data
        /\ rest.size = s.size - syn - data - fin
        /\ rest.flags = left
    BY Zenon DEF ConsumeSegmentPrefix
  <1> HIDE DEF rest, syn, data, fin, left
  <1>9. rest.size = s.size - count /\ rest.size > 0
    BY <1>1, <1>3, <1>4, <1>5, <1>6, <1>8, SMT
  <1>10. rest.size = SequenceLength(rest.len, rest.flags)
    BY <1>1, <1>2, <1>3, <1>4, <1>5, <1>6, <1>7, <1>8, SMT DEF SequenceLength
  <1>11. count = syn + data + fin
    BY <1>3, <1>4, <1>5, <1>6, SMT
  <1>12. rest.first = (rest.seq + Flag("syn", rest.flags)) % SeqSpace
    <2>1. syn \in 0 .. SeqSpace /\ data \in 0 .. SeqSpace /\ count \in 0 .. SeqSpace
      BY <1>1, <1>2, <1>3, <1>4, <1>5, SeqSpaceType, SMT DEF SeqSpace
    <2>2. s.first = IF s.seq + syn >= SeqSpace THEN s.seq + syn - SeqSpace ELSE s.seq + syn
      BY <1>1, <1>2, <1>4, <2>1, MovedType
    <2>3. rest.first = IF s.first + data >= SeqSpace THEN s.first + data - SeqSpace
                       ELSE s.first + data
      BY <1>1, <1>8, <2>1, MovedType
    <2>4. /\ rest.seq = IF s.seq + count >= SeqSpace THEN s.seq + count - SeqSpace
                        ELSE s.seq + count
          /\ rest.seq \in SeqNumbers
      BY <1>1, <1>8, <2>1, MovedType
    <2>5. (rest.seq + Flag("syn", rest.flags)) % SeqSpace = rest.seq
      <3>1. 0 \in 0 .. SeqSpace /\ rest.seq + 0 = rest.seq /\ ~ (rest.seq >= SeqSpace)
        BY <2>4, SeqSpaceType, SMT DEF SeqNumbers
      <3>2. (rest.seq + 0) % SeqSpace = rest.seq
        BY <2>4, <3>1, MovedType
      <3> QED
        BY <1>7, <1>8, <3>2
    <2>6. rest.first = rest.seq
      BY <1>1, <1>11, <1>6, <2>1, <2>2, <2>3, <2>4, SeqSpaceType, SMT DEF SeqNumbers, SeqSpace
    <2> QED
      BY <2>5, <2>6
  <1>13. ConsumesExactly(s, count)
    BY <1>9, <1>11, Zenon DEF ConsumesExactly, rest, syn, data, fin
  <1>14. Describes(rest)
    BY <1>9, <1>10, <1>12 DEF Describes
  <1> QED
    BY <1>8, <1>9, <1>13, <1>14 DEF rest, data
-----------------------------------------------------------------------------
(* The payload of a list of segments.  Its recursive definition cannot be  *)
(* unfolded list by list here, so a sum comes with the function of its     *)
(* partial sums, and two such functions cannot differ.                     *)

PartialSums(segs, f) ==
  /\ f[0] = 0
  /\ \A i \in 1 .. Len(segs) : f[i] = f[i - 1] + segs[i].len

HasPayload(segs, n) ==
  \E f \in [0 .. Len(segs) -> Int] : PartialSums(segs, f) /\ f[Len(segs)] = n

LEMMA LeastExists ==
  ASSUME NEW S \in SUBSET Nat, S # {}
  PROVE  \E x \in S : \A y \in S : x <= y
  <1>1. PICK x \in S : \A y \in S : ~ (<<y, x>> \in OpToRel(<, Nat))
    BY NatLessThanWellFounded, WFMin, Zenon
  <1>2. \A y \in S : ~ (y < x)
    BY <1>1 DEF OpToRel
  <1> QED
    BY <1>2

LEMMA PartialSumsUnique ==
  ASSUME NEW segs \in Seq(Segment), NEW f, NEW g, PartialSums(segs, f), PartialSums(segs, g)
  PROVE  f[Len(segs)] = g[Len(segs)]
  <1> DEFINE Differ == {i \in 0 .. Len(segs) : f[i] # g[i]}
  <1>1. Len(segs) \in Nat
    BY SMT
  <1>2. ASSUME Differ # {} PROVE FALSE
    <2>1. Differ \in SUBSET Nat
      BY <1>1, SMT
    <2>2. PICK x \in Differ : \A y \in Differ : x <= y
      BY <1>2, <2>1, LeastExists, Zenon
    <2>3. x \in 0 .. Len(segs) /\ f[x] # g[x]
      OBVIOUS
    <2>4. x # 0
      BY <2>3, Zenon DEF PartialSums
    <2>5. x \in 1 .. Len(segs) /\ x - 1 \in 0 .. Len(segs) /\ ~ (x <= x - 1)
      BY <1>1, <2>3, <2>4, SMT
    <2>6. f[x - 1] = g[x - 1]
      BY <2>2, <2>5, Zenon
    <2> QED
      BY <2>3, <2>5, <2>6, Zenon DEF PartialSums
  <1>3. Len(segs) \in 0 .. Len(segs)
    BY <1>1, SMT
  <1> QED
    BY <1>2, <1>3, Zenon

LEMMA PayloadIs ==
  ASSUME NEW segs \in Seq(Segment), NEW n, HasPayload(segs, n)
  PROVE  PayloadBytes(segs) = n
  <1> DEFINE Fits(f) == f = [i \in 0 .. Len(segs) |->
                               IF i = 0 THEN 0 ELSE f[i - 1] + segs[i].len]
  <1>1. PayloadBytes(segs) = (CHOOSE f : Fits(f))[Len(segs)]
    BY Zenon DEF PayloadBytes
  <1>2. PICK f \in [0 .. Len(segs) -> Int] : PartialSums(segs, f) /\ f[Len(segs)] = n
    BY Zenon DEF HasPayload
  <1>3. Len(segs) \in Nat
    BY SMT
  <1>4. /\ \A i \in 0 .. Len(segs) : i = 0 \/ i \in 1 .. Len(segs)
        /\ \A i \in 1 .. Len(segs) : i \in 0 .. Len(segs) /\ i # 0
        /\ 0 \in 0 .. Len(segs)
    BY <1>3, SMT
  <1>5. \A i \in 0 .. Len(segs) : f[i] = IF i = 0 THEN 0 ELSE f[i - 1] + segs[i].len
    BY <1>2, <1>4, Zenon DEF PartialSums
  <1>6. Fits(f)
    BY <1>5, Zenon
  <1> DEFINE chosen == CHOOSE g : Fits(g)
  <1>7. Fits(chosen)
    BY <1>6, Zenon
  <1> HIDE DEF chosen
  <1>8. \A i \in 0 .. Len(segs) : chosen[i] = IF i = 0 THEN 0 ELSE chosen[i - 1] + segs[i].len
    BY <1>7, Zenon
  <1>9. PartialSums(segs, chosen)
    BY <1>4, <1>8, Zenon DEF PartialSums
  <1>10. chosen[Len(segs)] = f[Len(segs)]
    BY <1>2, <1>9, PartialSumsUnique
  <1> QED
    BY <1>1, <1>2, <1>10, Zenon DEF chosen

LEMMA EmptyPayload == HasPayload(<<>>, 0)
  <1> DEFINE f == [i \in 0 .. 0 |-> 0]
  <1>1. Len(<<>>) = 0 /\ 0 \in 0 .. 0 /\ 0 \in Int /\ 1 .. 0 = {}
    BY SMT
  <1>2. f \in [0 .. Len(<<>>) -> Int] /\ f[0] = 0
    BY <1>1, Zenon
  <1>3. PartialSums(<<>>, f)
    BY <1>1, <1>2, Zenon DEF PartialSums
  <1> QED
    BY <1>1, <1>2, <1>3, Zenon DEF HasPayload

LEMMA AppendPayload ==
  ASSUME NEW segs \in Seq(Segment), NEW n \in Int, HasPayload(segs, n), NEW s \in Segment
  PROVE  HasPayload(Append(segs, s), n + s.len)
  <1> DEFINE more == Append(segs, s)
             m == Len(segs)
  <1>1. PICK f \in [0 .. m -> Int] : PartialSums(segs, f) /\ f[m] = n
    BY Zenon DEF HasPayload
  <1>2. /\ m \in Nat /\ Len(more) = m + 1 /\ more[m + 1] = s
        /\ \A i \in 1 .. m : more[i] = segs[i]
    BY SMT
  <1> DEFINE g == [i \in 0 .. m + 1 |-> IF i = m + 1 THEN n + s.len ELSE f[i]]
  <1>3. s.len \in Int
    BY SegmentFields, SMT
  <1> HIDE DEF more, m
  <1>4. g \in [0 .. m + 1 -> Int]
    BY <1>2, <1>3, SMT
  <1>5. g[m + 1] = n + s.len /\ \A i \in 0 .. m : g[i] = f[i]
    BY <1>2, SMT
  <1> HIDE DEF g
  <1>6. \A i \in 1 .. m + 1 : g[i] = g[i - 1] + more[i].len
    <2> SUFFICES ASSUME NEW i \in 1 .. m + 1
                 PROVE  g[i] = g[i - 1] + more[i].len
      OBVIOUS
    <2>1. i - 1 \in 0 .. m /\ (i = m + 1 \/ i \in 1 .. m)
      <3>1. m \in Nat
        BY <1>2, Zenon
      <3> QED
        BY <3>1, SMT
    <2>2. (m + 1) - 1 = m
      BY <1>2, SMT
    <2>3. CASE i = m + 1
      BY <1>1, <1>2, <1>5, <2>1, <2>2, <2>3, Zenon
    <2>4. CASE i \in 1 .. m
      <3>1. i \in 0 .. m
        BY <1>2, <2>4, SMT
      <3> QED
        BY <1>1, <1>2, <1>5, <2>1, <2>4, <3>1, Zenon DEF PartialSums, m
    <2> QED
      BY <2>1, <2>3, <2>4
  <1>7. g[0] = 0
    <2>1. 0 \in 0 .. m
      BY <1>2, SMT
    <2> QED
      BY <1>1, <1>5, <2>1, Zenon DEF PartialSums
  <1>8. HasPayload(more, n + s.len)
    BY <1>2, <1>4, <1>5, <1>6, <1>7, Zenon DEF HasPayload, PartialSums
  <1> QED
    BY <1>8 DEF more

LEMMA TailPayload ==
  ASSUME NEW segs \in Seq(Segment), segs # <<>>, NEW n \in Int, HasPayload(segs, n)
  PROVE  HasPayload(Tail(segs), n - segs[1].len)
  <1> DEFINE rest == Tail(segs)
             m == Len(segs)
             len == segs[1].len
  <1>1. PICK f \in [0 .. m -> Int] : PartialSums(segs, f) /\ f[m] = n
    BY Zenon DEF HasPayload
  <1>2. /\ m \in Nat \ {0} /\ Len(rest) = m - 1
        /\ \A i \in 1 .. m - 1 : rest[i] = segs[i + 1]
    BY SMT
  <1>3. len \in Int
    <2>1. segs[1] \in Segment
      BY SMT
    <2> QED
      BY <2>1, SegmentFields, SMT
  <1>4. f[0] = 0 /\ \A i \in 1 .. m : f[i] = f[i - 1] + segs[i].len
    BY <1>1, Zenon DEF PartialSums
  <1> HIDE DEF rest, m
  <1> DEFINE h == [i \in 0 .. m - 1 |-> f[i + 1] - len]
  <1>5. h \in [0 .. m - 1 -> Int]
    BY <1>2, <1>3, SMT
  <1>6. \A i \in 0 .. m - 1 : h[i] = f[i + 1] - len
    OBVIOUS
  <1> HIDE DEF h, len
  <1>7. h[0] = 0 /\ h[m - 1] = n - len
    <2>1. /\ 0 \in 0 .. m - 1 /\ m - 1 \in 0 .. m - 1 /\ 1 \in 1 .. m
          /\ 0 + 1 = 1 /\ 1 - 1 = 0 /\ (m - 1) + 1 = m
      BY <1>2, SMT
    <2>2. f[1] = 0 + len
      BY <1>4, <2>1, Zenon DEF len
    <2>3. h[0] = f[1] - len /\ h[m - 1] = n - len
      BY <1>1, <1>6, <2>1, Zenon
    <2> QED
      BY <1>3, <2>2, <2>3, SMT
  <1>8. \A i \in 1 .. m - 1 : h[i] = h[i - 1] + rest[i].len
    <2> SUFFICES ASSUME NEW i \in 1 .. m - 1
                 PROVE  h[i] = h[i - 1] + rest[i].len
      OBVIOUS
    <2>1. /\ i \in 0 .. m - 1 /\ i - 1 \in 0 .. m - 1 /\ i + 1 \in 1 .. m /\ i \in 0 .. m
          /\ (i - 1) + 1 = i /\ (i + 1) - 1 = i /\ i + 1 \in 0 .. m
      BY <1>2, SMT
    <2>2. h[i] = f[i + 1] - len /\ h[i - 1] = f[i] - len
      BY <1>6, <2>1, Zenon
    <2>3. f[i + 1] = f[i] + rest[i].len
      BY <1>2, <1>4, <2>1, Zenon
    <2>4. rest[i].len \in Int
      <3>1. rest[i] \in Segment
        BY <1>2, <2>1, SMT DEF m
      <3> QED
        BY <3>1, SegmentFields, SMT
    <2>5. f[i] \in Int
      BY <2>1, Zenon
    <2> QED
      BY <1>3, <2>2, <2>3, <2>4, <2>5, SMT
  <1>9. HasPayload(rest, n - len)
    BY <1>2, <1>5, <1>7, <1>8, Zenon DEF HasPayload, PartialSums
  <1> QED
    BY <1>9 DEF rest, len

LEMMA HeadPayload ==
  ASSUME NEW segs \in Seq(Segment), segs # <<>>, NEW n \in Int, HasPayload(segs, n),
         NEW k \in Int, NEW s \in Segment, s.len = segs[1].len - k
  PROVE  HasPayload([segs EXCEPT ![1] = s], n - k)
  <1> DEFINE rest == [segs EXCEPT ![1] = s]
             m == Len(segs)
  <1>1. PICK f \in [0 .. m -> Int] : PartialSums(segs, f) /\ f[m] = n
    BY Zenon DEF HasPayload
  <1>2. /\ m \in Nat \ {0} /\ Len(rest) = m /\ DOMAIN segs = 1 .. m
        /\ \A i \in 1 .. m : segs[i] \in Segment
    BY SMT
  <1>3. rest[1] = s /\ \A i \in 1 .. m : i # 1 => rest[i] = segs[i]
    <2>1. 1 \in 1 .. m
      BY <1>2, SMT
    <2> QED
      BY <1>2, <2>1, Zenon
  <1>4. f[0] = 0 /\ \A i \in 1 .. m : f[i] = f[i - 1] + segs[i].len
    BY <1>1, Zenon DEF PartialSums
  <1> HIDE DEF rest, m
  <1> DEFINE h == [i \in 0 .. m |-> IF i = 0 THEN 0 ELSE f[i] - k]
  <1>5. h \in [0 .. m -> Int]
    BY <1>2, SMT
  <1>6. h[0] = 0 /\ \A i \in 1 .. m : h[i] = f[i] - k
    BY <1>2, SMT
  <1> HIDE DEF h
  <1>7. h[m] = n - k
    <2>1. m \in 1 .. m
      BY <1>2, SMT
    <2> QED
      BY <1>1, <1>6, <2>1, Zenon
  <1>8. \A i \in 1 .. m : h[i] = h[i - 1] + rest[i].len
    <2> SUFFICES ASSUME NEW i \in 1 .. m
                 PROVE  h[i] = h[i - 1] + rest[i].len
      OBVIOUS
    <2>1. segs[i].len \in Int
      BY <1>2, SegmentFields, SMT
    <2>2. CASE i = 1
      <3>1. 1 - 1 = 0 /\ 1 \in 1 .. m
        BY <1>2, SMT
      <3>2. f[1] = 0 + segs[1].len /\ h[1] = f[1] - k
        BY <1>4, <1>6, <3>1, Zenon
      <3>3. h[1] = 0 + s.len
        BY <2>1, <2>2, <3>2, SMT
      <3> QED
        BY <1>3, <1>6, <2>2, <3>1, <3>3, Zenon
    <2>3. CASE i # 1
      <3>1. i - 1 \in 1 .. m /\ i - 1 \in 0 .. m
        BY <1>2, <2>3, SMT
      <3>2. h[i] = f[i] - k /\ h[i - 1] = f[i - 1] - k /\ f[i - 1] \in Int
        BY <1>6, <3>1, Zenon
      <3>3. f[i] = f[i - 1] + segs[i].len /\ rest[i] = segs[i]
        BY <1>3, <1>4, <2>3, Zenon
      <3> QED
        BY <2>1, <3>2, <3>3, SMT
    <2> QED
      BY <2>2, <2>3
  <1>9. HasPayload(rest, n - k)
    BY <1>2, <1>5, <1>6, <1>7, <1>8, Zenon DEF HasPayload, PartialSums
  <1> QED
    BY <1>9 DEF rest
-----------------------------------------------------------------------------
(* What each method does to the data of the queue: nothing, or everything  *)
(* goes (close), or one segment more (track).                              *)

SameData(p, r) ==
  /\ r.una = p.una /\ r.nxt = p.nxt /\ r.segs = p.segs /\ r.inFlight = p.inFlight
  /\ Closed(r) <=> Closed(p)

Emptied(p, r) ==
  /\ r.una = p.una /\ r.nxt = p.nxt /\ r.segs = <<>> /\ r.inFlight = 0
  /\ Closed(r)

Keeps(p, r) == SameData(p, r) \/ Emptied(p, r)

SentSegment(p, len, flags) ==
  [seq |-> p.nxt, first |-> (p.nxt + Flag("syn", flags)) % SeqSpace,
   len |-> len, size |-> SequenceLength(len, flags), flags |-> flags]

Tracked(p, r, len, flags) ==
  /\ r.una = p.una /\ r.segs = Append(p.segs, SentSegment(p, len, flags))
  /\ r.inFlight = p.inFlight + len
  /\ r.nxt = (p.nxt + SequenceLength(len, flags)) % SeqSpace
  /\ Closed(r) <=> Closed(p)

LEMMA KeepsReflexive == \A p : Keeps(p, p) /\ SameData(p, p)
  BY Zenon DEF Keeps, SameData

LEMMA KeepsTransitive ==
  ASSUME NEW p, NEW r, NEW t
  PROVE  /\ Keeps(p, r) /\ Keeps(r, t) => Keeps(p, t)
         /\ SameData(p, r) /\ SameData(r, t) => SameData(p, t)
  BY Zenon DEF Keeps, SameData, Emptied

LEMMA TrackedThenSame ==
  ASSUME NEW p, NEW r, NEW t, NEW len, NEW flags, Tracked(p, r, len, flags), SameData(r, t)
  PROVE  Tracked(p, t, len, flags)
  BY Zenon DEF Tracked, SameData

LEMMA SameThenTracked ==
  ASSUME NEW p, NEW r, NEW t, NEW len, NEW flags, SameData(p, r), Tracked(r, t, len, flags)
  PROVE  Tracked(p, t, len, flags)
  BY Zenon DEF Tracked, SameData, SentSegment

LEMMA SameButTimerSame ==
  ASSUME NEW p, NEW r, SameButTimer(p, r)
  PROVE  SameData(p, r)
  BY Zenon DEF SameButTimer, SameData, Closed

LEMMA ArmTimerSame ==
  ASSUME NEW p \in Queue
  PROVE  ArmTimer(p) \in Queue /\ SameData(p, ArmTimer(p))
  BY ArmTimerType, ArmTimerFrame, SameButTimerSame

LEMMA ClearTimerSame ==
  ASSUME NEW p \in Queue
  PROVE  ClearTimer(p) \in Queue /\ SameData(p, ClearTimer(p))
  BY ClearTimerType, ClearTimerFrame, SameButTimerSame

LEMMA BackoffSame ==
  ASSUME NEW p \in Queue
  PROVE  Backoff(p) \in Queue /\ SameData(p, Backoff(p))
  <1>1. Backoff(p) \in Queue
    BY BackoffType
  <1> QED
    BY <1>1, BackoffFrame, Zenon DEF SameData, Closed

\* A mode other than closed does not change what the queue holds.
LEMMA ExhaustSame ==
  ASSUME NEW p \in Queue, NEW error \in {"limit", "thrown"}
  PROVE  Exhaust(p, error) \in Queue /\ SameData(p, Exhaust(p, error))
  <1> DEFINE cleared == ClearTimer(p)
             r == Exhaust(p, error)
  <1>1. cleared \in Queue /\ SameData(p, cleared)
    BY ClearTimerSame
  <1>2. /\ r.una = cleared.una /\ r.nxt = cleared.nxt /\ r.segs = cleared.segs
        /\ r.inFlight = cleared.inFlight /\ r.modes = cleared.modes \cup {"exhausted"}
    BY <1>1, Zenon DEF Exhaust, Queue
  <1>3. Closed(r) <=> Closed(cleared)
    <2> HIDE DEF r, cleared
    <2> QED
      BY <1>2, SMT DEF Closed
  <1>4. SameData(cleared, r)
    BY <1>2, <1>3, Zenon DEF SameData
  <1> QED
    BY <1>1, <1>4, KeepsTransitive, ExhaustType

LEMMA CloseKeeps ==
  ASSUME NEW p \in Queue
  PROVE  /\ Close(p) \in Queue
         /\ IF Closed(p) THEN Close(p) = p ELSE Emptied(p, Close(p))
         /\ Keeps(p, Close(p))
  <1> DEFINE cleared == ClearTimer(p)
  <1>1. Close(p) \in Queue
    BY CloseType
  <1>2. CASE Closed(p)
    <2>1. Close(p) = p
      BY <1>2, Zenon DEF Close
    <2> QED
      BY <1>1, <1>2, <2>1, KeepsReflexive
  <1>3. CASE ~Closed(p)
    <2>1. cleared \in Queue /\ SameData(p, cleared)
      BY ClearTimerSame
    <2>2. /\ Close(p).una = cleared.una /\ Close(p).nxt = cleared.nxt
          /\ Close(p).segs = <<>> /\ Close(p).inFlight = 0
          /\ Close(p).modes = (cleared.modes \ {"persist"}) \cup {"closed"}
      BY <1>3, <2>1, Zenon DEF Close, Queue
    <2>3. Emptied(p, Close(p))
      BY <2>1, <2>2, Zenon DEF Emptied, SameData, Closed
    <2> QED
      BY <1>1, <1>3, <2>3 DEF Keeps
  <1> QED
    BY <1>2, <1>3

LEMMA EmitRetransmissionKeeps ==
  ASSUME NEW p \in Queue, NEW outcome \in EmitOutcomes
  PROVE  /\ EmitRetransmission(p, outcome) \in Queue
         /\ Keeps(p, EmitRetransmission(p, outcome))
  <1>1. EmitRetransmission(p, outcome) \in Queue
    BY EmitRetransmissionType
  <1>2. Keeps(p, p) /\ Keeps(p, Close(p)) /\ Keeps(p, Exhaust(p, "thrown"))
    BY KeepsReflexive, CloseKeeps, ExhaustSame DEF Keeps
  <1>3. Keeps(p, EmitRetransmission(p, outcome))
    BY <1>2, Zenon DEF EmitRetransmission, EmitOutcomes
  <1> QED
    BY <1>1, <1>3

LEMMA FastRetransmitKeeps ==
  ASSUME NEW p \in Queue, NEW outcome \in EmitOutcomes
  PROVE  Keeps(p, FastRetransmit(p, outcome))
  <1> DEFINE reset == [p EXCEPT !.rto = InitialRto]
             cleared == ClearTimer(reset)
             emitted == EmitRetransmission(cleared, outcome)
  <1>1. InitialRto \in Nat
    BY SMT
  <1>2. reset \in Queue
    BY <1>1, Zenon DEF Queue
  <1>3. SameData(p, reset)
    BY Zenon DEF Queue, SameData, Closed
  <1> HIDE DEF reset
  <1>4. cleared \in Queue /\ SameData(reset, cleared)
    BY <1>2, ClearTimerSame
  <1> HIDE DEF cleared
  <1>5. emitted \in Queue /\ Keeps(cleared, emitted)
    BY <1>4, EmitRetransmissionKeeps
  <1> HIDE DEF emitted
  <1>6. SameData(emitted, ArmTimer(emitted))
    BY <1>5, ArmTimerSame
  <1>7. Keeps(p, emitted) /\ Keeps(p, ArmTimer(emitted))
    BY <1>3, <1>4, <1>5, <1>6, Zenon DEF Keeps, SameData, Emptied
  <1> QED
    BY <1>7, KeepsReflexive, Zenon DEF FastRetransmit, emitted, cleared, reset

LEMMA SetPersistKeeps ==
  ASSUME NEW p \in Queue, NEW enabled \in BOOLEAN, NEW outcome \in EmitOutcomes
  PROVE  Keeps(p, SetPersist(p, enabled, outcome))
  <1> DEFINE cleared == ClearTimer(p)
             modes == IF enabled THEN cleared.modes \cup {"persist"}
                                 ELSE cleared.modes \ {"persist"}
             reset == [cleared EXCEPT !.modes = modes, !.rto = InitialRto, !.retries = 0]
             emitted == EmitRetransmission(reset, outcome)
  <1>1. cleared \in Queue /\ SameData(p, cleared)
    BY ClearTimerSame
  <1>2. modes \in SUBSET {"persist", "closed", "exhausted"}
    BY <1>1, QueueFields, SMT
  <1>3. "closed" \in modes <=> Closed(cleared)
    <2> HIDE DEF cleared
    <2> QED
      BY SMT DEF Closed
  <1>4. InitialRto \in Nat /\ 0 \in Nat
    BY SMT
  <1> HIDE DEF cleared, modes
  <1>5. reset \in Queue
    BY <1>1, <1>2, <1>4, Zenon DEF Queue
  <1>6. SameData(cleared, reset)
    BY <1>1, <1>3, Zenon DEF Queue, SameData, Closed
  <1>7. reset = [cleared EXCEPT
                   !.modes = IF enabled THEN @ \cup {"persist"} ELSE @ \ {"persist"},
                   !.rto = InitialRto, !.retries = 0]
    BY Zenon DEF modes
  <1> HIDE DEF reset
  <1>8. emitted \in Queue /\ Keeps(reset, emitted)
    BY <1>5, EmitRetransmissionKeeps
  <1> HIDE DEF emitted
  <1>9. SameData(emitted, ArmTimer(emitted)) /\ SameData(reset, ArmTimer(reset))
    BY <1>5, <1>8, ArmTimerSame
  <1>10. Keeps(p, ArmTimer(reset)) /\ Keeps(p, ArmTimer(emitted))
    BY <1>1, <1>6, <1>8, <1>9, Zenon DEF Keeps, SameData, Emptied
  <1>11. SetPersist(p, enabled, outcome) =
           IF ~Live(p) \/ Persisting(p) = enabled THEN p
           ELSE ArmTimer(IF ~enabled /\ HasOutstanding(p) THEN emitted ELSE reset)
    BY <1>7, Zenon DEF SetPersist, emitted, cleared
  <1> QED
    BY <1>10, <1>11, KeepsReflexive, Zenon

LEMMA TrackTracked ==
  ASSUME NEW p \in Queue, NEW len \in Nat, NEW flags \in Flags, SequenceLength(len, flags) # 0
  PROVE  /\ Track(p, len, flags) \in Queue
         /\ Tracked(p, Track(p, len, flags), len, flags)
  <1> DEFINE size == SequenceLength(len, flags)
             segment == [seq |-> p.nxt, first |-> (p.nxt + Flag("syn", flags)) % SeqSpace,
                         len |-> len, size |-> size, flags |-> flags]
             tracked == [p EXCEPT !.segs = Append(@, segment), !.inFlight = @ + len,
                                  !.nxt = (@ + size) % SeqSpace]
  <1>1. Track(p, len, flags) =
          IF Len(tracked.segs) = 1 /\ p.timer = NoTimer THEN ArmTimer(tracked) ELSE tracked
    BY Zenon DEF Track
  <1>2. segment = SentSegment(p, len, flags)
    BY Zenon DEF SentSegment
  <1>3. size \in Nat
    BY SMT DEF SequenceLength, Flag
  <1>4. p.nxt \in SeqNumbers /\ p.nxt \in Int /\ Flag("syn", flags) \in Nat
    BY QueueFields, SMT DEF SeqNumbers, SeqSpace, Flag
  <1>5. /\ (p.nxt + Flag("syn", flags)) % SeqSpace \in SeqNumbers
        /\ (p.nxt + size) % SeqSpace \in SeqNumbers
    BY <1>3, <1>4, ModType, SMT
  <1>6. segment \in Segment
    BY <1>3, <1>4, <1>5, SMT DEF Segment
  <1>7. Append(p.segs, segment) \in Seq(Segment) /\ p.inFlight + len \in Int
    BY <1>6, QueueFields, SMT
  <1>8. tracked \in Queue
    BY <1>5, <1>7, Zenon DEF Queue
  <1>9. Tracked(p, tracked, len, flags)
    BY <1>2, Zenon DEF Queue, Tracked, Closed
  <1> HIDE DEF tracked, segment, size
  <1>10. ArmTimer(tracked) \in Queue /\ Tracked(p, ArmTimer(tracked), len, flags)
    BY <1>8, <1>9, ArmTimerSame, TrackedThenSame
  <1> QED
    BY <1>1, <1>8, <1>9, <1>10, Zenon

\* The three segments a timeout can track: a byte or the FIN of a probe, or none.
TimeoutEffect(p, r, outcome) ==
  \/ Keeps(p, r)
  \/ ~Closed(p) /\ outcome = "byte" /\ Tracked(p, r, 1, {})
  \/ ~Closed(p) /\ outcome = "fin" /\ Tracked(p, r, 0, {"fin"})

LEMMA ProbeSegments ==
  /\ 1 \in Nat /\ 0 \in Nat /\ {} \in Flags /\ {"fin"} \in Flags
  /\ SequenceLength(1, {}) = 1 /\ SequenceLength(0, {"fin"}) = 1
  BY SMT DEF Flags, SequenceLength, Flag

LEMMA EffectThenSame ==
  ASSUME NEW p, NEW r, NEW t, NEW outcome, TimeoutEffect(p, r, outcome), SameData(r, t)
  PROVE  TimeoutEffect(p, t, outcome)
  BY Zenon DEF TimeoutEffect, Keeps, SameData, Emptied, Tracked

LEMMA SameThenEffect ==
  ASSUME NEW p, NEW r, NEW t, NEW outcome, SameData(p, r), TimeoutEffect(r, t, outcome)
  PROVE  TimeoutEffect(p, t, outcome)
  BY Zenon DEF TimeoutEffect, Keeps, SameData, Emptied, Tracked, SentSegment

LEMMA ProbeEffect ==
  ASSUME NEW p \in Queue, p.retries > 0, ~Closed(p), NEW r \in Queue,
         NEW outcome \in ProbeOutcomes(r)
  PROVE  Probe(p, outcome) \in Queue /\ TimeoutEffect(p, Probe(p, outcome), outcome)
  <1>1. Probe(p, outcome) \in Queue
    BY ProbeType
  <1>2. SameData(p, [p EXCEPT !.retries = @ - 1])
    BY Zenon DEF Queue, SameData, Closed
  <1>3. Tracked(p, Track(p, 1, {}), 1, {}) /\ Tracked(p, Track(p, 0, {"fin"}), 0, {"fin"})
    <2>1. SequenceLength(1, {}) # 0 /\ SequenceLength(0, {"fin"}) # 0
      BY ProbeSegments, SMT
    <2> QED
      BY <2>1, ProbeSegments, TrackTracked
  <1>4. Keeps(p, p) /\ Keeps(p, Close(p)) /\ Keeps(p, Exhaust(p, "thrown"))
    BY KeepsReflexive, CloseKeeps, ExhaustSame DEF Keeps
  <1>5. outcome \in {"sent", "refused", "byte", "fin", "notCurrent", "throws"}
    BY Zenon DEF ProbeOutcomes
  <1>6. TimeoutEffect(p, Probe(p, outcome), outcome)
    BY <1>2, <1>3, <1>4, <1>5, Zenon DEF Probe, TimeoutEffect, Keeps
  <1> QED
    BY <1>1, <1>6

LEMMA HandleTimeoutEffect ==
  ASSUME NEW p \in Queue, NEW r \in Queue, Persisting(r) <=> Persisting(p),
         NEW outcome \in TimeoutOutcomes(r)
  PROVE  TimeoutEffect(p, HandleTimeout(p, outcome), outcome)
  <1> DEFINE counted == [p EXCEPT !.retries = @ + 1]
             probed == Probe(counted, outcome)
             emitted == EmitRetransmission(counted, outcome)
  <1>1. counted \in Queue /\ counted.retries > 0
    BY CountedType
  <1>2. SameData(p, counted)
    BY Zenon DEF Queue, SameData, Closed
  <1> HIDE DEF counted
  <1>3. TimeoutEffect(p, p, outcome) /\ TimeoutEffect(p, Exhaust(p, "limit"), outcome)
    BY KeepsReflexive, ExhaustSame DEF TimeoutEffect, Keeps
  <1>4. CASE ~Live(p)
    BY <1>3, <1>4, Zenon DEF HandleTimeout
  <1>5. CASE Live(p) /\ Persisting(p)
    <2>1. outcome \in ProbeOutcomes(r) /\ ~Closed(counted)
      BY <1>2, <1>5, Zenon DEF TimeoutOutcomes, Live, SameData
    <2>2. probed \in Queue /\ TimeoutEffect(counted, probed, outcome)
      BY <1>1, <2>1, ProbeEffect
    <2> HIDE DEF probed
    <2>3. TimeoutEffect(p, probed, outcome)
      BY <1>2, <2>2, SameThenEffect
    <2>4. ClearTimer(probed) \in Queue /\ SameData(probed, ClearTimer(probed))
      BY <2>2, ClearTimerSame
    <2>5. /\ Backoff(ClearTimer(probed)) \in Queue
          /\ SameData(ClearTimer(probed), Backoff(ClearTimer(probed)))
      BY <2>4, BackoffSame
    <2>6. SameData(Backoff(ClearTimer(probed)), ArmTimer(Backoff(ClearTimer(probed))))
      BY <2>5, ArmTimerSame
    <2>7. SameData(probed, ArmTimer(Backoff(ClearTimer(probed))))
      BY <2>4, <2>5, <2>6, KeepsTransitive
    <2>8. TimeoutEffect(p, ArmTimer(Backoff(ClearTimer(probed))), outcome)
      BY <2>3, <2>7, EffectThenSame
    <2>9. TimeoutEffect(p, PersistTimeout(p, outcome), outcome)
      BY <1>3, <2>3, <2>8, Zenon DEF PersistTimeout, probed, counted
    <2> QED
      BY <1>5, <2>9, Zenon DEF HandleTimeout
  <1>6. CASE Live(p) /\ ~Persisting(p)
    <2>1. outcome \in EmitOutcomes
      BY <1>6, Zenon DEF TimeoutOutcomes
    <2>2. emitted \in Queue /\ Keeps(counted, emitted)
      BY <1>1, <2>1, EmitRetransmissionKeeps
    <2> HIDE DEF emitted
    <2>3. Backoff(emitted) \in Queue /\ SameData(emitted, Backoff(emitted))
      BY <2>2, BackoffSame
    <2>4. SameData(Backoff(emitted), ArmTimer(Backoff(emitted)))
      BY <2>3, ArmTimerSame
    <2>5. Keeps(p, emitted) /\ Keeps(p, ArmTimer(Backoff(emitted)))
      BY <1>2, <2>2, <2>3, <2>4, Zenon DEF Keeps, SameData, Emptied
    <2>6. TimeoutEffect(p, RetransmissionTimeout(p, outcome), outcome)
      BY <1>3, <2>5, Zenon DEF RetransmissionTimeout, TimeoutEffect, emitted, counted
    <2> QED
      BY <1>3, <1>6, <2>6, Zenon DEF HandleTimeout
  <1> QED
    BY <1>4, <1>5, <1>6

LEMMA TimerCallbackEffect ==
  ASSUME NEW p \in Queue, NEW age \in p.callbacks, NEW outcome \in TimeoutOutcomes(p)
  PROVE  TimeoutEffect(p, TimerCallback(p, age, outcome), outcome)
  <1> DEFINE fired == [p EXCEPT !.callbacks = @ \ {age}]
             started == [fired EXCEPT !.timer = NoTimer]
  <1>1. p.callbacks \ {age} \in SUBSET Nat /\ NoTimer \in Nat \cup {NoTimer}
    BY QueueFields, SMT
  <1>2. fired \in Queue
    BY <1>1, Zenon DEF Queue
  <1>3. started \in Queue
    BY <1>1, <1>2, Zenon DEF Queue
  <1>4. SameData(p, fired)
    BY Zenon DEF Queue, SameData, Closed
  <1>5. SameData(p, started) /\ (Persisting(p) <=> Persisting(started))
    BY Zenon DEF Queue, SameData, Closed, Persisting
  <1> HIDE DEF started, fired
  <1>6. TimeoutEffect(started, HandleTimeout(started, outcome), outcome)
    BY <1>3, <1>5, HandleTimeoutEffect
  <1>7. TimeoutEffect(p, HandleTimeout(started, outcome), outcome)
    BY <1>5, <1>6, SameThenEffect
  <1>8. TimeoutEffect(p, fired, outcome)
    BY <1>4 DEF TimeoutEffect, Keeps
  <1> QED
    BY <1>7, <1>8, Zenon DEF TimerCallback, fired, started

LEMMA DuplicateAckSame ==
  ASSUME NEW p \in Queue
  PROVE  SameData(p, DuplicateAck(p))
  <1>1. SameData(p, [p EXCEPT !.retries = 0])
    BY Zenon DEF Queue, SameData, Closed
  <1> QED
    BY <1>1, KeepsReflexive, Zenon DEF DuplicateAck

LEMMA FinishAckData ==
  ASSUME NEW p \in Queue, NEW ack \in SeqNumbers
  PROVE  LET r == FinishAck(p, ack)
         IN /\ r.una = ack /\ r.nxt = p.nxt /\ r.segs = p.segs /\ r.inFlight = p.inFlight
            /\ Closed(r) <=> Closed(p)
  <1> DEFINE moved == [p EXCEPT !.una = ack, !.retries = 0,
                                !.rto = IF Persisting(p) THEN @ ELSE InitialRto]
  <1>1. 0 \in Nat /\ InitialRto \in Nat
    BY SMT
  <1>2. moved \in Queue
    BY <1>1, Zenon DEF Queue
  <1>3. /\ moved.una = ack /\ moved.nxt = p.nxt /\ moved.segs = p.segs
        /\ moved.inFlight = p.inFlight /\ moved.modes = p.modes
    BY Zenon DEF Queue
  <1> HIDE DEF moved
  <1>4. ClearTimer(moved) \in Queue /\ SameData(moved, ClearTimer(moved))
    BY <1>2, ClearTimerSame
  <1>5. SameData(ClearTimer(moved), ArmTimer(ClearTimer(moved)))
    BY <1>4, ArmTimerSame
  <1>6. SameData(moved, ArmTimer(ClearTimer(moved)))
    BY <1>4, <1>5, KeepsTransitive
  <1>7. FinishAck(p, ack) = ArmTimer(ClearTimer(moved))
    BY Zenon DEF FinishAck, moved
  <1> QED
    BY <1>3, <1>6, <1>7, Zenon DEF SameData, Closed
-----------------------------------------------------------------------------
(* The invariant: between sndUna, or the number the loop of acknowledge()  *)
(* has reached, and sndNxt the segments lie end to end.                    *)

Sound(p, pos) ==
  /\ Outstanding(p) < Half
  /\ SequenceDistance(p.nxt, pos) < Half
  /\ HasPayload(p.segs, p.inFlight)
  /\ ~Closed(p) => Consistent(p.segs) /\ Laid(p.segs, pos, p.nxt)

LEMMA KeepsSound ==
  ASSUME NEW p, NEW r, Keeps(p, r), NEW pos, Sound(p, pos)
  PROVE  Sound(r, pos)
  <1>1. CASE SameData(p, r)
    BY <1>1, Zenon DEF SameData, Sound, Outstanding
  <1>2. CASE Emptied(p, r)
    BY <1>2, EmptyPayload, Zenon DEF Emptied, Sound, Outstanding
  <1> QED
    BY <1>1, <1>2 DEF Keeps

LEMMA TrackedSound ==
  ASSUME NEW p \in Queue, ~Closed(p), Sound(p, p.una), NEW len \in Nat, NEW flags \in Flags,
         SequenceLength(len, flags) > 0, Outstanding(p) + SequenceLength(len, flags) < Half,
         NEW r, Tracked(p, r, len, flags)
  PROVE  Sound(r, r.una)
  <1> DEFINE size == SequenceLength(len, flags)
             s == SentSegment(p, len, flags)
  <1>1. /\ p.una \in SeqNumbers /\ p.nxt \in SeqNumbers /\ p.nxt \in Int
        /\ p.segs \in Seq(Segment) /\ p.inFlight \in Int
    BY QueueFields, SMT DEF SeqNumbers, SeqSpace
  <1>2. size \in Nat /\ Flag("syn", flags) \in Nat
    BY SMT DEF SequenceLength, Flag
  <1>3. s \in Segment
    <2>1. (p.nxt + Flag("syn", flags)) % SeqSpace \in SeqNumbers
      BY <1>1, <1>2, ModType, SMT
    <2>2. size \in Int
      BY <1>2, SMT
    <2> QED
      BY <1>1, <2>1, <2>2, Zenon DEF SentSegment, Segment
  <1>4. Describes(s) /\ s.seq = p.nxt /\ s.size = size /\ s.size > 0 /\ s.len = len
    BY Zenon DEF Describes, SentSegment
  <1>5. /\ HasPayload(p.segs, p.inFlight) /\ Consistent(p.segs)
        /\ Laid(p.segs, p.una, p.nxt)
    BY Zenon DEF Sound
  <1> HIDE DEF s, size
  <1>6. Outstanding(p) = SequenceDistance(p.nxt, p.una) /\ Outstanding(p) \in SeqNumbers
    BY <1>1, DistanceType DEF Outstanding
  <1>7. Outstanding(p) + size < Half /\ Outstanding(p) + size < SeqSpace
    <2>1. Outstanding(p) + size < Half
      BY DEF size
    <2> QED
      BY <1>2, <1>6, <2>1, SeqSpaceType, SMT DEF SeqNumbers, SeqSpace
  <1>8. SequenceDistance((p.nxt + size) % SeqSpace, p.una) = Outstanding(p) + size
    BY <1>1, <1>2, <1>6, <1>7, MovedTarget
  <1>9. HasPayload(Append(p.segs, s), p.inFlight + len)
    BY <1>1, <1>3, <1>4, <1>5, AppendPayload
  <1>10. Consistent(Append(p.segs, s))
    BY <1>1, <1>3, <1>4, <1>5, AppendConsistent
  <1>11. Laid(Append(p.segs, s), p.una, (p.nxt + size) % SeqSpace)
    <2>1. SequenceDistance(p.nxt, p.una) + s.size < SeqSpace
      BY <1>4, <1>6, <1>7
    <2>2. Laid(Append(p.segs, s), p.una, (p.nxt + s.size) % SeqSpace)
      BY <1>1, <1>3, <1>4, <1>5, <2>1, AppendLaid
    <2> QED
      BY <1>4, <2>2
  <1>12. /\ r.una = p.una /\ r.segs = Append(p.segs, s) /\ r.inFlight = p.inFlight + len
         /\ r.nxt = (p.nxt + size) % SeqSpace
    BY DEF Tracked, s, size
  <1> QED
    BY <1>7, <1>8, <1>9, <1>10, <1>11, <1>12, Zenon DEF Sound, Outstanding
-----------------------------------------------------------------------------
(* Acknowledge in one step: several segments go at once.  What holds of    *)
(* the segments that remain follows segment by segment, by the least       *)
(* number of them at which it would fail.                                  *)

\* The segments are laid end to end, each is what it says, and they carry n bytes.
Good(segs, pos, end, n) ==
  segs \in Seq(Segment) /\ Consistent(segs) /\ Laid(segs, pos, end) /\ HasPayload(segs, n)

Suffix(segs, n) == SubSeq(segs, n + 1, Len(segs))

\* Where the first n segments end.
Reach(segs, pos, n) == IF n = 0 THEN 0 ELSE EndsAt(segs, pos, n)

LEMMA SuffixTail ==
  ASSUME NEW segs \in Seq(Segment), NEW n \in 0 .. Len(segs)
  PROVE  /\ Suffix(segs, n) \in Seq(Segment) /\ Len(Suffix(segs, n)) = Len(segs) - n
         /\ n = Len(segs) => Suffix(segs, n) = <<>>
         /\ n < Len(segs) => /\ Suffix(segs, n) # <<>> /\ Suffix(segs, n)[1] = segs[n + 1]
                             /\ Tail(Suffix(segs, n)) = Suffix(segs, n + 1)
  <1> DEFINE rest == Suffix(segs, n)
             m == Len(segs)
  <1>1. /\ m \in Nat /\ n \in Nat /\ n <= m /\ \A i \in 1 .. m : segs[i] \in Segment
    BY SMT
  <1>2. /\ rest \in Seq(Segment) /\ Len(rest) = m - n
        /\ \A i \in 1 .. m - n : rest[i] = segs[n + i]
    BY <1>1, SMT DEF Suffix
  <1>3. n = m => rest = <<>>
    BY <1>2, <1>1, SMT
  <1>4. ASSUME n < m
        PROVE  rest # <<>> /\ rest[1] = segs[n + 1] /\ Tail(rest) = Suffix(segs, n + 1)
    <2>1. rest # <<>> /\ rest[1] = segs[n + 1]
      BY <1>1, <1>2, <1>4, SMT
    <2>2. /\ Suffix(segs, n + 1) \in Seq(Segment) /\ Len(Suffix(segs, n + 1)) = m - (n + 1)
          /\ \A i \in 1 .. m - (n + 1) : Suffix(segs, n + 1)[i] = segs[n + 1 + i]
      BY <1>1, <1>4, SMT DEF Suffix
    <2> HIDE DEF rest, m
    <2>3. /\ Tail(rest) \in Seq(Segment) /\ Len(Tail(rest)) = m - (n + 1)
          /\ \A i \in 1 .. m - (n + 1) : Tail(rest)[i] = rest[i + 1]
      BY <1>1, <1>2, <1>4, <2>1, SMT
    <2>4. \A i \in 1 .. m - (n + 1) : Tail(rest)[i] = Suffix(segs, n + 1)[i]
      BY <1>1, <1>2, <2>2, <2>3, SMT
    <2> QED
      BY <2>1, <2>2, <2>3, <2>4, SeqEqual DEF rest
  <1> QED
    BY <1>1, <1>2, <1>3, <1>4

LEMMA SuffixAll ==
  ASSUME NEW segs \in Seq(Segment)
  PROVE  Suffix(segs, 0) = segs
  <1>1. /\ Len(segs) \in Nat /\ Suffix(segs, 0) \in Seq(Segment)
        /\ Len(Suffix(segs, 0)) = Len(segs)
        /\ \A i \in 1 .. Len(segs) : Suffix(segs, 0)[i] = segs[i]
    BY SMT DEF Suffix
  <1> QED
    BY <1>1, SeqEqual

LEMMA ReachType ==
  ASSUME NEW segs \in Seq(Segment), NEW pos \in SeqNumbers, NEW end \in SeqNumbers,
         Consistent(segs), Laid(segs, pos, end), NEW n \in 0 .. Len(segs)
  PROVE  /\ Reach(segs, pos, n) \in 0 .. SequenceDistance(end, pos)
         /\ n < Len(segs) => /\ segs[n + 1] \in Segment /\ segs[n + 1].size \in Nat \ {0}
                             /\ At(segs, pos, n + 1) = Reach(segs, pos, n)
                             /\ Reach(segs, pos, n + 1) = Reach(segs, pos, n) + segs[n + 1].size
         /\ n = Len(segs) => Reach(segs, pos, n) = SequenceDistance(end, pos)
  <1> DEFINE m == Len(segs)
             used == SequenceDistance(end, pos)
  <1>1. m \in Nat /\ n \in Nat /\ n <= m /\ (m = 0 <=> segs = <<>>)
    BY SMT
  <1>2. used \in SeqNumbers /\ used \in Nat
    <2>1. used \in SeqNumbers
      BY DistanceType
    <2> QED
      BY <2>1, SMT DEF SeqNumbers
  <1>3. m = 0 => used = 0
    <2>1. m = 0 => end = pos
      BY <1>1, Zenon DEF Laid
    <2> QED
      BY <2>1, NoDistance
  <1>4. m # 0 => At(segs, pos, 1) = 0 /\ EndsAt(segs, pos, m) = used
    BY <1>1, Zenon DEF Laid
  <1>5. /\ \A i \in 1 .. m - 1 : EndsAt(segs, pos, i) = At(segs, pos, i + 1)
        /\ \A i \in 1 .. m : EndsAt(segs, pos, i) <= used
    BY DEF Laid
  <1>6. \A i \in 1 .. m : /\ segs[i] \in Segment /\ segs[i].size \in Int /\ segs[i].size > 0
                          /\ At(segs, pos, i) \in Nat /\ EndsAt(segs, pos, i) \in Int
                          /\ EndsAt(segs, pos, i) = At(segs, pos, i) + segs[i].size
    BY AtType DEF Consistent, EndsAt
  <1> HIDE DEF m, used
  <1>7. Reach(segs, pos, n) \in 0 .. used
    <2>1. CASE n = 0
      BY <1>2, <2>1, SMT DEF Reach
    <2>2. CASE n # 0
      <3>1. n \in 1 .. m
        BY <1>1, <2>2, SMT
      <3> QED
        BY <1>2, <1>5, <1>6, <2>2, <3>1, SMT DEF Reach
    <2> QED
      BY <2>1, <2>2
  <1>8. ASSUME n < m
        PROVE  /\ segs[n + 1] \in Segment /\ segs[n + 1].size \in Nat \ {0}
               /\ At(segs, pos, n + 1) = Reach(segs, pos, n)
               /\ Reach(segs, pos, n + 1) = Reach(segs, pos, n) + segs[n + 1].size
    <2>1. n + 1 \in 1 .. m /\ n + 1 # 0 /\ m # 0
      BY <1>1, <1>8, SMT
    <2>2. /\ segs[n + 1] \in Segment /\ segs[n + 1].size \in Nat \ {0}
          /\ EndsAt(segs, pos, n + 1) = At(segs, pos, n + 1) + segs[n + 1].size
      BY <1>6, <2>1, SMT
    <2>3. At(segs, pos, n + 1) = Reach(segs, pos, n)
      <3>1. CASE n = 0
        BY <1>4, <2>1, <3>1, SMT DEF Reach
      <3>2. CASE n # 0
        <4>1. n \in 1 .. m - 1
          BY <1>1, <1>8, <3>2, SMT
        <4> QED
          BY <1>5, <3>2, <4>1, SMT DEF Reach
      <3> QED
        BY <3>1, <3>2
    <2> QED
      BY <2>1, <2>2, <2>3, Zenon DEF Reach
  <1>9. n = m => Reach(segs, pos, n) = used
    BY <1>3, <1>4, Zenon DEF Reach
  <1> QED
    BY <1>7, <1>8, <1>9 DEF m, used

\* Of n segments that go, "gone" is the payload: no more than the numbers they took.
Remains(segs, pos, end, bytes, n) ==
  \E gone \in 0 .. Reach(segs, pos, n) :
    Good(Suffix(segs, n), (pos + Reach(segs, pos, n)) % SeqSpace, end, bytes - gone)

LEMMA RemainsNext ==
  ASSUME NEW segs \in Seq(Segment), NEW pos \in SeqNumbers, NEW end \in SeqNumbers,
         Consistent(segs), Laid(segs, pos, end), NEW bytes \in Int,
         NEW n \in Nat, n < Len(segs), Remains(segs, pos, end, bytes, n)
  PROVE  Remains(segs, pos, end, bytes, n + 1)
  <1> DEFINE rest == Suffix(segs, n)
             more == Suffix(segs, n + 1)
             k == Reach(segs, pos, n)
             to == (pos + k) % SeqSpace
             size == segs[n + 1].size
             len == segs[n + 1].len
  <1>1. n \in 0 .. Len(segs) /\ n + 1 \in 0 .. Len(segs)
    BY SMT
  <1>2. /\ k \in 0 .. SequenceDistance(end, pos) /\ segs[n + 1] \in Segment
        /\ size \in Nat \ {0} /\ Reach(segs, pos, n + 1) = k + size
        /\ Reach(segs, pos, n + 1) \in 0 .. SequenceDistance(end, pos)
    BY <1>1, ReachType
  <1>3. PICK gone \in 0 .. k : Good(rest, to, end, bytes - gone)
    BY DEF Remains
  <1>4. /\ rest \in Seq(Segment) /\ rest # <<>> /\ rest[1] = segs[n + 1] /\ Tail(rest) = more
        /\ more \in Seq(Segment)
    BY <1>1, SuffixTail
  <1>5. /\ SequenceDistance(end, pos) \in SeqNumbers /\ SequenceDistance(end, pos) \in Nat
        /\ SequenceDistance(end, pos) <= SeqSpace /\ SeqSpace \in Nat \ {0}
    <2>1. SequenceDistance(end, pos) \in SeqNumbers
      BY DistanceType
    <2> QED
      BY <2>1, SeqSpaceType, SMT DEF SeqNumbers
  <1>6. k \in Nat /\ k \in 0 .. SeqSpace /\ k + size \in 0 .. SeqSpace /\ pos \in Int
    BY <1>2, <1>5, SMT DEF SeqNumbers
  <1>7. len \in 0 .. size
    <2>1. /\ len \in Nat /\ segs[n + 1].flags \in Flags
      BY <1>2, SegmentFields
    <2>2. size = SequenceLength(len, segs[n + 1].flags)
      <3>1. n + 1 \in 1 .. Len(segs)
        BY SMT
      <3> QED
        BY <3>1 DEF Consistent
    <2>3. \A f : Flag(f, segs[n + 1].flags) \in 0 .. 1
      BY SMT DEF Flag
    <2> QED
      BY <1>2, <2>1, <2>2, <2>3, SMT DEF SequenceLength
  <1> HIDE DEF rest, more, k, size, len
  <1>8. /\ to \in SeqNumbers /\ to \in Int /\ size \in 0 .. SeqSpace /\ len \in Int
        /\ to = IF pos + k >= SeqSpace THEN pos + k - SeqSpace ELSE pos + k
    <2>1. /\ to \in SeqNumbers
          /\ to = IF pos + k >= SeqSpace THEN pos + k - SeqSpace ELSE pos + k
      <3>1. k \in 0 .. SeqSpace
        BY <1>6
      <3> QED
        BY <3>1, MovedType
    <2>2. size \in 0 .. SeqSpace
      BY <1>2, <1>5, <1>6, SMT
    <2>3. to \in Int
      BY <2>1, SMT DEF SeqNumbers
    <2> QED
      BY <1>7, <2>1, <2>2, <2>3, SMT
  <1> HIDE DEF to
  <1>9. Laid(more, (to + size) % SeqSpace, end)
    BY <1>2, <1>3, <1>4, <1>8, TailLaid DEF Good, size
  <1>10. (to + size) % SeqSpace = (pos + (k + size)) % SeqSpace
    <2>1. (pos + (k + size)) % SeqSpace =
            IF pos + (k + size) >= SeqSpace THEN pos + (k + size) - SeqSpace ELSE pos + (k + size)
      <3> DEFINE sum == k + size
      <3>1. sum \in 0 .. SeqSpace
        BY <1>6
      <3> HIDE DEF sum
      <3>2. (pos + sum) % SeqSpace =
              IF pos + sum >= SeqSpace THEN pos + sum - SeqSpace ELSE pos + sum
        BY <3>1, MovedType
      <3> QED
        BY <3>2 DEF sum
    <2>2. (to + size) % SeqSpace = IF to + size >= SeqSpace THEN to + size - SeqSpace ELSE to + size
      <3>1. to \in SeqNumbers /\ size \in 0 .. SeqSpace
        BY <1>8
      <3> QED
        BY <3>1, MovedType
    <2>3. pos < SeqSpace /\ pos >= 0 /\ to < SeqSpace /\ to >= 0
      BY <1>5, <1>8, SMT DEF SeqNumbers
    <2> QED
      BY <1>2, <1>5, <1>6, <1>8, <2>1, <2>2, <2>3, SMT
  <1>11. Consistent(more)
    BY <1>3, <1>4, TailConsistent DEF Good
  <1>12. HasPayload(more, (bytes - gone) - len)
    <2>1. bytes - gone \in Int
      BY <1>3, <1>6, SMT
    <2>2. HasPayload(rest, bytes - gone)
      BY <1>3 DEF Good
    <2>3. HasPayload(Tail(rest), (bytes - gone) - rest[1].len)
      <3> DEFINE held == bytes - gone
      <3>1. held \in Int /\ HasPayload(rest, held)
        BY <2>1, <2>2
      <3> HIDE DEF held
      <3>2. HasPayload(Tail(rest), held - rest[1].len)
        BY <1>4, <3>1, TailPayload
      <3> QED
        BY <3>2 DEF held
    <2>4. rest[1].len = len
      BY <1>4 DEF len
    <2> QED
      BY <1>4, <2>3, <2>4
  <1>13. (bytes - gone) - len = bytes - (gone + len) /\ gone + len \in 0 .. k + size
    BY <1>2, <1>3, <1>6, <1>7, SMT
  <1>14. Good(more, (pos + (k + size)) % SeqSpace, end, bytes - (gone + len))
    BY <1>4, <1>9, <1>10, <1>11, <1>12, <1>13 DEF Good
  <1> QED
    BY <1>2, <1>13, <1>14 DEF Remains, more

LEMMA SuffixGood ==
  ASSUME NEW segs \in Seq(Segment), NEW pos \in SeqNumbers, NEW end \in SeqNumbers,
         NEW bytes \in Int, Good(segs, pos, end, bytes)
  PROVE  \A n \in 0 .. Len(segs) : Remains(segs, pos, end, bytes, n)
  <1> DEFINE Bad == {n \in Nat : n <= Len(segs) /\ ~Remains(segs, pos, end, bytes, n)}
  <1>1. Consistent(segs) /\ Laid(segs, pos, end) /\ Len(segs) \in Nat
    BY DEF Good
  <1>2. Remains(segs, pos, end, bytes, 0)
    <2>1. Reach(segs, pos, 0) = 0 /\ Suffix(segs, 0) = segs
      BY SuffixAll DEF Reach
    <2>2. (pos + 0) % SeqSpace = pos
      <3>1. (pos + 0) % SeqSpace = IF pos + 0 >= SeqSpace THEN pos + 0 - SeqSpace ELSE pos + 0
        BY SeqSpaceType, MovedType
      <3> QED
        BY <3>1, SeqSpaceType, SMT DEF SeqNumbers
    <2>3. bytes - 0 = bytes
      BY SMT
    <2> QED
      BY <2>1, <2>2, <2>3 DEF Remains
  <1>3. ASSUME Bad # {} PROVE FALSE
    <2>1. PICK n \in Bad : \A m \in Bad : n <= m
      BY <1>3, LeastExists
    <2>2. n \in Nat /\ n <= Len(segs) /\ ~Remains(segs, pos, end, bytes, n)
      OBVIOUS
    <2>3. n # 0
      BY <1>2, <2>2
    <2>4. n - 1 \in Nat /\ n - 1 < Len(segs) /\ (n - 1) + 1 = n /\ ~(n <= n - 1)
      BY <1>1, <2>2, <2>3, SMT
    <2> HIDE DEF Bad
    <2>5. n - 1 \notin Bad
      BY <2>1, <2>4
    <2>6. Remains(segs, pos, end, bytes, n - 1)
      BY <1>1, <2>4, <2>5, SMT DEF Bad
    <2>7. \A m \in Nat : m = n - 1 => Remains(segs, pos, end, bytes, m + 1)
      <3> SUFFICES ASSUME NEW m \in Nat, m = n - 1
                   PROVE  Remains(segs, pos, end, bytes, m + 1)
        OBVIOUS
      <3>1. m < Len(segs) /\ Remains(segs, pos, end, bytes, m)
        BY <2>4, <2>6
      <3> QED
        BY <1>1, <3>1, RemainsNext
    <2> QED
      BY <2>2, <2>4, <2>7
  <1> QED
    BY <1>1, <1>3, SMT

\* The payload in flight takes no more numbers than are in use.
LEMMA PayloadBounds ==
  ASSUME NEW segs \in Seq(Segment), NEW pos \in SeqNumbers, NEW end \in SeqNumbers,
         NEW bytes \in Int, Good(segs, pos, end, bytes)
  PROVE  bytes \in 0 .. SequenceDistance(end, pos)
  <1> DEFINE n == Len(segs)
             k == Reach(segs, pos, n)
  <1>1. n \in 0 .. Len(segs) /\ Remains(segs, pos, end, bytes, n)
    BY SuffixGood
  <1>2. k = SequenceDistance(end, pos) /\ k \in 0 .. SequenceDistance(end, pos)
    BY <1>1, ReachType DEF Good
  <1>3. PICK gone \in 0 .. k : Good(Suffix(segs, n), (pos + k) % SeqSpace, end, bytes - gone)
    BY <1>1 DEF Remains
  <1>4. Suffix(segs, n) = <<>>
    BY <1>1, SuffixTail
  <1>5. bytes - gone = 0
    <2> DEFINE held == bytes - gone
               to == (pos + k) % SeqSpace
    <2>1. Good(<<>>, to, end, held)
      BY <1>3, <1>4
    <2> HIDE DEF held, to
    <2>2. HasPayload(<<>>, held) /\ <<>> \in Seq(Segment)
      BY <2>1 DEF Good
    <2>3. PayloadBytes(<<>>) = held /\ PayloadBytes(<<>>) = 0
      BY <2>2, EmptyPayload, PayloadIs
    <2> QED
      BY <2>3 DEF held
  <1> QED
    BY <1>2, <1>3, <1>5, SMT

\* What is outstanding, in numbers and in segments.
LEMMA OutstandingEmpty ==
  ASSUME NEW segs \in Seq(Segment), NEW pos \in SeqNumbers, NEW end \in SeqNumbers,
         Consistent(segs), Laid(segs, pos, end)
  PROVE  /\ segs = <<>> <=> end = pos
         /\ segs = <<>> <=> SequenceDistance(end, pos) = 0
  <1>1. SequenceDistance(end, pos) = 0 <=> end = pos
    BY NoDistance
  <1>2. segs = <<>> => end = pos
    BY DEF Laid
  <1>3. ASSUME segs # <<>> PROVE SequenceDistance(end, pos) # 0
    <2>1. 0 \in 0 .. Len(segs) /\ 0 < Len(segs) /\ 0 + 1 = 1 /\ 1 \in 0 .. Len(segs)
      BY <1>3
    <2>2. /\ segs[1].size \in Nat \ {0} /\ Reach(segs, pos, 1) = 0 + segs[1].size
      BY <2>1, ReachType DEF Reach
    <2>3. Reach(segs, pos, 1) \in 0 .. SequenceDistance(end, pos)
      BY <2>1, ReachType
    <2>4. SequenceDistance(end, pos) \in Nat
      BY DistanceType, SMT DEF SeqNumbers
    <2> QED
      BY <2>2, <2>3, <2>4, SMT
  <1> QED
    BY <1>1, <1>2, <1>3

\* Of the segments, n are covered by an advance and the next one is not.
Cut(segs, pos, advance, n) ==
  /\ n \in 0 .. Len(segs)
  /\ \A i \in 1 .. n : EndsAt(segs, pos, i) <= advance
  /\ n < Len(segs) => ~(EndsAt(segs, pos, n + 1) <= advance)

LEMMA CutExists ==
  ASSUME NEW segs \in Seq(Segment), NEW pos, NEW advance
  PROVE  \E n \in 0 .. Len(segs) : Cut(segs, pos, advance, n)
  <1> DEFINE Beyond == {n \in Nat : n < Len(segs) /\ ~(EndsAt(segs, pos, n + 1) <= advance)}
  <1>1. Len(segs) \in Nat
    OBVIOUS
  <1>2. CASE Beyond = {}
    <2>1. ASSUME NEW i \in 1 .. Len(segs) PROVE EndsAt(segs, pos, i) <= advance
      <3>1. i - 1 \in Nat /\ i - 1 < Len(segs) /\ (i - 1) + 1 = i
        BY <1>1, SMT
      <3> QED
        BY <1>2, <3>1
    <2>2. Len(segs) \in 0 .. Len(segs) /\ ~(Len(segs) < Len(segs))
      BY <1>1, SMT
    <2> QED
      BY <2>1, <2>2 DEF Cut
  <1>3. CASE Beyond # {}
    <2>1. PICK n \in Beyond : \A m \in Beyond : n <= m
      BY <1>3, LeastExists
    <2>2. n \in Nat /\ n < Len(segs) /\ ~(EndsAt(segs, pos, n + 1) <= advance)
      OBVIOUS
    <2>3. ASSUME NEW i \in 1 .. n PROVE EndsAt(segs, pos, i) <= advance
      <3>1. i - 1 \in Nat /\ i - 1 < Len(segs) /\ (i - 1) + 1 = i /\ ~(n <= i - 1)
        BY <1>1, <2>2, SMT
      <3> QED
        BY <2>1, <3>1
    <2>4. n \in 0 .. Len(segs)
      BY <1>1, <2>2, SMT
    <2> QED
      BY <2>2, <2>3, <2>4 DEF Cut
  <1> QED
    BY <1>2, <1>3

LEMMA WholeSegmentsCut ==
  ASSUME NEW p \in Queue, NEW ack
  PROVE  Cut(p.segs, p.una, SequenceDistance(ack, p.una), WholeSegments(p, ack))
  <1> DEFINE P(n) == /\ \A i \in 1 .. n : SequenceDistance(p.segs[i].seq, p.una) + p.segs[i].size
                                            <= SequenceDistance(ack, p.una)
                     /\ n < Len(p.segs) =>
                          ~(SequenceDistance(p.segs[n + 1].seq, p.una) + p.segs[n + 1].size
                              <= SequenceDistance(ack, p.una))
  <1>1. WholeSegments(p, ack) = CHOOSE n \in 0 .. Len(p.segs) : P(n)
    BY DEF WholeSegments
  <1>2. \E n \in 0 .. Len(p.segs) : P(n)
    BY QueueFields, CutExists DEF Cut, EndsAt, At
  <1>3. WholeSegments(p, ack) \in 0 .. Len(p.segs) /\ P(WholeSegments(p, ack))
    <2> HIDE DEF P
    <2> QED
      BY <1>1, <1>2
  <1> QED
    BY <1>3 DEF Cut, EndsAt, At

\* What a cut says of the position: it is between the end of the segments that go
\* and the end of the next.
LEMMA CutReach ==
  ASSUME NEW segs \in Seq(Segment), NEW pos \in SeqNumbers, NEW end \in SeqNumbers,
         Consistent(segs), Laid(segs, pos, end), NEW advance \in 0 .. SequenceDistance(end, pos),
         NEW n, Cut(segs, pos, advance, n)
  PROVE  /\ n \in 0 .. Len(segs)
         /\ Reach(segs, pos, n) \in 0 .. advance
         /\ n = Len(segs) => Reach(segs, pos, n) = advance /\ advance = SequenceDistance(end, pos)
         /\ n < Len(segs) => advance < Reach(segs, pos, n) + segs[n + 1].size
  <1>1. n \in 0 .. Len(segs) /\ Len(segs) \in Nat /\ n \in Nat
    BY DEF Cut
  <1>2. SequenceDistance(end, pos) \in Nat
    BY DistanceType, SMT DEF SeqNumbers
  <1>3. /\ Reach(segs, pos, n) \in 0 .. SequenceDistance(end, pos)
        /\ n = Len(segs) => Reach(segs, pos, n) = SequenceDistance(end, pos)
    BY <1>1, ReachType
  <1>4. Reach(segs, pos, n) \in 0 .. advance
    <2>1. CASE n = 0
      BY <1>2, <2>1, SMT DEF Reach
    <2>2. CASE n # 0
      <3>1. n \in 1 .. n
        BY <1>1, <2>2, SMT
      <3>2. EndsAt(segs, pos, n) <= advance
        BY <3>1 DEF Cut
      <3>3. Reach(segs, pos, n) = EndsAt(segs, pos, n)
        BY <2>2 DEF Reach
      <3> QED
        BY <1>2, <1>3, <3>2, <3>3, SMT
    <2> QED
      BY <2>1, <2>2
  <1>5. ASSUME n < Len(segs) PROVE advance < Reach(segs, pos, n) + segs[n + 1].size
    <2>1. n + 1 # 0
      BY <1>1, SMT
    <2>2. /\ Reach(segs, pos, n + 1) = Reach(segs, pos, n) + segs[n + 1].size
          /\ segs[n + 1].size \in Nat
      BY <1>1, <1>5, ReachType
    <2>3. ~(Reach(segs, pos, n + 1) <= advance)
      BY <1>5, <2>1 DEF Cut, Reach
    <2> QED
      BY <1>2, <1>3, <2>2, <2>3, SMT
  <1> QED
    BY <1>1, <1>2, <1>3, <1>4, <1>5, SMT

LEMMA Returned ==
  ASSUME NEW ack \in SeqNumbers, NEW pos \in SeqNumbers
  PROVE  (pos + SequenceDistance(ack, pos)) % SeqSpace = ack
  <1> DEFINE k == SequenceDistance(ack, pos)
  <1>1. k = IF ack >= pos THEN ack - pos ELSE ack - pos + SeqSpace
    BY DistanceCases
  <1>2. k \in 0 .. SeqSpace
    BY DistanceType, SeqSpaceType, SMT DEF SeqNumbers
  <1> HIDE DEF k
  <1>3. (pos + k) % SeqSpace = IF pos + k >= SeqSpace THEN pos + k - SeqSpace ELSE pos + k
    BY <1>2, MovedType
  <1>4. (pos + k) % SeqSpace = ack
    BY <1>1, <1>2, <1>3, SeqSpaceType, SMT DEF SeqNumbers
  <1> QED
    BY <1>4 DEF k

\* The head of the remaining segments loses the numbers before ack, of which some
\* are payload.
LEMMA TrimmedGood ==
  ASSUME NEW segs \in Seq(Segment), segs # <<>>, NEW pos \in SeqNumbers, NEW end \in SeqNumbers,
         NEW bytes \in Int, Good(segs, pos, end, bytes), segs[1].size < Half,
         NEW k \in Nat \ {0}, k < segs[1].size
  PROVE  \E gone \in 0 .. k :
           Good([segs EXCEPT ![1] = ConsumeSegmentPrefix(@, k)], (pos + k) % SeqSpace, end,
                bytes - gone)
  <1> DEFINE s == segs[1]
             rest == ConsumeSegmentPrefix(s, k)
             gone == ConsumedData(s, k)
             more == [segs EXCEPT ![1] = rest]
  <1>1. /\ 1 \in 1 .. Len(segs) /\ s \in Segment /\ Consistent(segs) /\ Laid(segs, pos, end)
        /\ HasPayload(segs, bytes)
    BY DEF Good
  <1>2. Describes(s)
    BY <1>1, ConsistentIs
  <1>3. /\ rest \in Segment /\ Describes(rest) /\ rest.seq = (s.seq + k) % SeqSpace
        /\ rest.size = s.size - k /\ rest.len = s.len - gone
    BY <1>1, <1>2, PrefixDescribes, ConsumeSegmentPrefixType
  <1>4. gone \in 0 .. k /\ gone \in Int
    <2>1. gone = LET left == k - ConsumedSyn(s, k) IN IF left < s.len THEN left ELSE s.len
      BY DEF ConsumedData
    <2>2. ConsumedSyn(s, k) \in 0 .. k /\ gone \in 0 .. s.len /\ s.len \in Nat
      BY <1>1, ConsumedBounds, SegmentFields
    <2> HIDE DEF gone, s
    <2> QED
      BY <2>1, <2>2, SMT
  <1> HIDE DEF rest, gone
  <1>5. more \in Seq(Segment)
    BY <1>1, <1>3, ExceptSeq
  <1>6. Laid(more, (pos + k) % SeqSpace, end)
    BY <1>1, <1>3, HeadLaid
  <1>7. Consistent(more)
    BY <1>1, <1>3, HeadConsistent
  <1>8. HasPayload(more, bytes - gone)
    BY <1>1, <1>3, <1>4, HeadPayload
  <1> QED
    BY <1>4, <1>5, <1>6, <1>7, <1>8 DEF Good, rest

LEMMA UnacknowledgedGood ==
  ASSUME NEW p \in Queue, ~Closed(p), Sound(p, p.una), NEW ack \in SeqNumbers,
         AckStatus(p, ack) = "advanced"
  PROVE  \E gone \in 0 .. SequenceDistance(ack, p.una) :
           Good(Unacknowledged(p, ack), ack, p.nxt, p.inFlight - gone)
  <1> DEFINE segs == p.segs
             pos == p.una
             end == p.nxt
             bytes == p.inFlight
             advance == SequenceDistance(ack, pos)
             n == WholeSegments(p, ack)
             k == Reach(segs, pos, n)
             rest == Suffix(segs, n)
             to == (pos + k) % SeqSpace
             prefix == advance - SequenceDistance(rest[1].seq, pos)
  <1>1. /\ segs \in Seq(Segment) /\ pos \in SeqNumbers /\ end \in SeqNumbers /\ bytes \in Int
        /\ Good(segs, pos, end, bytes) /\ Consistent(segs) /\ Laid(segs, pos, end)
    BY QueueFields DEF Sound, Good
  <1>2. advance \in 0 .. SequenceDistance(end, pos) /\ SequenceDistance(end, pos) < Half
    <2>1. advance \in SeqNumbers /\ SequenceDistance(end, pos) \in SeqNumbers
      BY <1>1, DistanceType
    <2>2. ~(advance > SequenceDistance(end, pos)) /\ SequenceDistance(end, pos) < Half
      BY DEF AckStatus, Outstanding, Sound
    <2> QED
      BY <2>1, <2>2, SMT DEF SeqNumbers
  <1>3. Cut(segs, pos, advance, n)
    BY WholeSegmentsCut
  <1>4. Unacknowledged(p, ack) = IF rest # <<>> /\ prefix > 0
                                 THEN [rest EXCEPT ![1] = ConsumeSegmentPrefix(@, prefix)]
                                 ELSE rest
    BY DEF Unacknowledged, Suffix
  <1>5. (pos + advance) % SeqSpace = ack
    BY <1>1, Returned
  <1> HIDE DEF segs, pos, end, bytes, advance, n
  <1>6. /\ n \in 0 .. Len(segs) /\ k \in 0 .. advance
        /\ n = Len(segs) => k = advance
        /\ n < Len(segs) => advance < k + segs[n + 1].size
    BY <1>1, <1>2, <1>3, CutReach
  <1>7. Remains(segs, pos, end, bytes, n)
    BY <1>1, <1>6, SuffixGood
  <1>8. PICK gone \in 0 .. k : Good(rest, to, end, bytes - gone)
    BY <1>7 DEF Remains
  <1>9. /\ k \in Nat /\ advance \in Nat /\ gone \in Nat /\ gone <= k /\ k <= advance
        /\ Len(segs) \in Nat /\ (n = Len(segs) \/ n < Len(segs))
        /\ SequenceDistance(end, pos) \in Nat /\ Half \in Nat /\ SequenceDistance(end, pos) < Half
    <2>1. Len(segs) \in Nat
      BY <1>1
    <2>2. SequenceDistance(end, pos) \in Nat
      BY <1>1, DistanceType, SMT DEF SeqNumbers
    <2> QED
      BY <1>2, <1>6, <1>8, <2>1, <2>2, SeqSpaceType, SMT
  <1>10. CASE n = Len(segs)
    <2>1. rest = <<>> /\ k = advance
      BY <1>1, <1>6, <1>10, SuffixTail
    <2>2. Unacknowledged(p, ack) = rest /\ to = ack
      BY <1>4, <1>5, <2>1
    <2>3. gone \in 0 .. advance
      BY <1>9, <2>1
    <2>4. Good(Unacknowledged(p, ack), ack, end, bytes - gone)
      BY <1>8, <2>2
    <2> QED
      BY <2>3, <2>4 DEF advance, pos, end, bytes
  <1>11. CASE n < Len(segs)
    <2>1. /\ rest # <<>> /\ rest \in Seq(Segment) /\ rest[1] = segs[n + 1]
      BY <1>1, <1>6, <1>11, SuffixTail
    <2>2. /\ segs[n + 1] \in Segment /\ segs[n + 1].size \in Nat \ {0}
          /\ At(segs, pos, n + 1) = k
          /\ Reach(segs, pos, n + 1) = k + segs[n + 1].size
      BY <1>1, <1>6, <1>11, ReachType
    <2>3. Reach(segs, pos, n + 1) \in 0 .. SequenceDistance(end, pos)
      <3>1. n + 1 \in 0 .. Len(segs)
        BY <1>6, <1>11, SMT
      <3> QED
        BY <1>1, <3>1, ReachType
    <2>4. rest[1].size < Half /\ rest[1].size \in Nat /\ advance < k + rest[1].size
      BY <1>6, <1>9, <1>11, <2>1, <2>2, <2>3, SMT
    <2>5. prefix = advance - k
      BY <2>1, <2>2 DEF At
    <2>6. CASE prefix > 0
      <3>1. prefix \in Nat \ {0} /\ prefix < rest[1].size
        BY <1>9, <2>4, <2>5, <2>6, SMT
      <3>2. Unacknowledged(p, ack) = [rest EXCEPT ![1] = ConsumeSegmentPrefix(@, prefix)]
        BY <1>4, <2>1, <2>6
      <3>3. to \in SeqNumbers /\ bytes - gone \in Int
        <4>1. k \in Int /\ pos \in Int
          BY <1>1, <1>9, SMT DEF SeqNumbers
        <4> QED
          BY <1>1, <1>9, <4>1, ModType, SMT
      <3>4. (to + prefix) % SeqSpace = ack
        <4>1. k \in 0 .. SeqSpace /\ advance \in 0 .. SeqSpace /\ prefix \in 0 .. SeqSpace
              /\ k + prefix = advance
          BY <1>2, <1>9, <2>5, <3>1, SMT DEF SeqSpace
        <4>2. to = IF pos + k >= SeqSpace THEN pos + k - SeqSpace ELSE pos + k
          BY <1>1, <4>1, MovedType
        <4> HIDE DEF to, prefix, k
        <4>3. (to + prefix) % SeqSpace =
                IF to + prefix >= SeqSpace THEN to + prefix - SeqSpace ELSE to + prefix
          BY <3>3, <4>1, MovedType
        <4>4. ack = IF pos + advance >= SeqSpace THEN pos + advance - SeqSpace ELSE pos + advance
          BY <1>1, <1>5, <4>1, MovedType
        <4> QED
          BY <1>1, <3>3, <4>1, <4>2, <4>3, <4>4, SeqSpaceType, SMT DEF SeqNumbers
      <3> DEFINE held == bytes - gone
      <3>5. held \in Int /\ Good(rest, to, end, held)
        BY <1>8, <3>3
      <3> HIDE DEF held, to, prefix, rest
      <3>6. PICK more \in 0 .. prefix :
              Good([rest EXCEPT ![1] = ConsumeSegmentPrefix(@, prefix)],
                   (to + prefix) % SeqSpace, end, held - more)
        BY <1>1, <2>1, <2>4, <3>1, <3>3, <3>5, TrimmedGood
      <3>7. /\ gone + more \in 0 .. advance /\ held - more = bytes - (gone + more)
        BY <1>1, <1>9, <2>5, <3>1, <3>6, SMT DEF held
      <3>8. Good(Unacknowledged(p, ack), ack, end, bytes - (gone + more))
        BY <3>2, <3>4, <3>6, <3>7
      <3> QED
        BY <3>7, <3>8 DEF advance, pos, end, bytes
    <2>7. CASE ~(prefix > 0)
      <3>1. k = advance
        BY <1>9, <2>5, <2>7, SMT
      <3>2. Unacknowledged(p, ack) = rest /\ to = ack
        BY <1>4, <1>5, <2>7, <3>1
      <3>3. gone \in 0 .. advance
        BY <1>9, <3>1
      <3>4. Good(Unacknowledged(p, ack), ack, end, bytes - gone)
        BY <1>8, <3>2
      <3> QED
        BY <3>3, <3>4 DEF advance, pos, end, bytes
    <2> QED
      BY <2>6, <2>7
  <1> QED
    BY <1>9, <1>10, <1>11

-----------------------------------------------------------------------------
(* The methods as the relay uses them: the callbacks return, and find the  *)
(* connection current.                                                     *)

LEMMA ModesDecide ==
  ASSUME NEW p, NEW r, r.modes = p.modes
  PROVE  /\ Closed(r) <=> Closed(p)
         /\ Exhausted(r) <=> Exhausted(p)
         /\ Live(r) <=> Live(p)
         /\ Persisting(r) <=> Persisting(p)
  BY Zenon DEF Closed, Exhausted, Live, Persisting

LEMMA TrackModes ==
  ASSUME NEW p \in Queue, NEW len \in Nat, NEW flags \in Flags
  PROVE  Track(p, len, flags).modes = p.modes
  <1> DEFINE size == SequenceLength(len, flags)
             segment == [seq |-> p.nxt, first |-> (p.nxt + Flag("syn", flags)) % SeqSpace,
                         len |-> len, size |-> size, flags |-> flags]
             tracked == [p EXCEPT !.segs = Append(@, segment), !.inFlight = @ + len,
                                  !.nxt = (@ + size) % SeqSpace]
  <1>1. Track(p, len, flags) =
          IF size = 0 THEN p
          ELSE IF Len(tracked.segs) = 1 /\ p.timer = NoTimer THEN ArmTimer(tracked) ELSE tracked
    BY Zenon DEF Track
  <1>2. tracked.modes = p.modes
    BY Zenon DEF Queue
  <1>3. tracked \in Queue
    <2>1. size \in Nat /\ p.nxt \in SeqNumbers /\ p.nxt \in Int /\ Flag("syn", flags) \in Nat
      BY QueueFields, SMT DEF SequenceLength, Flag, SeqNumbers, SeqSpace
    <2>2. /\ (p.nxt + Flag("syn", flags)) % SeqSpace \in SeqNumbers
          /\ (p.nxt + size) % SeqSpace \in SeqNumbers
      BY <2>1, ModType, SMT
    <2>3. segment \in Segment
      BY <2>1, <2>2, SMT DEF Segment
    <2>4. Append(p.segs, segment) \in Seq(Segment) /\ p.inFlight + len \in Int
      BY <2>3, QueueFields, SMT
    <2> QED
      BY <2>2, <2>4, Zenon DEF Queue
  <1> HIDE DEF tracked, segment, size
  <1>4. ArmTimer(tracked).modes = tracked.modes
    BY <1>3, ArmTimerFrame DEF SameButTimer
  <1> QED
    BY <1>1, <1>2, <1>4, Zenon

LEMMA FinishAckModes ==
  ASSUME NEW p \in Queue, NEW ack \in SeqNumbers
  PROVE  FinishAck(p, ack).modes = p.modes
  <1> DEFINE moved == [p EXCEPT !.una = ack, !.retries = 0,
                                !.rto = IF Persisting(p) THEN @ ELSE InitialRto]
  <1>1. 0 \in Nat /\ InitialRto \in Nat
    BY SMT
  <1>2. moved \in Queue /\ moved.modes = p.modes
    BY <1>1, Zenon DEF Queue
  <1> HIDE DEF moved
  <1>3. ClearTimer(moved) \in Queue /\ ClearTimer(moved).modes = moved.modes
    BY <1>2, ClearTimerType, ClearTimerFrame DEF SameButTimer
  <1>4. ArmTimer(ClearTimer(moved)).modes = ClearTimer(moved).modes
    BY <1>3, ArmTimerFrame DEF SameButTimer
  <1> QED
    BY <1>2, <1>3, <1>4, Zenon DEF FinishAck, moved

LEMMA DuplicateAckModes ==
  ASSUME NEW p \in Queue
  PROVE  DuplicateAck(p).modes = p.modes
  <1>1. [p EXCEPT !.retries = 0].modes = p.modes
    BY Zenon DEF Queue
  <1> QED
    BY <1>1, Zenon DEF DuplicateAck

LEMMA FastRetransmitSent ==
  ASSUME NEW p \in Queue
  PROVE  /\ SameData(p, FastRetransmit(p, "sent"))
         /\ FastRetransmit(p, "sent").modes = p.modes
  <1> DEFINE reset == [p EXCEPT !.rto = InitialRto]
             cleared == ClearTimer(reset)
  <1>1. InitialRto \in Nat
    BY SMT
  <1>2. reset \in Queue
    BY <1>1, Zenon DEF Queue
  <1>3. SameData(p, reset) /\ reset.modes = p.modes
    BY Zenon DEF Queue, SameData, Closed
  <1>4. FastRetransmit(p, "sent") \in {p, ArmTimer(cleared)}
    BY Zenon DEF FastRetransmit, EmitRetransmission
  <1> HIDE DEF reset
  <1>5. cleared \in Queue /\ SameData(reset, cleared) /\ cleared.modes = reset.modes
    BY <1>2, ClearTimerSame, ClearTimerFrame DEF SameButTimer
  <1> HIDE DEF cleared
  <1>6. SameData(cleared, ArmTimer(cleared)) /\ ArmTimer(cleared).modes = cleared.modes
    BY <1>5, ArmTimerSame, ArmTimerFrame DEF SameButTimer
  <1>7. SameData(p, ArmTimer(cleared)) /\ ArmTimer(cleared).modes = p.modes
    BY <1>3, <1>5, <1>6, KeepsTransitive
  <1> QED
    BY <1>4, <1>7, KeepsReflexive, Zenon

\* While it persists the queue probes; the rest of a queue in use stays as it was.
LEMMA SetPersistSent ==
  ASSUME NEW p \in Queue, NEW enabled \in BOOLEAN
  PROVE  LET r == SetPersist(p, enabled, "sent")
         IN /\ SameData(p, r)
            /\ ~Live(p) => r = p
            /\ Live(p) => Live(r) /\ (Persisting(r) <=> enabled)
  <1> DEFINE cleared == ClearTimer(p)
             modes == IF enabled THEN cleared.modes \cup {"persist"}
                                 ELSE cleared.modes \ {"persist"}
             reset == [cleared EXCEPT !.modes = modes, !.rto = InitialRto, !.retries = 0]
             r == SetPersist(p, enabled, "sent")
  <1>1. cleared \in Queue /\ SameData(p, cleared) /\ cleared.modes = p.modes
    BY ClearTimerSame, ClearTimerFrame DEF SameButTimer
  <1>2. modes \in SUBSET {"persist", "closed", "exhausted"}
    BY <1>1, QueueFields, SMT
  <1>3. /\ "closed" \in modes <=> "closed" \in p.modes
        /\ "exhausted" \in modes <=> "exhausted" \in p.modes
        /\ "persist" \in modes <=> enabled
    <2> HIDE DEF cleared
    <2> QED
      BY <1>1, SMT
  <1>4. InitialRto \in Nat /\ 0 \in Nat
    BY SMT
  <1>5. r = IF ~Live(p) \/ Persisting(p) = enabled THEN p ELSE ArmTimer(reset)
    BY Zenon DEF SetPersist, EmitRetransmission
  <1> HIDE DEF cleared, modes, r
  <1>6. reset \in Queue /\ reset.modes = modes
    BY <1>1, <1>2, <1>4, Zenon DEF Queue
  <1>7. SameData(cleared, reset)
    BY <1>1, <1>3, <1>6, Zenon DEF Queue, SameData, Closed
  <1> HIDE DEF reset
  <1>8. SameData(reset, ArmTimer(reset)) /\ ArmTimer(reset).modes = modes
    BY <1>6, ArmTimerSame, ArmTimerFrame DEF SameButTimer
  <1>9. SameData(p, ArmTimer(reset))
    BY <1>1, <1>7, <1>8, KeepsTransitive
  <1>10. CASE ~Live(p) \/ Persisting(p) = enabled
    <2>1. r = p
      BY <1>5, <1>10
    <2>2. Persisting(p) \in BOOLEAN
      BY DEF Persisting
    <2> QED
      BY <1>10, <2>1, <2>2, KeepsReflexive, Zenon DEF r
  <1>11. CASE ~(~Live(p) \/ Persisting(p) = enabled)
    <2>1. r = ArmTimer(reset) /\ Live(p)
      BY <1>5, <1>11
    <2>2. Live(r) /\ (Persisting(r) <=> enabled)
      BY <1>3, <1>8, <2>1, Zenon DEF Live, Closed, Exhausted, Persisting
    <2> QED
      BY <1>9, <2>1, <2>2, Zenon DEF r
  <1> QED
    BY <1>10, <1>11

\* What a timeout of a queue in use tracks when the relay's callback returns.
ProbeTracks(p, r, outcome) ==
  CASE outcome = "byte" -> Tracked(p, r, 1, {})
    [] outcome = "fin" -> Tracked(p, r, 0, {"fin"})
    [] OTHER -> SameData(p, r)

LEMMA ProbeTracksThen ==
  ASSUME NEW p, NEW r, NEW t, NEW u, NEW outcome,
         SameData(p, r), ProbeTracks(r, t, outcome), SameData(t, u)
  PROVE  ProbeTracks(p, u, outcome)
  <1>1. CASE outcome = "byte"
    BY <1>1, TrackedThenSame, SameThenTracked, Zenon DEF ProbeTracks
  <1>2. CASE outcome = "fin"
    BY <1>2, TrackedThenSame, SameThenTracked, Zenon DEF ProbeTracks
  <1>3. CASE outcome \notin {"byte", "fin"}
    BY <1>3, KeepsTransitive, Zenon DEF ProbeTracks
  <1> QED
    BY <1>1, <1>2, <1>3

LEMMA TimerCallbackSent ==
  ASSUME NEW p \in Queue, TimerFollows(p), NEW age \in p.callbacks,
         NEW outcome \in {"sent", "refused", "byte", "fin"}, outcome \in TimeoutOutcomes(p)
  PROVE  LET r == TimerCallback(p, age, outcome)
         IN /\ Live(p)
            /\ IF Exhausted(r) THEN SameData(p, r)
               ELSE r.modes = p.modes /\ ProbeTracks(p, r, outcome)
  <1> DEFINE fired == [p EXCEPT !.callbacks = @ \ {age}]
             started == [fired EXCEPT !.timer = NoTimer]
             counted == [started EXCEPT !.retries = @ + 1]
             probed == Probe(counted, outcome)
             limit == Exhaust(started, "limit")
             afterProbe == ArmTimer(Backoff(ClearTimer(probed)))
             afterEmit == ArmTimer(Backoff(counted))
             r == TimerCallback(p, age, outcome)
  <1>1. Live(p) /\ age = 0
    BY DEF TimerFollows, TimerStopped
  <1>2. p.callbacks \ {age} \in SUBSET Nat /\ NoTimer \in Nat \cup {NoTimer}
    BY QueueFields, SMT
  <1>3. fired \in Queue /\ SameData(p, fired) /\ fired.modes = p.modes
    BY <1>2, Zenon DEF Queue, SameData, Closed
  <1>4. r = HandleTimeout(started, outcome)
    BY <1>1, Zenon DEF TimerCallback
  <1> HIDE DEF fired
  <1>5. started \in Queue /\ SameData(fired, started) /\ started.modes = fired.modes
    BY <1>2, <1>3, Zenon DEF Queue, SameData, Closed
  <1>6. SameData(p, started) /\ started.modes = p.modes /\ ~Closed(started)
    BY <1>1, <1>3, <1>5, KeepsTransitive, ModesDecide, Zenon DEF Live
  <1> HIDE DEF started, r
  <1>7. counted \in Queue /\ counted.retries > 0
    BY <1>5, CountedType
  <1>8. SameData(p, counted) /\ counted.modes = p.modes
    <2>1. SameData(started, counted) /\ counted.modes = started.modes
      BY <1>5, Zenon DEF Queue, SameData, Closed
    <2> QED
      BY <1>6, <2>1, KeepsTransitive, Zenon
  <1>9. r = IF Persisting(p)
            THEN IF started.retries >= MaxRetransmissions THEN limit ELSE afterProbe
            ELSE IF HasOutstanding(p)
                 THEN IF started.retries >= MaxRetransmissions THEN limit
                      ELSE ArmTimer(Backoff(EmitRetransmission(counted, outcome)))
                 ELSE started
    <2>1. Live(started) /\ (Persisting(started) <=> Persisting(p))
          /\ (HasOutstanding(started) <=> HasOutstanding(p))
      BY <1>1, <1>6, ModesDecide, Zenon DEF SameData, HasOutstanding
    <2>2. outcome # "throws"
      BY Zenon
    <2> QED
      BY <1>4, <2>1, <2>2, Zenon
      DEF HandleTimeout, PersistTimeout, RetransmissionTimeout, counted, probed
  <1>10. SameData(p, limit) /\ Exhausted(limit)
    <2>1. SameData(started, limit)
      BY <1>5, ExhaustSame
    <2>2. ~Live(limit)
      BY <1>5, ExhaustFields
    <2>3. ~Closed(limit)
      BY <1>6, <2>1, Zenon DEF SameData
    <2> QED
      BY <1>6, <2>1, <2>2, <2>3, KeepsTransitive, Zenon DEF Live
  <1> HIDE DEF limit
  <1>11. ~Exhausted(p)
    BY <1>1 DEF Live
  <1>12. ASSUME NEW t \in Queue, t.modes = p.modes, ProbeTracks(p, t, outcome)
         PROVE  LET u == ArmTimer(Backoff(t)) IN u.modes = p.modes /\ ProbeTracks(p, u, outcome)
    <2>1. /\ Backoff(t) \in Queue /\ SameData(t, Backoff(t)) /\ Backoff(t).modes = t.modes
      BY <1>12, BackoffSame, BackoffFrame
    <2>2. /\ SameData(Backoff(t), ArmTimer(Backoff(t)))
          /\ ArmTimer(Backoff(t)).modes = Backoff(t).modes
      BY <2>1, ArmTimerSame, ArmTimerFrame DEF SameButTimer
    <2>3. SameData(t, ArmTimer(Backoff(t)))
      BY <2>1, <2>2, KeepsTransitive
    <2> QED
      BY <1>12, <2>1, <2>2, <2>3, KeepsReflexive, ProbeTracksThen, Zenon
  <1>13. CASE Persisting(p)
    <2>1. /\ probed \in Queue /\ probed.modes = p.modes /\ ProbeTracks(p, probed, outcome)
      <3>1. probed = IF outcome = "sent" THEN counted
                     ELSE IF outcome = "refused" THEN [counted EXCEPT !.retries = @ - 1]
                     ELSE IF outcome = "byte" THEN Track(counted, 1, {})
                     ELSE Track(counted, 0, {"fin"})
        BY Zenon DEF Probe
      <3>2. outcome \in ProbeOutcomes(p)
        BY <1>13 DEF TimeoutOutcomes
      <3>3. probed \in Queue
        BY <1>7, <3>2, ProbeType
      <3> HIDE DEF probed, counted
      <3>4. CASE outcome = "sent"
        BY <1>8, <3>1, <3>3, <3>4, Zenon DEF ProbeTracks
      <3>5. CASE outcome = "refused"
        <4>1. LET u == [counted EXCEPT !.retries = @ - 1]
              IN SameData(counted, u) /\ u.modes = counted.modes
          BY <1>7, Zenon DEF Queue, SameData, Closed
        <4>2. probed = [counted EXCEPT !.retries = @ - 1]
          BY <3>1, <3>5
        <4>3. SameData(counted, probed) /\ probed.modes = counted.modes
          BY <4>1, <4>2
        <4>4. SameData(p, probed)
          BY <1>8, <4>3, KeepsTransitive
        <4> QED
          BY <1>8, <3>3, <3>5, <4>3, <4>4, Zenon DEF ProbeTracks
      <3>6. CASE outcome = "byte"
        <4>1. probed = Track(counted, 1, {})
          BY <3>1, <3>6, Zenon
        <4>2. Tracked(counted, probed, 1, {}) /\ probed.modes = counted.modes
          BY <1>7, <4>1, ProbeSegments, TrackTracked, TrackModes
        <4> QED
          BY <1>8, <3>3, <3>6, <4>2, SameThenTracked, Zenon DEF ProbeTracks
      <3>7. CASE outcome = "fin"
        <4>1. probed = Track(counted, 0, {"fin"})
          BY <3>1, <3>7, Zenon
        <4>2. Tracked(counted, probed, 0, {"fin"}) /\ probed.modes = counted.modes
          BY <1>7, <4>1, ProbeSegments, TrackTracked, TrackModes
        <4> QED
          BY <1>8, <3>3, <3>7, <4>2, SameThenTracked, Zenon DEF ProbeTracks
      <3> QED
        BY <3>4, <3>5, <3>6, <3>7
    <2> HIDE DEF probed
    <2>2. /\ ClearTimer(probed) \in Queue /\ SameData(probed, ClearTimer(probed))
          /\ ClearTimer(probed).modes = probed.modes
      BY <2>1, ClearTimerSame, ClearTimerFrame DEF SameButTimer
    <2>3. ProbeTracks(p, ClearTimer(probed), outcome)
      BY <2>1, <2>2, KeepsReflexive, ProbeTracksThen, Zenon
    <2>4. afterProbe.modes = p.modes /\ ProbeTracks(p, afterProbe, outcome)
      BY <1>12, <2>1, <2>2, <2>3
    <2>5. r \in {limit, afterProbe}
      BY <1>9, <1>13, Zenon
    <2>6. ~Exhausted(afterProbe)
      BY <1>11, <2>4, ModesDecide, Zenon
    <2> HIDE DEF afterProbe
    <2> QED
      BY <1>1, <1>10, <2>4, <2>5, <2>6, Zenon DEF r
  <1>14. CASE ~Persisting(p)
    <2>1. outcome = "sent" 
      BY <1>14, Zenon DEF TimeoutOutcomes, EmitOutcomes
    <2>2. EmitRetransmission(counted, outcome) = counted
      BY <2>1, Zenon DEF EmitRetransmission
    <2>3. ProbeTracks(p, counted, outcome) /\ ProbeTracks(p, started, outcome)
      BY <1>6, <1>8, <2>1, Zenon DEF ProbeTracks
    <2> HIDE DEF counted
    <2>4. afterEmit.modes = p.modes /\ ProbeTracks(p, afterEmit, outcome)
      BY <1>7, <1>8, <1>12, <2>3
    <2>5. r \in {limit, afterEmit, started}
      BY <1>9, <1>14, <2>2, Zenon
    <2>6. ~Exhausted(afterEmit) /\ ~Exhausted(started)
      BY <1>6, <1>11, <2>4, ModesDecide, Zenon
    <2> HIDE DEF afterEmit
    <2> QED
      BY <1>1, <1>6, <1>10, <2>3, <2>4, <2>5, <2>6, Zenon DEF r
  <1> QED
    BY <1>13, <1>14

-----------------------------------------------------------------------------
(* What holds of a queue between two calls, and the numbers in use.        *)

Held(p) == p \in Queue /\ TimerFollows(p) /\ Sound(p, p.una)

\* The numbers in use that are no payload: those of SYN and FIN.
FlagsOut(p) == Outstanding(p) - p.inFlight

LEMMA HeldBounds ==
  ASSUME NEW p, Held(p)
  PROVE  /\ p.una \in SeqNumbers /\ p.nxt \in SeqNumbers /\ p.inFlight \in Int
         /\ Outstanding(p) \in Nat /\ Outstanding(p) \in SeqNumbers /\ Outstanding(p) < Half
         /\ FlagsOut(p) \in Int
         /\ ~Closed(p) => /\ p.inFlight \in 0 .. Outstanding(p) /\ FlagsOut(p) \in Nat
                          /\ HasOutstanding(p) <=> Outstanding(p) # 0
                          /\ HasOutstanding(p) <=> p.una # p.nxt
  <1>1. p \in Queue /\ Sound(p, p.una)
    BY DEF Held
  <1>2. /\ p.una \in SeqNumbers /\ p.nxt \in SeqNumbers /\ p.inFlight \in Int
        /\ p.segs \in Seq(Segment)
    BY <1>1, QueueFields
  <1>3. Outstanding(p) \in SeqNumbers /\ Outstanding(p) < Half
    BY <1>1, <1>2, DistanceType DEF Outstanding, Sound
  <1>4. Outstanding(p) \in Nat
    BY <1>3, SMT DEF SeqNumbers
  <1>5. FlagsOut(p) = Outstanding(p) - p.inFlight
    BY DEF FlagsOut
  <1>6. ASSUME ~Closed(p)
        PROVE  /\ p.inFlight \in 0 .. Outstanding(p)
               /\ HasOutstanding(p) <=> Outstanding(p) # 0
               /\ HasOutstanding(p) <=> p.una # p.nxt
    <2>1. Good(p.segs, p.una, p.nxt, p.inFlight)
      BY <1>1, <1>2, <1>6 DEF Sound, Good
    <2>2. p.inFlight \in 0 .. Outstanding(p)
      BY <1>2, <2>1, PayloadBounds DEF Outstanding
    <2>3. p.segs = <<>> <=> p.nxt = p.una
      BY <1>2, <2>1, OutstandingEmpty DEF Good
    <2>4. p.segs = <<>> <=> Outstanding(p) = 0
      BY <1>2, <2>1, OutstandingEmpty DEF Good, Outstanding
    <2> QED
      BY <2>2, <2>3, <2>4 DEF HasOutstanding
  <1> QED
    BY <1>2, <1>3, <1>4, <1>5, <1>6, SMT

\* An acknowledgement of numbers in use: of what remains neither the payload nor
\* the rest has become more.
LEMMA AcknowledgeEffect ==
  ASSUME NEW p, Held(p), ~Closed(p), NEW ack \in SeqNumbers, AckStatus(p, ack) = "advanced"
  PROVE  LET r == Acknowledge(p, ack)
         IN /\ Held(r) /\ r.modes = p.modes
            /\ r.una = ack /\ r.nxt = p.nxt
            /\ r.inFlight <= p.inFlight /\ FlagsOut(r) <= FlagsOut(p)
            /\ Outstanding(r) = Outstanding(p) - SequenceDistance(ack, p.una)
            /\ SequenceDistance(ack, p.una) \in 1 .. Outstanding(p)
  <1> DEFINE rest == Unacknowledged(p, ack)
             advance == SequenceDistance(ack, p.una)
             mid == [p EXCEPT !.segs = rest, !.inFlight = PayloadBytes(rest)]
             r == Acknowledge(p, ack)
  <1>1. p \in Queue /\ TimerFollows(p) /\ Sound(p, p.una) /\ HasPayload(p.segs, p.inFlight)
    BY DEF Held, Sound
  <1>2. PICK gone \in 0 .. advance : Good(rest, ack, p.nxt, p.inFlight - gone)
    BY <1>1, UnacknowledgedGood
  <1>3. /\ p.una \in SeqNumbers /\ p.nxt \in SeqNumbers /\ p.inFlight \in Int
        /\ Outstanding(p) \in Nat /\ Outstanding(p) < Half
    BY HeldBounds
  <1>4. advance \in 1 .. Outstanding(p) /\ advance \in Nat
    <2>1. advance \in SeqNumbers
      BY <1>3, DistanceType
    <2>2. advance # 0 /\ ~(advance > Outstanding(p))
      BY DEF AckStatus
    <2> QED
      BY <1>3, <2>1, <2>2, SMT DEF SeqNumbers
  <1>5. rest \in Seq(Segment) /\ HasPayload(rest, p.inFlight - gone)
    BY <1>2 DEF Good
  <1>6. PayloadBytes(rest) = p.inFlight - gone /\ p.inFlight - gone \in Int
    BY <1>3, <1>4, <1>5, PayloadIs, SMT
  <1>7. mid \in Queue
    BY <1>1, <1>5, <1>6, Zenon DEF Queue
  <1>8. /\ mid.una = p.una /\ mid.nxt = p.nxt /\ mid.segs = rest
        /\ mid.inFlight = p.inFlight - gone
        /\ mid.modes = p.modes /\ mid.timer = p.timer /\ mid.callbacks = p.callbacks
    BY <1>1, <1>6, Zenon DEF Queue
  <1>9. TimerCurrent(mid)
    <2>1. TimerCurrent(p)
      BY <1>1, FollowsIsCurrent
    <2> HIDE DEF mid
    <2> QED
      BY <1>8, <2>1, Zenon DEF TimerCurrent
  <1>10. r = FinishAck(mid, ack)
    BY Zenon DEF Acknowledge
  <1> HIDE DEF mid, rest, r
  <1>11. /\ r \in Queue /\ TimerFollows(r) /\ r.una = ack /\ r.nxt = p.nxt /\ r.segs = rest
         /\ r.inFlight = p.inFlight - gone /\ r.modes = p.modes
    BY <1>7, <1>8, <1>9, <1>10, FinishAckType, FinishAckTimer, FinishAckData, FinishAckModes
  <1>12. Outstanding(r) = Outstanding(p) - advance
    <2>1. (p.una + advance) % SeqSpace = ack
      BY <1>3, Returned
    <2>2. advance \in 0 .. SequenceDistance(p.nxt, p.una)
      BY <1>4, SMT DEF Outstanding
    <2>3. SequenceDistance(p.nxt, (p.una + advance) % SeqSpace) =
            SequenceDistance(p.nxt, p.una) - advance
      BY <1>3, <2>2, MovedPosition
    <2> QED
      BY <1>11, <2>1, <2>3 DEF Outstanding
  <1>13. Sound(r, r.una)
    <2>1. Outstanding(r) < Half
      BY <1>3, <1>4, <1>12, HalfAssumption, SMT
    <2>2. Consistent(r.segs) /\ Laid(r.segs, r.una, r.nxt) /\ HasPayload(r.segs, r.inFlight)
      BY <1>2, <1>11 DEF Good
    <2> QED
      BY <2>1, <2>2 DEF Sound, Outstanding
  <1>14. r.inFlight <= p.inFlight /\ FlagsOut(r) <= FlagsOut(p)
    BY <1>2, <1>3, <1>4, <1>11, <1>12, SMT DEF FlagsOut
  <1> QED
    BY <1>4, <1>11, <1>12, <1>13, <1>14 DEF Held, r

\* A duplicate changes no number.
LEMMA DuplicateEffect ==
  ASSUME NEW p, Held(p), NEW ack \in SeqNumbers, AckStatus(p, ack) = "duplicate"
  PROVE  LET r == Acknowledge(p, ack)
         IN Held(r) /\ SameData(p, r) /\ r.modes = p.modes /\ ack = p.una
  <1>1. p \in Queue /\ TimerFollows(p) /\ Sound(p, p.una)
    BY DEF Held
  <1>2. Acknowledge(p, ack) = DuplicateAck(p)
    BY Zenon DEF Acknowledge
  <1>3. /\ DuplicateAck(p) \in Queue /\ TimerFollows(DuplicateAck(p))
        /\ SameData(p, DuplicateAck(p)) /\ DuplicateAck(p).modes = p.modes
    BY <1>1, DuplicateAckType, DuplicateAckTimer, DuplicateAckSame, DuplicateAckModes
  <1>4. Sound(DuplicateAck(p), p.una) /\ DuplicateAck(p).una = p.una
    BY <1>1, <1>3, KeepsSound DEF Keeps, SameData
  <1>5. SequenceDistance(ack, p.una) = 0
    BY DEF AckStatus
  <1>6. ack = p.una
    BY <1>1, <1>5, QueueFields, NoDistance
  <1> QED
    BY <1>2, <1>3, <1>4, <1>6 DEF Held

\* A queue that was held is held by every method that leaves its data alone, and
\* its timer right.
LEMMA SameDataHeld ==
  ASSUME NEW p, Held(p), NEW r \in Queue, TimerFollows(r), SameData(p, r)
  PROVE  /\ Held(r) /\ Outstanding(r) = Outstanding(p) /\ FlagsOut(r) = FlagsOut(p)
         /\ HasOutstanding(r) <=> HasOutstanding(p)
  <1>1. Sound(p, p.una) /\ Keeps(p, r) /\ r.una = p.una
    BY DEF Held, Keeps, SameData
  <1>2. Sound(r, p.una)
    BY <1>1, KeepsSound
  <1> QED
    BY <1>1, <1>2, Zenon DEF Held, Outstanding, FlagsOut, SameData, HasOutstanding

LEMMA TrackedHeld ==
  ASSUME NEW p, Held(p), ~Closed(p), NEW len \in Nat, NEW flags \in Flags,
         NEW r \in Queue, TimerFollows(r), Tracked(p, r, len, flags),
         SequenceLength(len, flags) > 0, Outstanding(p) + SequenceLength(len, flags) < Half
  PROVE  /\ Held(r) /\ r.una = p.una /\ r.inFlight = p.inFlight + len
         /\ r.nxt = (p.nxt + SequenceLength(len, flags)) % SeqSpace
         /\ Outstanding(r) = Outstanding(p) + SequenceLength(len, flags)
         /\ HasOutstanding(r)
  <1> DEFINE size == SequenceLength(len, flags)
  <1>1. p \in Queue /\ Sound(p, p.una) /\ p.segs \in Seq(Segment)
    BY QueueFields DEF Held
  <1>2. Sound(r, r.una) /\ r.una = p.una /\ r.inFlight = p.inFlight + len
    BY <1>1, TrackedSound DEF Tracked
  <1>3. r.nxt = (p.nxt + size) % SeqSpace
    BY DEF Tracked
  <1>4. size \in Nat
    BY SMT DEF SequenceLength, Flag
  <1> HIDE DEF size
  <1>5. SequenceDistance((p.nxt + size) % SeqSpace, p.una) = SequenceDistance(p.nxt, p.una) + size
    <2>1. /\ p.una \in SeqNumbers /\ p.nxt \in SeqNumbers /\ Outstanding(p) \in Nat
          /\ Outstanding(p) + size < SeqSpace
      BY <1>4, HeldBounds, SMT DEF SeqSpace, size
    <2> QED
      BY <1>4, <2>1, MovedTarget DEF Outstanding
  <1>6. Outstanding(r) = Outstanding(p) + size
    BY <1>2, <1>3, <1>5 DEF Outstanding
  <1>7. HasOutstanding(r)
    <2>1. r.segs = Append(p.segs, SentSegment(p, len, flags))
      BY DEF Tracked
    <2>2. Len(Append(p.segs, SentSegment(p, len, flags))) = Len(p.segs) + 1 /\ Len(p.segs) \in Nat
      BY <1>1
    <2>3. Len(r.segs) # 0
      BY <2>1, <2>2
    <2>4. Len(<<>>) = 0
      OBVIOUS
    <2> QED
      BY <2>3, <2>4 DEF HasOutstanding
  <1> QED
    BY <1>2, <1>3, <1>6, <1>7 DEF Held, size

LEMMA TrackHeld ==
  ASSUME NEW p, Held(p), Live(p), NEW len \in Nat, NEW flags \in Flags,
         SequenceLength(len, flags) > 0, Outstanding(p) + SequenceLength(len, flags) < Half
  PROVE  LET r == Track(p, len, flags)
         IN /\ Held(r) /\ r.modes = p.modes
            /\ r.una = p.una /\ r.inFlight = p.inFlight + len
            /\ r.nxt = (p.nxt + SequenceLength(len, flags)) % SeqSpace
            /\ Outstanding(r) = Outstanding(p) + SequenceLength(len, flags)
            /\ HasOutstanding(r)
  <1> DEFINE r == Track(p, len, flags)
  <1>1. p \in Queue /\ TimerFollows(p) /\ ~Closed(p)
    BY DEF Held, Live
  <1>2. SequenceLength(len, flags) \in Nat
    BY SMT DEF SequenceLength, Flag
  <1>3. SequenceLength(len, flags) # 0
    BY <1>2, SMT
  <1>4. /\ r \in Queue /\ TimerFollows(r) /\ r.modes = p.modes /\ Tracked(p, r, len, flags)
    BY <1>1, <1>3, TrackType, TrackTimer, TrackModes, TrackTracked
  <1> HIDE DEF r
  <1> QED
    BY <1>1, <1>4, TrackedHeld DEF r

LEMMA CloseHeld ==
  ASSUME NEW p, Held(p)
  PROVE  Held(Close(p)) /\ Closed(Close(p)) /\ Close(p).nxt = p.nxt /\ Close(p).una = p.una
  <1>1. p \in Queue /\ TimerFollows(p) /\ Sound(p, p.una)
    BY DEF Held
  <1>2. /\ Close(p) \in Queue /\ TimerFollows(Close(p)) /\ Keeps(p, Close(p))
        /\ IF Closed(p) THEN Close(p) = p ELSE Emptied(p, Close(p))
    BY <1>1, CloseKeeps, CloseTimer
  <1>3. Sound(Close(p), p.una)
    BY <1>1, <1>2, KeepsSound
  <1>4. Closed(Close(p)) /\ Close(p).nxt = p.nxt /\ Close(p).una = p.una
    BY <1>2, Zenon DEF Emptied
  <1> QED
    BY <1>2, <1>3, <1>4 DEF Held

=============================================================================
