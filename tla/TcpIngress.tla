------------------------------ MODULE TcpIngress ------------------------------
(***************************************************************************)
(* The half of a TCP connection that takes data from the VM (relay.js and  *)
(* tcp_utils.js): segments that arrive in any order, more than once or cut *)
(* differently are put together again and written to the sink (the real    *)
(* socket, or the PassThrough of a reverse connection); acknowledgements   *)
(* are delayed; and a sink that pushes back closes the window.             *)
(*                                                                         *)
(* The VM has a stream of StreamBytes bytes followed by FIN.  A byte is    *)
(* its position in that stream, so that a payload put under the wrong      *)
(* sequence number shows in what the sink gets.  The network may lose,     *)
(* repeat and reorder: any segment of the stream may arrive at any time.   *)
(*                                                                         *)
(* Seeded faults, used to see that the properties can fail:                *)
(* DrainedKeepsBytes, ScheduleAckOneLate, ScheduleAckCountsOnly,           *)
(* FinNotCounted, TrimmedNever and SinkDrainsSilently.                     *)
(***************************************************************************)
EXTENDS Integers, Sequences, FiniteSetsExt

CONSTANTS
  Half,             \* half of the sequence space: 2^31
  InitialSequence,  \* the first vmSeq: the VM's initial sequence number + 1
  Window,           \* TCP_WINDOW_SIZE
  FieldMax,         \* 0xffff, the most the window field can say
  AckEvery,         \* TCP_ACK_EVERY_SEGMENTS
  StreamBytes,      \* length of the VM's stream: a bound of the model
  MaxSegment,       \* longest segment the VM sends: a bound of the model
  VmTrims           \* does the VM leave out what is acknowledged when it resends?

SeqSpace == 2 * Half
SeqNumbers == 0 .. SeqSpace - 1

ASSUME SpaceAssumption == Half \in Nat \ {0} /\ InitialSequence \in SeqNumbers
ASSUME WindowAssumption == {Window, FieldMax, AckEvery, MaxSegment} \subseteq Nat \ {0}
ASSUME StreamAssumption == StreamBytes \in Nat /\ StreamBytes + 1 < Half /\ VmTrims \in BOOLEAN

VARIABLES
  rx,    \* the receiving fields of the connection
  sink,  \* what was written to the sink
  told,  \* the last acknowledgement and window the relay sent
  una    \* VM: how much of its stream, FIN included, it knows acknowledged

vars == <<rx, sink, told, una>>

Bytes == 0 .. StreamBytes - 1

Ahead(a, b) == (a - b) % SeqSpace

SeqLessThan(a, b) == Ahead(a, b) >= Half

\* The position of a sequence number in the stream.
Position(seq) == Ahead(seq, InitialSequence)

NumberOf(position) == (InitialSequence + position) % SeqSpace

TypeOK ==
  /\ rx.vmSeq \in SeqNumbers
  /\ DOMAIN rx.ooo \subseteq SeqNumbers
  /\ \A seq \in DOMAIN rx.ooo : rx.ooo[seq] \in Seq(Bytes)
  /\ rx.oooBytes \in Nat
  /\ rx.pending \in 0 .. AckEvery - 1
  /\ rx.flags \subseteq {"backpressured", "timer", "peerFin"}
  /\ sink.written \in Seq(Bytes)
  /\ sink.flags \subseteq {"ended", "unwritable"}
  /\ told \in [ack : SeqNumbers, window : 0 .. FieldMax]
  /\ una \in 0 .. StreamBytes + 1

Init ==
  /\ rx = [vmSeq |-> InitialSequence, ooo |-> <<>>, oooBytes |-> 0, pending |-> 0,
           flags |-> {}]
  /\ sink = [written |-> <<>>, flags |-> {}]
  /\ told = [ack |-> InitialSequence, window |-> Min({FieldMax, Window})]
  /\ una = 0
-----------------------------------------------------------------------------
(* tcp_utils.js: a map of disjoint ranges, from their first number.        *)

Capacity == Min({FieldMax, Window})

\* Where the part of a payload within the receive window ends.
Clipped(start, length) == Min({start + length, Capacity})

\* add(from, to) of a payload that starts at offset start.
AddRange(r, payload, start, from, to) ==
  IF to <= from THEN r
  ELSE LET chunk == SubSeq(payload, from - start + 1, to - start)
           key == (r.vmSeq + from) % SeqSpace
       IN [r EXCEPT
             !.ooo = [seq \in {key} \cup DOMAIN r.ooo |->
                       IF seq = key THEN chunk ELSE r.ooo[seq]],
             !.oooBytes = @ + Len(chunk)]

\* One range of bufferTCPOutOfOrder: what lies before it is added.
Passed(acc, payload, start, end, seq) ==
  LET offset == Ahead(seq, acc.r.vmSeq)
      after == offset + Len(acc.r.ooo[seq])
  IN IF offset >= end \/ acc.cursor >= end \/ after <= acc.cursor THEN acc
     ELSE [r |-> AddRange(acc.r, payload, start, acc.cursor, Min({offset, end})),
           cursor |-> Max({acc.cursor, after})]

\* bufferTCPOutOfOrder: the ranges by their distance from vmSeq.  Sorting them and
\* meeting them on the way through the sequence space are the same; the latter is a
\* recursion over numbers.
Buffered(r, sequence, payload) ==
  LET start == Ahead(sequence, r.vmSeq)
      end == Clipped(start, Len(payload))
      walked[k \in 0 .. SeqSpace] ==
        IF k = 0 THEN [r |-> r, cursor |-> start]
        ELSE LET seq == (r.vmSeq + (k - 1)) % SeqSpace
             IN IF seq \in DOMAIN r.ooo
                THEN Passed(walked[k - 1], payload, start, end, seq)
                ELSE walked[k - 1]
      all == walked[SeqSpace]
  IN IF start = 0 \/ start >= Capacity THEN r
     ELSE AddRange(all.r, payload, start, all.cursor, end)

DrainedKeepsBytes(acc, seq) ==
  LET buffered == acc.r.ooo[seq]
      consumed == Ahead(acc.r.vmSeq, seq)
      kept == [acc.r EXCEPT !.ooo = RestrictDomain(@, LAMBDA k : k # seq)]
  IN IF seq # acc.r.vmSeq /\ ~SeqLessThan(seq, acc.r.vmSeq) THEN acc
     ELSE IF consumed >= Len(buffered) THEN [acc EXCEPT !.r = kept]
     ELSE [r |-> [kept EXCEPT !.vmSeq = (@ + Len(buffered) - consumed) % SeqSpace],
           out |-> acc.out \o SubSeq(buffered, consumed + 1, Len(buffered)),
           segments |-> acc.segments + 1]

\* One range of drainTCPOutOfOrder.
Drained(acc, seq) ==
  LET buffered == acc.r.ooo[seq]
      consumed == Ahead(acc.r.vmSeq, seq)
      kept == [acc.r EXCEPT !.ooo = RestrictDomain(@, LAMBDA k : k # seq),
                            !.oooBytes = @ - Len(buffered)]
  IN IF seq # acc.r.vmSeq /\ ~SeqLessThan(seq, acc.r.vmSeq) THEN acc
     ELSE IF consumed >= Len(buffered) THEN [acc EXCEPT !.r = kept]
     ELSE [r |-> [kept EXCEPT !.vmSeq = (@ + Len(buffered) - consumed) % SeqSpace],
           out |-> acc.out \o SubSeq(buffered, consumed + 1, Len(buffered)),
           segments |-> acc.segments + 1]

\* Payload that starts at vmSeq, and the ranges it connects with, by their signed
\* distance from what is expected next: what remains, the bytes for the sink, and the
\* segments to acknowledge.
Accepted(r, payload) ==
  LET expected == (r.vmSeq + Len(payload)) % SeqSpace
      walked[k \in 0 .. SeqSpace] ==
        IF k = 0
        THEN [r |-> [r EXCEPT !.vmSeq = expected], out |-> payload, segments |-> 1]
        ELSE LET seq == (expected + (k - 1 - Half)) % SeqSpace
             IN IF seq \in DOMAIN r.ooo THEN Drained(walked[k - 1], seq)
                ELSE walked[k - 1]
  IN walked[SeqSpace]
-----------------------------------------------------------------------------
(* Acknowledgements.                                                       *)

ReceiveWindow(r) ==
  IF "backpressured" \in r.flags THEN 0
  ELSE Max({0, Min({FieldMax, Window - r.oooBytes})})

Announce(r) == told' = [ack |-> r.vmSeq, window |-> ReceiveWindow(r)]

\* sendTCPAck, with r the connection after all the handler does.
AckNow(r) ==
  /\ Announce(r)
  /\ rx' = [r EXCEPT !.pending = 0, !.flags = @ \ {"timer"}]

ScheduleAckOneLate(r, segments) ==
  IF r.pending + segments > AckEvery \/ ReceiveWindow(r) = 0 THEN AckNow(r)
  ELSE /\ rx' = [r EXCEPT !.pending = @ + segments, !.flags = @ \cup {"timer"}]
       /\ UNCHANGED told

ScheduleAckCountsOnly(r, segments) ==
  IF r.pending + segments >= AckEvery \/ ReceiveWindow(r) = 0 THEN AckNow(r)
  ELSE rx' = [r EXCEPT !.pending = @ + segments] /\ UNCHANGED told

\* scheduleTCPAck that is not immediate.
ScheduleAck(r, segments) ==
  IF r.pending + segments >= AckEvery \/ ReceiveWindow(r) = 0 THEN AckNow(r)
  ELSE /\ rx' = [r EXCEPT !.pending = @ + segments, !.flags = @ \cup {"timer"}]
       /\ UNCHANGED told

AckTimer ==
  /\ "timer" \in rx.flags
  /\ IF rx.pending > 0 THEN AckNow(rx)
     ELSE rx' = [rx EXCEPT !.flags = @ \ {"timer"}] /\ UNCHANGED told
  /\ UNCHANGED <<sink, una>>

\* Data the relay sends to the VM acknowledges too, and leaves the timer alone.
SendData ==
  /\ Announce(rx)
  /\ UNCHANGED <<rx, sink, una>>
-----------------------------------------------------------------------------
(* Segments.                                                               *)

Writable == sink.flags = {}

\* writeTCPReceiveData: full is what write() says of the sink's buffer.
Write(bytes) ==
  IF Writable THEN [sink EXCEPT !.written = @ \o bytes] ELSE sink

Pressed(r, full) ==
  IF Writable /\ full THEN [r EXCEPT !.flags = @ \cup {"backpressured"}] ELSE r

FinNotCounted(r) == [r EXCEPT !.flags = @ \cup {"peerFin"}]

\* The FIN that follows the bytes up to finSequence.
FinDone(r) == [r EXCEPT !.vmSeq = (@ + 1) % SeqSpace, !.flags = @ \cup {"peerFin"}]

TrimmedNever(sequence, payload) == payload

\* What is new in a payload that starts before vmSeq.
Trimmed(sequence, payload) ==
  IF SeqLessThan(sequence, rx.vmSeq)
  THEN SubSeq(payload, Ahead(rx.vmSeq, sequence) + 1, Len(payload))
  ELSE payload

\* No number of the segment's payload is new.
OldData(sequence, payload) ==
  SeqLessThan(sequence, rx.vmSeq) /\ Ahead(rx.vmSeq, sequence) >= Len(payload)

Ignore ==
  /\ AckNow(rx)
  /\ UNCHANGED <<sink, una>>

OutOfOrder(sequence, payload) ==
  /\ AckNow(IF "backpressured" \in rx.flags THEN rx ELSE Buffered(rx, sequence, payload))
  /\ UNCHANGED <<sink, una>>

\* A FIN is acknowledged at once, whether it is the next number or not.
Fin(r, out, finSequence) ==
  /\ IF finSequence = r.vmSeq
     THEN /\ AckNow(FinDone(r))
          /\ sink' = [Write(out) EXCEPT !.flags = @ \cup {"ended"}]
     ELSE AckNow(r) /\ sink' = Write(out)
  /\ UNCHANGED una

InOrder(sequence, payload, fin, full) ==
  LET accepted == Accepted(rx, Trimmed(sequence, payload))
      r == Pressed(accepted.r, full)
  IN IF fin THEN Fin(r, accepted.out, (sequence + Len(payload)) % SeqSpace)
     ELSE /\ ScheduleAck(r, accepted.segments)
          /\ sink' = Write(accepted.out)
          /\ UNCHANGED una

\* The data and FIN parts of handleTCP and handleReverseTCP: payload is the bytes
\* from .. to - 1 of the stream.
Segment(from, to, fin, full) ==
  LET payload == [i \in 1 .. to - from |-> from + i - 1]
      sequence == NumberOf(from)
  IN IF from = to THEN fin /\ Fin(rx, <<>>, sequence)
     ELSE IF OldData(sequence, payload) THEN Ignore
     ELSE IF SeqLessThan(rx.vmSeq, sequence) THEN OutOfOrder(sequence, payload)
     ELSE InOrder(sequence, payload, fin, full)
-----------------------------------------------------------------------------
(* The sink and the VM.                                                    *)

SinkDrainsSilently ==
  /\ "backpressured" \in rx.flags
  /\ Writable
  /\ rx' = [rx EXCEPT !.flags = @ \ {"backpressured"}]
  /\ UNCHANGED <<sink, told, una>>

\* The "drain" event, which a sink that was ended does not report.
SinkDrains ==
  /\ "backpressured" \in rx.flags
  /\ Writable
  /\ AckNow([rx EXCEPT !.flags = @ \ {"backpressured"}])
  /\ UNCHANGED <<sink, una>>

\* The other end closed: Node ends the socket's writing half by itself.
SinkEnds ==
  /\ Writable
  /\ sink' = [sink EXCEPT !.flags = {"unwritable"}]
  /\ UNCHANGED <<rx, told, una>>

VmHearsAck ==
  /\ una' = Max({una, Position(told.ack)})
  /\ UNCHANGED <<rx, sink, told>>

\* The segments of the VM: FIN goes with the last byte or by itself.  A VM that does
\* not trim has cut its stream once and for all, with FIN on the last piece.
VmSegments ==
  IF VmTrims
  THEN {s \in [from : 0 .. StreamBytes, to : 0 .. StreamBytes, fin : BOOLEAN] :
          /\ s.from <= s.to /\ s.to - s.from <= MaxSegment
          /\ s.from = s.to => s.fin
          /\ s.fin => s.to = StreamBytes}
  ELSE {s \in [from : 0 .. StreamBytes, to : 0 .. StreamBytes, fin : BOOLEAN] :
          /\ s.from % MaxSegment = 0 /\ s.from < StreamBytes
          /\ s.to = Min({s.from + MaxSegment, StreamBytes})
          /\ s.fin = (s.to = StreamBytes)}

Arrives(segments) ==
  \E s \in segments, full \in BOOLEAN : Segment(s.from, s.to, s.fin, full)

Next ==
  \/ Arrives(VmSegments)
  \/ AckTimer \/ SendData
  \/ SinkDrains \/ SinkEnds
  \/ VmHearsAck

Spec == Init /\ [][Next]_vars
-----------------------------------------------------------------------------
(* Safety.                                                                 *)

Received == Position(rx.vmSeq) - (IF "peerFin" \in rx.flags THEN 1 ELSE 0)

\* However the segments arrive, the sink gets the VM's bytes in order and once
\* each, and gets every byte that is acknowledged as long as it can be written; and
\* it is ended only behind the VM's last byte.
DeliversInOrder ==
  /\ sink.written = [i \in 1 .. Len(sink.written) |-> i - 1]
  /\ "unwritable" \notin sink.flags => Len(sink.written) = Received
  /\ "peerFin" \in rx.flags => Received = StreamBytes /\ DOMAIN rx.ooo = {}

Covered(seq) == Position(seq) .. Position(seq) + Len(rx.ooo[seq]) - 1

\* "Keep disjoint ranges" (tcp_utils.js:18): the ranges that wait are disjoint, each
\* holds the bytes its numbers stand for, all are beyond vmSeq and inside the
\* window, and vmOutOfOrderBytes, which reduces the window, counts their bytes.
BufferExact ==
  /\ \A seq \in DOMAIN rx.ooo :
       /\ 0 < Ahead(seq, rx.vmSeq)
       /\ Ahead(seq, rx.vmSeq) + Len(rx.ooo[seq]) <= Capacity
       /\ rx.ooo[seq] # <<>>
       /\ rx.ooo[seq] = [i \in 1 .. Len(rx.ooo[seq]) |-> Position(seq) + i - 1]
       /\ \A other \in DOMAIN rx.ooo \ {seq} : Covered(seq) \cap Covered(other) = {}
  /\ rx.oooBytes = Cardinality(UNION {Covered(seq) : seq \in DOMAIN rx.ooo})

\* What the VM sent is acknowledged in the end: either the last packet to the VM
\* said so, or a delayed acknowledgement is on its way (scheduleTCPAck,
\* sendTCPAck, and the callback of the timer).
AckOwed == told.ack # rx.vmSeq => "timer" \in rx.flags

\* The VM always knows whether the sink pushes back: as soon as a write fills the sink
\* the window is announced as closed, and as soon as the sink drains as open; bytes that
\* wait out of order, which reduce the window, never close it (tcpReceiveWindow,
\* scheduleTCPAck, onTCPReceiveDrain).  It does not say that a sink drains: one that
\* ends while it is full (SinkEnds) never does, and the window stays closed.
WindowFollowsSink == told.window = 0 <=> "backpressured" \in rx.flags

\* What the VM was last told is what the relay knows: the window at once, the number it
\* expects next at the latest when the timer of the delayed acknowledgement fires,
\* whichever of data, FIN, drain and timer comes first (scheduleTCPAck, sendTCPAck).
VmIsTold == AckOwed /\ WindowFollowsSink
-----------------------------------------------------------------------------
(* Liveness.  The VM resends its first unacknowledged segment for ever,    *)
(* some acknowledgement gets through, and Node fires the timer.            *)

FirstUnacknowledged ==
  LET from == IF VmTrims THEN Min({una, StreamBytes})
              ELSE MaxSegment * (Min({una, StreamBytes - 1}) \div MaxSegment)
      to == Min({from + MaxSegment, StreamBytes})
  IN [from |-> from, to |-> to, fin |-> to = StreamBytes]

Fairness ==
  /\ WF_vars(Arrives({FirstUnacknowledged}))
  /\ WF_vars(VmHearsAck) /\ WF_vars(AckTimer)

FairSpec == Spec /\ Fairness

\* A VM that keeps resending gets all its data and its FIN acknowledged.
FinAcknowledged == <>(una = StreamBytes + 1)
=============================================================================
