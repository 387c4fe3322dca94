------------------------------- MODULE TcpPacer -------------------------------
(***************************************************************************)
(* TCPPacer (tcp_pacer.js): how many segments of a connection may follow   *)
(* one another before it has to wait.  lastSegmentAt is modelled as its    *)
(* age by the clock of the host, the timer as the time it has left.        *)
(***************************************************************************)
EXTENDS Integers, FiniteSetsExt

CONSTANTS
  InitialBurst,  \* initialBurstSegments
  MaxBurst,      \* maxBurstSegments
  IntervalMs,    \* intervalMs
  None

ASSUME PacerAssumption ==
  /\ InitialBurst \in Nat \ {0}
  /\ MaxBurst \in Nat /\ MaxBurst >= InitialBurst
  /\ IntervalMs \in Nat
  /\ None \notin Int

Modes == {"adaptive", "fixed", "off"}

NewPacer(mode) ==
  [mode |-> IF IntervalMs = 0 THEN "off" ELSE mode, burst |-> InitialBurst, inBurst |-> 0,
   acked |-> 0, last |-> None, blocked |-> FALSE, timer |-> None]

NoteAckUnbounded(pacer, acked, window) ==
  LET sum == pacer.acked + acked
      threshold == Max({1, window})
  IN IF pacer.mode # "adaptive" \/ acked = 0 THEN pacer
     ELSE IF sum < threshold THEN [pacer EXCEPT !.acked = sum]
     ELSE [pacer EXCEPT !.acked = sum - threshold, !.burst = @ + 1]

NoteAck(pacer, acked, window) ==
  LET sum == pacer.acked + acked
      threshold == Max({1, window})
  IN IF pacer.mode # "adaptive" \/ acked = 0 THEN pacer
     ELSE IF sum < threshold \/ pacer.burst >= MaxBurst THEN [pacer EXCEPT !.acked = sum]
     ELSE [pacer EXCEPT !.acked = sum - threshold, !.burst = @ + 1]

NoteLoss(pacer) ==
  [pacer EXCEPT !.acked = 0,
                !.burst = IF pacer.mode = "adaptive" THEN Max({InitialBurst, @ \div 2}) ELSE @]

RestedEarly(pacer) == pacer.last # None /\ pacer.last >= IntervalMs - 1

Rested(pacer) == pacer.last # None /\ pacer.last >= IntervalMs

\* The sender is to wait if the pacer is blocked afterwards.
NoteSegment(pacer) ==
  LET count == 1 + IF Rested(pacer) THEN 0 ELSE pacer.inBurst
  IN IF pacer.mode = "off" \/ pacer.blocked THEN pacer
     ELSE IF count < pacer.burst THEN [pacer EXCEPT !.last = 0, !.inBurst = count]
     ELSE [pacer EXCEPT !.last = 0, !.inBurst = 0, !.blocked = TRUE, !.timer = IntervalMs]

\* The timer's callback, which then resumes the sender.
Ready(pacer) == [pacer EXCEPT !.timer = None, !.blocked = FALSE]

ClosePacer(pacer) == [pacer EXCEPT !.timer = None, !.blocked = FALSE, !.inBurst = 0]
=============================================================================
