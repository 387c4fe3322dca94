------------------------------ MODULE SendWindow ------------------------------
(***************************************************************************)
(* What a reliable sender promises of its sequence numbers, and all that   *)
(* the rest of a connection knows of its retransmission queue: numbers are *)
(* used in order, only numbers in use are ever acknowledged, less than     *)
(* half the space is in use, and a closed window never moves again.        *)
(***************************************************************************)
EXTENDS Integers

CONSTANT Half

Mod == 2 * Half
Numbers == 0 .. Mod - 1

VARIABLES una, nxt, open

InUse == (nxt - una) % Mod

Init ==
  /\ una \in Numbers
  /\ nxt = una
  /\ open = TRUE

Send(n) ==
  /\ open
  /\ InUse + n < Half
  /\ nxt' = (nxt + n) % Mod
  /\ UNCHANGED <<una, open>>

Acknowledge(n) ==
  /\ open
  /\ n <= InUse
  /\ una' = (una + n) % Mod
  /\ UNCHANGED <<nxt, open>>

Close ==
  /\ open
  /\ open' = FALSE
  /\ UNCHANGED <<una, nxt>>

Next ==
  \/ \E n \in 1 .. Half - 1 : Send(n) \/ Acknowledge(n)
  \/ Close

Spec == Init /\ [][Next]_<<una, nxt, open>>
=============================================================================
