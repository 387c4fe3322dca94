--------------------------- MODULE TcpEgressProofs ---------------------------
(***************************************************************************)
(* What holds of TcpEgress for a stream of any length, any windows and any *)
(* number of retransmissions: no byte is lost or sent twice, a connection  *)
(* with something to send has something that wakes it up, one that has     *)
(* ended has nothing, new payload stays within the two windows, and        *)
(* nothing follows FIN unless the client of a forwarding rule is gone.     *)
(***************************************************************************)
EXTENDS TcpEgress, TcpRetransmissionProofs

USE HalfAssumption
-----------------------------------------------------------------------------
(* Arithmetic.                                                             *)

LEMMA Constants ==
  /\ StreamBytes \in Nat /\ Mss \in Nat \ {0} /\ InitialCwnd \in Nat \ {0}
  /\ ReceiveWindow \in Nat \ {0} /\ HighWater \in Nat \ {0} /\ CooperativeLimit \in Nat \ {0}
  /\ MaxPending \in Nat \ {0}
  /\ InitialSequence \in SeqNumbers
  /\ 4 < Half
  /\ \A window \in VmWindows : window \in Nat /\ window + 3 < Half
  <1>1. {Mss, InitialCwnd, ReceiveWindow, HighWater, CooperativeLimit, MaxPending}
          \subseteq Nat \ {0}
    BY SizesAssumption
  <1>2. StreamBytes \in Nat /\ VmWindows \subseteq Nat
    BY SizesAssumption
  <1>3. 1 + 3 < Half /\ \A window \in VmWindows : window + 3 < Half
    BY WindowsAssumption
  <1>4. 4 < Half
    BY <1>3, HalfAssumption
  <1> QED
    BY <1>1, <1>2, <1>3, <1>4, InitialSequenceAssumption

LEMMA LesserOf ==
  ASSUME NEW x \in Int, NEW y \in Int
  PROVE  Min({x, y}) = IF x <= y THEN x ELSE y
  <1>1. CASE x <= y
    <2>1. x \in {x, y} /\ \A z \in {x, y} : x <= z
      BY <1>1
    <2>2. \A z \in {x, y} : (\A v \in {x, y} : z <= v) => z = x
      BY <1>1, SMT
    <2> QED
      BY <1>1, <2>1, <2>2 DEF Min
  <1>2. CASE ~(x <= y)
    <2>1. y \in {x, y} /\ \A z \in {x, y} : y <= z
      BY <1>2
    <2>2. \A z \in {x, y} : (\A v \in {x, y} : z <= v) => z = y
      BY <1>2, SMT
    <2> QED
      BY <1>2, <2>1, <2>2 DEF Min
  <1> QED
    BY <1>1, <1>2

LEMMA GreaterOf ==
  ASSUME NEW x \in Int, NEW y \in Int
  PROVE  Max({x, y}) = IF x >= y THEN x ELSE y
  <1>1. CASE x >= y
    <2>1. x \in {x, y} /\ \A z \in {x, y} : x >= z
      BY <1>1
    <2>2. \A z \in {x, y} : (\A v \in {x, y} : z >= v) => z = x
      BY <1>1, SMT
    <2> QED
      BY <1>1, <2>1, <2>2 DEF Max
  <1>2. CASE ~(x >= y)
    <2>1. y \in {x, y} /\ \A z \in {x, y} : y >= z
      BY <1>2
    <2>2. \A z \in {x, y} : (\A v \in {x, y} : z >= v) => z = y
      BY <1>2, SMT
    <2> QED
      BY <1>2, <2>1, <2>2 DEF Max
  <1> QED
    BY <1>1, <1>2

LEMMA LeastOfThree ==
  ASSUME NEW x \in Int, NEW y \in Int, NEW z \in Int
  PROVE  /\ Min({x, y, z}) \in {x, y, z}
         /\ Min({x, y, z}) <= x /\ Min({x, y, z}) <= y /\ Min({x, y, z}) <= z
  <1>1. \E v \in {x, y, z} : \A u \in {x, y, z} : v <= u
    BY SMT
  <1>2. Min({x, y, z}) \in {x, y, z} /\ \A u \in {x, y, z} : Min({x, y, z}) <= u
    BY <1>1 DEF Min
  <1> QED
    BY <1>2

LEMMA OneMoreType ==
  ASSUME NEW n \in 0 .. MaxPending
  PROVE  OneMore(n) \in 0 .. MaxPending /\ OneMore(n) > 0
  <1>1. OneMore(n) = IF n + 1 <= MaxPending THEN n + 1 ELSE MaxPending
    BY Constants, LesserOf DEF OneMore
  <1> QED
    BY <1>1, Constants, SMT

LEMMA DivideOnce ==
  ASSUME NEW S \in Nat \ {0}, NEW x \in Int
  PROVE  x % S \in 0 .. S - 1 /\ x = S * (x \div S) + (x % S) /\ (x \div S) \in Int
  BY SMT

LEMMA DivideUnique ==
  ASSUME NEW S \in Nat \ {0}, NEW d \in Int, NEW e \in Int, NEW r \in 0 .. S - 1, NEW t \in 0 .. S - 1,
         S * d + r = S * e + t
  PROVE  r = t
  <1>1. S * (d - e) = t - r
    BY SMT
  <1>2. CASE d - e >= 1
    <2>1. S * (d - e) >= S
      BY <1>2, SMT
    <2> QED
      BY <1>1, <2>1, SMT
  <1>3. CASE d - e <= -1
    <2>1. S * (d - e) <= -S
      BY <1>3, SMT
    <2> QED
      BY <1>1, <2>1, SMT
  <1>4. CASE d = e
    BY <1>1, <1>4, SMT
  <1> QED
    BY <1>2, <1>3, <1>4, SMT

LEMMA DivideMoved ==
  ASSUME NEW S \in Nat \ {0}, NEW x \in Int, NEW k \in Int
  PROVE  ((x % S) + k) % S = (x + k) % S
  <1> DEFINE r == x % S
             d == x \div S
             t == (r + k) % S
             e == (r + k) \div S
             u == (x + k) % S
             f == (x + k) \div S
  <1>1. r \in 0 .. S - 1 /\ x = S * d + r /\ d \in Int
    BY DivideOnce
  <1>2. t \in 0 .. S - 1 /\ r + k = S * e + t /\ e \in Int
    <2>1. r + k \in Int
      BY <1>1, SMT
    <2> HIDE DEF r
    <2> QED
      BY <2>1, DivideOnce
  <1>3. u \in 0 .. S - 1 /\ x + k = S * f + u /\ f \in Int
    <2>1. x + k \in Int
      BY SMT
    <2> QED
      BY <2>1, DivideOnce
  <1> HIDE DEF r, d, t, e, u, f
  <1>4. S * (d + e) + t = S * f + u
    <2> DEFINE sd == S * d
               se == S * e
               sf == S * f
               all == S * (d + e)
    <2>1. all = sd + se
      BY <1>1, <1>2, SMT
    <2>2. /\ sd \in Int /\ se \in Int /\ sf \in Int /\ r \in Int /\ t \in Int /\ u \in Int
          /\ x = sd + r /\ r + k = se + t /\ x + k = sf + u
      BY <1>1, <1>2, <1>3, SMT
    <2> HIDE DEF sd, se, sf, all
    <2>3. all + t = sf + u
      BY <2>1, <2>2, SMT
    <2> QED
      BY <2>3 DEF sf, all
  <1>5. t = u
    <2> DEFINE de == d + e
    <2>1. de \in Int /\ S * de + t = S * f + u
      BY <1>1, <1>2, <1>4
    <2> HIDE DEF de
    <2> QED
      BY <1>2, <1>3, <2>1, DivideUnique
  <1> QED
    BY <1>5 DEF t, u, r
LEMMA DivideAround ==
  ASSUME NEW S \in Nat \ {0}, NEW x \in Int
  PROVE  (x + S) % S = x % S
  <1> DEFINE r == x % S
             d == x \div S
             u == (x + S) % S
             f == (x + S) \div S
  <1>1. r \in 0 .. S - 1 /\ x = S * d + r /\ d \in Int
    BY DivideOnce
  <1>2. u \in 0 .. S - 1 /\ x + S = S * f + u /\ f \in Int
    <2>1. x + S \in Int
      BY SMT
    <2> QED
      BY <2>1, DivideOnce
  <1> HIDE DEF r, d, u, f
  <1>3. S * (d + 1) + r = S * f + u
    <2> DEFINE sd == S * d
               sf == S * f
               all == S * (d + 1)
    <2>1. all = sd + S
      BY <1>1, SMT
    <2>2. sd \in Int /\ sf \in Int /\ r \in Int /\ u \in Int /\ x = sd + r /\ x + S = sf + u
      BY <1>1, <1>2, SMT
    <2> HIDE DEF sd, sf, all
    <2>3. all + r = sf + u
      BY <2>1, <2>2, SMT
    <2> QED
      BY <2>3 DEF sf, all
  <1> DEFINE de == d + 1
  <1>4. de \in Int /\ S * de + r = S * f + u
    BY <1>1, <1>3
  <1> HIDE DEF de
  <1>5. r = u
    BY <1>1, <1>2, <1>4, DivideUnique
  <1> QED
    BY <1>5 DEF r, u

LEMMA Wrapped ==
  ASSUME NEW x \in Int, NEW k \in Int
  PROVE  ((x % SeqSpace) + k) % SeqSpace = (x + k) % SeqSpace
  BY SeqSpaceType, DivideMoved

\* The distance from a number to one that is x further, or less than half the
\* sequence space behind.
LEMMA DistanceFrom ==
  ASSUME NEW pos \in SeqNumbers, NEW x \in Int, NEW n, n = (pos + x) % SeqSpace
  PROVE  /\ n \in SeqNumbers
         /\ x \in 0 .. SeqSpace - 1 => SequenceDistance(n, pos) = x
         /\ x \in -Half .. -1 => SequenceDistance(n, pos) = SeqSpace + x
  <1>1. pos \in Int /\ pos + x \in Int /\ -pos \in Int
    BY SeqSpaceType, SMT DEF SeqNumbers
  <1>2. n \in SeqNumbers
    BY <1>1, ModType
  <1>3. SequenceDistance(n, pos) = x % SeqSpace
    <2> DEFINE sum == pos + x
               back == -pos
    <2>1. sum \in Int /\ back \in Int /\ sum + back = x
      BY <1>1, SMT
    <2>2. n = sum % SeqSpace
      OBVIOUS
    <2> HIDE DEF sum, back
    <2>3. ((sum % SeqSpace) + back) % SeqSpace = (sum + back) % SeqSpace
      BY <2>1, Wrapped
    <2>4. (n + back) % SeqSpace = x % SeqSpace
      BY <2>1, <2>2, <2>3
    <2>5. n - pos = n + back
      <3>1. n \in Int
        BY <1>2, SMT DEF SeqNumbers
      <3> QED
        BY <1>1, <3>1, SMT DEF back
    <2> QED
      BY <2>4, <2>5 DEF SequenceDistance
  <1>4. x \in 0 .. SeqSpace - 1 => x % SeqSpace = x
    BY SeqSpaceType, WrapCases, SMT
  <1>5. x \in -Half .. -1 => x % SeqSpace = SeqSpace + x
    <2> SUFFICES ASSUME x \in -Half .. -1 PROVE x % SeqSpace = SeqSpace + x
      OBVIOUS
    <2> DEFINE y == SeqSpace + x
    <2>1. y \in 0 .. SeqSpace - 1 /\ y \in 0 .. 2 * SeqSpace - 1 /\ y \in Int /\ -SeqSpace \in Int
          /\ ~(y >= SeqSpace)
      BY SeqSpaceType, SMT DEF SeqSpace
    <2>2. x \in 0 - SeqSpace .. -1 /\ x \in Int
      BY SeqSpaceType, SMT DEF SeqSpace
    <2> HIDE DEF y
    <2>3. y % SeqSpace = y
      BY <2>1, WrapCases
    <2>4. x % SeqSpace = y % SeqSpace
      <3> DEFINE S == SeqSpace
      <3>1. S \in Nat \ {0}
        BY SeqSpaceType
      <3>2. x + S = y
        BY <2>2, <3>1, SMT DEF y
      <3> HIDE DEF S
      <3>3. (x + S) % S = x % S
        BY <2>2, <3>1, DivideAround
      <3> QED
        BY <3>2, <3>3 DEF S
    <2> QED
      BY <2>3, <2>4 DEF y
  <1> QED
    BY <1>2, <1>3, <1>4, <1>5, SMT

-----------------------------------------------------------------------------
(* The fields of a connection, and what each operator does to them.        *)

Conn == [state : States, relaySeq : SeqNumbers, queued : 0 .. StreamBytes,
         paused : BOOLEAN, vmWindow : Nat, cwnd : Nat,
         recovery : SeqNumbers \cup {None}, fastAck : SeqNumbers \cup {None},
         dupAcks : 0 .. 2, pendingFin : BOOLEAN, finSent : BOOLEAN,
         peerFin : BOOLEAN, sending : BOOLEAN]
Source == [kind : Sources, left : 0 .. StreamBytes, ends : SUBSET {"end", "localClose"}]
Loop == [sent : Nat, after : SUBSET {"again", "fin"}]
Wake == [blocked : BOOLEAN, waiting : BOOLEAN,
         immediates : 0 .. MaxPending, rateTimers : 0 .. MaxPending]

LEMMA ConnFields ==
  ASSUME NEW c \in Conn
  PROVE  /\ c.state \in States /\ c.relaySeq \in SeqNumbers /\ c.queued \in 0 .. StreamBytes
         /\ c.queued \in Nat /\ c.relaySeq \in Int
         /\ c.paused \in BOOLEAN /\ c.vmWindow \in Nat /\ c.cwnd \in Nat
         /\ c.recovery \in SeqNumbers \cup {None} /\ c.fastAck \in SeqNumbers \cup {None}
         /\ c.dupAcks \in 0 .. 2 /\ c.pendingFin \in BOOLEAN /\ c.finSent \in BOOLEAN
         /\ c.peerFin \in BOOLEAN /\ c.sending \in BOOLEAN
  <1>1. /\ c.state \in States /\ c.relaySeq \in SeqNumbers /\ c.queued \in 0 .. StreamBytes
        /\ c.paused \in BOOLEAN /\ c.vmWindow \in Nat /\ c.cwnd \in Nat
        /\ c.recovery \in SeqNumbers \cup {None} /\ c.fastAck \in SeqNumbers \cup {None}
        /\ c.dupAcks \in 0 .. 2 /\ c.pendingFin \in BOOLEAN /\ c.finSent \in BOOLEAN
        /\ c.peerFin \in BOOLEAN /\ c.sending \in BOOLEAN
    BY Zenon DEF Conn
  <1>2. c.queued \in Nat /\ c.relaySeq \in Int
    BY <1>1, Constants, SMT DEF SeqNumbers
  <1> QED
    BY <1>1, <1>2

\* The fields that say where in the stream a connection is, and those that say what
\* it may send.
SameStream(c, r) ==
  /\ r.relaySeq = c.relaySeq /\ r.queued = c.queued /\ r.paused = c.paused
  /\ r.pendingFin = c.pendingFin /\ r.finSent = c.finSent

SameWindow(c, r) ==
  r.vmWindow = c.vmWindow /\ r.cwnd = c.cwnd /\ r.recovery = c.recovery

SameStage(c, r) == r.state = c.state /\ r.sending = c.sending

\* Nothing that matters to the invariant differs.
Alike(c, r) == SameStream(c, r) /\ SameWindow(c, r) /\ SameStage(c, r)

LEMMA AlikeReflexive == \A c : Alike(c, c)
  BY DEF Alike, SameStream, SameWindow, SameStage

LEMMA StopFields ==
  ASSUME NEW c \in Conn
  PROVE  LET r == Stop(c)
         IN /\ r \in Conn /\ SameStream(c, r) /\ SameWindow(c, r)
            /\ r.state = c.state /\ ~r.sending
  BY Zenon DEF Stop, Conn, SameStream, SameWindow

LEMMA SendingFields ==
  ASSUME NEW c \in Conn
  PROVE  LET r == [c EXCEPT !.sending = TRUE]
         IN /\ r \in Conn /\ SameStream(c, r) /\ SameWindow(c, r)
            /\ r.state = c.state /\ r.sending
  BY Zenon DEF Conn, SameStream, SameWindow

LEMMA InStateFields ==
  ASSUME NEW c \in Conn, NEW state \in States
  PROVE  LET r == InState(c, state)
         IN /\ r \in Conn /\ SameStream(c, r) /\ SameWindow(c, r)
            /\ r.state = state /\ r.sending = c.sending
  BY Zenon DEF InState, Conn, SameStream, SameWindow

LEMMA DupAcksFields ==
  ASSUME NEW c \in Conn, NEW n \in 0 .. 2
  PROVE  LET r == [c EXCEPT !.dupAcks = n]
         IN r \in Conn /\ Alike(c, r) /\ r.dupAcks = n /\ r.peerFin = c.peerFin /\ r.fastAck = c.fastAck
  BY Zenon DEF Conn, Alike, SameStream, SameWindow, SameStage

LEMMA FastAckFields ==
  ASSUME NEW c \in Conn, NEW ack \in SeqNumbers \cup {None}
  PROVE  LET r == [c EXCEPT !.fastAck = ack]
         IN r \in Conn /\ Alike(c, r)
  BY Zenon DEF Conn, Alike, SameStream, SameWindow, SameStage

LEMMA WindowFields ==
  ASSUME NEW c \in Conn, NEW window \in Nat
  PROVE  LET r == [c EXCEPT !.vmWindow = window]
         IN /\ r \in Conn /\ SameStream(c, r) /\ SameStage(c, r)
            /\ r.vmWindow = window /\ r.cwnd = c.cwnd /\ r.recovery = c.recovery
            /\ r.dupAcks = c.dupAcks
  BY Zenon DEF Conn, SameStream, SameStage

LEMMA CwndFields ==
  ASSUME NEW c \in Conn, NEW n \in Nat
  PROVE  LET r == [c EXCEPT !.cwnd = n]
         IN /\ r \in Conn /\ SameStream(c, r) /\ SameStage(c, r)
            /\ r.vmWindow = c.vmWindow /\ r.cwnd = n /\ r.recovery = c.recovery
  BY Zenon DEF Conn, SameStream, SameStage

LEMMA RecoveryFields ==
  ASSUME NEW c \in Conn, NEW n \in SeqNumbers \cup {None}
  PROVE  LET r == [c EXCEPT !.recovery = n]
         IN /\ r \in Conn /\ SameStream(c, r) /\ SameStage(c, r)
            /\ r.vmWindow = c.vmWindow /\ r.cwnd = c.cwnd /\ r.recovery = n
  BY Zenon DEF Conn, SameStream, SameStage

LEMMA PendingFinFields ==
  ASSUME NEW c \in Conn
  PROVE  LET r == [c EXCEPT !.pendingFin = TRUE]
         IN /\ r \in Conn /\ SameWindow(c, r) /\ SameStage(c, r)
            /\ r.relaySeq = c.relaySeq /\ r.queued = c.queued /\ r.paused = c.paused
            /\ r.pendingFin = TRUE /\ r.finSent = c.finSent
  BY Zenon DEF Conn, SameWindow, SameStage

LEMMA PeerFinFields ==
  ASSUME NEW c \in Conn
  PROVE  LET r == [c EXCEPT !.peerFin = TRUE, !.state = "CLOSING"]
         IN /\ r \in Conn /\ SameStream(c, r) /\ SameWindow(c, r)
            /\ r.state = "CLOSING" /\ r.sending = c.sending
  <1>1. "CLOSING" \in States
    BY DEF States
  <1> QED
    BY <1>1, Zenon DEF Conn, SameStream, SameWindow

LEMMA EstablishedFields ==
  ASSUME NEW c \in Conn, NEW window \in Nat
  PROVE  LET r == [c EXCEPT !.state = "ESTABLISHED", !.vmWindow = window]
         IN /\ r \in Conn /\ SameStream(c, r)
            /\ r.state = "ESTABLISHED" /\ r.sending = c.sending
            /\ r.vmWindow = window /\ r.cwnd = c.cwnd /\ r.recovery = c.recovery
  <1>1. "ESTABLISHED" \in States
    BY DEF States
  <1> QED
    BY <1>1, Zenon DEF Conn, SameStream

LEMMA EnqueueFields ==
  ASSUME NEW c \in Conn, NEW bytes \in Nat, c.queued + bytes <= StreamBytes
  PROVE  LET r == Enqueue(c, bytes)
         IN /\ r \in Conn /\ SameWindow(c, r) /\ SameStage(c, r)
            /\ r.relaySeq = c.relaySeq /\ r.queued = c.queued + bytes
            /\ r.pendingFin = c.pendingFin /\ r.finSent = c.finSent
            /\ r.paused => c.paused \/ r.queued > 0
  <1> DEFINE queued == c.queued + bytes
             paused == c.paused \/ queued >= HighWater
  <1>1. queued \in 0 .. StreamBytes
    BY ConnFields, Constants, SMT
  <1>2. paused \in BOOLEAN
    BY ConnFields
  <1>3. paused => c.paused \/ queued > 0
    BY <1>1, Constants, SMT
  <1>4. Enqueue(c, bytes) = [c EXCEPT !.queued = queued, !.paused = paused]
    BY DEF Enqueue
  <1> HIDE DEF queued, paused
  <1>5. LET r == [c EXCEPT !.queued = queued, !.paused = paused]
        IN /\ r \in Conn /\ SameWindow(c, r) /\ SameStage(c, r)
           /\ r.relaySeq = c.relaySeq /\ r.queued = queued
           /\ r.pendingFin = c.pendingFin /\ r.finSent = c.finSent
           /\ r.paused = paused
    BY <1>1, <1>2, Zenon DEF Conn, SameWindow, SameStage
  <1> QED
    BY <1>3, <1>4, <1>5, Zenon DEF queued

LEMMA SendBytesFields ==
  ASSUME NEW c \in Conn, NEW bytes \in Nat, bytes <= c.queued
  PROVE  LET r == SendBytes(c, bytes)
         IN /\ r \in Conn /\ SameWindow(c, r) /\ SameStage(c, r)
            /\ r.relaySeq = (c.relaySeq + bytes) % SeqSpace /\ r.queued = c.queued - bytes
            /\ r.pendingFin = c.pendingFin /\ r.finSent = c.finSent
            /\ r.paused => r.queued > 0
  <1> DEFINE queued == c.queued - bytes
             paused == c.paused /\ queued > LowWater
             number == (c.relaySeq + bytes) % SeqSpace
  <1>1. queued \in 0 .. StreamBytes
    BY ConnFields, Constants, SMT
  <1>2. paused \in BOOLEAN
    BY ConnFields
  <1>3. paused => queued > 0
    <2>1. LowWater \in Nat
      BY Constants, SMT DEF LowWater
    <2> QED
      BY <1>1, <2>1, SMT
  <1>4. number \in SeqNumbers
    BY ConnFields, ModType, SMT
  <1>5. SendBytes(c, bytes) = [[c EXCEPT !.queued = queued, !.paused = paused]
                                 EXCEPT !.relaySeq = (@ + bytes) % SeqSpace]
    BY DEF SendBytes, Consume
  <1> HIDE DEF queued, paused
  <1>6. [c EXCEPT !.queued = queued, !.paused = paused].relaySeq = c.relaySeq
    BY Zenon DEF Conn
  <1>7. SendBytes(c, bytes) = [[c EXCEPT !.queued = queued, !.paused = paused]
                                 EXCEPT !.relaySeq = number]
    BY <1>5, <1>6
  <1> HIDE DEF number
  <1>8. LET r == [[c EXCEPT !.queued = queued, !.paused = paused] EXCEPT !.relaySeq = number]
        IN /\ r \in Conn /\ SameWindow(c, r) /\ SameStage(c, r)
           /\ r.relaySeq = number /\ r.queued = queued
           /\ r.pendingFin = c.pendingFin /\ r.finSent = c.finSent
           /\ r.paused = paused
    BY <1>1, <1>2, <1>4, Zenon DEF Conn, SameWindow, SameStage
  <1> QED
    BY <1>3, <1>7, <1>8, Zenon DEF queued, number

LEMMA SendFinFields ==
  ASSUME NEW c \in Conn
  PROVE  LET r == SendFin(c)
         IN /\ r \in Conn /\ SameWindow(c, r)
            /\ r.relaySeq = (c.relaySeq + 1) % SeqSpace
            /\ r.queued = c.queued /\ r.paused = c.paused
            /\ r.pendingFin = FALSE /\ r.finSent = TRUE
            /\ r.state = "FIN_WAIT" /\ r.sending = c.sending
  <1> DEFINE number == (c.relaySeq + 1) % SeqSpace
  <1>1. number \in SeqNumbers
    BY ConnFields, ModType, SMT
  <1>2. SendFin(c) = [c EXCEPT !.pendingFin = FALSE, !.finSent = TRUE, !.state = "FIN_WAIT",
                               !.relaySeq = number]
    BY DEF SendFin
  <1>3. "FIN_WAIT" \in States
    BY DEF States
  <1> HIDE DEF number
  <1>4. LET r == [c EXCEPT !.pendingFin = FALSE, !.finSent = TRUE, !.state = "FIN_WAIT",
                           !.relaySeq = number]
        IN /\ r \in Conn /\ SameWindow(c, r) /\ r.relaySeq = number
           /\ r.queued = c.queued /\ r.paused = c.paused
           /\ r.pendingFin = FALSE /\ r.finSent = TRUE
           /\ r.state = "FIN_WAIT" /\ r.sending = c.sending
    BY <1>1, <1>3, Zenon DEF Conn, SameWindow
  <1> QED
    BY <1>2, <1>4, Zenon DEF number

-----------------------------------------------------------------------------
(* The inductive invariant, as operators of a queue p, a connection c, a   *)
(* source s, its wake-ups w and the state of the websocket: a handler      *)
(* works on values of its own before it stores them.                       *)

One(b) == IF b THEN 1 ELSE 0
IsOpen(c) == c.state \notin {"CLOSED", "GONE"}
Socket(s) == s.kind = "socket"
Gone(s) == s.kind = "forwarded" /\ "localClose" \notin s.ends

\* The FINs that may still be sent: one for each end event, at most.
FinsLeft(c, s) == One(c.pendingFin) + One("end" \in s.ends) + One("localClose" \in s.ends)

\* The queue of a connection in use is in use; one that has ended holds no wake-up.
Health(p, c, w) ==
  IF IsOpen(c) THEN Live(p) ELSE Closed(p) /\ ~w.blocked /\ ~w.waiting

\* Before the handshake only the SYN is outstanding; a connection lingers in CLOSED
\* only when all was acknowledged, FIN included.
Stage(p, c, s) ==
  /\ s.kind # "forwarded" => "localClose" \notin s.ends
  /\ c.state = "CLOSED" => Socket(s) /\ c.finSent /\ Outstanding(p) = 0
  /\ c.state = "SYN_SENT" => Outstanding(p) = 1 /\ p.inFlight = 0 /\ ~Persisting(p)

\* Where the connection is in the stream.
Stream(p, c, s) ==
  /\ c.relaySeq = p.nxt
  /\ s.left + c.queued <= StreamBytes
  /\ c.paused => c.queued > 0
  /\ ~Gone(s) =>
       /\ c.relaySeq = (InitialSequence + 1 + (StreamBytes - (s.left + c.queued)) + One(c.finSent))
                          % SeqSpace
       /\ c.pendingFin \/ c.finSent => s.left = 0 /\ "end" \notin s.ends
       /\ c.finSent => ~c.pendingFin /\ c.queued = 0

\* What is outstanding stays far from half the sequence space.
Room(p, c, s) ==
  IsOpen(c) =>
    /\ Socket(s) \/ c.state # "SYN_SENT" => c.vmWindow + 3 < Half
    /\ c.cwnd > 0
    /\ p.inFlight + 3 < Half
    /\ FlagsOut(p) + FinsLeft(c, s) <= 3

\* The end of a loss recovery is at an offset from sndUna: in use, or behind by no
\* more than the flags that were acknowledged without payload, which a recovery
\* survives (onAck is only told of acknowledged payload).
Recovering(p, c, s) ==
  \E x \in Int : /\ c.recovery = (p.una + x) % SeqSpace
                 /\ x <= Outstanding(p)
                 /\ FlagsOut(p) + FinsLeft(c, s) <= 3 + x

Recovery(p, c, s) == IsOpen(c) /\ c.recovery # None => Recovering(p, c, s)

Steady(p, c, s, w, full) ==
  /\ c \in Conn /\ s \in Source /\ w \in Wake /\ full \in BOOLEAN
  /\ Held(p)
  /\ Health(p, c, w) /\ Stage(p, c, s) /\ Stream(p, c, s) /\ Room(p, c, s) /\ Recovery(p, c, s)
  /\ w.waiting => full

\* Something is left to send, and something will ask for it to be sent.
Unsent(c) == c.queued > 0 \/ (c.pendingFin /\ ~c.finSent)
Awake(w) == w.blocked \/ w.waiting \/ w.immediates > 0 \/ w.rateTimers > 0
Answered(p) == HasOutstanding(p) \/ Persisting(p)

\* Where the handlers stand.
Going(p, c, w, l) ==
  /\ l \in Loop
  /\ c.state \in {"SYN_SENT", "CLOSED", "GONE"} => l.after = {}
  /\ c.sending => c.state \in Established \cup {"CLOSED"}
  /\ c.sending /\ IsOpen(c) /\ ShouldPersist(c, p) => Persisting(p)
  /\ ~c.sending /\ IsOpen(c) /\ Unsent(c) => Awake(w) \/ Answered(p)

IInv == Steady(q, conn, source, wake, wsFull) /\ Going(q, conn, wake, loop)
-----------------------------------------------------------------------------
(* What keeps the first half of it.                                        *)

LEMMA StateSets ==
  /\ Established = {"ESTABLISHED", "FIN_WAIT", "CLOSING"}
  /\ States = {"SYN_SENT", "ESTABLISHED", "FIN_WAIT", "CLOSING", "CLOSED", "GONE"}
  BY DEF Established, States

LEMMA SourceFields ==
  ASSUME NEW s \in Source
  PROVE  /\ s.kind \in Sources /\ s.left \in 0 .. StreamBytes /\ s.left \in Nat
         /\ s.ends \in SUBSET {"end", "localClose"}
  <1>1. s.kind \in Sources /\ s.left \in 0 .. StreamBytes /\ s.ends \in SUBSET {"end", "localClose"}
    BY Zenon DEF Source
  <1> QED
    BY <1>1, Constants, SMT

LEMMA WakeFields ==
  ASSUME NEW w \in Wake
  PROVE  /\ w.blocked \in BOOLEAN /\ w.waiting \in BOOLEAN
         /\ w.immediates \in 0 .. MaxPending /\ w.rateTimers \in 0 .. MaxPending
  BY Zenon DEF Wake

LEMMA FinsLeftType ==
  ASSUME NEW c, NEW s
  PROVE  /\ FinsLeft(c, s) \in 0 .. 3
         /\ c.pendingFin => FinsLeft(c, s) >= 1
  <1>1. \A b : One(b) \in 0 .. 1 /\ (b => One(b) = 1)
    BY DEF One
  <1> QED
    BY <1>1, SMT DEF FinsLeft

\* Of a connection in use: the numbers the arithmetic below is about.
LEMMA SteadyNumbers ==
  ASSUME NEW p, NEW c, NEW s, NEW w, NEW full, Steady(p, c, s, w, full)
  PROVE  /\ p \in Queue /\ p.una \in SeqNumbers /\ p.nxt \in SeqNumbers /\ p.inFlight \in Int
         /\ Outstanding(p) \in Nat /\ FlagsOut(p) \in Int
         /\ IsOpen(c) => /\ Live(p) /\ ~Closed(p)
                         /\ p.inFlight \in Nat /\ FlagsOut(p) \in Nat
                         /\ p.inFlight + 3 < Half
                         /\ FlagsOut(p) + FinsLeft(c, s) <= 3
                         /\ Outstanding(p) = p.inFlight + FlagsOut(p)
                         /\ HasOutstanding(p) <=> Outstanding(p) # 0
  <1>1. Held(p) /\ Health(p, c, w) /\ Room(p, c, s)
    BY DEF Steady
  <1>2. /\ p.una \in SeqNumbers /\ p.nxt \in SeqNumbers /\ p.inFlight \in Int
        /\ Outstanding(p) \in Nat /\ FlagsOut(p) \in Int
        /\ ~Closed(p) => /\ p.inFlight \in 0 .. Outstanding(p) /\ FlagsOut(p) \in Nat
                         /\ HasOutstanding(p) <=> Outstanding(p) # 0
    BY <1>1, HeldBounds
  <1>3. Outstanding(p) = p.inFlight + FlagsOut(p)
    BY <1>2, SMT DEF FlagsOut
  <1>4. p \in Queue
    BY <1>1 DEF Held
  <1>5. IsOpen(c) => Live(p) /\ ~Closed(p)
    BY <1>1 DEF Health, Live
  <1>6. IsOpen(c) => p.inFlight + 3 < Half /\ FlagsOut(p) + FinsLeft(c, s) <= 3
    BY <1>1 DEF Room
  <1> QED
    BY <1>2, <1>3, <1>4, <1>5, <1>6, SMT

LEMMA SteadyConn ==
  ASSUME NEW p, NEW c, NEW s, NEW w, NEW full, Steady(p, c, s, w, full),
         NEW r \in Conn, SameStream(c, r), SameWindow(c, r), r.state = c.state
  PROVE  Steady(p, r, s, w, full)
  <1>1. IsOpen(r) <=> IsOpen(c)
    BY DEF IsOpen
  <1>2. FinsLeft(r, s) = FinsLeft(c, s)
    BY Zenon DEF FinsLeft, SameStream
  <1>3. Health(p, r, w) /\ Stage(p, r, s) /\ Stream(p, r, s)
    BY <1>1, Zenon DEF Steady, Health, Stage, Stream, SameStream
  <1>4. Room(p, r, s) /\ Recovery(p, r, s)
    BY <1>1, <1>2, Zenon DEF Steady, Room, Recovery, Recovering, SameWindow
  <1> QED
    BY <1>3, <1>4, Zenon DEF Steady

LEMMA SteadyQueue ==
  ASSUME NEW p, NEW c, NEW s, NEW w, NEW full, Steady(p, c, s, w, full),
         NEW r \in Queue, TimerFollows(r), SameData(p, r), Live(p) => Live(r),
         c.state = "SYN_SENT" => ~Persisting(r)
  PROVE  Steady(r, c, s, w, full)
  <1>1. /\ Held(r) /\ Outstanding(r) = Outstanding(p) /\ FlagsOut(r) = FlagsOut(p)
    BY SameDataHeld DEF Steady
  <1>2. r.una = p.una /\ r.nxt = p.nxt /\ r.inFlight = p.inFlight /\ (Closed(r) <=> Closed(p))
    BY DEF SameData
  <1>3. Health(r, c, w) /\ Stage(r, c, s) /\ Stream(r, c, s)
    BY <1>1, <1>2, Zenon DEF Steady, Health, Stage, Stream
  <1>4. Room(r, c, s) /\ Recovery(r, c, s)
    BY <1>1, <1>2, Zenon DEF Steady, Room, Recovery, Recovering
  <1> QED
    BY <1>1, <1>3, <1>4, Zenon DEF Steady

\* The wake-ups v, after w, with the websocket as it is then.
Rewoken(c, w, v, filled) ==
  /\ v \in Wake /\ filled \in BOOLEAN
  /\ v.blocked => w.blocked \/ IsOpen(c)
  /\ v.waiting => (w.waiting \/ IsOpen(c)) /\ filled

LEMMA SteadyWake ==
  ASSUME NEW p, NEW c, NEW s, NEW w, NEW full, Steady(p, c, s, w, full),
         NEW v, NEW filled, Rewoken(c, w, v, filled)
  PROVE  Steady(p, c, s, v, filled)
  BY Zenon DEF Steady, Health, Rewoken

-----------------------------------------------------------------------------
(* Sending: a number for each byte and one for FIN.                        *)

\* The queue r is p and one segment more, of size numbers and bytes of payload.
Grown(p, r, bytes, size) ==
  /\ Held(r) /\ r.modes = p.modes
  /\ r.una = p.una /\ r.inFlight = p.inFlight + bytes
  /\ r.nxt = (p.nxt + size) % SeqSpace
  /\ Outstanding(r) = Outstanding(p) + size
  /\ HasOutstanding(r)

LEMMA GrownFlags ==
  ASSUME NEW p, NEW r, NEW bytes \in Int, NEW size \in Int, Grown(p, r, bytes, size),
         Outstanding(p) \in Int, p.inFlight \in Int
  PROVE  FlagsOut(r) = FlagsOut(p) + (size - bytes)
  BY SMT DEF Grown, FlagsOut

\* The place in the stream after k more numbers.
LEMMA NextNumber ==
  ASSUME NEW n \in Int, NEW k \in Nat, NEW number, number = n % SeqSpace
  PROVE  (number + k) % SeqSpace = (n + k) % SeqSpace
  BY Wrapped

LEMMA StreamBytesSent ==
  ASSUME NEW p, NEW c \in Conn, NEW s \in Source, Stream(p, c, s),
         NEW bytes \in 1 .. c.queued, NEW r, r.nxt = (p.nxt + bytes) % SeqSpace
  PROVE  Stream(r, SendBytes(c, bytes), s)
  <1> DEFINE d == SendBytes(c, bytes)
             place == InitialSequence + 1 + (StreamBytes - (s.left + c.queued)) + One(c.finSent)
             next == InitialSequence + 1 + (StreamBytes - (s.left + d.queued)) + One(d.finSent)
  <1>1. bytes \in Nat /\ bytes <= c.queued /\ bytes > 0 /\ c.queued \in Nat /\ s.left \in Nat
        /\ StreamBytes \in Nat /\ InitialSequence \in Int
    BY ConnFields, SourceFields, Constants, SMT DEF SeqNumbers
  <1>2. /\ d.relaySeq = (c.relaySeq + bytes) % SeqSpace /\ d.queued = c.queued - bytes
        /\ d.pendingFin = c.pendingFin /\ d.finSent = c.finSent
        /\ d.paused => d.queued > 0
    BY <1>1, SendBytesFields
  <1> HIDE DEF d
  <1>3. d.relaySeq = r.nxt
    BY <1>2 DEF Stream
  <1>4. s.left + d.queued <= StreamBytes
    <2>1. s.left + c.queued <= StreamBytes
      BY DEF Stream
    <2> QED
      BY <1>1, <1>2, <2>1, SMT
  <1>5. ASSUME ~Gone(s)
        PROVE  /\ d.relaySeq = next % SeqSpace
               /\ d.pendingFin \/ d.finSent => s.left = 0 /\ "end" \notin s.ends
               /\ d.finSent => ~d.pendingFin /\ d.queued = 0
    <2>1. /\ c.relaySeq = place % SeqSpace
          /\ c.pendingFin \/ c.finSent => s.left = 0 /\ "end" \notin s.ends
          /\ c.finSent => ~c.pendingFin /\ c.queued = 0
      BY <1>5 DEF Stream
    <2>2. One(c.finSent) \in Int /\ One(d.finSent) = One(c.finSent)
      BY <1>2 DEF One
    <2>3. place \in Int /\ next = place + bytes
      BY <1>1, <1>2, <2>2, SMT
    <2> HIDE DEF place, next
    <2>4. (c.relaySeq + bytes) % SeqSpace = (place + bytes) % SeqSpace
      BY <1>1, <2>1, <2>3, NextNumber
    <2>5. ~c.finSent
      BY <1>1, <2>1, SMT
    <2> QED
      BY <1>2, <2>1, <2>3, <2>4, <2>5, Zenon
  <1> QED
    BY <1>2, <1>3, <1>4, <1>5 DEF Stream, d

LEMMA SteadyBytes ==
  ASSUME NEW p, NEW c, NEW s, NEW w, NEW full, Steady(p, c, s, w, full), IsOpen(c),
         c.state # "SYN_SENT", NEW bytes \in 1 .. c.queued, p.inFlight + bytes + 3 < Half,
         NEW r, Grown(p, r, bytes, bytes)
  PROVE  Steady(r, SendBytes(c, bytes), s, w, full)
  <1> DEFINE d == SendBytes(c, bytes)
  <1>1. c \in Conn /\ s \in Source /\ Stream(p, c, s) /\ Room(p, c, s) /\ Recovery(p, c, s)
        /\ Stage(p, c, s) /\ Health(p, c, w)
    BY DEF Steady
  <1>2. bytes \in Nat /\ bytes <= c.queued /\ bytes > 0
    BY <1>1, ConnFields, SMT
  <1>3. /\ d \in Conn /\ SameWindow(c, d) /\ d.state = c.state
        /\ d.pendingFin = c.pendingFin
    BY <1>1, <1>2, SendBytesFields DEF SameStage
  <1>4. /\ Held(r) /\ r.modes = p.modes /\ r.una = p.una /\ r.inFlight = p.inFlight + bytes
        /\ r.nxt = (p.nxt + bytes) % SeqSpace /\ Outstanding(r) = Outstanding(p) + bytes
    BY DEF Grown
  <1>5. Stream(r, d, s)
    BY <1>1, <1>4, StreamBytesSent
  <1> HIDE DEF d
  <1>6. /\ Outstanding(p) \in Nat /\ FlagsOut(p) \in Nat /\ p.inFlight \in Int
        /\ FlagsOut(p) + FinsLeft(c, s) <= 3
    BY SteadyNumbers
  <1>7. FlagsOut(r) = FlagsOut(p)
    <2>1. bytes \in Int /\ Outstanding(p) \in Int /\ FlagsOut(p) \in Int
      BY <1>2, <1>6, SMT
    <2>2. FlagsOut(r) = FlagsOut(p) + (bytes - bytes)
      BY <1>6, <2>1, GrownFlags
    <2> QED
      BY <2>1, <2>2, SMT
  <1>8. FinsLeft(d, s) = FinsLeft(c, s) /\ IsOpen(d)
    BY <1>3, Zenon DEF FinsLeft, IsOpen
  <1>9. Health(r, d, w)
    BY <1>1, <1>4, <1>8, ModesDecide DEF Health
  <1>10. Stage(r, d, s)
    BY <1>1, <1>3, <1>8, Zenon DEF Stage, IsOpen
  <1>11. Room(r, d, s)
    BY <1>1, <1>3, <1>4, <1>6, <1>7, <1>8, Zenon DEF Room, SameWindow
  <1>12. Recovery(r, d, s)
    <2> SUFFICES ASSUME d.recovery # None PROVE Recovering(r, d, s)
      BY DEF Recovery
    <2>1. c.recovery # None /\ d.recovery = c.recovery
      BY <1>3 DEF SameWindow
    <2>2. PICK x \in Int : /\ c.recovery = (p.una + x) % SeqSpace
                           /\ x <= Outstanding(p)
                           /\ FlagsOut(p) + FinsLeft(c, s) <= 3 + x
      BY <1>1, <2>1 DEF Recovery, Recovering
    <2>3. x <= Outstanding(r)
      BY <1>2, <1>4, <1>6, <2>2, SMT
    <2> QED
      BY <1>4, <1>7, <1>8, <2>1, <2>2, <2>3, Zenon DEF Recovering
  <1> QED
    BY <1>1, <1>3, <1>4, <1>5, <1>9, <1>10, <1>11, <1>12, Zenon DEF Steady, d

LEMMA StreamFinSent ==
  ASSUME NEW p, NEW c \in Conn, NEW s \in Source, Stream(p, c, s),
         c.pendingFin, c.queued = 0, NEW r, r.nxt = (p.nxt + 1) % SeqSpace
  PROVE  Stream(r, SendFin(c), s)
  <1> DEFINE d == SendFin(c)
             place == InitialSequence + 1 + (StreamBytes - (s.left + c.queued)) + One(c.finSent)
             next == InitialSequence + 1 + (StreamBytes - (s.left + d.queued)) + One(d.finSent)
  <1>1. c.queued \in Nat /\ s.left \in Nat /\ StreamBytes \in Nat /\ InitialSequence \in Int
    BY ConnFields, SourceFields, Constants, SMT DEF SeqNumbers
  <1>2. /\ d.relaySeq = (c.relaySeq + 1) % SeqSpace /\ d.queued = c.queued /\ d.paused = c.paused
        /\ d.pendingFin = FALSE /\ d.finSent = TRUE
    BY SendFinFields
  <1> HIDE DEF d
  <1>3. d.relaySeq = r.nxt /\ s.left + d.queued <= StreamBytes /\ (d.paused => d.queued > 0)
    BY <1>2 DEF Stream
  <1>4. ASSUME ~Gone(s)
        PROVE  /\ d.relaySeq = next % SeqSpace
               /\ s.left = 0 /\ "end" \notin s.ends
    <2>1. /\ c.relaySeq = place % SeqSpace
          /\ s.left = 0 /\ "end" \notin s.ends /\ ~c.finSent
      BY <1>4 DEF Stream
    <2>2. One(c.finSent) = 0 /\ One(d.finSent) = 1
      BY <1>2, <2>1 DEF One
    <2>3. place \in Int /\ next = place + 1
      BY <1>1, <1>2, <2>2, SMT
    <2> HIDE DEF place, next
    <2>4. (c.relaySeq + 1) % SeqSpace = (place + 1) % SeqSpace
      BY <2>1, <2>3, NextNumber
    <2> QED
      BY <1>2, <2>1, <2>3, <2>4
  <1> QED
    BY <1>2, <1>3, <1>4 DEF Stream, d

LEMMA SteadyFin ==
  ASSUME NEW p, NEW c, NEW s, NEW w, NEW full, Steady(p, c, s, w, full), IsOpen(c),
         c.state # "SYN_SENT", c.pendingFin, c.queued = 0, NEW r, Grown(p, r, 0, 1)
  PROVE  Steady(r, SendFin(c), s, w, full)
  <1> DEFINE d == SendFin(c)
  <1>1. c \in Conn /\ s \in Source /\ Stream(p, c, s) /\ Room(p, c, s) /\ Recovery(p, c, s)
        /\ Stage(p, c, s) /\ Health(p, c, w)
    BY DEF Steady
  <1>2. /\ d \in Conn /\ SameWindow(c, d) /\ d.state = "FIN_WAIT" /\ d.pendingFin = FALSE
    BY <1>1, SendFinFields
  <1>3. /\ Held(r) /\ r.modes = p.modes /\ r.una = p.una /\ r.inFlight = p.inFlight + 0
        /\ r.nxt = (p.nxt + 1) % SeqSpace /\ Outstanding(r) = Outstanding(p) + 1
    BY DEF Grown
  <1>4. Stream(r, d, s)
    BY <1>1, <1>3, StreamFinSent
  <1> HIDE DEF d
  <1>5. /\ Outstanding(p) \in Nat /\ FlagsOut(p) \in Nat /\ p.inFlight \in Int
        /\ p.inFlight + 3 < Half /\ FlagsOut(p) + FinsLeft(c, s) <= 3
    BY SteadyNumbers
  <1>6. FlagsOut(r) = FlagsOut(p) + (1 - 0)
    BY <1>5, GrownFlags, SMT
  <1>7. FinsLeft(c, s) = FinsLeft(d, s) + 1 /\ FinsLeft(d, s) \in Int
    <2> DEFINE end == One("end" \in s.ends)
               close == One("localClose" \in s.ends)
    <2>1. One(c.pendingFin) = 1 /\ One(d.pendingFin) = 0
      BY <1>2 DEF One
    <2>2. end \in Int /\ close \in Int
      BY SMT DEF One
    <2>3. /\ FinsLeft(c, s) = One(c.pendingFin) + end + close
          /\ FinsLeft(d, s) = One(d.pendingFin) + end + close
      BY DEF FinsLeft
    <2> HIDE DEF end, close
    <2> QED
      BY <2>1, <2>2, <2>3, SMT
  <1>8. FlagsOut(r) + FinsLeft(d, s) = FlagsOut(p) + FinsLeft(c, s) /\ r.inFlight = p.inFlight
    BY <1>3, <1>5, <1>6, <1>7, SMT
  <1>9. IsOpen(d)
    BY <1>2, SMT DEF IsOpen
  <1>10. Health(r, d, w)
    BY <1>1, <1>3, <1>9, ModesDecide DEF Health
  <1>11. Stage(r, d, s)
    BY <1>1, <1>2, SMT DEF Stage
  <1>12. Room(r, d, s)
    <2>1. c.vmWindow + 3 < Half /\ c.cwnd > 0
      <3>1. c.cwnd > 0 /\ (Socket(s) \/ c.state # "SYN_SENT" => c.vmWindow + 3 < Half)
        BY <1>1 DEF Room
      <3> QED
        BY <3>1
    <2> QED
      BY <1>2, <1>5, <1>8, <2>1, Zenon DEF Room, SameWindow
  <1>13. Recovery(r, d, s)
    <2> SUFFICES ASSUME d.recovery # None PROVE Recovering(r, d, s)
      BY DEF Recovery
    <2>1. c.recovery # None /\ d.recovery = c.recovery
      BY <1>2 DEF SameWindow
    <2>2. PICK x \in Int : /\ c.recovery = (p.una + x) % SeqSpace
                           /\ x <= Outstanding(p)
                           /\ FlagsOut(p) + FinsLeft(c, s) <= 3 + x
      BY <1>1, <2>1 DEF Recovery, Recovering
    <2>3. x <= Outstanding(r)
      BY <1>3, <1>5, <2>2, SMT
    <2> QED
      BY <1>3, <1>8, <2>1, <2>2, <2>3, Zenon DEF Recovering
  <1> QED
    BY <1>1, <1>2, <1>3, <1>4, <1>10, <1>11, <1>12, <1>13, Zenon DEF Steady, d

-----------------------------------------------------------------------------
(* Acknowledgements, and the congestion window.                            *)

\* The queue r is p after an acknowledgement of its first a numbers.
Shrunk(p, r, a) ==
  /\ Held(r) /\ r.modes = p.modes
  /\ r.una = (p.una + a) % SeqSpace /\ r.nxt = p.nxt
  /\ r.inFlight <= p.inFlight /\ FlagsOut(r) <= FlagsOut(p)
  /\ Outstanding(r) = Outstanding(p) - a
  /\ a \in 1 .. Outstanding(p)

LEMMA AcknowledgeShrinks ==
  ASSUME NEW p, Held(p), ~Closed(p), NEW ack \in SeqNumbers, AckStatus(p, ack) = "advanced"
  PROVE  /\ \E a \in Nat : Shrunk(p, Acknowledge(p, ack), a)
         /\ Acknowledge(p, ack).una = ack
  <1> DEFINE r == Acknowledge(p, ack)
             a == SequenceDistance(ack, p.una)
  <1>1. /\ Held(r) /\ r.modes = p.modes
        /\ r.una = ack /\ r.nxt = p.nxt
        /\ r.inFlight <= p.inFlight /\ FlagsOut(r) <= FlagsOut(p)
        /\ Outstanding(r) = Outstanding(p) - a
        /\ a \in 1 .. Outstanding(p)
    BY AcknowledgeEffect
  <1>2. p.una \in SeqNumbers
    BY HeldBounds
  <1>3. (p.una + a) % SeqSpace = ack
    BY <1>2, Returned
  <1>4. a \in Nat
    BY <1>2, DistanceType, SMT DEF SeqNumbers
  <1> HIDE DEF r, a
  <1>5. Shrunk(p, r, a)
    BY <1>1, <1>3, Zenon DEF Shrunk
  <1> QED
    BY <1>1, <1>4, <1>5 DEF r

LEMMA RecoveredBehind ==
  ASSUME NEW c, NEW una \in SeqNumbers, NEW x \in -Half .. 0, c.recovery = (una + x) % SeqSpace
  PROVE  Recovered(c, una)
  <1>1. x \in Int /\ Half \in Int /\ SeqSpace = 2 * Half
    BY HalfAssumption, SMT DEF SeqSpace
  <1>2. /\ c.recovery \in SeqNumbers
        /\ x \in 0 .. SeqSpace - 1 => SequenceDistance(c.recovery, una) = x
        /\ x \in -Half .. -1 => SequenceDistance(c.recovery, una) = SeqSpace + x
    BY <1>1, DistanceFrom
  <1>3. CASE x = 0
    <2>1. x \in 0 .. SeqSpace - 1
      BY <1>1, <1>3, HalfAssumption, SMT
    <2>2. SequenceDistance(c.recovery, una) = 0
      BY <1>2, <1>3, <2>1
    <2>3. c.recovery = una
      BY <1>2, <2>2, NoDistance
    <2> QED
      BY <2>3 DEF Recovered
  <1>4. CASE x # 0
    <2>1. x \in -Half .. -1
      BY <1>1, <1>4, SMT
    <2>2. SequenceDistance(c.recovery, una) >= Half
      BY <1>1, <1>2, <2>1, HalfAssumption, SMT
    <2> QED
      BY <2>2 DEF Recovered, SeqLessThan
  <1> QED
    BY <1>3, <1>4

\* A recovery that goes on waits for numbers in use: while it holds sending back
\* there is an acknowledgement to come.
LEMMA RecoveryAwaits ==
  ASSUME NEW p, NEW c, NEW s, NEW w, NEW full, Steady(p, c, s, w, full), IsOpen(c),
         RecoveryActive(c, p)
  PROVE  HasOutstanding(p)
  <1>1. c.recovery # None /\ ~Recovered(c, p.una)
    BY DEF RecoveryActive
  <1>2. Recovering(p, c, s)
    BY <1>1 DEF Steady, Recovery
  <1>3. PICK x \in Int : /\ c.recovery = (p.una + x) % SeqSpace
                         /\ x <= Outstanding(p)
                         /\ FlagsOut(p) + FinsLeft(c, s) <= 3 + x
    BY <1>2 DEF Recovering
  <1>4. /\ p.una \in SeqNumbers /\ FlagsOut(p) \in Nat /\ Outstanding(p) \in Nat
        /\ HasOutstanding(p) <=> Outstanding(p) # 0
    BY SteadyNumbers
  <1>5. FinsLeft(c, s) \in 0 .. 3
    BY FinsLeftType
  <1>6. x > 0
    <2> SUFFICES ASSUME ~(x > 0) PROVE FALSE
      OBVIOUS
    <2>1. x \in -Half .. 0
      BY <1>3, <1>4, <1>5, Constants, SMT
    <2> QED
      BY <1>1, <1>3, <1>4, <2>1, RecoveredBehind
  <1> QED
    BY <1>3, <1>4, <1>6, SMT

LEMMA SteadyAck ==
  ASSUME NEW p, NEW c, NEW s, NEW w, NEW full, Steady(p, c, s, w, full), IsOpen(c),
         NEW a \in Nat, NEW r, Shrunk(p, r, a),
         NEW d \in Conn, SameStream(c, d), d.state \in Established,
         d.vmWindow + 3 < Half, d.cwnd > 0, d.recovery \in {c.recovery, None},
         d.recovery # None => r.inFlight = p.inFlight \/ ~Recovered(c, r.una)
  PROVE  Steady(r, d, s, w, full)
  <1>1. s \in Source /\ Stream(p, c, s) /\ Recovery(p, c, s) /\ Stage(p, c, s) /\ Health(p, c, w)
    BY DEF Steady
  <1>2. /\ Held(r) /\ r.modes = p.modes
        /\ r.una = (p.una + a) % SeqSpace /\ r.nxt = p.nxt
        /\ r.inFlight <= p.inFlight /\ FlagsOut(r) <= FlagsOut(p)
        /\ Outstanding(r) = Outstanding(p) - a
        /\ a \in 1 .. Outstanding(p)
    BY DEF Shrunk
  <1>3. /\ p.una \in SeqNumbers /\ p.inFlight \in Int /\ Outstanding(p) \in Nat
        /\ FlagsOut(p) \in Nat /\ p.inFlight + 3 < Half
        /\ FlagsOut(p) + FinsLeft(c, s) <= 3
        /\ Outstanding(p) = p.inFlight + FlagsOut(p)
    BY SteadyNumbers
  <1>4. r.inFlight \in Int /\ FlagsOut(r) \in Int /\ r.una \in SeqNumbers
    BY <1>2, HeldBounds
  <1>5. FinsLeft(d, s) = FinsLeft(c, s) /\ FinsLeft(c, s) \in 0 .. 3
    BY FinsLeftType, Zenon DEF FinsLeft, SameStream
  <1>6. IsOpen(d) /\ d.state \notin {"SYN_SENT", "CLOSED"}
    BY StateSets, SMT DEF IsOpen
  <1>7. Health(r, d, w)
    BY <1>1, <1>2, <1>6, ModesDecide DEF Health
  <1>8. Stage(r, d, s)
    BY <1>1, <1>6, Zenon DEF Stage
  <1>9. Stream(r, d, s)
    BY <1>1, <1>2, Zenon DEF Stream, SameStream
  <1>10. r.inFlight + 3 < Half /\ FlagsOut(r) + FinsLeft(d, s) <= 3
    BY <1>2, <1>3, <1>4, <1>5, Constants, SMT
  <1>11. Room(r, d, s)
    BY <1>10 DEF Room
  <1>12. Recovery(r, d, s)
    <2> SUFFICES ASSUME d.recovery # None PROVE Recovering(r, d, s)
      BY DEF Recovery
    <2>1. d.recovery = c.recovery /\ c.recovery # None
      OBVIOUS
    <2>2. PICK x \in Int : /\ c.recovery = (p.una + x) % SeqSpace
                           /\ x <= Outstanding(p)
                           /\ FlagsOut(p) + FinsLeft(c, s) <= 3 + x
      BY <1>1, <2>1 DEF Recovery, Recovering
    <2> DEFINE y == x - a
    <2>3. y \in Int /\ y <= Outstanding(r) /\ a \in Int /\ x = a + y
      BY <1>2, <1>3, <2>2, SMT
    <2>4. c.recovery = (r.una + y) % SeqSpace
      <3> DEFINE sum == p.una + a
      <3>1. sum \in Int /\ p.una + x = sum + y
        BY <1>3, <2>3, SMT DEF SeqNumbers
      <3>2. r.una = sum % SeqSpace
        BY <1>2
      <3> HIDE DEF sum, y
      <3>3. ((sum % SeqSpace) + y) % SeqSpace = (sum + y) % SeqSpace
        BY <2>3, <3>1, Wrapped
      <3> QED
        BY <2>2, <3>1, <3>2, <3>3
    <2>5. FlagsOut(r) + FinsLeft(c, s) <= 3 + y
      <3>1. CASE r.inFlight = p.inFlight
        <4>1. FlagsOut(r) = FlagsOut(p) - a
          BY <1>2, <1>3, <1>4, <3>1, SMT DEF FlagsOut
        <4> QED
          BY <1>3, <1>5, <2>2, <4>1, SMT
      <3>2. CASE ~Recovered(c, r.una)
        <4>1. ~(y \in -Half .. 0)
          BY <1>4, <2>4, <3>2, RecoveredBehind
        <4>2. y >= -Half
          BY <1>2, <1>3, <1>5, <2>2, Constants, SMT
        <4> HIDE DEF y
        <4>3. y > 0
          BY <2>3, <4>1, <4>2, HalfAssumption, SMT
        <4> QED
          BY <1>4, <1>5, <1>10, <2>3, <4>3, SMT
      <3> QED
        BY <3>1, <3>2
    <2> HIDE DEF y
    <2> QED
      BY <1>5, <2>1, <2>3, <2>4, <2>5 DEF Recovering
  <1> QED
    BY <1>1, <1>2, <1>7, <1>8, <1>9, <1>11, <1>12, Zenon DEF Steady

LEMMA CongestionAckFields ==
  ASSUME NEW c \in Conn, NEW p, p.una \in SeqNumbers, NEW acked \in Int, NEW ack
  PROVE  LET r == CongestionAck(c, p, acked, ack)
         IN /\ r \in Conn /\ SameStream(c, r) /\ SameStage(c, r) /\ r.vmWindow = c.vmWindow
            /\ c.cwnd > 0 => r.cwnd > 0
            /\ r.recovery \in {c.recovery, None}
            /\ r.recovery # None => acked = 0 \/ ~Recovered(c, ack)
  <1> DEFINE current == Max({Mss, c.cwnd})
             grown == current + Max({1, (Mss * acked) \div current})
             size == Min({ReceiveWindow, grown})
             r1 == [c EXCEPT !.cwnd = size]
             r2 == [c EXCEPT !.recovery = None]
             r3 == [c EXCEPT !.fastAck = p.una]
             r == CongestionAck(c, p, acked, ack)
  <1>1. r = IF acked = 0 THEN c
            ELSE IF c.recovery = None THEN r1
            ELSE IF Recovered(c, ack) THEN r2
            ELSE IF HasOutstanding(p) THEN r3
            ELSE c
    BY Zenon DEF CongestionAck
  <1>2. size \in Nat \ {0}
    <2>1. current \in Nat \ {0}
      <3>1. c.cwnd \in Nat /\ Mss \in Nat \ {0}
        BY ConnFields, Constants
      <3>2. current = IF Mss >= c.cwnd THEN Mss ELSE c.cwnd
        BY <3>1, GreaterOf
      <3> QED
        BY <3>1, <3>2, SMT
    <2> DEFINE more == (Mss * acked) \div current
    <2>2. more \in Int
      <3> HIDE DEF current
      <3>1. Mss * acked \in Int
        BY Constants, SMT
      <3> QED
        BY <2>1, <3>1, SMT
    <2> HIDE DEF current, more
    <2>3. Max({1, more}) = IF 1 >= more THEN 1 ELSE more
      BY <2>2, GreaterOf
    <2>4. grown \in Nat \ {0}
      BY <2>1, <2>2, <2>3, SMT DEF more
    <2> HIDE DEF grown
    <2>5. size = IF ReceiveWindow <= grown THEN ReceiveWindow ELSE grown
      BY <2>4, Constants, LesserOf
    <2> QED
      BY <2>4, <2>5, Constants, SMT
  <1> HIDE DEF size
  <1>3. /\ r1 \in Conn /\ SameStream(c, r1) /\ SameStage(c, r1) /\ r1.vmWindow = c.vmWindow
        /\ r1.cwnd = size /\ r1.recovery = c.recovery
    BY <1>2, CwndFields
  <1>4. /\ r2 \in Conn /\ SameStream(c, r2) /\ SameStage(c, r2) /\ r2.vmWindow = c.vmWindow
        /\ r2.cwnd = c.cwnd /\ r2.recovery = None
    BY RecoveryFields
  <1>5. /\ r3 \in Conn /\ SameStream(c, r3) /\ SameStage(c, r3) /\ r3.vmWindow = c.vmWindow
        /\ r3.cwnd = c.cwnd /\ r3.recovery = c.recovery
    BY FastAckFields DEF Alike, SameWindow
  <1>6. SameStream(c, c) /\ SameStage(c, c)
    BY DEF SameStream, SameStage
  <1>7. size > 0
    BY <1>2, SMT
  <1> HIDE DEF r1, r2, r3, r
  <1>8. CASE acked = 0
    BY <1>1, <1>6, <1>8, Zenon DEF r
  <1>9. CASE acked # 0 /\ c.recovery = None
    <2>1. r = r1
      BY <1>1, <1>9, Zenon
    <2> QED
      BY <1>3, <1>7, <1>9, <2>1, Zenon DEF r
  <1>10. CASE acked # 0 /\ c.recovery # None /\ Recovered(c, ack)
    <2>1. r = r2
      BY <1>1, <1>10, Zenon
    <2> QED
      BY <1>4, <2>1, Zenon DEF r
  <1>11. CASE acked # 0 /\ c.recovery # None /\ ~Recovered(c, ack)
    <2>1. r \in {r3, c}
      BY <1>1, <1>11, Zenon
    <2> QED
      BY <1>5, <1>6, <1>11, <2>1, Zenon DEF r
  <1> QED
    BY <1>8, <1>9, <1>10, <1>11

LEMMA CongestionLossFields ==
  ASSUME NEW c \in Conn, NEW reason, q.inFlight \in Int, q.una \in SeqNumbers, q.nxt \in SeqNumbers
  PROVE  LET r == CongestionLoss(c, reason)
         IN /\ r \in Conn /\ SameStream(c, r) /\ SameStage(c, r) /\ r.vmWindow = c.vmWindow
            /\ c.cwnd > 0 => r.cwnd > 0
            /\ r.recovery \in {c.recovery, q.nxt}
  <1> DEFINE threshold == Max({2 * Mss, q.inFlight \div 2})
             size == IF reason = "timeout" THEN Mss ELSE threshold
             r1 == [c EXCEPT !.cwnd = size, !.recovery = q.nxt, !.fastAck = q.una]
             r == CongestionLoss(c, reason)
  <1>1. r = IF q.inFlight = 0 THEN c ELSE r1
    BY Zenon DEF CongestionLoss
  <1>2. size \in Nat \ {0}
    <2>1. 2 * Mss \in Nat \ {0} /\ q.inFlight \div 2 \in Int /\ Mss \in Nat \ {0}
      BY Constants, SMT
    <2>2. threshold = IF 2 * Mss >= q.inFlight \div 2 THEN 2 * Mss ELSE q.inFlight \div 2
      BY <2>1, GreaterOf
    <2> QED
      BY <2>1, <2>2, SMT
  <1>3. size > 0
    BY <1>2, SMT
  <1> HIDE DEF size
  <1>4. /\ r1 \in Conn /\ SameStream(c, r1) /\ SameStage(c, r1) /\ r1.vmWindow = c.vmWindow
        /\ r1.cwnd = size /\ r1.recovery = q.nxt
    BY <1>2, Zenon DEF Conn, SameStream, SameStage
  <1>5. SameStream(c, c) /\ SameStage(c, c)
    BY DEF SameStream, SameStage
  <1> HIDE DEF r1, r
  <1> QED
    BY <1>1, <1>3, <1>4, <1>5, Zenon DEF r

\* A connection of which only the congestion window has changed, and a recovery
\* has ended or begun.
LEMMA SteadyCongestion ==
  ASSUME NEW p, NEW c, NEW s, NEW w, NEW full, Steady(p, c, s, w, full),
         NEW r \in Conn, SameStream(c, r), r.state = c.state, r.vmWindow = c.vmWindow,
         c.cwnd > 0 => r.cwnd > 0, r.recovery \in {c.recovery, None, p.nxt}
  PROVE  Steady(p, r, s, w, full)
  <1>1. IsOpen(r) <=> IsOpen(c)
    BY DEF IsOpen
  <1>2. FinsLeft(r, s) = FinsLeft(c, s)
    BY Zenon DEF FinsLeft, SameStream
  <1>3. Health(p, r, w) /\ Stage(p, r, s) /\ Stream(p, r, s)
    BY <1>1, Zenon DEF Steady, Health, Stage, Stream, SameStream
  <1>4. Room(p, r, s)
    BY <1>1, <1>2, Zenon DEF Steady, Room
  <1>5. Recovery(p, r, s)
    <2> SUFFICES ASSUME IsOpen(r), r.recovery # None PROVE Recovering(p, r, s)
      BY DEF Recovery
    <2>1. CASE r.recovery = c.recovery
      BY <1>1, <1>2, <2>1, Zenon DEF Steady, Recovery, Recovering
    <2>2. CASE r.recovery = p.nxt
      <3>1. /\ p.una \in SeqNumbers /\ p.nxt \in SeqNumbers
            /\ Outstanding(p) \in Nat /\ FlagsOut(p) + FinsLeft(c, s) <= 3 /\ FlagsOut(p) \in Nat
        BY <1>1, SteadyNumbers
      <3>2. (p.una + Outstanding(p)) % SeqSpace = p.nxt
        BY <3>1, Returned DEF Outstanding
      <3>3. FlagsOut(p) + FinsLeft(c, s) <= 3 + Outstanding(p)
        BY <3>1, FinsLeftType, SMT
      <3>4. Outstanding(p) <= Outstanding(p) /\ Outstanding(p) \in Int
        BY <3>1, SMT
      <3> QED
        BY <1>2, <2>2, <3>2, <3>3, <3>4 DEF Recovering
    <2> QED
      BY <2>1, <2>2
  <1> QED
    BY <1>3, <1>4, <1>5, Zenon DEF Steady

LEMMA CheckRecoveryFields ==
  ASSUME NEW c \in Conn, NEW p
  PROVE  LET r == CheckRecovery(c, p)
         IN /\ r \in Conn /\ SameStream(c, r) /\ SameStage(c, r)
            /\ r.vmWindow = c.vmWindow /\ r.cwnd = c.cwnd /\ r.recovery \in {c.recovery, None}
  <1>1. LET r == [c EXCEPT !.recovery = None]
        IN /\ r \in Conn /\ SameStream(c, r) /\ SameStage(c, r)
           /\ r.vmWindow = c.vmWindow /\ r.cwnd = c.cwnd /\ r.recovery = None
    BY RecoveryFields
  <1>2. SameStream(c, c) /\ SameStage(c, c)
    BY DEF SameStream, SameStage
  <1> QED
    BY <1>1, <1>2, Zenon DEF CheckRecovery

LEMMA SteadyChecked ==
  ASSUME NEW p, NEW c, NEW s, NEW w, NEW full, Steady(p, c, s, w, full), NEW r
  PROVE  Steady(p, CheckRecovery(c, r), s, w, full)
  <1> DEFINE d == CheckRecovery(c, r)
  <1>1. c \in Conn
    BY DEF Steady
  <1>2. /\ d \in Conn /\ SameStream(c, d) /\ d.state = c.state
        /\ d.vmWindow = c.vmWindow /\ d.cwnd = c.cwnd /\ d.recovery \in {c.recovery, None}
    BY <1>1, CheckRecoveryFields DEF SameStage
  <1> HIDE DEF d
  <1>3. Steady(p, d, s, w, full)
    BY <1>2, SteadyCongestion
  <1> QED
    BY <1>3 DEF d

LEMMA SteadyLoss ==
  ASSUME NEW c, NEW s, NEW w, NEW full, Steady(q, c, s, w, full), NEW reason
  PROVE  Steady(q, CongestionLoss(c, reason), s, w, full)
  <1> DEFINE d == CongestionLoss(c, reason)
  <1>1. c \in Conn /\ q.inFlight \in Int /\ q.una \in SeqNumbers /\ q.nxt \in SeqNumbers
    BY SteadyNumbers DEF Steady
  <1>2. /\ d \in Conn /\ SameStream(c, d) /\ d.state = c.state /\ d.vmWindow = c.vmWindow
        /\ c.cwnd > 0 => d.cwnd > 0
        /\ d.recovery \in {c.recovery, q.nxt}
    BY <1>1, CongestionLossFields DEF SameStage
  <1> HIDE DEF d
  <1>3. Steady(q, d, s, w, full)
    BY <1>2, SteadyCongestion
  <1> QED
    BY <1>3 DEF d

-----------------------------------------------------------------------------
(* The ends that the handlers share.                                       *)

\* What IInv says of the next state, in one name.
After == Steady(q', conn', source', wake', wsFull') /\ Going(q', conn', wake', loop')

\* A handler that has stored its values and has run to its end.
LEMMA GoingQuiet ==
  ASSUME NEW p, NEW c, NEW w, NEW l \in Loop,
         c.state \in {"SYN_SENT", "CLOSED", "GONE"} => l.after = {},
         ~c.sending, IsOpen(c) /\ Unsent(c) => Awake(w) \/ Answered(p)
  PROVE  Going(p, c, w, l)
  BY Zenon DEF Going

LEMMA ShouldPersistAlike ==
  ASSUME NEW p, NEW c, NEW r, NEW d, SameStream(c, d), d.vmWindow = c.vmWindow,
         HasOutstanding(r) <=> HasOutstanding(p)
  PROVE  ShouldPersist(d, r) = ShouldPersist(c, p) /\ Unsent(d) = Unsent(c)
  BY Zenon DEF ShouldPersist, SameStream, Unsent

LEMMA TrySendAfter ==
  ASSUME NEW p, NEW c, NEW s, NEW w, NEW full, Steady(p, c, s, w, full), ~c.sending,
         NEW after \in SUBSET {"again", "fin"},
         c.state \in {"SYN_SENT", "CLOSED", "GONE"} => after = {},
         TrySend(c, p, w, after), Socket(source) = Socket(s), source' = s, wsFull' = full
  PROVE  After
  <1> DEFINE l == [sent |-> 0, after |-> after]
             persist == ShouldPersist(c, p)
             r == SetPersist(p, persist, "sent")
             d == [c EXCEPT !.sending = TRUE]
  <1>1. wake' = w /\ loop' = l /\ IF MaySend(c, w) THEN conn' = d /\ q' = r
                                  ELSE conn' = c /\ q' = p
    BY DEF TrySend
  <1>2. l \in Loop /\ l.after = after
    BY SMT DEF Loop
  <1> HIDE DEF l
  <1>3. c \in Conn /\ Held(p) /\ p \in Queue /\ TimerFollows(p) /\ Stage(p, c, s) /\ Health(p, c, w)
    BY DEF Steady, Held
  <1>4. Forward <=> Socket(s)
    BY DEF Forward, Socket
  <1>5. CASE ~MaySend(c, w)
    <2>1. conn' = c /\ q' = p
      BY <1>1, <1>5
    <2>2. ASSUME IsOpen(c) PROVE Awake(w) \/ Answered(p)
      <3>1. CASE w.blocked
        BY <3>1 DEF Awake
      <3>2. CASE ~w.blocked
        <4>1. c.state = "SYN_SENT"
          <5>1. c.state \notin IF Forward THEN States \ {"SYN_SENT", "GONE"} ELSE Established
            BY <1>5, <3>2 DEF MaySend
          <5>2. c.state \in States /\ c.state \notin {"CLOSED", "GONE"}
            BY <1>3, <2>2, ConnFields DEF IsOpen
          <5> QED
            BY <5>1, <5>2, StateSets, SMT
        <4>2. Outstanding(p) = 1
          BY <1>3, <4>1 DEF Stage
        <4>3. HasOutstanding(p)
          BY <2>2, <4>2, SteadyNumbers, SMT
        <4> QED
          BY <4>3 DEF Answered
      <3> QED
        BY <3>1, <3>2
    <2>3. Going(p, c, w, l)
      BY <1>2, <2>2, GoingQuiet
    <2> QED
      BY <1>1, <2>1, <2>3 DEF After
  <1>6. CASE MaySend(c, w)
    <2>1. conn' = d /\ q' = r
      BY <1>1, <1>6
    <2>2. persist \in BOOLEAN
      BY DEF ShouldPersist
    <2> HIDE DEF persist
    <2>3. /\ r \in Queue /\ TimerFollows(r) /\ SameData(p, r)
          /\ Live(p) => Live(r) /\ (Persisting(r) <=> persist)
      BY <1>3, <2>2, SetPersistType, SetPersistTimer, SetPersistSent DEF EmitOutcomes
    <2>4. d \in Conn /\ SameStream(c, d) /\ SameWindow(c, d) /\ d.state = c.state /\ d.sending
      BY <1>3, SendingFields
    <2> HIDE DEF r, d
    <2>5. c.state \in Established \cup {"CLOSED"}
      <3>1. c.state \in IF Forward THEN States \ {"SYN_SENT", "GONE"} ELSE Established
        BY <1>6 DEF MaySend
      <3> QED
        BY <3>1, StateSets, SMT
    <2>6. c.state # "SYN_SENT"
      BY <2>5, StateSets, SMT
    <2>7. Steady(r, c, s, w, full)
      BY <2>3, <2>6, SteadyQueue
    <2>8. Steady(r, d, s, w, full)
      BY <2>4, <2>7, SteadyConn
    <2>9. HasOutstanding(r) <=> HasOutstanding(p)
      BY <2>3 DEF SameData, HasOutstanding
    <2>10. ShouldPersist(d, r) = persist
      BY <2>4, <2>9, ShouldPersistAlike DEF SameWindow, persist
    <2>11. IsOpen(d) => Live(p)
      BY <1>3, <2>4 DEF Health, IsOpen
    <2>12. Going(r, d, w, l)
      BY <1>2, <2>3, <2>4, <2>5, <2>10, <2>11, Zenon DEF Going
    <2> QED
      BY <1>1, <2>1, <2>8, <2>12 DEF After
  <1> QED
    BY <1>5, <1>6

\* The end of a round.  Either there is something outstanding, or the queue of bytes
\* is empty and the window is open or being probed; then only a FIN is left, and
\* nothing holds it back.
LEMMA MaybeFinAfter ==
  ASSUME NEW p, NEW c, NEW s, NEW w, NEW full, Steady(p, c, s, w, full), ~c.sending,
         c.state \in Established \cup {"CLOSED"},
         \/ HasOutstanding(p)
         \/ c.queued = 0 /\ (IsOpen(c) /\ ShouldPersist(c, p) => Persisting(p)),
         MaybeFin(c, p), source' = s, wsFull' = full, wake' = w,
         loop' \in Loop, c.state = "CLOSED" => loop'.after = {}
  PROVE  After
  <1> DEFINE d == CheckRecovery(c, p)
             sent == SendFin(d)
             r == Track(p, 0, {"fin"})
  <1>1. c \in Conn /\ Held(p) /\ Stream(p, c, s) /\ Stage(p, c, s)
    BY DEF Steady
  <1>2. c.state # "SYN_SENT" /\ c.state # "GONE"
    BY StateSets, SMT
  <1>3. Steady(p, d, s, w, full)
    BY SteadyChecked
  <1>4. d \in Conn /\ SameStream(c, d) /\ SameStage(c, d)
    BY <1>1, CheckRecoveryFields
  <1>5. CASE ~FinDue(c, p)
    <2>1. conn' = c /\ q' = p
      BY <1>5 DEF MaybeFin
    <2>2. ASSUME IsOpen(c), Unsent(c) PROVE Answered(p)
      <3>1. CASE HasOutstanding(p)
        BY <3>1 DEF Answered
      <3>2. CASE ~HasOutstanding(p)
        <4>1. c.queued = 0 /\ (ShouldPersist(c, p) => Persisting(p))
          BY <2>2, <3>2
        <4>2. c.pendingFin /\ ~c.finSent
          BY <2>2, <4>1 DEF Unsent
        <4>3. ~(p.inFlight < c.vmWindow)
          BY <1>5, <4>1, <4>2 DEF FinDue
        <4>4. Outstanding(p) = 0 /\ Outstanding(p) = p.inFlight + FlagsOut(p)
              /\ p.inFlight \in Nat /\ FlagsOut(p) \in Nat
          BY <2>2, <3>2, SteadyNumbers
        <4>5. c.vmWindow = 0
          BY <1>1, <4>3, <4>4, ConnFields, SMT
        <4>6. ShouldPersist(c, p)
          BY <4>2, <4>5 DEF ShouldPersist
        <4> QED
          BY <4>1, <4>6 DEF Answered
      <3> QED
        BY <3>1, <3>2
    <2>3. Going(p, c, w, loop')
      BY <1>2, <2>2, GoingQuiet
    <2> QED
      BY <2>1, <2>3 DEF After
  <1>6. CASE FinDue(c, p) /\ RecoveryActive(c, p)
    <2>1. conn' = d /\ q' = p
      BY <1>6 DEF MaybeFin
    <2>2. IsOpen(c) => Answered(p)
      BY <1>6, RecoveryAwaits DEF Answered
    <2>3. Going(p, d, w, loop')
      BY <1>2, <1>4, <2>2, GoingQuiet DEF SameStage, IsOpen
    <2> QED
      BY <1>3, <2>1, <2>3 DEF After
  <1>7. CASE FinDue(c, p) /\ ~RecoveryActive(c, p)
    <2>1. conn' = sent /\ q' = r
      BY <1>7 DEF MaybeFin
    <2>2. c.pendingFin /\ ~c.finSent /\ c.queued = 0
      BY <1>7 DEF FinDue
    <2>3. IsOpen(c)
      BY <1>1, <1>2, <2>2 DEF Stage, IsOpen
    <2>4. IsOpen(d) /\ d.state # "SYN_SENT" /\ d.pendingFin /\ d.queued = 0 /\ ~d.sending
      BY <1>2, <1>4, <2>2, <2>3, Zenon DEF IsOpen, SameStage, SameStream
    <2>5. Live(p) /\ Outstanding(p) + 1 < Half
      <3>1. /\ Live(p) /\ p.inFlight + 3 < Half /\ FlagsOut(p) + FinsLeft(d, s) <= 3
            /\ Outstanding(p) = p.inFlight + FlagsOut(p)
            /\ p.inFlight \in Nat /\ FlagsOut(p) \in Nat
        BY <1>3, <2>4, SteadyNumbers
      <3>2. FinsLeft(d, s) \in 0 .. 3 /\ FinsLeft(d, s) >= 1
        BY <2>4, FinsLeftType
      <3> QED
        BY <3>1, <3>2, HalfAssumption, SMT
    <2>6. Grown(p, r, 0, 1)
      <3>1. /\ 0 \in Nat /\ {"fin"} \in Flags /\ SequenceLength(0, {"fin"}) = 1
        BY ProbeSegments
      <3>2. SequenceLength(0, {"fin"}) > 0 /\ Outstanding(p) + SequenceLength(0, {"fin"}) < Half
        BY <2>5, <3>1
      <3> QED
        BY <1>1, <2>5, <3>1, <3>2, TrackHeld DEF Grown
    <2> HIDE DEF r
    <2>7. Steady(r, sent, s, w, full)
      BY <1>3, <2>4, <2>6, SteadyFin
    <2>8. sent.state = "FIN_WAIT" /\ sent.sending = d.sending
      BY <1>4, SendFinFields
    <2>9. Answered(r)
      BY <2>6 DEF Grown, Answered
    <2> HIDE DEF sent, d
    <2>10. Going(r, sent, w, loop')
      BY <2>4, <2>8, <2>9, GoingQuiet
    <2> QED
      BY <2>1, <2>7, <2>10 DEF After
  <1> QED
    BY <1>5, <1>6, <1>7

\* A connection that ends: its queue is closed, and its wake-ups are cancelled.
LEMMA ClosedAfter ==
  ASSUME NEW p, Held(p), NEW c \in Conn, NEW s \in Source, NEW w \in Wake, NEW full \in BOOLEAN,
         Stream(p, c, s), s.kind # "forwarded" => "localClose" \notin s.ends,
         NEW state \in {"CLOSED", "GONE"},
         state = "CLOSED" => Socket(s) /\ c.finSent /\ Outstanding(p) = 0, ~c.sending,
         conn' = InState(c, state), q' = Close(p), source' = s, wsFull' = full,
         wake' = [w EXCEPT !.blocked = FALSE, !.waiting = FALSE],
         loop' \in Loop, loop'.after = {}
  PROVE  After
  <1> DEFINE d == InState(c, state)
             r == Close(p)
             v == [w EXCEPT !.blocked = FALSE, !.waiting = FALSE]
  <1>1. d \in Conn /\ SameStream(c, d) /\ d.state = state /\ d.sending = c.sending
    <2>1. state \in States
      BY StateSets
    <2> QED
      BY <2>1, InStateFields
  <1>2. Held(r) /\ Closed(r) /\ r.nxt = p.nxt /\ r.una = p.una
    BY CloseHeld
  <1>3. v \in Wake /\ ~v.blocked /\ ~v.waiting
    BY Zenon DEF Wake
  <1> HIDE DEF d, r, v
  <1>4. ~IsOpen(d)
    BY <1>1 DEF IsOpen
  <1>5. Stage(r, d, s)
    <2>1. Outstanding(r) = Outstanding(p)
      BY <1>2 DEF Outstanding
    <2> QED
      BY <1>1, <2>1, Zenon DEF Stage, SameStream
  <1>6. Stream(r, d, s)
    BY <1>1, <1>2, Zenon DEF Stream, SameStream
  <1>7. Health(r, d, v) /\ Room(r, d, s) /\ Recovery(r, d, s)
    BY <1>2, <1>3, <1>4 DEF Health, Room, Recovery
  <1>8. Steady(r, d, s, v, full)
    BY <1>1, <1>2, <1>3, <1>5, <1>6, <1>7 DEF Steady
  <1>9. Going(r, d, v, loop')
    BY <1>1, <1>4, GoingQuiet
  <1>10. conn' = d /\ q' = r /\ wake' = v
    BY DEF d, r, v
  <1> QED
    BY <1>8, <1>9, <1>10 DEF After

-----------------------------------------------------------------------------
(* One lemma per action.                                                   *)

LEMMA Parts ==
  ASSUME IInv
  PROVE  /\ Steady(q, conn, source, wake, wsFull) /\ Going(q, conn, wake, loop)
         /\ conn \in Conn /\ source \in Source /\ wake \in Wake /\ wsFull \in BOOLEAN
         /\ loop \in Loop /\ Held(q)
         /\ Stream(q, conn, source) /\ Stage(q, conn, source) /\ Health(q, conn, wake)
         /\ Room(q, conn, source)
  BY DEF IInv, Steady, Going

\* While the loop runs.
LEMMA Drains ==
  ASSUME IInv, conn.sending
  PROVE  /\ conn.state \in Established \cup {"CLOSED"}
         /\ conn.state \in {"CLOSED", "GONE"} => loop.after = {}
         /\ IsOpen(conn) /\ ShouldPersist(conn, q) => Persisting(q)
         /\ LET stopped == Stop(conn)
            IN /\ Steady(q, stopped, source, wake, wsFull) /\ ~stopped.sending
               /\ stopped \in Conn /\ SameStream(conn, stopped) /\ SameWindow(conn, stopped)
               /\ stopped.state = conn.state
  <1> DEFINE d == Stop(conn)
  <1>1. d \in Conn /\ SameStream(conn, d) /\ SameWindow(conn, d) /\ d.state = conn.state /\ ~d.sending
    BY Parts, StopFields
  <1> HIDE DEF d
  <1>2. Steady(q, d, source, wake, wsFull)
    BY <1>1, Parts, SteadyConn
  <1>3. /\ conn.state \in Established \cup {"CLOSED"}
        /\ conn.state \in {"CLOSED", "GONE"} => loop.after = {}
        /\ IsOpen(conn) /\ ShouldPersist(conn, q) => Persisting(q)
    BY Parts, SMT DEF Going
  <1> QED
    BY <1>1, <1>2, <1>3 DEF d

\* Bytes are left only in a connection that is in use.
LEMMA DrainsOpen ==
  ASSUME IInv, conn.sending, conn.queued > 0
  PROVE  IsOpen(conn) /\ conn.state # "SYN_SENT"
  <1>1. conn.state \in Established \cup {"CLOSED"}
    BY Drains
  <1>2. conn.state = "CLOSED" => conn.finSent /\ ~Gone(source)
    BY Parts DEF Stage, Gone, Socket
  <1>3. ~Gone(source) /\ conn.finSent => conn.queued = 0
    BY Parts DEF Stream
  <1>4. conn.state # "CLOSED"
    BY <1>2, <1>3, Parts, ConnFields, SMT
  <1> QED
    BY <1>1, <1>4, StateSets, SMT DEF IsOpen

LEMMA DrainEmptyStep ==
  ASSUME IInv, DrainEmpty
  PROVE  After
  <1> DEFINE d == Stop(conn)
  <1>1. /\ conn.sending /\ conn.queued = 0 /\ MaybeFin(d, q)
        /\ source' = source /\ wsFull' = wsFull /\ wake' = wake /\ loop' = loop
    BY DEF DrainEmpty
  <1>2. /\ conn.state \in Established \cup {"CLOSED"}
        /\ conn.state \in {"CLOSED", "GONE"} => loop.after = {}
        /\ IsOpen(conn) /\ ShouldPersist(conn, q) => Persisting(q)
        /\ Steady(q, d, source, wake, wsFull) /\ ~d.sending
        /\ d \in Conn /\ SameStream(conn, d) /\ SameWindow(conn, d) /\ d.state = conn.state
    BY <1>1, Drains
  <1> HIDE DEF d
  <1>3. d.queued = 0 /\ (IsOpen(d) /\ ShouldPersist(d, q) => Persisting(q))
    <2>1. ShouldPersist(d, q) = ShouldPersist(conn, q)
      BY <1>2, ShouldPersistAlike DEF SameWindow
    <2> QED
      BY <1>1, <1>2, <2>1 DEF SameStream, IsOpen
  <1>4. loop' \in Loop /\ (d.state = "CLOSED" => loop'.after = {})
    BY <1>1, <1>2, Parts
  <1> QED
    BY <1>1, <1>2, <1>3, <1>4, MaybeFinAfter

LEMMA DrainTransportFullStep ==
  ASSUME IInv, DrainTransportFull
  PROVE  After
  <1> DEFINE d == Stop(conn)
             v == [wake EXCEPT !.waiting = TRUE]
  <1>1. /\ conn.sending /\ conn.queued > 0 /\ wsFull /\ conn' = d /\ wake' = v
        /\ q' = q /\ source' = source /\ wsFull' = wsFull /\ loop' = loop
    BY DEF DrainTransportFull
  <1>2. /\ conn.state \in Established \cup {"CLOSED"}
        /\ conn.state \in {"CLOSED", "GONE"} => loop.after = {}
        /\ Steady(q, d, source, wake, wsFull) /\ ~d.sending
        /\ d.state = conn.state
    BY <1>1, Drains
  <1>3. v \in Wake /\ v.blocked = wake.blocked /\ v.waiting
    BY Parts, Zenon DEF Wake
  <1> HIDE DEF d, v
  <1>4. IsOpen(conn)
    BY <1>1, DrainsOpen
  <1>5. Steady(q, d, source, v, wsFull)
    <2>1. IsOpen(d) /\ wsFull /\ wsFull \in BOOLEAN
      BY <1>1, <1>2, <1>4, Parts DEF IsOpen
    <2>2. Rewoken(d, wake, v, wsFull)
      BY <1>3, <2>1 DEF Rewoken
    <2> QED
      BY <1>2, <2>2, SteadyWake
  <1>6. d.state \in {"SYN_SENT", "CLOSED", "GONE"} => loop'.after = {}
    BY <1>1, <1>2, StateSets, SMT
  <1>7. Awake(v)
    BY <1>3 DEF Awake
  <1>8. Going(q, d, v, loop')
    BY <1>1, <1>2, <1>6, <1>7, Parts, GoingQuiet
  <1> QED
    BY <1>1, <1>5, <1>8 DEF After
\* The windows leave room for a bytes more; when they leave none, an acknowledgement
\* is to come, or the window is being probed.
LEMMA RoomLeft ==
  ASSUME IInv, conn.sending, conn.queued > 0
  PROVE  LET a == Available(conn)
         IN /\ a \in Nat /\ ToSend(conn) \in Nat
            /\ ToSend(conn) <= a /\ ToSend(conn) <= conn.queued
            /\ ToSend(conn) = 0 => a = 0
            /\ a > 0 => /\ ~RecoveryActive(conn, q) /\ q.inFlight \in Nat
                        /\ q.inFlight + a <= conn.vmWindow /\ q.inFlight + a <= conn.cwnd
                        /\ q.inFlight + a <= Min({conn.vmWindow, conn.cwnd})
            /\ a = 0 => Answered(q)
  <1> DEFINE a == Available(conn)
             least == Min({conn.vmWindow, conn.cwnd})
  <1>1. /\ conn \in Conn /\ IsOpen(conn) /\ conn.state # "SYN_SENT"
        /\ Steady(q, conn, source, wake, wsFull)
    BY Parts, DrainsOpen
  <1>2. /\ conn.vmWindow \in Nat /\ conn.cwnd \in Nat /\ conn.queued \in Nat
    BY <1>1, ConnFields
  <1>3. q.inFlight \in Nat /\ FlagsOut(q) \in Nat /\ Outstanding(q) = q.inFlight + FlagsOut(q)
        /\ (HasOutstanding(q) <=> Outstanding(q) # 0)
    BY <1>1, SteadyNumbers
  <1>4. conn.cwnd > 0
    BY <1>1, Parts DEF Room
  <1>5. least = IF conn.vmWindow <= conn.cwnd THEN conn.vmWindow ELSE conn.cwnd
    BY <1>2, LesserOf
  <1>6. least \in Nat /\ least <= conn.vmWindow /\ least <= conn.cwnd
    BY <1>2, <1>5, SMT
  <1>7. a = IF RecoveryActive(conn, q) THEN 0 ELSE Max({0, least - q.inFlight})
    BY DEF Available
  <1> HIDE DEF least
  <1>8. Max({0, least - q.inFlight}) = IF 0 >= least - q.inFlight THEN 0 ELSE least - q.inFlight
    <2>1. 0 \in Int /\ least - q.inFlight \in Int
      BY <1>3, <1>6, SMT
    <2> QED
      BY <2>1, GreaterOf
  <1> HIDE DEF a
  <1>9. a \in Nat
    BY <1>3, <1>6, <1>7, <1>8, SMT
  <1>10. a > 0 => /\ ~RecoveryActive(conn, q)
                  /\ q.inFlight + a <= conn.vmWindow /\ q.inFlight + a <= conn.cwnd
                  /\ q.inFlight + a <= least
    BY <1>2, <1>3, <1>6, <1>7, <1>8, SMT
  <1>11. ASSUME a = 0 PROVE Answered(q)
    <2>1. CASE RecoveryActive(conn, q)
      BY <1>1, <2>1, RecoveryAwaits DEF Answered
    <2>2. CASE ~RecoveryActive(conn, q)
      <3>1. least <= q.inFlight
        BY <1>3, <1>6, <1>7, <1>8, <1>11, <2>2, SMT
      <3>2. CASE q.inFlight > 0
        BY <1>3, <3>2, SMT DEF Answered
      <3>3. CASE q.inFlight = 0
        <4>1. conn.vmWindow = 0
          BY <1>2, <1>4, <1>5, <3>1, <3>3, SMT DEF least
        <4>2. ShouldPersist(conn, q)
          BY <4>1 DEF ShouldPersist
        <4> QED
          BY <1>1, <4>2, Drains DEF Answered
      <3> QED
        BY <1>3, <3>2, <3>3, SMT
    <2> QED
      BY <2>1, <2>2
  <1>12. /\ ToSend(conn) \in {Mss, conn.queued, a}
         /\ ToSend(conn) <= conn.queued /\ ToSend(conn) <= a
    <2>1. Mss \in Int /\ conn.queued \in Int /\ a \in Int
      BY <1>2, <1>9, Constants, SMT
    <2>2. ToSend(conn) = Min({Mss, conn.queued, a})
      BY DEF ToSend, a
    <2> DEFINE m == Min({Mss, conn.queued, a})
    <2>3. m \in {Mss, conn.queued, a} /\ m <= Mss /\ m <= conn.queued /\ m <= a
      <3> DEFINE queued == conn.queued
      <3>1. queued \in Int /\ a \in Int /\ Mss \in Int
        BY <2>1
      <3> HIDE DEF queued, m
      <3>2. /\ Min({Mss, queued, a}) \in {Mss, queued, a}
            /\ Min({Mss, queued, a}) <= Mss /\ Min({Mss, queued, a}) <= queued
            /\ Min({Mss, queued, a}) <= a
        BY <3>1, LeastOfThree
      <3> QED
        BY <3>2 DEF queued, m
    <2> HIDE DEF m
    <2> QED
      BY <2>2, <2>3 DEF m
  <1>13. ToSend(conn) \in Nat /\ (ToSend(conn) = 0 => a = 0)
    BY <1>2, <1>9, <1>12, Constants, SMT
  <1> QED
    BY <1>3, <1>9, <1>10, <1>11, <1>12, <1>13 DEF a, least

\* The loop stops because of the recovery, the windows or the rate limiter.
LEMMA Checked ==
  ASSUME IInv, conn.sending, conn.queued > 0
  PROVE  LET d == CheckRecovery(conn, q)
             e == Stop(d)
         IN /\ Steady(q, d, source, wake, wsFull) /\ d \in Conn /\ SameStream(conn, d)
            /\ SameStage(conn, d) /\ d.vmWindow = conn.vmWindow /\ d.cwnd = conn.cwnd
            /\ Steady(q, e, source, wake, wsFull)
            /\ ~e.sending /\ e.state = conn.state /\ e.state \in Established /\ IsOpen(e)
  <1> DEFINE d == CheckRecovery(conn, q)
             e == Stop(d)
  <1>1. Steady(q, d, source, wake, wsFull)
    BY Parts, SteadyChecked
  <1>2. d \in Conn /\ SameStream(conn, d) /\ SameStage(conn, d)
        /\ d.vmWindow = conn.vmWindow /\ d.cwnd = conn.cwnd
    BY Parts, CheckRecoveryFields
  <1> HIDE DEF d
  <1>3. e \in Conn /\ SameStream(d, e) /\ SameWindow(d, e) /\ e.state = d.state /\ ~e.sending
    BY <1>2, StopFields
  <1> HIDE DEF e
  <1>4. Steady(q, e, source, wake, wsFull)
    BY <1>1, <1>3, SteadyConn
  <1>5. e.state = conn.state /\ conn.state \in Established /\ IsOpen(e)
    <2>1. IsOpen(conn) /\ conn.state \in Established \cup {"CLOSED"}
      BY Drains, DrainsOpen
    <2>2. e.state = conn.state
      BY <1>2, <1>3 DEF SameStage
    <2> QED
      BY <2>1, <2>2, SMT DEF IsOpen
  <1> QED
    BY <1>1, <1>2, <1>3, <1>4, <1>5 DEF d, e

LEMMA DrainNoRoomStep ==
  ASSUME IInv, DrainNoRoom
  PROVE  After
  <1> DEFINE e == Stop(CheckRecovery(conn, q))
  <1>1. /\ conn.sending /\ conn.queued > 0 /\ ToSend(conn) = 0 /\ conn' = e /\ q' = q
        /\ source' = source /\ wsFull' = wsFull /\ wake' = wake /\ loop' = loop
    BY DEF DrainNoRoom
  <1>2. /\ Steady(q, e, source, wake, wsFull) /\ ~e.sending /\ e.state \in Established
    BY <1>1, Checked
  <1> HIDE DEF e
  <1>3. Answered(q)
    BY <1>1, RoomLeft
  <1>4. e.state \notin {"SYN_SENT", "CLOSED", "GONE"}
    BY <1>2, StateSets, SMT
  <1>5. Going(q, e, wake, loop')
    BY <1>1, <1>2, <1>3, <1>4, Parts, GoingQuiet
  <1> QED
    BY <1>1, <1>2, <1>5 DEF After

LEMMA DrainRateLimitedStep ==
  ASSUME IInv, DrainRateLimited
  PROVE  After
  <1> DEFINE e == Stop(CheckRecovery(conn, q))
             v == [wake EXCEPT !.rateTimers = OneMore(@)]
  <1>1. /\ conn.sending /\ conn.queued > 0 /\ conn' = e /\ wake' = v /\ q' = q
        /\ source' = source /\ wsFull' = wsFull /\ loop' = loop
    BY DEF DrainRateLimited
  <1>2. /\ Steady(q, e, source, wake, wsFull) /\ ~e.sending /\ e.state \in Established
    BY <1>1, Checked
  <1>3. wake.rateTimers \in 0 .. MaxPending /\ wake \in Wake
    BY Parts, WakeFields
  <1>4. /\ v \in Wake /\ v.blocked = wake.blocked /\ v.waiting = wake.waiting
        /\ v.rateTimers > 0
    <2> DEFINE n == OneMore(wake.rateTimers)
    <2>1. n \in 0 .. MaxPending /\ n > 0
      BY <1>3, OneMoreType
    <2>2. v = [wake EXCEPT !.rateTimers = n]
      OBVIOUS
    <2> HIDE DEF n, v
    <2>3. [wake EXCEPT !.rateTimers = n] \in Wake
      BY <1>3, <2>1, Zenon DEF Wake
    <2>4. /\ [wake EXCEPT !.rateTimers = n].blocked = wake.blocked
          /\ [wake EXCEPT !.rateTimers = n].waiting = wake.waiting
          /\ [wake EXCEPT !.rateTimers = n].rateTimers = n
      BY <1>3, Zenon DEF Wake
    <2> QED
      BY <2>1, <2>2, <2>3, <2>4
  <1> HIDE DEF e, v
  <1>5. e.state \notin {"SYN_SENT", "CLOSED", "GONE"}
    BY <1>2, StateSets, SMT
  <1>6. Rewoken(e, wake, v, wsFull)
    BY <1>2, <1>4, Parts DEF Rewoken, Steady
  <1>7. Steady(q, e, source, v, wsFull)
    BY <1>2, <1>6, SteadyWake
  <1>8. Awake(v)
    BY <1>4 DEF Awake
  <1>9. Going(q, e, v, loop')
    BY <1>1, <1>2, <1>5, <1>8, Parts, GoingQuiet
  <1> QED
    BY <1>1, <1>7, <1>9 DEF After

\* A segment of bytes, of a queue and a connection whose inFlight stays within reach.
LEMMA BytesGrown ==
  ASSUME NEW p, NEW c, NEW s, NEW w, NEW full, Steady(p, c, s, w, full), IsOpen(c),
         NEW bytes \in Nat, bytes > 0, p.inFlight + bytes + 3 < Half
  PROVE  /\ SequenceLength(bytes, {}) = bytes /\ SequenceLength(bytes, {}) > 0
         /\ Outstanding(p) + SequenceLength(bytes, {}) < Half
         /\ {} \in Flags /\ Held(p) /\ Live(p) /\ ~Closed(p)
  <1>1. /\ p.inFlight \in Nat /\ FlagsOut(p) \in Nat /\ Live(p) /\ ~Closed(p)
        /\ Outstanding(p) = p.inFlight + FlagsOut(p) /\ FlagsOut(p) + FinsLeft(c, s) <= 3
    BY SteadyNumbers
  <1>2. FinsLeft(c, s) \in 0 .. 3
    BY FinsLeftType
  <1>3. SequenceLength(bytes, {}) = bytes
    BY SMT DEF SequenceLength, Flag
  <1>4. Outstanding(p) + bytes < Half
    BY <1>1, <1>2, HalfAssumption, SMT
  <1>5. {} \in Flags /\ Held(p)
    BY DEF Flags, Steady
  <1> QED
    BY <1>1, <1>3, <1>4, <1>5

LEMMA DrainSendStep ==
  ASSUME IInv, NEW burstEnds \in BOOLEAN, NEW fills \in BOOLEAN, DrainSend(burstEnds, fills)
  PROVE  After
  <1> DEFINE bytes == ToSend(conn)
             d == CheckRecovery(conn, q)
             sent == SendBytes(d, bytes)
             stopped == Stop(sent)
             tracked == Track(q, bytes, {})
             last == sent.queued = 0 \/ Available(conn) <= bytes
             yields == ~Paced /\ loop.sent + 1 >= CooperativeLimit
             n == IF ~last /\ yields THEN OneMore(wake.immediates) ELSE wake.immediates
             v == [wake EXCEPT !.blocked = burstEnds, !.immediates = n]
             count == Min({loop.sent + 1, CooperativeLimit})
  <1>1. /\ conn.sending /\ conn.queued > 0 /\ ~wsFull /\ bytes > 0
        /\ wsFull' = fills /\ source' = source
        /\ loop' = [loop EXCEPT !.sent = count]
        /\ IF ~burstEnds /\ last THEN MaybeFin(stopped, tracked)
           ELSE conn' = (IF burstEnds \/ yields THEN stopped ELSE sent) /\ q' = tracked
    BY Zenon DEF DrainSend
  <1>2. wake' = v
    BY Zenon DEF DrainSend
  <1>3. /\ Steady(q, d, source, wake, wsFull) /\ d \in Conn /\ SameStream(conn, d)
        /\ SameStage(conn, d) /\ d.vmWindow = conn.vmWindow
        /\ d.queued = conn.queued /\ d.state = conn.state
        /\ d.state \in Established /\ IsOpen(d)
    <2>1. LET e == Stop(d) IN e.state = conn.state /\ e.state \in Established /\ IsOpen(e)
      BY <1>1, Checked
    <2>2. /\ Steady(q, d, source, wake, wsFull) /\ d \in Conn /\ SameStream(conn, d)
          /\ SameStage(conn, d) /\ d.vmWindow = conn.vmWindow
      BY <1>1, Checked
    <2> HIDE DEF d
    <2> QED
      BY <2>1, <2>2, StateSets, SMT DEF SameStream, SameStage, IsOpen
  <1>4. d.state \notin {"SYN_SENT", "CLOSED", "GONE"}
    BY <1>3, StateSets, SMT
  <1>5. /\ bytes \in Nat /\ bytes \in 1 .. d.queued /\ bytes <= d.queued
        /\ d.vmWindow > 0 /\ q.inFlight + bytes + 3 < Half
    <2>1. /\ Available(conn) \in Nat /\ bytes \in Nat /\ bytes <= Available(conn)
          /\ bytes <= conn.queued /\ conn.queued \in Nat
          /\ Available(conn) > 0 => /\ q.inFlight \in Nat
                                    /\ q.inFlight + Available(conn) <= conn.vmWindow
      BY <1>1, RoomLeft, ConnFields, Parts
    <2>2. d.vmWindow \in Nat /\ d.vmWindow + 3 < Half
      BY <1>3, <1>4, ConnFields DEF Steady, Room
    <2> HIDE DEF bytes, d
    <2> QED
      BY <1>1, <1>3, <2>1, <2>2, HalfAssumption, SMT
  <1> HIDE DEF bytes, d
  <1>6. Grown(q, tracked, bytes, bytes)
    <2>1. /\ SequenceLength(bytes, {}) = bytes /\ SequenceLength(bytes, {}) > 0
          /\ Outstanding(q) + SequenceLength(bytes, {}) < Half
          /\ {} \in Flags /\ Held(q) /\ Live(q)
      BY <1>1, <1>3, <1>5, BytesGrown
    <2> QED
      BY <1>5, <2>1, TrackHeld DEF Grown
  <1> HIDE DEF tracked
  <1>7. Steady(tracked, sent, source, wake, wsFull)
    BY <1>3, <1>4, <1>5, <1>6, SteadyBytes
  <1>8. sent \in Conn /\ SameWindow(d, sent) /\ SameStage(d, sent)
    BY <1>3, <1>5, SendBytesFields
  <1>9. stopped \in Conn /\ SameStream(sent, stopped) /\ SameWindow(sent, stopped)
        /\ stopped.state = sent.state /\ ~stopped.sending
    BY <1>8, StopFields
  <1>10. /\ sent.state = d.state /\ stopped.state = d.state /\ sent.vmWindow = d.vmWindow
         /\ IsOpen(sent) /\ IsOpen(stopped)
    BY <1>3, <1>8, <1>9 DEF SameStage, SameWindow, IsOpen
  <1>11. v \in Wake /\ v.blocked = burstEnds /\ v.waiting = wake.waiting
    <2>1. wake.immediates \in 0 .. MaxPending /\ wake \in Wake
      BY Parts, WakeFields
    <2>2. n \in 0 .. MaxPending
      BY <2>1, OneMoreType
    <2>3. v = [wake EXCEPT !.blocked = burstEnds, !.immediates = n]
      BY Zenon
    <2> HIDE DEF n, v
    <2> QED
      BY <2>1, <2>2, <2>3, Zenon DEF Wake
  <1>12. loop' \in Loop
    <2>1. count \in Nat
      <3>1. loop.sent \in Nat /\ CooperativeLimit \in Nat
        BY Parts, Constants DEF Loop
      <3>2. count = IF loop.sent + 1 <= CooperativeLimit THEN loop.sent + 1 ELSE CooperativeLimit
        <4>1. loop.sent + 1 \in Int /\ CooperativeLimit \in Int
          BY <3>1, SMT
        <4> QED
          BY <4>1, LesserOf
      <3> QED
        BY <3>1, <3>2, SMT
    <2> HIDE DEF count
    <2> QED
      BY <1>1, <2>1, Parts, Zenon DEF Loop
  <1> HIDE DEF v, n, count
  <1>13. wake.waiting => wsFull
    BY Parts DEF Steady
  <1>14. Rewoken(sent, wake, v, fills)
    BY <1>1, <1>10, <1>11, <1>13 DEF Rewoken
  <1> HIDE DEF sent
  <1>15. Steady(tracked, sent, source, v, fills)
    BY <1>7, <1>14, SteadyWake
  <1> HIDE DEF stopped
  <1>16. Steady(tracked, stopped, source, v, fills)
    BY <1>9, <1>15, SteadyConn
  <1>17. HasOutstanding(tracked) /\ Answered(tracked)
    BY <1>6 DEF Grown, Answered
  <1> HIDE DEF last, yields
  <1>18. CASE ~burstEnds /\ last
    <2>1. MaybeFin(stopped, tracked)
      BY <1>1, <1>18
    <2>2. stopped.state \in Established \cup {"CLOSED"} /\ stopped.state # "CLOSED"
      BY <1>3, <1>4, <1>10
    <2> QED
      BY <1>1, <1>2, <1>9, <1>12, <1>16, <1>17, <2>1, <2>2, MaybeFinAfter
  <1>19. CASE ~(~burstEnds /\ last) /\ (burstEnds \/ yields)
    <2>1. conn' = stopped /\ q' = tracked
      BY <1>1, <1>19
    <2>2. Going(tracked, stopped, v, loop')
      BY <1>4, <1>9, <1>10, <1>12, <1>17, GoingQuiet
    <2> QED
      BY <1>1, <1>2, <1>16, <2>1, <2>2 DEF After
  <1>20. CASE ~(~burstEnds /\ last) /\ ~(burstEnds \/ yields)
    <2>1. conn' = sent /\ q' = tracked
      BY <1>1, <1>20
    <2>2. ~ShouldPersist(sent, tracked)
      BY <1>5, <1>10, SMT DEF ShouldPersist
    <2>3. sent.sending
      BY <1>1, <1>3, <1>8 DEF SameStage
    <2>4. Going(tracked, sent, v, loop')
      BY <1>3, <1>4, <1>10, <1>12, <2>2, <2>3, Zenon DEF Going
    <2> QED
      BY <1>1, <1>2, <1>15, <2>1, <2>4 DEF After
  <1> QED
    BY <1>18, <1>19, <1>20

\* A callback that asks for a new round: the pacer's timer, a setImmediate, or the
\* rate limiter's setTimeout.
LEMMA WakeUpStep ==
  ASSUME IInv, Quiet, NEW v \in Wake, v.blocked => wake.blocked, v.waiting = wake.waiting,
         TrySend(conn, q, v, {}), source' = source, wsFull' = wsFull
  PROVE  After
  <1>1. ~conn.sending
    BY DEF Quiet
  <1>2. wake.waiting => wsFull
    BY Parts DEF Steady
  <1>3. Rewoken(conn, wake, v, wsFull)
    BY <1>2, Parts DEF Rewoken
  <1>4. Steady(q, conn, source, v, wsFull)
    BY <1>3, Parts, SteadyWake
  <1>5. {} \in SUBSET {"again", "fin"}
    OBVIOUS
  <1> QED
    BY <1>1, <1>4, <1>5, TrySendAfter

LEMMA PacerReadyStep ==
  ASSUME IInv, PacerReady
  PROVE  After
  <1> DEFINE v == [wake EXCEPT !.blocked = FALSE]
  <1>1. /\ Quiet /\ TrySend(conn, q, v, {}) /\ source' = source /\ wsFull' = wsFull
    BY DEF PacerReady
  <1>2. v \in Wake /\ ~v.blocked /\ v.waiting = wake.waiting
    BY Parts, Zenon DEF Wake
  <1> HIDE DEF v
  <1> QED
    BY <1>1, <1>2, WakeUpStep

LEMMA ImmediateRunsStep ==
  ASSUME IInv, ImmediateRuns
  PROVE  After
  <1> DEFINE n == wake.immediates - 1
             v == [wake EXCEPT !.immediates = n]
  <1>1. /\ Quiet /\ TrySend(conn, q, v, {}) /\ source' = source /\ wsFull' = wsFull
        /\ wake.immediates > 0
    BY DEF ImmediateRuns
  <1>2. n \in 0 .. MaxPending
    <2>1. wake.immediates \in 0 .. MaxPending /\ MaxPending \in Nat
      BY Parts, WakeFields, Constants
    <2> QED
      BY <1>1, <2>1, SMT
  <1> HIDE DEF n
  <1>3. v \in Wake /\ v.blocked = wake.blocked /\ v.waiting = wake.waiting
    BY <1>2, Parts, Zenon DEF Wake
  <1> HIDE DEF v
  <1> QED
    BY <1>1, <1>3, WakeUpStep

LEMMA RateTimerFiresStep ==
  ASSUME IInv, RateTimerFires
  PROVE  After
  <1> DEFINE n == wake.rateTimers - 1
             v == [wake EXCEPT !.rateTimers = n]
  <1>1. /\ Quiet /\ TrySend(conn, q, v, {}) /\ source' = source /\ wsFull' = wsFull
        /\ wake.rateTimers > 0
    BY DEF RateTimerFires
  <1>2. n \in 0 .. MaxPending
    <2>1. wake.rateTimers \in 0 .. MaxPending /\ MaxPending \in Nat
      BY Parts, WakeFields, Constants
    <2> QED
      BY <1>1, <2>1, SMT
  <1> HIDE DEF n
  <1>3. v \in Wake /\ v.blocked = wake.blocked /\ v.waiting = wake.waiting
    BY <1>2, Parts, Zenon DEF Wake
  <1> HIDE DEF v
  <1> QED
    BY <1>1, <1>3, WakeUpStep

\* What the source delivers changes where the connection is in the stream, and can
\* only use up the end events.
LEMMA SteadySource ==
  ASSUME NEW p, NEW c, NEW s, NEW w, NEW full, Steady(p, c, s, w, full),
         NEW d \in Conn, NEW t \in Source, SameWindow(c, d), SameStage(c, d),
         d.finSent = c.finSent, t.kind = s.kind, t.ends \subseteq s.ends,
         FinsLeft(d, t) <= FinsLeft(c, s), Stream(p, d, t)
  PROVE  Steady(p, d, t, w, full) /\ Socket(t) = Socket(s)
  <1>1. d.state = c.state /\ (IsOpen(d) <=> IsOpen(c)) /\ Socket(t) = Socket(s)
    BY DEF SameStage, IsOpen, Socket
  <1>2. FinsLeft(d, t) \in 0 .. 3 /\ FinsLeft(c, s) \in 0 .. 3
    BY FinsLeftType
  <1>3. Health(p, d, w) /\ Stage(p, d, t)
    <2>1. Health(p, d, w)
      BY <1>1, Zenon DEF Steady, Health
    <2>2. /\ t.kind # "forwarded" => "localClose" \notin t.ends
          /\ d.state = "CLOSED" => Socket(t) /\ d.finSent /\ Outstanding(p) = 0
          /\ d.state = "SYN_SENT" => Outstanding(p) = 1 /\ p.inFlight = 0 /\ ~Persisting(p)
      BY <1>1, Zenon DEF Steady, Stage
    <2> QED
      BY <2>1, <2>2 DEF Stage
  <1>4. IsOpen(d) => FlagsOut(p) \in Nat /\ FlagsOut(p) + FinsLeft(d, t) <= 3
    <2> SUFFICES ASSUME IsOpen(d)
                 PROVE  FlagsOut(p) \in Nat /\ FlagsOut(p) + FinsLeft(d, t) <= 3
      OBVIOUS
    <2>1. FlagsOut(p) \in Nat /\ FlagsOut(p) + FinsLeft(c, s) <= 3
      BY <1>1, SteadyNumbers
    <2> QED
      BY <1>2, <2>1, SMT
  <1>5. Room(p, d, t)
    BY <1>1, <1>4, Zenon DEF Steady, Room, SameWindow
  <1>6. Recovery(p, d, t)
    <2> SUFFICES ASSUME IsOpen(d), d.recovery # None PROVE Recovering(p, d, t)
      BY DEF Recovery
    <2>1. Recovering(p, c, s) /\ d.recovery = c.recovery
      BY <1>1 DEF Steady, Recovery, SameWindow
    <2>2. PICK x \in Int : /\ c.recovery = (p.una + x) % SeqSpace
                           /\ x <= Outstanding(p)
                           /\ FlagsOut(p) + FinsLeft(c, s) <= 3 + x
      BY <2>1 DEF Recovering
    <2>3. FlagsOut(p) + FinsLeft(d, t) <= 3 + x
      BY <1>2, <1>4, <2>2, SMT
    <2> QED
      BY <2>1, <2>2, <2>3 DEF Recovering
  <1> QED
    BY <1>1, <1>3, <1>5, <1>6, Zenon DEF Steady

LEMMA SourceDataStep ==
  ASSUME IInv, NEW bytes \in 1 .. StreamBytes, SourceData(bytes)
  PROVE  After
  <1> DEFINE left == source.left - bytes
             t == [source EXCEPT !.left = left]
             d == Enqueue(conn, bytes)
  <1>1. /\ Quiet /\ ~conn.paused /\ bytes <= source.left
        /\ source' = t /\ TrySend(d, q, wake, {}) /\ wsFull' = wsFull
    BY DEF SourceData
  <1>2. /\ conn.queued \in Nat /\ source.left \in Nat /\ bytes \in Nat /\ bytes > 0
        /\ StreamBytes \in Nat /\ source.left <= StreamBytes
        /\ source.left + conn.queued <= StreamBytes
    BY Parts, ConnFields, SourceFields, Constants, SMT DEF Stream
  <1>3. left \in 0 .. StreamBytes /\ left + bytes = source.left
        /\ conn.queued + bytes <= StreamBytes
        /\ left + (conn.queued + bytes) = source.left + conn.queued
    BY <1>1, <1>2, SMT
  <1> HIDE DEF left
  <1>4. t \in Source /\ t.kind = source.kind /\ t.ends = source.ends /\ t.left = left
    BY <1>3, Parts, Zenon DEF Source
  <1>5. /\ d \in Conn /\ SameWindow(conn, d) /\ SameStage(conn, d)
        /\ d.relaySeq = conn.relaySeq /\ d.queued = conn.queued + bytes
        /\ d.pendingFin = conn.pendingFin /\ d.finSent = conn.finSent
        /\ d.paused => conn.paused \/ d.queued > 0
    BY <1>2, <1>3, Parts, EnqueueFields
  <1> HIDE DEF d, t
  <1>6. FinsLeft(d, t) = FinsLeft(conn, source) /\ FinsLeft(conn, source) \in 0 .. 3
    BY <1>4, <1>5, FinsLeftType, Zenon DEF FinsLeft
  <1>7. Gone(t) <=> Gone(source)
    BY <1>4 DEF Gone
  <1>8. t.left + d.queued = source.left + conn.queued
    BY <1>3, <1>4, <1>5
  <1>9. ~Gone(source) => ~conn.pendingFin /\ ~conn.finSent
    <2>1. source.left # 0
      BY <1>1, <1>2, SMT
    <2> QED
      BY <2>1, Parts DEF Stream
  <1>10. Stream(q, d, t)
    BY <1>1, <1>5, <1>7, <1>8, <1>9, Parts, Zenon DEF Stream
  <1>11. FinsLeft(d, t) <= FinsLeft(conn, source)
    BY <1>6, SMT
  <1>12. Steady(q, d, t, wake, wsFull) /\ Socket(t) = Socket(source)
    BY <1>4, <1>5, <1>10, <1>11, Parts, SteadySource
  <1>13. ~d.sending
    BY <1>1, <1>5 DEF Quiet, SameStage
  <1> QED
    BY <1>1, <1>12, <1>13, TrySendAfter

\* An end event turns into the mark that FIN is due: no more of them are left.
LEMMA EndEvent ==
  ASSUME NEW c \in Conn, NEW s \in Source, NEW event \in {"end", "localClose"}, event \in s.ends
  PROVE  LET t == [s EXCEPT !.ends = @ \ {event}]
             d == [c EXCEPT !.pendingFin = TRUE]
         IN /\ t \in Source /\ t.kind = s.kind /\ t.left = s.left
            /\ t.ends = s.ends \ {event}
            /\ FinsLeft(d, t) <= FinsLeft(c, s)
  <1> DEFINE ends == s.ends \ {event}
             t == [s EXCEPT !.ends = ends]
             d == [c EXCEPT !.pendingFin = TRUE]
  <1>1. ends \in SUBSET {"end", "localClose"}
    BY SourceFields
  <1> HIDE DEF ends
  <1>2. t \in Source /\ t.kind = s.kind /\ t.left = s.left /\ t.ends = ends
    BY <1>1, Zenon DEF Source
  <1>3. d.pendingFin = TRUE
    BY PendingFinFields
  <1> HIDE DEF t, d
  <1> DEFINE e1 == One("end" \in s.ends)
             e2 == One("end" \in t.ends)
             l1 == One("localClose" \in s.ends)
             l2 == One("localClose" \in t.ends)
             p1 == One(c.pendingFin)
             p2 == One(d.pendingFin)
  <1>4. p1 \in 0 .. 1 /\ p2 = 1
    BY <1>3, SMT DEF One
  <1>5. CASE event = "end"
    <2>1. "end" \notin t.ends /\ ("localClose" \in t.ends <=> "localClose" \in s.ends) /\ "end" \in s.ends
      BY <1>2, <1>5, SMT DEF ends
    <2>2. e2 = 0 /\ e1 = 1 /\ l1 = l2 /\ l1 \in 0 .. 1
      BY <2>1, SMT DEF One
    <2>3. FinsLeft(d, t) = p2 + e2 + l2 /\ FinsLeft(c, s) = p1 + e1 + l1
      BY DEF FinsLeft
    <2> HIDE DEF e1, e2, l1, l2, p1, p2
    <2>4. FinsLeft(d, t) <= FinsLeft(c, s)
      BY <1>4, <2>2, <2>3, SMT
    <2> QED
      BY <1>2, <2>4 DEF ends, t, d
  <1>6. CASE event = "localClose"
    <2>1. "localClose" \notin t.ends /\ ("end" \in t.ends <=> "end" \in s.ends) /\ "localClose" \in s.ends
      BY <1>2, <1>6, SMT DEF ends
    <2>2. l2 = 0 /\ l1 = 1 /\ e1 = e2 /\ e1 \in 0 .. 1
      BY <2>1, SMT DEF One
    <2>3. FinsLeft(d, t) = p2 + e2 + l2 /\ FinsLeft(c, s) = p1 + e1 + l1
      BY DEF FinsLeft
    <2> HIDE DEF e1, e2, l1, l2, p1, p2
    <2>4. FinsLeft(d, t) <= FinsLeft(c, s)
      BY <1>4, <2>2, <2>3, SMT
    <2> QED
      BY <1>2, <2>4 DEF ends, t, d
  <1> QED
    BY <1>5, <1>6

LEMMA SourceEndStep ==
  ASSUME IInv, SourceEnd
  PROVE  After
  <1> DEFINE t == [source EXCEPT !.ends = @ \ {"end"}]
             d == [conn EXCEPT !.pendingFin = TRUE]
  <1>1. /\ Quiet /\ source.left = 0 /\ "end" \in source.ends
        /\ source' = t /\ TrySend(d, q, wake, {}) /\ wsFull' = wsFull
    BY DEF SourceEnd
  <1>2. /\ t \in Source /\ t.kind = source.kind /\ t.left = source.left
        /\ t.ends = source.ends \ {"end"}
        /\ FinsLeft(d, t) <= FinsLeft(conn, source)
    BY <1>1, Parts, EndEvent
  <1>3. /\ d \in Conn /\ SameWindow(conn, d) /\ SameStage(conn, d)
        /\ d.relaySeq = conn.relaySeq /\ d.queued = conn.queued /\ d.paused = conn.paused
        /\ d.pendingFin = TRUE /\ d.finSent = conn.finSent
    BY Parts, PendingFinFields
  <1> HIDE DEF d, t
  <1>4. /\ Gone(t) <=> Gone(source)
        /\ "end" \notin t.ends
    BY <1>2, SMT DEF Gone
  <1>5. ~Gone(source) => ~conn.finSent
    BY <1>1, Parts DEF Stream
  <1>6. Stream(q, d, t)
    BY <1>1, <1>2, <1>3, <1>4, <1>5, Parts, Zenon DEF Stream
  <1>7. t.ends \subseteq source.ends
    BY <1>2
  <1>8. Steady(q, d, t, wake, wsFull) /\ Socket(t) = Socket(source)
    BY <1>2, <1>3, <1>6, <1>7, Parts, SteadySource
  <1>9. ~d.sending
    BY <1>1, <1>3 DEF Quiet, SameStage
  <1> QED
    BY <1>1, <1>8, <1>9, TrySendAfter

LEMMA LocalCloseStep ==
  ASSUME IInv, LocalClose
  PROVE  After
  <1> DEFINE t == [source EXCEPT !.ends = @ \ {"localClose"}]
             d == [conn EXCEPT !.pendingFin = TRUE]
  <1>1. /\ Quiet /\ "localClose" \in source.ends
        /\ source' = t /\ TrySend(d, q, wake, {}) /\ wsFull' = wsFull
    BY DEF LocalClose
  <1>2. /\ t \in Source /\ t.kind = source.kind /\ t.left = source.left
        /\ t.ends = source.ends \ {"localClose"}
        /\ FinsLeft(d, t) <= FinsLeft(conn, source)
    BY <1>1, Parts, EndEvent
  <1>3. /\ d \in Conn /\ SameWindow(conn, d) /\ SameStage(conn, d)
        /\ d.relaySeq = conn.relaySeq /\ d.queued = conn.queued /\ d.paused = conn.paused
        /\ d.finSent = conn.finSent
    BY Parts, PendingFinFields
  <1> HIDE DEF d, t
  <1>4. Gone(t)
    <2>1. source.kind = "forwarded"
      BY <1>1, Parts DEF Stage
    <2> QED
      BY <1>2, <2>1 DEF Gone
  <1>5. Stream(q, d, t)
    BY <1>2, <1>3, <1>4, Parts, Zenon DEF Stream
  <1>6. t.ends \subseteq source.ends
    BY <1>2
  <1>7. Steady(q, d, t, wake, wsFull) /\ Socket(t) = Socket(source)
    BY <1>2, <1>3, <1>5, <1>6, Parts, SteadySource
  <1>8. ~d.sending
    BY <1>1, <1>3 DEF Quiet, SameStage
  <1> QED
    BY <1>1, <1>7, <1>8, TrySendAfter

\* The three ways a connection is aborted.
LEMMA AbortWithStep ==
  ASSUME IInv, Quiet, NEW p, Held(p), p.nxt = q.nxt, AbortWith(p)
  PROVE  After
  <1>1. /\ conn' = InState(conn, "GONE") /\ q' = Close(p) /\ source' = source /\ wsFull' = wsFull
        /\ wake' = [wake EXCEPT !.blocked = FALSE, !.waiting = FALSE] /\ loop' = loop
    BY DEF AbortWith
  <1>2. Stream(p, conn, source)
    BY Parts, Zenon DEF Stream
  <1>3. source.kind # "forwarded" => "localClose" \notin source.ends
    BY Parts DEF Stage
  <1>4. ~conn.sending /\ loop' \in Loop /\ loop'.after = {}
    BY <1>1, Parts DEF Quiet
  <1>5. "GONE" \in {"CLOSED", "GONE"} /\ "GONE" # "CLOSED"
    OBVIOUS
  <1> QED
    BY <1>1, <1>2, <1>3, <1>4, <1>5, Parts, ClosedAfter

LEMMA AbortStep ==
  ASSUME IInv, Abort
  PROVE  After
  BY Parts, AbortWithStep DEF Abort

LEMMA LingerEndsStep ==
  ASSUME IInv, LingerEnds
  PROVE  After
  <1> DEFINE d == InState(conn, "GONE")
  <1>1. /\ Quiet /\ conn.state = "CLOSED" /\ conn' = d
        /\ q' = q /\ source' = source /\ loop' = loop /\ wake' = wake /\ wsFull' = wsFull
    BY DEF LingerEnds
  <1>2. d \in Conn /\ SameStream(conn, d) /\ d.state = "GONE" /\ d.sending = conn.sending
    <2>1. "GONE" \in States
      BY StateSets
    <2> QED
      BY <2>1, Parts, InStateFields
  <1> HIDE DEF d
  <1>3. ~IsOpen(conn) /\ ~IsOpen(d)
    BY <1>1, <1>2 DEF IsOpen
  <1>4. Health(q, d, wake) /\ Stage(q, d, source) /\ Stream(q, d, source)
    BY <1>2, <1>3, Parts, Zenon DEF Health, Stage, Stream, SameStream
  <1>5. Room(q, d, source) /\ Recovery(q, d, source)
    BY <1>3 DEF Room, Recovery
  <1>6. Steady(q, d, source, wake, wsFull)
    BY <1>2, <1>4, <1>5, Parts, Zenon DEF Steady
  <1>7. loop.after = {} /\ ~d.sending
    BY <1>1, <1>2 DEF Quiet
  <1>8. Going(q, d, wake, loop)
    BY <1>3, <1>7, Parts, GoingQuiet
  <1> QED
    BY <1>1, <1>6, <1>8 DEF After

\* A number the VM can acknowledge.
LEMMA AckNumber ==
  ASSUME IInv, NEW ack \in AckChoices
  PROVE  ack \in SeqNumbers
  <1>1. q.una \in Int /\ Outstanding(q) \in Nat
    BY Parts, HeldBounds, SMT DEF SeqNumbers
  <1>2. PICK n \in 0 .. Outstanding(q) : ack = (q.una + n) % SeqSpace
    BY DEF AckChoices
  <1>3. q.una + n \in Int
    BY <1>1, <1>2, SMT
  <1> QED
    BY <1>2, <1>3, ModType

\* Only the timer and what the queue counts have changed.
Unmoved(p, r) == Held(r) /\ SameData(p, r) /\ r.modes = p.modes

LEMMA SteadyUnmoved ==
  ASSUME NEW p, NEW c, NEW s, NEW w, NEW full, Steady(p, c, s, w, full), NEW r, Unmoved(p, r)
  PROVE  /\ Steady(r, c, s, w, full)
         /\ HasOutstanding(r) <=> HasOutstanding(p)
         /\ Answered(r) <=> Answered(p)
  <1>1. r \in Queue /\ TimerFollows(r) /\ SameData(p, r) /\ r.modes = p.modes
    BY DEF Unmoved, Held
  <1>2. (Live(p) => Live(r)) /\ (Persisting(r) <=> Persisting(p))
    BY <1>1, ModesDecide
  <1>3. c.state = "SYN_SENT" => ~Persisting(r)
    BY <1>2 DEF Steady, Stage
  <1>4. HasOutstanding(r) <=> HasOutstanding(p)
    BY <1>1 DEF SameData, HasOutstanding
  <1>5. Steady(r, c, s, w, full)
    BY <1>1, <1>2, <1>3, SteadyQueue
  <1> QED
    BY <1>2, <1>4, <1>5 DEF Answered

LEMMA UnmovedTransitive ==
  ASSUME NEW p, NEW r, NEW t, Unmoved(p, r), Unmoved(r, t)
  PROVE  Unmoved(p, t)
  BY Zenon DEF Unmoved, SameData

LEMMA DuplicateUnmoved ==
  ASSUME NEW p, Held(p), NEW ack \in SeqNumbers, AckStatus(p, ack) = "duplicate"
  PROVE  Unmoved(p, Acknowledge(p, ack))
  BY DuplicateEffect DEF Unmoved

LEMMA FastRetransmitUnmoved ==
  ASSUME NEW p, Held(p)
  PROVE  Unmoved(p, FastRetransmit(p, "sent"))
  <1>1. p \in Queue /\ TimerFollows(p) /\ "sent" \in EmitOutcomes
    BY DEF Held, EmitOutcomes
  <1> DEFINE r == FastRetransmit(p, "sent")
  <1>2. r \in Queue /\ TimerFollows(r) /\ SameData(p, r) /\ r.modes = p.modes
    BY <1>1, FastRetransmitType, FastRetransmitTimer, FastRetransmitSent
  <1> HIDE DEF r
  <1>3. Held(r)
    BY <1>2, SameDataHeld
  <1> QED
    BY <1>2, <1>3 DEF Unmoved, r

LEMMA SteadyWindow ==
  ASSUME NEW p, NEW c, NEW s, NEW w, NEW full, Steady(p, c, s, w, full),
         NEW window \in Nat, window + 3 < Half
  PROVE  LET r == [c EXCEPT !.vmWindow = window]
         IN /\ Steady(p, r, s, w, full) /\ r \in Conn /\ SameStream(c, r) /\ SameStage(c, r)
            /\ r.vmWindow = window /\ r.dupAcks = c.dupAcks
            /\ r.cwnd = c.cwnd /\ r.recovery = c.recovery
  <1> DEFINE r == [c EXCEPT !.vmWindow = window]
  <1>1. c \in Conn
    BY DEF Steady
  <1>2. /\ r \in Conn /\ SameStream(c, r) /\ r.state = c.state /\ r.sending = c.sending
        /\ r.vmWindow = window /\ r.cwnd = c.cwnd /\ r.recovery = c.recovery
        /\ r.dupAcks = c.dupAcks
    BY <1>1, WindowFields DEF SameStage
  <1> HIDE DEF r
  <1>3. IsOpen(r) <=> IsOpen(c)
    BY <1>2 DEF IsOpen
  <1>4. FinsLeft(r, s) = FinsLeft(c, s)
    BY <1>2, Zenon DEF FinsLeft, SameStream
  <1>5. Health(p, r, w) /\ Stage(p, r, s) /\ Stream(p, r, s)
    BY <1>2, <1>3, Zenon DEF Steady, Health, Stage, Stream, SameStream
  <1>6. Room(p, r, s) /\ Recovery(p, r, s)
    BY <1>2, <1>3, <1>4, Zenon DEF Steady, Room, Recovery, Recovering
  <1>7. Steady(p, r, s, w, full)
    BY <1>2, <1>5, <1>6, Zenon DEF Steady
  <1> QED
    BY <1>2, <1>7 DEF SameStage, r

\* A handler that moves neither the queue's data nor the stream, and does not send.
LEMMA QuietAfter ==
  ASSUME IInv, ~conn.sending, NEW d, NEW r, Unmoved(q, r),
         Steady(r, d, source, wake, wsFull), SameStream(conn, d), SameStage(conn, d),
         conn' = d, q' = r, source' = source, wake' = wake, wsFull' = wsFull,
         loop' \in Loop, conn.state \in {"SYN_SENT", "CLOSED", "GONE"} => loop'.after = {}
  PROVE  After
  <1>1. d.state = conn.state /\ ~d.sending /\ (IsOpen(d) <=> IsOpen(conn))
        /\ (Unsent(d) <=> Unsent(conn))
    BY DEF SameStage, IsOpen, SameStream, Unsent
  <1>2. Answered(r) <=> Answered(q)
    BY Parts, SteadyUnmoved
  <1>3. IsOpen(conn) /\ Unsent(conn) => Awake(wake) \/ Answered(q)
    BY Parts DEF Going
  <1>4. IsOpen(d) /\ Unsent(d) => Awake(wake) \/ Answered(r)
    BY <1>1, <1>2, <1>3
  <1>5. Going(r, d, wake, loop')
    BY <1>1, <1>4, GoingQuiet
  <1> QED
    BY <1>5 DEF After

\* Everything is acknowledged and both FINs have been seen.
LEMMA FinishAfter ==
  ASSUME IInv, NEW c, NEW p, Steady(p, c, source, wake, wsFull), IsOpen(c), ~c.sending,
         AllAcknowledged(c, p), Finish(c, p), source' = source, wsFull' = wsFull
  PROVE  After
  <1> DEFINE state == IF Forward THEN "CLOSED" ELSE "GONE"
  <1>1. /\ conn' = InState(c, state) /\ q' = Close(p)
        /\ wake' = [wake EXCEPT !.blocked = FALSE, !.waiting = FALSE]
        /\ loop' = [loop EXCEPT !.after = {}]
    BY DEF Finish
  <1>2. c \in Conn /\ Held(p) /\ Stream(p, c, source)
        /\ (source.kind # "forwarded" => "localClose" \notin source.ends)
    BY DEF Steady, Stage
  <1>3. c.finSent /\ Outstanding(p) = 0
    <2>1. c.finSent /\ ~HasOutstanding(p)
      BY DEF AllAcknowledged
    <2> QED
      BY <2>1, SteadyNumbers
  <1>4. state \in {"CLOSED", "GONE"} /\ (state = "CLOSED" => Socket(source))
    BY DEF Forward, Socket
  <1> HIDE DEF state
  <1>5. loop' \in Loop /\ loop'.after = {}
    <2>1. {} \in SUBSET {"again", "fin"}
      OBVIOUS
    <2> QED
      BY <1>1, <2>1, Parts, Zenon DEF Loop
  <1> QED
    BY <1>1, <1>2, <1>3, <1>4, <1>5, Parts, ClosedAfter

LEMMA UnmovedReflexive ==
  ASSUME NEW p, Held(p)
  PROVE  Unmoved(p, p)
  BY DEF Unmoved, SameData

LEMMA SendAgainStep ==
  ASSUME IInv, SendAgain
  PROVE  After
  <1> DEFINE d == [conn EXCEPT !.dupAcks = 0]
             after == loop.after \ {"again"}
  <1>1. /\ ~conn.sending /\ "again" \in loop.after
        /\ TrySend(d, q, wake, after) /\ source' = source /\ wsFull' = wsFull
    BY DEF SendAgain
  <1>2. d \in Conn /\ Alike(conn, d)
    BY Parts, DupAcksFields, 0 \in 0 .. 2
  <1>3. after \in SUBSET {"again", "fin"}
    BY Parts DEF Loop
  <1>4. conn.state \notin {"SYN_SENT", "CLOSED", "GONE"}
    BY <1>1, Parts DEF Going
  <1> HIDE DEF d, after
  <1>5. SameStream(conn, d) /\ SameWindow(conn, d) /\ d.state = conn.state /\ ~d.sending
    BY <1>1, <1>2 DEF Alike, SameStage
  <1>6. Steady(q, d, source, wake, wsFull)
    BY <1>2, <1>5, Parts, SteadyConn
  <1>7. d.state \in {"SYN_SENT", "CLOSED", "GONE"} => after = {}
    BY <1>4, <1>5
  <1> QED
    BY <1>1, <1>3, <1>5, <1>6, <1>7, TrySendAfter

LEMMA PeerFinStep ==
  ASSUME IInv, PeerFin
  PROVE  After
  <1> DEFINE d == [conn EXCEPT !.peerFin = TRUE, !.state = "CLOSING"]
             l == [loop EXCEPT !.after = {}]
  <1>1. /\ ~conn.sending /\ loop.after = {"fin"} /\ source' = source /\ wsFull' = wsFull
        /\ IF conn.peerFin THEN conn' = conn /\ q' = q /\ wake' = wake /\ loop' = l
           ELSE IF AllAcknowledged(d, q) THEN Finish(d, q)
           ELSE conn' = d /\ loop' = l /\ q' = q /\ wake' = wake
    BY DEF PeerFin
  <1>2. /\ d \in Conn /\ SameStream(conn, d) /\ SameWindow(conn, d)
        /\ d.state = "CLOSING" /\ d.sending = conn.sending
    BY Parts, PeerFinFields
  <1>3. l \in Loop /\ l.after = {}
    <2>1. {} \in SUBSET {"again", "fin"}
      OBVIOUS
    <2> QED
      BY <2>1, Parts, Zenon DEF Loop
  <1> HIDE DEF d, l
  <1>4. conn.state \notin {"SYN_SENT", "CLOSED", "GONE"}
    BY <1>1, Parts DEF Going
  <1>5. IsOpen(conn) /\ IsOpen(d) /\ d.state \notin {"SYN_SENT", "CLOSED", "GONE"}
    BY <1>2, <1>4, SMT DEF IsOpen
  <1>6. FinsLeft(d, source) = FinsLeft(conn, source)
    BY <1>2, Zenon DEF FinsLeft, SameStream
  <1>7. Health(q, d, wake) /\ Stage(q, d, source) /\ Stream(q, d, source)
    <2>1. Health(q, d, wake)
      BY <1>5, Parts DEF Health
    <2>2. Stage(q, d, source)
      BY <1>5, Parts DEF Stage
    <2>3. Stream(q, d, source)
      BY <1>2, Parts, Zenon DEF Stream, SameStream
    <2> QED
      BY <2>1, <2>2, <2>3
  <1>8. Room(q, d, source)
    <2>1. conn.vmWindow + 3 < Half /\ conn.cwnd > 0 /\ q.inFlight + 3 < Half
          /\ FlagsOut(q) + FinsLeft(conn, source) <= 3
      BY <1>4, <1>5, Parts DEF Room
    <2> QED
      BY <1>2, <1>6, <2>1 DEF Room, SameWindow
  <1>9. Recovery(q, d, source)
    BY <1>2, <1>5, <1>6, Parts, Zenon DEF Steady, Recovery, Recovering, SameWindow
  <1>10. Steady(q, d, source, wake, wsFull)
    BY <1>2, <1>7, <1>8, <1>9, Parts, Zenon DEF Steady
  <1>11. (Unsent(d) <=> Unsent(conn)) /\ ~d.sending
    BY <1>1, <1>2 DEF Unsent, SameStream
  <1>12. Unsent(conn) => Awake(wake) \/ Answered(q)
    BY <1>1, <1>5, Parts DEF Going
  <1>13. CASE conn.peerFin
    <2>1. Going(q, conn, wake, l)
      BY <1>1, <1>3, <1>12, GoingQuiet
    <2> QED
      BY <1>1, <1>13, <2>1, Parts DEF After
  <1>14. CASE ~conn.peerFin /\ AllAcknowledged(d, q)
    BY <1>1, <1>5, <1>10, <1>11, <1>14, FinishAfter
  <1>15. CASE ~conn.peerFin /\ ~AllAcknowledged(d, q)
    <2>1. Going(q, d, wake, l)
      BY <1>3, <1>11, <1>12, GoingQuiet
    <2> QED
      BY <1>1, <1>10, <1>15, <2>1 DEF After
  <1> QED
    BY <1>13, <1>14, <1>15

LEMMA SynAgainStep ==
  ASSUME IInv, SynAgain
  PROVE  After
  <1> DEFINE r == FastRetransmit(q, "sent")
             d == CongestionLoss(conn, "fast")
  <1>1. /\ Quiet /\ q' = r /\ conn' = (IF Persisting(q) THEN conn ELSE d)
        /\ source' = source /\ loop' = loop /\ wake' = wake /\ wsFull' = wsFull
    BY DEF SynAgain
  <1>2. Unmoved(q, r)
    BY Parts, FastRetransmitUnmoved
  <1>3. Steady(q, d, source, wake, wsFull)
    BY Parts, SteadyLoss
  <1>4. SameStream(conn, d) /\ SameStage(conn, d)
    <2>1. q.inFlight \in Int /\ q.una \in SeqNumbers /\ q.nxt \in SeqNumbers
      BY Parts, HeldBounds
    <2> QED
      BY <2>1, Parts, CongestionLossFields
  <1> HIDE DEF r, d
  <1>5. Steady(r, d, source, wake, wsFull) /\ Steady(r, conn, source, wake, wsFull)
    BY <1>2, <1>3, Parts, SteadyUnmoved
  <1>6. SameStream(conn, conn) /\ SameStage(conn, conn)
    BY DEF SameStream, SameStage
  <1>7. ~conn.sending /\ loop' \in Loop /\ loop'.after = {}
    BY <1>1, Parts DEF Quiet
  <1>8. CASE Persisting(q)
    <2>1. conn' = conn
      BY <1>1, <1>8
    <2> QED
      BY <1>1, <1>2, <1>5, <1>6, <1>7, <2>1, QuietAfter
  <1>9. CASE ~Persisting(q)
    <2>1. conn' = d
      BY <1>1, <1>9
    <2> QED
      BY <1>1, <1>2, <1>4, <1>5, <1>7, <2>1, QuietAfter
  <1> QED
    BY <1>8, <1>9

LEMMA WebsocketFillsStep ==
  ASSUME IInv, WebsocketFills
  PROVE  After
  <1>1. /\ wsFull' = TRUE /\ q' = q /\ conn' = conn /\ source' = source
        /\ loop' = loop /\ wake' = wake
    BY DEF WebsocketFills
  <1>2. Rewoken(conn, wake, wake, TRUE)
    BY Parts DEF Rewoken
  <1>3. Steady(q, conn, source, wake, TRUE)
    BY <1>2, Parts, SteadyWake
  <1> QED
    BY <1>1, <1>3, Parts DEF After

LEMMA WebsocketDrainsStep ==
  ASSUME IInv, WebsocketDrains
  PROVE  After
  <1> DEFINE n == OneMore(wake.immediates)
             v == [wake EXCEPT !.waiting = FALSE, !.immediates = n]
  <1>1. /\ Quiet /\ wsFull' = FALSE /\ q' = q /\ conn' = conn /\ source' = source /\ loop' = loop
        /\ wake' = IF wake.waiting THEN v ELSE wake
    BY DEF WebsocketDrains
  <1>2. n \in 0 .. MaxPending /\ n > 0
    BY Parts, WakeFields, OneMoreType
  <1> HIDE DEF n
  <1>3. /\ v \in Wake /\ v.blocked = wake.blocked /\ ~v.waiting
        /\ v.immediates = n /\ v.rateTimers = wake.rateTimers
    BY <1>2, Parts, Zenon DEF Wake
  <1> HIDE DEF v
  <1>4. /\ wake' \in Wake /\ wake'.blocked = wake.blocked /\ ~wake'.waiting
        /\ Awake(wake) => Awake(wake')
    <2>1. CASE wake.waiting
      BY <1>1, <1>2, <1>3, <2>1 DEF Awake
    <2>2. CASE ~wake.waiting
      BY <1>1, <2>2, Parts DEF Awake
    <2> QED
      BY <2>1, <2>2
  <1>5. Rewoken(conn, wake, wake', FALSE)
    BY <1>4 DEF Rewoken
  <1>6. Steady(q, conn, source, wake', FALSE)
    BY <1>5, Parts, SteadyWake
  <1>7. ~conn.sending /\ loop.after = {}
    BY <1>1 DEF Quiet
  <1>8. IsOpen(conn) /\ Unsent(conn) => Awake(wake') \/ Answered(q)
    BY <1>4, <1>7, Parts DEF Going
  <1>9. Going(q, conn, wake', loop)
    BY <1>7, <1>8, Parts, GoingQuiet
  <1> QED
    BY <1>1, <1>6, <1>9 DEF After

\* The window of a segment, unless it is older than the one that set the last.
LEMMA UpdatedWindow ==
  ASSUME IInv, NEW window \in VmWindows, NEW older \in BOOLEAN,
         conn.state = "SYN_SENT" => Forward
  PROVE  LET r == [conn EXCEPT !.vmWindow = IF older THEN @ ELSE window]
         IN /\ r \in Conn /\ SameStream(conn, r) /\ SameStage(conn, r)
            /\ r.cwnd = conn.cwnd /\ r.recovery = conn.recovery /\ r.dupAcks = conn.dupAcks
            /\ Steady(q, r, source, wake, wsFull)
            /\ IsOpen(conn) => r.vmWindow + 3 < Half /\ r.cwnd > 0
  <1> DEFINE new == IF older THEN conn.vmWindow ELSE window
             r == [conn EXCEPT !.vmWindow = new]
  <1>1. conn \in Conn /\ conn.vmWindow \in Nat /\ window \in Nat /\ window + 3 < Half
    BY Parts, ConnFields, Constants
  <1>2. new \in Nat
    BY <1>1
  <1>3. IsOpen(conn) => conn.vmWindow + 3 < Half /\ conn.cwnd > 0
    <2>1. Socket(source) \/ conn.state # "SYN_SENT"
      BY DEF Forward, Socket
    <2> QED
      BY <2>1, Parts DEF Room
  <1>4. IsOpen(conn) => new + 3 < Half
    BY <1>1, <1>3
  <1>5. [conn EXCEPT !.vmWindow = IF older THEN @ ELSE window] = r
    OBVIOUS
  <1>6. CASE older
    <2>1. new = conn.vmWindow
      BY <1>6
    <2> HIDE DEF new
    <2>2. /\ r \in Conn /\ SameStream(conn, r) /\ SameStage(conn, r)
          /\ r.vmWindow = new /\ r.cwnd = conn.cwnd /\ r.recovery = conn.recovery
          /\ r.dupAcks = conn.dupAcks
      BY <1>1, <1>2, WindowFields
    <2> HIDE DEF r
    <2>3. SameWindow(conn, r) /\ r.state = conn.state
      BY <2>1, <2>2 DEF SameWindow, SameStage
    <2>4. Steady(q, r, source, wake, wsFull)
      BY <2>2, <2>3, Parts, SteadyConn
    <2> QED
      BY <1>3, <1>4, <1>5, <2>2, <2>4
  <1>7. CASE ~older
    <2>1. new = window /\ new + 3 < Half
      BY <1>1, <1>7
    <2> HIDE DEF new
    <2>2. /\ Steady(q, r, source, wake, wsFull) /\ r \in Conn
          /\ SameStream(conn, r) /\ SameStage(conn, r)
          /\ r.vmWindow = new /\ r.cwnd = conn.cwnd /\ r.recovery = conn.recovery
          /\ r.dupAcks = conn.dupAcks
      BY <1>2, <2>1, Parts, SteadyWindow
    <2> HIDE DEF r
    <2> QED
      BY <1>3, <1>4, <1>5, <2>2
  <1> QED
    BY <1>6, <1>7

\* An acknowledgement that advances: the handshake is over, and the congestion window
\* and the recovery are told of the payload it covers.
LEMMA AdvancedSteady ==
  ASSUME IInv, NEW ack \in SeqNumbers, AckStatus(q, ack) = "advanced", IsOpen(conn),
         NEW u \in Conn, SameStream(conn, u), SameStage(conn, u), u.vmWindow + 3 < Half,
         u.cwnd > 0, u.recovery = conn.recovery,
         NEW base \in Conn, Alike(u, base),
         NEW r, r = Acknowledge(q, ack),
         NEW credited, credited = CongestionAck(base, r, q.inFlight - r.inFlight, ack),
         NEW opened,
         opened = IF conn.state = "SYN_SENT" THEN [credited EXCEPT !.state = "ESTABLISHED"]
                  ELSE credited
  PROVE  /\ Steady(r, opened, source, wake, wsFull)
         /\ opened.state \in Established /\ IsOpen(opened)
         /\ opened.sending = conn.sending
  <1>1. Held(q) /\ ~Closed(q) /\ Steady(q, conn, source, wake, wsFull) /\ conn \in Conn
    BY Parts, SteadyNumbers
  <1>2. PICK a \in Nat : Shrunk(q, r, a)
    BY <1>1, AcknowledgeShrinks
  <1>3. r.una = ack
    BY <1>1, AcknowledgeShrinks
  <1>4. r.inFlight \in Int /\ q.inFlight \in Int /\ r.una \in SeqNumbers
    BY <1>1, <1>2, HeldBounds DEF Shrunk
  <1>5. q.inFlight - r.inFlight \in Int
    BY <1>4, SMT
  <1>6. /\ credited \in Conn /\ SameStream(base, credited) /\ SameStage(base, credited)
        /\ credited.vmWindow = base.vmWindow
        /\ base.cwnd > 0 => credited.cwnd > 0
        /\ credited.recovery \in {base.recovery, None}
        /\ credited.recovery # None => q.inFlight - r.inFlight = 0 \/ ~Recovered(base, ack)
    <2> DEFINE acked == q.inFlight - r.inFlight
               e == CongestionAck(base, r, acked, ack)
    <2>1. acked \in Int /\ credited = e
      BY <1>5
    <2> HIDE DEF acked
    <2>2. /\ e \in Conn /\ SameStream(base, e) /\ SameStage(base, e) /\ e.vmWindow = base.vmWindow
          /\ base.cwnd > 0 => e.cwnd > 0
          /\ e.recovery \in {base.recovery, None}
          /\ e.recovery # None => acked = 0 \/ ~Recovered(base, ack)
      BY <1>4, <2>1, CongestionAckFields
    <2> HIDE DEF e
    <2> QED
      BY <2>1, <2>2 DEF acked
  <1>7. /\ SameStream(conn, credited) /\ credited.state = conn.state
        /\ credited.sending = conn.sending /\ credited.vmWindow + 3 < Half
        /\ credited.cwnd > 0 /\ credited.recovery \in {conn.recovery, None}
        /\ credited.recovery # None => r.inFlight = q.inFlight \/ ~Recovered(conn, r.una)
    <2>1. base.recovery = conn.recovery /\ base.cwnd = u.cwnd /\ base.vmWindow = u.vmWindow
      BY DEF Alike, SameWindow
    <2>2. SameStream(conn, credited) /\ credited.state = conn.state
          /\ credited.sending = conn.sending
      BY <1>6, Zenon DEF Alike, SameStream, SameStage
    <2>3. Recovered(base, ack) <=> Recovered(conn, r.una)
      BY <1>3, <2>1 DEF Recovered
    <2>4. q.inFlight - r.inFlight = 0 => r.inFlight = q.inFlight
      BY <1>4, SMT
    <2> QED
      BY <1>6, <2>1, <2>2, <2>3, <2>4
  <1>8. /\ opened \in Conn /\ SameStream(credited, opened) /\ SameWindow(credited, opened)
        /\ opened.sending = credited.sending /\ opened.state \in Established
    <2>1. CASE conn.state = "SYN_SENT"
      <3> DEFINE e == InState(credited, "ESTABLISHED")
      <3>1. opened = e
        BY <2>1 DEF InState
      <3>2. "ESTABLISHED" \in States /\ "ESTABLISHED" \in Established
        BY StateSets
      <3>3. e \in Conn /\ SameStream(credited, e) /\ SameWindow(credited, e)
            /\ e.state = "ESTABLISHED" /\ e.sending = credited.sending
        BY <1>6, <3>2, InStateFields
      <3> HIDE DEF e
      <3> QED
        BY <3>1, <3>2, <3>3
    <2>2. CASE conn.state # "SYN_SENT"
      <3>1. conn.state \in Established
        BY <1>1, <2>2, ConnFields, StateSets, SMT DEF IsOpen
      <3> QED
        BY <1>6, <1>7, <2>2, <3>1 DEF SameStream, SameWindow
    <2> QED
      BY <2>1, <2>2
  <1>9. /\ SameStream(conn, opened) /\ opened.vmWindow + 3 < Half /\ opened.cwnd > 0
        /\ opened.recovery \in {conn.recovery, None}
        /\ opened.recovery # None => r.inFlight = q.inFlight \/ ~Recovered(conn, r.una)
    <2>1. SameStream(conn, opened)
      BY <1>7, <1>8, Zenon DEF SameStream
    <2>2. /\ opened.vmWindow = credited.vmWindow /\ opened.cwnd = credited.cwnd
          /\ opened.recovery = credited.recovery
      BY <1>8 DEF SameWindow
    <2> QED
      BY <1>7, <2>1, <2>2
  <1>10. Steady(r, opened, source, wake, wsFull)
    BY <1>1, <1>2, <1>8, <1>9, SteadyAck
  <1>11. IsOpen(opened)
    BY <1>8, StateSets, SMT DEF IsOpen
  <1> QED
    BY <1>7, <1>8, <1>10, <1>11

\* A duplicate acknowledgement counts, or resends the head of the queue.
LEMMA DuplicateAcknowledgementStep ==
  ASSUME IInv, Quiet, NEW c, NEW p, Unmoved(q, p), Steady(q, c, source, wake, wsFull),
         SameStream(conn, c), SameStage(conn, c),
         NEW ack, DuplicateAcknowledgement(c, p, ack),
         source' = source, wake' = wake, wsFull' = wsFull, loop' \in Loop,
         conn.state \in {"SYN_SENT", "CLOSED", "GONE"} => loop'.after = {}
  PROVE  After
  <1> DEFINE d == CongestionLoss(c, "fast")
             base == IF Persisting(p) THEN c ELSE d
             r == FastRetransmit(p, "sent")
             n == c.dupAcks + 1
  <1>1. c \in Conn /\ ~conn.sending /\ Held(p)
    BY DEF Steady, Quiet, Unmoved
  <1>2. /\ d \in Conn /\ SameStream(c, d) /\ SameStage(c, d)
        /\ Steady(q, d, source, wake, wsFull)
    <2>1. q.inFlight \in Int /\ q.una \in SeqNumbers /\ q.nxt \in SeqNumbers
      BY Parts, HeldBounds
    <2>2. d \in Conn /\ SameStream(c, d) /\ SameStage(c, d)
      BY <1>1, <2>1, CongestionLossFields
    <2>3. Steady(q, d, source, wake, wsFull)
      BY SteadyLoss
    <2> HIDE DEF d
    <2> QED
      BY <2>2, <2>3
  <1> HIDE DEF d
  <1>3. /\ base \in Conn /\ SameStream(c, base) /\ SameStage(c, base)
        /\ Steady(q, base, source, wake, wsFull)
    <2>1. SameStream(c, c) /\ SameStage(c, c)
      BY DEF SameStream, SameStage
    <2> QED
      BY <1>1, <1>2, <2>1
  <1> HIDE DEF base
  <1>4. Unmoved(q, r)
    <2>1. Unmoved(p, r)
      BY <1>1, FastRetransmitUnmoved
    <2> HIDE DEF r
    <2> QED
      BY <2>1, UnmovedTransitive
  <1>5. \/ c.dupAcks < 2 /\ conn' = [c EXCEPT !.dupAcks = n] /\ q' = p
        \/ conn' = [c EXCEPT !.dupAcks = 0] /\ q' = p
        \/ conn' = [base EXCEPT !.dupAcks = 0] /\ q' = r
    BY Zenon DEF DuplicateAcknowledgement, base, d
  <1> HIDE DEF r
  <1>6. ASSUME NEW e \in Conn, SameStream(c, e), SameStage(c, e),
               Steady(q, e, source, wake, wsFull),
               NEW m \in 0 .. 2, conn' = [e EXCEPT !.dupAcks = m],
               NEW t, Unmoved(q, t), q' = t
        PROVE  After
    <2> DEFINE f == [e EXCEPT !.dupAcks = m]
    <2>1. f \in Conn /\ Alike(e, f)
      BY <1>6, DupAcksFields
    <2>2. conn' = f
      BY <1>6
    <2> HIDE DEF f
    <2>3. SameStream(e, f) /\ SameWindow(e, f) /\ f.state = e.state /\ f.sending = e.sending
      BY <2>1 DEF Alike, SameStage
    <2>4. Steady(q, f, source, wake, wsFull)
      BY <1>6, <2>1, <2>3, SteadyConn
    <2>5. Steady(t, f, source, wake, wsFull)
      BY <1>6, <2>4, SteadyUnmoved
    <2>6. SameStream(conn, f) /\ SameStage(conn, f)
      BY <1>6, <2>3, Zenon DEF SameStream, SameStage
    <2> QED
      BY <1>1, <1>6, <2>2, <2>5, <2>6, QuietAfter
  <1>7. SameStream(c, c) /\ SameStage(c, c)
    BY DEF SameStream, SameStage
  <1>8. CASE c.dupAcks < 2 /\ conn' = [c EXCEPT !.dupAcks = n] /\ q' = p
    <2>1. n \in 0 .. 2
      <3>1. c.dupAcks \in 0 .. 2
        BY <1>1, ConnFields
      <3> QED
        BY <1>8, <3>1, SMT
    <2> HIDE DEF n
    <2> QED
      BY <1>1, <1>6, <1>7, <1>8, <2>1
  <1>9. 0 \in 0 .. 2
    BY SMT
  <1>10. CASE conn' = [c EXCEPT !.dupAcks = 0] /\ q' = p
    BY <1>1, <1>6, <1>7, <1>9, <1>10
  <1>11. CASE conn' = [base EXCEPT !.dupAcks = 0] /\ q' = r
    BY <1>3, <1>4, <1>6, <1>9, <1>11
  <1> QED
    BY <1>5, <1>8, <1>10, <1>11

LEMMA VmSegmentStep ==
  ASSUME IInv, NEW ack \in AckChoices, NEW window \in VmWindows,
         NEW kind \in {"pure", "data", "fin"}, NEW older \in BOOLEAN,
         VmSegment(ack, window, kind, older)
  PROVE  After
  <1> DEFINE status == AckStatus(q, ack)
             acked == Acknowledge(q, ack)
             changed == ~older /\ conn.vmWindow # window
             updated == [conn EXCEPT !.vmWindow = IF older THEN @ ELSE window]
             fin == IF kind = "fin" THEN {"fin"} ELSE {}
             again == IF changed /\ ~Forward THEN {"again"} ELSE {}
             base == [updated EXCEPT !.dupAcks = 0, !.fastAck = None]
             credited == CongestionAck(base, acked, q.inFlight - acked.inFlight, ack)
             opened == IF conn.state = "SYN_SENT" THEN [credited EXCEPT !.state = "ESTABLISHED"]
                       ELSE credited
             after == IF conn.state \in Established THEN fin ELSE {}
             first == /\ status = "advanced"
                      /\ IF AllAcknowledged(opened, acked) THEN Finish(opened, acked)
                         ELSE TrySend(opened, acked, wake, fin \cup again)
             second == /\ status = "duplicate"
                       /\ changed /\ conn.state \in Established
                       /\ IF Forward /\ AllAcknowledged(updated, acked) THEN Finish(updated, acked)
                          ELSE TrySend([updated EXCEPT !.dupAcks = 0], acked, wake, fin)
             third == /\ status = "duplicate"
                      /\ loop' = [loop EXCEPT !.after = after]
                      /\ \/ DuplicateAcknowledgement(updated, acked, ack)
                         \/ conn' = updated /\ q' = acked
                      /\ wake' = wake
  <1>1. /\ Quiet /\ conn.state \in (IF Forward THEN States \ {"GONE"} ELSE Established)
        /\ source' = source /\ wsFull' = wsFull
    BY Zenon DEF VmSegment
  <1>2. first \/ second \/ third
    BY Zenon DEF VmSegment
  <1>3. ack \in SeqNumbers
    BY AckNumber
  <1>4. (conn.state = "SYN_SENT" => Forward) /\ conn.state # "GONE"
    BY <1>1, StateSets, SMT
  <1>5. /\ updated \in Conn /\ SameStream(conn, updated) /\ SameStage(conn, updated)
        /\ updated.cwnd = conn.cwnd /\ updated.recovery = conn.recovery
        /\ updated.dupAcks = conn.dupAcks
        /\ Steady(q, updated, source, wake, wsFull)
        /\ IsOpen(conn) => updated.vmWindow + 3 < Half /\ updated.cwnd > 0
    BY <1>4, UpdatedWindow
  <1> HIDE DEF updated
  <1>6. ~conn.sending /\ ~updated.sending /\ updated.state = conn.state
    BY <1>1, <1>5 DEF Quiet, SameStage
  <1>7. fin \in SUBSET {"again", "fin"} /\ fin \cup again \in SUBSET {"again", "fin"}
    OBVIOUS
  <1> HIDE DEF fin, again, changed
  <1>8. CASE first
    <2>1. status = "advanced"
      BY <1>8
    <2>2. IsOpen(conn)
      <3>1. Outstanding(q) # 0
        <4>1. SequenceDistance(ack, q.una) # 0 /\ ~(SequenceDistance(ack, q.una) > Outstanding(q))
          BY <2>1, Zenon DEF AckStatus
        <4>2. SequenceDistance(ack, q.una) \in Nat /\ Outstanding(q) \in Nat
          <5>1. SequenceDistance(ack, q.una) \in SeqNumbers /\ Outstanding(q) \in Nat
            BY <1>3, Parts, HeldBounds, DistanceType
          <5> QED
            BY <5>1, SMT DEF SeqNumbers
        <4> QED
          BY <4>1, <4>2, SMT
      <3> QED
        BY <1>4, <3>1, Parts DEF Stage, IsOpen
    <2>3. base \in Conn /\ Alike(updated, base)
      <3>1. 0 \in 0 .. 2 /\ None \in SeqNumbers \cup {None}
        BY SMT
      <3> QED
        BY <1>5, <3>1, Zenon DEF Conn, Alike, SameStream, SameWindow, SameStage
    <2> HIDE DEF base
    <2>4. /\ Steady(acked, opened, source, wake, wsFull)
          /\ opened.state \in Established /\ IsOpen(opened) /\ opened.sending = conn.sending
      <3>1. updated.vmWindow + 3 < Half /\ updated.cwnd > 0
        BY <1>5, <2>2
      <3> DEFINE r == acked
                 e == credited
                 o == opened
      <3>2. r = Acknowledge(q, ack) /\ e = CongestionAck(base, r, q.inFlight - r.inFlight, ack)
            /\ o = IF conn.state = "SYN_SENT" THEN [e EXCEPT !.state = "ESTABLISHED"] ELSE e
        OBVIOUS
      <3> HIDE DEF r, e, o
      <3>3. /\ Steady(r, o, source, wake, wsFull)
            /\ o.state \in Established /\ IsOpen(o) /\ o.sending = conn.sending
        BY <1>3, <1>5, <2>1, <2>2, <2>3, <3>1, <3>2, AdvancedSteady
      <3> QED
        BY <3>3 DEF r, e, o
    <2> HIDE DEF opened, acked
    <2>5. CASE AllAcknowledged(opened, acked)
      <3>1. Finish(opened, acked)
        BY <1>8, <2>5
      <3> QED
        BY <1>1, <1>6, <2>4, <2>5, <3>1, FinishAfter
    <2>6. CASE ~AllAcknowledged(opened, acked)
      <3>1. TrySend(opened, acked, wake, fin \cup again)
        BY <1>8, <2>6
      <3>2. opened.state \notin {"SYN_SENT", "CLOSED", "GONE"}
        BY <2>4, StateSets, SMT
      <3> DEFINE all == fin \cup again
      <3>3. all \in SUBSET {"again", "fin"} /\ TrySend(opened, acked, wake, all)
        BY <1>7, <3>1
      <3> HIDE DEF all
      <3> QED
        BY <1>1, <1>6, <2>4, <3>2, <3>3, TrySendAfter
    <2> QED
      BY <2>5, <2>6
  <1>9. CASE second
    <2>1. status = "duplicate" /\ conn.state \in Established
      BY <1>9
    <2>2. Unmoved(q, acked)
      BY <1>3, <2>1, Parts, DuplicateUnmoved
    <2> HIDE DEF acked
    <2>3. Steady(acked, updated, source, wake, wsFull)
      BY <1>5, <2>2, SteadyUnmoved
    <2>4. updated.state \notin {"SYN_SENT", "CLOSED", "GONE"} /\ IsOpen(updated)
      BY <1>6, <2>1, StateSets, SMT DEF IsOpen
    <2>5. CASE Forward /\ AllAcknowledged(updated, acked)
      <3>1. Finish(updated, acked)
        BY <1>9, <2>5
      <3> QED
        BY <1>1, <1>6, <2>3, <2>4, <2>5, <3>1, FinishAfter
    <2>6. CASE ~(Forward /\ AllAcknowledged(updated, acked))
      <3> DEFINE d == [updated EXCEPT !.dupAcks = 0]
      <3>1. TrySend(d, acked, wake, fin)
        BY <1>9, <2>6
      <3>2. d \in Conn /\ Alike(updated, d)
        BY <1>5, DupAcksFields, 0 \in 0 .. 2
      <3> HIDE DEF d
      <3>3. /\ SameStream(updated, d) /\ SameWindow(updated, d)
            /\ d.state = updated.state /\ ~d.sending
        BY <1>6, <3>2 DEF Alike, SameStage
      <3>4. Steady(acked, d, source, wake, wsFull)
        BY <2>3, <3>2, <3>3, SteadyConn
      <3> QED
        BY <1>1, <1>7, <2>4, <3>1, <3>3, <3>4, TrySendAfter
    <2> QED
      BY <2>5, <2>6
  <1>10. CASE third
    <2>1. status = "duplicate"
      BY <1>10
    <2>2. Unmoved(q, acked)
      BY <1>3, <2>1, Parts, DuplicateUnmoved
    <2> HIDE DEF acked
    <2>3. loop' \in Loop /\ loop'.after = after
      <3>1. after \in SUBSET {"again", "fin"}
        BY <1>7
      <3> HIDE DEF after
      <3>2. loop' = [loop EXCEPT !.after = after]
        BY <1>10
      <3> QED
        BY <3>1, <3>2, Parts, Zenon DEF Loop
    <2>4. conn.state \in {"SYN_SENT", "CLOSED", "GONE"} => loop'.after = {}
      BY <2>3, StateSets, SMT
    <2>5. CASE DuplicateAcknowledgement(updated, acked, ack)
      BY <1>1, <1>5, <1>10, <2>2, <2>3, <2>4, <2>5, DuplicateAcknowledgementStep
    <2>6. CASE conn' = updated /\ q' = acked
      <3>1. Steady(acked, updated, source, wake, wsFull)
        BY <1>5, <2>2, SteadyUnmoved
      <3> QED
        BY <1>1, <1>5, <1>6, <1>10, <2>2, <2>3, <2>4, <2>6, <3>1, QuietAfter
    <2> QED
      BY <1>10, <2>5, <2>6
  <1> QED
    BY <1>2, <1>8, <1>9, <1>10

LEMMA SynAckStep ==
  ASSUME IInv, NEW ack \in AckChoices, NEW window \in VmWindows, SynAck(ack, window)
  PROVE  After
  <1> DEFINE r == Acknowledge(q, ack)
             d == [conn EXCEPT !.state = "ESTABLISHED", !.vmWindow = window]
             opens == AckStatus(q, ack) = "advanced" /\ ~HasOutstanding(r)
  <1>1. /\ Quiet /\ ~Forward /\ conn.state = "SYN_SENT" /\ source' = source /\ wsFull' = wsFull
        /\ IF opens THEN TrySend(d, r, wake, {})
           ELSE q' = r /\ conn' = conn /\ loop' = loop /\ wake' = wake
    BY Zenon DEF SynAck
  <1>2. ack \in SeqNumbers /\ Held(q) /\ Steady(q, conn, source, wake, wsFull)
    BY AckNumber, Parts
  <1>3. IsOpen(conn) /\ ~conn.sending /\ loop.after = {}
    BY <1>1 DEF IsOpen, Quiet
  <1>4. Outstanding(q) = 1 /\ q.inFlight = 0 /\ ~Closed(q) /\ conn.cwnd > 0
    BY <1>1, <1>3, Parts, SteadyNumbers DEF Stage, Room
  <1> DEFINE advanced == AckStatus(q, ack) = "advanced"
  <1>5. ASSUME advanced
        PROVE  /\ \E a \in Nat : Shrunk(q, r, a)
               /\ r.inFlight = q.inFlight /\ ~HasOutstanding(r)
    <2>1. PICK a \in Nat : Shrunk(q, r, a)
      BY <1>2, <1>4, <1>5, AcknowledgeShrinks
    <2> HIDE DEF r
    <2>2. Held(r) /\ r.modes = q.modes /\ r.inFlight <= 0 /\ Outstanding(r) = 1 - a /\ a \in 1 .. 1
      BY <1>4, <2>1 DEF Shrunk
    <2>3. ~Closed(r)
      BY <1>4, <2>2, ModesDecide
    <2>4. r.inFlight \in 0 .. Outstanding(r) /\ Outstanding(r) \in Nat /\ r.inFlight \in Int
          /\ (HasOutstanding(r) <=> Outstanding(r) # 0)
      BY <2>2, <2>3, HeldBounds
    <2>5. Outstanding(r) = 0
      BY <2>2, SMT
    <2>6. r.inFlight = 0
      BY <2>2, <2>4, SMT
    <2> QED
      BY <1>4, <2>1, <2>4, <2>5, <2>6
  <1>6. CASE advanced
    <2>1. opens
      BY <1>5, <1>6
    <2>2. TrySend(d, r, wake, {})
      BY <1>1, <2>1
    <2>3. window \in Nat /\ window + 3 < Half
      BY Constants
    <2>4. /\ d \in Conn /\ SameStream(conn, d)
          /\ d.state = "ESTABLISHED" /\ d.sending = conn.sending
          /\ d.vmWindow = window /\ d.cwnd = conn.cwnd /\ d.recovery = conn.recovery
      BY <2>3, Parts, EstablishedFields
    <2> HIDE DEF d
    <2>5. PICK a \in Nat : Shrunk(q, r, a)
      BY <1>5, <1>6
    <2>6. r.inFlight = q.inFlight
      BY <1>5, <1>6
    <2> HIDE DEF r
    <2>7. d.state \in Established /\ d.state \notin {"SYN_SENT", "CLOSED", "GONE"}
      BY <2>4, StateSets, SMT
    <2>8. d.vmWindow + 3 < Half /\ d.cwnd > 0 /\ d.recovery \in {conn.recovery, None}
      BY <1>4, <2>3, <2>4
    <2>9. Steady(r, d, source, wake, wsFull)
      BY <1>2, <1>3, <2>4, <2>5, <2>6, <2>7, <2>8, SteadyAck
    <2>10. ~d.sending /\ {} \in SUBSET {"again", "fin"}
      BY <1>3, <2>4
    <2> QED
      BY <1>1, <2>2, <2>7, <2>9, <2>10, TrySendAfter
  <1>7. CASE ~advanced
    <2>1. ~opens
      BY <1>7
    <2>2. q' = r /\ conn' = conn /\ loop' = loop /\ wake' = wake
      BY <1>1, <2>1
    <2>3. Unmoved(q, r)
      <3>1. CASE AckStatus(q, ack) = "duplicate"
        BY <1>2, <3>1, DuplicateUnmoved
      <3>2. CASE AckStatus(q, ack) # "duplicate"
        <4>1. r = q
          BY <1>7, <3>2, Zenon DEF Acknowledge
        <4> QED
          BY <1>2, <4>1, UnmovedReflexive
      <3> QED
        BY <3>1, <3>2
    <2> HIDE DEF r
    <2>4. Steady(r, conn, source, wake, wsFull)
      BY <1>2, <2>3, SteadyUnmoved
    <2>5. SameStream(conn, conn) /\ SameStage(conn, conn)
      BY DEF SameStream, SameStage
    <2>6. loop' \in Loop /\ loop'.after = {}
      BY <1>3, <2>2, Parts
    <2> QED
      BY <1>1, <1>3, <2>2, <2>3, <2>4, <2>5, <2>6, QuietAfter
  <1> QED
    BY <1>6, <1>7

\* What the timer may do to the connection.
LEMMA ProbeOutcomeType ==
  /\ ProbeOutcome \in {"sent", "refused", "byte", "fin"}
  /\ ProbeOutcome \in TimeoutOutcomes(q)
  /\ ProbeOutcome \in {"byte", "fin"} => Persisting(q) /\ ~HasOutstanding(q)
  /\ ProbeOutcome = "byte" => conn.queued > 0
  /\ ProbeOutcome = "fin" => ~(conn.queued > 0) /\ conn.pendingFin
  <1>1. CASE ~Persisting(q)
    BY <1>1, SMT DEF ProbeOutcome, TimeoutOutcomes, EmitOutcomes
  <1>2. CASE Persisting(q) /\ (wsFull \/ HasOutstanding(q))
    <2>1. ProbeOutcome \in {"sent", "refused"}
      BY <1>2 DEF ProbeOutcome
    <2>2. {"sent", "refused"} \subseteq TimeoutOutcomes(q)
      BY <1>2 DEF TimeoutOutcomes, ProbeOutcomes
    <2> QED
      BY <2>1, <2>2, SMT
  <1>3. CASE Persisting(q) /\ ~wsFull /\ ~HasOutstanding(q)
    <2>1. TimeoutOutcomes(q) = {"sent", "refused", "notCurrent", "throws"} \cup {"byte", "fin"}
      BY <1>3 DEF TimeoutOutcomes, ProbeOutcomes
    <2>2. ProbeOutcome = IF conn.queued > 0 THEN "byte"
                         ELSE IF conn.pendingFin THEN "fin" ELSE "sent"
      BY <1>3 DEF ProbeOutcome
    <2> QED
      BY <1>3, <2>1, <2>2, SMT
  <1> QED
    BY <1>1, <1>2, <1>3

LEMMA RetransmissionTimerStep ==
  ASSUME IInv, RetransmissionTimer
  PROVE  After
  <1>1. PICK age \in q.callbacks :
          LET fired == TimerCallback(q, age, ProbeOutcome)
          IN IF Exhausted(fired) THEN AbortWith(fired)
             ELSE /\ q' = fired
                  /\ conn' = CASE ProbeOutcome = "byte" -> SendBytes(conn, 1)
                               [] ProbeOutcome = "fin" -> SendFin(conn)
                               [] ProbeOutcome \in {"sent", "refused"} ->
                                    IF Persisting(q) THEN conn ELSE CongestionLoss(conn, "timeout")
                  /\ source' = source /\ loop' = loop /\ wake' = wake /\ wsFull' = wsFull
    BY Zenon DEF RetransmissionTimer
  <1>2. Quiet
    BY DEF RetransmissionTimer
  <1> DEFINE outcome == ProbeOutcome
             r == TimerCallback(q, age, outcome)
             loss == CongestionLoss(conn, "timeout")
  <1>3. q \in Queue /\ TimerFollows(q) /\ age \in Nat
    <2>1. q \in Queue /\ TimerFollows(q)
      BY Parts DEF Held
    <2>2. q.callbacks \in SUBSET Nat
      BY <2>1, QueueFields
    <2> QED
      BY <2>1, <2>2
  <1>4. outcome \in {"sent", "refused", "byte", "fin"} /\ outcome \in TimeoutOutcomes(q)
    BY ProbeOutcomeType
  <1>5. r \in Queue /\ TimerFollows(r)
    <2> HIDE DEF outcome
    <2> QED
      BY <1>3, <1>4, TimerCallbackType, TimerCallbackTimer
  <1>6. /\ Live(q)
        /\ IF Exhausted(r) THEN SameData(q, r)
           ELSE r.modes = q.modes /\ ProbeTracks(q, r, outcome)
    <2> HIDE DEF outcome
    <2> QED
      BY <1>3, <1>4, TimerCallbackSent
  <1>7. IF Exhausted(r) THEN AbortWith(r)
        ELSE /\ q' = r
             /\ conn' = CASE outcome = "byte" -> SendBytes(conn, 1)
                          [] outcome = "fin" -> SendFin(conn)
                          [] outcome \in {"sent", "refused"} ->
                               IF Persisting(q) THEN conn ELSE loss
             /\ source' = source /\ loop' = loop /\ wake' = wake /\ wsFull' = wsFull
    BY <1>1
  <1>8. /\ outcome \in {"byte", "fin"} => Persisting(q) /\ ~HasOutstanding(q)
        /\ outcome = "byte" => conn.queued > 0
        /\ outcome = "fin" => ~(conn.queued > 0) /\ conn.pendingFin
    BY ProbeOutcomeType
  <1> HIDE DEF outcome, r
  <1>9. CASE Exhausted(r)
    <2>1. AbortWith(r) /\ SameData(q, r)
      BY <1>6, <1>7, <1>9
    <2>2. Held(r) /\ r.nxt = q.nxt
      BY <1>5, <2>1, Parts, SameDataHeld DEF SameData
    <2> QED
      BY <1>2, <2>1, <2>2, AbortWithStep
  <1>10. IsOpen(conn) /\ ~Closed(q)
    BY <1>6, Parts DEF Health, Live
  <1>11. ~conn.sending /\ loop.after = {}
    BY <1>2 DEF Quiet
  <1>12. ASSUME ~Exhausted(r), outcome \in {"byte", "fin"}
         PROVE  /\ conn.state # "SYN_SENT" /\ Outstanding(q) = 0 /\ q.inFlight = 0
                /\ Outstanding(q) + 1 < Half /\ q.inFlight + 1 + 3 < Half
    <2>1. conn.state # "SYN_SENT"
      BY <1>8, <1>12, Parts DEF Stage
    <2>2. /\ Outstanding(q) = q.inFlight + FlagsOut(q) /\ q.inFlight \in Nat /\ FlagsOut(q) \in Nat
          /\ Outstanding(q) = 0
      BY <1>8, <1>10, <1>12, Parts, SteadyNumbers
    <2> QED
      BY <2>1, <2>2, Constants, SMT
  <1>13. ASSUME ~Exhausted(r), outcome \in {"sent", "refused"} PROVE After
    <2>1. SameData(q, r) /\ r.modes = q.modes
      BY <1>6, <1>13, Zenon DEF ProbeTracks
    <2>2. Unmoved(q, r)
      BY <1>5, <2>1, Parts, SameDataHeld DEF Unmoved
    <2>3. Steady(q, loss, source, wake, wsFull)
      BY Parts, SteadyLoss
    <2>4. SameStream(conn, loss) /\ SameStage(conn, loss)
      <3>1. q.inFlight \in Int /\ q.una \in SeqNumbers /\ q.nxt \in SeqNumbers
        BY Parts, HeldBounds
      <3> QED
        BY <3>1, Parts, CongestionLossFields
    <2> HIDE DEF loss
    <2>5. SameStream(conn, conn) /\ SameStage(conn, conn)
      BY DEF SameStream, SameStage
    <2>6. Steady(r, loss, source, wake, wsFull) /\ Steady(r, conn, source, wake, wsFull)
      BY <2>2, <2>3, Parts, SteadyUnmoved
    <2>7. /\ q' = r /\ conn' = (IF Persisting(q) THEN conn ELSE loss)
          /\ source' = source /\ loop' = loop /\ wake' = wake /\ wsFull' = wsFull
      BY <1>7, <1>13, Zenon
    <2>8. loop' \in Loop /\ loop'.after = {}
      BY <1>11, <2>7, Parts
    <2>9. CASE Persisting(q)
      BY <1>11, <2>2, <2>5, <2>6, <2>7, <2>8, <2>9, QuietAfter
    <2>10. CASE ~Persisting(q)
      BY <1>11, <2>2, <2>4, <2>6, <2>7, <2>8, <2>10, QuietAfter
    <2> QED
      BY <2>9, <2>10
  <1>14. ASSUME ~Exhausted(r), outcome = "byte" PROVE After
    <2> DEFINE d == SendBytes(conn, 1)
    <2>1. Tracked(q, r, 1, {}) /\ r.modes = q.modes
      BY <1>6, <1>14, Zenon DEF ProbeTracks
    <2>2. /\ q' = r /\ conn' = d
          /\ source' = source /\ loop' = loop /\ wake' = wake /\ wsFull' = wsFull
      BY <1>7, <1>14, Zenon
    <2>3. /\ SequenceLength(1, {}) = 1 /\ 1 \in Nat /\ {} \in Flags
          /\ SequenceLength(1, {}) > 0 /\ Outstanding(q) + SequenceLength(1, {}) < Half
      BY <1>12, <1>14, ProbeSegments, SMT
    <2>4. Grown(q, r, 1, 1)
      BY <1>5, <1>10, <2>1, <2>3, Parts, TrackedHeld DEF Grown
    <2>5. 1 \in 1 .. conn.queued /\ 1 <= conn.queued /\ 1 \in Nat
      BY <1>8, <1>14, Parts, ConnFields, SMT
    <2>6. Steady(r, d, source, wake, wsFull)
      BY <1>10, <1>12, <1>14, <2>4, <2>5, Parts, SteadyBytes
    <2>7. d.state = conn.state /\ d.sending = conn.sending
      BY <2>5, Parts, SendBytesFields DEF SameStage
    <2> HIDE DEF d
    <2>8. Answered(r)
      BY <2>4 DEF Grown, Answered
    <2>9. Going(r, d, wake, loop)
      BY <1>11, <2>7, <2>8, Parts, GoingQuiet
    <2> QED
      BY <2>2, <2>6, <2>9 DEF After
  <1>15. ASSUME ~Exhausted(r), outcome = "fin" PROVE After
    <2> DEFINE d == SendFin(conn)
    <2>1. Tracked(q, r, 0, {"fin"}) /\ r.modes = q.modes
      BY <1>6, <1>15, Zenon DEF ProbeTracks
    <2>2. /\ q' = r /\ conn' = d
          /\ source' = source /\ loop' = loop /\ wake' = wake /\ wsFull' = wsFull
      BY <1>7, <1>15, Zenon
    <2>3. /\ SequenceLength(0, {"fin"}) = 1 /\ 0 \in Nat /\ {"fin"} \in Flags
          /\ SequenceLength(0, {"fin"}) > 0 /\ Outstanding(q) + SequenceLength(0, {"fin"}) < Half
      BY <1>12, <1>15, ProbeSegments, SMT
    <2>4. Grown(q, r, 0, 1)
      BY <1>5, <1>10, <2>1, <2>3, Parts, TrackedHeld DEF Grown
    <2>5. conn.queued = 0 /\ conn.pendingFin
      <3>1. conn.queued \in Nat /\ ~(conn.queued > 0) /\ conn.pendingFin
        BY <1>8, <1>15, Parts, ConnFields
      <3> QED
        BY <3>1, SMT
    <2>6. Steady(r, d, source, wake, wsFull)
      BY <1>10, <1>12, <1>15, <2>4, <2>5, Parts, SteadyFin
    <2>7. d.state = "FIN_WAIT" /\ d.sending = conn.sending
      BY Parts, SendFinFields
    <2> HIDE DEF d
    <2>8. Answered(r)
      BY <2>4 DEF Grown, Answered
    <2>9. Going(r, d, wake, loop)
      BY <1>11, <2>7, <2>8, Parts, GoingQuiet
    <2> QED
      BY <2>2, <2>6, <2>9 DEF After
  <1> QED
    BY <1>4, <1>9, <1>13, <1>14, <1>15

-----------------------------------------------------------------------------
(* The invariant.                                                          *)

LEMMA InitialQueue ==
  LET r == Track(NewQueue(InitialSequence), 0, {"syn"})
  IN /\ Held(r) /\ Live(r) /\ ~Persisting(r)
     /\ r.nxt = (InitialSequence + 1) % SeqSpace
     /\ r.inFlight = 0 /\ Outstanding(r) = 1 /\ HasOutstanding(r)
  <1> DEFINE n == InitialSequence
             p == NewQueue(n)
             r == Track(p, 0, {"syn"})
  <1>1. n \in SeqNumbers
    BY Constants
  <1> HIDE DEF n
  <1>2. p.una = n /\ p.nxt = n /\ p.segs = <<>> /\ p.inFlight = 0 /\ p.modes = {}
        /\ p.timer = NoTimer /\ p.callbacks = {} /\ p \in Queue
    BY <1>1, NewQueueType, Zenon DEF NewQueue
  <1> HIDE DEF p
  <1>3. SequenceDistance(n, n) = 0 /\ 0 < Half
    BY <1>1, NoDistance, SMT
  <1>4. Len(<<>>) = 0 /\ 1 .. 0 = {} /\ 1 .. 0 - 1 = {}
    BY SMT
  <1>5. Consistent(<<>>) /\ Laid(<<>>, n, n)
    BY <1>4, Zenon DEF Consistent, Laid
  <1>6. Sound(p, n) /\ Outstanding(p) = 0
    BY <1>2, <1>3, <1>5, EmptyPayload, Zenon DEF Sound, Outstanding
  <1>7. Live(p) /\ ~Persisting(p) /\ ~HasOutstanding(p)
    BY <1>2 DEF Live, Closed, Exhausted, Persisting, HasOutstanding
  <1>8. TimerFollows(p)
    BY <1>2, <1>7 DEF TimerFollows, TimerStopped
  <1>9. Held(p)
    BY <1>2, <1>6, <1>8 DEF Held
  <1>10. {"syn"} \in Flags /\ SequenceLength(0, {"syn"}) = 1 /\ 0 \in Nat
    BY SMT DEF Flags, SequenceLength, Flag
  <1>11. SequenceLength(0, {"syn"}) > 0 /\ Outstanding(p) + SequenceLength(0, {"syn"}) < Half
    BY <1>6, <1>10, Constants, SMT
  <1>12. /\ Held(r) /\ r.modes = p.modes
         /\ r.inFlight = p.inFlight + 0
         /\ r.nxt = (p.nxt + SequenceLength(0, {"syn"})) % SeqSpace
         /\ Outstanding(r) = Outstanding(p) + SequenceLength(0, {"syn"})
         /\ HasOutstanding(r)
    BY <1>7, <1>9, <1>10, <1>11, TrackHeld
  <1> HIDE DEF r
  <1>13. Live(r) /\ ~Persisting(r)
    BY <1>7, <1>12, ModesDecide
  <1>14. r.nxt = (n + 1) % SeqSpace /\ r.inFlight = 0 /\ Outstanding(r) = 1
    BY <1>2, <1>6, <1>10, <1>12
  <1> QED
    BY <1>12, <1>13, <1>14 DEF n, p, r

LEMMA InitInv ==
  ASSUME Init
  PROVE  IInv
  <1>1. PICK kind \in Sources :
          source = [kind |-> kind, left |-> StreamBytes,
                    ends |-> IF kind = "forwarded" THEN {"end", "localClose"} ELSE {"end"}]
    BY DEF Init
  <1>2. PICK window \in IF Forward THEN VmWindows ELSE {ReceiveWindow} :
          conn = [state |-> "SYN_SENT", relaySeq |-> (InitialSequence + 1) % SeqSpace,
                  queued |-> 0, paused |-> FALSE,
                  vmWindow |-> Min({window, ReceiveWindow}),
                  cwnd |-> Min({InitialCwnd, ReceiveWindow}),
                  recovery |-> None, fastAck |-> None, dupAcks |-> 0,
                  pendingFin |-> FALSE, finSent |-> FALSE, peerFin |-> FALSE,
                  sending |-> FALSE]
    BY DEF Init
  <1>3. /\ q = Track(NewQueue(InitialSequence), 0, {"syn"})
        /\ loop = [sent |-> 0, after |-> {}]
        /\ wake = [blocked |-> FALSE, waiting |-> FALSE, immediates |-> 0, rateTimers |-> 0]
        /\ wsFull = FALSE
    BY DEF Init
  <1>4. /\ Held(q) /\ Live(q) /\ ~Persisting(q)
        /\ q.nxt = (InitialSequence + 1) % SeqSpace
        /\ q.inFlight = 0 /\ Outstanding(q) = 1 /\ HasOutstanding(q)
    BY <1>3, InitialQueue
  <1> DEFINE ends == IF kind = "forwarded" THEN {"end", "localClose"} ELSE {"end"}
             vmWindow == Min({window, ReceiveWindow})
             cwnd == Min({InitialCwnd, ReceiveWindow})
             number == (InitialSequence + 1) % SeqSpace
  <1>5. vmWindow \in Nat /\ (Forward => vmWindow + 3 < Half)
    <2>1. window \in Nat /\ ReceiveWindow \in Nat /\ (Forward => window + 3 < Half)
      BY Constants
    <2>2. vmWindow = IF window <= ReceiveWindow THEN window ELSE ReceiveWindow
      <3>1. window \in Int /\ ReceiveWindow \in Int
        BY <2>1, SMT
      <3> QED
        BY <3>1, LesserOf
    <2> QED
      BY <2>1, <2>2, HalfAssumption, SMT
  <1>6. cwnd \in Nat /\ cwnd > 0
    <2>1. InitialCwnd \in Nat \ {0} /\ ReceiveWindow \in Nat \ {0}
      BY Constants
    <2>2. cwnd = IF InitialCwnd <= ReceiveWindow THEN InitialCwnd ELSE ReceiveWindow
      <3>1. InitialCwnd \in Int /\ ReceiveWindow \in Int
        BY <2>1, SMT
      <3> QED
        BY <3>1, LesserOf
    <2> QED
      BY <2>1, <2>2, SMT
  <1>7. number \in SeqNumbers
    <2>1. InitialSequence + 1 \in Int
      BY Constants, SMT DEF SeqNumbers
    <2> QED
      BY <2>1, ModType
  <1>8. ends \in SUBSET {"end", "localClose"} /\ (kind # "forwarded" => "localClose" \notin ends)
    BY SMT
  <1>9. 0 \in 0 .. StreamBytes /\ StreamBytes \in 0 .. StreamBytes /\ 0 \in 0 .. MaxPending
        /\ 0 \in 0 .. 2 /\ None \in SeqNumbers \cup {None} /\ 0 \in Nat
    BY Constants, SMT
  <1> HIDE DEF ends, vmWindow, cwnd, number
  <1>10. source \in Source /\ source.kind = kind /\ source.left = StreamBytes /\ source.ends = ends
    <2>1. source = [kind |-> kind, left |-> StreamBytes, ends |-> ends]
      BY <1>1 DEF ends
    <2> QED
      BY <1>8, <1>9, <2>1, Zenon DEF Source
  <1>11. /\ conn \in Conn /\ conn.state = "SYN_SENT" /\ conn.relaySeq = number
         /\ conn.queued = 0 /\ ~conn.paused /\ conn.vmWindow = vmWindow /\ conn.cwnd = cwnd
         /\ conn.recovery = None /\ ~conn.pendingFin /\ ~conn.finSent /\ ~conn.sending
    <2>1. conn = [state |-> "SYN_SENT", relaySeq |-> number,
                  queued |-> 0, paused |-> FALSE, vmWindow |-> vmWindow, cwnd |-> cwnd,
                  recovery |-> None, fastAck |-> None, dupAcks |-> 0,
                  pendingFin |-> FALSE, finSent |-> FALSE, peerFin |-> FALSE,
                  sending |-> FALSE]
      BY <1>2 DEF vmWindow, cwnd, number
    <2>2. "SYN_SENT" \in States
      BY StateSets
    <2> QED
      BY <1>5, <1>6, <1>7, <1>9, <2>1, <2>2, Zenon DEF Conn
  <1>12. loop \in Loop /\ loop.after = {} /\ wake \in Wake /\ ~wake.waiting /\ wsFull \in BOOLEAN
    BY <1>3, <1>9, Zenon DEF Loop, Wake
  <1>13. IsOpen(conn)
    BY <1>11 DEF IsOpen
  <1>14. Health(q, conn, wake)
    BY <1>4, <1>13 DEF Health
  <1>15. Stage(q, conn, source)
    BY <1>4, <1>8, <1>10, <1>11 DEF Stage
  <1>16. Stream(q, conn, source)
    <2>1. source.left + conn.queued = StreamBytes /\ StreamBytes \in Nat
      BY <1>10, <1>11, Constants, SMT
    <2>2. One(conn.finSent) = 0
      BY <1>11 DEF One
    <2>3. InitialSequence \in Int
      BY Constants, SMT DEF SeqNumbers
    <2> DEFINE sum == source.left + conn.queued
               zero == One(conn.finSent)
               place == InitialSequence + 1 + (StreamBytes - sum) + zero
    <2>4. sum = StreamBytes /\ zero = 0
      BY <2>1, <2>2
    <2> HIDE DEF sum, zero
    <2>5. place = InitialSequence + 1
      BY <2>1, <2>3, <2>4, SMT
    <2> HIDE DEF place
    <2>6. conn.relaySeq = place % SeqSpace
      BY <1>11, <2>5 DEF number
    <2>7. sum <= StreamBytes
      BY <2>1, <2>4, SMT
    <2>8. conn.relaySeq = q.nxt
      BY <1>4, <1>11 DEF number
    <2> QED
      BY <1>11, <2>6, <2>7, <2>8 DEF Stream, place, sum, zero
  <1>17. Room(q, conn, source)
    <2>1. Forward <=> Socket(source)
      BY DEF Forward, Socket
    <2>2. FlagsOut(q) = 1
      BY <1>4, SMT DEF FlagsOut
    <2>3. FinsLeft(conn, source) <= 2 /\ FinsLeft(conn, source) \in Int
      <3> DEFINE e == One("end" \in source.ends)
                 l == One("localClose" \in source.ends)
      <3>1. One(conn.pendingFin) = 0
        BY <1>11 DEF One
      <3>2. e \in 0 .. 1 /\ l \in 0 .. 1
        BY SMT DEF One
      <3>3. FinsLeft(conn, source) = One(conn.pendingFin) + e + l
        BY DEF FinsLeft
      <3> HIDE DEF e, l
      <3> QED
        BY <3>1, <3>2, <3>3, SMT
    <2>4. FlagsOut(q) + FinsLeft(conn, source) <= 3
      BY <2>2, <2>3, SMT
    <2>5. q.inFlight + 3 < Half
      BY <1>4, Constants, SMT
    <2>6. Socket(source) \/ conn.state # "SYN_SENT" => conn.vmWindow + 3 < Half
      BY <1>5, <1>11, <2>1
    <2> QED
      BY <1>6, <1>11, <2>4, <2>5, <2>6 DEF Room
  <1>18. Recovery(q, conn, source)
    BY <1>11 DEF Recovery
  <1>19. Steady(q, conn, source, wake, wsFull)
    BY <1>4, <1>10, <1>11, <1>12, <1>14, <1>15, <1>16, <1>17, <1>18 DEF Steady
  <1>20. Answered(q)
    BY <1>4 DEF Answered
  <1>21. Going(q, conn, wake, loop)
    BY <1>11, <1>12, <1>20, GoingQuiet
  <1> QED
    BY <1>19, <1>21 DEF IInv

LEMMA NextAfter ==
  ASSUME IInv, Next
  PROVE  After
  <1>1. CASE Drain
    <2>1. ASSUME NEW burstEnds \in BOOLEAN, NEW fills \in BOOLEAN, DrainSend(burstEnds, fills)
          PROVE  After
      BY <2>1, DrainSendStep
    <2> QED
      BY <1>1, <2>1, DrainEmptyStep, DrainTransportFullStep, DrainNoRoomStep,
         DrainRateLimitedStep DEF Drain
  <1>2. CASE PacerReady \/ ImmediateRuns \/ RateTimerFires
    BY <1>2, PacerReadyStep, ImmediateRunsStep, RateTimerFiresStep
  <1>3. ASSUME NEW bytes \in 1 .. StreamBytes, SourceData(bytes) PROVE After
    BY <1>3, SourceDataStep
  <1>4. CASE SourceEnd \/ LocalClose
    BY <1>4, SourceEndStep, LocalCloseStep
  <1>5. ASSUME NEW ack \in AckChoices, NEW window \in VmWindows,
               NEW kind \in {"pure", "data", "fin"}, NEW older \in BOOLEAN,
               VmSegment(ack, window, kind, older)
        PROVE  After
    BY <1>5, VmSegmentStep
  <1>6. CASE SendAgain \/ PeerFin
    BY <1>6, SendAgainStep, PeerFinStep
  <1>7. ASSUME NEW ack \in AckChoices, NEW window \in VmWindows, SynAck(ack, window)
        PROVE  After
    BY <1>7, SynAckStep
  <1>8. CASE SynAgain \/ RetransmissionTimer
    BY <1>8, SynAgainStep, RetransmissionTimerStep
  <1>9. CASE WebsocketFills \/ WebsocketDrains
    BY <1>9, WebsocketFillsStep, WebsocketDrainsStep
  <1>10. CASE Abort \/ LingerEnds
    BY <1>10, AbortStep, LingerEndsStep
  <1> QED
    BY <1>1, <1>2, <1>3, <1>4, <1>5, <1>6, <1>7, <1>8, <1>9, <1>10 DEF Next

LEMMA NextInv == IInv /\ [Next]_vars => IInv'
  <1> SUFFICES ASSUME IInv, [Next]_vars PROVE IInv'
    OBVIOUS
  <1>1. After => IInv'
    BY Zenon DEF After, IInv
  <1>2. CASE Next
    BY <1>1, <1>2, NextAfter
  <1>3. CASE UNCHANGED vars
    BY <1>3, Zenon DEF vars, IInv, Steady, Going
  <1> QED
    BY <1>2, <1>3

LEMMA Invariant == Spec => []IInv
  <1>1. Init => IInv
    BY InitInv
  <1> QED
    BY <1>1, NextInv, PTL DEF Spec

\* The connection, its source and its wake-ups always have the shape the code gives
\* them: the next number stays below 2^32, the queue of bytes never goes below zero,
\* and neither do the pending callbacks (relay.js, the fields of conn).
THEOREM TypeCorrect == Spec => []TypeOK
  <1>1. IInv => TypeOK
    <2> SUFFICES ASSUME IInv PROVE TypeOK
      OBVIOUS
    <2>1. q \in Queue
      BY Parts DEF Held
    <2> QED
      BY <2>1, Parts, Zenon DEF TypeOK, Conn, Source, Loop, Wake
  <1> QED
    BY <1>1, Invariant, PTL

LEMMA InvNumbers == IInv => NothingLostOrRepeated
  <1> SUFFICES ASSUME IInv PROVE NothingLostOrRepeated
    OBVIOUS
  <1>1. Stream(q, conn, source)
    BY Parts
  <1>2. Gone(source) <=> ClientGone
    BY DEF Gone, ClientGone
  <1>3. FinsSent = One(conn.finSent)
    BY DEF FinsSent, One
  <1>4. BytesSent = StreamBytes - (source.left + conn.queued)
    BY DEF BytesSent
  <1> QED
    BY <1>1, <1>2, <1>3, <1>4 DEF Stream, NothingLostOrRepeated

\* Every byte read from the source is either queued or has a number of its own, and
\* FIN comes after the last of them, however the segments were cut and wherever the
\* numbers wrap around (enqueueTCPData, takeQueuedBytes, consumeTCPQueuedData,
\* maybeSendTCPFin, onPersistProbe).
THEOREM EveryByteHasItsNumber == Spec => []NothingLostOrRepeated
  BY InvNumbers, Invariant, PTL

\* A connection with something to send has something that will make it try again,
\* whichever of the drain's five returns it took: a timer, a callback, a place among
\* the websocket's waiters, or an acknowledgement the retransmission timer stands for
\* (drainTCPToVM, trySendToVM, setPersist, consumeTCPQueuedData).
THEOREM SomethingWakesIt == Spec => []NoStall
  <1>1. IInv => NoStall
    <2> SUFFICES ASSUME IInv, Quiet, Open
                 PROVE  /\ SomethingToSend =>
                             \/ wake.blocked \/ wake.waiting
                             \/ wake.immediates > 0 \/ wake.rateTimers > 0
                             \/ q.timer # NoTimer
                        /\ conn.paused => conn.queued > 0
                        /\ wake.waiting => wsFull
      BY DEF NoStall
    <2>1. IsOpen(conn) /\ ~conn.sending
      BY DEF Open, IsOpen, Quiet
    <2>2. Live(q) /\ TimerFollows(q)
      BY <2>1, Parts DEF Health, Held
    <2>3. Answered(q) => q.timer # NoTimer
      <3>1. Answered(q) => q.timer = 0
        BY <2>2 DEF Answered, TimerFollows
      <3> QED
        BY <3>1, SMT DEF NoTimer
    <2>4. SomethingToSend <=> Unsent(conn)
      BY DEF SomethingToSend, Unsent
    <2>5. Unsent(conn) => Awake(wake) \/ Answered(q)
      BY <2>1, Parts DEF Going
    <2>6. (conn.paused => conn.queued > 0) /\ (wake.waiting => wsFull)
      BY Parts DEF Stream, Steady
    <2> QED
      BY <2>3, <2>4, <2>5, <2>6 DEF Awake
  <1> QED
    BY <1>1, Invariant, PTL

\* A connection that has ended holds no timer of its own and no place among the
\* websocket's waiters, so nothing revives it (the finish and abort functions).
THEOREM EndsForGood == Spec => []NothingPendingAfterEnd
  <1>1. IInv => NothingPendingAfterEnd
    <2> SUFFICES ASSUME IInv, ~Open
                 PROVE  /\ ~wake.blocked /\ ~wake.waiting
                        /\ q.timer = NoTimer /\ q.callbacks = {}
                        /\ Closed(q)
      BY DEF NothingPendingAfterEnd
    <2>1. Closed(q) /\ ~wake.blocked /\ ~wake.waiting /\ TimerFollows(q)
      BY Parts DEF Open, IsOpen, Health, Held
    <2>2. ~Live(q)
      BY <2>1 DEF Live
    <2>3. TimerStopped(q)
      BY <2>1, <2>2 DEF TimerFollows
    <2> QED
      BY <2>1, <2>3 DEF TimerStopped
  <1> QED
    BY <1>1, Invariant, PTL
-----------------------------------------------------------------------------
(* New payload.                                                            *)

LEMMA TrackInFlight ==
  ASSUME NEW p \in Queue, NEW len \in Nat, NEW flags \in Flags
  PROVE  Track(p, len, flags).inFlight = p.inFlight + len
  <1>1. CASE SequenceLength(len, flags) = 0
    <2>1. len = 0
      BY <1>1, SMT DEF SequenceLength, Flag
    <2>2. Track(p, len, flags) = p
      BY <1>1, Zenon DEF Track
    <2> QED
      BY <2>1, <2>2, QueueFields, SMT
  <1>2. CASE SequenceLength(len, flags) # 0
    BY <1>2, TrackTracked DEF Tracked
  <1> QED
    BY <1>1, <1>2

LEMMA CloseInFlight ==
  ASSUME NEW p, Held(p)
  PROVE  Close(p).inFlight <= p.inFlight
  <1>1. p \in Queue /\ p.inFlight \in Int /\ (~Closed(p) => p.inFlight \in 0 .. Outstanding(p))
    BY HeldBounds DEF Held
  <1>2. IF Closed(p) THEN Close(p) = p ELSE Emptied(p, Close(p))
    BY <1>1, CloseKeeps
  <1>3. CASE Closed(p)
    BY <1>1, <1>2, <1>3, SMT
  <1>4. CASE ~Closed(p)
    <2>1. Close(p).inFlight = 0
      BY <1>2, <1>4 DEF Emptied
    <2> QED
      BY <1>1, <1>4, <2>1, HeldBounds, SMT
  <1> QED
    BY <1>3, <1>4

\* What the handlers share brings no payload into flight.
LEMMA TrySendInFlight ==
  ASSUME NEW p \in Queue, NEW c, NEW w, NEW after, TrySend(c, p, w, after)
  PROVE  q'.inFlight = p.inFlight
  <1>1. q' \in {p, SetPersist(p, ShouldPersist(c, p), "sent")}
    BY Zenon DEF TrySend
  <1>2. ShouldPersist(c, p) \in BOOLEAN
    BY DEF ShouldPersist
  <1>3. SameData(p, SetPersist(p, ShouldPersist(c, p), "sent"))
    <2> DEFINE persist == ShouldPersist(c, p)
    <2>1. persist \in BOOLEAN
      BY <1>2
    <2> HIDE DEF persist
    <2>2. SameData(p, SetPersist(p, persist, "sent"))
      BY <2>1, SetPersistSent
    <2> QED
      BY <2>2 DEF persist
  <1> QED
    BY <1>1, <1>3 DEF SameData

LEMMA MaybeFinInFlight ==
  ASSUME NEW p \in Queue, NEW c, MaybeFin(c, p)
  PROVE  q'.inFlight = p.inFlight
  <1>1. q' \in {p, Track(p, 0, {"fin"})}
    BY Zenon DEF MaybeFin
  <1>2. Track(p, 0, {"fin"}).inFlight = p.inFlight + 0
    BY ProbeSegments, TrackInFlight
  <1> QED
    BY <1>1, <1>2, QueueFields, SMT

\* No payload is added.
Ebbs == q'.inFlight <= q.inFlight

LEMMA EbbsSame ==
  ASSUME IInv, q'.inFlight = q.inFlight
  PROVE  Ebbs
  <1>1. q.inFlight \in Int
    BY Parts, HeldBounds
  <1> QED
    BY <1>1, SMT DEF Ebbs

LEMMA EbbsClose ==
  ASSUME IInv, NEW p, Held(p), p.inFlight <= q.inFlight, q' = Close(p)
  PROVE  Ebbs
  <1>1. Held(Close(p))
    BY CloseHeld
  <1>2. Close(p).inFlight \in Int /\ p.inFlight \in Int /\ q.inFlight \in Int
    BY <1>1, Parts, HeldBounds
  <1>3. Close(p).inFlight <= p.inFlight
    BY CloseInFlight
  <1> QED
    BY <1>2, <1>3, SMT DEF Ebbs

LEMMA AcknowledgeEbbs ==
  ASSUME IInv, conn.state # "GONE", NEW ack \in SeqNumbers
  PROVE  Held(Acknowledge(q, ack)) /\ Acknowledge(q, ack).inFlight <= q.inFlight
  <1> DEFINE r == Acknowledge(q, ack)
  <1>1. Held(q) /\ q.inFlight \in Int
    BY Parts, HeldBounds
  <1>2. CASE AckStatus(q, ack) = "advanced"
    <2>1. IsOpen(conn)
      <3>1. Outstanding(q) # 0
        <4>1. SequenceDistance(ack, q.una) # 0 /\ ~(SequenceDistance(ack, q.una) > Outstanding(q))
          BY <1>2, Zenon DEF AckStatus
        <4>2. SequenceDistance(ack, q.una) \in SeqNumbers /\ Outstanding(q) \in Nat
          BY Parts, HeldBounds, DistanceType
        <4> QED
          BY <4>1, <4>2, SMT DEF SeqNumbers
      <3> QED
        BY <3>1, Parts DEF Stage, IsOpen
    <2>2. ~Closed(q)
      BY <2>1, Parts DEF Health, Live
    <2> QED
      BY <1>1, <1>2, <2>2, AcknowledgeEffect
  <1>3. CASE AckStatus(q, ack) = "duplicate"
    <2>1. Held(r) /\ r.inFlight = q.inFlight
      BY <1>1, <1>3, DuplicateEffect DEF SameData
    <2> QED
      BY <1>1, <2>1, SMT
  <1>4. CASE AckStatus(q, ack) \notin {"advanced", "duplicate"}
    <2>1. r = q
      BY <1>4, Zenon DEF Acknowledge
    <2> QED
      BY <1>1, <2>1, SMT
  <1> QED
    BY <1>2, <1>3, <1>4

LEMMA VmSegmentEbbs ==
  ASSUME IInv, NEW ack \in AckChoices, NEW window \in VmWindows,
         NEW kind \in {"pure", "data", "fin"}, NEW older \in BOOLEAN,
         VmSegment(ack, window, kind, older)
  PROVE  Ebbs
  <1> DEFINE r == Acknowledge(q, ack)
  <1>1. conn.state # "GONE"
    <2>1. conn.state \in IF Forward THEN States \ {"GONE"} ELSE Established
      BY Zenon DEF VmSegment
    <2> QED
      BY <2>1, StateSets, SMT
  <1>2. ack \in SeqNumbers /\ q.inFlight \in Int
    BY AckNumber, Parts, HeldBounds
  <1>3. Held(r) /\ r.inFlight <= q.inFlight
    BY <1>1, <1>2, AcknowledgeEbbs
  <1>4. \/ \E c : Finish(c, r)
        \/ \E c, after : TrySend(c, r, wake, after)
        \/ q' \in {r, FastRetransmit(r, "sent")}
    <2> DEFINE updated == [conn EXCEPT !.vmWindow = IF older THEN @ ELSE window]
    <2>1. \/ \E c : Finish(c, r)
          \/ \E c, after : TrySend(c, r, wake, after)
          \/ DuplicateAcknowledgement(updated, r, ack)
          \/ q' = r
      BY Zenon DEF VmSegment
    <2>2. DuplicateAcknowledgement(updated, r, ack) => q' \in {r, FastRetransmit(r, "sent")}
      BY Zenon DEF DuplicateAcknowledgement
    <2> QED
      BY <2>1, <2>2
  <1> HIDE DEF r
  <1>5. ASSUME NEW c, Finish(c, r) PROVE Ebbs
    <2>1. q' = Close(r)
      BY <1>5 DEF Finish
    <2> QED
      BY <1>3, <2>1, EbbsClose
  <1>6. ASSUME NEW c, NEW after, TrySend(c, r, wake, after) PROVE Ebbs
    <2>1. q'.inFlight = r.inFlight
      BY <1>3, <1>6, TrySendInFlight DEF Held
    <2> QED
      BY <1>3, <2>1 DEF Ebbs
  <1>7. CASE q' \in {r, FastRetransmit(r, "sent")}
    <2>1. FastRetransmit(r, "sent").inFlight = r.inFlight
      BY <1>3, FastRetransmitSent DEF Held, SameData
    <2> QED
      BY <1>3, <1>7, <2>1 DEF Ebbs
  <1> QED
    BY <1>4, <1>5, <1>6, <1>7

LEMMA DrainSendFits ==
  ASSUME IInv, NEW burstEnds \in BOOLEAN, NEW fills \in BOOLEAN, DrainSend(burstEnds, fills)
  PROVE  /\ q'.inFlight <= Min({conn.vmWindow, conn.cwnd})
         /\ ~RecoveryActive(conn, q)
  <1> DEFINE bytes == ToSend(conn)
             least == Min({conn.vmWindow, conn.cwnd})
             r == Track(q, bytes, {})
  <1>1. conn.sending /\ conn.queued > 0 /\ bytes > 0
    BY Zenon DEF DrainSend
  <1>2. q' = r \/ \E c : MaybeFin(c, r)
    BY Zenon DEF DrainSend
  <1>3. /\ Available(conn) \in Nat /\ bytes \in Nat /\ bytes <= Available(conn)
        /\ Available(conn) > 0 => /\ ~RecoveryActive(conn, q) /\ q.inFlight \in Nat
                                  /\ q.inFlight + Available(conn) <= least
    BY <1>1, RoomLeft
  <1>4. least \in Int
    <2>1. conn.vmWindow \in Nat /\ conn.cwnd \in Nat
      BY Parts, ConnFields
    <2>2. conn.vmWindow \in Int /\ conn.cwnd \in Int
      BY <2>1, SMT
    <2>3. least = IF conn.vmWindow <= conn.cwnd THEN conn.vmWindow ELSE conn.cwnd
      BY <2>2, LesserOf
    <2> QED
      BY <2>2, <2>3
  <1> HIDE DEF bytes, least
  <1>5. r \in Queue /\ r.inFlight = q.inFlight + bytes
    <2>1. q \in Queue /\ {} \in Flags
      BY Parts DEF Held, Flags
    <2> QED
      BY <1>3, <2>1, TrackType, TrackInFlight
  <1> HIDE DEF r
  <1>6. q'.inFlight = r.inFlight
    BY <1>2, <1>5, MaybeFinInFlight
  <1>7. ~RecoveryActive(conn, q)
    BY <1>1, <1>3, SMT
  <1>8. q'.inFlight <= least
    BY <1>1, <1>3, <1>4, <1>5, <1>6, SMT
  <1> QED
    BY <1>7, <1>8 DEF least

LEMMA TimerFits ==
  ASSUME IInv, RetransmissionTimer
  PROVE  Ebbs \/ (Persisting(q) /\ q'.inFlight = q.inFlight + 1)
  <1>1. PICK age \in q.callbacks :
          LET fired == TimerCallback(q, age, ProbeOutcome)
          IN IF Exhausted(fired) THEN AbortWith(fired) ELSE q' = fired
    BY Zenon DEF RetransmissionTimer
  <1> DEFINE outcome == ProbeOutcome
             r == TimerCallback(q, age, outcome)
  <1>2. q \in Queue /\ TimerFollows(q) /\ age \in Nat /\ q.inFlight \in Int
    <2>1. q \in Queue /\ TimerFollows(q)
      BY Parts DEF Held
    <2>2. q.callbacks \in SUBSET Nat /\ q.inFlight \in Int
      BY <2>1, QueueFields
    <2> QED
      BY <2>1, <2>2
  <1>3. /\ outcome \in {"sent", "refused", "byte", "fin"} /\ outcome \in TimeoutOutcomes(q)
        /\ outcome \in {"byte", "fin"} => Persisting(q)
    BY ProbeOutcomeType
  <1> HIDE DEF outcome
  <1>4. r \in Queue /\ TimerFollows(r)
    BY <1>2, <1>3, TimerCallbackType, TimerCallbackTimer
  <1>5. IF Exhausted(r) THEN SameData(q, r) ELSE ProbeTracks(q, r, outcome)
    BY <1>2, <1>3, TimerCallbackSent
  <1>6. IF Exhausted(r) THEN AbortWith(r) ELSE q' = r
    BY <1>1 DEF outcome
  <1> HIDE DEF r
  <1>7. CASE Exhausted(r)
    <2>1. SameData(q, r) /\ q' = Close(r)
      BY <1>5, <1>6, <1>7 DEF AbortWith
    <2>2. Held(r) /\ r.inFlight = q.inFlight
      BY <1>4, <2>1, Parts, SameDataHeld DEF SameData
    <2>3. r.inFlight <= q.inFlight
      BY <1>2, <2>2, SMT
    <2> QED
      BY <2>1, <2>2, <2>3, EbbsClose
  <1>8. CASE ~Exhausted(r) /\ outcome = "byte"
    <2>1. q' = r /\ Tracked(q, r, 1, {})
      BY <1>5, <1>6, <1>8, Zenon DEF ProbeTracks
    <2> QED
      BY <1>3, <1>8, <2>1 DEF Tracked
  <1>9. CASE ~Exhausted(r) /\ outcome = "fin"
    <2>1. q' = r /\ Tracked(q, r, 0, {"fin"})
      BY <1>5, <1>6, <1>9, Zenon DEF ProbeTracks
    <2>2. q'.inFlight = q.inFlight + 0
      BY <2>1 DEF Tracked
    <2>3. q'.inFlight = q.inFlight
      BY <1>2, <2>2, SMT
    <2> QED
      BY <2>3, EbbsSame
  <1>10. CASE ~Exhausted(r) /\ outcome \in {"sent", "refused"}
    <2>1. q' = r /\ SameData(q, r)
      BY <1>5, <1>6, <1>10, Zenon DEF ProbeTracks
    <2>2. q'.inFlight = q.inFlight
      BY <2>1 DEF SameData
    <2> QED
      BY <2>2, EbbsSame
  <1> QED
    BY <1>3, <1>7, <1>8, <1>9, <1>10

\* New payload fits both windows, or it is the byte of a probe.
Fits == q'.inFlight > q.inFlight =>
          \/ /\ q'.inFlight <= Min({conn.vmWindow, conn.cwnd})
             /\ ~RecoveryActive(conn, q)
          \/ /\ Persisting(q)
             /\ q'.inFlight = q.inFlight + 1

LEMMA OthersEbb ==
  ASSUME IInv, \/ DrainEmpty \/ DrainTransportFull \/ DrainNoRoom \/ DrainRateLimited
               \/ PacerReady \/ ImmediateRuns \/ RateTimerFires
               \/ \E bytes \in 1 .. StreamBytes : SourceData(bytes)
               \/ SourceEnd \/ LocalClose \/ SendAgain \/ PeerFin \/ SynAgain
               \/ WebsocketFills \/ WebsocketDrains \/ Abort \/ LingerEnds
               \/ UNCHANGED vars
  PROVE  Ebbs
  <1>1. q \in Queue /\ Held(q) /\ q.inFlight \in Int
    BY Parts, HeldBounds DEF Held
  <1>2. CASE \E c, w, after : TrySend(c, q, w, after)
    <2>1. q'.inFlight = q.inFlight
      BY <1>1, <1>2, TrySendInFlight
    <2> QED
      BY <2>1, EbbsSame
  <1>3. CASE \E c : MaybeFin(c, q)
    <2>1. q'.inFlight = q.inFlight
      BY <1>1, <1>3, MaybeFinInFlight
    <2> QED
      BY <2>1, EbbsSame
  <1>4. CASE q' = q
    BY <1>4, EbbsSame
  <1>5. CASE q' = Close(q)
    <2>1. q.inFlight <= q.inFlight
      BY <1>1, SMT
    <2> QED
      BY <1>1, <1>5, <2>1, EbbsClose
  <1>6. CASE q' = FastRetransmit(q, "sent")
    <2>1. q'.inFlight = q.inFlight
      BY <1>1, <1>6, FastRetransmitSent DEF SameData
    <2> QED
      BY <2>1, EbbsSame
  <1>7. DrainEmpty => \E c : MaybeFin(c, q)
    BY Zenon DEF DrainEmpty
  <1>8. DrainTransportFull \/ DrainNoRoom \/ DrainRateLimited => q' = q
    BY Zenon DEF DrainTransportFull, DrainNoRoom, DrainRateLimited
  <1>9. PacerReady \/ ImmediateRuns \/ RateTimerFires \/ SendAgain
          => \E c, w, after : TrySend(c, q, w, after)
    BY Zenon DEF PacerReady, ImmediateRuns, RateTimerFires, SendAgain
  <1>10. SourceEnd \/ LocalClose => \E c, w, after : TrySend(c, q, w, after)
    BY Zenon DEF SourceEnd, LocalClose
  <1>11. ASSUME NEW bytes \in 1 .. StreamBytes, SourceData(bytes)
         PROVE  \E c, w, after : TrySend(c, q, w, after)
    BY <1>11, Zenon DEF SourceData
  <1>12. PeerFin => q' = q \/ q' = Close(q)
    BY Zenon DEF PeerFin, Finish
  <1>13. SynAgain => q' = FastRetransmit(q, "sent")
    BY Zenon DEF SynAgain
  <1>14. WebsocketFills \/ WebsocketDrains \/ LingerEnds \/ UNCHANGED vars => q' = q
    BY Zenon DEF WebsocketFills, WebsocketDrains, LingerEnds, vars
  <1>15. Abort => q' = Close(q)
    BY Zenon DEF Abort, AbortWith
  <1> QED
    BY <1>2, <1>3, <1>4, <1>5, <1>6, <1>7, <1>8, <1>9, <1>10, <1>11, <1>12, <1>13, <1>14, <1>15

LEMMA SynAckEbbs ==
  ASSUME IInv, NEW ack \in AckChoices, NEW window \in VmWindows, SynAck(ack, window)
  PROVE  Ebbs
  <1> DEFINE r == Acknowledge(q, ack)
  <1>1. conn.state = "SYN_SENT"
    BY DEF SynAck
  <1>2. conn.state # "GONE"
    BY <1>1
  <1>3. Held(r) /\ r.inFlight <= q.inFlight
    BY <1>2, AckNumber, AcknowledgeEbbs
  <1>4. q' = r \/ \E c : TrySend(c, r, wake, {})
    BY Zenon DEF SynAck
  <1> HIDE DEF r
  <1>5. q'.inFlight = r.inFlight
    BY <1>3, <1>4, TrySendInFlight DEF Held
  <1> QED
    BY <1>3, <1>5 DEF Ebbs

LEMMA StepFits ==
  ASSUME IInv, [Next]_vars
  PROVE  Fits
  <1>1. ASSUME Ebbs PROVE Fits
    <2>1. q.inFlight \in Int
      BY Parts, HeldBounds
    <2>2. IInv'
      BY NextInv
    <2>3. q'.inFlight \in Int
      <3>1. Held(q')
        BY <2>2, Zenon DEF IInv, Steady
      <3> QED
        BY <3>1, HeldBounds
    <2>4. ~(q'.inFlight > q.inFlight)
      BY <1>1, <2>1, <2>3, SMT DEF Ebbs
    <2> QED
      BY <2>4 DEF Fits
  <1>2. ASSUME NEW burstEnds \in BOOLEAN, NEW fills \in BOOLEAN, DrainSend(burstEnds, fills)
        PROVE  Fits
    BY <1>2, DrainSendFits DEF Fits
  <1>3. CASE RetransmissionTimer
    BY <1>1, <1>3, TimerFits DEF Fits
  <1>4. ASSUME NEW ack \in AckChoices, NEW window \in VmWindows,
               NEW kind \in {"pure", "data", "fin"}, NEW older \in BOOLEAN,
               VmSegment(ack, window, kind, older)
        PROVE  Fits
    BY <1>1, <1>4, VmSegmentEbbs
  <1>5. ASSUME NEW ack \in AckChoices, NEW window \in VmWindows, SynAck(ack, window)
        PROVE  Fits
    BY <1>1, <1>5, SynAckEbbs
  <1> QED
    BY <1>1, <1>2, <1>3, <1>4, <1>5, OthersEbb, Zenon DEF Next, Drain

\* New payload stays within the window the VM announced last and the congestion
\* window, both as they are when it is sent, and none is sent during a recovery; a
\* probe of a closed window is one byte (tcpSendLimit, onPersistProbe).
THEOREM NewPayloadFits == Spec => RespectsWindows
  <1>1. IInv /\ [Next]_vars => [Fits]_vars
    BY StepFits
  <1> QED
    BY <1>1, Invariant, PTL DEF Spec, RespectsWindows, Fits
-----------------------------------------------------------------------------
(* Loss recovery.                                                          *)

\* The end of a recovery that lies ahead is not taken for one that was reached.
LEMMA RecoveredAhead ==
  ASSUME NEW c, NEW una \in SeqNumbers, NEW x \in 1 .. Half - 1, c.recovery = (una + x) % SeqSpace
  PROVE  /\ c.recovery \in SeqNumbers /\ SequenceDistance(c.recovery, una) = x
         /\ ~Recovered(c, una)
  <1> DEFINE n == c.recovery
  <1>1. x \in Int /\ x \in 0 .. SeqSpace - 1 /\ x # 0 /\ ~(x >= Half)
    BY HalfAssumption, SMT DEF SeqSpace
  <1>2. n = (una + x) % SeqSpace
    OBVIOUS
  <1> HIDE DEF n
  <1>3. n \in SeqNumbers /\ SequenceDistance(n, una) = x
    BY <1>1, <1>2, DistanceFrom
  <1>4. ~SeqLessThan(n, una)
    BY <1>1, <1>3, Zenon DEF SeqLessThan
  <1>5. SequenceDistance(una, una) = 0
    <2>1. una - una = 0 /\ 0 % SeqSpace = 0
      BY SeqSpaceType, SMT DEF SeqNumbers
    <2> QED
      BY <2>1, Zenon DEF SequenceDistance
  <1>6. una # n
    BY <1>1, <1>3, <1>5, Zenon
  <1> QED
    BY <1>3, <1>4, <1>6, Zenon DEF Recovered, n

LEMMA InvRecovery == IInv => RecoveryExact
  <1> SUFFICES ASSUME IInv, Open, conn.recovery # None
               PROVE  RecoveryActive(conn, q) <=>
                        SequenceDistance(conn.recovery, q.una) \in 1 .. Outstanding(q)
    BY Zenon DEF RecoveryExact
  <1>1. Steady(q, conn, source, wake, wsFull) /\ IsOpen(conn)
    BY Parts, Zenon DEF Open, IsOpen
  <1>2. PICK x \in Int : /\ conn.recovery = (q.una + x) % SeqSpace
                         /\ x <= Outstanding(q)
                         /\ FlagsOut(q) + FinsLeft(conn, source) <= 3 + x
    BY <1>1, Zenon DEF Steady, Recovery, Recovering
  <1>3. /\ q.una \in SeqNumbers /\ FlagsOut(q) \in Nat /\ Outstanding(q) \in Nat
        /\ q.inFlight \in Nat /\ q.inFlight + 3 < Half
        /\ FlagsOut(q) + FinsLeft(conn, source) <= 3
        /\ Outstanding(q) = q.inFlight + FlagsOut(q)
    BY <1>1, SteadyNumbers
  <1>4. FinsLeft(conn, source) \in 0 .. 3
    BY FinsLeftType
  <1>5. -3 <= x /\ Outstanding(q) < Half /\ Half >= 4
    BY <1>2, <1>3, <1>4, HalfAssumption, SMT
  <1>6. CASE x >= 1
    <2>1. x \in 1 .. Half - 1 /\ x \in 1 .. Outstanding(q)
      BY <1>2, <1>3, <1>5, <1>6, HalfAssumption, SMT
    <2>2. SequenceDistance(conn.recovery, q.una) = x /\ ~Recovered(conn, q.una)
      BY <1>2, <1>3, <2>1, RecoveredAhead
    <2> QED
      BY <2>1, <2>2, Zenon DEF RecoveryActive
  <1>7. CASE x <= 0
    <2>1. x \in -Half .. 0
      BY <1>5, <1>7, HalfAssumption, SMT
    <2>2. Recovered(conn, q.una)
      BY <1>2, <1>3, <2>1, RecoveredBehind
    <2>3. SequenceDistance(conn.recovery, q.una) \notin 1 .. Outstanding(q)
      <3> DEFINE d == SequenceDistance(conn.recovery, q.una)
                 n == conn.recovery
      <3>1. n = (q.una + x) % SeqSpace
        BY <1>2
      <3> HIDE DEF n
      <3>2. /\ x \in 0 .. SeqSpace - 1 => SequenceDistance(n, q.una) = x
            /\ x \in -Half .. -1 => SequenceDistance(n, q.una) = SeqSpace + x
        BY <1>3, <3>1, DistanceFrom
      <3>3. x = 0 => x \in 0 .. SeqSpace - 1
        BY HalfAssumption, SMT DEF SeqSpace
      <3>4. x # 0 => x \in -Half .. -1
        BY <2>1, HalfAssumption, SMT
      <3>5. (x = 0 /\ d = 0) \/ (x # 0 /\ d = SeqSpace + x)
        BY <3>2, <3>3, <3>4, Zenon DEF n
      <3> HIDE DEF d
      <3>6. SeqSpace + x > Outstanding(q)
        BY <1>3, <1>5, HalfAssumption, SMT DEF SeqSpace
      <3>7. d \notin 1 .. Outstanding(q)
        BY <1>3, <3>5, <3>6, SMT
      <3> QED
        BY <3>7 DEF d
    <2> QED
      BY <2>2, <2>3, Zenon DEF RecoveryActive
  <1> QED
    BY <1>6, <1>7, SMT

\* New data is held back exactly while a number that was outstanding at the loss has not
\* been acknowledged, whatever was acknowledged meanwhile and wherever the numbers wrap
\* around (onTCPCongestionLoss, onTCPCongestionAck, isTCPCongestionRecoveryActive).
THEOREM RecoveryEnds == Spec => []RecoveryExact
  BY InvRecovery, Invariant, PTL
-----------------------------------------------------------------------------
(* FIN is the last.                                                        *)

\* FIN has been sent, which nothing takes back.
FinOut(c) == "finSent" \in DOMAIN c /\ c.finSent

LEMMA FinStays ==
  ASSUME NEW c, FinOut(c), NEW e
  PROVE  /\ FinOut([c EXCEPT !.state = e]) /\ FinOut([c EXCEPT !.sending = e])
         /\ FinOut([c EXCEPT !.recovery = e]) /\ FinOut([c EXCEPT !.fastAck = e])
         /\ FinOut([c EXCEPT !.cwnd = e]) /\ FinOut([c EXCEPT !.vmWindow = e])
         /\ FinOut([c EXCEPT !.dupAcks = e]) /\ FinOut([c EXCEPT !.pendingFin = e])
         /\ FinOut([c EXCEPT !.peerFin = e]) /\ FinOut([c EXCEPT !.queued = e])
         /\ FinOut([c EXCEPT !.paused = e]) /\ FinOut([c EXCEPT !.relaySeq = e])
  BY Zenon DEF FinOut

LEMMA FinOperators ==
  ASSUME NEW c, FinOut(c)
  PROVE  /\ FinOut(Stop(c))
         /\ \A s : FinOut(InState(c, s))
         /\ \A p : FinOut(CheckRecovery(c, p))
         /\ \A n : FinOut(Enqueue(c, n))
         /\ \A n : FinOut(SendBytes(c, n))
         /\ FinOut(SendFin(c))
         /\ \A reason : FinOut(CongestionLoss(c, reason))
         /\ \A p, n, ack : FinOut(CongestionAck(c, p, n, ack))
  <1>1. FinOut(Stop(c)) /\ \A s : FinOut(InState(c, s))
    BY FinStays, Zenon DEF Stop, InState
  <1>2. \A p : FinOut(CheckRecovery(c, p))
    BY FinStays, Zenon DEF CheckRecovery
  <1>3. \A n : FinOut(Enqueue(c, n))
    BY Zenon DEF Enqueue, FinOut
  <1>4. \A n : FinOut(SendBytes(c, n))
    BY Zenon DEF SendBytes, Consume, FinOut
  <1>5. FinOut(SendFin(c))
    BY Zenon DEF SendFin, FinOut
  <1>6. \A reason : FinOut(CongestionLoss(c, reason))
    BY Zenon DEF CongestionLoss, FinOut
  <1>7. \A p, n, ack : FinOut(CongestionAck(c, p, n, ack))
    BY Zenon DEF CongestionAck, FinOut
  <1> QED
    BY <1>1, <1>2, <1>3, <1>4, <1>5, <1>6, <1>7

LEMMA FinHandlers ==
  ASSUME NEW c, FinOut(c)
  PROVE  /\ \A p, w, after : TrySend(c, p, w, after) => FinOut(conn')
         /\ \A p : MaybeFin(c, p) => FinOut(conn')
         /\ \A p : Finish(c, p) => FinOut(conn')
         /\ \A p, ack : DuplicateAcknowledgement(c, p, ack) => FinOut(conn')
  <1>1. \A p, w, after : TrySend(c, p, w, after) => FinOut(conn')
    <2> SUFFICES ASSUME NEW p, NEW w, NEW after, TrySend(c, p, w, after) PROVE FinOut(conn')
      OBVIOUS
    <2> DEFINE sending == [c EXCEPT !.sending = TRUE]
    <2>1. conn' = sending \/ conn' = c
      BY DEF TrySend
    <2>2. FinOut(sending)
      BY FinStays
    <2> HIDE DEF sending
    <2> QED
      BY <2>1, <2>2
  <1>2. \A p : MaybeFin(c, p) => FinOut(conn')
    <2> SUFFICES ASSUME NEW p, MaybeFin(c, p) PROVE FinOut(conn')
      OBVIOUS
    <2>1. FinOut(CheckRecovery(c, p))
      BY FinOperators
    <2>2. FinOut(SendFin(CheckRecovery(c, p)))
      BY <2>1, FinOperators
    <2> QED
      BY <2>1, <2>2, Zenon DEF MaybeFin
  <1>3. \A p : Finish(c, p) => FinOut(conn')
    <2> SUFFICES ASSUME NEW p, Finish(c, p) PROVE FinOut(conn')
      OBVIOUS
    <2>1. conn' = InState(c, IF Forward THEN "CLOSED" ELSE "GONE")
      BY Zenon DEF Finish
    <2> QED
      BY <2>1, FinOperators
  <1>4. \A p, ack : DuplicateAcknowledgement(c, p, ack) => FinOut(conn')
    <2> SUFFICES ASSUME NEW p, NEW ack, DuplicateAcknowledgement(c, p, ack) PROVE FinOut(conn')
      OBVIOUS
    <2>1. FinOut(CongestionLoss(c, "fast"))
      BY FinOperators
    <2>2. /\ FinOut([c EXCEPT !.dupAcks = 0]) /\ FinOut([c EXCEPT !.dupAcks = c.dupAcks + 1])
          /\ FinOut([CongestionLoss(c, "fast") EXCEPT !.dupAcks = 0])
      BY <2>1, FinStays
    <2> QED
      BY <2>2, Zenon DEF DuplicateAcknowledgement
  <1> QED
    BY <1>1, <1>2, <1>3, <1>4

LEMMA FinDrain ==
  ASSUME FinOut(conn), Drain
  PROVE  FinOut(conn')
  <1>1. FinOut(Stop(conn)) /\ FinOut(CheckRecovery(conn, q)) /\ FinOut(Stop(CheckRecovery(conn, q)))
    <2>1. FinOut(CheckRecovery(conn, q))
      BY FinOperators
    <2> QED
      BY <2>1, FinOperators
  <1>2. CASE DrainEmpty
    BY <1>1, <1>2, FinHandlers DEF DrainEmpty
  <1>3. CASE DrainTransportFull \/ DrainNoRoom \/ DrainRateLimited
    BY <1>1, <1>3, Zenon DEF DrainTransportFull, DrainNoRoom, DrainRateLimited
  <1>4. ASSUME NEW burstEnds \in BOOLEAN, NEW fills \in BOOLEAN, DrainSend(burstEnds, fills)
        PROVE  FinOut(conn')
    <2> DEFINE sent == SendBytes(CheckRecovery(conn, q), ToSend(conn))
    <2>1. FinOut(sent)
      BY <1>1, FinOperators
    <2>2. FinOut(Stop(sent))
      BY <2>1, FinOperators
    <2>3. conn' = sent \/ conn' = Stop(sent) \/ \E p : MaybeFin(Stop(sent), p)
      BY <1>4, Zenon DEF DrainSend
    <2> HIDE DEF sent
    <2> QED
      BY <2>1, <2>2, <2>3, FinHandlers
  <1> QED
    BY <1>2, <1>3, <1>4, Zenon DEF Drain

LEMMA FinVmSegment ==
  ASSUME FinOut(conn), NEW ack, NEW window, NEW kind, NEW older,
         VmSegment(ack, window, kind, older)
  PROVE  FinOut(conn')
  <1> DEFINE acked == Acknowledge(q, ack)
             updated == [conn EXCEPT !.vmWindow = IF older THEN @ ELSE window]
             cleared == [updated EXCEPT !.dupAcks = 0, !.fastAck = None]
             credited == CongestionAck(cleared, acked, q.inFlight - acked.inFlight, ack)
             opened == IF conn.state = "SYN_SENT" THEN [credited EXCEPT !.state = "ESTABLISHED"]
                       ELSE credited
             again == [updated EXCEPT !.dupAcks = 0]
  <1>1. FinOut(updated) /\ FinOut(cleared) /\ FinOut(again)
    BY Zenon DEF FinOut
  <1>2. FinOut(credited)
    BY <1>1, FinOperators
  <1>3. FinOut(opened)
    <2> HIDE DEF credited
    <2> QED
      BY <1>2, FinStays
  <1>4. \/ \E p : Finish(opened, p) \/ Finish(updated, p)
        \/ \E p, w, after : TrySend(opened, p, w, after) \/ TrySend(again, p, w, after)
        \/ \E p : DuplicateAcknowledgement(updated, p, ack)
        \/ conn' = updated
    BY Zenon DEF VmSegment
  <1> HIDE DEF updated, opened, again
  <1> QED
    BY <1>1, <1>3, <1>4, FinHandlers

LEMMA FinOthers ==
  ASSUME FinOut(conn)
  PROVE  /\ PacerReady \/ ImmediateRuns \/ RateTimerFires => FinOut(conn')
         /\ \A bytes : SourceData(bytes) => FinOut(conn')
         /\ SourceEnd \/ LocalClose => FinOut(conn')
         /\ SendAgain => FinOut(conn')
         /\ PeerFin => FinOut(conn')
         /\ \A ack, window : SynAck(ack, window) => FinOut(conn')
         /\ SynAgain => FinOut(conn')
         /\ RetransmissionTimer => FinOut(conn')
         /\ WebsocketFills \/ WebsocketDrains \/ Abort \/ LingerEnds => FinOut(conn')
  <1>1. PacerReady \/ ImmediateRuns \/ RateTimerFires => FinOut(conn')
    BY FinHandlers, Zenon DEF PacerReady, ImmediateRuns, RateTimerFires
  <1>2. \A bytes : SourceData(bytes) => FinOut(conn')
    <2>1. \A bytes : FinOut(Enqueue(conn, bytes))
      BY FinOperators
    <2> QED
      BY <2>1, FinHandlers, Zenon DEF SourceData
  <1>3. SourceEnd \/ LocalClose => FinOut(conn')
    <2>1. FinOut([conn EXCEPT !.pendingFin = TRUE])
      BY FinStays
    <2> QED
      BY <2>1, FinHandlers, Zenon DEF SourceEnd, LocalClose
  <1>4. SendAgain => FinOut(conn')
    <2>1. FinOut([conn EXCEPT !.dupAcks = 0])
      BY FinStays
    <2> QED
      BY <2>1, FinHandlers, Zenon DEF SendAgain
  <1>5. PeerFin => FinOut(conn')
    <2> DEFINE closing == [conn EXCEPT !.peerFin = TRUE, !.state = "CLOSING"]
    <2>1. FinOut(closing)
      BY Zenon DEF FinOut
    <2>2. PeerFin => conn' = conn \/ conn' = closing \/ Finish(closing, q)
      BY Zenon DEF PeerFin
    <2> HIDE DEF closing
    <2> QED
      BY <2>1, <2>2, FinHandlers
  <1>6. \A ack, window : SynAck(ack, window) => FinOut(conn')
    <2> SUFFICES ASSUME NEW ack, NEW window, SynAck(ack, window) PROVE FinOut(conn')
      OBVIOUS
    <2> DEFINE opened == [conn EXCEPT !.state = "ESTABLISHED", !.vmWindow = window]
    <2>1. FinOut(opened)
      BY Zenon DEF FinOut
    <2>2. conn' = conn \/ \E p, w, after : TrySend(opened, p, w, after)
      BY Zenon DEF SynAck
    <2> HIDE DEF opened
    <2> QED
      BY <2>1, <2>2, FinHandlers
  <1>7. SynAgain => FinOut(conn')
    BY FinOperators, Zenon DEF SynAgain
  <1>8. RetransmissionTimer => FinOut(conn')
    <2> SUFFICES ASSUME RetransmissionTimer PROVE FinOut(conn')
      OBVIOUS
    <2>1. \/ \E p : AbortWith(p)
          \/ conn' = CASE ProbeOutcome = "byte" -> SendBytes(conn, 1)
                       [] ProbeOutcome = "fin" -> SendFin(conn)
                       [] ProbeOutcome \in {"sent", "refused"} ->
                            IF Persisting(q) THEN conn ELSE CongestionLoss(conn, "timeout")
      BY Zenon DEF RetransmissionTimer
    <2>2. ProbeOutcome \in {"byte", "fin", "sent", "refused"}
      BY DEF ProbeOutcome
    <2>3. \/ \E p : AbortWith(p)
          \/ conn' = SendBytes(conn, 1) \/ conn' = SendFin(conn) \/ conn' = conn
          \/ conn' = CongestionLoss(conn, "timeout")
      <3> HIDE DEF ProbeOutcome
      <3> QED
        BY <2>1, <2>2
    <2> QED
      BY <2>3, FinOperators, Zenon DEF AbortWith
  <1>9. WebsocketFills \/ WebsocketDrains \/ Abort \/ LingerEnds => FinOut(conn')
    BY FinOperators, Zenon DEF WebsocketFills, WebsocketDrains, Abort, AbortWith, LingerEnds
  <1> QED
    BY <1>1, <1>2, <1>3, <1>4, <1>5, <1>6, <1>7, <1>8, <1>9

LEMMA FinRemains ==
  ASSUME FinOut(conn), [Next]_vars
  PROVE  FinOut(conn')
  <1>1. CASE UNCHANGED vars
    BY <1>1, Zenon DEF vars
  <1>2. CASE Drain
    BY <1>2, FinDrain
  <1>3. ASSUME NEW ack \in AckChoices, NEW window \in VmWindows,
               NEW kind \in {"pure", "data", "fin"}, NEW older \in BOOLEAN,
               VmSegment(ack, window, kind, older)
        PROVE  FinOut(conn')
    BY <1>3, FinVmSegment
  <1> QED
    BY <1>1, <1>2, <1>3, FinOthers, Zenon DEF Next

\* Only the close of the client, which sends nothing itself, makes it gone.
LEMMA ClientLeaves ==
  ASSUME IInv, [Next]_vars, ~ClientGone, ClientGone'
  PROVE  q'.nxt = q.nxt
  <1>1. CASE LocalClose
    <2> DEFINE c == [conn EXCEPT !.pendingFin = TRUE]
    <2>1. q' = q \/ q' = SetPersist(q, ShouldPersist(c, q), "sent")
      BY <1>1, Zenon DEF LocalClose, TrySend
    <2>2. ShouldPersist(c, q) \in BOOLEAN
      BY DEF ShouldPersist
    <2> HIDE DEF c
    <2>3. q \in Queue
      BY Parts DEF Held
    <2>4. \A enabled \in BOOLEAN : SetPersist(q, enabled, "sent").nxt = q.nxt
      BY <2>3, SetPersistKeeps, Zenon DEF Keeps, SameData, Emptied, EmitOutcomes
    <2> QED
      BY <2>1, <2>2, <2>4
  <1>2. ASSUME source'.kind = source.kind, source'.ends = source.ends PROVE FALSE
    BY <1>2, Zenon DEF ClientGone
  <1>3. source \in Source
    BY Parts
  <1>4. ASSUME NEW bytes, SourceData(bytes) PROVE FALSE
    <2>1. source'.kind = source.kind /\ source'.ends = source.ends
      BY <1>3, <1>4, Zenon DEF SourceData, Source
    <2> QED
      BY <1>2, <2>1
  <1>5. CASE SourceEnd
    <2>1. source'.kind = source.kind /\ source'.ends = source.ends \ {"end"}
      BY <1>3, <1>5, Zenon DEF SourceEnd, Source
    <2>2. "localClose" # "end"
      OBVIOUS
    <2> QED
      BY <2>1, <2>2 DEF ClientGone
  <1>6. CASE source' = source
    BY <1>2, <1>6
  <1>7. ASSUME Drain PROVE source' = source
    BY <1>7, Zenon DEF Drain, DrainEmpty, DrainTransportFull, DrainNoRoom, DrainRateLimited, DrainSend
  <1>8. ASSUME NEW ack, NEW window, NEW kind, NEW older, VmSegment(ack, window, kind, older)
        PROVE  source' = source
    BY <1>8, Zenon DEF VmSegment
  <1>9. ASSUME NEW ack, NEW window, SynAck(ack, window) PROVE source' = source
    BY <1>9, Zenon DEF SynAck
  <1>10. ASSUME RetransmissionTimer PROVE source' = source
    BY <1>10, Zenon DEF RetransmissionTimer, AbortWith
  <1>11. ASSUME \/ PacerReady \/ ImmediateRuns \/ RateTimerFires \/ SendAgain \/ PeerFin
                \/ SynAgain \/ WebsocketFills \/ WebsocketDrains \/ Abort \/ LingerEnds
         PROVE  source' = source
    BY <1>11, Zenon DEF PacerReady, ImmediateRuns, RateTimerFires, SendAgain, PeerFin, SynAgain,
                        WebsocketFills, WebsocketDrains, Abort, AbortWith, LingerEnds
  <1>12. CASE UNCHANGED vars
    BY <1>6, <1>12, Zenon DEF vars
  <1> QED
    BY <1>1, <1>4, <1>5, <1>6, <1>7, <1>8, <1>9, <1>10, <1>11, <1>12, Zenon DEF Next

LEMMA StreamIsOver ==
  ASSUME IInv, [Next]_vars, conn.finSent, ~ClientGone
  PROVE  q'.nxt = q.nxt
  <1>1. CASE ClientGone'
    BY <1>1, ClientLeaves
  <1>2. CASE ~ClientGone'
    <2>1. IInv /\ IInv'
      BY NextInv
    <2>2. NothingLostOrRepeated
      BY <2>1, InvNumbers
    <2>3. NothingLostOrRepeated /\ NothingLostOrRepeated'
      <3>1. IInv' => NothingLostOrRepeated'
        BY InvNumbers, PTL
      <3> QED
        BY <2>1, <2>2, <3>1
    <2>4. conn'.finSent
      <3>1. FinOut(conn)
        BY Parts, Zenon DEF FinOut, Conn
      <3> QED
        BY <3>1, FinRemains DEF FinOut
    <2>5. /\ q.nxt = (InitialSequence + 1 + BytesSent + FinsSent) % SeqSpace
          /\ source.left = 0 /\ conn.queued = 0
      BY <2>3 DEF NothingLostOrRepeated
    <2>6. /\ q'.nxt = (InitialSequence + 1 + BytesSent' + FinsSent') % SeqSpace
          /\ source'.left = 0 /\ conn'.queued = 0
      BY <1>2, <2>3, <2>4 DEF NothingLostOrRepeated
    <2>7. BytesSent' = BytesSent /\ FinsSent' = FinsSent
      BY <2>4, <2>5, <2>6 DEF BytesSent, FinsSent
    <2> QED
      BY <2>5, <2>6, <2>7
  <1> QED
    BY <1>1, <1>2

\* FIN is the last: once it has a number nothing takes a new one, neither data nor FIN
\* again, from the drain loop, a probe or a window update (maybeSendTCPFin,
\* maybeSendReverseFin, onPersistProbe).  It is what relay.js:1932 says of the FIN flag,
\* for every connection but that of a forwarding rule whose client has closed, of which
\* FinIsLast is false.
THEOREM NothingAfterFin ==
  Spec => [][ ~ClientGone /\ conn.finSent => q'.nxt = q.nxt ]_vars
  <1>1. IInv /\ [Next]_vars => [~ClientGone /\ conn.finSent => q'.nxt = q.nxt]_vars
    BY StreamIsOver
  <1> QED
    BY <1>1, Invariant, PTL DEF Spec

\* A connection uses its queue as RetransmissionQueue takes for granted: it never has half
\* of the sequence space outstanding (DoTrack's Room), which here follows from the windows,
\* FIN and the byte of a probe.  So in the connection too the segments lie end to end
\* over exactly the numbers in use, payloadBytesInFlight is their payload, and the
\* timer is armed when there is something to wait for and not otherwise.
THEOREM QueueStaysWhole ==
  Spec => [](/\ Outstanding(q) < Half
             /\ q.inFlight = PayloadBytes(q.segs)
             /\ ~Closed(q) => Consistent(q.segs) /\ Laid(q.segs, q.una, q.nxt)
             /\ TimerFollows(q))
  <1>1. IInv => /\ Outstanding(q) < Half
                /\ q.inFlight = PayloadBytes(q.segs)
                /\ ~Closed(q) => Consistent(q.segs) /\ Laid(q.segs, q.una, q.nxt)
                /\ TimerFollows(q)
    <2> SUFFICES ASSUME IInv
                 PROVE  /\ Outstanding(q) < Half
                        /\ q.inFlight = PayloadBytes(q.segs)
                        /\ ~Closed(q) => Consistent(q.segs) /\ Laid(q.segs, q.una, q.nxt)
                        /\ TimerFollows(q)
      OBVIOUS
    <2>1. q \in Queue /\ TimerFollows(q) /\ Sound(q, q.una)
      BY Parts DEF Held
    <2>2. q.inFlight = PayloadBytes(q.segs)
      BY <2>1, QueueFields, PayloadIs DEF Sound
    <2> QED
      BY <2>1, <2>2 DEF Sound
  <1> QED
    BY <1>1, Invariant, PTL
=============================================================================
