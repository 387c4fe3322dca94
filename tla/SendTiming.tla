------------------------------ MODULE SendTiming ------------------------------
(***************************************************************************)
(* When the connections of one VM may send: all those the VM opened share  *)
(* the session's rate limiter, and every connection has a pacer (relay.js, *)
(* rate_limiter.js, tcp_pacer.js).  Time passes in ticks; timers count     *)
(* down by it and are never early, but may be late, while the limiter and  *)
(* the pacers read the clock of the host, which may be set back.           *)
(*                                                                         *)
(* The windows of the VM, congestion and the websocket always let a        *)
(* segment through here: TcpEgress has them, and this chance instead of    *)
(* that choice.  drainTCPToVM sends a segment per step, as there; no other *)
(* handler runs meanwhile, but the clock does.                             *)
(*                                                                         *)
(* Seeded faults, used to see that the properties can fail:                *)
(* FirstCountedLate of RateLimiter, NoteAckUnbounded and RestedEarly of    *)
(* TcpPacer, and RefusedForgets.                                           *)
(***************************************************************************)
EXTENDS RateLimiter, TcpPacer

CONSTANTS
  Conns,           \* connections of the VM: a bound of the model
  Long,            \* those with more than one segment to send
  StreamBytes,     \* bytes these have to send: a bound of the model
  Chunks,          \* sizes of what the sources deliver: a bound of the model
  Mss,             \* tcpMss(conn)
  Windows,         \* congestion windows: a bound of the model
  RetryMs,         \* delay before a refused connection asks again, 20
  MaxSetBack       \* ticks by which the clock is set back in all: a bound

ASSUME TimingAssumption ==
  /\ Long \subseteq Conns
  /\ {StreamBytes, MaxSetBack} \subseteq Nat
  /\ {Mss, RetryMs} \subseteq Nat \ {0}
  /\ Chunks \subseteq Nat \ {0}
  /\ Windows \subseteq Nat

VARIABLES
  limiter,   \* session.rateLimiter
  forward,   \* the connections the VM opened
  conn,      \* the fields of each connection
  retries,   \* of each connection, what its setTimeout calls have left
  setBack,   \* by how much the clock has been set back
  spent,     \* history: bytes accepted by the limiter, by true age
  bursts     \* history: segments each connection has sent, by true age

vars == <<limiter, forward, conn, retries, setBack, spent, bursts>>

Ages(limit) == -MaxSetBack .. limit + MaxSetBack

Longest == Max({StreamBytes, Mss})

TypeOK ==
  /\ limiter \in [entries : Seq([age : Ages(WindowMs), bytes : 1 .. MaxBytes]),
                  head : Nat, total : 0 .. MaxBytes]
  /\ limiter.head <= Len(limiter.entries)
  /\ forward \subseteq Conns
  /\ conn \in [Conns -> [left : 0 .. Longest, queued : 0 .. Longest,
                         flight : 0 .. Longest, sending : BOOLEAN, open : BOOLEAN,
                         pacer : [mode : Modes, burst : InitialBurst .. MaxBurst,
                                  inBurst : 0 .. MaxBurst - 1, acked : 0 .. Longest,
                                  last : Ages(IntervalMs) \cup {None}, blocked : BOOLEAN,
                                  timer : 0 .. IntervalMs \cup {None}]]]
  /\ retries \in [Conns -> SUBSET (0 .. RetryMs)]
  /\ setBack \in 0 .. MaxSetBack
  /\ spent \in [0 .. WindowMs - 1 -> Nat]
  /\ bursts \in [Conns -> [0 .. IntervalMs - 1 -> Nat]]

Init ==
  /\ limiter = NewLimiter
  /\ forward \in SUBSET Conns
  /\ \E mode \in Modes :
       conn = [c \in Conns |-> [left |-> IF c \in Long THEN StreamBytes ELSE Mss, queued |-> 0, flight |-> 0,
                                sending |-> FALSE, open |-> TRUE, pacer |-> NewPacer(mode)]]
  /\ retries = [c \in Conns |-> {}]
  /\ setBack = 0
  /\ spent = [age \in 0 .. WindowMs - 1 |-> 0]
  /\ bursts = [c \in Conns |-> [age \in 0 .. IntervalMs - 1 |-> 0]]

\* No handler is running: the event loop may start one.
Quiet == \A c \in Conns : ~conn[c].sending
-----------------------------------------------------------------------------
(* drainTCPToVM.                                                           *)

\* trySendToVM, trySendReverseToVM: start the loop of connection r, if it may.
TrySend(r) == [r EXCEPT !.sending = ~r.pacer.blocked]

DrainEmpty(c) ==
  /\ conn[c].sending
  /\ conn[c].queued = 0
  /\ conn' = [conn EXCEPT ![c].sending = FALSE]
  /\ UNCHANGED <<limiter, forward, retries, setBack, spent, bursts>>

ToSend(c) == Min({Mss, conn[c].queued})

RefusedForgets(c) == retries[c]

Refused(c) == retries[c] \cup {RetryMs}

DrainRefused(c) ==
  /\ conn[c].sending
  /\ conn[c].queued > 0
  /\ c \in forward
  /\ ~Fits(limiter, ToSend(c))
  /\ limiter' = Prune(limiter)
  /\ conn' = [conn EXCEPT ![c].sending = FALSE]
  /\ retries' = [retries EXCEPT ![c] = Refused(c)]
  /\ UNCHANGED <<forward, setBack, spent, bursts>>

DrainSend(c) ==
  LET bytes == ToSend(c)
      paced == NoteSegment(conn[c].pacer)
  IN /\ conn[c].sending
     /\ conn[c].queued > 0
     /\ IF c \in forward
        THEN /\ Fits(limiter, bytes)
             /\ limiter' = Consumed(limiter, bytes)
             /\ spent' = [spent EXCEPT ![0] = @ + bytes]
        ELSE UNCHANGED <<limiter, spent>>
     /\ bursts' = IF paced.mode = "off" THEN bursts ELSE [bursts EXCEPT ![c][0] = @ + 1]
     /\ conn' = [conn EXCEPT ![c].queued = @ - bytes, ![c].flight = @ + bytes,
                              ![c].pacer = paced,
                              ![c].sending = ~paced.blocked /\ conn[c].queued > bytes]
     /\ UNCHANGED <<forward, retries, setBack>>
-----------------------------------------------------------------------------
(* The handlers that start it, and those that tell the pacer.              *)

Handled(c, r) == Quiet /\ conn[c].open /\ conn' = [conn EXCEPT ![c] = r]

SourceData(c, bytes) ==
  /\ bytes <= conn[c].left
  /\ Handled(c, TrySend([conn[c] EXCEPT !.left = @ - bytes, !.queued = @ + bytes]))
  /\ UNCHANGED <<limiter, forward, retries, setBack, spent, bursts>>

\* An acknowledgement outside of recovery, of all that has been sent.
Acknowledged(c, window) ==
  /\ conn[c].flight > 0
  /\ Handled(c, TrySend([conn[c] EXCEPT !.flight = 0,
                                        !.pacer = NoteAck(@, conn[c].flight, window)]))
  /\ UNCHANGED <<limiter, forward, retries, setBack, spent, bursts>>

\* Three duplicate acknowledgements, or a retransmission timeout.
Loss(c) ==
  /\ conn[c].flight > 0
  /\ Handled(c, [conn[c] EXCEPT !.pacer = NoteLoss(@)])
  /\ UNCHANGED <<limiter, forward, retries, setBack, spent, bursts>>

PacerReady(c) ==
  /\ conn[c].pacer.timer = 0
  /\ Handled(c, TrySend([conn[c] EXCEPT !.pacer = Ready(@)]))
  /\ UNCHANGED <<limiter, forward, retries, setBack, spent, bursts>>

\* A connection that is gone is no longer found.
RetryFires(c) ==
  /\ Quiet
  /\ 0 \in retries[c]
  /\ retries' = [retries EXCEPT ![c] = @ \ {0}]
  /\ conn' = [conn EXCEPT ![c] = IF @.open THEN TrySend(@) ELSE @]
  /\ UNCHANGED <<limiter, forward, setBack, spent, bursts>>

\* The abort and finish functions, and the end of the session.
CloseConn(c) ==
  /\ Handled(c, [conn[c] EXCEPT !.open = FALSE, !.pacer = ClosePacer(@)])
  /\ UNCHANGED <<limiter, forward, retries, setBack, spent, bursts>>
-----------------------------------------------------------------------------
(* Time.                                                                   *)

CountDown(left) == Max({left - 1, 0})

\* By the clock; no more is told apart than a clock set back may make a difference of.
Older(age, limit) == Min({age + 1, limit + MaxSetBack})

Shifted(history) ==
  [age \in DOMAIN history |-> IF age = 0 THEN 0 ELSE history[age - 1]]

Tick ==
  /\ limiter' = [limiter EXCEPT !.entries =
                  [i \in DOMAIN @ |-> [@[i] EXCEPT !.age = Older(limiter.entries[i].age, WindowMs)]]]
  /\ conn' = [c \in Conns |->
               [conn[c] EXCEPT
                 !.pacer.last = IF @ = None THEN None ELSE Older(@, IntervalMs),
                 !.pacer.timer = IF @ = None THEN None ELSE CountDown(@)]]
  /\ retries' = [c \in Conns |-> {CountDown(left) : left \in retries[c]}]
  /\ spent' = Shifted(spent)
  /\ bursts' = [c \in Conns |-> Shifted(bursts[c])]
  /\ UNCHANGED <<forward, setBack>>

ClockSetBack ==
  /\ setBack < MaxSetBack
  /\ setBack' = setBack + 1
  /\ limiter' = [limiter EXCEPT !.entries =
                  [i \in DOMAIN @ |-> [@[i] EXCEPT !.age = limiter.entries[i].age - 1]]]
  /\ conn' = [c \in Conns |->
               [conn[c] EXCEPT !.pacer.last = IF @ = None THEN None ELSE @ - 1]]
  /\ UNCHANGED <<forward, retries, spent, bursts>>

Next ==
  \/ \E c \in Conns :
       \/ DrainEmpty(c) \/ DrainRefused(c) \/ DrainSend(c)
       \/ \E bytes \in Chunks : SourceData(c, bytes)
       \/ \E window \in Windows : Acknowledged(c, window)
       \/ Loss(c) \/ PacerReady(c) \/ RetryFires(c) \/ CloseConn(c)
  \/ Tick
  \/ ClockSetBack

Spec == Init /\ [][Next]_vars
-----------------------------------------------------------------------------
(* Safety.                                                                 *)

Total(history, span) == SumOf(history, -1, span - 1)

\* "Bytes accepted at the same timestamp expire together, so one entry preserves the
\* exact limit" (rate_limiter.js:34).  In no WindowMs does the session send more than
\* MaxBytes to the VM on the connections it opened, however their segments, the late
\* pruning and the cutting of the list fall; what the limiter counts is what was
\* accepted in that time, no less, and no more either unless the clock was set back.
WindowExact ==
  LET usage == Prune(limiter).total
      accepted == Total(spent, WindowMs)
  IN /\ usage = Counted(Prune(limiter))
     /\ accepted <= usage /\ usage <= MaxBytes
     /\ setBack = 0 => usage = accepted

\* A paced connection sends no more than a burst's segments within any IntervalMs,
\* though bursts end by a rest as well as by the timer, which may be late: InitialBurst
\* in the fixed mode, in the adaptive one, where bursts grow and shrink even while one
\* is under way, never more than MaxBurst.  And it is blocked only with its timer
\* armed (noteSegment, noteAck, noteLoss, close).
BurstBounded ==
  \A c \in Conns :
    LET pacer == conn[c].pacer
    IN /\ Total(bursts[c], IntervalMs) <= IF pacer.mode = "fixed" THEN InitialBurst ELSE MaxBurst
       /\ pacer.blocked <=> pacer.timer # None
-----------------------------------------------------------------------------
(* Liveness: time passes, and Node runs what is due.                       *)

FairSpec ==
  /\ Spec
  /\ WF_vars(Tick)
  /\ \A c \in Conns :
       /\ WF_vars(DrainEmpty(c) \/ DrainRefused(c) \/ DrainSend(c))
       /\ WF_vars(PacerReady(c))
       /\ WF_vars(RetryFires(c))

\* What a connection has queued is sent in the end, through refusals, bursts and a
\* clock set back, while the others send too; provided a segment fits into what the
\* limiter allows for at all, which RATE_LIMIT_KBPS = 1 does not grant (drainTCPToVM,
\* tryConsume).
AllSent ==
  Mss <= MaxBytes =>
    \A c \in Conns : conn[c].queued > 0 ~> conn[c].queued = 0 \/ ~conn[c].open
=============================================================================
