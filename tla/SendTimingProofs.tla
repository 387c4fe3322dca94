--------------------------- MODULE SendTimingProofs ---------------------------
(***************************************************************************)
(* What holds of SendTiming for any window, burst, interval and number of  *)
(* connections: the limiter never counts less than was sent in its window, *)
(* and a paced connection never sends more than a burst in its interval.   *)
(***************************************************************************)
EXTENDS SendTiming, SequenceTheorems, NaturalsInduction, WellFoundedInduction, TLAPS

-----------------------------------------------------------------------------
(* Sums.  SumOf is defined by recursion; all that is used of it is that it *)
(* is zero over nothing, and what one more number adds.                    *)

LEMMA LeastOf ==
  ASSUME NEW S \in SUBSET Nat, S # {}
  PROVE  \E x \in S : \A y \in S : x <= y
  <1>1. PICK x \in S : \A y \in S : ~ (<<y, x>> \in OpToRel(<, Nat))
    BY NatLessThanWellFounded, WFMin, Zenon
  <1>2. \A y \in S : ~ (y < x)
    BY <1>1 DEF OpToRel
  <1> QED
    BY <1>2

\* Induction along an interval.
LEMMA Climb ==
  ASSUME NEW from \in Int, NEW to \in Int, from <= to, NEW S, from \in S,
         \A n \in from .. to - 1 : n \in S => n + 1 \in S
  PROVE  to \in S
  <1> DEFINE Missing == {k \in Nat : from + k <= to /\ from + k \notin S}
  <1>1. ASSUME Missing # {} PROVE FALSE
    <2>1. PICK k \in Missing : \A j \in Missing : k <= j
      BY <1>1, LeastOf, Zenon
    <2>2. k \in Nat /\ from + k <= to /\ from + k \notin S
      BY <2>1
    <2>3. k # 0
      BY <2>2, SMT
    <2>4. /\ k - 1 \in Nat /\ from + (k - 1) <= to /\ ~ (k <= k - 1)
          /\ from + (k - 1) \in from .. to - 1 /\ from + (k - 1) + 1 = from + k
      BY <2>2, <2>3, SMT
    <2>5. from + (k - 1) \in S
      BY <2>1, <2>4, Zenon
    <2> QED
      BY <2>2, <2>4, <2>5, Zenon
  <1>2. to - from \in Nat /\ from + (to - from) = to /\ to <= to
    BY SMT
  <1>3. to - from \notin Missing
    BY <1>1, Zenon
  <1> QED
    BY <1>2, <1>3, Zenon

\* g is the function of the sums of f after from, as far as to.
Sums(f, from, to, g) ==
  g = [i \in from .. to |-> IF i = from THEN 0 ELSE g[i - 1] + f[i]]

LEMMA SumsStep ==
  ASSUME NEW f, NEW from, NEW to, NEW g, Sums(f, from, to, g), NEW i \in from .. to
  PROVE  /\ i = from => g[i] = 0
         /\ i # from => g[i] = g[i - 1] + f[i]
  <1>1. \A k \in from .. to :
          [j \in from .. to |-> IF j = from THEN 0 ELSE g[j - 1] + f[j]][k]
            = IF k = from THEN 0 ELSE g[k - 1] + f[k]
    BY Zenon
  <1>2. g = [j \in from .. to |-> IF j = from THEN 0 ELSE g[j - 1] + f[j]]
    BY Zenon DEF Sums
  <1> QED
    BY <1>1, <1>2, Zenon

LEMMA SumsUnique ==
  ASSUME NEW f, NEW from \in Int, NEW to \in Int, NEW other \in Int, NEW g, NEW h,
         Sums(f, from, to, g), Sums(f, from, other, h),
         NEW n \in Int, from <= n, n <= to, n <= other
  PROVE  g[n] = h[n]
  <1> DEFINE Same == {k \in from .. n : g[k] = h[k]}
  <1>1. /\ from \in from .. n /\ n \in Int
        /\ \A k \in from .. n : k \in from .. to /\ k \in from .. other
    BY SMT
  <1>2. from \in Same
    BY <1>1, SumsStep
  <1>3. ASSUME NEW k \in from .. n - 1, k \in Same PROVE k + 1 \in Same
    <2>1. k + 1 \in from .. n /\ k + 1 # from /\ k + 1 - 1 = k
      BY SMT
    <2>2. g[k + 1] = g[k] + f[k + 1] /\ h[k + 1] = h[k] + f[k + 1]
      BY <1>1, <2>1, SumsStep
    <2> QED
      BY <1>3, <2>1, <2>2, Zenon
  <1> HIDE DEF Same
  <1>4. n \in Same
    BY <1>1, <1>2, <1>3, Climb
  <1> QED
    BY <1>4 DEF Same

LEMMA SumsExtended ==
  ASSUME NEW f, NEW from \in Int, NEW to \in Int, from <= to, NEW g, Sums(f, from, to, g)
  PROVE  \E h : Sums(f, from, to + 1, h)
  <1> DEFINE h == [i \in from .. to + 1 |-> IF i = to + 1 THEN g[to] + f[to + 1] ELSE g[i]]
             Step(i) == IF i = from THEN 0 ELSE h[i - 1] + f[i]
  <1>1. ASSUME NEW i \in from .. to + 1 PROVE h[i] = Step(i)
    <2>1. CASE i = to + 1
      <3>1. i # from /\ i - 1 = to /\ to \in from .. to + 1 /\ to # to + 1
        BY <2>1, SMT
      <3>2. h[i] = g[to] + f[to + 1] /\ h[to] = g[to]
        BY <2>1, <3>1, Zenon
      <3> QED
        BY <2>1, <3>1, <3>2, Zenon
    <2>2. CASE i # to + 1
      <3>1. i \in from .. to /\ h[i] = g[i]
        BY <2>2, SMT
      <3>2. /\ i = from => g[i] = 0
            /\ i # from => g[i] = g[i - 1] + f[i]
        BY <3>1, SumsStep
      <3>3. i # from => i - 1 \in from .. to + 1 /\ i - 1 # to + 1
        BY <3>1, SMT
      <3>4. i # from => h[i - 1] = g[i - 1]
        BY <3>3, Zenon
      <3> QED
        BY <3>1, <3>2, <3>4, Zenon
    <2> QED
      BY <2>1, <2>2
  <1>2. h = [i \in from .. to + 1 |-> Step(i)]
    BY <1>1, Zenon
  <1> QED
    BY <1>2, Zenon DEF Sums

LEMMA SumsExist ==
  ASSUME NEW f, NEW from \in Int, NEW to \in Int, from <= to
  PROVE  \E g : Sums(f, from, to, g)
  <1> DEFINE Reached == {n \in from .. to : \E g : Sums(f, from, n, g)}
  <1>1. from \in Reached
    <2> DEFINE g == [i \in from .. from |-> 0]
    <2>1. \A i \in from .. from : i = from /\ g[i] = 0
      BY SMT
    <2>2. g = [i \in from .. from |-> IF i = from THEN 0 ELSE g[i - 1] + f[i]]
      BY <2>1, Zenon
    <2>3. Sums(f, from, from, g) /\ from \in from .. to
      BY <2>2, SMT DEF Sums
    <2> QED
      BY <2>3, Zenon
  <1>2. ASSUME NEW n \in from .. to - 1, n \in Reached PROVE n + 1 \in Reached
    <2>1. n \in Int /\ from <= n /\ n + 1 \in from .. to
      BY SMT
    <2>2. \E h : Sums(f, from, n + 1, h)
      BY <1>2, <2>1, SumsExtended, Zenon
    <2> QED
      BY <2>1, <2>2, Zenon
  <1> HIDE DEF Reached
  <1>3. to \in Reached
    BY <1>1, <1>2, Climb
  <1> QED
    BY <1>3 DEF Reached

\* SumOf picks one such function.
LEMMA SumOfIs ==
  ASSUME NEW f, NEW from \in Int, NEW to \in Int, from <= to
  PROVE  \E g : Sums(f, from, to, g) /\ SumOf(f, from, to) = g[to]
  <1> DEFINE Recursive(g) == g = [i \in from .. to |-> IF i = from THEN 0 ELSE g[i - 1] + f[i]]
             chosen == CHOOSE g : Recursive(g)
  <1>1. SumOf(f, from, to) = chosen[to]
    BY Zenon DEF SumOf
  <1>2. \E g : Recursive(g)
    <2>1. PICK g : Sums(f, from, to, g)
      BY SumsExist, Zenon
    <2>2. Recursive(g)
      BY <2>1, Zenon DEF Sums
    <2> QED
      BY <2>2, Zenon
  <1>3. Recursive(chosen)
    BY <1>2, Zenon
  <1> HIDE DEF chosen
  <1>4. Sums(f, from, to, chosen)
    BY <1>3, Zenon DEF Sums
  <1> QED
    BY <1>1, <1>4, Zenon

LEMMA SumNothing ==
  ASSUME NEW f, NEW from \in Int
  PROVE  SumOf(f, from, from) = 0
  <1>1. PICK g : Sums(f, from, from, g) /\ SumOf(f, from, from) = g[from]
    BY SumOfIs, Zenon, SMT
  <1>2. from \in from .. from
    BY SMT
  <1> QED
    BY <1>1, <1>2, SumsStep

LEMMA SumNext ==
  ASSUME NEW f, NEW from \in Int, NEW to \in Int, from <= to
  PROVE  SumOf(f, from, to + 1) = SumOf(f, from, to) + f[to + 1]
  <1>1. to + 1 \in Int /\ from <= to + 1 /\ to <= to + 1 /\ to <= to
    BY SMT
  <1>2. PICK g : Sums(f, from, to, g) /\ SumOf(f, from, to) = g[to]
    BY SumOfIs, Zenon
  <1>3. PICK h : Sums(f, from, to + 1, h) /\ SumOf(f, from, to + 1) = h[to + 1]
    BY <1>1, SumOfIs, Zenon
  <1>4. g[to] = h[to]
    BY <1>1, <1>2, <1>3, SumsUnique
  <1>5. to + 1 \in from .. to + 1 /\ to + 1 # from /\ to + 1 - 1 = to
    BY SMT
  <1>6. h[to + 1] = h[to] + f[to + 1]
    BY <1>3, <1>5, SumsStep
  <1> QED
    BY <1>2, <1>3, <1>4, <1>6

Naturals(f, from, to) == \A i \in from + 1 .. to : f[i] \in Nat

LEMMA SumType ==
  ASSUME NEW f, NEW from \in Int, NEW to \in Int, from <= to, Naturals(f, from, to)
  PROVE  SumOf(f, from, to) \in Nat
  <1> DEFINE S == {n \in from .. to : SumOf(f, from, n) \in Nat}
  <1>1. from \in S
    BY SumNothing, SMT
  <1>2. ASSUME NEW n \in from .. to - 1, n \in S PROVE n + 1 \in S
    <2>1. n \in Int /\ from <= n /\ n + 1 \in from .. to /\ n + 1 \in from + 1 .. to
      BY SMT
    <2>2. SumOf(f, from, n + 1) = SumOf(f, from, n) + f[n + 1]
      BY <2>1, SumNext
    <2> QED
      BY <1>2, <2>1, <2>2 DEF Naturals
  <1> HIDE DEF S
  <1>3. to \in S
    BY <1>1, <1>2, Climb
  <1> QED
    BY <1>3 DEF S

LEMMA SumZero ==
  ASSUME NEW f, NEW from \in Int, NEW to \in Int, from <= to,
         \A i \in from + 1 .. to : f[i] = 0
  PROVE  SumOf(f, from, to) = 0
  <1> DEFINE S == {n \in from .. to : SumOf(f, from, n) = 0}
  <1>1. from \in S
    BY SumNothing, SMT
  <1>2. ASSUME NEW n \in from .. to - 1, n \in S PROVE n + 1 \in S
    <2>1. n \in Int /\ from <= n /\ n + 1 \in from .. to /\ n + 1 \in from + 1 .. to
      BY SMT
    <2>2. SumOf(f, from, n + 1) = SumOf(f, from, n) + f[n + 1]
      BY <2>1, SumNext
    <2> QED
      BY <1>2, <2>1, <2>2
  <1> HIDE DEF S
  <1>3. to \in S
    BY <1>1, <1>2, Climb
  <1> QED
    BY <1>3 DEF S

\* The same numbers under other indices.
Alike(f, g, from, to, d) == \A i \in from + 1 .. to : f[i] = g[i + d]

LEMMA SumMoved ==
  ASSUME NEW f, NEW g, NEW from \in Int, NEW to \in Int, from <= to, NEW d \in Int,
         Alike(f, g, from, to, d)
  PROVE  SumOf(f, from, to) = SumOf(g, from + d, to + d)
  <1> DEFINE S == {n \in from .. to : SumOf(f, from, n) = SumOf(g, from + d, n + d)}
  <1>1. from \in S
    <2>1. from \in from .. to /\ from + d \in Int
      BY SMT
    <2> QED
      BY <2>1, SumNothing
  <1>2. ASSUME NEW n \in from .. to - 1, n \in S PROVE n + 1 \in S
    <2>1. /\ n \in Int /\ from <= n /\ n + 1 \in from .. to /\ n + 1 \in from + 1 .. to
          /\ from + d \in Int /\ n + d \in Int /\ from + d <= n + d /\ n + d + 1 = n + 1 + d
      BY SMT
    <2>2. /\ SumOf(f, from, n + 1) = SumOf(f, from, n) + f[n + 1]
          /\ SumOf(g, from + d, n + d + 1) = SumOf(g, from + d, n + d) + g[n + d + 1]
      BY <2>1, SumNext
    <2>3. f[n + 1] = g[n + 1 + d]
      BY <2>1 DEF Alike
    <2> QED
      BY <1>2, <2>1, <2>2, <2>3, Zenon
  <1> HIDE DEF S
  <1>3. to \in S
    BY <1>1, <1>2, Climb
  <1> QED
    BY <1>3 DEF S

LEMMA SumSame ==
  ASSUME NEW f, NEW g, NEW from \in Int, NEW to \in Int, from <= to,
         \A i \in from + 1 .. to : f[i] = g[i]
  PROVE  SumOf(f, from, to) = SumOf(g, from, to)
  <1>1. PICK d \in Int : d = 0
    BY SMT
  <1>2. from + d = from /\ to + d = to /\ \A i \in from + 1 .. to : i + d = i
    BY <1>1, SMT
  <1>3. Alike(f, g, from, to, d)
    BY <1>2, Zenon DEF Alike
  <1>4. SumOf(f, from, to) = SumOf(g, from + d, to + d)
    BY <1>3, SumMoved
  <1> QED
    BY <1>2, <1>4, Zenon

LEMMA SumSplit ==
  ASSUME NEW f, NEW from \in Int, NEW to \in Int, NEW mid \in from .. to, Naturals(f, from, to)
  PROVE  /\ SumOf(f, from, to) = SumOf(f, from, mid) + SumOf(f, mid, to)
         /\ SumOf(f, from, mid) \in Nat /\ SumOf(f, mid, to) \in Nat
  <1> DEFINE S == {n \in mid .. to : SumOf(f, from, n) = SumOf(f, from, mid) + SumOf(f, mid, n)}
  <1>1. /\ mid \in Int /\ mid <= to /\ from <= mid /\ mid \in mid .. to
        /\ \A i \in from + 1 .. mid : i \in from + 1 .. to
        /\ \A i \in mid + 1 .. to : i \in from + 1 .. to
    BY SMT
  <1>2. SumOf(f, from, mid) \in Nat /\ SumOf(f, mid, to) \in Nat
    BY <1>1, SumType DEF Naturals
  <1>3. mid \in S
    BY <1>1, <1>2, SumNothing
  <1>4. ASSUME NEW n \in mid .. to - 1, n \in S PROVE n + 1 \in S
    <2>1. /\ n \in Int /\ from <= n /\ mid <= n /\ n + 1 \in mid .. to /\ n + 1 \in from + 1 .. to
          /\ \A i \in mid + 1 .. n : i \in from + 1 .. to
      BY <1>1, SMT
    <2>2. /\ SumOf(f, from, n + 1) = SumOf(f, from, n) + f[n + 1]
          /\ SumOf(f, mid, n + 1) = SumOf(f, mid, n) + f[n + 1]
      BY <1>1, <2>1, SumNext
    <2>3. SumOf(f, mid, n) \in Nat /\ f[n + 1] \in Nat
      BY <1>1, <2>1, SumType DEF Naturals
    <2>4. SumOf(f, from, n) = SumOf(f, from, mid) + SumOf(f, mid, n)
      BY <1>4
    <2> QED
      BY <1>2, <2>1, <2>2, <2>3, <2>4
  <1> HIDE DEF S
  <1>5. to \in S
    BY <1>1, <1>3, <1>4, Climb
  <1> QED
    BY <1>2, <1>5 DEF S

\* One of the numbers grows.
GrownAt(f, g, from, to, p, b) ==
  /\ Naturals(f, from, to)
  /\ g[p] = f[p] + b
  /\ \A i \in from + 1 .. to : i # p => g[i] = f[i]

LEMMA SumGrown ==
  ASSUME NEW f, NEW g, NEW from \in Int, NEW to \in Int, NEW p \in from + 1 .. to,
         NEW b \in Nat, GrownAt(f, g, from, to, p, b)
  PROVE  SumOf(g, from, to) = SumOf(f, from, to) + b
  <1>1. /\ p \in Int /\ p - 1 \in from .. to /\ p \in from .. to /\ from <= p - 1 /\ p <= to
        /\ p - 1 + 1 = p /\ p - 1 \in Int
        /\ \A i \in from + 1 .. p - 1 : i \in from + 1 .. to /\ i # p
        /\ \A i \in p + 1 .. to : i \in from + 1 .. to /\ i # p
    BY SMT
  <1>2. f[p] \in Nat /\ g[p] \in Nat /\ g[p] = f[p] + b
    BY SMT DEF GrownAt, Naturals
  <1>3. Naturals(f, from, to) /\ Naturals(g, from, to)
    BY <1>2 DEF GrownAt, Naturals
  <1>4. /\ SumOf(f, from, to) = SumOf(f, from, p) + SumOf(f, p, to)
        /\ SumOf(g, from, to) = SumOf(g, from, p) + SumOf(g, p, to)
        /\ SumOf(f, p, to) \in Nat
    BY <1>1, <1>3, SumSplit
  <1>5. SumOf(g, p, to) = SumOf(f, p, to)
    <2>1. \A i \in p + 1 .. to : g[i] = f[i]
      BY <1>1 DEF GrownAt
    <2> QED
      BY <1>1, <2>1, SumSame
  <1>6. SumOf(g, from, p - 1) = SumOf(f, from, p - 1)
    <2>1. \A i \in from + 1 .. p - 1 : g[i] = f[i]
      BY <1>1 DEF GrownAt
    <2> QED
      BY <1>1, <2>1, SumSame
  <1>7. SumOf(f, from, p - 1) \in Nat
    BY <1>1, <1>3, SumSplit
  <1>8. /\ SumOf(f, from, p - 1 + 1) = SumOf(f, from, p - 1) + f[p - 1 + 1]
        /\ SumOf(g, from, p - 1 + 1) = SumOf(g, from, p - 1) + g[p - 1 + 1]
    BY <1>1, SumNext
  <1>9. /\ SumOf(f, from, p) = SumOf(f, from, p - 1) + f[p]
        /\ SumOf(g, from, p) = SumOf(f, from, p - 1) + g[p]
    BY <1>1, <1>6, <1>8, Zenon
  <1> QED
    BY <1>2, <1>4, <1>5, <1>7, <1>9, SMT
-----------------------------------------------------------------------------
(* The invariant.                                                          *)

Entry == [age : Ages(WindowMs), bytes : 1 .. MaxBytes]

LimiterType == [entries : Seq(Entry), head : Nat, total : 0 .. MaxBytes]

PacerType ==
  [mode : Modes, burst : InitialBurst .. MaxBurst, inBurst : 0 .. MaxBurst - 1,
   acked : 0 .. Longest, last : Ages(IntervalMs) \cup {None}, blocked : BOOLEAN,
   timer : 0 .. IntervalMs \cup {None}]

ConnType ==
  [left : 0 .. Longest, queued : 0 .. Longest, flight : 0 .. Longest,
   sending : BOOLEAN, open : BOOLEAN, pacer : PacerType]

\* For every age up to the window, mark[age] says how many of the entries are old: those
\* after it are younger by the clock and hold all that was accepted more recently, and
\* nothing else as long as the clock has not been set back.
Marks(l, history, back, mark) ==
  \A age \in 0 .. WindowMs :
    /\ mark[age] \in l.head .. Len(l.entries)
    /\ \A i \in mark[age] + 1 .. Len(l.entries) : l.entries[i].age < age
    /\ Total(history, age) <= BytesOf(l.entries, mark[age], Len(l.entries))
    /\ back = 0 =>
         /\ Total(history, age) = BytesOf(l.entries, mark[age], Len(l.entries))
         /\ \A i \in 1 .. mark[age] : l.entries[i].age >= age

Counts(l, history, back) ==
  /\ l \in LimiterType
  /\ l.head <= Len(l.entries)
  /\ l.total = Counted(l)
  /\ \A i \in 1 .. Len(l.entries) : l.entries[i].age >= -back
  /\ \E mark \in [0 .. WindowMs -> Nat] : Marks(l, history, back, mark)

Limit(pacer) == IF pacer.mode = "fixed" THEN InitialBurst ELSE MaxBurst

\* Nothing was sent in the last ticks.
Rests(history, ticks) == \A age \in 0 .. IntervalMs - 1 : age < ticks => history[age] = 0

\* The segments of the burst under way, unless the connection has ended, are all that was
\* sent within the interval: a burst begins after a rest, by the timer or by the clock,
\* which never runs ahead of it.
Bounded(pacer, history, open) ==
  /\ pacer.blocked <=> pacer.timer # None
  /\ pacer.timer # None => Rests(history, IntervalMs - pacer.timer)
  /\ pacer.last # None => Rests(history, pacer.last)
  /\ open /\ ~pacer.blocked => Total(history, IntervalMs) <= pacer.inBurst
  /\ Total(history, IntervalMs) <= Limit(pacer)
  /\ pacer.mode = "fixed" => pacer.burst = InitialBurst /\ pacer.inBurst < InitialBurst
  /\ IntervalMs = 0 => pacer.mode = "off"

\* What the connection had to send is accounted for, the bytes the pacer counts included.
Accounted(r) == r.left + r.queued + r.flight + r.pacer.acked <= Longest

Paced(r, history, back) ==
  /\ r \in ConnType
  /\ Bounded(r.pacer, history, r.open)
  /\ Accounted(r)
  /\ r.sending => r.open /\ ~r.pacer.blocked
  /\ r.pacer.last # None => r.pacer.last >= -back

IInv ==
  /\ Counts(limiter, spent, setBack)
  /\ conn \in [Conns -> ConnType]
  /\ \A c \in Conns : Paced(conn[c], bursts[c], setBack)
  /\ forward \subseteq Conns
  /\ retries \in [Conns -> SUBSET (0 .. RetryMs)]
  /\ setBack \in 0 .. MaxSetBack
  /\ spent \in [0 .. WindowMs - 1 -> Nat]
  /\ bursts \in [Conns -> [0 .. IntervalMs - 1 -> Nat]]
-----------------------------------------------------------------------------
(* What histories add up to.                                               *)

LEMMA Constants ==
  /\ MaxBytes \in Nat \ {0} /\ WindowMs \in Nat \ {0} /\ CompactAt \in Nat \ {0}
  /\ IntervalMs \in Nat /\ MaxSetBack \in Nat /\ None \notin Int
  /\ InitialBurst \in Nat \ {0} /\ MaxBurst \in Nat /\ InitialBurst <= MaxBurst
  /\ StreamBytes \in Nat /\ Mss \in Nat \ {0} /\ RetryMs \in Nat \ {0}
  /\ Long \subseteq Conns /\ Chunks \subseteq Nat \ {0} /\ Windows \subseteq Nat
  BY LimiterAssumption, PacerAssumption, TimingAssumption

LEMMA TotalNothing ==
  ASSUME NEW history
  PROVE  Total(history, 0) = 0
  <1>1. 0 - 1 = -1 /\ -1 \in Int
    BY SMT
  <1> QED
    BY <1>1, SumNothing DEF Total

LEMMA TotalType ==
  ASSUME NEW span \in Nat, NEW history \in [0 .. span - 1 -> Nat], NEW age \in 0 .. span
  PROVE  Total(history, age) \in Nat
  <1>1. /\ -1 \in Int /\ age - 1 \in Int /\ -1 <= age - 1
        /\ \A i \in -1 + 1 .. age - 1 : i \in 0 .. span - 1
    BY SMT
  <1>2. Naturals(history, -1, age - 1)
    BY <1>1 DEF Naturals
  <1> QED
    BY <1>1, <1>2, SumType DEF Total

LEMMA TotalZero ==
  ASSUME NEW span \in Nat, NEW history, \A age \in 0 .. span - 1 : history[age] = 0
  PROVE  Total(history, span) = 0
  <1>1. -1 \in Int /\ span - 1 \in Int /\ -1 <= span - 1 /\ -1 + 1 = 0
    BY SMT
  <1> QED
    BY <1>1, SumZero DEF Total

\* Something is sent now.
Added(history, more, span, bytes) ==
  /\ history \in [0 .. span - 1 -> Nat]
  /\ more[0] = history[0] + bytes
  /\ \A age \in 1 .. span - 1 : more[age] = history[age]

LEMMA AddedIs ==
  ASSUME NEW span \in Nat \ {0}, NEW history \in [0 .. span - 1 -> Nat], NEW bytes \in Nat
  PROVE  /\ [history EXCEPT ![0] = @ + bytes] \in [0 .. span - 1 -> Nat]
         /\ Added(history, [history EXCEPT ![0] = @ + bytes], span, bytes)
  <1>1. 0 \in 0 .. span - 1 /\ \A age \in 1 .. span - 1 : age \in 0 .. span - 1 /\ age # 0
    BY SMT
  <1> QED
    BY <1>1 DEF Added

LEMMA TotalAdded ==
  ASSUME NEW span \in Nat, NEW bytes \in Nat, NEW age \in 1 .. span,
         NEW history, NEW more, Added(history, more, span, bytes)
  PROVE  Total(more, age) = Total(history, age) + bytes
  <1>1. /\ -1 \in Int /\ age - 1 \in Int /\ 0 \in -1 + 1 .. age - 1
        /\ \A i \in -1 + 1 .. age - 1 : i \in 0 .. span - 1 /\ (i # 0 => i \in 1 .. span - 1)
    BY SMT
  <1>2. GrownAt(history, more, -1, age - 1, 0, bytes)
    BY <1>1 DEF GrownAt, Naturals, Added
  <1>3. SumOf(more, -1, age - 1) = SumOf(history, -1, age - 1) + bytes
    BY <1>1, <1>2, SumGrown
  <1> QED
    BY <1>3 DEF Total

\* A tick passes.
LEMMA ShiftedType ==
  ASSUME NEW span \in Nat, NEW history \in [0 .. span - 1 -> Nat]
  PROVE  /\ Shifted(history) \in [0 .. span - 1 -> Nat]
         /\ \A age \in 0 .. span - 1 :
              Shifted(history)[age] = IF age = 0 THEN 0 ELSE history[age - 1]
  <1>1. DOMAIN history = 0 .. span - 1
    OBVIOUS
  <1>2. \A age \in 0 .. span - 1 : age # 0 => age - 1 \in 0 .. span - 1
    BY SMT
  <1> QED
    BY <1>1, <1>2 DEF Shifted

LEMMA TotalShifted ==
  ASSUME NEW span \in Nat, NEW history \in [0 .. span - 1 -> Nat], NEW age \in 1 .. span
  PROVE  Total(Shifted(history), age) = Total(history, age - 1)
  <1> DEFINE later == Shifted(history)
  <1>1. later \in [0 .. span - 1 -> Nat]
        /\ \A i \in 0 .. span - 1 : later[i] = IF i = 0 THEN 0 ELSE history[i - 1]
    BY ShiftedType
  <1> HIDE DEF later
  <1>2. /\ -1 \in Int /\ 0 \in Int /\ age - 1 \in Int /\ -1 <= age - 1 /\ 0 \in -1 .. age - 1
        /\ age - 2 \in Int /\ -1 <= age - 2 /\ 0 <= age - 1 /\ 0 + -1 = -1 /\ age - 1 + -1 = age - 2
        /\ age - 1 - 1 = age - 2 /\ -1 + 1 = 0 /\ 0 - 1 = -1
        /\ \A i \in -1 + 1 .. age - 1 : i \in 0 .. span - 1
        /\ \A i \in 0 + 1 .. age - 1 : i \in 0 .. span - 1 /\ i # 0 /\ i + -1 = i - 1
    BY SMT
  <1>3. Naturals(later, -1, age - 1)
    BY <1>1, <1>2 DEF Naturals
  <1>4. /\ SumOf(later, -1, age - 1) = SumOf(later, -1, 0) + SumOf(later, 0, age - 1)
        /\ SumOf(later, 0, age - 1) \in Nat
    <2>1. -1 \in Int /\ age - 1 \in Int /\ 0 \in -1 .. age - 1
      BY SMT
    <2> QED
      BY <2>1, <1>3, SumSplit
  <1>5. Total(later, 1) = 0
    <2>1. 1 \in Nat /\ \A i \in 0 .. 1 - 1 : i = 0
      BY SMT
    <2>2. 0 \in 0 .. span - 1
      BY SMT
    <2>3. \A i \in 0 .. 1 - 1 : later[i] = 0
      BY <1>1, <2>1, <2>2
    <2> QED
      BY <2>1, <2>3, TotalZero
  <1>6. SumOf(later, -1, 0) = 0
    <2>1. 1 - 1 = 0
      BY SMT
    <2> QED
      BY <1>5, <2>1 DEF Total
  <1>7. Alike(later, history, 0, age - 1, -1)
    BY <1>1, <1>2 DEF Alike
  <1>8. SumOf(later, 0, age - 1) = SumOf(history, 0 + -1, age - 1 + -1)
    BY <1>2, <1>7, SumMoved
  <1>9. SumOf(later, 0, age - 1) = SumOf(history, -1, age - 2)
    BY <1>2, <1>8, Zenon
  <1> QED
    BY <1>2, <1>4, <1>6, <1>9 DEF Total, later

\* The longer one looks back, the more.
LEMMA TotalGrows ==
  ASSUME NEW span \in Nat, NEW history \in [0 .. span - 1 -> Nat], NEW age \in 0 .. span
  PROVE  Total(history, age) <= Total(history, span)
  <1>1. /\ -1 \in Int /\ span - 1 \in Int /\ age - 1 \in -1 .. span - 1
        /\ \A i \in -1 + 1 .. span - 1 : i \in 0 .. span - 1
    BY SMT
  <1>2. Naturals(history, -1, span - 1)
    BY <1>1 DEF Naturals
  <1>3. /\ SumOf(history, -1, span - 1) = SumOf(history, -1, age - 1) + SumOf(history, age - 1, span - 1)
        /\ SumOf(history, -1, age - 1) \in Nat /\ SumOf(history, age - 1, span - 1) \in Nat
    BY <1>1, <1>2, SumSplit
  <1> QED
    BY <1>3 DEF Total
-----------------------------------------------------------------------------
(* What entries add up to.                                                 *)

LEMMA EntryFields ==
  ASSUME NEW e \in Seq(Entry)
  PROVE  /\ Len(e) \in Nat /\ DOMAIN e = 1 .. Len(e)
         /\ \A i \in 1 .. Len(e) : /\ e[i] \in Entry
                                   /\ e[i].age \in Ages(WindowMs) /\ e[i].age \in Int
                                   /\ e[i].bytes \in 1 .. MaxBytes /\ e[i].bytes \in Nat
  <1>1. Len(e) \in Nat /\ DOMAIN e = 1 .. Len(e) /\ \A i \in 1 .. Len(e) : e[i] \in Entry
    OBVIOUS
  <1>2. \A x \in Entry : x.age \in Ages(WindowMs) /\ x.bytes \in 1 .. MaxBytes
    BY DEF Entry
  <1>3. \A age \in Ages(WindowMs) : age \in Int
    BY Constants, SMT DEF Ages
  <1>4. \A b \in 1 .. MaxBytes : b \in Nat
    BY Constants, SMT
  <1> QED
    BY <1>1, <1>2, <1>3, <1>4

Amounts(e) == [i \in DOMAIN e |-> e[i].bytes]

LEMMA BytesAre ==
  ASSUME NEW e, NEW from, NEW to
  PROVE  BytesOf(e, from, to) = SumOf(Amounts(e), from, to)
  BY DEF BytesOf, Amounts

LEMMA AmountsAre ==
  ASSUME NEW e \in Seq(Entry)
  PROVE  \A i \in 1 .. Len(e) : Amounts(e)[i] = e[i].bytes /\ Amounts(e)[i] \in Nat
  BY EntryFields DEF Amounts

LEMMA BytesNothing ==
  ASSUME NEW e, NEW from \in Int
  PROVE  BytesOf(e, from, from) = 0
  BY BytesAre, SumNothing

LEMMA BytesSplit ==
  ASSUME NEW e \in Seq(Entry), NEW from \in Nat, NEW to \in Nat, to <= Len(e), NEW mid \in from .. to
  PROVE  /\ BytesOf(e, from, to) = BytesOf(e, from, mid) + BytesOf(e, mid, to)
         /\ BytesOf(e, from, mid) \in Nat /\ BytesOf(e, mid, to) \in Nat
  <1>1. Len(e) \in Nat
    OBVIOUS
  <1>2. \A i \in from + 1 .. to : i \in 1 .. Len(e)
    BY <1>1, SMT
  <1>3. Naturals(Amounts(e), from, to)
    BY <1>2, AmountsAre DEF Naturals
  <1>4. from \in Int /\ to \in Int
    BY SMT
  <1> QED
    BY <1>3, <1>4, SumSplit, BytesAre

LEMMA BytesType ==
  ASSUME NEW e \in Seq(Entry), NEW from \in Nat, NEW to \in Nat, from <= to, to <= Len(e)
  PROVE  BytesOf(e, from, to) \in Nat
  <1>1. from \in from .. to
    BY SMT
  <1> QED
    BY <1>1, BytesSplit

\* The same amounts under other indices.
SameBytes(e, other, from, to, d) == \A i \in from + 1 .. to : e[i].bytes = other[i + d].bytes

LEMMA BytesMoved ==
  ASSUME NEW e \in Seq(Entry), NEW other \in Seq(Entry), NEW d \in Nat,
         NEW from \in Nat, NEW to \in Nat, from <= to, to <= Len(e), to + d <= Len(other),
         SameBytes(e, other, from, to, d)
  PROVE  BytesOf(e, from, to) = BytesOf(other, from + d, to + d)
  <1>1. Len(e) \in Nat /\ Len(other) \in Nat
    OBVIOUS
  <1>2. \A i \in from + 1 .. to : i \in 1 .. Len(e) /\ i + d \in 1 .. Len(other)
    BY <1>1, SMT
  <1>3. Alike(Amounts(e), Amounts(other), from, to, d)
    BY <1>2, AmountsAre DEF Alike, SameBytes
  <1>4. from \in Int /\ to \in Int /\ d \in Int
    BY SMT
  <1>5. SumOf(Amounts(e), from, to) = SumOf(Amounts(other), from + d, to + d)
    BY <1>3, <1>4, SumMoved
  <1> QED
    BY <1>5, BytesAre

LEMMA BytesSame ==
  ASSUME NEW e \in Seq(Entry), NEW other \in Seq(Entry),
         NEW from \in Nat, NEW to \in Nat, from <= to, to <= Len(e), to <= Len(other),
         \A i \in from + 1 .. to : e[i].bytes = other[i].bytes
  PROVE  BytesOf(e, from, to) = BytesOf(other, from, to)
  <1>1. Len(e) \in Nat /\ Len(other) \in Nat
    OBVIOUS
  <1>2. \A i \in from + 1 .. to : i \in 1 .. Len(e) /\ i \in 1 .. Len(other)
    BY <1>1, SMT
  <1>3. \A i \in from + 1 .. to : Amounts(e)[i] = Amounts(other)[i]
    BY <1>2, AmountsAre
  <1>4. from \in Int /\ to \in Int
    BY SMT
  <1>5. SumOf(Amounts(e), from, to) = SumOf(Amounts(other), from, to)
    BY <1>3, <1>4, SumSame
  <1> QED
    BY <1>5, BytesAre

LEMMA BytesAppended ==
  ASSUME NEW e \in Seq(Entry), NEW x \in Entry, NEW from \in 0 .. Len(e)
  PROVE  BytesOf(Append(e, x), from, Len(e) + 1) = BytesOf(e, from, Len(e)) + x.bytes
  <1> DEFINE more == Append(e, x)
             n == Len(e)
  <1>1. /\ n \in Nat /\ more \in Seq(Entry) /\ Len(more) = n + 1 /\ more[n + 1] = x
        /\ \A i \in 1 .. n : more[i] = e[i]
    OBVIOUS
  <1> HIDE DEF more, n
  <1>2. /\ from \in Nat /\ from \in Int /\ n \in Int /\ from <= n /\ n <= n /\ n <= n + 1
        /\ n + 1 \in 1 .. n + 1 /\ \A i \in from + 1 .. n : i \in 1 .. n
    BY <1>1, SMT DEF n
  <1>3. SumOf(Amounts(more), from, n + 1) = SumOf(Amounts(more), from, n) + Amounts(more)[n + 1]
    BY <1>2, SumNext
  <1>4. Amounts(more)[n + 1] = x.bytes
    BY <1>1, <1>2, AmountsAre
  <1>5. BytesOf(more, from, n) = BytesOf(e, from, n)
    <2>1. n <= Len(e) /\ n <= Len(more) /\ \A i \in from + 1 .. n : more[i].bytes = e[i].bytes
      BY <1>1, <1>2 DEF n
    <2> QED
      BY <1>1, <1>2, <2>1, BytesSame
  <1>6. BytesOf(more, from, n + 1) = BytesOf(e, from, n) + x.bytes
    BY <1>3, <1>4, <1>5, BytesAre
  <1> QED
    BY <1>6 DEF more, n

\* The last entry grows: other is e, but for the amount of its last entry.
LastGrown(e, other, bytes) ==
  /\ e \in Seq(Entry) /\ other \in Seq(Entry) /\ bytes \in Nat
  /\ Len(other) = Len(e)
  /\ other[Len(e)].age = e[Len(e)].age
  /\ other[Len(e)].bytes = e[Len(e)].bytes + bytes
  /\ \A i \in 1 .. Len(e) : i # Len(e) => other[i] = e[i]

LEMMA BytesOfLastGrown ==
  ASSUME NEW e, NEW other, NEW bytes, LastGrown(e, other, bytes), NEW from \in 0 .. Len(e) - 1
  PROVE  BytesOf(other, from, Len(e)) = BytesOf(e, from, Len(e)) + bytes
  <1> DEFINE n == Len(e)
  <1>1. n \in Nat /\ e \in Seq(Entry) /\ other \in Seq(Entry) /\ bytes \in Nat
    BY DEF LastGrown
  <1>2. /\ from \in Int /\ n \in Int /\ n \in from + 1 .. n /\ n \in 1 .. n
        /\ \A i \in from + 1 .. n : i \in 1 .. n
    BY <1>1, SMT DEF n
  <1>3. \A i \in 1 .. n : /\ Amounts(e)[i] = e[i].bytes /\ Amounts(e)[i] \in Nat
                          /\ Amounts(other)[i] = other[i].bytes
    BY <1>1, AmountsAre DEF LastGrown
  <1>4. GrownAt(Amounts(e), Amounts(other), from, n, n, bytes)
    BY <1>2, <1>3 DEF GrownAt, Naturals, LastGrown
  <1> HIDE DEF n
  <1>5. SumOf(Amounts(other), from, n) = SumOf(Amounts(e), from, n) + bytes
    BY <1>1, <1>2, <1>4, SumGrown
  <1> QED
    BY <1>5, BytesAre DEF n
-----------------------------------------------------------------------------
(* prune().                                                                *)

LEMMA LimiterFields ==
  ASSUME NEW l \in LimiterType
  PROVE  /\ l = [entries |-> l.entries, head |-> l.head, total |-> l.total]
         /\ l.entries \in Seq(Entry) /\ l.head \in Nat /\ l.total \in 0 .. MaxBytes
         /\ Len(l.entries) \in Nat
  BY DEF LimiterType

LEMMA LimiterMade ==
  ASSUME NEW e \in Seq(Entry), NEW head \in Nat, NEW total \in 0 .. MaxBytes
  PROVE  [entries |-> e, head |-> head, total |-> total] \in LimiterType
  BY DEF LimiterType

\* The loop stops at the end of the list or at the first entry that still counts.
Stops(l, head) ==
  /\ \A i \in l.head + 1 .. head : l.entries[i].age >= WindowMs
  /\ head < Len(l.entries) => l.entries[head + 1].age < WindowMs

LEMMA FirstCountedIs ==
  ASSUME NEW l \in LimiterType, l.head <= Len(l.entries)
  PROVE  FirstCounted(l) \in l.head .. Len(l.entries) /\ Stops(l, FirstCounted(l))
  <1> DEFINE n == Len(l.entries)
             Young == {i \in l.head + 1 .. n : l.entries[i].age < WindowMs}
  <1>1. n \in Nat /\ l.head \in Nat /\ l.entries \in Seq(Entry)
    BY LimiterFields
  <1>2. \A i \in l.head + 1 .. n : i \in 1 .. n /\ l.entries[i].age \in Int
    <2>1. \A i \in l.head + 1 .. n : i \in 1 .. n
      BY <1>1, SMT
    <2> QED
      BY <1>1, <2>1, EntryFields
  <1>3. \E head \in l.head .. n : Stops(l, head)
    <2>1. CASE Young = {}
      <3>1. n \in l.head .. n /\ ~ (n < n)
        BY <1>1, SMT
      <3>2. \A i \in l.head + 1 .. n : l.entries[i].age >= WindowMs
        BY <1>2, <2>1, Constants
      <3>3. Stops(l, n)
        BY <3>1, <3>2 DEF Stops
      <3> QED
        BY <3>1, <3>3, Zenon
    <2>2. CASE Young # {}
      <3>1. Young \in SUBSET Nat
        BY <1>1, SMT
      <3>2. PICK x \in Young : \A y \in Young : x <= y
        BY <2>2, <3>1, LeastOf, Zenon
      <3>3. x \in l.head + 1 .. n /\ l.entries[x].age < WindowMs
        OBVIOUS
      <3>4. /\ x - 1 \in l.head .. n /\ x - 1 + 1 = x
            /\ \A i \in l.head + 1 .. x - 1 : i \in l.head + 1 .. n /\ ~ (x <= i)
        BY <1>1, <3>3, SMT
      <3>5. \A i \in l.head + 1 .. x - 1 : i \notin Young
        BY <3>2, <3>4
      <3>6. \A i \in l.head + 1 .. x - 1 : l.entries[i].age >= WindowMs
        BY <1>2, <3>4, <3>5, Constants
      <3>7. Stops(l, x - 1)
        BY <3>3, <3>4, <3>6, Zenon DEF Stops
      <3> QED
        BY <3>4, <3>7, Zenon
    <2> QED
      BY <2>1, <2>2
  <1>4. FirstCounted(l) = CHOOSE head \in l.head .. n : Stops(l, head)
    BY DEF FirstCounted, Stops
  <1> HIDE DEF n
  <1>5. FirstCounted(l) \in l.head .. n /\ Stops(l, FirstCounted(l))
    BY <1>3, <1>4, Zenon
  <1> QED
    BY <1>5 DEF n

\* The head moves past entries that no longer count.
LEMMA HeadMoves ==
  ASSUME NEW l, NEW history, NEW back \in Nat, Counts(l, history, back),
         NEW head \in l.head .. Len(l.entries), Stops(l, head),
         NEW m, m = [entries |-> l.entries, head |-> head,
                     total |-> l.total - BytesOf(l.entries, l.head, head)]
  PROVE  Counts(m, history, back) /\ m.total <= l.total
  <1> DEFINE n == Len(l.entries)
             e == l.entries
  <1>1. /\ l \in LimiterType /\ e \in Seq(Entry) /\ l.head \in Nat /\ l.total \in 0 .. MaxBytes
        /\ n \in Nat /\ l.head <= n
    BY LimiterFields DEF Counts
  <1>2. l.total = BytesOf(e, l.head, n)
    BY DEF Counts, Counted
  <1>3. head \in Nat /\ head \in l.head .. n /\ n <= n
    BY <1>1, SMT
  <1>4. /\ BytesOf(e, l.head, n) = BytesOf(e, l.head, head) + BytesOf(e, head, n)
        /\ BytesOf(e, l.head, head) \in Nat /\ BytesOf(e, head, n) \in Nat
    BY <1>1, <1>3, BytesSplit
  <1>5. m.entries = e /\ m.head = head /\ m.total = BytesOf(e, head, n)
    BY <1>2, <1>4
  <1>6. m.total <= l.total /\ m.total \in 0 .. MaxBytes
    BY <1>1, <1>2, <1>4, <1>5, Constants
  <1>7. m \in LimiterType
    <2>1. m = [entries |-> e, head |-> head, total |-> m.total]
      BY <1>5
    <2> QED
      BY <1>1, <1>3, <1>6, <2>1 DEF LimiterType
  <1>8. PICK mark \in [0 .. WindowMs -> Nat] : Marks(l, history, back, mark)
    BY DEF Counts
  <1>9. ASSUME NEW age \in 0 .. WindowMs PROVE mark[age] \in head .. n
    <2>1. /\ mark[age] \in l.head .. n
          /\ \A i \in mark[age] + 1 .. n : e[i].age < age
      BY <1>8 DEF Marks
    <2>2. ASSUME mark[age] < head PROVE FALSE
      <3>1. /\ mark[age] + 1 \in mark[age] + 1 .. n /\ mark[age] + 1 \in l.head + 1 .. head
            /\ mark[age] + 1 \in 1 .. n
        BY <1>1, <1>3, <2>1, <2>2, SMT
      <3>2. e[mark[age] + 1].age < age /\ e[mark[age] + 1].age >= WindowMs
        BY <2>1, <3>1 DEF Stops
      <3>3. e[mark[age] + 1].age \in Int
        BY <1>1, <3>1, EntryFields
      <3> QED
        BY <3>2, <3>3, Constants, SMT
    <2> QED
      BY <1>1, <1>3, <2>1, <2>2, SMT
  <1>10. Marks(m, history, back, mark)
    BY <1>5, <1>8, <1>9 DEF Marks
  <1>11. m.head <= Len(m.entries) /\ \A i \in 1 .. Len(m.entries) : m.entries[i].age >= -back
    BY <1>1, <1>3, <1>5, SMT DEF Counts
  <1>12. m.total = Counted(m)
    BY <1>5 DEF Counted
  <1> QED
    BY <1>6, <1>7, <1>8, <1>10, <1>11, <1>12 DEF Counts

LEMMA IndicesMoved ==
  ASSUME NEW h \in Nat, NEW n \in Nat, NEW m \in h .. n
  PROVE  /\ \A i \in m - h + 1 .. n - h : i \in 1 .. n - h /\ i + h \in m + 1 .. n
         /\ \A i \in 1 .. m - h : i \in 1 .. n - h /\ i + h \in 1 .. m
  BY SMT

\* What is before the head is cut off.
LEMMA ListIsCut ==
  ASSUME NEW l, NEW history, NEW back \in Nat, Counts(l, history, back),
         NEW m, m = [entries |-> SubSeq(l.entries, l.head + 1, Len(l.entries)), head |-> 0,
                     total |-> l.total]
  PROVE  /\ Counts(m, history, back)
         /\ Len(m.entries) = Len(l.entries) - l.head
         /\ \A i \in 1 .. Len(m.entries) : m.entries[i] = l.entries[i + l.head]
  <1> DEFINE n == Len(l.entries)
             e == l.entries
             h == l.head
             k == SubSeq(l.entries, l.head + 1, Len(l.entries))
  <1>1. /\ l \in LimiterType /\ e \in Seq(Entry) /\ h \in Nat /\ l.total \in 0 .. MaxBytes
        /\ n \in Nat /\ h <= n
    BY LimiterFields DEF Counts
  <1>2. h + 1 \in Int /\ n \in Int /\ \A i \in h + 1 .. n : i \in 1 .. n
    BY <1>1, SMT
  <1>3. \A i \in h + 1 .. n : e[i] \in Entry
    BY <1>1, <1>2, EntryFields
  <1>4. /\ k \in Seq(Entry) /\ Len(k) = n - h /\ \A i \in 1 .. Len(k) : k[i] = e[i + h]
    <2> HIDE DEF e, n, h
    <2>1. k = SubSeq(e, h + 1, n)
      BY DEF k, e, n, h
    <2>2. n = Len(e)
      BY DEF n, e
    <2> HIDE DEF k
    <2>3. /\ Len(k) = IF h + 1 <= n THEN n - (h + 1) + 1 ELSE 0
          /\ \A i \in 1 .. Len(k) : k[i] = e[h + 1 + i - 1]
          /\ k \in Seq(Entry)
      BY <1>1, <1>2, <1>3, <2>1, <2>2, SubSeqProperties
    <2>4. Len(k) = n - h
      BY <1>1, <2>3, SMT
    <2>5. \A i \in 1 .. Len(k) : h + 1 + i - 1 = i + h
      BY <1>1, <2>4, SMT
    <2> QED
      BY <2>3, <2>4, <2>5
  <1>5. m.entries = k /\ m.head = 0 /\ m.total = l.total
    OBVIOUS
  <1> HIDE DEF k, n, e, h
  <1>6. ASSUME NEW from \in h .. n
        PROVE  BytesOf(k, from - h, Len(k)) = BytesOf(e, from, n)
    <2>1. PICK low \in Nat : low = from - h
      BY <1>1, SMT
    <2>2. PICK length \in Nat : length = Len(k)
      BY <1>1, <1>4, SMT
    <2>3. length = n - h /\ Len(e) = n
      BY <1>4, <2>2 DEF n, e
    <2>4. /\ low <= length /\ length <= length /\ length + h = n /\ low + h = from
          /\ length + h <= n
      BY <1>1, <2>1, <2>3, SMT
    <2>5. \A i \in low + 1 .. length : i \in 1 .. length
      BY SMT
    <2>6. SameBytes(k, e, low, length, h)
      BY <1>4, <2>2, <2>5, Zenon DEF SameBytes
    <2>7. BytesOf(k, low, length) = BytesOf(e, low + h, length + h)
      <3>1. length <= Len(k) /\ length + h <= Len(e) /\ low <= length
        BY <2>2, <2>3, <2>4, Zenon
      <3>2. k \in Seq(Entry) /\ e \in Seq(Entry) /\ h \in Nat
        BY <1>1, <1>4
      <3> QED
        BY <2>6, <3>1, <3>2, BytesMoved
    <2> QED
      BY <2>1, <2>2, <2>4, <2>7
  <1>7. m.total = Counted(m)
    <2>1. h \in h .. n /\ h - h = 0
      BY <1>1, SMT
    <2>2. BytesOf(k, 0, Len(k)) = BytesOf(e, h, n)
      BY <1>6, <2>1
    <2> QED
      BY <1>5, <2>2 DEF Counts, Counted, e, h, n
  <1>8. m \in LimiterType
    <2>1. m = [entries |-> k, head |-> 0, total |-> l.total]
      BY DEF k, e, n, h
    <2>2. k \in Seq(Entry) /\ l.total \in 0 .. MaxBytes /\ 0 \in Nat
      BY <1>1, <1>4
    <2> QED
      BY <2>1, <2>2, LimiterMade, Zenon
  <1>9. /\ m.head <= Len(m.entries)
        /\ \A i \in 1 .. Len(m.entries) : m.entries[i].age >= -back
    <2>1. Len(k) >= 0 /\ \A i \in 1 .. Len(k) : i + h \in 1 .. n
      BY <1>1, <1>4, SMT
    <2>2. \A i \in 1 .. n : e[i].age >= -back
      BY DEF Counts, e, n
    <2> QED
      BY <1>4, <1>5, <2>1, <2>2
  <1>10. PICK mark \in [0 .. WindowMs -> Nat] : Marks(l, history, back, mark)
    BY DEF Counts
  <1> DEFINE moved == [age \in 0 .. WindowMs |-> mark[age] - h]
  <1>11. ASSUME NEW age \in 0 .. WindowMs
         PROVE  /\ moved[age] = mark[age] - h /\ mark[age] \in h .. n /\ mark[age] \in Nat
                /\ moved[age] \in 0 .. Len(k) /\ moved[age] \in Nat
    <2>1. mark[age] \in h .. n /\ mark[age] \in Nat
      BY <1>10 DEF Marks, h, n
    <2> QED
      BY <1>1, <1>4, <2>1, SMT
  <1>12. moved \in [0 .. WindowMs -> Nat]
    BY <1>11
  <1> HIDE DEF moved
  <1>13. ASSUME NEW age \in 0 .. WindowMs
         PROVE  /\ \A i \in moved[age] + 1 .. Len(k) : k[i].age < age
                /\ BytesOf(k, moved[age], Len(k)) = BytesOf(e, mark[age], n)
                /\ back = 0 => \A i \in 1 .. moved[age] : k[i].age >= age
    <2>1. /\ \A i \in mark[age] + 1 .. n : e[i].age < age
          /\ back = 0 => \A i \in 1 .. mark[age] : e[i].age >= age
      BY <1>10 DEF Marks, e, n
    <2>2. /\ \A i \in moved[age] + 1 .. Len(k) : i \in 1 .. Len(k) /\ i + h \in mark[age] + 1 .. n
          /\ \A i \in 1 .. moved[age] : i \in 1 .. Len(k) /\ i + h \in 1 .. mark[age]
      <3>1. /\ moved[age] = mark[age] - h /\ mark[age] \in Nat /\ moved[age] \in 0 .. Len(k)
            /\ Len(k) = n - h
        BY <1>4, <1>11
      <3> QED
        BY <1>1, <1>11, <3>1, IndicesMoved, Zenon
    <2>3. BytesOf(k, mark[age] - h, Len(k)) = BytesOf(e, mark[age], n)
      BY <1>6, <1>11
    <2>4. moved[age] = mark[age] - h
      BY <1>11
    <2> QED
      BY <1>4, <2>1, <2>2, <2>3, <2>4
  <1>14. Marks(m, history, back, moved)
    <2> SUFFICES ASSUME NEW age \in 0 .. WindowMs
                 PROVE  /\ moved[age] \in m.head .. Len(m.entries)
                        /\ \A i \in moved[age] + 1 .. Len(m.entries) : m.entries[i].age < age
                        /\ Total(history, age) <= BytesOf(m.entries, moved[age], Len(m.entries))
                        /\ back = 0 =>
                             /\ Total(history, age) = BytesOf(m.entries, moved[age], Len(m.entries))
                             /\ \A i \in 1 .. moved[age] : m.entries[i].age >= age
      BY DEF Marks
    <2>1. /\ Total(history, age) <= BytesOf(e, mark[age], n)
          /\ back = 0 => Total(history, age) = BytesOf(e, mark[age], n)
      BY <1>10 DEF Marks, e, n
    <2> QED
      BY <1>5, <1>11, <1>13, <2>1
  <1> QED
    BY <1>4, <1>5, <1>7, <1>8, <1>9, <1>12, <1>14 DEF Counts, e, h, n

\* After prune() the first entry that is counted is young, and there is one in every list
\* that is not empty.
Pruned(p) ==
  /\ p.head < Len(p.entries) => p.entries[p.head + 1].age < WindowMs
  /\ p.head = Len(p.entries) => p.head = 0

LEMMA PruneCounts ==
  ASSUME NEW l, NEW history, NEW back \in Nat, Counts(l, history, back)
  PROVE  /\ Counts(Prune(l), history, back)
         /\ Prune(l).total <= l.total
         /\ Pruned(Prune(l))
  <1> DEFINE n == Len(l.entries)
             head == FirstCounted(l)
             m == [entries |-> l.entries, head |-> head,
                   total |-> l.total - BytesOf(l.entries, l.head, head)]
             kept == SubSeq(l.entries, head + 1, n)
             cut == kept = <<>> \/ (head >= CompactAt /\ head * 2 >= n)
             short == [entries |-> kept, head |-> 0, total |-> m.total]
  <1>1. l \in LimiterType /\ l.head \in Nat /\ n \in Nat /\ l.head <= n
    BY LimiterFields DEF Counts
  <1>2. head \in l.head .. n /\ Stops(l, head)
    BY <1>1, FirstCountedIs
  <1>3. Prune(l) = IF cut THEN short ELSE m
    BY Zenon DEF Prune
  <1> HIDE DEF cut
  <1>4. Counts(m, history, back) /\ m.total <= l.total
    BY <1>2, HeadMoves
  <1>5. m.entries = l.entries /\ m.head = head
    OBVIOUS
  <1>6. /\ Counts(short, history, back)
        /\ Len(short.entries) = n - head
        /\ \A i \in 1 .. Len(short.entries) : short.entries[i] = l.entries[i + head]
    <2>1. short = [entries |-> SubSeq(m.entries, m.head + 1, Len(m.entries)), head |-> 0,
                   total |-> m.total]
      BY <1>5
    <2> HIDE DEF m, short, head, n
    <2>2. /\ Counts(short, history, back)
          /\ Len(short.entries) = Len(m.entries) - m.head
          /\ \A i \in 1 .. Len(short.entries) : short.entries[i] = m.entries[i + m.head]
      BY <1>4, <2>1, ListIsCut
    <2> QED
      BY <1>5, <2>2 DEF n
  <1>7. short.head = 0 /\ short.total = m.total /\ short.entries = kept
    OBVIOUS
  <1> HIDE DEF m, short, kept, n, head
  <1>8. CASE cut
    <2>1. Prune(l) = short
      BY <1>3, <1>8
    <2>2. Pruned(short)
      <3>1. ASSUME 0 < n - head
            PROVE  short.entries[1].age < WindowMs
        <4>1. 1 \in 1 .. n - head /\ head < n /\ 1 + head = head + 1
          BY <1>1, <1>2, <3>1, SMT
        <4>2. short.entries[1] = l.entries[head + 1]
          BY <1>6, <4>1
        <4> QED
          BY <1>2, <4>1, <4>2 DEF Stops, n
      <3>2. 0 + 1 = 1
        BY SMT
      <3> QED
        BY <1>6, <1>7, <3>1, <3>2, Zenon DEF Pruned
    <2> QED
      BY <1>4, <1>6, <1>7, <2>1, <2>2, Zenon
  <1>9. CASE ~cut
    <2>1. Prune(l) = m
      BY <1>3, <1>9
    <2>2. head # n
      <3>1. ASSUME head = n PROVE FALSE
        <4>1. Len(kept) = 0
          BY <1>1, <1>2, <1>6, <1>7, <3>1, SMT
        <4>2. kept \in Seq(Entry)
          BY <1>6, <1>7, LimiterFields DEF Counts
        <4>3. kept = <<>>
          BY <4>1, <4>2
        <4> QED
          BY <1>9, <4>3 DEF cut
      <3> QED
        BY <3>1
    <2>3. Pruned(m)
      BY <1>2, <1>5, <2>2 DEF Pruned, Stops, n
    <2> QED
      BY <1>4, <2>1, <2>3
  <1> QED
    BY <1>8, <1>9
-----------------------------------------------------------------------------
(* tryConsume().                                                           *)

\* The list e counts bytes more than that of p: so does every mark.
Taken(p, bytes, back, mark, e, after) ==
  /\ \A i \in 1 .. Len(e) : e[i].age >= -back
  /\ p.head <= Len(e)
  /\ BytesOf(e, p.head, Len(e)) = p.total + bytes
  /\ after[0] = Len(e)
  /\ \A age \in 1 .. WindowMs :
       /\ after[age] \in p.head .. Len(e)
       /\ \A i \in after[age] + 1 .. Len(e) : e[i].age < age
       /\ BytesOf(e, after[age], Len(e)) >= BytesOf(p.entries, mark[age], Len(p.entries)) + bytes
       /\ back = 0 =>
            /\ BytesOf(e, after[age], Len(e)) = BytesOf(p.entries, mark[age], Len(p.entries)) + bytes
            /\ \A i \in 1 .. after[age] : e[i].age >= age

LEMMA TakenCounts ==
  ASSUME NEW p, NEW back \in 0 .. MaxSetBack, NEW history \in [0 .. WindowMs - 1 -> Nat],
         Counts(p, history, back), NEW bytes \in Nat \ {0}, p.total + bytes <= MaxBytes,
         NEW e \in Seq(Entry), NEW mark \in [0 .. WindowMs -> Nat],
         Marks(p, history, back, mark), NEW after \in [0 .. WindowMs -> Nat],
         Taken(p, bytes, back, mark, e, after),
         NEW more, Added(history, more, WindowMs, bytes)
  PROVE  Counts([entries |-> e, head |-> p.head, total |-> p.total + bytes], more, back)
  <1> DEFINE q == [entries |-> e, head |-> p.head, total |-> p.total + bytes]
  <1>1. /\ p \in LimiterType /\ p.head \in Nat /\ p.total \in 0 .. MaxBytes /\ Len(e) \in Nat
    BY LimiterFields DEF Counts
  <1>2. p.total + bytes \in 0 .. MaxBytes
    <2>1. p.total \in Nat /\ bytes \in Nat /\ MaxBytes \in Nat
      BY <1>1, Constants
    <2> QED
      BY <2>1, SMT
  <1>3. q \in LimiterType
    BY <1>1, <1>2, LimiterMade
  <1>4. q.entries = e /\ q.head = p.head /\ q.total = p.total + bytes
    OBVIOUS
  <1> HIDE DEF q
  <1>5. q.total = Counted(q)
    BY <1>4 DEF Counted, Taken
  <1>6. ASSUME NEW age \in 0 .. WindowMs
        PROVE  /\ after[age] \in q.head .. Len(q.entries)
               /\ \A i \in after[age] + 1 .. Len(q.entries) : q.entries[i].age < age
               /\ Total(more, age) <= BytesOf(q.entries, after[age], Len(q.entries))
               /\ back = 0 =>
                    /\ Total(more, age) = BytesOf(q.entries, after[age], Len(q.entries))
                    /\ \A i \in 1 .. after[age] : q.entries[i].age >= age
    <2>1. CASE age = 0
      <3>1. after[age] = Len(e) /\ after[age] \in p.head .. Len(e) /\ after[age] + 1 .. Len(e) = {}
        BY <1>1, <2>1, SMT DEF Taken
      <3>2. BytesOf(e, after[age], Len(e)) = 0 /\ Total(more, age) = 0
        BY <1>1, <2>1, <3>1, BytesNothing, TotalNothing
      <3>3. \A i \in 1 .. after[age] : back = 0 => e[i].age >= age
        <4>1. ASSUME NEW i \in 1 .. Len(e), back = 0 PROVE e[i].age >= 0
          BY <4>1, EntryFields DEF Taken
        <4> QED
          BY <2>1, <3>1, <4>1
      <3> QED
        BY <1>4, <3>1, <3>2, <3>3, SMT
    <2>2. CASE age # 0
      <3>1. age \in 1 .. WindowMs
        BY <2>2, Constants
      <3>2. Total(more, age) = Total(history, age) + bytes
        <4>1. WindowMs \in Nat /\ bytes \in Nat
          BY Constants
        <4> QED
          BY <3>1, <4>1, TotalAdded
      <3>3. Total(history, age) \in Nat
        BY Constants, TotalType
      <3>4. /\ Total(history, age) <= BytesOf(p.entries, mark[age], Len(p.entries))
            /\ back = 0 => Total(history, age) = BytesOf(p.entries, mark[age], Len(p.entries))
            /\ mark[age] \in p.head .. Len(p.entries)
        BY DEF Marks
      <3>5. BytesOf(p.entries, mark[age], Len(p.entries)) \in Nat
        <4>1. /\ p.entries \in Seq(Entry) /\ mark[age] \in Nat /\ Len(p.entries) \in Nat
              /\ mark[age] <= Len(p.entries) /\ Len(p.entries) <= Len(p.entries)
          BY <1>1, <3>4, LimiterFields
        <4> QED
          BY <4>1, BytesType
      <3>6. BytesOf(e, after[age], Len(e)) \in Nat
        <4>1. /\ after[age] \in Nat /\ after[age] <= Len(e) /\ Len(e) <= Len(e)
          BY <1>1, <3>1 DEF Taken
        <4> QED
          BY <1>1, <4>1, BytesType
      <3>7. /\ after[age] \in p.head .. Len(e)
            /\ \A i \in after[age] + 1 .. Len(e) : e[i].age < age
            /\ BytesOf(e, after[age], Len(e)) >= BytesOf(p.entries, mark[age], Len(p.entries)) + bytes
            /\ back = 0 =>
                 /\ BytesOf(e, after[age], Len(e)) = BytesOf(p.entries, mark[age], Len(p.entries)) + bytes
                 /\ \A i \in 1 .. after[age] : e[i].age >= age
        BY <3>1 DEF Taken
      <3>8. /\ Total(more, age) <= BytesOf(e, after[age], Len(e))
            /\ back = 0 => Total(more, age) = BytesOf(e, after[age], Len(e))
        <4> QED
          BY <3>2, <3>3, <3>4, <3>5, <3>6, <3>7, SMT
      <3> QED
        BY <1>4, <3>7, <3>8
    <2> QED
      BY <2>1, <2>2
  <1>7. Marks(q, more, back, after)
    BY <1>6 DEF Marks
  <1>8. q.head <= Len(q.entries) /\ \A i \in 1 .. Len(q.entries) : q.entries[i].age >= -back
    BY <1>4 DEF Taken
  <1>9. Counts(q, more, back)
    BY <1>3, <1>5, <1>7, <1>8 DEF Counts
  <1> QED
    BY <1>9 DEF q

LEMMA EntryMade ==
  ASSUME NEW bytes \in 1 .. MaxBytes
  PROVE  [age |-> 0, bytes |-> bytes] \in Entry
  <1>1. 0 \in Ages(WindowMs)
    <2>1. MaxSetBack \in Nat /\ WindowMs \in Nat
      BY Constants
    <2> QED
      BY <2>1, SMT DEF Ages
  <1> QED
    BY <1>1 DEF Entry

LEMMA IndicesBelow ==
  ASSUME NEW h \in Nat, NEW n \in Nat, NEW m \in h .. n
  PROVE  /\ m \in h .. n + 1 /\ m \in 0 .. n /\ m \in Nat /\ m <= n /\ n <= n
         /\ \A i \in m + 1 .. n + 1 : i = n + 1 \/ (i \in m + 1 .. n /\ i \in 1 .. n)
         /\ \A i \in 1 .. m : i \in 1 .. n
  BY SMT

\* bytes accepted at another moment than the last are an entry of their own.
LEMMA AppendTakes ==
  ASSUME NEW p, NEW back \in 0 .. MaxSetBack, NEW history,
         Counts(p, history, back), NEW bytes \in Nat \ {0}, p.total + bytes <= MaxBytes,
         NEW mark \in [0 .. WindowMs -> Nat], Marks(p, history, back, mark),
         NEW e, e = Append(p.entries, [age |-> 0, bytes |-> bytes])
  PROVE  /\ e \in Seq(Entry)
         /\ \E after \in [0 .. WindowMs -> Nat] : Taken(p, bytes, back, mark, e, after)
  <1> DEFINE n == Len(p.entries)
             x == [age |-> 0, bytes |-> bytes]
             after == [age \in 0 .. WindowMs |-> IF age = 0 THEN n + 1 ELSE mark[age]]
  <1>1. /\ p.entries \in Seq(Entry) /\ p.head \in Nat /\ p.total \in 0 .. MaxBytes /\ n \in Nat
        /\ p.head <= n /\ p.total = BytesOf(p.entries, p.head, n)
    BY LimiterFields DEF Counts, Counted
  <1>2. x \in Entry /\ x.age = 0 /\ x.bytes = bytes
    <2>1. p.total \in Nat /\ MaxBytes \in Nat
      BY <1>1, Constants
    <2>2. bytes \in 1 .. MaxBytes
      BY <2>1, SMT
    <2> QED
      BY <2>2, EntryMade
  <1> HIDE DEF x
  <1>3. /\ e \in Seq(Entry) /\ Len(e) = n + 1 /\ e[n + 1] = x
        /\ \A i \in 1 .. n : e[i] = p.entries[i]
    BY <1>1, <1>2 DEF x
  <1>4. ASSUME NEW from \in 0 .. n
        PROVE  BytesOf(e, from, Len(e)) = BytesOf(p.entries, from, n) + bytes
    <2>1. BytesOf(Append(p.entries, x), from, n + 1) = BytesOf(p.entries, from, n) + x.bytes
      BY <1>1, <1>2, BytesAppended
    <2> QED
      BY <1>2, <1>3, <2>1 DEF x
  <1>5. after \in [0 .. WindowMs -> Nat] /\ after[0] = n + 1
        /\ \A age \in 1 .. WindowMs : age \in 0 .. WindowMs /\ after[age] = mark[age]
    <2>1. WindowMs \in Nat
      BY Constants
    <2>2. 0 \in 0 .. WindowMs /\ \A age \in 1 .. WindowMs : age \in 0 .. WindowMs /\ age # 0
      BY <2>1, SMT
    <2>3. n + 1 \in Nat
      BY <1>1
    <2> QED
      BY <2>2, <2>3
  <1> HIDE DEF after
  <1>6. \A i \in 1 .. Len(e) : e[i].age >= -back
    <2>1. \A i \in 1 .. n : p.entries[i].age >= -back
      BY DEF Counts
    <2>2. 0 >= -back
      BY SMT
    <2>3. \A i \in 1 .. n + 1 : i = n + 1 \/ i \in 1 .. n
      BY <1>1, SMT
    <2> QED
      BY <1>2, <1>3, <2>1, <2>2, <2>3
  <1>7. p.head <= Len(e) /\ BytesOf(e, p.head, Len(e)) = p.total + bytes
    <2>1. p.head \in 0 .. n /\ p.head <= n + 1
      BY <1>1, SMT
    <2> QED
      BY <1>1, <1>3, <1>4, <2>1
  <1>8. ASSUME NEW age \in 1 .. WindowMs
        PROVE  /\ after[age] \in p.head .. Len(e)
               /\ \A i \in after[age] + 1 .. Len(e) : e[i].age < age
               /\ BytesOf(e, after[age], Len(e)) = BytesOf(p.entries, mark[age], n) + bytes
               /\ BytesOf(e, after[age], Len(e)) >= BytesOf(p.entries, mark[age], n) + bytes
               /\ back = 0 => \A i \in 1 .. after[age] : e[i].age >= age
    <2>1. /\ mark[age] \in p.head .. n
          /\ \A i \in mark[age] + 1 .. n : p.entries[i].age < age
          /\ back = 0 => \A i \in 1 .. mark[age] : p.entries[i].age >= age
      BY <1>5 DEF Marks
    <2>2. /\ mark[age] \in p.head .. n + 1 /\ mark[age] \in 0 .. n /\ mark[age] \in Nat
          /\ mark[age] <= n /\ n <= n
          /\ \A i \in mark[age] + 1 .. n + 1 : i = n + 1 \/ (i \in mark[age] + 1 .. n /\ i \in 1 .. n)
          /\ \A i \in 1 .. mark[age] : i \in 1 .. n
      <3>1. p.head \in Nat /\ n \in Nat /\ mark[age] \in p.head .. n
        BY <1>1, <2>1
      <3> HIDE DEF n
      <3> QED
        BY <3>1, IndicesBelow, Zenon
    <2>3. 0 < age
      BY SMT
    <2>4. after[age] = mark[age]
      BY <1>5
    <2>5. \A i \in mark[age] + 1 .. n + 1 : e[i].age < age
      BY <1>2, <1>3, <2>1, <2>2, <2>3
    <2>6. BytesOf(p.entries, mark[age], n) \in Nat
      BY <1>1, <2>2, BytesType
    <2>7. BytesOf(e, mark[age], Len(e)) = BytesOf(p.entries, mark[age], n) + bytes
      BY <1>4, <2>2
    <2>8. back = 0 => \A i \in 1 .. mark[age] : e[i].age >= age
      BY <1>3, <2>1, <2>2
    <2>9. BytesOf(e, mark[age], Len(e)) >= BytesOf(p.entries, mark[age], n) + bytes
      BY <2>6, <2>7
    <2> HIDE DEF n
    <2> QED
      BY <1>3, <2>2, <2>4, <2>5, <2>7, <2>8, <2>9
  <1>9. Taken(p, bytes, back, mark, e, after)
    <2>1. after[0] = Len(e)
      BY <1>3, <1>5
    <2> QED
      BY <1>6, <1>7, <1>8, <2>1, Zenon DEF Taken, n
  <1> QED
    BY <1>3, <1>5, <1>9

\* bytes accepted at the moment of the last entry are added to it.  With a clock that was
\* set back it may be older than they are: it is then counted as they are.
LEMMA LastEntryTakes ==
  ASSUME NEW p, NEW back \in 0 .. MaxSetBack, NEW history,
         Counts(p, history, back), NEW bytes \in Nat \ {0}, p.total + bytes <= MaxBytes,
         NEW mark \in [0 .. WindowMs -> Nat], Marks(p, history, back, mark),
         Pruned(p), Len(p.entries) > 0, p.entries[Len(p.entries)].age = 0,
         NEW e, e = [p.entries EXCEPT ![Len(p.entries)].bytes = p.entries[Len(p.entries)].bytes + bytes]
  PROVE  /\ e \in Seq(Entry)
         /\ \E after \in [0 .. WindowMs -> Nat] : Taken(p, bytes, back, mark, e, after)
  <1> DEFINE n == Len(p.entries)
             after == [age \in 0 .. WindowMs |->
                        IF age # 0 /\ mark[age] = n THEN n - 1
                        ELSE IF age = 0 THEN n ELSE mark[age]]
  <1>1. /\ p.entries \in Seq(Entry) /\ p.head \in Nat /\ p.total \in 0 .. MaxBytes /\ n \in Nat
        /\ p.head <= n /\ p.total = BytesOf(p.entries, p.head, n)
    BY LimiterFields DEF Counts, Counted
  <1>2. p.head \in 0 .. n - 1 /\ n \in 1 .. n /\ n > 0
    BY <1>1, SMT DEF Pruned
  <1>3. /\ DOMAIN p.entries = 1 .. n /\ p.entries[n] \in Entry
        /\ p.entries[n].bytes \in Nat /\ p.entries[n].bytes >= 1
        /\ p.entries[n] = [age |-> 0, bytes |-> p.entries[n].bytes]
    <2>1. DOMAIN p.entries = 1 .. n /\ p.entries[n] \in Entry
      BY <1>1, <1>2
    <2>2. \A x \in Entry : x = [age |-> x.age, bytes |-> x.bytes] /\ x.bytes \in 1 .. MaxBytes
      BY DEF Entry
    <2>3. \A b \in 1 .. MaxBytes : b \in Nat /\ b >= 1
      <3>1. MaxBytes \in Nat
        BY Constants
      <3> QED
        BY <3>1, SMT
    <2> QED
      BY <2>1, <2>2, <2>3
  <1>4. /\ p.total = BytesOf(p.entries, p.head, n - 1) + p.entries[n].bytes
        /\ BytesOf(p.entries, p.head, n - 1) \in Nat
        /\ BytesOf(p.entries, n - 1, n) \in Nat
    <2>1. /\ n - 1 \in p.head .. n /\ n - 1 \in Nat /\ n <= n /\ n - 1 <= n /\ n - 1 + 1 = n
          /\ p.head \in Int /\ n - 1 \in Int /\ p.head <= n - 1
      BY <1>1, <1>2, SMT
    <2>2. /\ BytesOf(p.entries, p.head, n - 1) \in Nat
          /\ BytesOf(p.entries, n - 1, n) \in Nat
      BY <1>1, <2>1, BytesSplit
    <2>3. SumOf(Amounts(p.entries), p.head, n - 1 + 1)
            = SumOf(Amounts(p.entries), p.head, n - 1) + Amounts(p.entries)[n - 1 + 1]
      BY <2>1, SumNext
    <2>4. Amounts(p.entries)[n] = p.entries[n].bytes
      BY <1>1, <1>2, AmountsAre
    <2> QED
      BY <1>1, <2>1, <2>2, <2>3, <2>4, BytesAre
  <1>5. p.entries[n].bytes + bytes \in 1 .. MaxBytes
    <2>1. PICK b \in Nat, k \in Nat : b = p.entries[n].bytes /\ b >= 1 /\ p.total = k + b
      BY <1>3, <1>4
    <2>2. MaxBytes \in Nat /\ p.total + bytes <= MaxBytes /\ bytes \in Nat
      BY Constants
    <2>3. k + b + bytes <= MaxBytes
      BY <2>1, <2>2
    <2>4. b + bytes \in 1 .. MaxBytes
      BY <2>1, <2>2, <2>3, SMT
    <2> QED
      BY <2>1, <2>4
  <1>6. /\ Len(e) = n /\ e[n] = [age |-> 0, bytes |-> p.entries[n].bytes + bytes]
        /\ e \in Seq(Entry) /\ \A i \in 1 .. n : i # n => e[i] = p.entries[i]
    <2> DEFINE new == [age |-> 0, bytes |-> p.entries[n].bytes + bytes]
    <2>1. new \in Entry
      BY <1>5, EntryMade
    <2>2. [p.entries[n] EXCEPT !.bytes = p.entries[n].bytes + bytes] = new
      BY <1>3
    <2> HIDE DEF new
    <2>3. e = [p.entries EXCEPT ![n] = new]
      BY <2>2
    <2>4. e \in Seq(Entry) /\ Len(e) = n /\ e[n] = new /\ \A i \in 1 .. n : i # n => e[i] = p.entries[i]
      BY <1>1, <1>2, <2>1, <2>3
    <2> QED
      BY <2>4 DEF new
  <1>7. LastGrown(p.entries, e, bytes)
    BY <1>1, <1>3, <1>6 DEF LastGrown
  <1>8. ASSUME NEW from \in 0 .. n - 1
        PROVE  BytesOf(e, from, n) = BytesOf(p.entries, from, n) + bytes
    <2>1. from \in 0 .. Len(p.entries) - 1
      OBVIOUS
    <2> QED
      BY <1>7, <2>1, BytesOfLastGrown
  <1>9. \A i \in 1 .. n : e[i].age = p.entries[i].age
    BY <1>3, <1>6
  <1>10. /\ after \in [0 .. WindowMs -> Nat] /\ after[0] = n
         /\ \A age \in 1 .. WindowMs :
              age \in 0 .. WindowMs /\ after[age] = IF mark[age] = n THEN n - 1 ELSE mark[age]
    <2>1. WindowMs \in Nat
      BY Constants
    <2>2. 0 \in 0 .. WindowMs /\ \A age \in 1 .. WindowMs : age \in 0 .. WindowMs /\ age # 0
      BY <2>1, SMT
    <2>3. n \in Nat /\ n - 1 \in Nat
      BY <1>1, <1>2, SMT
    <2> QED
      BY <2>2, <2>3
  <1> HIDE DEF after
  <1>11. p.head <= n /\ BytesOf(e, p.head, n) = p.total + bytes
    BY <1>1, <1>2, <1>8
  <1>12. ASSUME NEW age \in 1 .. WindowMs
         PROVE  /\ after[age] \in p.head .. n
                /\ \A i \in after[age] + 1 .. n : e[i].age < age
                /\ BytesOf(e, after[age], n) >= BytesOf(p.entries, mark[age], n) + bytes
                /\ back = 0 =>
                     /\ BytesOf(e, after[age], n) = BytesOf(p.entries, mark[age], n) + bytes
                     /\ \A i \in 1 .. after[age] : e[i].age >= age
    <2>1. /\ mark[age] \in p.head .. n
          /\ \A i \in mark[age] + 1 .. n : p.entries[i].age < age
          /\ back = 0 => \A i \in 1 .. mark[age] : p.entries[i].age >= age
      BY <1>10 DEF Marks
    <2>2. 0 < age /\ ~ (0 >= age)
      BY SMT
    <2>3. CASE mark[age] = n
      <3>1. after[age] = n - 1
        BY <1>10, <2>3
      <3>2. back # 0
        BY <1>2, <2>1, <2>2, <2>3
      <3>3. /\ n - 1 \in p.head .. n /\ n - 1 \in 0 .. n - 1 /\ n \in Int
            /\ \A i \in n - 1 + 1 .. n : i = n
        BY <1>1, <1>2, SMT
      <3>4. \A i \in n - 1 + 1 .. n : e[i].age < age
        BY <1>6, <2>2, <3>3
      <3>5. BytesOf(e, n - 1, n) = BytesOf(p.entries, n - 1, n) + bytes
        BY <1>8, <3>3
      <3>6. BytesOf(p.entries, mark[age], n) = 0
        BY <2>3, <3>3, BytesNothing
      <3>7. BytesOf(e, n - 1, n) >= BytesOf(p.entries, mark[age], n) + bytes
        BY <1>4, <3>5, <3>6
      <3> QED
        BY <3>1, <3>2, <3>3, <3>4, <3>7
    <2>4. CASE mark[age] # n
      <3>1. after[age] = mark[age]
        BY <1>10, <2>4
      <3>2. /\ mark[age] \in 0 .. n - 1 /\ mark[age] \in Nat /\ mark[age] <= n /\ n <= n
            /\ \A i \in mark[age] + 1 .. n : i \in 1 .. n
            /\ \A i \in 1 .. mark[age] : i \in 1 .. n
        BY <1>1, <2>1, <2>4, SMT
      <3>3. BytesOf(e, mark[age], n) = BytesOf(p.entries, mark[age], n) + bytes
        BY <1>8, <3>2
      <3>4. BytesOf(p.entries, mark[age], n) \in Nat
        BY <1>1, <3>2, BytesType
      <3>5. BytesOf(e, mark[age], n) >= BytesOf(p.entries, mark[age], n) + bytes
        BY <3>3, <3>4
      <3> QED
        BY <1>9, <2>1, <3>1, <3>2, <3>3, <3>5
    <2> QED
      BY <2>3, <2>4
  <1>13. \A i \in 1 .. n : e[i].age >= -back
    BY <1>9 DEF Counts
  <1>14. Taken(p, bytes, back, mark, e, after)
    BY <1>6, <1>10, <1>11, <1>12, <1>13 DEF Taken
  <1> QED
    BY <1>6, <1>10, <1>14

\* tryConsume(bytes) of bytes that fit: the limiter counts them with what was accepted
\* before, as the history does.
LEMMA ConsumeCounts ==
  ASSUME NEW l, NEW back \in 0 .. MaxSetBack, NEW history \in [0 .. WindowMs - 1 -> Nat],
         Counts(l, history, back), NEW bytes \in Nat \ {0}, Fits(l, bytes),
         NEW more, Added(history, more, WindowMs, bytes)
  PROVE  Counts(Consumed(l, bytes), more, back)
  <1> DEFINE p == Prune(l)
             n == Len(p.entries)
             sameMoment == n > 0 /\ p.entries[n].age = 0
             grown == [p.entries EXCEPT ![n].bytes = p.entries[n].bytes + bytes]
             appended == Append(p.entries, [age |-> 0, bytes |-> bytes])
             e == IF sameMoment THEN grown ELSE appended
  <1>1. back \in Nat
    <2>1. MaxSetBack \in Nat
      BY Constants
    <2> QED
      BY <2>1, SMT
  <1>2. Counts(p, history, back) /\ Pruned(p)
    BY <1>1, PruneCounts
  <1>3. p.total + bytes <= MaxBytes
    BY DEF Fits
  <1>4. Consumed(l, bytes) = [p EXCEPT !.total = p.total + bytes, !.entries = e]
    BY Zenon DEF Consumed
  <1> HIDE DEF p
  <1>5. p = [entries |-> p.entries, head |-> p.head, total |-> p.total]
    BY <1>2, LimiterFields DEF Counts
  <1> HIDE DEF e
  <1>6. Consumed(l, bytes) = [entries |-> e, head |-> p.head, total |-> p.total + bytes]
    BY <1>4, <1>5
  <1>7. PICK mark \in [0 .. WindowMs -> Nat] : Marks(p, history, back, mark)
    BY <1>2 DEF Counts
  <1>8. /\ e \in Seq(Entry)
        /\ \E after \in [0 .. WindowMs -> Nat] : Taken(p, bytes, back, mark, e, after)
    <2>1. CASE sameMoment
      <3>1. e = [p.entries EXCEPT ![Len(p.entries)].bytes = p.entries[Len(p.entries)].bytes + bytes]
        BY <2>1 DEF e
      <3> QED
        BY <1>2, <1>3, <1>7, <2>1, <3>1, LastEntryTakes
    <2>2. CASE ~sameMoment
      <3>1. e = Append(p.entries, [age |-> 0, bytes |-> bytes])
        BY <2>2 DEF e
      <3> QED
        BY <1>2, <1>3, <1>7, <3>1, AppendTakes
    <2> QED
      BY <2>1, <2>2
  <1>9. PICK after \in [0 .. WindowMs -> Nat] : Taken(p, bytes, back, mark, e, after)
    BY <1>8
  <1>10. Counts([entries |-> e, head |-> p.head, total |-> p.total + bytes], more, back)
    BY <1>2, <1>3, <1>7, <1>8, <1>9, TakenCounts
  <1> QED
    BY <1>6, <1>10
-----------------------------------------------------------------------------
(* The limiter while time passes.                                          *)

LEMMA LesserOfTwo ==
  ASSUME NEW x \in Int, NEW y \in Int
  PROVE  Min({x, y}) = IF x <= y THEN x ELSE y
  <1>1. CASE x <= y
    <2>1. x \in {x, y} /\ \A z \in {x, y} : x <= z
      BY <1>1
    <2>2. \A z \in {x, y} : (\A v \in {x, y} : z <= v) => z = x
      BY <1>1, SMT
    <2> QED
      BY <1>1, <2>1, <2>2 DEF Min
  <1>2. CASE ~(x <= y)
    <2>1. y \in {x, y} /\ \A z \in {x, y} : y <= z
      BY <1>2
    <2>2. \A z \in {x, y} : (\A v \in {x, y} : z <= v) => z = y
      BY <1>2, SMT
    <2> QED
      BY <1>2, <2>1, <2>2 DEF Min
  <1> QED
    BY <1>1, <1>2

LEMMA GreaterOfTwo ==
  ASSUME NEW x \in Int, NEW y \in Int
  PROVE  Max({x, y}) = IF x >= y THEN x ELSE y
  <1>1. CASE x >= y
    <2>1. x \in {x, y} /\ \A z \in {x, y} : x >= z
      BY <1>1
    <2>2. \A z \in {x, y} : (\A v \in {x, y} : z >= v) => z = x
      BY <1>1, SMT
    <2> QED
      BY <1>1, <2>1, <2>2 DEF Max
  <1>2. CASE ~(x >= y)
    <2>1. y \in {x, y} /\ \A z \in {x, y} : y >= z
      BY <1>2
    <2>2. \A z \in {x, y} : (\A v \in {x, y} : z >= v) => z = y
      BY <1>2, SMT
    <2> QED
      BY <1>2, <2>1, <2>2 DEF Max
  <1> QED
    BY <1>1, <1>2

LEMMA OlderIs ==
  ASSUME NEW limit \in Nat, NEW age \in Ages(limit)
  PROVE  /\ age \in Int /\ Older(age, limit) \in Ages(limit) /\ Older(age, limit) \in Int
         /\ Older(age, limit) >= age
         /\ Older(age, limit) <= age + 1
         /\ Older(age, limit) = age + 1 \/ Older(age, limit) >= limit
  <1>1. MaxSetBack \in Nat
    BY Constants
  <1>2. age \in Int /\ age + 1 \in Int /\ limit + MaxSetBack \in Int
    BY <1>1, SMT DEF Ages
  <1>3. Older(age, limit) = IF age + 1 <= limit + MaxSetBack THEN age + 1 ELSE limit + MaxSetBack
    BY <1>2, LesserOfTwo DEF Older
  <1> QED
    BY <1>1, <1>2, <1>3, SMT DEF Ages

\* The limiter q is l at another age.
Aged(l, q) ==
  /\ q \in LimiterType
  /\ q.head = l.head /\ q.total = l.total
  /\ Len(q.entries) = Len(l.entries)
  /\ \A i \in 1 .. Len(l.entries) : q.entries[i].bytes = l.entries[i].bytes

LEMMA AgedBytes ==
  ASSUME NEW l \in LimiterType, NEW q, Aged(l, q), NEW from \in 0 .. Len(l.entries)
  PROVE  BytesOf(q.entries, from, Len(q.entries)) = BytesOf(l.entries, from, Len(l.entries))
  <1> DEFINE n == Len(l.entries)
  <1>1. l.entries \in Seq(Entry) /\ q.entries \in Seq(Entry) /\ n \in Nat
    BY LimiterFields DEF Aged
  <1>2. /\ from \in Nat /\ from <= n /\ n <= Len(l.entries) /\ n <= Len(q.entries)
        /\ \A i \in from + 1 .. n : i \in 1 .. n
    BY <1>1, SMT DEF Aged
  <1>3. \A i \in from + 1 .. n : q.entries[i].bytes = l.entries[i].bytes
    BY <1>2 DEF Aged
  <1>4. BytesOf(q.entries, from, n) = BytesOf(l.entries, from, n)
    BY <1>1, <1>2, <1>3, BytesSame
  <1> QED
    BY <1>4 DEF Aged

LEMMA TickCounts ==
  ASSUME NEW l, NEW back \in Nat, NEW history \in [0 .. WindowMs - 1 -> Nat],
         Counts(l, history, back), NEW q, Aged(l, q),
         \A i \in 1 .. Len(l.entries) : q.entries[i].age = Older(l.entries[i].age, WindowMs)
  PROVE  Counts(q, Shifted(history), back)
  <1> DEFINE n == Len(l.entries)
  <1>1. PICK mark \in [0 .. WindowMs -> Nat] : Marks(l, history, back, mark)
    BY DEF Counts
  <1> DEFINE now == [age \in 0 .. WindowMs |-> IF age = 0 THEN n ELSE mark[age - 1]]
  <1>2. /\ l \in LimiterType /\ l.entries \in Seq(Entry) /\ n \in Nat /\ l.head \in Nat /\ l.head <= n
        /\ l.total = BytesOf(l.entries, l.head, n)
        /\ \A i \in 1 .. n : l.entries[i].age >= -back
    BY LimiterFields DEF Counts, Counted
  <1>3. /\ q \in LimiterType /\ q.entries \in Seq(Entry) /\ q.head = l.head /\ q.total = l.total
        /\ Len(q.entries) = n
    BY LimiterFields DEF Aged
  <1>4. WindowMs \in Nat
    BY Constants
  <1>5. \A i \in 1 .. n :
          /\ l.entries[i].age \in Int /\ q.entries[i].age \in Int
          /\ q.entries[i].age >= l.entries[i].age
          /\ q.entries[i].age <= l.entries[i].age + 1
          /\ q.entries[i].age = l.entries[i].age + 1 \/ q.entries[i].age >= WindowMs
    BY <1>2, <1>4, EntryFields, OlderIs
  <1>6. q.total = Counted(q)
    <2>1. l.head \in 0 .. n
      BY <1>2, SMT
    <2> QED
      BY <1>2, <1>3, <2>1, AgedBytes DEF Counted
  <1>7. \A i \in 1 .. n : q.entries[i].age >= -back
    <2>1. ASSUME NEW i \in 1 .. n PROVE q.entries[i].age >= -back
      <3>1. PICK a \in Int, b \in Int : a = l.entries[i].age /\ b = q.entries[i].age /\ b >= a /\ a >= -back
        BY <1>2, <1>5
      <3>2. b >= -back
        BY <3>1, SMT
      <3> QED
        BY <3>1, <3>2
    <2> QED
      BY <2>1
  <1>8. /\ now \in [0 .. WindowMs -> Nat] /\ now[0] = n
        /\ \A age \in 1 .. WindowMs : age - 1 \in 0 .. WindowMs /\ now[age] = mark[age - 1]
    <2>1. /\ 0 \in 0 .. WindowMs
          /\ \A age \in 0 .. WindowMs : age # 0 => age - 1 \in 0 .. WindowMs
          /\ \A age \in 1 .. WindowMs : age \in 0 .. WindowMs /\ age # 0
      BY <1>4, SMT
    <2> QED
      BY <1>2, <2>1
  <1> HIDE DEF now, n
  <1>9. ASSUME NEW age \in 0 .. WindowMs
        PROVE  /\ now[age] \in q.head .. Len(q.entries)
               /\ \A i \in now[age] + 1 .. Len(q.entries) : q.entries[i].age < age
               /\ Total(Shifted(history), age) <= BytesOf(q.entries, now[age], Len(q.entries))
               /\ back = 0 =>
                    /\ Total(Shifted(history), age) = BytesOf(q.entries, now[age], Len(q.entries))
                    /\ \A i \in 1 .. now[age] : q.entries[i].age >= age
    <2>1. CASE age = 0
      <3>1. now[age] = n /\ n \in l.head .. n /\ n + 1 .. n = {} /\ n \in Int /\ 0 <= 0
        BY <1>2, <1>8, <2>1, SMT
      <3>2. BytesOf(q.entries, n, n) = 0 /\ Total(Shifted(history), 0) = 0
        BY <3>1, BytesNothing, TotalNothing
      <3>3. back = 0 => \A i \in 1 .. n : q.entries[i].age >= 0
        BY <1>7
      <3> QED
        BY <1>3, <2>1, <3>1, <3>2, <3>3
    <2>2. CASE age # 0
      <3>1. age \in 1 .. WindowMs
        BY <1>4, <2>2, SMT
      <3>2. PICK m \in Nat : m = mark[age - 1] /\ m = now[age]
        BY <1>8, <3>1
      <3>3. /\ m \in l.head .. n
            /\ \A i \in m + 1 .. n : l.entries[i].age < age - 1
            /\ Total(history, age - 1) <= BytesOf(l.entries, m, n)
            /\ back = 0 =>
                 /\ Total(history, age - 1) = BytesOf(l.entries, m, n)
                 /\ \A i \in 1 .. m : l.entries[i].age >= age - 1
        BY <1>1, <1>8, <3>1, <3>2 DEF Marks, n
      <3>4. Total(Shifted(history), age) = Total(history, age - 1)
        BY <1>4, <3>1, TotalShifted
      <3>5. m \in 0 .. n /\ \A i \in m + 1 .. n : i \in 1 .. n
        BY <1>2, <3>3, SMT
      <3>6. \A i \in 1 .. m : i \in 1 .. n
        BY <1>2, <3>3, SMT
      <3>7. BytesOf(q.entries, m, n) = BytesOf(l.entries, m, n)
        BY <1>2, <1>3, <3>5, AgedBytes DEF n
      <3>8. ASSUME NEW i \in m + 1 .. n PROVE q.entries[i].age < age
        <4>1. PICK a \in Int, b \in Int : a = l.entries[i].age /\ b = q.entries[i].age /\ b <= a + 1
          BY <1>5, <3>5
        <4>2. a < age - 1
          BY <3>3, <4>1
        <4>3. b < age
          BY <3>1, <4>1, <4>2, SMT
        <4> QED
          BY <4>1, <4>3
      <3>9. ASSUME back = 0, NEW i \in 1 .. m PROVE q.entries[i].age >= age
        <4>1. PICK a \in Int, b \in Int :
                a = l.entries[i].age /\ b = q.entries[i].age /\ (b = a + 1 \/ b >= WindowMs)
          BY <1>5, <3>6
        <4>2. a >= age - 1
          BY <3>3, <3>9, <4>1
        <4>3. age \in Int /\ age <= WindowMs /\ WindowMs \in Int
          BY <1>4, <3>1, SMT
        <4>4. CASE b = a + 1
          <5>1. a + 1 >= age
            BY <4>2, <4>3, SMT
          <5> QED
            BY <4>1, <4>4, <5>1
        <4>5. CASE b >= WindowMs
          <5>1. b >= age
            BY <4>3, <4>5, SMT
          <5> QED
            BY <4>1, <5>1
        <4> QED
          BY <4>1, <4>4, <4>5
      <3> QED
        BY <1>3, <3>2, <3>3, <3>4, <3>7, <3>8, <3>9
    <2> QED
      BY <2>1, <2>2
  <1>10. Marks(q, Shifted(history), back, now)
    BY <1>9 DEF Marks
  <1> QED
    BY <1>2, <1>3, <1>6, <1>7, <1>8, <1>10 DEF Counts

LEMMA SetBackCounts ==
  ASSUME NEW l, NEW back \in Nat, NEW history, Counts(l, history, back), NEW q, Aged(l, q),
         \A i \in 1 .. Len(l.entries) : q.entries[i].age = l.entries[i].age - 1
  PROVE  Counts(q, history, back + 1)
  <1> DEFINE n == Len(l.entries)
  <1>1. PICK mark \in [0 .. WindowMs -> Nat] : Marks(l, history, back, mark)
    BY DEF Counts
  <1>2. /\ l \in LimiterType /\ l.entries \in Seq(Entry) /\ n \in Nat /\ l.head \in Nat /\ l.head <= n
        /\ l.total = BytesOf(l.entries, l.head, n)
        /\ \A i \in 1 .. n : l.entries[i].age >= -back
    BY LimiterFields DEF Counts, Counted
  <1>3. /\ q \in LimiterType /\ q.entries \in Seq(Entry) /\ q.head = l.head /\ q.total = l.total
        /\ Len(q.entries) = n
    BY LimiterFields DEF Aged
  <1>4. back + 1 # 0 /\ back + 1 \in Nat
    BY SMT
  <1>5. q.total = Counted(q)
    <2>1. l.head \in 0 .. n
      BY <1>2, SMT
    <2> QED
      BY <1>2, <1>3, <2>1, AgedBytes DEF Counted
  <1>6. ASSUME NEW i \in 1 .. n
        PROVE  /\ l.entries[i].age \in Int
               /\ q.entries[i].age >= -(back + 1)
               /\ \A age \in Int : l.entries[i].age < age => q.entries[i].age < age
    <2>1. PICK a \in Int : a = l.entries[i].age /\ q.entries[i].age = a - 1 /\ a >= -back
      BY <1>2, EntryFields
    <2>2. a - 1 >= -(back + 1) /\ \A age \in Int : a < age => a - 1 < age
      BY <2>1, SMT
    <2> QED
      BY <2>1, <2>2
  <1> HIDE DEF n
  <1>7. ASSUME NEW age \in 0 .. WindowMs
        PROVE  /\ mark[age] \in q.head .. Len(q.entries)
               /\ \A i \in mark[age] + 1 .. Len(q.entries) : q.entries[i].age < age
               /\ Total(history, age) <= BytesOf(q.entries, mark[age], Len(q.entries))
    <2>1. PICK m \in Nat : m = mark[age]
      BY <1>1
    <2>2. /\ m \in l.head .. n
          /\ \A i \in m + 1 .. n : l.entries[i].age < age
          /\ Total(history, age) <= BytesOf(l.entries, m, n)
      BY <1>1, <2>1 DEF Marks, n
    <2>3. m \in 0 .. n /\ age \in Int /\ \A i \in m + 1 .. n : i \in 1 .. n
      BY <1>2, <2>2, SMT
    <2>4. BytesOf(q.entries, m, n) = BytesOf(l.entries, m, n)
      BY <1>2, <1>3, <2>3, AgedBytes DEF n
    <2>5. \A i \in m + 1 .. n : q.entries[i].age < age
      BY <1>6, <2>2, <2>3
    <2> QED
      BY <1>3, <2>1, <2>2, <2>4, <2>5
  <1>8. Marks(q, history, back + 1, mark)
    BY <1>4, <1>7 DEF Marks
  <1> QED
    BY <1>1, <1>2, <1>3, <1>5, <1>6, <1>8 DEF Counts
-----------------------------------------------------------------------------
(* A connection and its pacer, one handler at a time.                      *)

LEMMA ConnFields ==
  ASSUME NEW r \in ConnType
  PROVE  /\ r.left \in 0 .. Longest /\ r.queued \in 0 .. Longest /\ r.flight \in 0 .. Longest
         /\ r.sending \in BOOLEAN /\ r.open \in BOOLEAN /\ r.pacer \in PacerType
  BY DEF ConnType

LEMMA PacerFields ==
  ASSUME NEW p \in PacerType
  PROVE  /\ p.mode \in Modes /\ p.burst \in InitialBurst .. MaxBurst
         /\ p.inBurst \in 0 .. MaxBurst - 1 /\ p.acked \in 0 .. Longest
         /\ p.last \in Ages(IntervalMs) \cup {None} /\ p.blocked \in BOOLEAN
         /\ p.timer \in 0 .. IntervalMs \cup {None}
  BY DEF PacerType

LEMMA LongestIs == Longest \in Nat /\ StreamBytes <= Longest /\ Mss <= Longest
  <1>1. StreamBytes \in Int /\ Mss \in Int /\ StreamBytes \in Nat /\ Mss \in Nat
    BY Constants
  <1>2. Longest = IF StreamBytes >= Mss THEN StreamBytes ELSE Mss
    BY <1>1, GreaterOfTwo DEF Longest
  <1> QED
    BY <1>1, <1>2, SMT

LEMMA SendingPaced ==
  ASSUME NEW r, NEW history, NEW back, Paced(r, history, back),
         NEW s \in BOOLEAN, s => r.open /\ ~r.pacer.blocked
  PROVE  Paced([r EXCEPT !.sending = s], history, back)
  <1>1. r \in ConnType
    BY DEF Paced
  <1> DEFINE q == [r EXCEPT !.sending = s]
  <1>2. /\ q \in ConnType /\ q.left = r.left /\ q.queued = r.queued /\ q.flight = r.flight
        /\ q.open = r.open /\ q.pacer = r.pacer /\ q.sending = s
    BY <1>1 DEF ConnType
  <1> HIDE DEF q
  <1>3. Paced(q, history, back)
    BY <1>2 DEF Paced, Accounted
  <1> QED
    BY <1>3 DEF q

LEMMA TrySendPaced ==
  ASSUME NEW r, NEW history, NEW back, Paced(r, history, back), r.open
  PROVE  Paced(TrySend(r), history, back)
  <1>1. (~r.pacer.blocked) \in BOOLEAN
    OBVIOUS
  <1> QED
    BY <1>1, SendingPaced DEF TrySend

LEMMA SourcePaced ==
  ASSUME NEW r, NEW history, NEW back, Paced(r, history, back),
         NEW bytes \in Nat, bytes <= r.left
  PROVE  Paced([r EXCEPT !.left = @ - bytes, !.queued = @ + bytes], history, back)
  <1> DEFINE q == [r EXCEPT !.left = @ - bytes, !.queued = @ + bytes]
  <1>1. r \in ConnType /\ Accounted(r)
    BY DEF Paced
  <1>2. /\ r.left - bytes \in 0 .. Longest /\ r.queued + bytes \in 0 .. Longest
        /\ r.left - bytes + (r.queued + bytes) + r.flight + r.pacer.acked <= Longest
    <2>1. /\ r.left \in Nat /\ r.queued \in Nat /\ r.flight \in Nat /\ r.pacer.acked \in Nat
          /\ Longest \in Nat /\ r.left + r.queued + r.flight + r.pacer.acked <= Longest
      BY <1>1, ConnFields, PacerFields, LongestIs, SMT DEF Accounted
    <2> QED
      BY <2>1, SMT
  <1>3. /\ q \in ConnType /\ q.left = r.left - bytes /\ q.queued = r.queued + bytes
        /\ q.flight = r.flight /\ q.open = r.open /\ q.pacer = r.pacer /\ q.sending = r.sending
    BY <1>1, <1>2 DEF ConnType
  <1> HIDE DEF q
  <1>4. Accounted(q)
    BY <1>2, <1>3 DEF Accounted
  <1>5. Paced(q, history, back)
    BY <1>3, <1>4 DEF Paced
  <1> QED
    BY <1>5 DEF q

\* The pacer p of a connection, as far as its bursts go, is that of r.
SamePace(r, p) ==
  /\ p \in PacerType
  /\ p.mode = r.pacer.mode /\ p.inBurst = r.pacer.inBurst /\ p.last = r.pacer.last
  /\ p.blocked = r.pacer.blocked /\ p.timer = r.pacer.timer
  /\ p.mode = "fixed" => p.burst = r.pacer.burst

LEMMA SamePaceBounded ==
  ASSUME NEW r, NEW p, SamePace(r, p), NEW history, Bounded(r.pacer, history, r.open)
  PROVE  Bounded(p, history, r.open)
  BY DEF SamePace, Bounded, Limit

LEMMA AckPaces ==
  ASSUME NEW r \in ConnType, Accounted(r), r.flight > 0, NEW window \in Nat
  PROVE  /\ SamePace(r, NoteAck(r.pacer, r.flight, window))
         /\ NoteAck(r.pacer, r.flight, window).acked <= r.pacer.acked + r.flight
  <1> DEFINE p == r.pacer
             sum == p.acked + r.flight
             threshold == Max({1, window})
             q == NoteAck(p, r.flight, window)
  <1>1. /\ p \in PacerType /\ p.acked \in Nat /\ r.flight \in Nat /\ Longest \in Nat
        /\ p.burst \in InitialBurst .. MaxBurst
    BY ConnFields, PacerFields, LongestIs, SMT
  <1>2. threshold \in Nat /\ threshold >= 1
    BY GreaterOfTwo, SMT
  <1>3. sum \in 0 .. Longest
    <2>1. /\ r.left \in Nat /\ r.queued \in Nat
          /\ r.left + r.queued + r.flight + r.pacer.acked <= Longest
      BY ConnFields, LongestIs, SMT DEF Accounted
    <2> QED
      BY <1>1, <2>1, SMT
  <1>4. q = IF p.mode # "adaptive" \/ r.flight = 0 THEN p
            ELSE IF sum < threshold \/ p.burst >= MaxBurst THEN [p EXCEPT !.acked = sum]
            ELSE [p EXCEPT !.acked = sum - threshold, !.burst = @ + 1]
    BY DEF NoteAck
  <1> HIDE DEF threshold, q
  <1>5. CASE p.mode # "adaptive"
    BY <1>1, <1>4, <1>5 DEF SamePace, q
  <1>6. CASE p.mode = "adaptive" /\ (sum < threshold \/ p.burst >= MaxBurst)
    <2>1. q = [p EXCEPT !.acked = sum]
      BY <1>4, <1>6
    <2> HIDE DEF sum
    <2>2. /\ q \in PacerType /\ q.mode = p.mode /\ q.inBurst = p.inBurst /\ q.last = p.last
          /\ q.blocked = p.blocked /\ q.timer = p.timer /\ q.acked = sum
      BY <1>1, <1>3, <2>1 DEF PacerType
    <2> QED
      BY <1>1, <1>6, <2>2 DEF SamePace, q, sum
  <1>7. CASE p.mode = "adaptive" /\ ~(sum < threshold \/ p.burst >= MaxBurst)
    <2>1. q = [p EXCEPT !.acked = sum - threshold, !.burst = p.burst + 1]
      BY <1>4, <1>7
    <2>2. /\ sum - threshold \in 0 .. Longest /\ sum - threshold <= sum
          /\ p.burst + 1 \in InitialBurst .. MaxBurst
      <3>1. InitialBurst \in Nat /\ MaxBurst \in Nat
        BY Constants
      <3> QED
        BY <1>1, <1>2, <1>3, <1>7, <3>1, SMT
    <2> HIDE DEF sum
    <2>3. /\ q \in PacerType /\ q.mode = p.mode /\ q.inBurst = p.inBurst /\ q.last = p.last
          /\ q.blocked = p.blocked /\ q.timer = p.timer /\ q.acked = sum - threshold
      BY <1>1, <2>1, <2>2 DEF PacerType
    <2> QED
      BY <1>7, <2>2, <2>3 DEF SamePace, q, sum
  <1> QED
    BY <1>1, <1>4, <1>5, <1>6, <1>7

LEMMA LossPaces ==
  ASSUME NEW r \in ConnType
  PROVE  SamePace(r, NoteLoss(r.pacer)) /\ NoteLoss(r.pacer).acked = 0
  <1> DEFINE p == r.pacer
             burst == IF p.mode = "adaptive" THEN Max({InitialBurst, p.burst \div 2}) ELSE p.burst
             q == NoteLoss(p)
  <1>1. p \in PacerType /\ p.burst \in InitialBurst .. MaxBurst
    BY ConnFields, PacerFields
  <1>2. InitialBurst \in Nat /\ MaxBurst \in Nat /\ InitialBurst <= MaxBurst /\ Longest \in Nat
    BY Constants, LongestIs
  <1>3. burst \in InitialBurst .. MaxBurst
    <2>1. PICK b \in Int : b = p.burst /\ b >= InitialBurst /\ b <= MaxBurst
      BY <1>1, <1>2
    <2>2. b \div 2 \in Int /\ b \div 2 <= b
      BY <1>2, <2>1, SMT
    <2>3. Max({InitialBurst, b \div 2}) = IF InitialBurst >= b \div 2 THEN InitialBurst ELSE b \div 2
      BY <1>2, <2>2, GreaterOfTwo
    <2>4. Max({InitialBurst, b \div 2}) \in InitialBurst .. MaxBurst
      BY <1>2, <2>1, <2>2, <2>3, SMT
    <2> QED
      BY <1>1, <2>1, <2>4
  <1>4. q = [p EXCEPT !.acked = 0, !.burst = burst]
    BY DEF NoteLoss
  <1>5. 0 \in 0 .. Longest
    BY <1>2, SMT
  <1>6. p.mode = "fixed" => burst = p.burst
    OBVIOUS
  <1> HIDE DEF burst, q
  <1>7. /\ q \in PacerType /\ q.mode = p.mode /\ q.inBurst = p.inBurst /\ q.last = p.last
        /\ q.blocked = p.blocked /\ q.timer = p.timer /\ q.acked = 0 /\ q.burst = burst
    BY <1>1, <1>3, <1>4, <1>5 DEF PacerType
  <1> QED
    BY <1>6, <1>7 DEF SamePace, q

LEMMA AcknowledgedPaced ==
  ASSUME NEW r, NEW history, NEW back, Paced(r, history, back), r.flight > 0, NEW window \in Nat
  PROVE  Paced([r EXCEPT !.flight = 0, !.pacer = NoteAck(r.pacer, r.flight, window)], history, back)
  <1> DEFINE p == NoteAck(r.pacer, r.flight, window)
             q == [r EXCEPT !.flight = 0, !.pacer = p]
  <1>1. r \in ConnType /\ Accounted(r) /\ Bounded(r.pacer, history, r.open)
    BY DEF Paced
  <1>2. SamePace(r, p) /\ p.acked <= r.pacer.acked + r.flight
    BY <1>1, AckPaces
  <1> HIDE DEF p
  <1>3. p \in PacerType /\ Bounded(p, history, r.open)
    BY <1>1, <1>2, SamePaceBounded DEF SamePace
  <1>4. 0 \in 0 .. Longest
    BY LongestIs, SMT
  <1>5. /\ q \in ConnType /\ q.left = r.left /\ q.queued = r.queued /\ q.flight = 0
        /\ q.open = r.open /\ q.pacer = p /\ q.sending = r.sending
    BY <1>1, <1>3, <1>4 DEF ConnType
  <1> HIDE DEF q
  <1>6. r.left + r.queued + 0 + p.acked <= Longest
    <2>1. /\ r.left \in Nat /\ r.queued \in Nat /\ r.flight \in Nat /\ r.pacer.acked \in Nat
          /\ p.acked \in Nat /\ Longest \in Nat
      BY <1>1, <1>3, ConnFields, PacerFields, LongestIs, SMT
    <2>2. r.left + r.queued + r.flight + r.pacer.acked <= Longest
      BY <1>1 DEF Accounted
    <2> QED
      BY <1>2, <2>1, <2>2, SMT
  <1>7. Paced(q, history, back)
    BY <1>2, <1>3, <1>5, <1>6 DEF Paced, Accounted, SamePace
  <1> QED
    BY <1>7 DEF q, p

\* The fields of r with another pacer.
LEMMA PacerReplaced ==
  ASSUME NEW r \in ConnType, NEW p \in PacerType
  PROVE  /\ [r EXCEPT !.pacer = p] \in ConnType
         /\ [r EXCEPT !.pacer = p].left = r.left
         /\ [r EXCEPT !.pacer = p].queued = r.queued
         /\ [r EXCEPT !.pacer = p].flight = r.flight
         /\ [r EXCEPT !.pacer = p].open = r.open
         /\ [r EXCEPT !.pacer = p].sending = r.sending
         /\ [r EXCEPT !.pacer = p].pacer = p
  BY DEF ConnType

LEMMA FewerAccounted ==
  ASSUME NEW r \in ConnType, Accounted(r), NEW p \in PacerType, p.acked <= r.pacer.acked
  PROVE  r.left + r.queued + r.flight + p.acked <= Longest
  <1>1. /\ r.left \in Nat /\ r.queued \in Nat /\ r.flight \in Nat /\ r.pacer.acked \in Nat
        /\ p.acked \in Nat /\ Longest \in Nat
    BY ConnFields, PacerFields, LongestIs, SMT
  <1> QED
    BY <1>1, SMT DEF Accounted

LEMMA LossPaced ==
  ASSUME NEW r, NEW history, NEW back, Paced(r, history, back)
  PROVE  Paced([r EXCEPT !.pacer = NoteLoss(r.pacer)], history, back)
  <1> DEFINE p == NoteLoss(r.pacer)
             q == [r EXCEPT !.pacer = p]
  <1>1. r \in ConnType /\ Accounted(r) /\ Bounded(r.pacer, history, r.open)
    BY DEF Paced
  <1>2. SamePace(r, p) /\ p.acked = 0
    BY <1>1, LossPaces
  <1> HIDE DEF p
  <1>3. p \in PacerType /\ Bounded(p, history, r.open)
    BY <1>1, <1>2, SamePaceBounded DEF SamePace
  <1>4. p.acked <= r.pacer.acked
    <2>1. r.pacer.acked \in 0 .. Longest
      BY <1>1, ConnFields, PacerFields
    <2> QED
      BY <1>2, <2>1, LongestIs, SMT
  <1>5. /\ q \in ConnType /\ q.left = r.left /\ q.queued = r.queued /\ q.flight = r.flight
        /\ q.open = r.open /\ q.pacer = p /\ q.sending = r.sending
    BY <1>1, <1>3, PacerReplaced
  <1> HIDE DEF q
  <1>6. r.left + r.queued + r.flight + p.acked <= Longest
    BY <1>1, <1>3, <1>4, FewerAccounted
  <1>7. Paced(q, history, back)
    BY <1>2, <1>3, <1>5, <1>6 DEF Paced, Accounted, SamePace
  <1> QED
    BY <1>7 DEF q, p

\* Nothing was sent within the interval.
LEMMA RestIsLong ==
  ASSUME NEW history, NEW ticks \in Int, Rests(history, ticks), ticks >= IntervalMs
  PROVE  Total(history, IntervalMs) = 0
  <1>1. IntervalMs \in Nat
    BY Constants
  <1>2. \A age \in 0 .. IntervalMs - 1 : age < ticks
    BY <1>1, SMT
  <1>3. \A age \in 0 .. IntervalMs - 1 : history[age] = 0
    BY <1>2 DEF Rests
  <1> QED
    BY <1>1, <1>3, TotalZero

LEMMA LimitIs ==
  ASSUME NEW p \in PacerType
  PROVE  /\ Limit(p) \in Nat /\ Limit(p) >= 1
         /\ p.inBurst \in Nat
         /\ p.mode = "fixed" => Limit(p) = InitialBurst
         /\ p.mode # "fixed" => Limit(p) = MaxBurst
  <1>1. p.inBurst \in 0 .. MaxBurst - 1
    BY PacerFields
  <1> QED
    BY <1>1, Constants, SMT DEF Limit

LEMMA ReadyPaced ==
  ASSUME NEW r, NEW history, NEW back, Paced(r, history, back), r.pacer.timer = 0
  PROVE  Paced([r EXCEPT !.pacer = Ready(r.pacer)], history, back)
  <1> DEFINE p == Ready(r.pacer)
             q == [r EXCEPT !.pacer = p]
  <1>1. r \in ConnType /\ Accounted(r) /\ Bounded(r.pacer, history, r.open) /\ r.pacer \in PacerType
    BY ConnFields DEF Paced
  <1>2. /\ p \in PacerType /\ p.mode = r.pacer.mode /\ p.burst = r.pacer.burst
        /\ p.inBurst = r.pacer.inBurst /\ p.acked = r.pacer.acked /\ p.last = r.pacer.last
        /\ p.blocked = FALSE /\ p.timer = None
    BY <1>1 DEF Ready, PacerType
  <1> HIDE DEF p
  <1>3. Total(history, IntervalMs) = 0
    <2>1. IntervalMs \in Nat /\ 0 # None /\ IntervalMs - 0 \in Int /\ IntervalMs - 0 >= IntervalMs
      BY Constants
    <2>2. Rests(history, IntervalMs - 0)
      BY <1>1, <2>1 DEF Bounded
    <2> QED
      BY <2>1, <2>2, RestIsLong
  <1>4. Bounded(p, history, r.open)
    <2>1. p.inBurst \in Nat
      BY <1>2, LimitIs
    <2>2. 0 <= p.inBurst
      BY <2>1, SMT
    <2> QED
      BY <1>1, <1>2, <1>3, <2>2 DEF Bounded, Limit
  <1>5. /\ q \in ConnType /\ q.left = r.left /\ q.queued = r.queued /\ q.flight = r.flight
        /\ q.open = r.open /\ q.pacer = p /\ q.sending = r.sending
    BY <1>1, <1>2, PacerReplaced
  <1> HIDE DEF q
  <1>6. Paced(q, history, back)
    BY <1>1, <1>2, <1>4, <1>5 DEF Paced, Accounted
  <1> QED
    BY <1>6 DEF q, p

LEMMA ClosePaced ==
  ASSUME NEW r, NEW history, NEW back, Paced(r, history, back), ~r.sending
  PROVE  Paced([r EXCEPT !.open = FALSE, !.pacer = ClosePacer(r.pacer)], history, back)
  <1> DEFINE p == ClosePacer(r.pacer)
             q == [r EXCEPT !.open = FALSE, !.pacer = p]
  <1>1. r \in ConnType /\ Accounted(r) /\ Bounded(r.pacer, history, r.open) /\ r.pacer \in PacerType
    BY ConnFields DEF Paced
  <1>2. 0 \in 0 .. MaxBurst - 1 /\ 0 < InitialBurst
    BY Constants, SMT
  <1>3. /\ p \in PacerType /\ p.mode = r.pacer.mode /\ p.burst = r.pacer.burst
        /\ p.inBurst = 0 /\ p.acked = r.pacer.acked /\ p.last = r.pacer.last
        /\ p.blocked = FALSE /\ p.timer = None
    BY <1>1, <1>2 DEF ClosePacer, PacerType
  <1> HIDE DEF p
  <1>4. Bounded(p, history, FALSE)
    BY <1>1, <1>2, <1>3 DEF Bounded, Limit
  <1>5. /\ q \in ConnType /\ q.left = r.left /\ q.queued = r.queued /\ q.flight = r.flight
        /\ q.open = FALSE /\ q.pacer = p /\ q.sending = r.sending
    BY <1>1, <1>3 DEF ConnType
  <1> HIDE DEF q
  <1>6. Paced(q, history, back)
    BY <1>1, <1>3, <1>4, <1>5 DEF Paced, Accounted
  <1> QED
    BY <1>6 DEF q, p

LEMMA NothingRests ==
  ASSUME NEW history
  PROVE  Rests(history, 0)
  <1>1. \A age \in 0 .. IntervalMs - 1 : ~(age < 0)
    BY Constants, SMT
  <1> QED
    BY <1>1 DEF Rests

LEMMA SegmentBounded ==
  ASSUME NEW p \in PacerType, NEW history \in [0 .. IntervalMs - 1 -> Nat],
         Bounded(p, history, TRUE), ~p.blocked, p.mode # "off",
         NEW more, Added(history, more, IntervalMs, 1)
  PROVE  /\ NoteSegment(p) \in PacerType
         /\ Bounded(NoteSegment(p), more, TRUE)
         /\ NoteSegment(p).acked = p.acked
         /\ NoteSegment(p).mode = p.mode
         /\ NoteSegment(p).last = 0
  <1> DEFINE count == 1 + IF Rested(p) THEN 0 ELSE p.inBurst
             q == NoteSegment(p)
             sent == Total(history, IntervalMs)
  <1>1. /\ IntervalMs \in Nat /\ IntervalMs # 0 /\ InitialBurst \in Nat \ {0} /\ MaxBurst \in Nat
        /\ InitialBurst <= MaxBurst /\ MaxSetBack \in Nat /\ None \notin Int
    BY Constants DEF Bounded
  <1>2. /\ p.inBurst \in 0 .. MaxBurst - 1 /\ p.burst \in InitialBurst .. MaxBurst
        /\ p.last \in Ages(IntervalMs) \cup {None} /\ p.inBurst \in Nat /\ p.burst \in Nat
    BY <1>1, PacerFields, SMT
  <1>3. count \in Nat /\ count >= 1 /\ count <= p.inBurst + 1
    BY <1>2, SMT
  <1>4. sent \in Nat /\ Total(more, IntervalMs) = sent + 1
    <2>1. IntervalMs \in 0 .. IntervalMs /\ IntervalMs \in 1 .. IntervalMs /\ 1 \in Nat
      BY <1>1, SMT
    <2>2. Total(history, IntervalMs) \in Nat
      BY <1>1, <2>1, TotalType
    <2>3. Total(more, IntervalMs) = Total(history, IntervalMs) + 1
      BY <1>1, <2>1, TotalAdded
    <2> QED
      BY <2>2, <2>3
  <1> HIDE DEF sent
  <1>5. Total(more, IntervalMs) <= count
    <2>1. CASE Rested(p)
      <3>1. p.last # None /\ p.last >= IntervalMs /\ Rests(history, p.last)
        BY <2>1 DEF Rested, Bounded
      <3>2. p.last \in Int
        BY <1>1, <1>2, <3>1, SMT DEF Ages
      <3>3. sent = 0
        BY <3>1, <3>2, RestIsLong DEF sent
      <3> QED
        BY <1>3, <1>4, <3>3, SMT
    <2>2. CASE ~Rested(p)
      <3>1. sent <= p.inBurst /\ count = 1 + p.inBurst
        BY <2>2 DEF Bounded, sent
      <3> HIDE DEF count
      <3> QED
        BY <1>2, <1>4, <3>1, SMT
    <2> QED
      BY <2>1, <2>2
  <1>6. count <= Limit(p) /\ (p.mode = "fixed" => p.burst = InitialBurst)
    <2>1. p.mode = "fixed" => p.inBurst < InitialBurst /\ Limit(p) = InitialBurst /\ p.burst = InitialBurst
      BY LimitIs DEF Bounded
    <2>2. p.mode # "fixed" => Limit(p) = MaxBurst
      BY LimitIs
    <2>3. p.inBurst <= MaxBurst - 1
      BY <1>1, <1>2, SMT
    <2> HIDE DEF count
    <2> QED
      BY <1>1, <1>2, <1>3, <2>1, <2>2, <2>3, SMT
  <1>7. Total(more, IntervalMs) <= Limit(p)
    <2>1. Limit(p) \in Nat
      BY LimitIs
    <2> HIDE DEF count
    <2> QED
      BY <1>3, <1>4, <1>5, <1>6, <2>1, SMT
  <1>8. Rests(more, 0) /\ 0 \in Ages(IntervalMs) \cup {None} /\ 0 # None
    <2>1. 0 \in Ages(IntervalMs)
      BY <1>1, SMT DEF Ages
    <2> QED
      BY <1>1, <2>1, NothingRests
  <1>9. q = IF count < p.burst THEN [p EXCEPT !.last = 0, !.inBurst = count]
            ELSE [p EXCEPT !.last = 0, !.inBurst = 0, !.blocked = TRUE, !.timer = IntervalMs]
    BY DEF NoteSegment
  <1> HIDE DEF count, q
  <1>10. CASE count < p.burst
    <2>1. count \in 0 .. MaxBurst - 1
      BY <1>1, <1>2, <1>3, <1>10, SMT
    <2>2. /\ q \in PacerType /\ q.mode = p.mode /\ q.burst = p.burst /\ q.inBurst = count
          /\ q.acked = p.acked /\ q.last = 0 /\ q.blocked = p.blocked /\ q.timer = p.timer
      BY <1>8, <1>9, <1>10, <2>1 DEF PacerType
    <2>3. p.mode = "fixed" => p.burst = InitialBurst /\ count < InitialBurst
      BY <1>6, <1>10
    <2>4. /\ p.blocked <=> p.timer # None
          /\ IntervalMs = 0 => p.mode = "off"
      BY DEF Bounded
    <2>5. p.timer = None
      BY <2>4
    <2>6. Limit(q) = Limit(p)
      BY <2>2 DEF Limit
    <2>7. Bounded(q, more, TRUE)
      BY <1>5, <1>7, <1>8, <2>2, <2>3, <2>4, <2>5, <2>6 DEF Bounded
    <2> QED
      BY <2>2, <2>7 DEF q
  <1>11. CASE ~(count < p.burst)
    <2>1. /\ 0 \in 0 .. MaxBurst - 1 /\ 0 < InitialBurst
          /\ IntervalMs \in 0 .. IntervalMs \cup {None} /\ IntervalMs # None
          /\ IntervalMs - IntervalMs = 0
      BY <1>1, SMT
    <2>2. /\ q \in PacerType /\ q.mode = p.mode /\ q.burst = p.burst /\ q.inBurst = 0
          /\ q.acked = p.acked /\ q.last = 0 /\ q.blocked = TRUE /\ q.timer = IntervalMs
      BY <1>8, <1>9, <1>11, <2>1 DEF PacerType
    <2>3. Limit(q) = Limit(p)
      BY <2>2 DEF Limit
    <2>4. Bounded(q, more, TRUE)
      BY <1>1, <1>6, <1>7, <1>8, <2>1, <2>2, <2>3 DEF Bounded
    <2> QED
      BY <2>2, <2>4 DEF q
  <1> QED
    BY <1>10, <1>11

\* What is taken from the queue of r for its next segment.
LEMMA SegmentIs ==
  ASSUME NEW c, NEW r, r = conn[c], r \in ConnType, r.queued > 0
  PROVE  ToSend(c) \in Nat \ {0} /\ ToSend(c) <= r.queued
  <1>1. Mss \in Nat \ {0} /\ r.queued \in Nat
    BY Constants, ConnFields, LongestIs, SMT
  <1>2. Mss \in Int /\ r.queued \in Int
    BY <1>1
  <1>3. ToSend(c) = IF Mss <= r.queued THEN Mss ELSE r.queued
    BY <1>2, LesserOfTwo DEF ToSend
  <1> QED
    BY <1>1, <1>3, SMT

\* A segment goes from the queue of r into its flight.
LEMMA SegmentAccounted ==
  ASSUME NEW r \in ConnType, Accounted(r), NEW bytes \in Nat, bytes <= r.queued
  PROVE  /\ r.queued - bytes \in 0 .. Longest /\ r.flight + bytes \in 0 .. Longest
         /\ r.left + (r.queued - bytes) + (r.flight + bytes) + r.pacer.acked <= Longest
  <1>1. /\ r.left \in Nat /\ r.queued \in Nat /\ r.flight \in Nat /\ r.pacer.acked \in Nat
        /\ Longest \in Nat
    BY ConnFields, PacerFields, LongestIs, SMT
  <1>2. r.left + r.queued + r.flight + r.pacer.acked <= Longest
    BY DEF Accounted
  <1> QED
    BY <1>1, <1>2, SMT

LEMMA SegmentPaced ==
  ASSUME NEW r, NEW history \in [0 .. IntervalMs - 1 -> Nat], NEW back \in Nat,
         Paced(r, history, back), r.sending, NEW bytes \in Nat, bytes <= r.queued,
         NEW more \in [0 .. IntervalMs - 1 -> Nat],
         IF NoteSegment(r.pacer).mode = "off" THEN more = history
         ELSE Added(history, more, IntervalMs, 1)
  PROVE  Paced([r EXCEPT !.queued = @ - bytes, !.flight = @ + bytes,
                         !.pacer = NoteSegment(r.pacer),
                         !.sending = ~NoteSegment(r.pacer).blocked /\ r.queued > bytes], more, back)
  <1> DEFINE p == NoteSegment(r.pacer)
             s == ~p.blocked /\ r.queued > bytes
             q == [r EXCEPT !.queued = @ - bytes, !.flight = @ + bytes, !.pacer = p, !.sending = s]
  <1>1. /\ r \in ConnType /\ Accounted(r) /\ Bounded(r.pacer, history, r.open)
        /\ r.pacer \in PacerType /\ r.open /\ ~r.pacer.blocked /\ r.open = TRUE
    BY ConnFields DEF Paced
  <1>2. /\ p \in PacerType /\ Bounded(p, more, TRUE) /\ p.acked = r.pacer.acked
        /\ p.last # None => p.last >= -back
    <2>1. CASE r.pacer.mode = "off"
      <3>1. p = r.pacer
        BY <2>1 DEF NoteSegment
      <3>2. more = history
        BY <2>1, <3>1
      <3> HIDE DEF p
      <3> QED
        BY <1>1, <3>1, <3>2 DEF Paced
    <2>2. CASE r.pacer.mode # "off"
      <3>1. p.mode = r.pacer.mode
        BY <1>1, <2>2 DEF NoteSegment, PacerType
      <3>2. Added(history, more, IntervalMs, 1)
        BY <2>2, <3>1
      <3>3. Bounded(r.pacer, history, TRUE)
        BY <1>1
      <3>4. 0 >= -back
        BY SMT
      <3> HIDE DEF p
      <3> QED
        BY <1>1, <2>2, <3>2, <3>3, <3>4, SegmentBounded DEF p
    <2> QED
      BY <2>1, <2>2
  <1> HIDE DEF p
  <1>3. s \in BOOLEAN /\ (s => ~p.blocked)
    OBVIOUS
  <1> HIDE DEF s
  <1>4. /\ r.queued - bytes \in 0 .. Longest /\ r.flight + bytes \in 0 .. Longest
        /\ r.left + (r.queued - bytes) + (r.flight + bytes) + p.acked <= Longest
    <2>1. p.acked = r.pacer.acked
      BY <1>2
    <2> QED
      BY <1>1, <2>1, SegmentAccounted
  <1>5. /\ q \in ConnType /\ q.left = r.left /\ q.queued = r.queued - bytes
        /\ q.flight = r.flight + bytes /\ q.open = r.open /\ q.pacer = p /\ q.sending = s
    BY <1>1, <1>2, <1>3, <1>4 DEF ConnType
  <1> HIDE DEF q
  <1>6. Accounted(q)
    BY <1>4, <1>5 DEF Accounted
  <1>7. Paced(q, more, back)
    BY <1>1, <1>2, <1>3, <1>5, <1>6 DEF Paced
  <1> QED
    BY <1>7 DEF q, p, s

\* A rest gets longer by a tick.
LEMMA RestGrows ==
  ASSUME NEW history \in [0 .. IntervalMs - 1 -> Nat], NEW ticks \in Int, Rests(history, ticks),
         NEW more \in Int, more <= ticks + 1
  PROVE  Rests(Shifted(history), more)
  <1>1. IntervalMs \in Nat
    BY Constants
  <1>2. ASSUME NEW age \in 0 .. IntervalMs - 1, age < more
        PROVE  Shifted(history)[age] = 0
    <2>1. Shifted(history)[age] = IF age = 0 THEN 0 ELSE history[age - 1]
      BY <1>1, ShiftedType
    <2>2. CASE age # 0
      <3>1. age - 1 \in 0 .. IntervalMs - 1 /\ age - 1 < ticks
        BY <1>1, <1>2, <2>2, SMT
      <3> QED
        BY <2>1, <2>2, <3>1 DEF Rests
    <2> QED
      BY <2>1, <2>2
  <1> QED
    BY <1>2 DEF Rests

LEMMA RestShrinks ==
  ASSUME NEW history, NEW ticks \in Int, Rests(history, ticks), NEW less \in Int, less <= ticks
  PROVE  Rests(history, less)
  <1>1. \A age \in 0 .. IntervalMs - 1 : age < less => age < ticks
    BY Constants, SMT
  <1> QED
    BY <1>1 DEF Rests

\* The pacer q is p after a tick.
Ticked(p, q) ==
  q = [p EXCEPT !.last = IF p.last = None THEN None ELSE Older(p.last, IntervalMs),
                !.timer = IF p.timer = None THEN None ELSE CountDown(p.timer)]

LEMMA TickBounded ==
  ASSUME NEW p \in PacerType, NEW history \in [0 .. IntervalMs - 1 -> Nat], NEW open \in BOOLEAN,
         Bounded(p, history, open),
         NEW q, Ticked(p, q)
  PROVE  /\ q \in PacerType /\ Bounded(q, Shifted(history), open)
         /\ q.blocked = p.blocked /\ q.acked = p.acked
         /\ p.last = None => q.last = None
         /\ p.last # None => p.last \in Int /\ q.last \in Int /\ q.last >= p.last
  <1>1. /\ IntervalMs \in Nat /\ None \notin Int
        /\ p.last \in Ages(IntervalMs) \cup {None} /\ p.timer \in 0 .. IntervalMs \cup {None}
    BY Constants, PacerFields
  <1> DEFINE last == IF p.last = None THEN None ELSE Older(p.last, IntervalMs)
             timer == IF p.timer = None THEN None ELSE CountDown(p.timer)
  <1>2. p.last # None => /\ p.last \in Int /\ last \in Int /\ last # None /\ last \in Ages(IntervalMs)
                         /\ last >= p.last /\ last <= p.last + 1
    BY <1>1, OlderIs
  <1>3. p.timer # None => /\ p.timer \in Int /\ timer \in 0 .. IntervalMs /\ timer # None /\ timer \in Int
                          /\ IntervalMs - timer <= IntervalMs - p.timer + 1
                          /\ IntervalMs - timer \in Int /\ IntervalMs - p.timer \in Int
    <2>1. ASSUME p.timer # None
          PROVE  /\ p.timer \in Int /\ timer \in 0 .. IntervalMs /\ timer # None /\ timer \in Int
                 /\ timer >= p.timer - 1
      <3>1. p.timer \in 0 .. IntervalMs
        BY <1>1, <2>1
      <3>2. p.timer \in Int /\ p.timer - 1 \in Int /\ 0 \in Int
        BY <1>1, <3>1, SMT
      <3>3. CountDown(p.timer) = IF p.timer - 1 >= 0 THEN p.timer - 1 ELSE 0
        BY <3>2, GreaterOfTwo DEF CountDown
      <3>4. /\ CountDown(p.timer) \in 0 .. IntervalMs /\ CountDown(p.timer) \in Int
            /\ CountDown(p.timer) >= p.timer - 1
        BY <1>1, <3>1, <3>2, <3>3, SMT
      <3> QED
        BY <1>1, <2>1, <3>2, <3>4
    <2> HIDE DEF timer
    <2>2. ASSUME p.timer # None
          PROVE  /\ IntervalMs - timer <= IntervalMs - p.timer + 1
                 /\ IntervalMs - timer \in Int /\ IntervalMs - p.timer \in Int
      BY <1>1, <2>1, <2>2, SMT
    <2> QED
      BY <2>1, <2>2
  <1>4. q = [p EXCEPT !.last = last, !.timer = timer]
    BY DEF Ticked
  <1>5. (p.last = None => last = None) /\ (p.timer = None => timer = None)
    OBVIOUS
  <1>6. last \in Ages(IntervalMs) \cup {None} /\ timer \in 0 .. IntervalMs \cup {None}
    BY <1>2, <1>3, <1>5
  <1> HIDE DEF last, timer
  <1>7. /\ q \in PacerType /\ q.mode = p.mode /\ q.burst = p.burst /\ q.inBurst = p.inBurst
        /\ q.acked = p.acked /\ q.blocked = p.blocked /\ q.last = last /\ q.timer = timer
    BY <1>4, <1>6 DEF PacerType
  <1>8. last # None => Rests(Shifted(history), last)
    BY <1>2, <1>5, RestGrows DEF Bounded
  <1>9. timer # None => Rests(Shifted(history), IntervalMs - timer)
    <2>1. ASSUME timer # None PROVE Rests(Shifted(history), IntervalMs - timer)
      <3>1. p.timer # None
        BY <1>5, <2>1
      <3>2. Rests(history, IntervalMs - p.timer)
        BY <3>1 DEF Bounded
      <3>3. PICK t \in Int, s \in Int : t = IntervalMs - p.timer /\ s = IntervalMs - timer /\ s <= t + 1
        BY <1>3, <3>1
      <3> QED
        BY <3>2, <3>3, RestGrows
    <2> QED
      BY <2>1
  <1>10. Total(Shifted(history), IntervalMs) <= Total(history, IntervalMs)
    <2>1. CASE IntervalMs = 0
      <3>1. 0 <= 0
        BY SMT
      <3> QED
        BY <2>1, <3>1, TotalNothing
    <2>2. CASE IntervalMs # 0
      <3>1. IntervalMs \in 1 .. IntervalMs /\ IntervalMs - 1 \in 0 .. IntervalMs
        BY <1>1, <2>2, SMT
      <3>2. Total(Shifted(history), IntervalMs) = Total(history, IntervalMs - 1)
        BY <1>1, <3>1, TotalShifted
      <3> QED
        BY <1>1, <3>1, <3>2, TotalGrows
    <2> QED
      BY <2>1, <2>2
  <1>11. /\ Total(Shifted(history), IntervalMs) \in Nat /\ Total(history, IntervalMs) \in Nat
    <2>1. IntervalMs \in 0 .. IntervalMs /\ Shifted(history) \in [0 .. IntervalMs - 1 -> Nat]
      BY <1>1, ShiftedType, SMT
    <2> QED
      BY <1>1, <2>1, TotalType
  <1>12. /\ Total(Shifted(history), IntervalMs) <= Limit(p)
         /\ open /\ ~p.blocked => Total(Shifted(history), IntervalMs) <= p.inBurst
    <2>1. Limit(p) \in Nat /\ p.inBurst \in Nat
      BY LimitIs
    <2>2. /\ Total(history, IntervalMs) <= Limit(p)
          /\ open /\ ~p.blocked => Total(history, IntervalMs) <= p.inBurst
      BY DEF Bounded
    <2> QED
      BY <1>10, <1>11, <2>1, <2>2, SMT
  <1>13. Limit(q) = Limit(p)
    BY <1>7 DEF Limit
  <1>14. timer # None <=> p.timer # None
    BY <1>3, <1>5
  <1>15. Bounded(q, Shifted(history), open)
    BY <1>7, <1>8, <1>9, <1>12, <1>13, <1>14 DEF Bounded
  <1> QED
    BY <1>2, <1>5, <1>7, <1>15

LEMMA TickPaced ==
  ASSUME NEW r, NEW history \in [0 .. IntervalMs - 1 -> Nat], NEW back \in Nat,
         Paced(r, history, back)
  PROVE  Paced([r EXCEPT !.pacer.last = IF @ = None THEN None ELSE Older(@, IntervalMs),
                         !.pacer.timer = IF @ = None THEN None ELSE CountDown(@)],
               Shifted(history), back)
  <1> DEFINE p == [r.pacer EXCEPT
                    !.last = IF r.pacer.last = None THEN None ELSE Older(r.pacer.last, IntervalMs),
                    !.timer = IF r.pacer.timer = None THEN None ELSE CountDown(r.pacer.timer)]
             q == [r EXCEPT !.pacer = p]
  <1>1. /\ r \in ConnType /\ Accounted(r) /\ Bounded(r.pacer, history, r.open) /\ r.pacer \in PacerType
        /\ r.open \in BOOLEAN
    BY ConnFields DEF Paced
  <1>2. [r EXCEPT !.pacer.last = IF @ = None THEN None ELSE Older(@, IntervalMs),
                  !.pacer.timer = IF @ = None THEN None ELSE CountDown(@)] = q
    BY <1>1 DEF ConnType, PacerType
  <1> HIDE DEF p, q
  <1>3. /\ p \in PacerType /\ Bounded(p, Shifted(history), r.open)
        /\ p.blocked = r.pacer.blocked /\ p.acked = r.pacer.acked
        /\ r.pacer.last = None => p.last = None
        /\ r.pacer.last # None => r.pacer.last \in Int /\ p.last \in Int /\ p.last >= r.pacer.last
    <2>1. Ticked(r.pacer, p)
      BY DEF Ticked, p
    <2> QED
      BY <1>1, <2>1, TickBounded
  <1>4. p.last # None => p.last >= -back
    <2>1. ASSUME p.last # None PROVE p.last >= -back
      <3>1. r.pacer.last # None
        BY <1>3, <2>1
      <3>2. PICK a \in Int, b \in Int : a = r.pacer.last /\ b = p.last /\ b >= a
        BY <1>3, <3>1
      <3>3. a >= -back
        BY <3>1, <3>2 DEF Paced
      <3>4. b >= -back
        BY <3>2, <3>3, SMT
      <3> QED
        BY <3>2, <3>4
    <2> QED
      BY <2>1
  <1>5. /\ q \in ConnType /\ q.left = r.left /\ q.queued = r.queued /\ q.flight = r.flight
        /\ q.open = r.open /\ q.pacer = p /\ q.sending = r.sending
    BY <1>1, <1>3, PacerReplaced DEF q
  <1>6. Paced(q, Shifted(history), back)
    BY <1>1, <1>3, <1>4, <1>5 DEF Paced, Accounted
  <1> QED
    BY <1>2, <1>6 DEF q

LEMMA SetBackPaced ==
  ASSUME NEW r, NEW history, NEW back \in 0 .. MaxSetBack - 1, Paced(r, history, back)
  PROVE  Paced([r EXCEPT !.pacer.last = IF @ = None THEN None ELSE @ - 1], history, back + 1)
  <1> DEFINE last == IF r.pacer.last = None THEN None ELSE r.pacer.last - 1
             p == [r.pacer EXCEPT !.last = last]
             q == [r EXCEPT !.pacer = p]
  <1>1. /\ r \in ConnType /\ Accounted(r) /\ Bounded(r.pacer, history, r.open) /\ r.pacer \in PacerType
    BY ConnFields DEF Paced
  <1>2. [r EXCEPT !.pacer.last = IF @ = None THEN None ELSE @ - 1] = q
    BY <1>1 DEF ConnType, PacerType
  <1>3. last # None => /\ last \in Ages(IntervalMs) /\ last >= -(back + 1)
                       /\ Rests(history, last)
    <2>1. ASSUME last # None
          PROVE  /\ last \in Ages(IntervalMs) /\ last >= -(back + 1)
                 /\ Rests(history, last)
      <3>1. /\ r.pacer.last # None /\ last = r.pacer.last - 1
            /\ r.pacer.last >= -back /\ Rests(history, r.pacer.last)
        BY <1>1, <2>1 DEF Bounded, Paced
      <3>2. PICK a \in Ages(IntervalMs) : a = r.pacer.last
        BY <1>1, <3>1, PacerFields
      <3>3. IntervalMs \in Nat /\ MaxSetBack \in Nat
        BY Constants
      <3>4. /\ a \in Int /\ a - 1 \in Ages(IntervalMs) /\ a - 1 >= -(back + 1) /\ a - 1 <= a
            /\ a - 1 \in Int
        BY <3>1, <3>2, <3>3, SMT DEF Ages
      <3> QED
        BY <3>1, <3>2, <3>4, RestShrinks
    <2> QED
      BY <2>1
  <1>4. last \in Ages(IntervalMs) \cup {None}
    BY <1>3
  <1> HIDE DEF last
  <1>5. /\ p \in PacerType /\ p.mode = r.pacer.mode /\ p.burst = r.pacer.burst
        /\ p.inBurst = r.pacer.inBurst /\ p.acked = r.pacer.acked /\ p.last = last
        /\ p.blocked = r.pacer.blocked /\ p.timer = r.pacer.timer
    BY <1>1, <1>4 DEF PacerType
  <1> HIDE DEF p
  <1>6. Bounded(p, history, r.open)
    BY <1>1, <1>3, <1>5 DEF Bounded, Limit
  <1>7. /\ q \in ConnType /\ q.left = r.left /\ q.queued = r.queued /\ q.flight = r.flight
        /\ q.open = r.open /\ q.pacer = p /\ q.sending = r.sending
    BY <1>1, <1>5, PacerReplaced
  <1> HIDE DEF q
  <1>8. Paced(q, history, back + 1)
    BY <1>1, <1>3, <1>5, <1>6, <1>7 DEF Paced, Accounted
  <1> QED
    BY <1>2, <1>8 DEF q, p, last
-----------------------------------------------------------------------------
(* The invariant holds at first.                                           *)

LEMMA NewCounts ==
  ASSUME NEW history, \A age \in 0 .. WindowMs - 1 : history[age] = 0
  PROVE  Counts(NewLimiter, history, 0)
  <1> DEFINE l == NewLimiter
             mark == [age \in 0 .. WindowMs |-> 0]
  <1>1. WindowMs \in Nat /\ MaxBytes \in Nat
    BY Constants
  <1>2. /\ l.entries = <<>> /\ l.head = 0 /\ l.total = 0 /\ Len(l.entries) = 0
        /\ l.entries \in Seq(Entry)
    BY DEF NewLimiter
  <1>3. 0 \in 0 .. MaxBytes /\ 0 <= 0 /\ 0 \in 0 .. 0 /\ 0 + 1 .. 0 = {} /\ 1 .. 0 = {} /\ 0 \in Int
    BY <1>1, SMT
  <1>4. l \in LimiterType
    BY <1>3 DEF NewLimiter, LimiterType
  <1> HIDE DEF l
  <1>5. BytesOf(l.entries, 0, 0) = 0
    BY <1>3, BytesNothing
  <1>6. ASSUME NEW age \in 0 .. WindowMs PROVE Total(history, age) = 0
    <2>1. age \in Nat /\ \A i \in 0 .. age - 1 : i \in 0 .. WindowMs - 1
      BY <1>1, SMT
    <2>2. \A i \in 0 .. age - 1 : history[i] = 0
      BY <2>1
    <2> QED
      BY <2>1, <2>2, TotalZero
  <1>7. mark \in [0 .. WindowMs -> Nat] /\ \A age \in 0 .. WindowMs : mark[age] = 0
    OBVIOUS
  <1> HIDE DEF mark
  <1>8. Marks(l, history, 0, mark)
    BY <1>2, <1>3, <1>5, <1>6, <1>7 DEF Marks
  <1>9. Counts(l, history, 0)
    BY <1>2, <1>3, <1>4, <1>5, <1>7, <1>8 DEF Counts, Counted
  <1> QED
    BY <1>9 DEF l

LEMMA NewPaced ==
  ASSUME NEW mode \in Modes, NEW left \in 0 .. Longest,
         NEW history, \A age \in 0 .. IntervalMs - 1 : history[age] = 0
  PROVE  Paced([left |-> left, queued |-> 0, flight |-> 0, sending |-> FALSE, open |-> TRUE,
                pacer |-> NewPacer(mode)], history, 0)
  <1> DEFINE p == NewPacer(mode)
             r == [left |-> left, queued |-> 0, flight |-> 0, sending |-> FALSE, open |-> TRUE,
                   pacer |-> p]
  <1>1. /\ IntervalMs \in Nat /\ InitialBurst \in Nat \ {0} /\ MaxBurst \in Nat
        /\ InitialBurst <= MaxBurst /\ Longest \in Nat
    BY Constants, LongestIs
  <1>2. /\ 0 \in 0 .. Longest /\ 0 \in 0 .. MaxBurst - 1 /\ InitialBurst \in InitialBurst .. MaxBurst
        /\ 0 < InitialBurst /\ 0 <= 0
    BY <1>1, SMT
  <1>3. /\ p \in PacerType /\ p.burst = InitialBurst /\ p.inBurst = 0 /\ p.acked = 0
        /\ p.last = None /\ p.blocked = FALSE /\ p.timer = None
        /\ IntervalMs = 0 => p.mode = "off"
    BY <1>2 DEF NewPacer, PacerType, Modes
  <1> HIDE DEF p
  <1>4. Total(history, IntervalMs) = 0
    BY <1>1, TotalZero
  <1>5. Bounded(p, history, TRUE)
    <2>1. Limit(p) \in Nat /\ 0 <= Limit(p)
      BY <1>3, LimitIs
    <2> QED
      BY <1>2, <1>3, <1>4, <2>1 DEF Bounded
  <1>6. /\ r \in ConnType /\ r.left = left /\ r.queued = 0 /\ r.flight = 0 /\ r.sending = FALSE
        /\ r.open = TRUE /\ r.pacer = p
    BY <1>2, <1>3 DEF ConnType
  <1> HIDE DEF r
  <1>7. left + 0 + 0 + 0 <= Longest
    BY <1>1, SMT
  <1>8. Paced(r, history, 0)
    BY <1>3, <1>5, <1>6, <1>7 DEF Paced, Accounted
  <1> QED
    BY <1>8 DEF r, p

LEMMA InitInv == Init => IInv
  <1> SUFFICES ASSUME Init PROVE IInv
    OBVIOUS
  <1>1. PICK mode \in Modes :
          conn = [c \in Conns |->
                   [left |-> IF c \in Long THEN StreamBytes ELSE Mss, queued |-> 0, flight |-> 0,
                    sending |-> FALSE, open |-> TRUE, pacer |-> NewPacer(mode)]]
    BY DEF Init
  <1>2. /\ limiter = NewLimiter /\ forward \subseteq Conns /\ retries = [c \in Conns |-> {}]
        /\ setBack = 0 /\ spent = [age \in 0 .. WindowMs - 1 |-> 0]
        /\ bursts = [c \in Conns |-> [age \in 0 .. IntervalMs - 1 |-> 0]]
    BY DEF Init
  <1>3. 0 \in Nat /\ 0 \in 0 .. MaxSetBack
    BY Constants, SMT
  <1>4. \A age \in 0 .. WindowMs - 1 : spent[age] = 0
    BY <1>2
  <1>5. Counts(limiter, spent, setBack)
    BY <1>2, <1>4, NewCounts
  <1>6. ASSUME NEW c \in Conns
        PROVE  conn[c] \in ConnType /\ Paced(conn[c], bursts[c], setBack)
    <2> DEFINE left == IF c \in Long THEN StreamBytes ELSE Mss
    <2>1. left \in 0 .. Longest
      BY Constants, LongestIs, SMT
    <2>2. conn[c] = [left |-> left, queued |-> 0, flight |-> 0, sending |-> FALSE, open |-> TRUE,
                     pacer |-> NewPacer(mode)]
      BY <1>1
    <2> HIDE DEF left
    <2>3. \A age \in 0 .. IntervalMs - 1 : bursts[c][age] = 0
      BY <1>2
    <2>4. Paced(conn[c], bursts[c], 0)
      BY <2>1, <2>2, <2>3, NewPaced
    <2> QED
      BY <1>2, <2>4 DEF Paced
  <1>7. conn \in [Conns -> ConnType]
    BY <1>1, <1>6
  <1>8. /\ retries \in [Conns -> SUBSET (0 .. RetryMs)]
        /\ spent \in [0 .. WindowMs - 1 -> Nat]
        /\ bursts \in [Conns -> [0 .. IntervalMs - 1 -> Nat]]
    BY <1>2, <1>3
  <1> QED
    BY <1>2, <1>3, <1>5, <1>6, <1>7, <1>8 DEF IInv
-----------------------------------------------------------------------------
(* Every step keeps it.                                                    *)

\* One connection changes.
LEMMA OneChanges ==
  ASSUME IInv, NEW c \in Conns, NEW r, conn' = [conn EXCEPT ![c] = r],
         bursts' \in [Conns -> [0 .. IntervalMs - 1 -> Nat]],
         \A d \in Conns : d # c => bursts'[d] = bursts[d],
         Paced(r, bursts'[c], setBack), UNCHANGED setBack
  PROVE  /\ conn' \in [Conns -> ConnType]
         /\ \A d \in Conns : Paced(conn'[d], bursts'[d], setBack')
  <1>1. conn \in [Conns -> ConnType] /\ r \in ConnType
    BY DEF IInv, Paced
  <1>2. conn' \in [Conns -> ConnType]
    BY <1>1
  <1>3. ASSUME NEW d \in Conns PROVE Paced(conn'[d], bursts'[d], setBack')
    <2>1. CASE d = c
      <3>1. conn'[c] = r
        BY <1>1
      <3> QED
        BY <2>1, <3>1
    <2>2. CASE d # c
      <3>1. conn'[d] = conn[d] /\ bursts'[d] = bursts[d]
        BY <1>1, <2>2
      <3> QED
        BY <3>1 DEF IInv
    <2> QED
      BY <2>1, <2>2
  <1> QED
    BY <1>2, <1>3

LEMMA HandledKeeps ==
  ASSUME IInv, NEW c \in Conns, NEW r, conn' = [conn EXCEPT ![c] = r],
         Paced(r, bursts[c], setBack), UNCHANGED <<limiter, forward, retries, setBack, spent, bursts>>
  PROVE  IInv'
  <1>1. bursts' \in [Conns -> [0 .. IntervalMs - 1 -> Nat]] /\ bursts' = bursts
    BY DEF IInv
  <1>2. /\ conn' \in [Conns -> ConnType]
        /\ \A d \in Conns : Paced(conn'[d], bursts'[d], setBack')
    BY <1>1, OneChanges
  <1> QED
    BY <1>2 DEF IInv

LEMMA DrainEmptyKeeps ==
  ASSUME IInv, NEW c \in Conns, DrainEmpty(c)
  PROVE  IInv'
  <1>1. Paced([conn[c] EXCEPT !.sending = FALSE], bursts[c], setBack)
    BY SendingPaced DEF IInv
  <1>2. conn' = [conn EXCEPT ![c] = [conn[c] EXCEPT !.sending = FALSE]]
    BY DEF DrainEmpty, IInv
  <1> QED
    BY <1>1, <1>2, HandledKeeps DEF DrainEmpty

LEMMA DrainRefusedKeeps ==
  ASSUME IInv, NEW c \in Conns, DrainRefused(c)
  PROVE  IInv'
  <1>1. Paced([conn[c] EXCEPT !.sending = FALSE], bursts[c], setBack)
    BY SendingPaced DEF IInv
  <1>2. conn' = [conn EXCEPT ![c] = [conn[c] EXCEPT !.sending = FALSE]]
    BY DEF DrainRefused, IInv
  <1>3. /\ UNCHANGED <<forward, setBack, spent, bursts>> /\ limiter' = Prune(limiter)
        /\ retries' = [retries EXCEPT ![c] = Refused(c)]
    BY DEF DrainRefused
  <1>4. /\ conn' \in [Conns -> ConnType]
        /\ \A d \in Conns : Paced(conn'[d], bursts'[d], setBack')
    <2>1. bursts' \in [Conns -> [0 .. IntervalMs - 1 -> Nat]] /\ bursts' = bursts /\ setBack' = setBack
      BY <1>3 DEF IInv
    <2> QED
      BY <1>1, <1>2, <2>1, OneChanges
  <1>5. Counts(limiter', spent', setBack')
    <2>1. setBack \in Nat
      BY Constants, SMT DEF IInv
    <2> QED
      BY <1>3, <2>1, PruneCounts DEF IInv
  <1>6. retries' \in [Conns -> SUBSET (0 .. RetryMs)]
    <2>1. RetryMs \in 0 .. RetryMs
      BY Constants, SMT
    <2>2. Refused(c) \subseteq 0 .. RetryMs
      BY <2>1 DEF Refused, IInv
    <2> QED
      BY <1>3, <2>2 DEF IInv
  <1> QED
    BY <1>3, <1>4, <1>5, <1>6 DEF IInv

LEMMA DrainSendKeeps ==
  ASSUME IInv, NEW c \in Conns, DrainSend(c)
  PROVE  IInv'
  <1> DEFINE r == conn[c]
             bytes == ToSend(c)
             paced == NoteSegment(r.pacer)
             q == [r EXCEPT !.queued = @ - bytes, !.flight = @ + bytes, !.pacer = paced,
                            !.sending = ~paced.blocked /\ r.queued > bytes]
  <1>1. /\ r.sending /\ r.queued > 0
        /\ IF c \in forward
           THEN /\ Fits(limiter, bytes)
                /\ limiter' = Consumed(limiter, bytes)
                /\ spent' = [spent EXCEPT ![0] = @ + bytes]
           ELSE UNCHANGED <<limiter, spent>>
        /\ bursts' = IF paced.mode = "off" THEN bursts ELSE [bursts EXCEPT ![c][0] = @ + 1]
        /\ UNCHANGED <<forward, retries, setBack>>
    BY DEF DrainSend
  <1>2. conn' = [conn EXCEPT ![c] = q]
    BY DEF DrainSend, IInv
  <1>3. /\ r \in ConnType /\ Paced(r, bursts[c], setBack) /\ setBack \in Nat
        /\ bursts[c] \in [0 .. IntervalMs - 1 -> Nat]
        /\ setBack \in 0 .. MaxSetBack /\ spent \in [0 .. WindowMs - 1 -> Nat]
        /\ Counts(limiter, spent, setBack)
    BY Constants, SMT DEF IInv
  <1>4. bytes \in Nat \ {0} /\ bytes <= r.queued
    BY <1>1, <1>3, SegmentIs
  <1> HIDE DEF bytes
  <1>5. Counts(limiter', spent', setBack') /\ spent' \in [0 .. WindowMs - 1 -> Nat]
    <2>1. CASE c \in forward
      <3>1. /\ spent' \in [0 .. WindowMs - 1 -> Nat]
            /\ Added(spent, spent', WindowMs, bytes)
        <4> DEFINE more == [spent EXCEPT ![0] = @ + bytes]
        <4>1. WindowMs \in Nat \ {0} /\ bytes \in Nat
          BY <1>4, Constants
        <4>2. more \in [0 .. WindowMs - 1 -> Nat] /\ Added(spent, more, WindowMs, bytes)
          BY <1>3, <4>1, AddedIs
        <4>3. spent' = more
          BY <1>1, <2>1
        <4> HIDE DEF more
        <4> QED
          BY <4>2, <4>3
      <3> QED
        BY <1>1, <1>3, <1>4, <2>1, <3>1, ConsumeCounts
    <2>2. CASE c \notin forward
      BY <1>1, <1>3, <2>2
    <2> QED
      BY <2>1, <2>2
  <1>6. /\ bursts' \in [Conns -> [0 .. IntervalMs - 1 -> Nat]]
        /\ \A d \in Conns : d # c => bursts'[d] = bursts[d]
        /\ IF paced.mode = "off" THEN bursts'[c] = bursts[c]
           ELSE Added(bursts[c], bursts'[c], IntervalMs, 1)
    <2>1. bursts \in [Conns -> [0 .. IntervalMs - 1 -> Nat]]
      BY DEF IInv
    <2>2. CASE paced.mode = "off"
      BY <1>1, <2>1, <2>2
    <2>3. CASE paced.mode # "off"
      <3>1. IntervalMs \in Nat \ {0}
        <4>1. ASSUME IntervalMs = 0 PROVE FALSE
          <5>1. r.pacer.mode = "off"
            BY <1>3, <4>1 DEF Paced, Bounded
          <5>2. paced = r.pacer
            BY <5>1 DEF NoteSegment
          <5> QED
            BY <2>3, <5>1, <5>2
        <4> QED
          BY <4>1, Constants
      <3> DEFINE more == [bursts[c] EXCEPT ![0] = @ + 1]
      <3>2. more \in [0 .. IntervalMs - 1 -> Nat] /\ Added(bursts[c], more, IntervalMs, 1)
        BY <1>3, <3>1, AddedIs
      <3>3. bursts' = [bursts EXCEPT ![c] = more]
        BY <1>1, <2>3
      <3> HIDE DEF more
      <3> QED
        BY <2>1, <2>3, <3>2, <3>3
    <2> QED
      BY <2>2, <2>3
  <1>7. Paced(q, bursts'[c], setBack)
    <2>1. bursts'[c] \in [0 .. IntervalMs - 1 -> Nat]
      BY <1>6
    <2> QED
      BY <1>1, <1>3, <1>4, <1>6, <2>1, SegmentPaced
  <1> HIDE DEF q
  <1>8. /\ conn' \in [Conns -> ConnType]
        /\ \A d \in Conns : Paced(conn'[d], bursts'[d], setBack')
    BY <1>1, <1>2, <1>6, <1>7, OneChanges
  <1> QED
    BY <1>1, <1>5, <1>6, <1>8 DEF IInv

LEMMA SourceDataKeeps ==
  ASSUME IInv, NEW c \in Conns, NEW bytes \in Chunks, SourceData(c, bytes)
  PROVE  IInv'
  <1> DEFINE r == [conn[c] EXCEPT !.left = @ - bytes, !.queued = @ + bytes]
  <1>1. /\ bytes <= conn[c].left /\ conn[c].open /\ conn' = [conn EXCEPT ![c] = TrySend(r)]
        /\ UNCHANGED <<limiter, forward, retries, setBack, spent, bursts>>
    BY DEF SourceData, Handled
  <1>2. bytes \in Nat
    BY Constants
  <1>3. Paced(conn[c], bursts[c], setBack)
    BY DEF IInv
  <1>4. Paced(r, bursts[c], setBack)
    BY <1>1, <1>2, <1>3, SourcePaced
  <1>5. r.open
    BY <1>1, <1>3 DEF Paced, ConnType
  <1> HIDE DEF r
  <1>6. Paced(TrySend(r), bursts[c], setBack)
    BY <1>4, <1>5, TrySendPaced
  <1> QED
    BY <1>1, <1>6, HandledKeeps

LEMMA AcknowledgedKeeps ==
  ASSUME IInv, NEW c \in Conns, NEW window \in Windows, Acknowledged(c, window)
  PROVE  IInv'
  <1> DEFINE r == [conn[c] EXCEPT !.flight = 0,
                                  !.pacer = NoteAck(conn[c].pacer, conn[c].flight, window)]
  <1>1. /\ conn[c].flight > 0 /\ conn[c].open /\ conn' = [conn EXCEPT ![c] = TrySend(r)]
        /\ UNCHANGED <<limiter, forward, retries, setBack, spent, bursts>>
    BY DEF Acknowledged, Handled
  <1>2. window \in Nat
    BY Constants
  <1>3. Paced(conn[c], bursts[c], setBack)
    BY DEF IInv
  <1>4. Paced(r, bursts[c], setBack)
    BY <1>1, <1>2, <1>3, AcknowledgedPaced
  <1>5. r.open
    BY <1>1, <1>3 DEF Paced, ConnType
  <1> HIDE DEF r
  <1>6. Paced(TrySend(r), bursts[c], setBack)
    BY <1>4, <1>5, TrySendPaced
  <1> QED
    BY <1>1, <1>6, HandledKeeps

LEMMA LossKeeps ==
  ASSUME IInv, NEW c \in Conns, Loss(c)
  PROVE  IInv'
  <1> DEFINE r == [conn[c] EXCEPT !.pacer = NoteLoss(conn[c].pacer)]
  <1>1. /\ conn' = [conn EXCEPT ![c] = r]
        /\ UNCHANGED <<limiter, forward, retries, setBack, spent, bursts>>
    BY DEF Loss, Handled
  <1>2. Paced(r, bursts[c], setBack)
    BY LossPaced DEF IInv
  <1> HIDE DEF r
  <1> QED
    BY <1>1, <1>2, HandledKeeps

LEMMA PacerReadyKeeps ==
  ASSUME IInv, NEW c \in Conns, PacerReady(c)
  PROVE  IInv'
  <1> DEFINE r == [conn[c] EXCEPT !.pacer = Ready(conn[c].pacer)]
  <1>1. /\ conn[c].pacer.timer = 0 /\ conn[c].open /\ conn' = [conn EXCEPT ![c] = TrySend(r)]
        /\ UNCHANGED <<limiter, forward, retries, setBack, spent, bursts>>
    BY DEF PacerReady, Handled
  <1>2. Paced(conn[c], bursts[c], setBack)
    BY DEF IInv
  <1>3. Paced(r, bursts[c], setBack)
    BY <1>1, <1>2, ReadyPaced
  <1>4. r.open
    BY <1>1, <1>2 DEF Paced, ConnType
  <1> HIDE DEF r
  <1>5. Paced(TrySend(r), bursts[c], setBack)
    BY <1>3, <1>4, TrySendPaced
  <1> QED
    BY <1>1, <1>5, HandledKeeps

LEMMA RetryFiresKeeps ==
  ASSUME IInv, NEW c \in Conns, RetryFires(c)
  PROVE  IInv'
  <1> DEFINE r == IF conn[c].open THEN TrySend(conn[c]) ELSE conn[c]
  <1>1. /\ conn' = [conn EXCEPT ![c] = r] /\ retries' = [retries EXCEPT ![c] = @ \ {0}]
        /\ UNCHANGED <<limiter, forward, setBack, spent, bursts>>
    BY DEF RetryFires, IInv
  <1>2. Paced(r, bursts[c], setBack)
    BY TrySendPaced DEF IInv
  <1> HIDE DEF r
  <1>3. /\ conn' \in [Conns -> ConnType]
        /\ \A d \in Conns : Paced(conn'[d], bursts'[d], setBack')
    <2>1. bursts' \in [Conns -> [0 .. IntervalMs - 1 -> Nat]] /\ bursts' = bursts /\ setBack' = setBack
      BY <1>1 DEF IInv
    <2> QED
      BY <1>1, <1>2, <2>1, OneChanges
  <1>4. retries' \in [Conns -> SUBSET (0 .. RetryMs)]
    BY <1>1 DEF IInv
  <1> QED
    BY <1>1, <1>3, <1>4 DEF IInv

LEMMA CloseConnKeeps ==
  ASSUME IInv, NEW c \in Conns, CloseConn(c)
  PROVE  IInv'
  <1> DEFINE r == [conn[c] EXCEPT !.open = FALSE, !.pacer = ClosePacer(conn[c].pacer)]
  <1>1. /\ ~conn[c].sending /\ conn' = [conn EXCEPT ![c] = r]
        /\ UNCHANGED <<limiter, forward, retries, setBack, spent, bursts>>
    BY DEF CloseConn, Handled, Quiet
  <1>2. Paced(r, bursts[c], setBack)
    BY <1>1, ClosePaced DEF IInv
  <1> HIDE DEF r
  <1> QED
    BY <1>1, <1>2, HandledKeeps

\* The entries of the limiter get the ages f.
GivenAges(l, f, q) ==
  /\ \A i \in 1 .. Len(l.entries) : f[i] \in Ages(WindowMs)
  /\ q = [l EXCEPT !.entries = [i \in DOMAIN l.entries |-> [l.entries[i] EXCEPT !.age = f[i]]]]

LEMMA AgesChange ==
  ASSUME NEW l \in LimiterType, NEW f, NEW q, GivenAges(l, f, q)
  PROVE  Aged(l, q) /\ \A i \in 1 .. Len(l.entries) : q.entries[i].age = f[i]
  <1> DEFINE n == Len(l.entries)
             e == [i \in DOMAIN l.entries |-> [l.entries[i] EXCEPT !.age = f[i]]]
  <1>1. /\ l.entries \in Seq(Entry) /\ n \in Nat /\ DOMAIN l.entries = 1 .. n
        /\ l.head \in Nat /\ l.total \in 0 .. MaxBytes
    BY LimiterFields
  <1>2. ASSUME NEW i \in 1 .. n
        PROVE  e[i] \in Entry /\ e[i].age = f[i] /\ e[i].bytes = l.entries[i].bytes
    <2>1. l.entries[i] \in Entry /\ f[i] \in Ages(WindowMs)
      BY <1>1 DEF GivenAges
    <2>2. e[i] = [l.entries[i] EXCEPT !.age = f[i]]
      BY <1>1
    <2> HIDE DEF e
    <2> QED
      BY <2>1, <2>2 DEF Entry
  <1>3. e \in [1 .. n -> Entry]
    BY <1>1, <1>2
  <1>4. e \in Seq(Entry) /\ Len(e) = n
    <2> HIDE DEF e, n
    <2> QED
      BY <1>1, <1>3
  <1> HIDE DEF e
  <1>5. q \in LimiterType /\ q.entries = e /\ q.head = l.head /\ q.total = l.total
    BY <1>1, <1>4 DEF LimiterType, GivenAges, e
  <1> QED
    BY <1>2, <1>4, <1>5 DEF Aged

LEMMA TickKeeps ==
  ASSUME IInv, Tick
  PROVE  IInv'
  <1> DEFINE f == [i \in DOMAIN limiter.entries |-> Older(limiter.entries[i].age, WindowMs)]
  <1>1. /\ limiter' = [limiter EXCEPT !.entries =
                        [i \in DOMAIN limiter.entries |->
                          [limiter.entries[i] EXCEPT !.age = Older(limiter.entries[i].age, WindowMs)]]]
        /\ retries' = [c \in Conns |-> {CountDown(left) : left \in retries[c]}]
        /\ spent' = Shifted(spent)
        /\ bursts' = [c \in Conns |-> Shifted(bursts[c])]
        /\ UNCHANGED <<forward, setBack>>
    BY DEF Tick
  <1>2. ASSUME NEW c \in Conns
        PROVE  conn'[c] = [conn[c] EXCEPT
                            !.pacer.last = IF @ = None THEN None ELSE Older(@, IntervalMs),
                            !.pacer.timer = IF @ = None THEN None ELSE CountDown(@)]
    BY DEF Tick
  <1>3. /\ Counts(limiter, spent, setBack) /\ limiter \in LimiterType
        /\ setBack \in Nat /\ spent \in [0 .. WindowMs - 1 -> Nat]
        /\ WindowMs \in Nat /\ IntervalMs \in Nat /\ RetryMs \in Nat
    <2>1. MaxSetBack \in Nat /\ WindowMs \in Nat /\ IntervalMs \in Nat /\ RetryMs \in Nat
      BY Constants
    <2>2. setBack \in 0 .. MaxSetBack
      BY DEF IInv
    <2>3. setBack \in Nat
      BY <2>1, <2>2, SMT
    <2> QED
      BY <2>1, <2>3 DEF IInv, Counts
  <1>4. Counts(limiter', spent', setBack')
    <2>1. DOMAIN limiter.entries = 1 .. Len(limiter.entries)
      BY <1>3, LimiterFields
    <2>2. \A i \in 1 .. Len(limiter.entries) :
            f[i] = Older(limiter.entries[i].age, WindowMs) /\ f[i] \in Ages(WindowMs)
      BY <1>3, <2>1, LimiterFields, EntryFields, OlderIs
    <2>3. GivenAges(limiter, f, limiter')
      BY <1>1, <2>2 DEF GivenAges
    <2> HIDE DEF f
    <2>4. Aged(limiter, limiter') /\ \A i \in 1 .. Len(limiter.entries) : limiter'.entries[i].age = f[i]
      <3>1. limiter \in LimiterType
        BY <1>3
      <3> QED
        BY <2>3, <3>1, AgesChange
    <2>5. Counts(limiter', Shifted(spent), setBack)
      BY <1>3, <2>2, <2>4, TickCounts
    <2> QED
      BY <1>1, <2>5
  <1>5. spent' \in [0 .. WindowMs - 1 -> Nat]
    BY <1>1, <1>3, ShiftedType
  <1>6. bursts' \in [Conns -> [0 .. IntervalMs - 1 -> Nat]]
    <2>1. \A c \in Conns : Shifted(bursts[c]) \in [0 .. IntervalMs - 1 -> Nat]
      BY <1>3, ShiftedType DEF IInv
    <2> QED
      BY <1>1, <2>1
  <1>7. ASSUME NEW c \in Conns PROVE Paced(conn'[c], bursts'[c], setBack')
    <2>1. bursts[c] \in [0 .. IntervalMs - 1 -> Nat] /\ Paced(conn[c], bursts[c], setBack)
      BY DEF IInv
    <2>2. Paced([conn[c] EXCEPT !.pacer.last = IF @ = None THEN None ELSE Older(@, IntervalMs),
                                !.pacer.timer = IF @ = None THEN None ELSE CountDown(@)],
                Shifted(bursts[c]), setBack)
      BY <1>3, <2>1, TickPaced
    <2> QED
      BY <1>1, <1>2, <2>2
  <1>8. conn' \in [Conns -> ConnType]
    <2>1. \E g : conn' = [c \in Conns |-> g[c]]
      <3> DEFINE g == [c \in Conns |->
                        [conn[c] EXCEPT
                          !.pacer.last = IF @ = None THEN None ELSE Older(@, IntervalMs),
                          !.pacer.timer = IF @ = None THEN None ELSE CountDown(@)]]
      <3>1. conn' = g
        BY DEF Tick
      <3>2. g = [c \in Conns |-> g[c]]
        OBVIOUS
      <3> HIDE DEF g
      <3> QED
        BY <3>1, <3>2
    <2>2. \A c \in Conns : conn'[c] \in ConnType
      BY <1>7 DEF Paced
    <2> QED
      BY <2>1, <2>2
  <1>9. retries' \in [Conns -> SUBSET (0 .. RetryMs)]
    <2>1. ASSUME NEW left \in 0 .. RetryMs PROVE CountDown(left) \in 0 .. RetryMs
      <3>1. left - 1 \in Int /\ 0 \in Int
        BY SMT
      <3>2. CountDown(left) = IF left - 1 >= 0 THEN left - 1 ELSE 0
        BY <3>1, GreaterOfTwo DEF CountDown
      <3> QED
        BY <1>3, <3>2, SMT
    <2>2. \A c \in Conns : {CountDown(left) : left \in retries[c]} \subseteq 0 .. RetryMs
      BY <2>1 DEF IInv
    <2> QED
      BY <1>1, <2>2
  <1> QED
    BY <1>1, <1>4, <1>5, <1>6, <1>7, <1>8, <1>9 DEF IInv

LEMMA ClockSetBackKeeps ==
  ASSUME IInv, ClockSetBack
  PROVE  IInv'
  <1> DEFINE f == [i \in DOMAIN limiter.entries |-> limiter.entries[i].age - 1]
  <1>1. /\ setBack < MaxSetBack /\ setBack' = setBack + 1
        /\ limiter' = [limiter EXCEPT !.entries =
                        [i \in DOMAIN limiter.entries |->
                          [limiter.entries[i] EXCEPT !.age = limiter.entries[i].age - 1]]]
        /\ UNCHANGED <<forward, retries, spent, bursts>>
    BY DEF ClockSetBack
  <1>2. ASSUME NEW c \in Conns
        PROVE  conn'[c] = [conn[c] EXCEPT !.pacer.last = IF @ = None THEN None ELSE @ - 1]
    BY DEF ClockSetBack
  <1>3. /\ Counts(limiter, spent, setBack) /\ limiter \in LimiterType
        /\ setBack \in Nat /\ setBack \in 0 .. MaxSetBack - 1 /\ setBack + 1 \in 0 .. MaxSetBack
        /\ MaxSetBack \in Nat /\ WindowMs \in Nat
    BY <1>1, Constants, SMT DEF IInv, Counts
  <1>4. Counts(limiter', spent', setBack')
    <2>1. DOMAIN limiter.entries = 1 .. Len(limiter.entries)
      BY <1>3, LimiterFields
    <2>2. ASSUME NEW i \in 1 .. Len(limiter.entries)
          PROVE  f[i] = limiter.entries[i].age - 1 /\ f[i] \in Ages(WindowMs)
      <3>1. f[i] = limiter.entries[i].age - 1
        BY <2>1
      <3>2. PICK a \in Ages(WindowMs) : a = limiter.entries[i].age
        BY <1>3, LimiterFields, EntryFields
      <3>3. a >= -setBack
        BY <1>3, <3>2 DEF Counts
      <3>4. a - 1 \in Ages(WindowMs)
        BY <1>3, <3>3, SMT DEF Ages
      <3> QED
        BY <3>1, <3>2, <3>4
    <2>3. GivenAges(limiter, f, limiter')
      BY <1>1, <2>2 DEF GivenAges
    <2> HIDE DEF f
    <2>4. Aged(limiter, limiter') /\ \A i \in 1 .. Len(limiter.entries) : limiter'.entries[i].age = f[i]
      <3>1. limiter \in LimiterType
        BY <1>3
      <3> QED
        BY <2>3, <3>1, AgesChange
    <2>5. Counts(limiter', spent, setBack + 1)
      BY <1>3, <2>2, <2>4, SetBackCounts
    <2> QED
      BY <1>1, <2>5
  <1>5. ASSUME NEW c \in Conns PROVE Paced(conn'[c], bursts'[c], setBack')
    <2>1. Paced(conn[c], bursts[c], setBack)
      BY DEF IInv
    <2>2. Paced([conn[c] EXCEPT !.pacer.last = IF @ = None THEN None ELSE @ - 1],
                bursts[c], setBack + 1)
      BY <1>3, <2>1, SetBackPaced
    <2> QED
      BY <1>1, <1>2, <2>2
  <1>6. conn' \in [Conns -> ConnType]
    <2>1. \E g : conn' = [c \in Conns |-> g[c]]
      <3> DEFINE g == [c \in Conns |->
                        [conn[c] EXCEPT !.pacer.last = IF @ = None THEN None ELSE @ - 1]]
      <3>1. conn' = g
        BY DEF ClockSetBack
      <3>2. g = [c \in Conns |-> g[c]]
        OBVIOUS
      <3> HIDE DEF g
      <3> QED
        BY <3>1, <3>2
    <2>2. \A c \in Conns : conn'[c] \in ConnType
      BY <1>5 DEF Paced
    <2> QED
      BY <2>1, <2>2
  <1> QED
    BY <1>1, <1>3, <1>4, <1>5, <1>6 DEF IInv

LEMMA NextInv == IInv /\ [Next]_vars => IInv'
  <1> SUFFICES ASSUME IInv, [Next]_vars PROVE IInv'
    OBVIOUS
  <1>1. CASE UNCHANGED vars
    BY <1>1 DEF IInv, vars
  <1>2. ASSUME NEW c \in Conns, DrainEmpty(c) PROVE IInv'
    BY <1>2, DrainEmptyKeeps
  <1>3. ASSUME NEW c \in Conns, DrainRefused(c) PROVE IInv'
    BY <1>3, DrainRefusedKeeps
  <1>4. ASSUME NEW c \in Conns, DrainSend(c) PROVE IInv'
    BY <1>4, DrainSendKeeps
  <1>5. ASSUME NEW c \in Conns, NEW bytes \in Chunks, SourceData(c, bytes) PROVE IInv'
    BY <1>5, SourceDataKeeps
  <1>6. ASSUME NEW c \in Conns, NEW window \in Windows, Acknowledged(c, window) PROVE IInv'
    BY <1>6, AcknowledgedKeeps
  <1>7. ASSUME NEW c \in Conns, Loss(c) PROVE IInv'
    BY <1>7, LossKeeps
  <1>8. ASSUME NEW c \in Conns, PacerReady(c) PROVE IInv'
    BY <1>8, PacerReadyKeeps
  <1>9. ASSUME NEW c \in Conns, RetryFires(c) PROVE IInv'
    BY <1>9, RetryFiresKeeps
  <1>10. ASSUME NEW c \in Conns, CloseConn(c) PROVE IInv'
    BY <1>10, CloseConnKeeps
  <1>11. CASE Tick
    BY <1>11, TickKeeps
  <1>12. CASE ClockSetBack
    BY <1>12, ClockSetBackKeeps
  <1> QED
    BY <1>1, <1>2, <1>3, <1>4, <1>5, <1>6, <1>7, <1>8, <1>9, <1>10, <1>11, <1>12 DEF Next

\* The invariant the three theorems below follow from: the list of the limiter can be cut
\* at every age so that the younger part holds what was accepted since, and every burst
\* accounts for what its connection sent within the interval.
THEOREM Invariant == Spec => []IInv
  BY InitInv, NextInv, PTL DEF Spec
-----------------------------------------------------------------------------
(* What it means.                                                          *)

\* The counters of the limiter and of the pacers stay within their bounds: the total never
\* exceeds maxBytes, the burst stays between its two sizes, and no length gets negative.
THEOREM TypeCorrect == Spec => []TypeOK
  <1>1. IInv => TypeOK
    BY DEF IInv, Counts, TypeOK, LimiterType, Entry, ConnType, PacerType
  <1> QED
    BY <1>1, Invariant, PTL

LEMMA CountedIsExact ==
  ASSUME IInv
  PROVE  WindowExact
  <1> DEFINE p == Prune(limiter)
             n == Len(p.entries)
  <1>1. setBack \in Nat /\ WindowMs \in Nat /\ WindowMs \in 0 .. WindowMs
    <2>1. MaxSetBack \in Nat /\ WindowMs \in Nat
      BY Constants
    <2>2. setBack \in 0 .. MaxSetBack
      BY DEF IInv
    <2> QED
      BY <2>1, <2>2, SMT
  <1>2. Counts(p, spent, setBack) /\ Pruned(p)
    BY <1>1, PruneCounts DEF IInv
  <1> HIDE DEF p
  <1>3. PICK mark \in [0 .. WindowMs -> Nat] : Marks(p, spent, setBack, mark)
    BY <1>2 DEF Counts
  <1>4. /\ p \in LimiterType /\ p.entries \in Seq(Entry) /\ p.head \in Nat /\ n \in Nat
        /\ p.total \in 0 .. MaxBytes /\ p.head <= n /\ p.total = Counted(p)
        /\ p.total = BytesOf(p.entries, p.head, n)
    BY <1>2, LimiterFields DEF Counts, Counted
  <1> HIDE DEF n
  <1>5. PICK m \in Nat : m = mark[WindowMs]
    BY <1>1, <1>3
  <1>6. /\ m \in p.head .. n
        /\ Total(spent, WindowMs) <= BytesOf(p.entries, m, n)
        /\ setBack = 0 =>
             /\ Total(spent, WindowMs) = BytesOf(p.entries, m, n)
             /\ \A i \in 1 .. m : p.entries[i].age >= WindowMs
    BY <1>1, <1>3, <1>5 DEF Marks, n
  <1>7. /\ BytesOf(p.entries, p.head, n) = BytesOf(p.entries, p.head, m) + BytesOf(p.entries, m, n)
        /\ BytesOf(p.entries, p.head, m) \in Nat /\ BytesOf(p.entries, m, n) \in Nat
    <2>1. n <= Len(p.entries)
      BY <1>4 DEF n
    <2> QED
      BY <1>4, <1>6, <2>1, BytesSplit
  <1>8. Total(spent, WindowMs) \in Nat
    BY <1>1, TotalType DEF IInv
  <1>9. Total(spent, WindowMs) <= p.total /\ p.total <= MaxBytes
    <2>1. p.total <= MaxBytes
      BY <1>4, Constants, SMT
    <2> QED
      BY <1>4, <1>6, <1>7, <1>8, <2>1, SMT
  <1>10. ASSUME setBack = 0 PROVE p.total = Total(spent, WindowMs)
    <2>1. m = p.head
      <3>1. ASSUME m # p.head PROVE FALSE
        <4>1. p.head < n /\ p.head + 1 \in 1 .. m /\ p.head + 1 \in 1 .. n
          BY <1>4, <1>6, <3>1, SMT
        <4>2. p.entries[p.head + 1].age < WindowMs
          BY <1>2, <4>1 DEF Pruned, n
        <4>3. p.entries[p.head + 1].age >= WindowMs
          BY <1>6, <1>10, <4>1
        <4>4. p.entries[p.head + 1].age \in Int
          BY <1>4, <4>1, EntryFields DEF n
        <4> QED
          BY <1>1, <4>2, <4>3, <4>4, SMT
      <3> QED
        BY <3>1
    <2> QED
      BY <1>4, <1>6, <1>10, <2>1
  <1> QED
    BY <1>4, <1>9, <1>10 DEF WindowExact, p

\* In no window does the session send more than maxBytes to the VM on the connections it
\* opened, whatever their number, the sizes of their segments and the moments of pruning
\* and cutting; and the limiter counts exactly that, unless the clock was set back, when
\* it never counts less (tryConsume, prune).
THEOREM WindowIsExact == Spec => []WindowExact
  BY CountedIsExact, Invariant, PTL

LEMMA BoundedMeans ==
  ASSUME IInv
  PROVE  BurstBounded
  <1>1. ASSUME NEW c \in Conns
        PROVE  /\ Total(bursts[c], IntervalMs)
                    <= IF conn[c].pacer.mode = "fixed" THEN InitialBurst ELSE MaxBurst
               /\ conn[c].pacer.blocked <=> conn[c].pacer.timer # None
    BY DEF IInv, Paced, Bounded, Limit
  <1> QED
    BY <1>1 DEF BurstBounded

\* No connection sends more segments within an interval than a burst has, InitialBurst in
\* the fixed mode and MaxBurst in the adaptive one, whatever acknowledgements and losses
\* do to the size of bursts, late timers and a clock set back included; and a blocked
\* connection has its timer running (noteSegment, noteAck, noteLoss, close).
THEOREM BurstsAreBounded == Spec => []BurstBounded
  BY BoundedMeans, Invariant, PTL
=============================================================================
