----------------------------- MODULE RateLimiter -----------------------------
(***************************************************************************)
(* SlidingWindowRateLimiter (rate_limiter.js): the bytes accepted in the   *)
(* last WindowMs, as a list of amounts in the order they were accepted and *)
(* the index of the first that still counts.  Expired ones are dropped     *)
(* from the front when somebody asks, and the list is cut when they are    *)
(* many.  A timestamp is modelled as its age by the clock of the host,     *)
(* which is negative while the clock, set back, has yet to reach it again. *)
(***************************************************************************)
EXTENDS Integers, Sequences

CONSTANTS
  MaxBytes,   \* maxBytes
  WindowMs,   \* windowMs
  CompactAt   \* expired entries that are kept at most, 1024

ASSUME LimiterAssumption == {MaxBytes, WindowMs, CompactAt} \subseteq Nat \ {0}

NewLimiter == [entries |-> <<>>, head |-> 0, total |-> 0]

\* f[from + 1] + ... + f[to].
SumOf(f, from, to) ==
  LET sum[i \in from .. to] == IF i = from THEN 0 ELSE sum[i - 1] + f[i]
  IN sum[to]

BytesOf(entries, from, to) ==
  SumOf([i \in DOMAIN entries |-> entries[i].bytes], from, to)

Counted(limiter) == BytesOf(limiter.entries, limiter.head, Len(limiter.entries))

FirstCountedLate(limiter) ==
  CHOOSE head \in limiter.head .. Len(limiter.entries) :
    /\ \A i \in limiter.head + 1 .. head : limiter.entries[i].age > WindowMs
    /\ head < Len(limiter.entries) => limiter.entries[head + 1].age <= WindowMs

\* As many entries from the head on as have expired one after the other.
FirstCounted(limiter) ==
  CHOOSE head \in limiter.head .. Len(limiter.entries) :
    /\ \A i \in limiter.head + 1 .. head : limiter.entries[i].age >= WindowMs
    /\ head < Len(limiter.entries) => limiter.entries[head + 1].age < WindowMs

Prune(limiter) ==
  LET head == FirstCounted(limiter)
      total == limiter.total - BytesOf(limiter.entries, limiter.head, head)
      kept == SubSeq(limiter.entries, head + 1, Len(limiter.entries))
      cut == kept = <<>> \/ (head >= CompactAt /\ head * 2 >= Len(limiter.entries))
  IN [entries |-> IF cut THEN kept ELSE limiter.entries,
      head |-> IF cut THEN 0 ELSE head,
      total |-> total]

\* tryConsume(bytes) returns whether they fit, prunes in any case, and if they do:
Fits(limiter, bytes) == Prune(limiter).total + bytes <= MaxBytes

Consumed(limiter, bytes) ==
  LET pruned == Prune(limiter)
      n == Len(pruned.entries)
      sameMoment == n > 0 /\ pruned.entries[n].age = 0
  IN IF bytes = 0 THEN pruned
     ELSE [pruned EXCEPT
            !.total = @ + bytes,
            !.entries = IF sameMoment THEN [@ EXCEPT ![n].bytes = pruned.entries[n].bytes + bytes]
                        ELSE Append(@, [age |-> 0, bytes |-> bytes])]
=============================================================================
