---------------------------- MODULE TcpIngressProofs ----------------------------
(***************************************************************************)
(* What the half of a connection that takes data from the VM does with any *)
(* stream shorter than half the sequence space: whatever the network does  *)
(* with the VM's segments, the sink gets its bytes in order and once.      *)
(***************************************************************************)
EXTENDS TcpIngress, FiniteSetTheorems, SequenceTheorems, NaturalsInduction,
        WellFoundedInduction, TLAPS

USE SpaceAssumption, WindowAssumption, StreamAssumption
-----------------------------------------------------------------------------
(* Sequence numbers and positions.  All numbers a connection handles stand *)
(* for positions of the stream, which is shorter than half the space: so   *)
(* their comparisons are those of the positions.                           *)

LEMMA Constants ==
  /\ Half \in Nat \ {0} /\ SeqSpace \in Nat /\ SeqSpace = Half + Half
  /\ SeqNumbers = 0 .. SeqSpace - 1 /\ InitialSequence \in SeqNumbers
  /\ StreamBytes \in Nat /\ StreamBytes + 1 < Half
  /\ Window \in Nat \ {0} /\ FieldMax \in Nat \ {0} /\ AckEvery \in Nat \ {0}
  /\ MaxSegment \in Nat \ {0} /\ VmTrims \in BOOLEAN
  <1>1. Half \in Nat \ {0} /\ SeqSpace = Half + Half
    BY SMT DEF SeqSpace
  <1> QED
    BY <1>1 DEF SeqNumbers

LEMMA MinOfTwo ==
  ASSUME NEW a \in Int, NEW b \in Int
  PROVE  Min({a, b}) = IF a <= b THEN a ELSE b
  BY DEF Min

LEMMA MaxOfTwo ==
  ASSUME NEW a \in Int, NEW b \in Int
  PROVE  Max({a, b}) = IF a <= b THEN b ELSE a
  BY DEF Max

\* Once around the sequence space, at most, in either direction.
LEMMA Around ==
  ASSUME NEW n \in Int
  PROVE  /\ n \in 0 .. SeqSpace - 1 => n % SeqSpace = n
         /\ n \in SeqSpace .. SeqSpace + SeqSpace - 1 => n % SeqSpace = n - SeqSpace
         /\ n \in -SeqSpace .. -1 => n % SeqSpace = n + SeqSpace
  <1>1. SeqSpace \in Nat \ {0}
    BY Constants, SMT
  <1> HIDE DEF SeqSpace
  <1> QED
    BY <1>1, SMTT(20)

LEMMA AheadIs ==
  ASSUME NEW a \in SeqNumbers, NEW b \in SeqNumbers
  PROVE  /\ Ahead(a, b) = IF a >= b THEN a - b ELSE a - b + SeqSpace
         /\ Ahead(a, b) \in SeqNumbers
  <1> DEFINE n == a - b
             m == n % SeqSpace
  <1>1. n \in Int /\ (n \in 0 .. SeqSpace - 1 \/ n \in -SeqSpace .. -1) /\ (n >= 0 <=> a >= b)
    BY Constants, SMT
  <1>2. /\ n \in 0 .. SeqSpace - 1 => m = n
        /\ n \in -SeqSpace .. -1 => m = n + SeqSpace
    BY <1>1, Around, Zenon
  <1>3. Ahead(a, b) = m
    BY Zenon DEF Ahead
  <1> HIDE DEF m
  <1> QED
    BY <1>1, <1>2, <1>3, Constants, SMT

LEMMA NumberIs ==
  ASSUME NEW p \in SeqNumbers
  PROVE  /\ NumberOf(p) = IF InitialSequence + p < SeqSpace THEN InitialSequence + p
                          ELSE InitialSequence + p - SeqSpace
         /\ NumberOf(p) \in SeqNumbers
         /\ Position(NumberOf(p)) = p
  <1> DEFINE n == InitialSequence + p
             m == n % SeqSpace
             x == NumberOf(p)
  <1>1. /\ n \in Int /\ (n \in 0 .. SeqSpace - 1 \/ n \in SeqSpace .. SeqSpace + SeqSpace - 1)
    BY Constants, SMT
  <1>2. /\ n \in 0 .. SeqSpace - 1 => m = n
        /\ n \in SeqSpace .. SeqSpace + SeqSpace - 1 => m = n - SeqSpace
    BY <1>1, Around, Zenon
  <1>3. NumberOf(p) = m
    BY Zenon DEF NumberOf
  <1> HIDE DEF m
  <1>4. /\ x = IF n < SeqSpace THEN n ELSE n - SeqSpace
        /\ x \in SeqNumbers
    BY <1>1, <1>2, <1>3, Constants, SMT
  <1> HIDE DEF x
  <1>5. Ahead(x, InitialSequence) = IF x >= InitialSequence THEN x - InitialSequence
                                    ELSE x - InitialSequence + SeqSpace
    BY <1>4, AheadIs, Constants, Zenon
  <1>6. Ahead(x, InitialSequence) = p
    <2>1. CASE n < SeqSpace
      BY <1>4, <1>5, <2>1, Constants, SMT
    <2>2. CASE ~ (n < SeqSpace)
      BY <1>4, <1>5, <2>2, Constants, SMT
    <2> QED
      BY <2>1, <2>2
  <1>7. Position(x) = p
    BY <1>6, Zenon DEF Position
  <1> QED
    BY <1>4, <1>7, Constants, SMT DEF x

LEMMA PositionIs ==
  ASSUME NEW seq \in SeqNumbers
  PROVE  /\ Position(seq) = IF seq >= InitialSequence THEN seq - InitialSequence
                            ELSE seq - InitialSequence + SeqSpace
         /\ Position(seq) \in SeqNumbers
         /\ NumberOf(Position(seq)) = seq
  <1> DEFINE p == Position(seq)
  <1>1. /\ p = IF seq >= InitialSequence THEN seq - InitialSequence
               ELSE seq - InitialSequence + SeqSpace
        /\ p \in SeqNumbers
    BY AheadIs, Constants, Zenon DEF Position
  <1> HIDE DEF p
  <1>2. NumberOf(p) = IF InitialSequence + p < SeqSpace THEN InitialSequence + p
                      ELSE InitialSequence + p - SeqSpace
    BY <1>1, NumberIs, Zenon
  <1>3. NumberOf(p) = seq
    BY <1>1, <1>2, Constants, SMT
  <1> QED
    BY <1>1, <1>3, Zenon DEF p

LEMMA OnePosition ==
  ASSUME NEW a \in SeqNumbers, NEW b \in SeqNumbers, Position(a) = Position(b)
  PROVE  a = b
  BY PositionIs, Zenon

LEMMA AheadPositions ==
  ASSUME NEW a \in SeqNumbers, NEW b \in SeqNumbers
  PROVE  Ahead(a, b) = IF Position(a) >= Position(b) THEN Position(a) - Position(b)
                       ELSE Position(a) - Position(b) + SeqSpace
  <1> DEFINE x == Position(a)
             y == Position(b)
  <1>1. /\ x = IF a >= InitialSequence THEN a - InitialSequence
               ELSE a - InitialSequence + SeqSpace
        /\ y = IF b >= InitialSequence THEN b - InitialSequence
               ELSE b - InitialSequence + SeqSpace
    BY PositionIs, Zenon
  <1>2. Ahead(a, b) = IF a >= b THEN a - b ELSE a - b + SeqSpace
    BY AheadIs, Zenon
  <1> HIDE DEF x, y
  <1>3. Ahead(a, b) = IF x >= y THEN x - y ELSE x - y + SeqSpace
    BY <1>1, <1>2, Constants, SMT
  <1> QED
    BY <1>3, Zenon DEF x, y

\* The code's comparison, of positions that are not half the space apart.
LEMMA Before ==
  ASSUME NEW a \in SeqNumbers, NEW b \in SeqNumbers,
         Position(a) - Position(b) < Half, Position(b) - Position(a) < Half
  PROVE  SeqLessThan(a, b) <=> Position(a) < Position(b)
  <1>1. Position(a) \in SeqNumbers /\ Position(b) \in SeqNumbers
    BY PositionIs
  <1> QED
    BY <1>1, AheadPositions, Constants, SMT DEF SeqLessThan

\* Going on from a number, without leaving the space of positions.
LEMMA Onward ==
  ASSUME NEW seq \in SeqNumbers, NEW k \in -SeqSpace .. SeqSpace
  PROVE  /\ Position(seq) + k \in SeqNumbers
              => /\ (seq + k) % SeqSpace = NumberOf(Position(seq) + k)
                 /\ (seq + k) % SeqSpace \in SeqNumbers
                 /\ Position((seq + k) % SeqSpace) = Position(seq) + k
         /\ Position(seq) + k - SeqSpace \in SeqNumbers
              => /\ (seq + k) % SeqSpace \in SeqNumbers
                 /\ Position((seq + k) % SeqSpace) = Position(seq) + k - SeqSpace
         /\ Position(seq) + k + SeqSpace \in SeqNumbers
              => /\ (seq + k) % SeqSpace \in SeqNumbers
                 /\ Position((seq + k) % SeqSpace) = Position(seq) + k + SeqSpace
  <1> DEFINE p == Position(seq)
             n == seq + k
             m == n % SeqSpace
  <1>1. /\ p \in SeqNumbers
        /\ p = IF seq >= InitialSequence THEN seq - InitialSequence
               ELSE seq - InitialSequence + SeqSpace
    BY PositionIs, Zenon
  <1>2. /\ n \in 0 .. SeqSpace - 1 => m = n
        /\ n \in SeqSpace .. SeqSpace + SeqSpace - 1 => m = n - SeqSpace
        /\ n \in -SeqSpace .. -1 => m = n + SeqSpace
    <2>1. n \in Int
      BY Constants, SMT
    <2> HIDE DEF n
    <2> QED
      BY <2>1, Around, Zenon
  <1> HIDE DEF p, m
  <1> SUFFICES ASSUME NEW x \in SeqNumbers,
                      x = p + k \/ x = p + k - SeqSpace \/ x = p + k + SeqSpace
               PROVE  m = NumberOf(x)
    BY NumberIs, Zenon DEF p, m
  <1>3. NumberOf(x) = IF InitialSequence + x < SeqSpace THEN InitialSequence + x
                      ELSE InitialSequence + x - SeqSpace
    BY NumberIs
  <1>4. CASE x = p + k
    BY <1>1, <1>2, <1>3, <1>4, Constants, SMT
  <1>5. CASE x = p + k - SeqSpace
    BY <1>1, <1>2, <1>3, <1>5, Constants, SMT
  <1>6. CASE x = p + k + SeqSpace
    BY <1>1, <1>2, <1>3, <1>6, Constants, SMT
  <1> QED
    BY <1>4, <1>5, <1>6
-----------------------------------------------------------------------------
(* The ranges that wait, as a map o from numbers to bytes.                 *)

Stop(o, seq) == Position(seq) + Len(o[seq])

\* The bytes are those of the stream from a position on.
Stands(bytes, position) == \A i \in 1 .. Len(bytes) : bytes[i] = position + (i - 1)

Stored(o) ==
  /\ DOMAIN o \subseteq SeqNumbers
  /\ \A seq \in DOMAIN o : /\ o[seq] \in Seq(Bytes) /\ o[seq] # <<>>
                           /\ Stop(o, seq) <= StreamBytes
                           /\ Stands(o[seq], Position(seq))
  /\ \A a, b \in DOMAIN o : Position(a) < Position(b) => Stop(o, a) <= Position(b)

Held(o) == UNION {Position(seq) .. Stop(o, seq) - 1 : seq \in DOMAIN o}

\* No range has a byte between two positions.
Free(o, from, to) ==
  \A seq \in DOMAIN o : Stop(o, seq) <= from \/ Position(seq) >= to

Put(o, key, chunk) ==
  [seq \in {key} \cup DOMAIN o |-> IF seq = key THEN chunk ELSE o[seq]]

Cut(o, key) == [seq \in DOMAIN o \ {key} |-> o[seq]]

LEMMA RangeIs ==
  ASSUME NEW o, Stored(o), NEW seq \in DOMAIN o
  PROVE  /\ seq \in SeqNumbers /\ Position(seq) \in Nat
         /\ o[seq] \in Seq(Bytes) /\ Len(o[seq]) \in Nat \ {0}
         /\ Stop(o, seq) \in Nat /\ Stop(o, seq) <= StreamBytes
         /\ Position(seq) < Stop(o, seq)
         /\ Stands(o[seq], Position(seq))
  <1>1. /\ seq \in SeqNumbers /\ o[seq] \in Seq(Bytes) /\ o[seq] # <<>>
        /\ Stop(o, seq) <= StreamBytes /\ Stands(o[seq], Position(seq))
    BY Zenon DEF Stored
  <1>2. Position(seq) \in Nat
    BY <1>1, PositionIs, Constants, SMT
  <1> DEFINE bytes == o[seq]
  <1>3. Len(bytes) \in Nat \ {0}
    <2>1. bytes \in Seq(Bytes) /\ bytes # <<>>
      BY <1>1
    <2> HIDE DEF bytes
    <2> QED
      BY <2>1, SMT
  <1>4. Stop(o, seq) = Position(seq) + Len(bytes)
    BY Zenon DEF Stop
  <1> QED
    BY <1>1, <1>2, <1>3, <1>4, SMT

LEMMA HeldFinite ==
  ASSUME NEW o, Stored(o)
  PROVE  /\ Held(o) \subseteq 0 .. StreamBytes - 1
         /\ IsFiniteSet(Held(o)) /\ Cardinality(Held(o)) \in Nat
  <1>1. ASSUME NEW x \in Held(o) PROVE x \in 0 .. StreamBytes - 1
    <2>1. PICK seq \in DOMAIN o : x \in Position(seq) .. Stop(o, seq) - 1
      BY Zenon DEF Held
    <2>2. /\ Position(seq) \in Nat /\ Stop(o, seq) \in Nat /\ Stop(o, seq) <= StreamBytes
      BY RangeIs
    <2> QED
      BY <2>1, <2>2, Constants, SMT
  <1>2. IsFiniteSet(0 .. StreamBytes - 1)
    <2>1. 0 \in Int /\ StreamBytes - 1 \in Int
      BY Constants, SMT
    <2> QED
      BY <2>1, FS_Interval, Zenon
  <1>3. Held(o) \in SUBSET (0 .. StreamBytes - 1)
    BY <1>1
  <1> QED
    BY <1>2, <1>3, FS_Subset, FS_CardinalityType

LEMMA IntervalSize ==
  ASSUME NEW a \in Int, NEW n \in Nat
  PROVE  IsFiniteSet(a .. a + n - 1) /\ Cardinality(a .. a + n - 1) = n
  <1> DEFINE b == a + n - 1
  <1>1. b \in Int /\ (IF a > b THEN 0 ELSE b - a + 1) = n
    BY SMT
  <1> HIDE DEF b
  <1>2. IsFiniteSet(a .. b) /\ Cardinality(a .. b) = IF a > b THEN 0 ELSE b - a + 1
    BY <1>1, FS_Interval, Zenon
  <1>3. IsFiniteSet(a .. b) /\ Cardinality(a .. b) = n
    BY <1>1, <1>2, Zenon
  <1> QED
    BY <1>3, Zenon DEF b

\* A range that finds its place free joins the others; its bytes are new.
LEMMA PutStored ==
  ASSUME NEW o, Stored(o), NEW key \in SeqNumbers,
         NEW chunk \in Seq(Bytes), chunk # <<>>, Stands(chunk, Position(key)),
         Position(key) + Len(chunk) <= StreamBytes,
         Free(o, Position(key), Position(key) + Len(chunk))
  PROVE  /\ key \notin DOMAIN o
         /\ Stored(Put(o, key, chunk))
         /\ Stop(Put(o, key, chunk), key) = Position(key) + Len(chunk)
         /\ \A seq \in DOMAIN o : /\ Put(o, key, chunk)[seq] = o[seq]
                                  /\ Stop(Put(o, key, chunk), seq) = Stop(o, seq)
         /\ Cardinality(Held(Put(o, key, chunk))) = Cardinality(Held(o)) + Len(chunk)
  <1> DEFINE p == Put(o, key, chunk)
             from == Position(key)
             len == Len(chunk)
             new == from .. from + len - 1
  <1>1. from \in Nat /\ len \in Nat \ {0}
    <2>1. len \in Nat \ {0}
      BY SMT
    <2> QED
      BY <2>1, PositionIs, Constants, SMT
  <1>2. key \notin DOMAIN o
    <2> SUFFICES ASSUME key \in DOMAIN o PROVE FALSE
      OBVIOUS
    <2>1. Stop(o, key) <= from \/ from >= from + len
      BY Zenon DEF Free
    <2>2. Stop(o, key) \in Nat /\ from < Stop(o, key)
      BY RangeIs
    <2> QED
      BY <1>1, <2>1, <2>2, SMT
  <1>3. /\ DOMAIN p = DOMAIN o \cup {key} /\ p[key] = chunk
        /\ \A seq \in DOMAIN o : p[seq] = o[seq]
    <2>1. /\ DOMAIN p = DOMAIN o \cup {key} /\ p[key] = chunk
          /\ \A seq \in DOMAIN o : seq # key => p[seq] = o[seq]
      BY Zenon DEF Put
    <2> HIDE DEF p
    <2> QED
      BY <1>2, <2>1, Zenon
  <1> HIDE DEF p
  <1>4. /\ Stop(p, key) = from + len
        /\ \A seq \in DOMAIN o : Stop(p, seq) = Stop(o, seq)
    BY <1>3, Zenon DEF Stop
  <1>5. Stored(p)
    <2>1. DOMAIN p \subseteq SeqNumbers
      BY <1>3, Zenon DEF Stored
    <2>2. ASSUME NEW seq \in DOMAIN p
          PROVE  /\ p[seq] \in Seq(Bytes) /\ p[seq] # <<>>
                 /\ Stop(p, seq) <= StreamBytes
                 /\ Stands(p[seq], Position(seq))
      <3>1. CASE seq = key
        BY <1>3, <1>4, <3>1, Zenon
      <3>2. CASE seq \in DOMAIN o
        BY <1>3, <1>4, <3>2, Zenon DEF Stored
      <3> QED
        BY <1>3, <3>1, <3>2, Zenon
    <2>3. ASSUME NEW a \in DOMAIN p, NEW b \in DOMAIN p, Position(a) < Position(b)
          PROVE  Stop(p, a) <= Position(b)
      <3>1. CASE a = key /\ b = key
        BY <1>1, <2>3, <3>1, SMT
      <3>2. CASE a = key /\ b \in DOMAIN o
        <4>1. Position(b) \in Nat /\ Position(b) < Stop(o, b) /\ Stop(o, b) \in Nat
          BY <3>2, RangeIs
        <4> QED
          BY <1>1, <1>4, <2>3, <3>2, <4>1, SMT DEF Free
      <3>3. CASE a \in DOMAIN o /\ b = key
        <4>1. Position(a) \in Nat /\ Stop(o, a) \in Nat
          BY <3>3, RangeIs
        <4> QED
          BY <1>1, <1>4, <2>3, <3>3, <4>1, SMT DEF Free
      <3>4. CASE a \in DOMAIN o /\ b \in DOMAIN o
        BY <1>4, <2>3, <3>4, Zenon DEF Stored
      <3> QED
        BY <1>3, <3>1, <3>2, <3>3, <3>4, Zenon
    <2> QED
      BY <2>1, <2>2, <2>3, Zenon DEF Stored
  <1>6. Held(p) = Held(o) \cup new
    <2>1. \A seq \in DOMAIN o : Position(seq) .. Stop(p, seq) - 1
                                  = Position(seq) .. Stop(o, seq) - 1
      BY <1>4, Zenon
    <2>2. Position(key) .. Stop(p, key) - 1 = new
      BY <1>1, <1>4, SMT
    <2> HIDE DEF new
    <2> QED
      BY <1>3, <2>1, <2>2, ZenonT(40) DEF Held
  <1>7. Held(o) \cap new = {}
    <2> SUFFICES ASSUME NEW x \in Held(o), x \in new PROVE FALSE
      OBVIOUS
    <2>1. PICK seq \in DOMAIN o : x \in Position(seq) .. Stop(o, seq) - 1
      BY Zenon DEF Held
    <2>2. Position(seq) \in Nat /\ Stop(o, seq) \in Nat
      BY RangeIs
    <2>3. Stop(o, seq) <= from \/ Position(seq) >= from + len
      BY Zenon DEF Free
    <2> QED
      BY <1>1, <2>1, <2>2, <2>3, SMT
  <1>8. Cardinality(Held(p)) = Cardinality(Held(o)) + len
    <2>1. IsFiniteSet(Held(o)) /\ Cardinality(Held(o)) \in Nat
      BY HeldFinite
    <2>2. IsFiniteSet(new) /\ Cardinality(new) = len
      <3>1. from \in Int /\ len \in Nat
        BY <1>1, SMT
      <3> HIDE DEF from, len
      <3> QED
        BY <3>1, IntervalSize, Zenon
    <2> HIDE DEF new, len
    <2>3. Cardinality(Held(o) \cup new)
            = Cardinality(Held(o)) + Cardinality(new) - Cardinality(Held(o) \cap new)
      BY <2>1, <2>2, FS_Union
    <2>4. Cardinality(Held(o) \cap new) = 0
      BY <1>7, FS_EmptySet
    <2>5. len \in Nat
      BY <1>1
    <2> QED
      BY <1>6, <2>1, <2>2, <2>3, <2>4, <2>5, SMT
  <1> QED
    BY <1>2, <1>3, <1>4, <1>5, <1>8, Zenon DEF p

LEMMA CutIs ==
  ASSUME NEW o, NEW key
  PROVE  /\ DOMAIN Cut(o, key) = DOMAIN o \ {key}
         /\ \A seq \in DOMAIN o \ {key} : Cut(o, key)[seq] = o[seq]
  BY DEF Cut

LEMMA CutStored ==
  ASSUME NEW o, Stored(o), NEW key \in DOMAIN o
  PROVE  /\ Stored(Cut(o, key))
         /\ \A seq \in DOMAIN o \ {key} : /\ Cut(o, key)[seq] = o[seq]
                                          /\ Stop(Cut(o, key), seq) = Stop(o, seq)
         /\ Cardinality(Held(Cut(o, key))) = Cardinality(Held(o)) - Len(o[key])
  <1> DEFINE c == Cut(o, key)
             p == Put(c, key, o[key])
  <1>1. DOMAIN c = DOMAIN o \ {key} /\ \A seq \in DOMAIN o \ {key} : c[seq] = o[seq]
    BY CutIs
  <1>2. /\ DOMAIN p = DOMAIN c \cup {key} /\ p[key] = o[key]
        /\ \A seq \in DOMAIN c : seq # key => p[seq] = c[seq]
    <2> HIDE DEF c
    <2> QED
      BY Zenon DEF Put
  <1> HIDE DEF c, p
  <1>3. \A seq \in DOMAIN c : Stop(c, seq) = Stop(o, seq)
    BY <1>1, Zenon DEF Stop
  <1>4. Stored(c)
    BY <1>1, <1>3, Zenon DEF Stored
  <1>5. /\ key \in SeqNumbers /\ o[key] \in Seq(Bytes) /\ o[key] # <<>>
        /\ Stands(o[key], Position(key)) /\ Position(key) + Len(o[key]) <= StreamBytes
    BY Zenon DEF Stored, Stop
  <1>6. ASSUME NEW seq \in DOMAIN c
        PROVE  \/ Stop(c, seq) <= Position(key)
               \/ Position(seq) >= Position(key) + Len(o[key])
    <2>1. seq \in DOMAIN o /\ seq # key
      BY <1>1
    <2>2. /\ Position(seq) \in Nat /\ Position(key) \in Nat /\ seq \in SeqNumbers
      BY <2>1, RangeIs
    <2>3. Position(seq) # Position(key)
      BY <1>5, <2>1, <2>2, OnePosition
    <2>4. /\ Position(seq) < Position(key) => Stop(o, seq) <= Position(key)
          /\ Position(key) < Position(seq) => Stop(o, key) <= Position(seq)
      BY <2>1, Zenon DEF Stored
    <2>5. Stop(o, key) = Position(key) + Len(o[key]) /\ Stop(o, key) \in Nat
          /\ Stop(c, seq) = Stop(o, seq) /\ Stop(o, seq) \in Nat
      <3>1. Stop(o, key) = Position(key) + Len(o[key])
        BY Zenon DEF Stop
      <3> QED
        BY <1>3, <2>1, <3>1, RangeIs, Zenon
    <2> QED
      BY <2>2, <2>3, <2>4, <2>5, SMT
  <1>7. Cardinality(Held(p)) = Cardinality(Held(c)) + Len(o[key])
    <2>1. Free(c, Position(key), Position(key) + Len(o[key]))
      BY <1>6, Zenon DEF Free
    <2>2. Cardinality(Held(Put(c, key, o[key]))) = Cardinality(Held(c)) + Len(o[key])
      BY <1>4, <1>5, <2>1, PutStored
    <2> QED
      BY <2>2, Zenon DEF p
  <1>8. Held(p) = Held(o)
    <2>1. DOMAIN p = DOMAIN o /\ \A seq \in DOMAIN o : p[seq] = o[seq]
      BY <1>1, <1>2, Zenon
    <2>2. \A seq \in DOMAIN o : Stop(p, seq) = Stop(o, seq)
      BY <2>1, Zenon DEF Stop
    <2> QED
      BY <2>1, <2>2, Zenon DEF Held
  <1>9. Cardinality(Held(c)) \in Nat /\ Len(o[key]) \in Nat
    BY <1>4, HeldFinite, RangeIs
  <1> HIDE DEF Held
  <1>10. Cardinality(Held(c)) = Cardinality(Held(o)) - Len(o[key])
    BY <1>7, <1>8, <1>9, SMT
  <1> QED
    BY <1>1, <1>3, <1>4, <1>10, Zenon DEF c
-----------------------------------------------------------------------------
(* The receiving fields of a connection.                                   *)

Flags == {"backpressured", "timer", "peerFin"}

\* A map of any kind is allowed for ooo: Stored says what it holds.
Fields(r) ==
  r \in [vmSeq : SeqNumbers, ooo : {r.ooo}, oooBytes : Int, pending : 0 .. AckEvery - 1,
         flags : SUBSET Flags]

Buffer(r) == Stored(r.ooo) /\ r.oooBytes = Cardinality(Held(r.ooo))

Expected(r) == Position(r.vmSeq)

\* All that waits is ahead of vmSeq and within the window.
Beyond(r) ==
  \A seq \in DOMAIN r.ooo : /\ Expected(r) < Position(seq)
                            /\ Stop(r.ooo, seq) <= Expected(r) + Capacity

Receiver(r) == Fields(r) /\ Buffer(r) /\ Beyond(r)

\* What the map of ranges does not concern.
SameRest(r, s) == r.vmSeq = s.vmSeq /\ r.pending = s.pending /\ r.flags = s.flags

LEMMA FieldTypes ==
  ASSUME NEW r, Fields(r)
  PROVE  /\ r.vmSeq \in SeqNumbers /\ Expected(r) \in Nat /\ Expected(r) < SeqSpace
         /\ r.oooBytes \in Int /\ r.pending \in 0 .. AckEvery - 1 /\ r.flags \subseteq Flags
  <1>1. /\ r.vmSeq \in SeqNumbers
        /\ r.oooBytes \in Int /\ r.pending \in 0 .. AckEvery - 1 /\ r.flags \subseteq Flags
    BY Zenon DEF Fields
  <1>2. Expected(r) \in SeqNumbers
    BY <1>1, PositionIs, Zenon DEF Expected
  <1> QED
    BY <1>1, <1>2, Constants, SMT

LEMMA CapacityIs == Capacity \in Nat \ {0} /\ Capacity <= FieldMax /\ Capacity <= Window
  <1>1. Capacity = IF FieldMax <= Window THEN FieldMax ELSE Window
    BY Constants, MinOfTwo DEF Capacity
  <1> QED
    BY <1>1, Constants, SMT

LEMMA SubSeqStands ==
  ASSUME NEW bytes \in Seq(Bytes), NEW p \in Nat, Stands(bytes, p),
         NEW m \in Nat \ {0}, NEW n \in Nat, m <= n + 1, n <= Len(bytes)
  PROVE  /\ SubSeq(bytes, m, n) \in Seq(Bytes)
         /\ Len(SubSeq(bytes, m, n)) = n - m + 1
         /\ Stands(SubSeq(bytes, m, n), p + (m - 1))
  <1> DEFINE s == SubSeq(bytes, m, n)
  <1>1. /\ s \in Seq(Bytes) /\ Len(s) = n - m + 1
        /\ \A i \in 1 .. n - m + 1 : s[i] = bytes[m + (i - 1)]
    BY SMT
  <1> HIDE DEF s
  <1>2. ASSUME NEW i \in 1 .. Len(s) PROVE s[i] = (p + (m - 1)) + (i - 1)
    <2>1. i \in 1 .. n - m + 1 /\ m + (i - 1) \in 1 .. Len(bytes)
      <3>1. Len(bytes) \in Nat
        BY SMT
      <3> QED
        BY <1>1, <3>1, SMT
    <2>2. s[i] = bytes[m + (i - 1)]
      BY <1>1, <2>1, Zenon
    <2>3. bytes[m + (i - 1)] = p + ((m + (i - 1)) - 1)
      BY <2>1, Zenon DEF Stands
    <2>4. i \in Int
      BY <2>1, SMT
    <2> QED
      BY <2>2, <2>3, <2>4, SMT
  <1> QED
    BY <1>1, <1>2, Zenon DEF s, Stands

\* There is room for what a payload that starts at offset start has from an offset on.
Room(r, payload, start, from, to) ==
  /\ Fields(r) /\ Buffer(r)
  /\ payload \in Seq(Bytes) /\ start \in Nat /\ Stands(payload, Expected(r) + start)
  /\ Expected(r) + start + Len(payload) <= StreamBytes
  /\ from \in Nat /\ to \in Nat /\ start <= from /\ from < to /\ to <= start + Len(payload)
  /\ Free(r.ooo, Expected(r) + from, Expected(r) + to)

\* What add(from, to) leaves.
Grown(a, r, from, to) ==
  /\ Fields(a) /\ Buffer(a) /\ SameRest(a, r)
  /\ \A seq \in DOMAIN r.ooo : /\ seq \in DOMAIN a.ooo
                               /\ a.ooo[seq] = r.ooo[seq]
                               /\ Stop(a.ooo, seq) = Stop(r.ooo, seq)
  /\ \A seq \in DOMAIN a.ooo \ DOMAIN r.ooo :
       /\ Position(seq) = Expected(r) + from
       /\ Stop(a.ooo, seq) = Expected(r) + to

LEMMA AddRangeKeeps ==
  ASSUME NEW r, NEW payload, NEW start, NEW from, NEW to, Room(r, payload, start, from, to)
  PROVE  Grown(AddRange(r, payload, start, from, to), r, from, to)
  <1>0. /\ Fields(r) /\ Buffer(r)
        /\ payload \in Seq(Bytes) /\ start \in Nat /\ Stands(payload, Expected(r) + start)
        /\ Expected(r) + start + Len(payload) <= StreamBytes
        /\ from \in Nat /\ to \in Nat /\ start <= from /\ from < to
        /\ to <= start + Len(payload)
        /\ Free(r.ooo, Expected(r) + from, Expected(r) + to)
    BY Zenon DEF Room
  <1> DEFINE a == AddRange(r, payload, start, from, to)
             chunk == SubSeq(payload, from - start + 1, to - start)
             key == (r.vmSeq + from) % SeqSpace
             v == Expected(r)
  <1>1. /\ r.vmSeq \in SeqNumbers /\ v \in Nat /\ Len(payload) \in Nat /\ r.oooBytes \in Int
    <2>1. Len(payload) \in Nat
      BY <1>0, SMT
    <2> QED
      BY <1>0, <2>1, FieldTypes, Zenon
  <1>2. v + from < StreamBytes /\ v + to <= StreamBytes /\ v + from \in SeqNumbers
        /\ from \in -SeqSpace .. SeqSpace
    <2> QED
      BY <1>0, <1>1, Constants, SMT DEF v
  <1>3. key \in SeqNumbers /\ Position(key) = v + from
    BY <1>1, <1>2, Onward, Zenon DEF Expected
  <1>4. /\ chunk \in Seq(Bytes) /\ Len(chunk) = to - from
        /\ Stands(chunk, v + from)
    <2> DEFINE m == from - start + 1
               n == to - start
    <2>1. /\ m \in Nat \ {0} /\ n \in Nat /\ m <= n + 1 /\ n <= Len(payload)
          /\ n - m + 1 = to - from /\ (v + start) + (m - 1) = v + from /\ v + start \in Nat
      <3> HIDE DEF v
      <3>1. m \in Nat \ {0} /\ n \in Nat /\ m <= n + 1 /\ n <= Len(payload)
        BY <1>0, <1>1, SMT
      <3> QED
        BY <1>0, <1>1, <3>1, SMT
    <2> HIDE DEF m, n
    <2>2. /\ SubSeq(payload, m, n) \in Seq(Bytes)
          /\ Len(SubSeq(payload, m, n)) = n - m + 1
          /\ Stands(SubSeq(payload, m, n), (v + start) + (m - 1))
      BY <1>0, <2>1, SubSeqStands, Zenon
    <2> QED
      BY <2>1, <2>2, Zenon DEF m, n
  <1>5. Len(chunk) \in Nat /\ chunk # <<>> /\ v + from + Len(chunk) = v + to
    <2>1. Len(chunk) \in Nat \ {0} /\ v + from + Len(chunk) = v + to
      <3> DEFINE len == Len(chunk)
      <3>1. len = to - from
        BY <1>4
      <3> HIDE DEF v, len
      <3>2. len \in Nat \ {0} /\ v + from + len = v + to
        BY <1>0, <1>1, <3>1, SMTT(30)
      <3> QED
        BY <3>2 DEF len
    <2>2. Len(<<>>) = 0
      BY SMT
    <2> QED
      BY <2>1, <2>2
  <1>6. /\ Fields(a) /\ SameRest(a, r)
        /\ a.ooo = Put(r.ooo, key, chunk)
        /\ a.oooBytes = r.oooBytes + Len(chunk)
    <2> DEFINE o == Put(r.ooo, key, chunk)
               n == r.oooBytes + Len(chunk)
    <2>1. ~ (to <= from)
      BY <1>0, SMT
    <2>2. a = [r EXCEPT !.ooo = o, !.oooBytes = n]
      BY <2>1, Zenon DEF AddRange, Put
    <2> HIDE DEF a, chunk, key
    <2>3. n \in Int
      BY <1>1, <1>5, SMT
    <2> HIDE DEF o, n
    <2>4. Fields(a) /\ SameRest(a, r) /\ a.ooo = o /\ a.oooBytes = n
      <3>1. /\ a.vmSeq = r.vmSeq /\ a.pending = r.pending /\ a.flags = r.flags
            /\ a.ooo = o /\ a.oooBytes = n
            /\ a \in [vmSeq : SeqNumbers, ooo : {o}, oooBytes : Int,
                      pending : 0 .. AckEvery - 1, flags : SUBSET Flags]
        BY <1>0, <2>2, <2>3, Zenon DEF Fields
      <3> QED
        BY <3>1, Zenon DEF Fields, SameRest
    <2> QED
      BY <2>4, Zenon DEF o, n
  <1> HIDE DEF a, chunk, key
  <1>7. Stored(r.ooo) /\ r.oooBytes = Cardinality(Held(r.ooo))
    BY <1>0, Zenon DEF Buffer
  <1>8. /\ Position(key) + Len(chunk) = v + to
        /\ Position(key) + Len(chunk) <= StreamBytes
    <2>1. Position(key) + Len(chunk) = v + to
      BY <1>0, <1>1, <1>3, <1>4, SMT
    <2> QED
      BY <1>2, <2>1
  <1>9. /\ key \notin DOMAIN r.ooo /\ Stored(a.ooo)
        /\ Stop(a.ooo, key) = v + to
        /\ \A seq \in DOMAIN r.ooo : /\ a.ooo[seq] = r.ooo[seq]
                                     /\ Stop(a.ooo, seq) = Stop(r.ooo, seq)
        /\ Cardinality(Held(a.ooo)) = Cardinality(Held(r.ooo)) + Len(chunk)
    <2>1. Free(r.ooo, Position(key), Position(key) + Len(chunk))
      BY <1>0, <1>3, <1>8, Zenon
    <2> DEFINE p == Put(r.ooo, key, chunk)
    <2>2. /\ key \notin DOMAIN r.ooo /\ Stored(p)
          /\ Stop(p, key) = Position(key) + Len(chunk)
          /\ \A seq \in DOMAIN r.ooo : /\ p[seq] = r.ooo[seq]
                                       /\ Stop(p, seq) = Stop(r.ooo, seq)
          /\ Cardinality(Held(p)) = Cardinality(Held(r.ooo)) + Len(chunk)
      <3>1. Stands(chunk, Position(key))
        BY <1>3, <1>4, Zenon
      <3> QED
        BY <1>3, <1>4, <1>5, <1>7, <1>8, <2>1, <3>1, PutStored, ZenonT(40)
    <2> HIDE DEF p
    <2> QED
      BY <1>6, <1>8, <2>2, Zenon DEF p
  <1>10. DOMAIN a.ooo = DOMAIN r.ooo \cup {key}
    BY <1>6, Zenon DEF Put
  <1>11. Buffer(a)
    BY <1>6, <1>7, <1>9, Zenon DEF Buffer
  <1> QED
    BY <1>3, <1>6, <1>9, <1>10, <1>11, Zenon DEF Grown, v, a
-----------------------------------------------------------------------------
(* bufferTCPOutOfOrder.                                                    *)

LEMMA LeastOf ==
  ASSUME NEW S \in SUBSET Nat, S # {}
  PROVE  \E x \in S : \A y \in S : x <= y
  <1>1. PICK x \in S : \A y \in S : ~ (<<y, x>> \in OpToRel(<, Nat))
    BY NatLessThanWellFounded, WFMin, Zenon
  <1>2. \A y \in S : ~ (y < x)
    BY <1>1 DEF OpToRel
  <1> QED
    BY <1>2

\* One number of the walk; r is the connection as it was before.
BufferStep(acc, r, payload, start, end, k) ==
  LET seq == (r.vmSeq + (k - 1)) % SeqSpace
  IN IF seq \in DOMAIN r.ooo THEN Passed(acc, payload, start, end, seq) ELSE acc

BufferWalk(w, r, payload, start, end) ==
  /\ w[0] = [r |-> r, cursor |-> start]
  /\ \A k \in 1 .. SeqSpace : w[k] = BufferStep(w[k - 1], r, payload, start, end, k)

LEMMA BufferedWalks ==
  ASSUME NEW r, NEW sequence, NEW payload
  PROVE  LET start == Ahead(sequence, r.vmSeq)
             end == Clipped(start, Len(payload))
         IN \E w : /\ BufferWalk(w, r, payload, start, end)
                   /\ Buffered(r, sequence, payload) =
                        IF start = 0 \/ start >= Capacity THEN r
                        ELSE AddRange(w[SeqSpace].r, payload, start, w[SeqSpace].cursor, end)
  <1> DEFINE start == Ahead(sequence, r.vmSeq)
             end == Clipped(start, Len(payload))
             first == [r |-> r, cursor |-> start]
             Step(acc, k) == BufferStep(acc, r, payload, start, end, k)
             Fits(w, n) == w = [k \in 0 .. n |-> IF k = 0 THEN first ELSE Step(w[k - 1], k)]
             Bad == {n \in Nat : ~ \E w : Fits(w, n)}
             walked == CHOOSE w : Fits(w, SeqSpace)
  <1>1. Buffered(r, sequence, payload) =
          IF start = 0 \/ start >= Capacity THEN r
          ELSE AddRange(walked[SeqSpace].r, payload, start, walked[SeqSpace].cursor, end)
    BY Zenon DEF Buffered, BufferStep
  <1> HIDE DEF first, Step
  <1>2. ASSUME Bad # {} PROVE FALSE
    <2>1. PICK n \in Bad : \A m \in Bad : n <= m
      <3>1. Bad \in SUBSET Nat
        OBVIOUS
      <3> HIDE DEF Bad
      <3> QED
        BY <1>2, <3>1, LeastOf, Zenon
    <2>2. n \in Nat
      OBVIOUS
    <2>3. CASE n = 0
      <3> DEFINE f == [k \in 0 .. 0 |-> first]
      <3>1. \A k \in 0 .. 0 : k = 0
        BY SMT
      <3>2. \A k \in 0 .. 0 : f[k] = IF k = 0 THEN first ELSE Step(f[k - 1], k)
        BY <3>1, Zenon
      <3>3. Fits(f, 0)
        BY <3>2, Zenon
      <3> QED
        BY <2>3, <3>3, Zenon
    <2>4. CASE n # 0
      <3>1. n - 1 \in Nat /\ ~ (n <= n - 1) /\ n - 1 \in 0 .. n - 1
        BY <2>2, <2>4, SMT
      <3>2. PICK g : Fits(g, n - 1)
        BY <2>1, <3>1, Zenon
      <3> DEFINE f == [k \in 0 .. n |-> IF k = n THEN Step(g[n - 1], n) ELSE g[k]]
      <3>3. \A k \in 0 .. n - 1 : g[k] = IF k = 0 THEN first ELSE Step(g[k - 1], k)
        BY <3>2, Zenon
      <3>4. ASSUME NEW k \in 0 .. n
            PROVE  f[k] = IF k = 0 THEN first ELSE Step(f[k - 1], k)
        <4>1. CASE k = n
          <5>1. n - 1 \in 0 .. n /\ n - 1 # n
            BY <2>2, <2>4, SMT
          <5>2. f[n] = Step(g[n - 1], n) /\ f[n - 1] = g[n - 1]
            BY <4>1, <5>1, Zenon
          <5> HIDE DEF f
          <5> QED
            BY <2>4, <4>1, <5>2, Zenon
        <4>2. CASE k # n /\ k # 0
          <5>1. k \in 0 .. n - 1 /\ k - 1 \in 0 .. n /\ k - 1 # n
            BY <2>2, <4>2, SMT
          <5>2. f[k] = g[k] /\ f[k - 1] = g[k - 1]
            BY <4>2, <5>1, Zenon
          <5> HIDE DEF f
          <5> QED
            BY <3>3, <4>2, <5>1, <5>2, Zenon
        <4>3. CASE k # n /\ k = 0
          <5>1. k \in 0 .. n - 1
            BY <2>2, <2>4, <4>3, SMT
          <5>2. f[k] = g[k]
            BY <4>3, Zenon
          <5> HIDE DEF f
          <5> QED
            BY <3>3, <4>3, <5>1, <5>2, Zenon
        <4> QED
          BY <4>1, <4>2, <4>3
      <3>5. Fits(f, n)
        BY <3>4, Zenon
      <3> QED
        BY <3>5, Zenon
    <2> QED
      BY <2>3, <2>4
  <1>3. Fits(walked, SeqSpace)
    <2>1. SeqSpace \in Nat
      BY Constants
    <2> QED
      BY <1>2, <2>1, Zenon
  <1> HIDE DEF walked
  <1>4. \A k \in 0 .. SeqSpace :
          walked[k] = IF k = 0 THEN first ELSE Step(walked[k - 1], k)
    BY <1>3, Zenon
  <1>5. BufferWalk(walked, r, payload, start, end)
    <2>1. 0 \in 0 .. SeqSpace /\ \A k \in 1 .. SeqSpace : k \in 0 .. SeqSpace /\ k # 0
      BY Constants, SMT
    <2> QED
      BY <1>4, <2>1, Zenon DEF BufferWalk, first, Step
  <1> QED
    BY <1>1, <1>5, Zenon

\* A payload that begins start beyond vmSeq, of which what comes before end fits.
Fits(r, payload, start, end) ==
  /\ payload \in Seq(Bytes) /\ Stands(payload, Expected(r) + start)
  /\ Expected(r) + start + Len(payload) <= StreamBytes
  /\ start \in Nat \ {0} /\ end \in Nat
  /\ end <= start + Len(payload) /\ end <= Capacity

\* A range that what is still to be added does not touch: it ends before the
\* cursor, or nothing more is added, or it begins behind the payload.
Settled(acc, v, end, seq) ==
  \/ Stop(acc.r.ooo, seq) <= v + acc.cursor
  \/ acc.cursor >= end
  \/ Position(seq) >= v + end

\* The ranges that were there are still there.
Kept(acc, r, start) ==
  /\ Fields(acc.r) /\ Buffer(acc.r) /\ SameRest(acc.r, r)
  /\ acc.cursor \in Nat /\ acc.cursor >= start
  /\ \A seq \in DOMAIN r.ooo : seq \in DOMAIN acc.r.ooo /\ acc.r.ooo[seq] = r.ooo[seq]

\* A range that is not settled is one the walk comes to after k numbers.
Awaited(acc, r, end, k) ==
  \A seq \in DOMAIN acc.r.ooo :
    \/ seq \in DOMAIN r.ooo /\ Position(seq) >= Expected(r) + k
    \/ Settled(acc, Expected(r), end, seq)

\* What was added is within the payload's part of the window.
Within(acc, r, end) ==
  \A seq \in DOMAIN acc.r.ooo \ DOMAIN r.ooo :
    Expected(r) < Position(seq) /\ Stop(acc.r.ooo, seq) <= Expected(r) + end

\* When the walk has passed the first k numbers from vmSeq on.
Filling(acc, r, start, end, k) ==
  Kept(acc, r, start) /\ Awaited(acc, r, end, k) /\ Within(acc, r, end)

\* The walk meets the ranges of r, and no others, at their own positions.
LEMMA Meets ==
  ASSUME NEW r, Receiver(r), NEW k \in 1 .. SeqSpace,
         NEW met, met = (r.vmSeq + (k - 1)) % SeqSpace
  PROVE  /\ met \in DOMAIN r.ooo => Position(met) = Expected(r) + (k - 1)
         /\ \A seq \in DOMAIN r.ooo : Position(seq) = Expected(r) + (k - 1) => seq = met
  <1> DEFINE v == Expected(r)
             j == k - 1
  <1>1. /\ r.vmSeq \in SeqNumbers /\ v \in Nat /\ v < SeqSpace /\ v = Position(r.vmSeq)
    BY FieldTypes, Zenon DEF Receiver, Expected
  <1>2. j \in 0 .. SeqSpace - 1 /\ j \in -SeqSpace .. SeqSpace
    BY Constants, SMT
  <1> HIDE DEF v, j
  <1>3. /\ v + j \in SeqNumbers => met \in SeqNumbers /\ Position(met) = v + j
        /\ v + j - SeqSpace \in SeqNumbers
             => met \in SeqNumbers /\ Position(met) = v + j - SeqSpace
    BY <1>1, <1>2, Onward, Zenon DEF j
  <1>4. ASSUME NEW seq \in DOMAIN r.ooo
        PROVE  seq \in SeqNumbers /\ Position(seq) \in SeqNumbers /\ v < Position(seq)
    <2>1. Stored(r.ooo) /\ v < Position(seq)
      BY Zenon DEF Receiver, Buffer, Beyond, v
    <2>2. seq \in SeqNumbers
      BY <2>1, Zenon DEF Stored
    <2> QED
      BY <2>1, <2>2, PositionIs
  <1>5. met \in DOMAIN r.ooo => Position(met) = v + j
    <2> SUFFICES ASSUME met \in DOMAIN r.ooo PROVE Position(met) = v + j
      OBVIOUS
    <2>1. v < Position(met)
      BY <1>4
    <2>2. v + j \in SeqNumbers \/ v + j - SeqSpace \in SeqNumbers
      BY <1>1, <1>2, Constants, SMT
    <2>3. ~ (v < v + j - SeqSpace)
      BY <1>1, <1>2, Constants, SMT
    <2> QED
      BY <1>3, <2>1, <2>2, <2>3, Zenon
  <1>6. ASSUME NEW seq \in DOMAIN r.ooo, Position(seq) = v + j PROVE seq = met
    BY <1>3, <1>4, <1>6, OnePosition, Zenon
  <1> QED
    BY <1>5, <1>6 DEF v, j

\* Where the walk does not change anything, what it passed is settled.
LEMMA PassedBy ==
  ASSUME NEW r, Receiver(r), NEW start, NEW end, NEW k \in Int,
         NEW acc, Filling(acc, r, start, end, k - 1),
         \A seq \in DOMAIN r.ooo :
           Position(seq) = Expected(r) + (k - 1) => Settled(acc, Expected(r), end, seq)
  PROVE  Filling(acc, r, start, end, k)
  <1>1. ASSUME NEW seq \in DOMAIN acc.r.ooo
        PROVE  \/ seq \in DOMAIN r.ooo /\ Position(seq) >= Expected(r) + k
               \/ Settled(acc, Expected(r), end, seq)
    <2>1. CASE Settled(acc, Expected(r), end, seq)
      BY <2>1
    <2>2. CASE ~ Settled(acc, Expected(r), end, seq)
      <3>1. seq \in DOMAIN r.ooo /\ Position(seq) >= Expected(r) + (k - 1)
        BY <2>2, Zenon DEF Filling, Awaited
      <3>2. Position(seq) # Expected(r) + (k - 1)
        BY <2>2, <3>1, Zenon
      <3>3. Position(seq) \in Nat /\ Expected(r) \in Nat
        BY <3>1, RangeIs, FieldTypes, Zenon DEF Receiver, Buffer
      <3> QED
        BY <3>1, <3>2, <3>3, SMT
    <2> QED
      BY <2>1, <2>2
  <1> QED
    BY <1>1, Zenon DEF Filling, Awaited

\* A new range fills the gap from the cursor to a range that was met.
LEMMA FillsGap ==
  ASSUME NEW r, Receiver(r), NEW payload, NEW start, NEW end,
         Fits(r, payload, start, end), NEW k \in 0 .. SeqSpace,
         NEW acc, Filling(acc, r, start, end, k),
         NEW to \in Nat, acc.cursor < to, to <= end, to <= k,
         NEW a, a = AddRange(acc.r, payload, start, acc.cursor, to)
  PROVE  /\ Fields(a) /\ Buffer(a) /\ SameRest(a, r)
         /\ \A seq \in DOMAIN acc.r.ooo : /\ seq \in DOMAIN a.ooo
                                          /\ a.ooo[seq] = acc.r.ooo[seq]
                                          /\ Stop(a.ooo, seq) = Stop(acc.r.ooo, seq)
         /\ \A seq \in DOMAIN a.ooo \ DOMAIN acc.r.ooo :
              /\ Expected(r) < Position(seq) /\ Stop(a.ooo, seq) = Expected(r) + to
  <1> DEFINE v == Expected(r)
             c == acc.cursor
  <1>1. /\ Fields(acc.r) /\ Buffer(acc.r) /\ SameRest(acc.r, r) /\ c \in Nat /\ c >= start
    BY Zenon DEF Filling, Kept
  <1>2. Expected(acc.r) = v /\ v \in Nat
    BY <1>1, FieldTypes, Zenon DEF SameRest, Expected, Receiver
  <1>3. /\ payload \in Seq(Bytes) /\ Stands(payload, v + start)
        /\ v + start + Len(payload) <= StreamBytes
        /\ start \in Nat \ {0} /\ start \in Nat /\ end \in Nat
        /\ end <= start + Len(payload)
    BY SMT DEF Fits
  <1>4. Len(payload) \in Nat
    BY <1>3, SMT
  <1> HIDE DEF v, c
  <1>5. start <= c /\ c < to /\ to <= start + Len(payload)
    <2>1. c < to
      BY DEF c
    <2> QED
      BY <1>1, <1>3, <1>4, <2>1, SMT
  <1>6. Free(acc.r.ooo, v + c, v + to)
    <2> SUFFICES ASSUME NEW seq \in DOMAIN acc.r.ooo
                 PROVE  Stop(acc.r.ooo, seq) <= v + c \/ Position(seq) >= v + to
      BY Zenon DEF Free
    <2>1. \/ Position(seq) >= v + k
          \/ Stop(acc.r.ooo, seq) <= v + c
          \/ c >= end
          \/ Position(seq) >= v + end
      BY Zenon DEF Filling, Awaited, Settled, v, c
    <2>2. Position(seq) \in Nat
      BY <1>1, RangeIs, Zenon DEF Buffer
    <2> QED
      BY <1>1, <1>2, <1>3, <1>5, <2>1, <2>2, SMTT(30)
  <1>7. /\ Fields(a) /\ Buffer(a) /\ SameRest(a, acc.r)
        /\ \A seq \in DOMAIN acc.r.ooo : /\ seq \in DOMAIN a.ooo
                                         /\ a.ooo[seq] = acc.r.ooo[seq]
                                         /\ Stop(a.ooo, seq) = Stop(acc.r.ooo, seq)
        /\ \A seq \in DOMAIN a.ooo \ DOMAIN acc.r.ooo :
             /\ Position(seq) = v + c
             /\ Stop(a.ooo, seq) = v + to
    <2> DEFINE s == acc.r
    <2>1. a = AddRange(s, payload, start, c, to)
      BY Zenon DEF c
    <2>2. /\ Fields(s) /\ Buffer(s) /\ Stands(payload, Expected(s) + start)
          /\ Expected(s) + start + Len(payload) <= StreamBytes
          /\ Free(s.ooo, Expected(s) + c, Expected(s) + to)
          /\ Expected(s) = v
      BY <1>1, <1>2, <1>3, <1>6, Zenon
    <2> HIDE DEF s
    <2>3. Room(s, payload, start, c, to)
      BY <1>1, <1>3, <1>5, <2>2, Zenon DEF Room
    <2>4. Grown(a, s, c, to)
      <3>1. Grown(AddRange(s, payload, start, c, to), s, c, to)
        BY <2>3, AddRangeKeeps, ZenonT(30)
      <3> QED
        BY <2>1, <3>1, Zenon
    <2> QED
      BY <2>2, <2>4, Zenon DEF Grown, s
  <1>8. v < v + c
    BY <1>1, <1>2, <1>3, SMT
  <1> QED
    BY <1>1, <1>7, <1>8, Zenon DEF SameRest, v, c

LEMMA BufferStepKeeps ==
  ASSUME NEW r, Receiver(r), NEW payload, NEW start, NEW end,
         Fits(r, payload, start, end), NEW k \in 1 .. SeqSpace,
         NEW acc, Filling(acc, r, start, end, k - 1)
  PROVE  Filling(BufferStep(acc, r, payload, start, end, k), r, start, end, k)
  <1> DEFINE met == (r.vmSeq + (k - 1)) % SeqSpace
             v == Expected(r)
             offset == Ahead(met, acc.r.vmSeq)
             len == Len(acc.r.ooo[met])
             after == offset + len
             new == BufferStep(acc, r, payload, start, end, k)
  <1>0. met = (r.vmSeq + (k - 1)) % SeqSpace
    OBVIOUS
  <1>3. k \in Int
    BY Constants, SMT
  <1>4. \A seq \in DOMAIN r.ooo : Position(seq) = Expected(r) + (k - 1) => seq = met
    BY Meets
  <1>1. CASE met \notin DOMAIN r.ooo
    <2>1. new = acc
      BY <1>1, Zenon DEF BufferStep
    <2> HIDE DEF new, met
    <2> QED
      BY <1>1, <1>3, <1>4, <2>1, PassedBy, Zenon DEF new
  <1>2. CASE met \in DOMAIN r.ooo
    <2>1. new = Passed(acc, payload, start, end, met)
      BY <1>2, Zenon DEF BufferStep
    <2>2. Position(met) = v + (k - 1)
      BY <1>2, Meets
    <2>3. /\ Fields(acc.r) /\ Buffer(acc.r) /\ SameRest(acc.r, r)
          /\ acc.cursor \in Nat /\ acc.cursor >= start
          /\ met \in DOMAIN acc.r.ooo
      BY <1>2, Zenon DEF Filling, Kept
    <2>4. /\ met \in SeqNumbers /\ Stop(acc.r.ooo, met) \in Nat
          /\ Stop(acc.r.ooo, met) = Position(met) + len
          /\ len \in Nat \ {0}
      BY <2>3, RangeIs, Zenon DEF Buffer, Stop
    <2>5. r.vmSeq \in SeqNumbers /\ v \in Nat /\ acc.r.vmSeq = r.vmSeq
      BY <2>3, FieldTypes, Zenon DEF SameRest, Receiver
    <2> HIDE DEF met
    <2>6. offset = k - 1
      <3>1. Ahead(met, r.vmSeq) = IF Position(met) >= v THEN Position(met) - v
                                  ELSE Position(met) - v + SeqSpace
        BY <2>4, <2>5, AheadPositions, Zenon DEF Expected
      <3> HIDE DEF v
      <3>2. Position(met) >= v /\ Position(met) - v = k - 1
        BY <2>2, <2>5, Constants, SMT
      <3> QED
        BY <2>5, <3>1, <3>2, Zenon
    <2> HIDE DEF offset
    <2>7. /\ offset \in Nat /\ after \in Nat /\ v + after = Stop(acc.r.ooo, met)
          /\ offset < after /\ offset < SeqSpace
      <3> HIDE DEF len, v
      <3> QED
        BY <2>2, <2>4, <2>5, <2>6, Constants, SMT
    <2>8. /\ start \in Nat \ {0} /\ end \in Nat
      BY Zenon DEF Fits
    <2> HIDE DEF after, v
    <2>9. CASE offset >= end \/ acc.cursor >= end \/ after <= acc.cursor
      <3>1. new = acc
        BY <2>1, <2>9, Zenon DEF Passed, offset, after, len
      <3> HIDE DEF new
      <3>2. Settled(acc, v, end, met)
        <4>1. offset >= end => Position(met) >= v + end
          BY <2>2, <2>5, <2>6, <2>8, SMT
        <4>2. after <= acc.cursor => Stop(acc.r.ooo, met) <= v + acc.cursor
          BY <2>3, <2>5, <2>7, SMT
        <4> QED
          BY <2>9, <4>1, <4>2, Zenon DEF Settled
      <3> QED
        BY <1>3, <1>4, <3>1, <3>2, PassedBy, Zenon DEF v, new
    <2>10. CASE ~ (offset >= end \/ acc.cursor >= end \/ after <= acc.cursor)
      <3> DEFINE a == AddRange(acc.r, payload, start, acc.cursor, offset)
      <3>1. new = [r |-> a, cursor |-> after]
        <4>1. Min({offset, end}) = offset /\ Max({acc.cursor, after}) = after
          <5>1. /\ offset \in Int /\ end \in Int /\ acc.cursor \in Int /\ after \in Int
                /\ offset <= end /\ acc.cursor <= after
            BY <2>3, <2>7, <2>8, <2>10, SMT
          <5>2. /\ Min({offset, end}) = IF offset <= end THEN offset ELSE end
                /\ Max({acc.cursor, after}) = IF acc.cursor <= after THEN after ELSE acc.cursor
            BY <5>1, MinOfTwo, MaxOfTwo, Zenon
          <5> QED
            BY <5>1, <5>2, Zenon
        <4>2. new = [r |-> AddRange(acc.r, payload, start, acc.cursor, Min({offset, end})),
                     cursor |-> Max({acc.cursor, after})]
          BY <2>1, <2>10, Zenon DEF Passed, offset, after, len
        <4> QED
          BY <4>1, <4>2, Zenon
      <3> HIDE DEF new, a
      <3>2. new.r = a /\ new.cursor = after
        BY <3>1, Zenon
      <3>3. /\ Fields(a) /\ Buffer(a) /\ SameRest(a, r)
            /\ \A seq \in DOMAIN acc.r.ooo : /\ seq \in DOMAIN a.ooo
                                             /\ a.ooo[seq] = acc.r.ooo[seq]
                                             /\ Stop(a.ooo, seq) = Stop(acc.r.ooo, seq)
            /\ \A seq \in DOMAIN a.ooo \ DOMAIN acc.r.ooo :
                 /\ v < Position(seq) /\ Stop(a.ooo, seq) = v + offset
        <4>1. CASE offset <= acc.cursor
          <5>1. a = acc.r
            BY <4>1, Zenon DEF AddRange, a
          <5> QED
            BY <2>3, <5>1, Zenon
        <4>2. CASE ~ (offset <= acc.cursor)
          <5>1. /\ acc.cursor < offset /\ offset <= end /\ offset <= k - 1
                /\ k - 1 \in 0 .. SeqSpace
            BY <2>3, <2>6, <2>7, <2>8, <2>10, <4>2, Constants, SMT
          <5>2. a = AddRange(acc.r, payload, start, acc.cursor, offset)
            BY DEF a
          <5> QED
            BY <2>7, <5>1, <5>2, FillsGap DEF v
        <4> QED
          BY <4>1, <4>2
      <3>4. after >= start /\ acc.cursor < after
        BY <2>3, <2>7, <2>8, <2>10, SMT
      <3>5. \A seq \in DOMAIN r.ooo : seq \in DOMAIN a.ooo /\ a.ooo[seq] = r.ooo[seq]
        BY <3>3, Zenon DEF Filling, Kept
      <3>6. ASSUME NEW seq \in DOMAIN a.ooo
            PROVE  \/ seq \in DOMAIN r.ooo /\ Position(seq) >= v + k
                   \/ Settled(new, v, end, seq)
        <4>1. CASE seq \notin DOMAIN acc.r.ooo
          <5>1. Stop(a.ooo, seq) = v + offset
            BY <3>3, <4>1, Zenon
          <5>2. Stop(a.ooo, seq) <= v + after
            BY <2>5, <2>7, <5>1, SMT
          <5> QED
            BY <3>2, <5>2, Zenon DEF Settled
        <4>2. CASE seq \in DOMAIN acc.r.ooo
          <5>1. /\ Stop(a.ooo, seq) = Stop(acc.r.ooo, seq)
                /\ Stop(acc.r.ooo, seq) \in Nat /\ Position(seq) \in Nat
            BY <2>3, <3>3, <4>2, RangeIs, Zenon DEF Buffer
          <5>2. CASE Settled(acc, v, end, seq)
            <6>1. \/ Stop(acc.r.ooo, seq) <= v + acc.cursor
                  \/ Position(seq) >= v + end
              BY <2>10, <5>2, Zenon DEF Settled
            <6>2. Stop(acc.r.ooo, seq) <= v + acc.cursor => Stop(a.ooo, seq) <= v + after
              BY <2>3, <2>5, <2>7, <3>4, <5>1, SMT
            <6> QED
              BY <3>2, <6>1, <6>2, Zenon DEF Settled
          <5>3. CASE ~ Settled(acc, v, end, seq)
            <6>1. seq \in DOMAIN r.ooo /\ Position(seq) >= v + (k - 1)
              BY <4>2, <5>3, Zenon DEF Filling, Awaited, v
            <6>2. CASE Position(seq) = v + (k - 1)
              <7>1. seq = met
                BY <6>1, <6>2, Meets DEF v, met
              <7>2. Stop(a.ooo, seq) <= v + after
                BY <2>7, <5>1, <7>1, SMT
              <7> QED
                BY <3>2, <7>2, Zenon DEF Settled
            <6>3. CASE Position(seq) # v + (k - 1)
              BY <2>5, <5>1, <6>1, <6>3, SMT
            <6> QED
              BY <6>2, <6>3
          <5> QED
            BY <5>2, <5>3
        <4> QED
          BY <4>1, <4>2
      <3>7. ASSUME NEW seq \in DOMAIN a.ooo \ DOMAIN r.ooo
            PROVE  v < Position(seq) /\ Stop(a.ooo, seq) <= v + end
        <4>1. CASE seq \in DOMAIN acc.r.ooo
          BY <3>3, <4>1, Zenon DEF Filling, Within, v
        <4>2. CASE seq \notin DOMAIN acc.r.ooo
          <5>1. v < Position(seq) /\ Stop(a.ooo, seq) = v + offset
            BY <3>3, <4>2, Zenon
          <5> QED
            BY <2>5, <2>7, <2>8, <2>10, <5>1, SMT
        <4> QED
          BY <4>1, <4>2
      <3>8. Kept(new, r, start)
        BY <2>7, <3>2, <3>3, <3>4, <3>5, Zenon DEF Kept
      <3>9. Awaited(new, r, end, k)
        BY <3>2, <3>6, Zenon DEF Awaited, v
      <3>10. Within(new, r, end)
        BY <3>2, <3>7, Zenon DEF Within, v
      <3> QED
        BY <3>8, <3>9, <3>10, Zenon DEF Filling, new
    <2> QED
      BY <2>9, <2>10
  <1> QED
    BY <1>1, <1>2

LEMMA WalkedBuffer ==
  ASSUME NEW r, Receiver(r), NEW payload, NEW start, NEW end, Fits(r, payload, start, end),
         NEW w, BufferWalk(w, r, payload, start, end)
  PROVE  Filling(w[SeqSpace], r, start, end, SeqSpace)
  <1> DEFINE Bad == {k \in 0 .. SeqSpace : ~ Filling(w[k], r, start, end, k)}
  <1>1. Filling(w[0], r, start, end, 0)
    <2>1. w[0].r = r /\ w[0].cursor = start
      <3> DEFINE first == w[0]
      <3>1. first = [r |-> r, cursor |-> start]
        BY Zenon DEF BufferWalk
      <3> HIDE DEF first
      <3>2. first.r = r /\ first.cursor = start
        BY <3>1
      <3> QED
        BY <3>2 DEF first
    <2>2. start \in Nat
      BY SMT DEF Fits
    <2>3. Kept(w[0], r, start)
      <3>1. start >= start
        BY <2>2, SMT
      <3> QED
        BY <2>1, <2>2, <3>1, Zenon DEF Kept, Receiver, SameRest
    <2>4. Awaited(w[0], r, end, 0)
      <3> SUFFICES ASSUME NEW seq \in DOMAIN r.ooo PROVE Position(seq) >= Expected(r) + 0
        BY <2>1, Zenon DEF Awaited
      <3>1. Position(seq) \in Nat /\ Expected(r) \in Nat /\ Expected(r) < Position(seq)
        BY RangeIs, FieldTypes, Zenon DEF Receiver, Buffer, Beyond
      <3> QED
        BY <3>1, SMT
    <2>5. Within(w[0], r, end)
      BY <2>1, Zenon DEF Within
    <2> QED
      BY <2>3, <2>4, <2>5, Zenon DEF Filling
  <1>2. ASSUME Bad # {} PROVE FALSE
    <2>1. PICK n \in Bad : \A m \in Bad : n <= m
      <3>1. Bad \in SUBSET Nat
        BY SMT
      <3> HIDE DEF Bad
      <3> QED
        BY <1>2, <3>1, LeastOf, Zenon
    <2>2. n \in 0 .. SeqSpace /\ ~ Filling(w[n], r, start, end, n)
      OBVIOUS
    <2>3. n # 0
      BY <1>1, <2>2, Zenon
    <2>4. n \in 1 .. SeqSpace /\ n - 1 \in 0 .. SeqSpace /\ ~ (n <= n - 1)
      BY <2>2, <2>3, Constants, SMT
    <2>5. Filling(w[n - 1], r, start, end, n - 1)
      BY <2>1, <2>4, Zenon
    <2>6. w[n] = BufferStep(w[n - 1], r, payload, start, end, n)
      BY <2>4, Zenon DEF BufferWalk
    <2> QED
      BY <2>2, <2>4, <2>5, <2>6, BufferStepKeeps
  <1>3. SeqSpace \in 0 .. SeqSpace
    BY Constants, SMT
  <1> QED
    BY <1>2, <1>3, Zenon

\* What is left of the payload behind the last range.
LEMMA LastAdded ==
  ASSUME NEW r, Receiver(r), NEW payload, NEW start, NEW end, Fits(r, payload, start, end),
         NEW acc, Filling(acc, r, start, end, SeqSpace),
         NEW b, b = AddRange(acc.r, payload, start, acc.cursor, end)
  PROVE  Receiver(b) /\ SameRest(b, r)
  <1> DEFINE v == Expected(r)
             c == acc.cursor
             s == acc.r
  <1>1. /\ Fields(s) /\ Buffer(s) /\ SameRest(s, r) /\ c \in Nat /\ c >= start
        /\ \A seq \in DOMAIN r.ooo : seq \in DOMAIN s.ooo /\ s.ooo[seq] = r.ooo[seq]
    BY Zenon DEF Filling, Kept
  <1>2. /\ payload \in Seq(Bytes) /\ Stands(payload, v + start)
        /\ v + start + Len(payload) <= StreamBytes
        /\ start \in Nat \ {0} /\ end \in Nat /\ end <= start + Len(payload)
        /\ end <= Capacity
    BY Zenon DEF Fits
  <1>3. Expected(s) = v /\ v \in Nat /\ v < SeqSpace
    BY <1>1, FieldTypes, Zenon DEF SameRest, Expected, Receiver
  <1>4. ASSUME NEW seq \in DOMAIN s.ooo
        PROVE  v < Position(seq) /\ Stop(s.ooo, seq) <= v + Capacity
    <2>1. CASE seq \in DOMAIN r.ooo
      <3>1. Stop(s.ooo, seq) = Stop(r.ooo, seq)
        BY <1>1, <2>1, Zenon DEF Stop
      <3> QED
        BY <2>1, <3>1, Zenon DEF Receiver, Beyond
    <2>2. CASE seq \notin DOMAIN r.ooo
      <3>1. v < Position(seq) /\ Stop(s.ooo, seq) <= v + end
        BY <2>2, Zenon DEF Filling, Within
      <3>2. Stop(s.ooo, seq) \in Nat
        BY <1>1, RangeIs, Zenon DEF Buffer
      <3> HIDE DEF v, s
      <3> QED
        BY <1>2, <1>3, <3>1, <3>2, CapacityIs, SMT
    <2> QED
      BY <2>1, <2>2
  <1>5. CASE end <= c
    <2>1. b = s
      BY <1>5, Zenon DEF AddRange
    <2> QED
      BY <1>1, <1>3, <1>4, <2>1, Zenon DEF Receiver, Beyond
  <1>6. CASE ~ (end <= c)
    <2>1. Free(s.ooo, v + c, v + end)
      <3> SUFFICES ASSUME NEW seq \in DOMAIN s.ooo
                   PROVE  Stop(s.ooo, seq) <= v + c \/ Position(seq) >= v + end
        BY Zenon DEF Free
      <3>1. \/ Position(seq) >= v + SeqSpace
            \/ Stop(s.ooo, seq) <= v + c
            \/ c >= end
            \/ Position(seq) >= v + end
        BY Zenon DEF Filling, Awaited, Settled
      <3>2. Position(seq) \in Nat /\ seq \in SeqNumbers
        BY <1>1, RangeIs, Zenon DEF Buffer
      <3>3. Position(seq) < SeqSpace
        BY <3>2, PositionIs, Constants, SMT
      <3> HIDE DEF v, c, s
      <3> QED
        BY <1>1, <1>2, <1>3, <1>6, <3>1, <3>2, <3>3, Constants, SMT
    <2>2. start \in Nat /\ start <= c /\ c < end
      BY <1>1, <1>2, <1>6, SMT
    <2>3. Room(s, payload, start, c, end)
      BY <1>1, <1>2, <1>3, <2>1, <2>2, Zenon DEF Room
    <2>4. Grown(b, s, c, end)
      BY <2>3, AddRangeKeeps, Zenon
    <2>5. Fields(b) /\ Buffer(b) /\ SameRest(b, s)
      BY <2>4, Zenon DEF Grown
    <2>6. Expected(b) = v /\ SameRest(b, r)
      BY <1>1, <1>3, <2>5, Zenon DEF SameRest, Expected
    <2>7. ASSUME NEW seq \in DOMAIN b.ooo
          PROVE  v < Position(seq) /\ Stop(b.ooo, seq) <= v + Capacity
      <3>1. CASE seq \in DOMAIN s.ooo
        BY <1>4, <2>4, <3>1, Zenon DEF Grown
      <3>2. CASE seq \notin DOMAIN s.ooo
        <4>1. Position(seq) = v + c /\ Stop(b.ooo, seq) = v + end
          BY <1>3, <2>4, <3>2, Zenon DEF Grown
        <4> HIDE DEF v, c
        <4> QED
          BY <1>1, <1>2, <1>3, <2>2, <4>1, CapacityIs, SMT
      <3> QED
        BY <3>1, <3>2
    <2> QED
      BY <2>5, <2>6, <2>7, Zenon DEF Receiver, Beyond
  <1> QED
    BY <1>5, <1>6

LEMMA BufferedKeeps ==
  ASSUME NEW r, Receiver(r), NEW from \in Nat, NEW payload \in Seq(Bytes),
         Expected(r) < from, from + Len(payload) <= StreamBytes, Stands(payload, from)
  PROVE  /\ Receiver(Buffered(r, NumberOf(from), payload))
         /\ SameRest(Buffered(r, NumberOf(from), payload), r)
  <1> DEFINE sequence == NumberOf(from)
             v == Expected(r)
             start == Ahead(sequence, r.vmSeq)
             end == Clipped(start, Len(payload))
             b == Buffered(r, sequence, payload)
  <1>1. r.vmSeq \in SeqNumbers /\ v \in Nat /\ v < SeqSpace
    BY FieldTypes, Zenon DEF Receiver
  <1>2. Len(payload) \in Nat
    BY SMT
  <1>3. sequence \in SeqNumbers /\ Position(sequence) = from
    <2>1. from \in SeqNumbers
      BY <1>2, Constants, SMT
    <2> QED
      BY <2>1, NumberIs, Zenon
  <1> HIDE DEF sequence
  <1>4. start = from - v /\ start \in Nat \ {0} /\ v + start = from
    <2>1. start = IF from >= v THEN from - v ELSE from - v + SeqSpace
      BY <1>1, <1>3, AheadPositions, Zenon DEF Expected
    <2> HIDE DEF start, v
    <2>2. v < from
      BY DEF v
    <2> QED
      BY <1>1, <2>1, <2>2, SMT
  <1>5. /\ end \in Nat /\ end <= start + Len(payload) /\ end <= Capacity
    <2> DEFINE n == start + Len(payload)
    <2>1. n \in Nat /\ Capacity \in Nat
      BY <1>2, <1>4, CapacityIs, SMT
    <2>2. end = Min({n, Capacity})
      BY Zenon DEF Clipped
    <2> HIDE DEF n, end
    <2>3. Min({n, Capacity}) = IF n <= Capacity THEN n ELSE Capacity
      BY <2>1, MinOfTwo, SMT
    <2> QED
      BY <2>1, <2>2, <2>3, SMT DEF n
  <1>6. Fits(r, payload, start, end)
    BY <1>4, <1>5, Zenon DEF Fits
  <1>7. PICK w : /\ BufferWalk(w, r, payload, start, end)
                 /\ b = IF start = 0 \/ start >= Capacity THEN r
                        ELSE AddRange(w[SeqSpace].r, payload, start, w[SeqSpace].cursor, end)
    BY BufferedWalks, Zenon
  <1> HIDE DEF start, end, b
  <1>8. CASE start = 0 \/ start >= Capacity
    BY <1>7, <1>8, Zenon DEF SameRest, b, sequence
  <1>9. CASE ~ (start = 0 \/ start >= Capacity)
    <2>1. b = AddRange(w[SeqSpace].r, payload, start, w[SeqSpace].cursor, end)
      BY <1>7, <1>9, Zenon
    <2>2. Filling(w[SeqSpace], r, start, end, SeqSpace)
      BY <1>6, <1>7, WalkedBuffer, Zenon
    <2> DEFINE acc == w[SeqSpace]
    <2>3. Filling(acc, r, start, end, SeqSpace)
          /\ b = AddRange(acc.r, payload, start, acc.cursor, end)
      BY <2>1, <2>2, Zenon
    <2> HIDE DEF acc
    <2>4. Receiver(b) /\ SameRest(b, r)
      BY <1>6, <2>3, LastAdded
    <2> QED
      BY <2>4, Zenon DEF b, sequence
  <1> QED
    BY <1>8, <1>9
-----------------------------------------------------------------------------
(* drainTCPOutOfOrder.                                                     *)

LEMMA ConcatStands ==
  ASSUME NEW p \in Nat, NEW a \in Seq(Bytes), Stands(a, p),
         NEW b \in Seq(Bytes), Stands(b, p + Len(a))
  PROVE  /\ a \o b \in Seq(Bytes) /\ Len(a \o b) = Len(a) + Len(b) /\ Stands(a \o b, p)
  <1> DEFINE c == a \o b
             m == Len(a)
             n == Len(b)
  <1>1. /\ c \in Seq(Bytes) /\ Len(c) = m + n /\ m \in Nat /\ n \in Nat
        /\ \A i \in 1 .. m + n : c[i] = IF i <= m THEN a[i] ELSE b[i - m]
    BY SMT
  <1>2. ASSUME NEW i \in 1 .. Len(c) PROVE c[i] = p + (i - 1)
    <2> HIDE DEF c, m, n
    <2>1. i \in 1 .. m + n /\ c[i] = IF i <= m THEN a[i] ELSE b[i - m]
      BY <1>1, Zenon
    <2>2. CASE i <= m
      <3>1. i \in 1 .. m
        BY <1>1, <2>1, <2>2, SMT
      <3>2. a[i] = p + (i - 1)
        BY <3>1, Zenon DEF Stands, m
      <3> QED
        BY <2>1, <2>2, <3>2, Zenon
    <2>3. CASE ~ (i <= m)
      <3> DEFINE j == i - m
      <3>1. j \in 1 .. n
        BY <1>1, <2>1, <2>3, SMT
      <3>2. b[j] = (p + m) + (j - 1)
        <4> HIDE DEF j
        <4> QED
          BY <3>1, Zenon DEF Stands, m, n
      <3>3. (p + m) + (j - 1) = p + (i - 1)
        BY <1>1, <2>1, SMT
      <3> QED
        BY <2>1, <2>3, <3>2, <3>3, Zenon
    <2> QED
      BY <2>2, <2>3
  <1> HIDE DEF c
  <1> QED
    BY <1>1, <1>2, Zenon DEF c, Stands

\* One number of the walk.
DrainStep(acc, r, expected, k) ==
  LET seq == (expected + (k - 1 - Half)) % SeqSpace
  IN IF seq \in DOMAIN r.ooo THEN Drained(acc, seq) ELSE acc

DrainWalk(w, r, expected, payload) ==
  /\ w[0] = [r |-> [r EXCEPT !.vmSeq = expected], out |-> payload, segments |-> 1]
  /\ \A k \in 1 .. SeqSpace : w[k] = DrainStep(w[k - 1], r, expected, k)

LEMMA AcceptedWalks ==
  ASSUME NEW r, NEW payload
  PROVE  \E w : /\ DrainWalk(w, r, (r.vmSeq + Len(payload)) % SeqSpace, payload)
                /\ Accepted(r, payload) = w[SeqSpace]
  <1> DEFINE expected == (r.vmSeq + Len(payload)) % SeqSpace
             first == [r |-> [r EXCEPT !.vmSeq = expected], out |-> payload, segments |-> 1]
             Step(acc, k) == DrainStep(acc, r, expected, k)
             Walks(w, n) == w = [k \in 0 .. n |-> IF k = 0 THEN first ELSE Step(w[k - 1], k)]
             Bad == {n \in Nat : ~ \E w : Walks(w, n)}
             walked == CHOOSE w : Walks(w, SeqSpace)
  <1>1. Accepted(r, payload) = walked[SeqSpace]
    BY Zenon DEF Accepted, DrainStep
  <1> HIDE DEF first, Step
  <1>2. ASSUME Bad # {} PROVE FALSE
    <2>1. PICK n \in Bad : \A m \in Bad : n <= m
      <3>1. Bad \in SUBSET Nat
        OBVIOUS
      <3> HIDE DEF Bad
      <3> QED
        BY <1>2, <3>1, LeastOf, Zenon
    <2>2. n \in Nat
      OBVIOUS
    <2>3. CASE n = 0
      <3> DEFINE f == [k \in 0 .. 0 |-> first]
      <3>1. \A k \in 0 .. 0 : k = 0
        BY SMT
      <3>2. \A k \in 0 .. 0 : f[k] = IF k = 0 THEN first ELSE Step(f[k - 1], k)
        BY <3>1, Zenon
      <3>3. Walks(f, 0)
        BY <3>2, Zenon
      <3> QED
        BY <2>3, <3>3, Zenon
    <2>4. CASE n # 0
      <3>1. n - 1 \in Nat /\ ~ (n <= n - 1) /\ n - 1 \in 0 .. n - 1
        BY <2>2, <2>4, SMT
      <3>2. PICK g : Walks(g, n - 1)
        BY <2>1, <3>1, Zenon
      <3> DEFINE f == [k \in 0 .. n |-> IF k = n THEN Step(g[n - 1], n) ELSE g[k]]
      <3>3. \A k \in 0 .. n - 1 : g[k] = IF k = 0 THEN first ELSE Step(g[k - 1], k)
        BY <3>2, Zenon
      <3>4. ASSUME NEW k \in 0 .. n
            PROVE  f[k] = IF k = 0 THEN first ELSE Step(f[k - 1], k)
        <4>1. CASE k = n
          <5>1. n - 1 \in 0 .. n /\ n - 1 # n
            BY <2>2, <2>4, SMT
          <5>2. f[n] = Step(g[n - 1], n) /\ f[n - 1] = g[n - 1]
            BY <4>1, <5>1, Zenon
          <5> HIDE DEF f
          <5> QED
            BY <2>4, <4>1, <5>2, Zenon
        <4>2. CASE k # n /\ k # 0
          <5>1. k \in 0 .. n - 1 /\ k - 1 \in 0 .. n /\ k - 1 # n
            BY <2>2, <4>2, SMT
          <5>2. f[k] = g[k] /\ f[k - 1] = g[k - 1]
            BY <4>2, <5>1, Zenon
          <5> HIDE DEF f
          <5> QED
            BY <3>3, <4>2, <5>1, <5>2, Zenon
        <4>3. CASE k # n /\ k = 0
          <5>1. k \in 0 .. n - 1
            BY <2>2, <2>4, <4>3, SMT
          <5>2. f[k] = g[k]
            BY <4>3, Zenon
          <5> HIDE DEF f
          <5> QED
            BY <3>3, <4>3, <5>1, <5>2, Zenon
        <4> QED
          BY <4>1, <4>2, <4>3
      <3>5. Walks(f, n)
        BY <3>4, Zenon
      <3> QED
        BY <3>5, Zenon
    <2> QED
      BY <2>3, <2>4
  <1>3. Walks(walked, SeqSpace)
    <2>1. SeqSpace \in Nat
      BY Constants
    <2> QED
      BY <1>2, <2>1, Zenon
  <1> HIDE DEF walked
  <1>4. \A k \in 0 .. SeqSpace :
          walked[k] = IF k = 0 THEN first ELSE Step(walked[k - 1], k)
    BY <1>3, Zenon
  <1>5. DrainWalk(walked, r, expected, payload)
    <2>1. 0 \in 0 .. SeqSpace /\ \A k \in 1 .. SeqSpace : k \in 0 .. SeqSpace /\ k # 0
      BY Constants, SMT
    <2> QED
      BY <1>4, <2>1, Zenon DEF DrainWalk, first, Step
  <1> QED
    BY <1>1, <1>5, Zenon

\* What the walk has taken out goes to the sink, up to what is expected next.
Handed(acc, r, t) ==
  /\ Fields(acc.r) /\ Buffer(acc.r) /\ acc.r.pending = r.pending /\ acc.r.flags = r.flags
  /\ t <= Expected(acc.r) /\ Expected(acc.r) <= StreamBytes
  /\ acc.out \in Seq(Bytes) /\ Expected(r) + Len(acc.out) = Expected(acc.r)
  /\ Stands(acc.out, Expected(r))
  /\ acc \in [r : {acc.r}, out : Seq(Bytes), segments : Nat \ {0}]

\* A range is left when the walk, at position n, has not come to it, or when it does
\* not connect with the bytes before it.
Left(acc, r, n) ==
  /\ \A seq \in DOMAIN acc.r.ooo :
       /\ seq \in DOMAIN r.ooo /\ acc.r.ooo[seq] = r.ooo[seq]
       /\ Position(seq) >= n \/ Position(seq) > Expected(acc.r)
  /\ \A seq \in DOMAIN r.ooo : Position(seq) >= n => seq \in DOMAIN acc.r.ooo

Draining(acc, r, t, n) == Handed(acc, r, t) /\ Left(acc, r, n)

\* Nothing begins at the position the walk is at.
LEMMA NothingMet ==
  ASSUME NEW r, Receiver(r), NEW t, NEW n \in Int, NEW acc, Draining(acc, r, t, n),
         \A seq \in DOMAIN acc.r.ooo : Position(seq) = n => Position(seq) > Expected(acc.r)
  PROVE  Draining(acc, r, t, n + 1)
  <1>1. ASSUME NEW seq \in DOMAIN acc.r.ooo
        PROVE  Position(seq) >= n + 1 \/ Position(seq) > Expected(acc.r)
    <2>1. seq \in DOMAIN r.ooo /\ (Position(seq) >= n \/ Position(seq) > Expected(acc.r))
      BY Zenon DEF Draining, Left
    <2>2. Position(seq) \in Nat
      BY <2>1, RangeIs, Zenon DEF Receiver, Buffer
    <2>3. Position(seq) = n => Position(seq) > Expected(acc.r)
      OBVIOUS
    <2> QED
      BY <2>1, <2>2, <2>3, SMT
  <1>2. ASSUME NEW seq \in DOMAIN r.ooo, Position(seq) >= n + 1 PROVE seq \in DOMAIN acc.r.ooo
    <2>1. Position(seq) \in Nat
      BY RangeIs, Zenon DEF Receiver, Buffer
    <2>2. Position(seq) >= n
      BY <1>2, <2>1, SMT
    <2> QED
      BY <2>2, Zenon DEF Draining, Left
  <1> QED
    BY <1>1, <1>2, Zenon DEF Draining, Left

\* One range of drainTCPOutOfOrder, which begins at the position the walk is at.
LEMMA DrainedKeeps ==
  ASSUME NEW r, Receiver(r), NEW t \in Nat, NEW n \in Int, NEW acc, Draining(acc, r, t, n),
         NEW met \in DOMAIN r.ooo, Position(met) = n
  PROVE  Draining(Drained(acc, met), r, t, n + 1)
  <1> DEFINE s == acc.r
             u == Expected(s)
             bytes == s.ooo[met]
             len == Len(bytes)
             consumed == Ahead(s.vmSeq, met)
             cut == Cut(s.ooo, met)
             count == s.oooBytes - len
             kept == [s EXCEPT !.ooo = cut, !.oooBytes = count]
             new == Drained(acc, met)
  <1>1. /\ Fields(s) /\ Buffer(s) /\ s.pending = r.pending /\ s.flags = r.flags
        /\ t <= u /\ u <= StreamBytes
        /\ acc.out \in Seq(Bytes) /\ Expected(r) + Len(acc.out) = u
        /\ Stands(acc.out, Expected(r))
        /\ acc \in [r : {acc.r}, out : Seq(Bytes), segments : Nat \ {0}]
    BY Zenon DEF Draining, Handed
  <1>2. /\ \A seq \in DOMAIN s.ooo :
             /\ seq \in DOMAIN r.ooo /\ s.ooo[seq] = r.ooo[seq]
             /\ Position(seq) >= n \/ Position(seq) > u
        /\ \A seq \in DOMAIN r.ooo : Position(seq) >= n => seq \in DOMAIN s.ooo
    BY Zenon DEF Draining, Left
  <1>3. met \in DOMAIN s.ooo
    <2>1. Position(met) >= n
      BY SMT
    <2> QED
      BY <1>2, <2>1, Zenon
  <1>4. /\ Stored(s.ooo) /\ s.oooBytes = Cardinality(Held(s.ooo))
        /\ met \in SeqNumbers /\ n \in Nat /\ bytes \in Seq(Bytes) /\ len \in Nat \ {0}
        /\ Stop(s.ooo, met) = n + len /\ Stop(s.ooo, met) <= StreamBytes
        /\ Stop(s.ooo, met) \in Nat /\ Stands(bytes, n)
    <2>1. Stored(s.ooo) /\ s.oooBytes = Cardinality(Held(s.ooo))
      BY <1>1, Zenon DEF Buffer
    <2> QED
      BY <1>3, <2>1, RangeIs, Zenon DEF Stop
  <1>5. /\ s.vmSeq \in SeqNumbers /\ u \in Nat /\ u < SeqSpace /\ s.oooBytes \in Int
        /\ u = Position(s.vmSeq) /\ s.pending \in 0 .. AckEvery - 1 /\ s.flags \in SUBSET Flags
    BY <1>1, FieldTypes, Zenon DEF Expected
  <1>6. (met # s.vmSeq /\ ~ SeqLessThan(met, s.vmSeq)) <=> n > u
    <2>1. SeqLessThan(met, s.vmSeq) <=> n < u
      <3>1. n - u < Half /\ u - n < Half
        <4>1. u \in Nat /\ u <= StreamBytes /\ n \in Nat /\ len \in Nat /\ n + len <= StreamBytes
          BY <1>1, <1>4, <1>5, Zenon
        <4> HIDE DEF u, len
        <4> QED
          BY <4>1, Constants, SMT
      <3> QED
        BY <1>4, <1>5, <3>1, Before, Zenon
    <2>2. met = s.vmSeq <=> n = u
      BY <1>4, <1>5, OnePosition, Zenon
    <2> HIDE DEF u
    <2> QED
      BY <1>4, <1>5, <2>1, <2>2, SMT
  <1>7. ASSUME NEW seq \in DOMAIN s.ooo, seq # met, ~ (n > u) PROVE Position(seq) >= n + 1
    <2>1. seq \in SeqNumbers /\ Position(seq) \in Nat
      BY <1>4, RangeIs
    <2>2. Position(seq) # n
      BY <1>4, <1>7, <2>1, OnePosition, Zenon
    <2>3. Position(seq) >= n \/ Position(seq) > u
      BY <1>2, Zenon
    <2> HIDE DEF u
    <2> QED
      BY <1>4, <1>5, <1>7, <2>1, <2>2, <2>3, SMT
  <1>8. /\ DOMAIN cut = DOMAIN s.ooo \ {met}
        /\ \A seq \in DOMAIN s.ooo \ {met} : cut[seq] = s.ooo[seq]
        /\ Stored(cut) /\ count = Cardinality(Held(cut)) /\ count \in Int
    <2>1. /\ DOMAIN cut = DOMAIN s.ooo \ {met}
          /\ \A seq \in DOMAIN s.ooo \ {met} : cut[seq] = s.ooo[seq]
      BY CutIs, Zenon
    <2>2. Stored(cut) /\ Cardinality(Held(cut)) = Cardinality(Held(s.ooo)) - len
      <3> DEFINE o == s.ooo
      <3>1. Stored(o) /\ met \in DOMAIN o
        BY <1>3, <1>4
      <3> HIDE DEF o
      <3>2. Stored(Cut(o, met)) /\ Cardinality(Held(Cut(o, met))) = Cardinality(Held(o)) - Len(o[met])
        BY <3>1, CutStored, Zenon
      <3> QED
        BY <3>2, Zenon DEF o
    <2>3. count \in Int
      BY <1>4, <1>5, SMTT(30)
    <2> HIDE DEF cut
    <2> QED
      BY <1>4, <2>1, <2>2, <2>3, Zenon
  <1>9. /\ kept.ooo = cut /\ kept.oooBytes = count /\ kept.vmSeq = s.vmSeq
        /\ kept.pending = s.pending /\ kept.flags = s.flags
        /\ kept \in [vmSeq : SeqNumbers, ooo : {cut}, oooBytes : Int,
                     pending : 0 .. AckEvery - 1, flags : SUBSET Flags]
    <2> HIDE DEF cut, count, s
    <2> QED
      BY <1>1, <1>8, Zenon DEF Fields
  <1>10. /\ n > u => new = acc
         /\ ~ (n > u) /\ consumed >= len => new = [acc EXCEPT !.r = kept]
         /\ ~ (n > u) /\ ~ (consumed >= len) =>
              new = [r |-> [kept EXCEPT !.vmSeq = (s.vmSeq + (len - consumed)) % SeqSpace],
                     out |-> acc.out \o SubSeq(bytes, consumed + 1, len),
                     segments |-> acc.segments + 1]
    <2> DEFINE there == RestrictDomain(s.ooo, LAMBDA x : x # met)
    <2>1. there = cut
      <3>1. {x \in DOMAIN s.ooo : x # met} = DOMAIN s.ooo \ {met}
        BY Zenon
      <3> QED
        BY <3>1, Zenon DEF RestrictDomain, Restrict, Cut
    <2>2. /\ n > u => new = acc
          /\ ~ (n > u) /\ consumed >= len =>
               new = [acc EXCEPT !.r = [s EXCEPT !.ooo = there, !.oooBytes = count]]
          /\ ~ (n > u) /\ ~ (consumed >= len) =>
               new = [r |-> [[s EXCEPT !.ooo = there, !.oooBytes = count]
                               EXCEPT !.vmSeq = ([s EXCEPT !.ooo = there, !.oooBytes = count].vmSeq
                                                  + (len - consumed)) % SeqSpace],
                      out |-> acc.out \o SubSeq(bytes, consumed + 1, len),
                      segments |-> acc.segments + 1]
      BY <1>6, Zenon DEF Drained
    <2> HIDE DEF there
    <2> QED
      BY <1>9, <2>1, <2>2, Zenon
  <1> HIDE DEF new, kept, cut, count
  <1>11. CASE n > u
    <2>1. \A seq \in DOMAIN acc.r.ooo : Position(seq) = n => Position(seq) > Expected(acc.r)
      BY <1>11, Zenon
    <2>2. Draining(acc, r, t, n + 1)
      BY <2>1, NothingMet
    <2> QED
      BY <1>10, <1>11, <2>2, Zenon DEF new
  <1>12. ~ (n > u) => consumed = u - n
    <2>1. consumed = IF u >= n THEN u - n ELSE u - n + SeqSpace
      BY <1>4, <1>5, AheadPositions, Zenon
    <2> HIDE DEF consumed, u
    <2> QED
      BY <1>4, <1>5, <2>1, SMT
  <1>13. ASSUME ~ (n > u), NEW x, DOMAIN x = DOMAIN cut, \A seq \in DOMAIN cut : x[seq] = cut[seq]
         PROVE  /\ \A seq \in DOMAIN x : /\ seq \in DOMAIN r.ooo /\ x[seq] = r.ooo[seq]
                                         /\ Position(seq) >= n + 1
                /\ \A seq \in DOMAIN r.ooo : Position(seq) >= n + 1 => seq \in DOMAIN x
    <2>1. ASSUME NEW seq \in DOMAIN r.ooo, Position(seq) >= n + 1 PROVE seq \in DOMAIN x
      <3>1. Position(seq) \in Nat
        BY RangeIs, Zenon DEF Receiver, Buffer
      <3>2. Position(seq) >= n /\ Position(seq) # n
        BY <2>1, <3>1, SMT
      <3> QED
        BY <1>2, <1>8, <1>13, <3>2, Zenon
    <2>2. ASSUME NEW seq \in DOMAIN x
          PROVE  seq \in DOMAIN r.ooo /\ x[seq] = r.ooo[seq] /\ Position(seq) >= n + 1
      <3>1. seq \in DOMAIN s.ooo /\ seq # met /\ x[seq] = s.ooo[seq]
        BY <1>8, <1>13, Zenon
      <3> QED
        BY <1>2, <1>7, <1>13, <3>1, Zenon
    <2> QED
      BY <2>1, <2>2, Zenon
  <1>14. CASE ~ (n > u) /\ consumed >= len
    <2>1. new = [acc EXCEPT !.r = kept]
      BY <1>10, <1>14, Zenon
    <2>2. /\ new.r = kept /\ new.out = acc.out /\ new.segments = acc.segments
          /\ new \in [r : {kept}, out : Seq(Bytes), segments : Nat \ {0}]
      BY <1>1, <2>1, Zenon
    <2>3. Fields(kept) /\ Buffer(kept) /\ Expected(kept) = u
      BY <1>8, <1>9, Zenon DEF Fields, Buffer, Expected
    <2>4. Handed(new, r, t)
      BY <1>1, <1>9, <2>2, <2>3, Zenon DEF Handed
    <2>5. Left(new, r, n + 1)
      BY <1>9, <1>13, <1>14, <2>2, Zenon DEF Left
    <2> QED
      BY <2>4, <2>5, Zenon DEF Draining, new
  <1>15. CASE ~ (n > u) /\ ~ (consumed >= len)
    <2> DEFINE m == (s.vmSeq + (len - consumed)) % SeqSpace
               on == [kept EXCEPT !.vmSeq = m]
               rest == SubSeq(bytes, consumed + 1, len)
    <2>1. /\ consumed \in Nat /\ consumed < len /\ consumed = u - n /\ n <= u
          /\ u + (len - consumed) = n + len
          /\ u + (len - consumed) \in SeqNumbers /\ n + len <= StreamBytes
          /\ len - consumed \in -SeqSpace .. SeqSpace /\ len - consumed \in Nat
      <3>1. n + len <= StreamBytes
        BY <1>4, Zenon
      <3>2. consumed = u - n /\ ~ (consumed >= len) /\ ~ (n > u)
        BY <1>12, <1>15
      <3>3. len \in Nat /\ n \in Nat /\ u \in Nat
        BY <1>4, <1>5
      <3> HIDE DEF consumed, len, u
      <3> QED
        BY <3>1, <3>2, <3>3, Constants, SMT
    <2>2. m \in SeqNumbers /\ Position(m) = n + len
      <3>1. m \in SeqNumbers /\ Position(m) = Position(s.vmSeq) + (len - consumed)
        BY <1>5, <2>1, Onward, Zenon
      <3> QED
        BY <1>5, <2>1, <3>1, Zenon
    <2>3. /\ rest \in Seq(Bytes) /\ Len(rest) = len - consumed /\ Stands(rest, u)
      <3> DEFINE c == consumed + 1
      <3>1. /\ c \in Nat \ {0} /\ len \in Nat /\ c <= len + 1 /\ len <= Len(bytes)
            /\ n + (c - 1) = u /\ len - c + 1 = len - consumed
        <4> DEFINE l == len
        <4>1. l \in Nat /\ n \in Nat /\ u \in Nat /\ consumed \in Nat /\ consumed < l
              /\ consumed = u - n /\ n <= u
          BY <1>4, <1>5, <2>1
        <4> HIDE DEF l, consumed, u
        <4>2. /\ c \in Nat \ {0} /\ c <= l + 1 /\ l <= l
              /\ n + (c - 1) = u /\ l - c + 1 = l - consumed
          BY <4>1, SMT
        <4> QED
          BY <4>1, <4>2 DEF l
      <3> HIDE DEF c
      <3>2. /\ SubSeq(bytes, c, len) \in Seq(Bytes)
            /\ Len(SubSeq(bytes, c, len)) = len - c + 1
            /\ Stands(SubSeq(bytes, c, len), n + (c - 1))
        <4> DEFINE b == bytes
                   l == len
        <4>1. b \in Seq(Bytes) /\ Stands(b, n) /\ l \in Nat /\ c <= l + 1 /\ l <= Len(b)
          BY <1>4, <3>1
        <4> HIDE DEF b, l
        <4>2. /\ SubSeq(b, c, l) \in Seq(Bytes)
              /\ Len(SubSeq(b, c, l)) = l - c + 1
              /\ Stands(SubSeq(b, c, l), n + (c - 1))
          <5>1. n \in Nat /\ c \in Nat \ {0}
            BY <1>4, <3>1
          <5>2. b \in Seq(Bytes)
            BY <4>1
          <5>3. Stands(b, n)
            BY <4>1
          <5>4. l \in Nat /\ c <= l + 1 /\ l <= Len(b)
            BY <4>1
          <5> QED
            BY <5>1, <5>2, <5>3, <5>4, SubSeqStands
        <4> QED
          BY <4>2 DEF b, l
      <3> QED
        BY <3>1, <3>2, Zenon DEF c
    <2> HIDE DEF m, rest
    <2>4. new = [r |-> on, out |-> acc.out \o rest, segments |-> acc.segments + 1]
      BY <1>10, <1>15, Zenon DEF m, rest
    <2>5. /\ on.ooo = cut /\ on.oooBytes = count /\ on.vmSeq = m
          /\ on.pending = s.pending /\ on.flags = s.flags
          /\ on \in [vmSeq : SeqNumbers, ooo : {cut}, oooBytes : Int,
                      pending : 0 .. AckEvery - 1, flags : SUBSET Flags]
      BY <1>9, <2>2, Zenon
    <2> HIDE DEF on
    <2>6. Fields(on) /\ Buffer(on) /\ Expected(on) = n + len
      BY <1>8, <2>2, <2>5, Zenon DEF Fields, Buffer, Expected
    <2>7. /\ acc.out \o rest \in Seq(Bytes) /\ Len(acc.out \o rest) = Len(acc.out) + (len - consumed)
          /\ Stands(acc.out \o rest, Expected(r))
      <3>1. Expected(r) \in Nat
        BY FieldTypes, Zenon DEF Receiver
      <3>2. Stands(rest, Expected(r) + Len(acc.out))
        BY <1>1, <2>3, Zenon
      <3> DEFINE a == acc.out
                 e == Expected(r)
      <3>3. a \in Seq(Bytes) /\ Stands(a, e) /\ e \in Nat /\ Stands(rest, e + Len(a))
        BY <1>1, <3>1, <3>2, Zenon
      <3> HIDE DEF a, e
      <3>4. /\ a \o rest \in Seq(Bytes) /\ Len(a \o rest) = Len(a) + Len(rest)
            /\ Stands(a \o rest, e)
        BY <2>3, <3>3, ConcatStands, Zenon
      <3> QED
        BY <2>3, <3>4, Zenon DEF a, e
    <2>8. Expected(r) + Len(acc.out \o rest) = n + len /\ t <= n + len
      <3> DEFINE l == Len(acc.out)
                 e == Expected(r)
                 d == len - consumed
      <3>1. /\ l \in Nat /\ e \in Nat /\ d \in Nat /\ e + l = u /\ u + d = n + len /\ t <= u
            /\ u \in Nat
        <4>1. l \in Nat
          BY <1>1, SMT
        <4> QED
          BY <1>1, <1>5, <2>1, <4>1, FieldTypes, Zenon DEF Receiver
      <3> HIDE DEF l, e, d, u
      <3>2. e + (l + d) = u + d /\ t <= u + d
        BY <3>1, SMT
      <3> QED
        BY <2>7, <3>1, <3>2, Zenon DEF l, e, d
    <2>9. /\ new.r = on /\ new.out = acc.out \o rest /\ new.segments = acc.segments + 1
          /\ new \in [r : {on}, out : Seq(Bytes), segments : Nat \ {0}]
      <3> DEFINE out == acc.out \o rest
                 more == acc.segments + 1
      <3>1. out \in Seq(Bytes) /\ more \in Nat \ {0}
        <4>1. acc.segments \in Nat
          BY <1>1
        <4> QED
          BY <2>7, <4>1, SMT
      <3>2. new = [r |-> on, out |-> out, segments |-> more]
        BY <2>4
      <3> HIDE DEF out, more
      <3>3. /\ new.r = on /\ new.out = out /\ new.segments = more
            /\ new \in [r : {on}, out : Seq(Bytes), segments : Nat \ {0}]
        BY <3>1, <3>2, Zenon
      <3> QED
        BY <3>3, Zenon DEF out, more
    <2>10. Handed(new, r, t)
      BY <1>1, <2>1, <2>5, <2>6, <2>7, <2>8, <2>9, Zenon DEF Handed
    <2>11. Left(new, r, n + 1)
      BY <1>13, <1>15, <2>5, <2>9, Zenon DEF Left
    <2> QED
      BY <2>10, <2>11, Zenon DEF Draining, new
  <1> QED
    BY <1>11, <1>14, <1>15

LEMMA WalkedDrain ==
  ASSUME NEW r, Receiver(r), NEW payload \in Seq(Bytes), Stands(payload, Expected(r)),
         NEW t \in Nat, t = Expected(r) + Len(payload), t <= StreamBytes,
         NEW w, DrainWalk(w, r, NumberOf(t), payload)
  PROVE  Draining(w[SeqSpace], r, t, t + Half)
  <1> DEFINE expected == NumberOf(t)
             v == Expected(r)
             At(k) == t + (k - Half)
             Bad == {k \in 0 .. SeqSpace : ~ Draining(w[k], r, t, At(k))}
  <1>1. expected \in SeqNumbers /\ Position(expected) = t
    <2>1. t \in SeqNumbers
      BY Constants, SMT
    <2> QED
      BY <2>1, NumberIs, Zenon
  <1>2. /\ Fields(r) /\ Buffer(r) /\ Stored(r.ooo) /\ v \in Nat
    BY FieldTypes, Zenon DEF Receiver, Buffer
  <1> HIDE DEF expected
  <1>3. Draining(w[0], r, t, At(0))
    <2> DEFINE first == w[0]
               s == [r EXCEPT !.vmSeq = expected]
    <2>1. first = [r |-> s, out |-> payload, segments |-> 1]
      BY Zenon DEF DrainWalk, expected
    <2>2. /\ s.ooo = r.ooo /\ s.oooBytes = r.oooBytes /\ s.vmSeq = expected
          /\ s.pending = r.pending /\ s.flags = r.flags
          /\ s \in [vmSeq : SeqNumbers, ooo : {r.ooo}, oooBytes : Int,
                    pending : 0 .. AckEvery - 1, flags : SUBSET Flags]
      BY <1>1, <1>2, Zenon DEF Fields
    <2> HIDE DEF first, s
    <2>3. /\ first.r = s /\ first.out = payload
          /\ first \in [r : {s}, out : Seq(Bytes), segments : Nat \ {0}]
      <3>1. 1 \in Nat \ {0}
        BY SMT
      <3> QED
        BY <2>1, <3>1, Zenon
    <2>4. Fields(s) /\ Buffer(s) /\ Expected(s) = t
      BY <1>1, <1>2, <2>2, Zenon DEF Fields, Buffer, Expected
    <2>5. Handed(first, r, t)
      <3>1. t <= t
        BY SMT
      <3> QED
        BY <2>2, <2>3, <2>4, <3>1, Zenon DEF Handed
    <2>6. Left(first, r, At(0))
      <3>1. ASSUME NEW seq \in DOMAIN r.ooo PROVE Position(seq) >= At(0)
        <4>1. Position(seq) \in Nat
          BY <1>2, RangeIs
        <4> QED
          BY <4>1, Constants, SMT
      <3> QED
        BY <2>2, <2>3, <3>1, Zenon DEF Left
    <2> QED
      BY <2>5, <2>6, Zenon DEF Draining, first
  <1>4. ASSUME NEW n \in 1 .. SeqSpace, Draining(w[n - 1], r, t, At(n - 1))
        PROVE  Draining(w[n], r, t, At(n))
    <2> DEFINE j == n - 1 - Half
               met == (expected + j) % SeqSpace
               acc == w[n - 1]
               at == At(n - 1)
    <2>1. /\ j \in -SeqSpace .. SeqSpace /\ t + j = at /\ at + 1 = At(n) /\ at \in Int
          /\ t + j < SeqSpace /\ -Half <= t + j
      BY Constants, SMT
    <2>2. w[n] = IF met \in DOMAIN r.ooo THEN Drained(acc, met) ELSE acc
      BY Zenon DEF DrainWalk, DrainStep, expected
    <2> HIDE DEF At, j, acc, at
    <2>3. /\ t + j \in SeqNumbers => met \in SeqNumbers /\ Position(met) = t + j
          /\ t + j + SeqSpace \in SeqNumbers
               => met \in SeqNumbers /\ Position(met) = t + j + SeqSpace
      <3>1. \A x \in -SeqSpace .. SeqSpace :
              /\ Position(expected) + x \in SeqNumbers
                   => /\ (expected + x) % SeqSpace \in SeqNumbers
                      /\ Position((expected + x) % SeqSpace) = Position(expected) + x
              /\ Position(expected) + x + SeqSpace \in SeqNumbers
                   => /\ (expected + x) % SeqSpace \in SeqNumbers
                      /\ Position((expected + x) % SeqSpace) = Position(expected) + x + SeqSpace
        BY <1>1, Onward, Zenon
      <3> QED
        BY <1>1, <2>1, <3>1, Zenon
    <2> HIDE DEF met
    <2>4. t + j \in SeqNumbers \/ t + j + SeqSpace \in SeqNumbers
      BY <2>1, Constants, SMTT(30) DEF at
    <2>5. ASSUME NEW seq \in DOMAIN r.ooo
          PROVE  /\ seq \in SeqNumbers /\ Position(seq) \in Nat /\ Position(seq) < StreamBytes
                 /\ Position(seq) # t + j + SeqSpace
      <3>1. /\ seq \in SeqNumbers /\ Position(seq) \in Nat /\ Stop(r.ooo, seq) \in Nat
            /\ Stop(r.ooo, seq) <= StreamBytes /\ Position(seq) < Stop(r.ooo, seq)
        BY <1>2, RangeIs
      <3>2. Position(seq) < StreamBytes
        BY <3>1, Constants, SMT
      <3>3. Position(seq) # t + j + SeqSpace
        BY <2>1, <3>1, <3>2, Constants, SMTT(30)
      <3> QED
        BY <3>1, <3>2, <3>3
    <2>6. CASE met \in DOMAIN r.ooo
      <3>1. Position(met) = at
        BY <2>1, <2>3, <2>4, <2>5, <2>6, Zenon
      <3>2. Draining(acc, r, t, at)
        BY <1>4 DEF acc, at
      <3>3. Draining(Drained(acc, met), r, t, at + 1)
        BY <2>1, <2>6, <3>1, <3>2, DrainedKeeps
      <3> QED
        BY <2>1, <2>2, <2>6, <3>3, Zenon
    <2>7. CASE met \notin DOMAIN r.ooo
      <3>1. Draining(acc, r, t, at)
        BY <1>4 DEF acc, at
      <3>2. ASSUME NEW seq \in DOMAIN acc.r.ooo PROVE Position(seq) # at
        <4>1. seq \in DOMAIN r.ooo
          BY <3>1, Zenon DEF Draining, Left
        <4>2. seq \in SeqNumbers /\ Position(seq) \in Nat /\ Position(seq) < SeqSpace
          BY <2>5, <4>1, Constants, SMT
        <4>3. seq # met
          BY <2>7, <4>1
        <4>4. ASSUME Position(seq) = t + j PROVE FALSE
          <5>1. t + j \in SeqNumbers
            BY <4>2, <4>4, Constants, SMT
          <5> QED
            BY <2>3, <4>2, <4>3, <4>4, <5>1, OnePosition, Zenon
        <4> QED
          BY <2>1, <4>4, Zenon
      <3>3. Draining(acc, r, t, at + 1)
        BY <2>1, <3>1, <3>2, NothingMet
      <3> QED
        BY <2>1, <2>2, <2>7, <3>3, Zenon
    <2> QED
      BY <2>6, <2>7
  <1>5. ASSUME Bad # {} PROVE FALSE
    <2>1. PICK n \in Bad : \A m \in Bad : n <= m
      <3>1. Bad \in SUBSET Nat
        BY SMT
      <3> HIDE DEF Bad
      <3> QED
        BY <1>5, <3>1, LeastOf, Zenon
    <2>2. n \in 0 .. SeqSpace /\ ~ Draining(w[n], r, t, At(n))
      OBVIOUS
    <2> HIDE DEF At
    <2>3. n # 0
      BY <1>3, <2>2, Zenon
    <2>4. n \in 1 .. SeqSpace /\ n - 1 \in 0 .. SeqSpace /\ ~ (n <= n - 1)
      BY <2>2, <2>3, Constants, SMT
    <2>5. Draining(w[n - 1], r, t, At(n - 1))
      BY <2>1, <2>4, Zenon
    <2> QED
      BY <1>4, <2>2, <2>4, <2>5, Zenon
  <1>6. SeqSpace \in 0 .. SeqSpace /\ At(SeqSpace) = t + Half
    BY Constants, SMT
  <1> HIDE DEF At
  <1> QED
    BY <1>5, <1>6, Zenon

LEMMA AcceptedKeeps ==
  ASSUME NEW r, Receiver(r), NEW payload \in Seq(Bytes), Stands(payload, Expected(r)),
         NEW t \in Nat, t = Expected(r) + Len(payload), t <= StreamBytes
  PROVE  Handed(Accepted(r, payload), r, t) /\ Receiver(Accepted(r, payload).r)
  <1> DEFINE a == Accepted(r, payload)
             v == Expected(r)
             len == Len(payload)
  <1>1. /\ r.vmSeq \in SeqNumbers /\ v \in Nat /\ v < SeqSpace /\ v = Position(r.vmSeq)
        /\ Buffer(r)
    BY FieldTypes, Zenon DEF Receiver, Expected
  <1>2. len \in Nat
    BY SMT
  <1>3. (r.vmSeq + len) % SeqSpace = NumberOf(t)
    <2>1. t = v + len
      OBVIOUS
    <2> HIDE DEF v, len
    <2>2. v + len \in SeqNumbers /\ len \in -SeqSpace .. SeqSpace
      BY <1>1, <1>2, <2>1, Constants, SMT
    <2>3. \A x \in -SeqSpace .. SeqSpace :
            Position(r.vmSeq) + x \in SeqNumbers
              => (r.vmSeq + x) % SeqSpace = NumberOf(Position(r.vmSeq) + x)
      BY <1>1, Onward, Zenon
    <2> QED
      BY <1>1, <2>1, <2>2, <2>3, Zenon
  <1>4. PICK w : DrainWalk(w, r, NumberOf(t), payload) /\ a = w[SeqSpace]
    BY <1>3, AcceptedWalks, Zenon
  <1>5. Draining(w[SeqSpace], r, t, t + Half)
    BY <1>4, WalkedDrain
  <1>6. Draining(a, r, t, t + Half)
    BY <1>4, <1>5, Zenon
  <1> HIDE DEF a
  <1>7. Handed(a, r, t) /\ Fields(a.r) /\ Buffer(a.r) /\ t <= Expected(a.r)
    BY <1>6, Zenon DEF Draining, Handed
  <1>8. ASSUME NEW seq \in DOMAIN a.r.ooo
        PROVE  /\ Expected(a.r) < Position(seq)
               /\ Stop(a.r.ooo, seq) <= Expected(a.r) + Capacity
    <2>1. /\ seq \in DOMAIN r.ooo /\ a.r.ooo[seq] = r.ooo[seq]
          /\ Position(seq) >= t + Half \/ Position(seq) > Expected(a.r)
      BY <1>6, Zenon DEF Draining, Left
    <2>2. /\ Position(seq) \in Nat /\ Stop(r.ooo, seq) \in Nat
          /\ Stop(r.ooo, seq) <= StreamBytes /\ Position(seq) < Stop(r.ooo, seq)
      BY <1>1, <2>1, RangeIs, Zenon DEF Buffer
    <2>3. Expected(a.r) \in Nat
      BY <1>7, FieldTypes
    <2>4. ~ (Position(seq) >= t + Half)
      BY <2>2, Constants, SMT
    <2>5. Stop(a.r.ooo, seq) = Stop(r.ooo, seq)
      BY <2>1, Zenon DEF Stop
    <2>6. Stop(r.ooo, seq) <= v + Capacity
      BY <2>1, Zenon DEF Receiver, Beyond
    <2>7. v <= Expected(a.r)
      <3>1. t = v + len
        OBVIOUS
      <3> HIDE DEF v, len
      <3> QED
        BY <1>1, <1>2, <1>7, <2>3, <3>1, SMT
    <2>8. Stop(a.r.ooo, seq) <= Expected(a.r) + Capacity
      <3> HIDE DEF v
      <3> QED
        BY <1>1, <2>2, <2>3, <2>5, <2>6, <2>7, CapacityIs, SMTT(30)
    <2>9. Expected(a.r) < Position(seq)
      BY <2>1, <2>2, <2>3, <2>4, SMT
    <2> QED
      BY <2>8, <2>9
  <1>9. Receiver(a.r)
    BY <1>7, <1>8, Zenon DEF Receiver, Beyond
  <1> QED
    BY <1>7, <1>9, Zenon DEF a
-----------------------------------------------------------------------------
(* The inductive invariant.                                                *)

\* What was taken is a part of the stream, and FIN comes behind all of it.
Receiving(r) ==
  /\ Receiver(r)
  /\ Expected(r) <= StreamBytes + 1
  /\ "peerFin" \in r.flags <=> Expected(r) = StreamBytes + 1

\* The sink has what was taken, from the first byte on.
Delivered(s, r) ==
  /\ s \in [written : Seq(Bytes), flags : SUBSET {"ended", "unwritable"}]
  /\ Stands(s.written, 0)
  /\ "ended" \in s.flags => "peerFin" \in r.flags
  /\ "unwritable" \notin s.flags =>
       Len(s.written) = IF "peerFin" \in r.flags THEN StreamBytes ELSE Expected(r)

\* What the VM was told is true, or will be put right.
Told(m, r) ==
  /\ m \in [ack : SeqNumbers, window : 0 .. FieldMax]
  /\ Position(m.ack) <= StreamBytes + 1
  /\ m.ack # r.vmSeq => r.pending > 0 /\ "timer" \in r.flags
  /\ m.window = 0 <=> "backpressured" \in r.flags

IInv ==
  /\ Receiving(rx) /\ Delivered(sink, rx) /\ Told(told, rx)
  /\ una \in 0 .. StreamBytes + 1

\* The fields that acknowledging changes are not those of the buffer.
Marked(r, p, f) == [r EXCEPT !.pending = p, !.flags = f]

Marks(r, p, f) ==
  /\ p \in 0 .. AckEvery - 1 /\ f \in SUBSET Flags
  /\ "peerFin" \in f <=> "peerFin" \in r.flags

LEMMA AckFields ==
  ASSUME NEW r, Receiving(r), NEW p, NEW f, Marks(r, p, f)
  PROVE  /\ Receiving(Marked(r, p, f))
         /\ Marked(r, p, f).pending = p /\ Marked(r, p, f).flags = f
         /\ Marked(r, p, f).vmSeq = r.vmSeq /\ Expected(Marked(r, p, f)) = Expected(r)
  <1> DEFINE q == Marked(r, p, f)
  <1>0. q = [r EXCEPT !.pending = p, !.flags = f]
    BY DEF Marked
  <1> HIDE DEF q
  <1>1. /\ Fields(r) /\ Buffer(r) /\ Beyond(r) /\ Expected(r) <= StreamBytes + 1
        /\ "peerFin" \in r.flags <=> Expected(r) = StreamBytes + 1
        /\ p \in 0 .. AckEvery - 1 /\ f \in SUBSET Flags
        /\ "peerFin" \in f <=> "peerFin" \in r.flags
    BY Zenon DEF Receiving, Receiver, Marks
  <1>2. /\ q.pending = p /\ q.flags = f /\ q.vmSeq = r.vmSeq
        /\ q.ooo = r.ooo /\ q.oooBytes = r.oooBytes
        /\ q \in [vmSeq : SeqNumbers, ooo : {r.ooo}, oooBytes : Int,
                  pending : 0 .. AckEvery - 1, flags : SUBSET Flags]
    BY <1>0, <1>1, Zenon DEF Fields
  <1>3. Expected(q) = Expected(r)
    BY <1>2, Zenon DEF Expected
  <1>4. Fields(q) /\ Buffer(q) /\ Beyond(q)
    BY <1>1, <1>2, <1>3, Zenon DEF Fields, Buffer, Beyond
  <1> QED
    BY <1>1, <1>2, <1>3, <1>4, Zenon DEF Receiving, Receiver, q

\* Bytes out of order never close the window: they are beyond the next byte.
LEMMA WindowOpen ==
  ASSUME NEW r, Receiver(r)
  PROVE  /\ ReceiveWindow(r) \in 0 .. FieldMax
         /\ ReceiveWindow(r) = 0 <=> "backpressured" \in r.flags
  <1> DEFINE v == Expected(r)
             held == Held(r.ooo)
             n == Window - r.oooBytes
  <1>1. v \in Nat /\ r.oooBytes \in Int /\ Stored(r.ooo) /\ r.oooBytes = Cardinality(held)
    BY FieldTypes, Zenon DEF Receiver, Buffer
  <1>2. r.oooBytes < Capacity
    <2> DEFINE from == v + 1
               size == Capacity - 1
               window == from .. from + size - 1
    <2>1. from \in Int /\ size \in Nat
      BY <1>1, CapacityIs, SMT
    <2>2. IsFiniteSet(window) /\ Cardinality(window) = size
      <3> HIDE DEF from, size
      <3> QED
        BY <2>1, IntervalSize, Zenon
    <2>3. ASSUME NEW x \in held PROVE x \in window
      <3>1. PICK seq \in DOMAIN r.ooo : x \in Position(seq) .. Stop(r.ooo, seq) - 1
        BY Zenon DEF Held
      <3>2. /\ v < Position(seq) /\ Stop(r.ooo, seq) <= v + Capacity
        BY Zenon DEF Receiver, Beyond
      <3>3. Position(seq) \in Nat /\ Stop(r.ooo, seq) \in Nat
        BY <1>1, RangeIs
      <3> HIDE DEF v
      <3> QED
        BY <1>1, <3>1, <3>2, <3>3, CapacityIs, SMT
    <2> HIDE DEF held, window, size
    <2>4. held \in SUBSET window
      BY <2>3
    <2>5. Cardinality(held) <= size
      BY <2>2, <2>4, FS_Subset, Zenon
    <2> QED
      BY <1>1, <2>1, <2>5, CapacityIs, SMT DEF size
  <1>3. n \in Int /\ n > 0
    BY <1>1, <1>2, CapacityIs, Constants, SMT
  <1> HIDE DEF n
  <1> DEFINE m == Min({FieldMax, n})
  <1>4. m = IF FieldMax <= n THEN FieldMax ELSE n
    BY <1>3, MinOfTwo, Constants
  <1> HIDE DEF m
  <1>5. m \in 0 .. FieldMax /\ m > 0
    BY <1>3, <1>4, Constants, SMT
  <1>6. Max({0, m}) = m
    BY <1>5, MaxOfTwo, SMT
  <1>7. ReceiveWindow(r) = IF "backpressured" \in r.flags THEN 0 ELSE m
    BY <1>6, Zenon DEF ReceiveWindow, n, m
  <1> QED
    BY <1>5, <1>7, Constants, SMT

LEMMA AckNowKeeps ==
  ASSUME NEW r, Receiving(r), AckNow(r)
  PROVE  /\ Receiving(rx') /\ Told(told', rx')
         /\ Expected(rx') = Expected(r) /\ rx'.flags = r.flags \ {"timer"}
  <1> DEFINE f == r.flags \ {"timer"}
             q == Marked(r, 0, f)
  <1>1. 0 \in 0 .. AckEvery - 1
    BY Constants, SMT
  <1>2. r.flags \subseteq Flags /\ r.vmSeq \in SeqNumbers
    BY FieldTypes, Zenon DEF Receiving, Receiver
  <1>3. f \in SUBSET Flags /\ ("peerFin" \in f <=> "peerFin" \in r.flags)
        /\ ("backpressured" \in f <=> "backpressured" \in r.flags)
    BY <1>2
  <1>4. rx' = q
    BY Zenon DEF AckNow, Marked
  <1> HIDE DEF f
  <1>5. /\ Receiving(q) /\ q.flags = f /\ q.vmSeq = r.vmSeq /\ Expected(q) = Expected(r)
    <2>1. Marks(r, 0, f)
      BY <1>1, <1>3, Zenon DEF Marks
    <2> QED
      BY <2>1, AckFields
  <1> HIDE DEF q
  <1>6. told' = [ack |-> r.vmSeq, window |-> ReceiveWindow(r)]
    BY Zenon DEF AckNow, Announce
  <1>7. /\ ReceiveWindow(r) \in 0 .. FieldMax
        /\ ReceiveWindow(r) = 0 <=> "backpressured" \in r.flags
    BY WindowOpen, Zenon DEF Receiving
  <1>8. /\ told' \in [ack : SeqNumbers, window : 0 .. FieldMax]
        /\ told'.ack = r.vmSeq /\ told'.window = ReceiveWindow(r)
    <2> DEFINE m == told'
    <2>1. m = [ack |-> r.vmSeq, window |-> ReceiveWindow(r)]
      BY <1>6
    <2> HIDE DEF m
    <2>2. m \in [ack : SeqNumbers, window : 0 .. FieldMax]
          /\ m.ack = r.vmSeq /\ m.window = ReceiveWindow(r)
      BY <1>2, <1>7, <2>1, Zenon
    <2> QED
      BY <2>2 DEF m
  <1>9. Position(r.vmSeq) <= StreamBytes + 1
    BY Zenon DEF Receiving, Expected
  <1>10. Told(told', q)
    BY <1>3, <1>5, <1>7, <1>8, <1>9, Zenon DEF Told
  <1> QED
    BY <1>4, <1>5, <1>10, Zenon DEF f

LEMMA ScheduleAckKeeps ==
  ASSUME NEW r, Receiving(r), NEW segments \in Nat \ {0}, ScheduleAck(r, segments),
         told \in [ack : SeqNumbers, window : 0 .. FieldMax],
         Position(told.ack) <= StreamBytes + 1,
         told.window = 0 => "backpressured" \in r.flags
  PROVE  /\ Receiving(rx') /\ Told(told', rx') /\ Expected(rx') = Expected(r)
         /\ "peerFin" \in rx'.flags <=> "peerFin" \in r.flags
  <1>1. CASE r.pending + segments >= AckEvery \/ ReceiveWindow(r) = 0
    <2>1. AckNow(r)
      BY <1>1, Zenon DEF ScheduleAck
    <2> QED
      BY <2>1, AckNowKeeps
  <1>2. CASE ~ (r.pending + segments >= AckEvery \/ ReceiveWindow(r) = 0)
    <2> DEFINE f == r.flags \cup {"timer"}
               p == r.pending + segments
               q == Marked(r, p, f)
    <2>1. rx' = q /\ told' = told
      BY <1>2, Zenon DEF ScheduleAck, Marked
    <2>2. r.flags \subseteq Flags /\ r.pending \in 0 .. AckEvery - 1
      BY FieldTypes, Zenon DEF Receiving, Receiver
    <2>3. p \in 0 .. AckEvery - 1 /\ p > 0
      BY <1>2, <2>2, Constants, SMT
    <2>4. f \in SUBSET Flags /\ ("peerFin" \in f <=> "peerFin" \in r.flags)
          /\ ("backpressured" \in r.flags <=> "backpressured" \in f) /\ "timer" \in f
      BY <2>2 DEF Flags
    <2>7. ReceiveWindow(r) # 0 /\ "backpressured" \notin r.flags /\ told.window # 0
      BY <1>2, WindowOpen, Zenon DEF Receiving
    <2> HIDE DEF f, p
    <2>5. /\ Receiving(q) /\ q.pending = p /\ q.flags = f /\ Expected(q) = Expected(r)
      <3>1. Marks(r, p, f)
        BY <2>3, <2>4, Zenon DEF Marks
      <3> QED
        BY <3>1, AckFields
    <2> HIDE DEF q
    <2>6. Told(told, q)
      BY <2>3, <2>4, <2>5, <2>7, Zenon DEF Told
    <2> QED
      BY <2>1, <2>4, <2>5, <2>6, Zenon
  <1> QED
    BY <1>1, <1>2
-----------------------------------------------------------------------------
(* The actions.                                                            *)

LEMMA SegmentIs ==
  ASSUME NEW s \in VmSegments
  PROVE  /\ s.from \in Nat /\ s.to \in Nat /\ s.from <= s.to /\ s.to <= StreamBytes
         /\ s.from = s.to => s.fin
         /\ s.fin => s.to = StreamBytes
  <1>1. s \in [from : 0 .. StreamBytes, to : 0 .. StreamBytes, fin : BOOLEAN]
    BY Zenon DEF VmSegments
  <1>2. s.from \in 0 .. StreamBytes /\ s.to \in 0 .. StreamBytes
    BY <1>1, Zenon
  <1>3. CASE VmTrims
    <2>1. s.from <= s.to /\ (s.from = s.to => s.fin) /\ (s.fin => s.to = StreamBytes)
      BY <1>3, Zenon DEF VmSegments
    <2> QED
      BY <1>2, <2>1, Constants, SMT
  <1>4. CASE ~ VmTrims
    <2> DEFINE from == s.from
               to == s.to
    <2>1. /\ from < StreamBytes /\ to = Min({from + MaxSegment, StreamBytes})
          /\ s.fin = (to = StreamBytes)
      BY <1>4, Zenon DEF VmSegments
    <2>2. from \in Nat /\ to \in Nat /\ to <= StreamBytes
      BY <1>2, Constants, SMT
    <2> HIDE DEF from, to
    <2>3. from + MaxSegment \in Int /\ StreamBytes \in Int
      BY <2>2, Constants, SMT
    <2>4. to = IF from + MaxSegment <= StreamBytes THEN from + MaxSegment ELSE StreamBytes
      BY <2>1, <2>3, MinOfTwo, Zenon
    <2>5. from < to
      BY <2>1, <2>2, <2>4, Constants, SMT
    <2>6. from <= to /\ from # to
      BY <2>2, <2>5, SMT
    <2> QED
      BY <2>1, <2>2, <2>6, Zenon DEF from, to
  <1> QED
    BY <1>3, <1>4

LEMMA PayloadIs ==
  ASSUME NEW from \in Nat, NEW to \in Nat, from <= to, to <= StreamBytes,
         NEW payload, payload = [i \in 1 .. to - from |-> from + i - 1]
  PROVE  payload \in Seq(Bytes) /\ Len(payload) = to - from /\ Stands(payload, from)
  <1>1. to - from \in Nat
    BY SMT
  <1>2. ASSUME NEW i \in 1 .. to - from
        PROVE  from + i - 1 \in Bytes /\ from + i - 1 = from + (i - 1)
    BY Constants, SMT DEF Bytes
  <1>3. payload \in [1 .. to - from -> Bytes]
    BY <1>2, Zenon
  <1>4. payload \in Seq(Bytes) /\ Len(payload) = to - from
    <2> DEFINE n == to - from
    <2>1. n \in Nat /\ payload \in [1 .. n -> Bytes] /\ DOMAIN payload = 1 .. n
      BY <1>1, <1>3, Zenon
    <2> HIDE DEF n
    <2>2. payload \in Seq(Bytes)
      <3>1. Seq(Bytes) = UNION {[1 .. m -> Bytes] : m \in Nat}
        BY SeqDef
      <3>2. payload \in UNION {[1 .. m -> Bytes] : m \in Nat}
        BY <2>1, Zenon
      <3> QED
        BY <3>1, <3>2
    <2>3. Len(payload) \in Nat /\ 1 .. Len(payload) = 1 .. n
      BY <2>1, <2>2, LenProperties, Zenon
    <2>4. Len(payload) = n
      BY <2>1, <2>3, SMT
    <2> QED
      BY <2>2, <2>4 DEF n
  <1> QED
    BY <1>2, <1>4, Zenon DEF Stands

LEMMA WriteKeeps ==
  ASSUME Receiving(rx), Delivered(sink, rx), NEW q, Receiving(q),
         NEW out, out \in Seq(Bytes), Stands(out, Expected(rx)),
         Expected(q) = Expected(rx) + Len(out),
         "peerFin" \in q.flags <=> "peerFin" \in rx.flags,
         "peerFin" \in rx.flags => out = <<>>
  PROVE  Delivered(Write(out), q)
  <1>1. /\ sink \in [written : Seq(Bytes), flags : SUBSET {"ended", "unwritable"}]
        /\ Stands(sink.written, 0)
        /\ "ended" \in sink.flags => "peerFin" \in rx.flags
        /\ "unwritable" \notin sink.flags =>
             Len(sink.written) = IF "peerFin" \in rx.flags THEN StreamBytes ELSE Expected(rx)
    BY Zenon DEF Delivered
  <1>2. sink.written \in Seq(Bytes) /\ sink.flags \subseteq {"ended", "unwritable"}
    BY <1>1
  <1>3. CASE ~ Writable
    <2>1. Write(out) = sink
      BY <1>3, Zenon DEF Write
    <2>2. ASSUME "unwritable" \notin sink.flags PROVE "peerFin" \in rx.flags /\ out = <<>>
      <3>1. "ended" \in sink.flags
        BY <1>2, <1>3, <2>2, Zenon DEF Writable
      <3> QED
        BY <1>1, <3>1
    <2> QED
      BY <1>1, <2>1, <2>2, Zenon DEF Delivered
  <1>4. CASE Writable
    <2> DEFINE w == sink.written
               both == w \o out
               s == Write(out)
    <2>1. sink.flags = {} /\ s = [sink EXCEPT !.written = both]
      BY <1>4, Zenon DEF Writable, Write
    <2>2. Len(w) = IF "peerFin" \in rx.flags THEN StreamBytes ELSE Expected(rx)
      BY <1>1, <2>1
    <2>3. Len(w) \in Nat /\ Len(out) \in Nat
      BY <1>2, SMT
    <2>4. Stands(out, 0 + Len(w))
      <3>1. CASE "peerFin" \in rx.flags
        <4>1. out = <<>>
          BY <3>1
        <4>2. 1 .. Len(out) = {}
          BY <4>1, SMT
        <4> QED
          BY <4>2, Zenon DEF Stands
      <3>2. CASE "peerFin" \notin rx.flags
        <4>1. 0 + Len(w) = Expected(rx)
          <5> DEFINE n == Len(w)
          <5>1. n \in Nat /\ n = Expected(rx)
            BY <2>2, <2>3, <3>2
          <5> HIDE DEF n
          <5> QED
            BY <5>1, SMT DEF n
        <4> QED
          BY <4>1, Zenon
      <3> QED
        BY <3>1, <3>2
    <2>5. both \in Seq(Bytes) /\ Len(both) = Len(w) + Len(out) /\ Stands(both, 0)
      <3> HIDE DEF w
      <3>1. w \in Seq(Bytes) /\ Stands(w, 0) /\ 0 \in Nat
        BY <1>1, <1>2 DEF w
      <3> QED
        BY <2>4, <3>1, ConcatStands
    <2> HIDE DEF both
    <2>6. /\ s.written = both /\ s.flags = {}
          /\ s \in [written : Seq(Bytes), flags : SUBSET {"ended", "unwritable"}]
      BY <1>1, <2>1, <2>5, Zenon
    <2>7. Len(both) = IF "peerFin" \in q.flags THEN StreamBytes ELSE Expected(q)
      <3>1. CASE "peerFin" \in rx.flags
        <4>1. Len(out) = 0
          BY <3>1, SMT
        <4> HIDE DEF w
        <4>2. Len(both) = Len(w)
          BY <2>3, <2>5, <4>1, SMT
        <4> QED
          BY <2>2, <3>1, <4>2, Zenon
      <3>2. CASE "peerFin" \notin rx.flags
        BY <2>2, <2>5, <3>2, Zenon
      <3> QED
        BY <3>1, <3>2
    <2> HIDE DEF s
    <2>8. Delivered(s, q)
      BY <2>5, <2>6, <2>7, Zenon DEF Delivered
    <2> QED
      BY <2>8 DEF s
  <1> QED
    BY <1>3, <1>4

LEMMA DeliveredSame ==
  ASSUME NEW s, NEW r, Delivered(s, r), NEW q, Expected(q) = Expected(r),
         "peerFin" \in q.flags <=> "peerFin" \in r.flags
  PROVE  Delivered(s, q)
  BY Zenon DEF Delivered

\* The FIN, when it comes next.
LEMMA FinDoneIs ==
  ASSUME NEW r, Receiving(r), r.vmSeq = NumberOf(StreamBytes)
  PROVE  /\ Receiving(FinDone(r)) /\ "peerFin" \in FinDone(r).flags
         /\ Expected(r) = StreamBytes /\ "peerFin" \notin r.flags
  <1> DEFINE m == (r.vmSeq + 1) % SeqSpace
             f == r.flags \cup {"peerFin"}
             q == FinDone(r)
  <1>1. /\ Fields(r) /\ Buffer(r) /\ Beyond(r) /\ Stored(r.ooo)
        /\ "peerFin" \in r.flags <=> Expected(r) = StreamBytes + 1
    BY Zenon DEF Receiving, Receiver, Buffer
  <1>2. r.vmSeq \in SeqNumbers /\ r.flags \subseteq Flags
    BY <1>1, FieldTypes
  <1>3. Expected(r) = StreamBytes
    <2>1. StreamBytes \in SeqNumbers
      BY Constants, SMT
    <2> QED
      BY <2>1, NumberIs, Zenon DEF Expected
  <1>4. m \in SeqNumbers /\ Position(m) = StreamBytes + 1
    <2>1. 1 \in -SeqSpace .. SeqSpace /\ StreamBytes + 1 \in SeqNumbers
      BY Constants, SMT
    <2>2. \A x \in -SeqSpace .. SeqSpace :
            Position(r.vmSeq) + x \in SeqNumbers
              => /\ (r.vmSeq + x) % SeqSpace \in SeqNumbers
                 /\ Position((r.vmSeq + x) % SeqSpace) = Position(r.vmSeq) + x
      BY <1>2, Onward, Zenon
    <2> QED
      BY <1>3, <2>1, <2>2, Zenon DEF Expected
  <1>5. "peerFin" \notin r.flags
    BY <1>1, <1>3, Constants, SMT
  <1>6. f \in SUBSET Flags /\ "peerFin" \in f
    BY <1>2 DEF Flags
  <1> HIDE DEF m, f
  <1>7. q = [r EXCEPT !.vmSeq = m, !.flags = f]
    BY Zenon DEF FinDone, m, f
  <1> HIDE DEF q
  <1>8. /\ q.vmSeq = m /\ q.flags = f /\ q.ooo = r.ooo /\ q.oooBytes = r.oooBytes
        /\ q \in [vmSeq : SeqNumbers, ooo : {r.ooo}, oooBytes : Int,
                  pending : 0 .. AckEvery - 1, flags : SUBSET Flags]
    BY <1>1, <1>4, <1>6, <1>7, Zenon DEF Fields
  <1>9. Expected(q) = StreamBytes + 1
    BY <1>4, <1>8, Zenon DEF Expected
  <1>10. Beyond(q)
    <2> SUFFICES ASSUME NEW seq \in DOMAIN r.ooo PROVE FALSE
      BY <1>8, Zenon DEF Beyond
    <2>1. /\ Position(seq) \in Nat /\ Stop(r.ooo, seq) \in Nat
          /\ Stop(r.ooo, seq) <= StreamBytes /\ Position(seq) < Stop(r.ooo, seq)
      BY <1>1, RangeIs
    <2>2. StreamBytes < Position(seq)
      BY <1>1, <1>3, Zenon DEF Beyond
    <2> QED
      BY <2>1, <2>2, Constants, SMT
  <1>11. Fields(q) /\ Buffer(q)
    BY <1>1, <1>8, Zenon DEF Fields, Buffer
  <1>12. Expected(q) <= StreamBytes + 1
    BY <1>9, Constants, SMT
  <1>13. Receiving(q)
    BY <1>6, <1>8, <1>9, <1>10, <1>11, <1>12, Zenon DEF Receiving, Receiver
  <1> QED
    BY <1>3, <1>5, <1>6, <1>8, <1>13, Zenon DEF q

LEMMA FinKeeps ==
  ASSUME NEW r, Receiving(r), NEW out, Delivered(Write(out), r), NEW number,
         number = NumberOf(StreamBytes), Fin(r, out, number)
  PROVE  Receiving(rx') /\ Delivered(sink', rx') /\ Told(told', rx')
  <1>1. CASE number = r.vmSeq
    <2> DEFINE q == FinDone(r)
               s == Write(out)
               f == s.flags \cup {"ended"}
    <2>1. AckNow(q) /\ sink' = [s EXCEPT !.flags = f]
      BY <1>1, Zenon DEF Fin
    <2>2. Receiving(q) /\ "peerFin" \in q.flags /\ Expected(r) = StreamBytes
          /\ "peerFin" \notin r.flags
      BY <1>1, FinDoneIs
    <2> HIDE DEF q
    <2>3. /\ Receiving(rx') /\ Told(told', rx') /\ rx'.flags = q.flags \ {"timer"}
      BY <2>1, <2>2, AckNowKeeps
    <2>4. "peerFin" \in rx'.flags
      BY <2>2, <2>3
    <2>5. /\ s \in [written : Seq(Bytes), flags : SUBSET {"ended", "unwritable"}]
          /\ Stands(s.written, 0)
          /\ "unwritable" \notin s.flags => Len(s.written) = StreamBytes
      BY <2>2, Zenon DEF Delivered
    <2>6. f \in SUBSET {"ended", "unwritable"} /\ ("unwritable" \in f <=> "unwritable" \in s.flags)
      BY <2>5
    <2> HIDE DEF s, f
    <2>7. /\ sink'.written = s.written /\ sink'.flags = f
          /\ sink' \in [written : Seq(Bytes), flags : SUBSET {"ended", "unwritable"}]
      <3> DEFINE t == sink'
      <3>1. t = [s EXCEPT !.flags = f]
        BY <2>1
      <3> HIDE DEF t
      <3>2. /\ t.written = s.written /\ t.flags = f
            /\ t \in [written : Seq(Bytes), flags : SUBSET {"ended", "unwritable"}]
        BY <2>5, <2>6, <3>1, Zenon
      <3> QED
        BY <3>2 DEF t
    <2>8. Delivered(sink', rx')
      BY <2>4, <2>5, <2>6, <2>7, Zenon DEF Delivered
    <2> QED
      BY <2>3, <2>8
  <1>2. CASE number # r.vmSeq
    <2>1. AckNow(r) /\ sink' = Write(out)
      BY <1>2, Zenon DEF Fin
    <2>2. /\ Receiving(rx') /\ Told(told', rx') /\ rx'.flags = r.flags \ {"timer"}
          /\ Expected(rx') = Expected(r)
      BY <2>1, AckNowKeeps
    <2>3. "peerFin" \in rx'.flags <=> "peerFin" \in r.flags
      BY <2>2
    <2> DEFINE q == rx'
    <2>4. Expected(q) = Expected(r) /\ ("peerFin" \in q.flags <=> "peerFin" \in r.flags)
      BY <2>2, <2>3
    <2> HIDE DEF q
    <2>5. Delivered(Write(out), q)
      BY <2>4, DeliveredSame
    <2> QED
      BY <2>1, <2>2, <2>5 DEF q
  <1> QED
    BY <1>1, <1>2

\* A connection of which only what the buffer holds has changed.
LEMMA ReceivingSame ==
  ASSUME NEW r, Receiving(r), NEW q, Receiver(q), SameRest(q, r)
  PROVE  Receiving(q) /\ Expected(q) = Expected(r)
  BY Zenon DEF Receiving, SameRest, Expected

LEMMA AckedAsBefore ==
  ASSUME Receiving(rx), Delivered(sink, rx), NEW r, Receiving(r), Expected(r) = Expected(rx),
         "peerFin" \in r.flags <=> "peerFin" \in rx.flags, AckNow(r), sink' = sink
  PROVE  Receiving(rx') /\ Delivered(sink', rx') /\ Told(told', rx')
  <1>1. /\ Receiving(rx') /\ Told(told', rx') /\ rx'.flags = r.flags \ {"timer"}
        /\ Expected(rx') = Expected(r)
    BY AckNowKeeps
  <1> DEFINE q == rx'
  <1>2. Expected(q) = Expected(rx) /\ ("peerFin" \in q.flags <=> "peerFin" \in rx.flags)
    BY <1>1
  <1> HIDE DEF q
  <1>3. Delivered(sink, q)
    BY <1>2, DeliveredSame
  <1> QED
    BY <1>1, <1>3 DEF q

\* A segment's number and bytes, with what the relay expects next.
Stretch(from, to, sequence, payload) ==
  /\ from \in Nat /\ to \in Nat /\ from < to /\ to <= StreamBytes
  /\ sequence = NumberOf(from) /\ sequence \in SeqNumbers /\ Position(sequence) = from
  /\ payload \in Seq(Bytes) /\ Len(payload) = to - from /\ Stands(payload, from)

LEMMA OutOfOrderKeeps ==
  ASSUME IInv, NEW from, NEW to, NEW sequence, NEW payload,
         Stretch(from, to, sequence, payload),
         Expected(rx) < from, OutOfOrder(sequence, payload)
  PROVE  Receiving(rx') /\ Delivered(sink', rx') /\ Told(told', rx')
  <1> DEFINE r == IF "backpressured" \in rx.flags THEN rx ELSE Buffered(rx, sequence, payload)
  <1>1. Receiving(rx) /\ Receiver(rx) /\ Delivered(sink, rx)
    BY Zenon DEF IInv, Receiving
  <1>2. AckNow(r) /\ sink' = sink
    BY Zenon DEF OutOfOrder
  <1>3. CASE "backpressured" \in rx.flags
    <2>1. r = rx
      BY <1>3, Zenon
    <2> HIDE DEF r
    <2> QED
      BY <1>1, <1>2, <2>1, AckedAsBefore
  <1>4. CASE "backpressured" \notin rx.flags
    <2>1. r = Buffered(rx, NumberOf(from), payload)
      BY <1>4, Zenon DEF Stretch
    <2>2. from \in Nat /\ payload \in Seq(Bytes) /\ Stands(payload, from)
      BY Zenon DEF Stretch
    <2>3. from + Len(payload) <= StreamBytes
      BY SMT DEF Stretch
    <2> HIDE DEF r
    <2>4. Receiver(r) /\ SameRest(r, rx)
      BY <1>1, <2>1, <2>2, <2>3, BufferedKeeps
    <2>5. Receiving(r) /\ Expected(r) = Expected(rx)
      BY <1>1, <2>4, ReceivingSame
    <2>6. r.flags = rx.flags
      BY <2>4, Zenon DEF SameRest
    <2> QED
      BY <1>1, <1>2, <2>5, <2>6, AckedAsBefore
  <1> QED
    BY <1>3, <1>4

\* What is new in a segment that begins with what is expected, or before it.
LEMMA TrimmedIs ==
  ASSUME Receiving(rx), NEW from, NEW to, NEW sequence, NEW payload,
         Stretch(from, to, sequence, payload), from <= Expected(rx), Expected(rx) < to
  PROVE  /\ Trimmed(sequence, payload) \in Seq(Bytes)
         /\ Len(Trimmed(sequence, payload)) = to - Expected(rx)
         /\ Stands(Trimmed(sequence, payload), Expected(rx))
  <1> DEFINE v == Expected(rx)
  <1>1. /\ from \in Nat /\ to \in Nat /\ from < to /\ to <= StreamBytes
        /\ sequence \in SeqNumbers /\ Position(sequence) = from
        /\ payload \in Seq(Bytes) /\ Len(payload) = to - from /\ Stands(payload, from)
    BY Zenon DEF Stretch
  <1>2. rx.vmSeq \in SeqNumbers /\ v \in Nat /\ Position(rx.vmSeq) = v
    BY FieldTypes, Zenon DEF Receiving, Receiver, Expected
  <1>3. from <= v /\ v < to
    OBVIOUS
  <1> HIDE DEF v
  <1>4. SeqLessThan(sequence, rx.vmSeq) <=> from < v
    <2>1. from - v < Half /\ v - from < Half
      BY <1>1, <1>2, <1>3, Constants, SMT
    <2> QED
      BY <1>1, <1>2, <2>1, Before, Zenon
  <1>5. CASE from < v
    <2> DEFINE n == Ahead(rx.vmSeq, sequence) + 1
    <2>1. Trimmed(sequence, payload) = SubSeq(payload, n, Len(payload))
      BY <1>4, <1>5, Zenon DEF Trimmed
    <2>2. Ahead(rx.vmSeq, sequence) = v - from
      <3>1. Ahead(rx.vmSeq, sequence) = IF v >= from THEN v - from ELSE v - from + SeqSpace
        BY <1>1, <1>2, AheadPositions, Zenon
      <3> QED
        BY <1>1, <1>2, <1>3, <3>1, SMT
    <2>3. n = v - from + 1
      BY <2>2
    <2> HIDE DEF n
    <2> DEFINE len == Len(payload)
    <2>4. /\ n \in Nat \ {0} /\ len \in Nat /\ n <= len + 1 /\ len <= Len(payload)
          /\ len - n + 1 = to - v /\ from + (n - 1) = v
      <3>1. len = to - from
        BY <1>1
      <3> HIDE DEF len
      <3>2. /\ n \in Nat \ {0} /\ len \in Nat /\ n <= len + 1
            /\ len - n + 1 = to - v /\ from + (n - 1) = v /\ len <= len
        BY <1>1, <1>2, <1>3, <2>3, <3>1, SMT
      <3> QED
        BY <3>2 DEF len
    <2> HIDE DEF len
    <2>5. /\ SubSeq(payload, n, len) \in Seq(Bytes) /\ Len(SubSeq(payload, n, len)) = len - n + 1
          /\ Stands(SubSeq(payload, n, len), from + (n - 1))
      <3>1. payload \in Seq(Bytes)
        BY <1>1
      <3>2. Stands(payload, from)
        BY <1>1
      <3>3. from \in Nat
        BY <1>1
      <3> QED
        BY <2>4, <3>1, <3>2, <3>3, SubSeqStands
    <2> QED
      BY <2>1, <2>4, <2>5, Zenon DEF len, v
  <1>6. CASE ~ (from < v)
    <2>1. Trimmed(sequence, payload) = payload
      BY <1>4, <1>6, Zenon DEF Trimmed
    <2>2. from = v
      BY <1>1, <1>2, <1>3, <1>6, SMT
    <2> QED
      BY <1>1, <2>1, <2>2, Zenon DEF v
  <1> QED
    BY <1>5, <1>6

LEMMA PressedKeeps ==
  ASSUME NEW r, Receiver(r), NEW full
  PROVE  /\ Receiver(Pressed(r, full)) /\ Expected(Pressed(r, full)) = Expected(r)
         /\ "peerFin" \in Pressed(r, full).flags <=> "peerFin" \in r.flags
         /\ "backpressured" \in r.flags => "backpressured" \in Pressed(r, full).flags
  <1> DEFINE q == Pressed(r, full)
             f == r.flags \cup {"backpressured"}
  <1>1. CASE ~ (Writable /\ full)
    <2>1. q = r
      BY <1>1, Zenon DEF Pressed
    <2> QED
      BY <2>1, Zenon
  <1>2. CASE Writable /\ full
    <2>1. q = [r EXCEPT !.flags = f]
      BY <1>2, Zenon DEF Pressed
    <2>2. Fields(r) /\ Buffer(r) /\ Beyond(r) /\ r.flags \subseteq Flags
      BY FieldTypes, Zenon DEF Receiver
    <2>3. f \in SUBSET Flags /\ ("peerFin" \in f <=> "peerFin" \in r.flags)
          /\ "backpressured" \in f
      BY <2>2 DEF Flags
    <2> HIDE DEF q, f
    <2>4. /\ q.vmSeq = r.vmSeq /\ q.flags = f /\ q.ooo = r.ooo /\ q.oooBytes = r.oooBytes
          /\ q \in [vmSeq : SeqNumbers, ooo : {r.ooo}, oooBytes : Int,
                    pending : 0 .. AckEvery - 1, flags : SUBSET Flags]
      BY <2>1, <2>2, <2>3, Zenon DEF Fields
    <2>5. Expected(q) = Expected(r)
      BY <2>4, Zenon DEF Expected
    <2>6. Receiver(q)
      BY <2>2, <2>4, <2>5, Zenon DEF Receiver, Fields, Buffer, Beyond
    <2> QED
      BY <2>3, <2>4, <2>5, <2>6, Zenon DEF q
  <1> QED
    BY <1>1, <1>2

LEMMA InOrderKeeps ==
  ASSUME IInv, NEW from, NEW to, NEW sequence, NEW payload, NEW fin, NEW full,
         Stretch(from, to, sequence, payload), from <= Expected(rx), Expected(rx) < to,
         fin => to = StreamBytes, InOrder(sequence, payload, fin, full)
  PROVE  Receiving(rx') /\ Delivered(sink', rx') /\ Told(told', rx')
  <1> DEFINE v == Expected(rx)
             trimmed == Trimmed(sequence, payload)
             a == Accepted(rx, trimmed)
             r == Pressed(a.r, full)
             number == (sequence + Len(payload)) % SeqSpace
  <1>1. Receiving(rx) /\ Receiver(rx) /\ Delivered(sink, rx) /\ Told(told, rx)
    BY Zenon DEF IInv, Receiving
  <1>2. /\ from \in Nat /\ to \in Nat /\ from < to /\ to <= StreamBytes
        /\ sequence = NumberOf(from) /\ sequence \in SeqNumbers /\ Position(sequence) = from
        /\ Len(payload) = to - from
    BY Zenon DEF Stretch
  <1>3. v \in Nat
    BY <1>1, FieldTypes, Zenon DEF Receiver
  <1>4. trimmed \in Seq(Bytes) /\ Len(trimmed) = to - v /\ Stands(trimmed, v)
    BY <1>1, TrimmedIs
  <1>5. to = v + Len(trimmed)
    <2> DEFINE len == Len(trimmed)
    <2>1. len = to - v
      BY <1>4
    <2> HIDE DEF len, v
    <2>2. to = v + len
      BY <1>2, <1>3, <2>1, SMT
    <2> QED
      BY <2>2 DEF len
  <1>6. /\ fin => Fin(r, a.out, number)
        /\ ~ fin => ScheduleAck(r, a.segments) /\ sink' = Write(a.out)
    BY Zenon DEF InOrder
  <1> HIDE DEF trimmed
  <1>7. Handed(a, rx, to) /\ Receiver(a.r)
    BY <1>1, <1>2, <1>4, <1>5, AcceptedKeeps
  <1> HIDE DEF a
  <1>8. /\ a.r.flags = rx.flags /\ to <= Expected(a.r) /\ Expected(a.r) <= StreamBytes
        /\ a.out \in Seq(Bytes) /\ v + Len(a.out) = Expected(a.r) /\ Stands(a.out, v)
        /\ a \in [r : {a.r}, out : Seq(Bytes), segments : Nat \ {0}]
    BY <1>7, Zenon DEF Handed
  <1>9. a.segments \in Nat \ {0} /\ Expected(a.r) \in Nat
    BY <1>7, <1>8, FieldTypes, Zenon DEF Receiver
  <1>10. "peerFin" \notin rx.flags
    <2>1. "peerFin" \in rx.flags <=> v = StreamBytes + 1
      BY <1>1, Zenon DEF Receiving
    <2>2. v < to
      OBVIOUS
    <2> HIDE DEF v
    <2>3. v # StreamBytes + 1
      BY <1>2, <1>3, <2>2, Constants, SMT
    <2> QED
      BY <2>1, <2>3, Zenon
  <1>11. /\ Receiver(r) /\ Expected(r) = Expected(a.r) /\ "peerFin" \notin r.flags
         /\ "backpressured" \in rx.flags => "backpressured" \in r.flags
    BY <1>7, <1>8, <1>10, PressedKeeps, ZenonT(40)
  <1> HIDE DEF r, v
  <1>12. Receiving(r)
    <2>1. Expected(r) <= StreamBytes + 1 /\ Expected(r) # StreamBytes + 1
      BY <1>8, <1>9, <1>11, Constants, SMT
    <2> QED
      BY <1>11, <2>1, Zenon DEF Receiving
  <1>13. Delivered(Write(a.out), r)
    <2> DEFINE out == a.out
    <2>1. /\ out \in Seq(Bytes) /\ Stands(out, Expected(rx))
          /\ Expected(r) = Expected(rx) + Len(out)
      BY <1>8, <1>11, Zenon DEF v
    <2> HIDE DEF out
    <2>2. Delivered(Write(out), r)
      BY <1>1, <1>10, <1>11, <1>12, <2>1, WriteKeeps
    <2> QED
      BY <2>2 DEF out
  <1>14. CASE fin
    <2>1. number = NumberOf(StreamBytes)
      <3> DEFINE len == Len(payload)
      <3>1. len = to - from /\ to = StreamBytes
        BY <1>2, <1>14
      <3> HIDE DEF len
      <3>2. len \in -SeqSpace .. SeqSpace /\ from + len \in SeqNumbers /\ from + len = StreamBytes
        BY <1>2, <3>1, Constants, SMT
      <3>3. \A x \in -SeqSpace .. SeqSpace :
              Position(sequence) + x \in SeqNumbers
                => (sequence + x) % SeqSpace = NumberOf(Position(sequence) + x)
        BY <1>2, Onward, Zenon
      <3> QED
        BY <1>2, <3>2, <3>3, Zenon DEF len
    <2>2. Fin(r, a.out, number)
      BY <1>6, <1>14
    <2> HIDE DEF number
    <2> QED
      BY <1>12, <1>13, <2>1, <2>2, FinKeeps
  <1>15. CASE ~ fin
    <2>1. ScheduleAck(r, a.segments) /\ sink' = Write(a.out)
      BY <1>6, <1>15
    <2>2. /\ told \in [ack : SeqNumbers, window : 0 .. FieldMax]
          /\ Position(told.ack) <= StreamBytes + 1
          /\ told.window = 0 => "backpressured" \in r.flags
      BY <1>1, <1>11, Zenon DEF Told
    <2>3. /\ Receiving(rx') /\ Told(told', rx') /\ Expected(rx') = Expected(r)
          /\ "peerFin" \in rx'.flags <=> "peerFin" \in r.flags
      BY <1>9, <1>12, <2>1, <2>2, ScheduleAckKeeps
    <2> DEFINE q == rx'
               s == Write(a.out)
    <2>4. Expected(q) = Expected(r) /\ ("peerFin" \in q.flags <=> "peerFin" \in r.flags)
          /\ Delivered(s, r)
      BY <1>13, <2>3
    <2> HIDE DEF q, s
    <2>5. Delivered(s, q)
      BY <2>4, DeliveredSame
    <2> QED
      BY <2>1, <2>3, <2>5 DEF q, s
  <1> QED
    BY <1>14, <1>15

LEMMA SegmentKeeps ==
  ASSUME IInv, NEW from \in Nat, NEW to \in Nat, from <= to, to <= StreamBytes,
         NEW fin, NEW full, from = to => fin, fin => to = StreamBytes,
         Segment(from, to, fin, full)
  PROVE  IInv'
  <1> DEFINE v == Expected(rx)
             payload == [i \in 1 .. to - from |-> from + i - 1]
             sequence == NumberOf(from)
  <1>1. Receiving(rx) /\ Receiver(rx) /\ Delivered(sink, rx) /\ Told(told, rx)
    BY Zenon DEF IInv, Receiving
  <1>2. payload \in Seq(Bytes) /\ Len(payload) = to - from /\ Stands(payload, from)
    <2> HIDE DEF payload
    <2>1. payload = [i \in 1 .. to - from |-> from + i - 1]
      BY DEF payload
    <2> QED
      BY <2>1, PayloadIs
  <1>3. sequence \in SeqNumbers /\ Position(sequence) = from
    <2>1. from \in SeqNumbers
      BY Constants, SMT
    <2> QED
      BY <2>1, NumberIs, Zenon
  <1>4. rx.vmSeq \in SeqNumbers /\ v \in Nat /\ Position(rx.vmSeq) = v
    BY <1>1, FieldTypes, Zenon DEF Receiver, Expected
  <1>5. v <= StreamBytes + 1
    BY <1>1, Zenon DEF Receiving
  <1>6. /\ from = to => Fin(rx, <<>>, sequence)
        /\ from # to =>
             IF OldData(sequence, payload) THEN Ignore
             ELSE IF SeqLessThan(rx.vmSeq, sequence) THEN OutOfOrder(sequence, payload)
             ELSE InOrder(sequence, payload, fin, full)
    BY Zenon DEF Segment
  <1> HIDE DEF v, payload
  <1>7. /\ SeqLessThan(rx.vmSeq, sequence) <=> v < from
        /\ SeqLessThan(sequence, rx.vmSeq) <=> from < v
    <2>1. from - v < Half /\ v - from < Half
      BY <1>4, <1>5, Constants, SMT
    <2> HIDE DEF sequence
    <2> QED
      BY <1>3, <1>4, <2>1, Before, Zenon
  <1>8. UNCHANGED una
    <2>1. CASE from = to
      BY <1>6, <2>1, Zenon DEF Fin
    <2>2. CASE from # to
      <3>1. Ignore \/ OutOfOrder(sequence, payload) \/ InOrder(sequence, payload, fin, full)
        BY <1>6, <2>2, Zenon
      <3> QED
        BY <3>1, Zenon DEF Ignore, OutOfOrder, InOrder, Fin
    <2> QED
      BY <2>1, <2>2
  <1>9. Receiving(rx') /\ Delivered(sink', rx') /\ Told(told', rx')
    <2>1. CASE from = to
      <3> DEFINE out == <<>>
      <3>1. out \in Seq(Bytes) /\ Len(out) = 0 /\ Stands(out, v)
        BY SMT DEF Stands
      <3>2. Fin(rx, out, sequence) /\ sequence = NumberOf(StreamBytes)
        BY <1>6, <2>1
      <3> HIDE DEF out, sequence
      <3>3. Expected(rx) = Expected(rx) + Len(out)
        BY <1>4, <3>1, SMT DEF v
      <3>4. Delivered(Write(out), rx)
        BY <1>1, <3>1, <3>3, WriteKeeps DEF v, out
      <3> QED
        BY <1>1, <3>2, <3>4, FinKeeps
    <2>2. CASE from # to
      <3>1. from < to
        BY <2>2, SMT
      <3>2. Stretch(from, to, sequence, payload)
        BY <1>2, <1>3, <3>1, Zenon DEF Stretch
      <3>3. OldData(sequence, payload) <=> from < v /\ v - from >= to - from
        <4>1. Ahead(rx.vmSeq, sequence) = IF v >= from THEN v - from ELSE v - from + SeqSpace
          <5> HIDE DEF sequence
          <5> QED
            BY <1>3, <1>4, AheadPositions, Zenon
        <4>2. from < v => Ahead(rx.vmSeq, sequence) = v - from
          BY <1>4, <4>1, SMT
        <4> HIDE DEF sequence
        <4> QED
          BY <1>2, <1>7, <4>2, Zenon DEF OldData
      <3> HIDE DEF sequence
      <3>4. CASE OldData(sequence, payload)
        <4>1. AckNow(rx) /\ sink' = sink
          BY <1>6, <2>2, <3>4, Zenon DEF Ignore
        <4> QED
          BY <1>1, <4>1, AckedAsBefore
      <3>5. CASE ~ OldData(sequence, payload) /\ SeqLessThan(rx.vmSeq, sequence)
        <4>1. OutOfOrder(sequence, payload)
          BY <1>6, <2>2, <3>5, Zenon
        <4>2. Expected(rx) < from
          BY <1>7, <3>5 DEF v
        <4> QED
          BY <3>2, <4>1, <4>2, OutOfOrderKeeps
      <3>6. CASE ~ OldData(sequence, payload) /\ ~ SeqLessThan(rx.vmSeq, sequence)
        <4>1. InOrder(sequence, payload, fin, full)
          BY <1>6, <2>2, <3>6, Zenon
        <4>2. from <= v /\ v < to
          BY <1>4, <1>7, <3>1, <3>3, <3>6, SMT
        <4>3. from <= Expected(rx) /\ Expected(rx) < to
          BY <4>2 DEF v
        <4> QED
          BY <3>2, <4>1, <4>3, InOrderKeeps
      <3> QED
        BY <3>4, <3>5, <3>6
    <2> QED
      BY <2>1, <2>2
  <1> QED
    BY <1>8, <1>9, Zenon DEF IInv

\* The other end of the sink, the VM and the timer.
LEMMA OthersKeep ==
  ASSUME IInv, AckTimer \/ SendData \/ SinkDrains \/ SinkEnds \/ VmHearsAck
  PROVE  IInv'
  <1>1. /\ Receiving(rx) /\ Receiver(rx) /\ Delivered(sink, rx) /\ Told(told, rx)
        /\ una \in 0 .. StreamBytes + 1
    BY Zenon DEF IInv, Receiving
  <1>2. CASE AckTimer
    <2>1. UNCHANGED <<sink, una>>
      BY <1>2, Zenon DEF AckTimer
    <2>2. CASE rx.pending > 0
      <3>1. AckNow(rx)
        BY <1>2, <2>2, Zenon DEF AckTimer
      <3> QED
        BY <1>1, <2>1, <3>1, AckedAsBefore DEF IInv
    <2>3. CASE ~ (rx.pending > 0)
      <3> DEFINE p == rx.pending
                 f == rx.flags \ {"timer"}
                 q == Marked(rx, p, f)
      <3>1. p \in 0 .. AckEvery - 1 /\ rx.flags \subseteq Flags
            /\ Fields(rx)
        BY <1>1, FieldTypes, Zenon DEF Receiver
      <3>2. Marks(rx, p, f) /\ ("backpressured" \in rx.flags <=> "backpressured" \in f)
        BY <3>1 DEF Marks
      <3>3. rx' = [rx EXCEPT !.flags = f] /\ told' = told
        BY <1>2, <2>3, Zenon DEF AckTimer
      <3> HIDE DEF f
      <3>4. rx' = q
        BY <3>1, <3>3, Zenon DEF Marked, Fields
      <3> HIDE DEF p
      <3>5. /\ Receiving(q) /\ q.pending = p /\ q.flags = f /\ q.vmSeq = rx.vmSeq
            /\ Expected(q) = Expected(rx)
        BY <1>1, <3>2, AckFields
      <3> HIDE DEF q
      <3>6. "peerFin" \in f <=> "peerFin" \in rx.flags
        BY DEF f
      <3>7. Delivered(sink, q)
        BY <1>1, <3>5, <3>6, DeliveredSame
      <3>8. Told(told, q)
        BY <1>1, <2>3, <3>2, <3>5, Zenon DEF Told
      <3> QED
        BY <1>1, <2>1, <3>3, <3>4, <3>5, <3>7, <3>8, Zenon DEF IInv
    <2> QED
      BY <2>2, <2>3
  <1>3. CASE SendData
    <2>1. told' = [ack |-> rx.vmSeq, window |-> ReceiveWindow(rx)] /\ UNCHANGED <<rx, sink, una>>
      BY <1>3, Zenon DEF SendData, Announce
    <2>2. /\ ReceiveWindow(rx) \in 0 .. FieldMax
          /\ ReceiveWindow(rx) = 0 <=> "backpressured" \in rx.flags
      BY <1>1, WindowOpen
    <2>3. rx.vmSeq \in SeqNumbers /\ Position(rx.vmSeq) <= StreamBytes + 1
      BY <1>1, FieldTypes, Zenon DEF Receiving, Receiver, Expected
    <2> DEFINE m == told'
               w == ReceiveWindow(rx)
    <2>4. m = [ack |-> rx.vmSeq, window |-> w]
      BY <2>1
    <2> HIDE DEF m, w
    <2>5. m \in [ack : SeqNumbers, window : 0 .. FieldMax] /\ m.ack = rx.vmSeq /\ m.window = w
      BY <2>2, <2>3, <2>4, Zenon DEF w
    <2>6. Told(m, rx)
      BY <2>2, <2>3, <2>5, Zenon DEF Told, w
    <2> QED
      BY <1>1, <2>1, <2>6, Zenon DEF IInv, m
  <1>4. CASE SinkDrains
    <2> DEFINE f == rx.flags \ {"backpressured"}
               q == Marked(rx, rx.pending, f)
    <2>1. rx.pending \in 0 .. AckEvery - 1 /\ rx.flags \subseteq Flags /\ Fields(rx)
      BY <1>1, FieldTypes, Zenon DEF Receiver
    <2>2. Marks(rx, rx.pending, f)
      BY <2>1 DEF Marks
    <2>3. AckNow([rx EXCEPT !.flags = f]) /\ UNCHANGED <<sink, una>>
      BY <1>4, Zenon DEF SinkDrains
    <2> HIDE DEF f
    <2>4. [rx EXCEPT !.flags = f] = q
      BY <2>1, Zenon DEF Marked, Fields
    <2>5. Receiving(q) /\ q.flags = f /\ Expected(q) = Expected(rx)
      BY <1>1, <2>2, AckFields
    <2> HIDE DEF q
    <2>6. AckNow(q) /\ sink' = sink /\ una' = una
      BY <2>3, <2>4, Zenon
    <2>7. "peerFin" \in q.flags <=> "peerFin" \in rx.flags
      BY <2>5 DEF f
    <2> QED
      BY <1>1, <2>5, <2>6, <2>7, AckedAsBefore DEF IInv
  <1>5. CASE SinkEnds
    <2>1. sink.flags = {} /\ sink' = [sink EXCEPT !.flags = {"unwritable"}] /\ UNCHANGED <<rx, told, una>>
      BY <1>5, Zenon DEF SinkEnds, Writable
    <2> DEFINE s == sink'
    <2>2. s = [sink EXCEPT !.flags = {"unwritable"}]
      BY <2>1
    <2> HIDE DEF s
    <2>3. /\ s.written = sink.written /\ s.flags = {"unwritable"}
          /\ s \in [written : Seq(Bytes), flags : SUBSET {"ended", "unwritable"}]
      <3>1. {"unwritable"} \in SUBSET {"ended", "unwritable"}
        OBVIOUS
      <3> QED
        BY <1>1, <2>2, <3>1, Zenon DEF Delivered
    <2>4. "ended" \notin s.flags /\ "unwritable" \in s.flags
      BY <2>3
    <2>5. Delivered(s, rx)
      BY <1>1, <2>3, <2>4, Zenon DEF Delivered
    <2> QED
      BY <1>1, <2>1, <2>5, Zenon DEF IInv, s
  <1>6. CASE VmHearsAck
    <2> DEFINE p == Position(told.ack)
    <2>1. una' = Max({una, p}) /\ UNCHANGED <<rx, sink, told>>
      BY <1>6, Zenon DEF VmHearsAck
    <2>2. p \in Nat /\ p <= StreamBytes + 1
      <3>1. told.ack \in SeqNumbers /\ p <= StreamBytes + 1
        BY <1>1, Zenon DEF Told
      <3> HIDE DEF p
      <3>2. p \in SeqNumbers
        BY <3>1, PositionIs DEF p
      <3> QED
        BY <3>1, <3>2, Constants, SMT
    <2> HIDE DEF p
    <2>3. una' = IF una <= p THEN p ELSE una
      BY <1>1, <2>1, <2>2, MaxOfTwo
    <2>4. una' \in 0 .. StreamBytes + 1
      BY <1>1, <2>2, <2>3, Constants, SMT
    <2> QED
      BY <1>1, <2>1, <2>4, Zenon DEF IInv
  <1> QED
    BY <1>2, <1>3, <1>4, <1>5, <1>6
-----------------------------------------------------------------------------
(* The theorems.                                                           *)

LEMMA Initially == Init => IInv
  <1> SUFFICES ASSUME Init PROVE IInv
    OBVIOUS
  <1> DEFINE none == <<>>
             w == Min({FieldMax, Window})
  <1>1. /\ rx = [vmSeq |-> InitialSequence, ooo |-> none, oooBytes |-> 0, pending |-> 0,
                 flags |-> {}]
        /\ sink = [written |-> <<>>, flags |-> {}]
        /\ told = [ack |-> InitialSequence, window |-> w]
        /\ una = 0
    BY Zenon DEF Init
  <1>2. DOMAIN none = {}
    BY SMT
  <1>3. w = IF FieldMax <= Window THEN FieldMax ELSE Window
    BY Constants, MinOfTwo
  <1> HIDE DEF none, w
  <1>4. w \in 0 .. FieldMax /\ w # 0
    BY <1>3, Constants, SMT
  <1>5. Position(InitialSequence) = 0
    <2>1. Ahead(InitialSequence, InitialSequence) = InitialSequence - InitialSequence
      BY AheadIs, Constants, SMT
    <2> QED
      BY <2>1, Constants, SMT DEF Position
  <1>6. 0 \in Int /\ 0 \in 0 .. AckEvery - 1 /\ 0 \in 0 .. StreamBytes + 1
        /\ 0 <= StreamBytes + 1 /\ 0 # StreamBytes + 1
    BY Constants, SMT
  <1>7. /\ rx.vmSeq = InitialSequence /\ rx.ooo = none /\ rx.oooBytes = 0 /\ rx.flags = {}
        /\ rx \in [vmSeq : SeqNumbers, ooo : {none}, oooBytes : Int,
                   pending : 0 .. AckEvery - 1, flags : SUBSET Flags]
    <2>1. {} \in SUBSET Flags /\ InitialSequence \in SeqNumbers
      BY Constants
    <2> QED
      BY <1>1, <1>6, <2>1, Zenon
  <1>8. Stored(none) /\ Held(none) = {}
    BY <1>2, Zenon DEF Stored, Held
  <1>9. Cardinality(Held(none)) = 0
    BY <1>8, FS_EmptySet
  <1>10. Receiver(rx)
    <2>1. Fields(rx)
      BY <1>7, Zenon DEF Fields
    <2>2. Buffer(rx)
      BY <1>7, <1>8, <1>9, Zenon DEF Buffer
    <2>3. Beyond(rx)
      BY <1>2, <1>7, Zenon DEF Beyond
    <2> QED
      BY <2>1, <2>2, <2>3 DEF Receiver
  <1>11. Expected(rx) = 0
    BY <1>5, <1>7, Zenon DEF Expected
  <1>12. "peerFin" \notin rx.flags
    BY <1>7
  <1>13. Receiving(rx)
    BY <1>6, <1>10, <1>11, <1>12, Zenon DEF Receiving
  <1>14. Delivered(sink, rx)
    <2> DEFINE out == <<>>
    <2>1. out \in Seq(Bytes) /\ Len(out) = 0 /\ Stands(out, 0)
      BY SMT DEF Stands
    <2>2. sink = [written |-> out, flags |-> {}]
      BY <1>1
    <2> HIDE DEF out
    <2>3. sink.written = out /\ sink.flags = {}
          /\ sink \in [written : Seq(Bytes), flags : SUBSET {"ended", "unwritable"}]
      <3>1. {} \in SUBSET {"ended", "unwritable"}
        OBVIOUS
      <3> QED
        BY <2>1, <2>2, <3>1, Zenon
    <2>4. "ended" \notin sink.flags
      BY <2>3
    <2> QED
      BY <1>11, <1>12, <2>1, <2>3, <2>4, Zenon DEF Delivered
  <1>15. Told(told, rx)
    <2>1. told.ack = InitialSequence /\ told.window = w
          /\ told \in [ack : SeqNumbers, window : 0 .. FieldMax]
      BY <1>1, <1>4, Constants, Zenon
    <2> QED
      BY <1>4, <1>5, <1>6, <1>7, <2>1, Zenon DEF Told
  <1> QED
    BY <1>1, <1>6, <1>13, <1>14, <1>15, Zenon DEF IInv

LEMMA StepKeeps == IInv /\ [Next]_vars => IInv'
  <1> SUFFICES ASSUME IInv, [Next]_vars PROVE IInv'
    OBVIOUS
  <1>1. CASE Arrives(VmSegments)
    <2>1. PICK s \in VmSegments, full \in BOOLEAN : Segment(s.from, s.to, s.fin, full)
      BY <1>1, Zenon DEF Arrives
    <2>2. /\ s.from \in Nat /\ s.to \in Nat /\ s.from <= s.to /\ s.to <= StreamBytes
          /\ s.from = s.to => s.fin
          /\ s.fin => s.to = StreamBytes
      BY SegmentIs
    <2> QED
      BY <2>1, <2>2, SegmentKeeps
  <1>2. CASE AckTimer \/ SendData \/ SinkDrains \/ SinkEnds \/ VmHearsAck
    BY <1>2, OthersKeep
  <1>3. CASE UNCHANGED vars
    BY <1>3, Zenon DEF vars, IInv, Receiving, Receiver, Fields, Buffer, Beyond, Delivered, Told
  <1> QED
    BY <1>1, <1>2, <1>3, Zenon DEF Next

\* The inductive invariant holds: Init gives it, and every segment, timer, drain and
\* end of the sink keeps it.
THEOREM Invariant == Spec => []IInv
  BY Initially, StepKeeps, PTL DEF Spec

LEMMA InvariantTypes == IInv => TypeOK
  <1> SUFFICES ASSUME IInv PROVE TypeOK
    OBVIOUS
  <1>1. /\ Receiver(rx) /\ Stored(rx.ooo) /\ rx.oooBytes = Cardinality(Held(rx.ooo))
        /\ sink \in [written : Seq(Bytes), flags : SUBSET {"ended", "unwritable"}]
        /\ told \in [ack : SeqNumbers, window : 0 .. FieldMax]
        /\ una \in 0 .. StreamBytes + 1
    BY Zenon DEF IInv, Receiving, Receiver, Buffer, Delivered, Told
  <1>2. /\ rx.vmSeq \in SeqNumbers /\ rx.pending \in 0 .. AckEvery - 1 /\ rx.flags \subseteq Flags
    BY <1>1, FieldTypes DEF Receiver
  <1>3. rx.oooBytes \in Nat
    BY <1>1, HeldFinite, Zenon
  <1>4. DOMAIN rx.ooo \subseteq SeqNumbers /\ \A seq \in DOMAIN rx.ooo : rx.ooo[seq] \in Seq(Bytes)
    BY <1>1, Zenon DEF Stored
  <1>5. sink.written \in Seq(Bytes) /\ sink.flags \subseteq {"ended", "unwritable"}
    BY <1>1
  <1> QED
    BY <1>1, <1>2, <1>3, <1>4, <1>5, Zenon DEF TypeOK, Flags

LEMMA InvariantDelivers == IInv => DeliversInOrder
  <1> SUFFICES ASSUME IInv PROVE DeliversInOrder
    OBVIOUS
  <1> DEFINE written == sink.written
             v == Expected(rx)
  <1>1. /\ Receiver(rx) /\ Fields(rx) /\ Stored(rx.ooo) /\ Beyond(rx)
        /\ "peerFin" \in rx.flags <=> v = StreamBytes + 1
        /\ sink \in [written : Seq(Bytes), flags : SUBSET {"ended", "unwritable"}]
        /\ Stands(written, 0)
        /\ "unwritable" \notin sink.flags =>
             Len(written) = IF "peerFin" \in rx.flags THEN StreamBytes ELSE v
    BY Zenon DEF IInv, Receiving, Receiver, Buffer, Delivered
  <1>2. v \in Nat
    BY <1>1, FieldTypes
  <1>3. written = [i \in 1 .. Len(written) |-> i - 1]
    <2>1. written \in Seq(Bytes)
      BY <1>1
    <2> HIDE DEF written
    <2>2. DOMAIN written = 1 .. Len(written) /\ written \in [1 .. Len(written) -> Bytes]
      BY <2>1, LenProperties
    <2>3. \A i \in 1 .. Len(written) : written[i] = 0 + (i - 1)
      BY <1>1, Zenon DEF Stands
    <2>4. \A i \in 1 .. Len(written) : written[i] = i - 1
      <3>1. \A i \in 1 .. Len(written) : 0 + (i - 1) = i - 1
        BY SMT
      <3> QED
        BY <2>3, <3>1, Zenon
    <2> QED
      BY <2>2, <2>4, Zenon
  <1>4. Received = v - (IF "peerFin" \in rx.flags THEN 1 ELSE 0)
    BY Zenon DEF Received, Expected
  <1> HIDE DEF v, written
  <1>5. "unwritable" \notin sink.flags => Len(written) = Received
    <2>1. CASE "peerFin" \in rx.flags
      <3>1. Received = StreamBytes
        BY <1>1, <1>4, <2>1, Constants, SMT
      <3> QED
        BY <1>1, <2>1, <3>1, Zenon
    <2>2. CASE "peerFin" \notin rx.flags
      <3>1. Received = v
        BY <1>2, <1>4, <2>2, SMT
      <3> QED
        BY <1>1, <2>2, <3>1, Zenon
    <2> QED
      BY <2>1, <2>2
  <1>6. ASSUME "peerFin" \in rx.flags PROVE Received = StreamBytes /\ DOMAIN rx.ooo = {}
    <2>1. Received = StreamBytes
      BY <1>1, <1>4, <1>6, Constants, SMT
    <2>2. ASSUME NEW seq \in DOMAIN rx.ooo PROVE FALSE
      <3>1. /\ Position(seq) \in Nat /\ Stop(rx.ooo, seq) \in Nat
            /\ Stop(rx.ooo, seq) <= StreamBytes /\ Position(seq) < Stop(rx.ooo, seq)
        BY <1>1, RangeIs
      <3>2. v < Position(seq) /\ v = StreamBytes + 1
        BY <1>1, <1>6, Zenon DEF Beyond, v
      <3> QED
        BY <3>1, <3>2, Constants, SMT
    <2> QED
      BY <2>1, <2>2, Zenon
  <1> QED
    BY <1>3, <1>5, <1>6, Zenon DEF DeliversInOrder, written

LEMMA InvariantBuffers == IInv => BufferExact
  <1> SUFFICES ASSUME IInv PROVE BufferExact
    OBVIOUS
  <1> DEFINE v == Expected(rx)
             o == rx.ooo
  <1>1. /\ Receiver(rx) /\ Fields(rx) /\ Stored(o) /\ Beyond(rx)
        /\ rx.oooBytes = Cardinality(Held(o))
    BY Zenon DEF IInv, Receiving, Receiver, Buffer
  <1>2. v \in Nat /\ rx.vmSeq \in SeqNumbers
    BY <1>1, FieldTypes
  <1>3. ASSUME NEW seq \in DOMAIN o
        PROVE  /\ 0 < Ahead(seq, rx.vmSeq)
               /\ Ahead(seq, rx.vmSeq) + Len(o[seq]) <= Capacity
               /\ o[seq] # <<>>
               /\ o[seq] = [i \in 1 .. Len(o[seq]) |-> Position(seq) + i - 1]
               /\ \A other \in DOMAIN o \ {seq} : Covered(seq) \cap Covered(other) = {}
    <2>1. /\ seq \in SeqNumbers /\ Position(seq) \in Nat /\ o[seq] \in Seq(Bytes)
          /\ Len(o[seq]) \in Nat \ {0} /\ Stop(o, seq) \in Nat /\ Stands(o[seq], Position(seq))
          /\ Stop(o, seq) = Position(seq) + Len(o[seq])
      BY <1>1, RangeIs DEF Stop
    <2>2. v < Position(seq) /\ Stop(o, seq) <= v + Capacity
      BY <1>1, Zenon DEF Beyond
    <2> DEFINE bytes == o[seq]
               len == Len(bytes)
               ahead == Ahead(seq, rx.vmSeq)
    <2>3. ahead = IF Position(seq) >= v THEN Position(seq) - v ELSE Position(seq) - v + SeqSpace
      BY <1>2, <2>1, AheadPositions, Zenon DEF Expected
    <2> HIDE DEF v, o, len, ahead
    <2>4. 0 < ahead /\ ahead + len <= Capacity
      <3>1. Stop(o, seq) = Position(seq) + len /\ len \in Nat
        BY <2>1 DEF len
      <3>2. Position(seq) \in Nat
        BY <2>1
      <3>3. ahead = Position(seq) - v
        BY <1>2, <2>2, <2>3, <3>2, SMT
      <3> QED
        BY <1>2, <2>2, <3>1, <3>2, <3>3, CapacityIs, SMT
    <2>5. bytes # <<>>
      <3>1. Stored(o)
        BY <1>1
      <3> QED
        BY <3>1, Zenon DEF Stored
    <2>6. bytes = [i \in 1 .. Len(bytes) |-> Position(seq) + i - 1]
      <3>1. bytes \in Seq(Bytes) /\ Stands(bytes, Position(seq)) /\ Position(seq) \in Nat
        BY <2>1
      <3> HIDE DEF bytes
      <3>2. DOMAIN bytes = 1 .. Len(bytes) /\ bytes \in [1 .. Len(bytes) -> Bytes]
        BY <3>1, LenProperties
      <3>3. \A i \in 1 .. Len(bytes) : bytes[i] = Position(seq) + (i - 1)
        BY <3>1, Zenon DEF Stands
      <3>4. \A i \in 1 .. Len(bytes) : Position(seq) + (i - 1) = Position(seq) + i - 1
        BY <3>1, SMT
      <3> QED
        BY <3>2, <3>3, <3>4, Zenon
    <2>7. ASSUME NEW other \in DOMAIN o \ {seq} PROVE Covered(seq) \cap Covered(other) = {}
      <3>1. /\ other \in SeqNumbers /\ Position(other) \in Nat /\ Stop(o, other) \in Nat
        BY <1>1, RangeIs
      <3>2. Position(other) # Position(seq)
        BY <2>1, <3>1, OnePosition, Zenon
      <3>3. /\ Position(seq) < Position(other) => Stop(o, seq) <= Position(other)
            /\ Position(other) < Position(seq) => Stop(o, other) <= Position(seq)
        BY <1>1, Zenon DEF Stored
      <3>4. /\ Covered(seq) = Position(seq) .. Stop(o, seq) - 1
            /\ Covered(other) = Position(other) .. Stop(o, other) - 1
        BY <2>1, <3>1, SMT DEF Covered, Stop, o
      <3>5. Position(seq) \in Nat /\ Stop(o, seq) \in Nat
        BY <2>1
      <3> QED
        BY <3>1, <3>2, <3>3, <3>4, <3>5, SMT
    <2> QED
      BY <2>4, <2>5, <2>6, <2>7 DEF len, ahead
  <1>4. UNION {Covered(seq) : seq \in DOMAIN o} = Held(o)
    <2>1. ASSUME NEW seq \in DOMAIN o PROVE Covered(seq) = Position(seq) .. Stop(o, seq) - 1
      <3>1. Position(seq) \in Nat /\ Len(o[seq]) \in Nat
        BY <1>1, RangeIs
      <3> QED
        BY <3>1, SMT DEF Covered, Stop
    <2> HIDE DEF o
    <2> QED
      BY <2>1, Zenon DEF Held
  <1> QED
    BY <1>1, <1>3, <1>4, Zenon DEF BufferExact

\* Every field keeps its type: sequence numbers stay inside the space, fewer segments
\* than TCP_ACK_EVERY_SEGMENTS wait to be acknowledged, and vmOutOfOrderBytes is never
\* negative although the ranges are counted when they come and when they go.
THEOREM TypeCorrect == Spec => []TypeOK
  BY Invariant, InvariantTypes, PTL

\* However the network loses, repeats, reorders and cuts the VM's segments,
\* handleTCP and drainTCPOutOfOrder write its bytes to the sink in order and once,
\* all that is acknowledged as long as the sink takes it, and FIN only behind the last.
THEOREM Ordered == Spec => []DeliversInOrder
  BY Invariant, InvariantDelivers, PTL

\* bufferTCPOutOfOrder keeps disjoint ranges of the right bytes, beyond vmSeq and
\* within the window, and vmOutOfOrderBytes is the number of their bytes.
THEOREM BufferedExactly == Spec => []BufferExact
  BY Invariant, InvariantBuffers, PTL

\* What the VM was last told is what the relay knows: the window is closed exactly while
\* the sink pushes back, and the number expected next was told or will be by the timer of
\* the delayed acknowledgement (scheduleTCPAck, sendTCPAck, onTCPReceiveDrain).
THEOREM VmKeptInformed == Spec => []VmIsTold
  <1>1. IInv => AckOwed
    BY Zenon DEF IInv, Told, AckOwed
  <1>2. IInv => WindowFollowsSink
    BY Zenon DEF IInv, Told, WindowFollowsSink
  <1>3. IInv => VmIsTold
    BY <1>1, <1>2 DEF VmIsTold
  <1> QED
    BY <1>3, Invariant, PTL
=============================================================================
