------------------------- MODULE LogAndStoreProofs --------------------------
(***************************************************************************)
(* Proofs about what is read out of a list: the op log, whose ring is the  *)
(* bounded log its callers are promised; the dashboard, whose pages read   *)
(* it behind a cursor; and the document store, which filters, rewrites and *)
(* pages its collections.  They rest on the same facts about picking       *)
(* places out of a sequence, which come first.                             *)
(***************************************************************************)
EXTENDS Dashboard, DocStore, FiniteSetTheorems, SequenceTheorems, NaturalsInduction,
        WellFoundedInduction, TLAPS

\* How many members of a set stand before one of them.
Before(S, k) == Cardinality({j \in S : j < k})

LEMMA RankGrows ==
  ASSUME NEW S \in SUBSET Nat, IsFiniteSet(S), NEW j \in S, NEW k \in S, j < k
  PROVE  Before(S, j) \in Nat /\ Before(S, k) \in Nat /\ Before(S, j) < Before(S, k)
<1> DEFINE A == {i \in S : i < j}
           B == {i \in S : i < k}
<1>1. IsFiniteSet(A) /\ IsFiniteSet(B)
  BY FS_Subset
<1>2. j \notin A /\ A \cup {j} \subseteq B
  <2>1. j \in Nat /\ k \in Nat /\ j \in B /\ j \notin A
    OBVIOUS
  <2>2. ASSUME NEW i \in A PROVE i \in B
    <3>1. i \in Nat /\ i \in S /\ i < j
      OBVIOUS
    <3> QED
      BY <2>1, <3>1
  <2> QED
    BY <2>1, <2>2
<1> HIDE DEF A, B
<1>3. Cardinality(A \cup {j}) = Cardinality(A) + 1 /\ Cardinality(A \cup {j}) <= Cardinality(B)
  BY <1>1, <1>2, FS_AddElement, FS_Subset
<1>4. Cardinality(A) \in Nat /\ Cardinality(B) \in Nat
  BY <1>1, FS_CardinalityType
<1> QED
  BY <1>3, <1>4 DEF Before, A, B

LEMMA RankTaken ==
  ASSUME NEW S \in SUBSET Nat, IsFiniteSet(S)
  PROVE  /\ Cardinality(S) \in Nat
         /\ \A n \in 1 .. Cardinality(S) : \E k \in S : Before(S, k) = n - 1
<1>1. Cardinality(S) \in Nat
  BY FS_CardinalityType
<1>2. PICK m \in Nat : m = Cardinality(S)
  BY <1>1
<1> DEFINE T == 1 .. m
           f == [k \in S |-> Before(S, k) + 1]
<1>3. ASSUME NEW k \in S PROVE Before(S, k) \in Nat /\ Before(S, k) + 1 \in T
  <2> DEFINE A == {i \in S : i < k}
  <2>1. A \subseteq S \ {k}
    OBVIOUS
  <2>2. IsFiniteSet(S \ {k}) /\ Cardinality(S \ {k}) = m - 1
    BY <1>2, FS_RemoveElement
  <2> HIDE DEF A
  <2>3. IsFiniteSet(A) /\ Cardinality(A) <= m - 1
    <3>1. PICK R : R = S \ {k}
      OBVIOUS
    <3>2. IsFiniteSet(R) /\ Cardinality(R) = m - 1 /\ A \in SUBSET R
      BY <2>1, <2>2, <3>1
    <3> QED
      BY <3>2, FS_Subset
  <2>4. Cardinality(A) \in Nat
    BY <2>3, FS_CardinalityType
  <2> QED
    BY <1>2, <2>3, <2>4 DEF A, Before
<1>4. f \in Injection(S, T)
  <2>1. f \in [S -> T]
    BY <1>3
  <2>2. ASSUME NEW j \in S, NEW k \in S, f[j] = f[k] PROVE j = k
    <3>1. Before(S, j) = Before(S, k) /\ Before(S, j) \in Nat
      BY <2>2, <1>3
    <3>2. ~(j < k) /\ ~(k < j) /\ j \in Nat /\ k \in Nat
      BY <3>1, RankGrows
    <3> QED
      BY <3>2
  <2> QED
    BY <2>1, <2>2 DEF Injection, IsInjective
<1>5. IsFiniteSet(T) /\ Cardinality(T) = m
  BY <1>2, FS_Interval
<1> HIDE DEF f, T
<1>6. f \in Surjection(S, T)
  BY <1>2, <1>4, <1>5, FS_Injection
<1>7. ASSUME NEW n \in T PROVE \E k \in S : f[k] = n
  BY <1>6 DEF Surjection
<1>8. ASSUME NEW n \in 1 .. m PROVE \E k \in S : Before(S, k) = n - 1
  <2>1. PICK k \in S : f[k] = n
    BY <1>7 DEF T
  <2>2. f[k] = Before(S, k) + 1
    BY DEF f
  <2> QED
    BY <2>1, <2>2, <1>3
<1> QED
  BY <1>1, <1>2, <1>8

\* A set of places, in order: every entry is a member, and they ascend.
LEMMA OrderIs ==
  ASSUME NEW S \in SUBSET Nat, IsFiniteSet(S)
  PROVE  /\ Cardinality(S) \in Nat
         /\ InOrder(S) \in [1 .. Cardinality(S) -> S]
         /\ InOrder(S) \in Seq(S) /\ Len(InOrder(S)) = Cardinality(S)
         /\ \A i, j \in 1 .. Cardinality(S) : i < j => InOrder(S)[i] < InOrder(S)[j]
         /\ \A k \in S : \E i \in 1 .. Cardinality(S) : InOrder(S)[i] = k
<1>1. PICK m \in Nat : m = Cardinality(S)
  BY RankTaken
<1> DEFINE f == InOrder(S)
<1>2. ASSUME NEW i \in 1 .. m PROVE f[i] \in S /\ Before(S, f[i]) = i - 1
  <2>1. \E k \in S : Before(S, k) = i - 1
    BY <1>1, RankTaken
  <2>2. f[i] = CHOOSE k \in S : Before(S, k) = i - 1
    BY <1>1 DEF InOrder, Before
  <2> QED
    BY <2>1, <2>2
<1>3. f = [i \in 1 .. m |-> f[i]]
  BY <1>1 DEF InOrder
<1>4. ASSUME NEW i \in 1 .. m, NEW j \in 1 .. m, i < j PROVE f[i] < f[j]
  <2>1. f[i] \in S /\ f[j] \in S /\ Before(S, f[i]) = i - 1 /\ Before(S, f[j]) = j - 1
    BY <1>2
  <2>2. PICK a \in S, b \in S : a = f[i] /\ b = f[j]
    BY <2>1
  <2> HIDE DEF f
  <2>3. a # b /\ ~(b < a) /\ a \in Nat /\ b \in Nat
    BY <2>1, <2>2, <1>4, RankGrows
  <2> QED
    BY <2>2, <2>3
<1>5. ASSUME NEW k \in S PROVE \E i \in 1 .. m : f[i] = k
  <2> DEFINE A == {i \in S : i < k}
  <2>1. A \subseteq S \ {k}
    OBVIOUS
  <2>2. IsFiniteSet(S \ {k}) /\ Cardinality(S \ {k}) = m - 1
    BY <1>1, FS_RemoveElement
  <2> HIDE DEF A
  <2>3. IsFiniteSet(A) /\ Cardinality(A) <= m - 1
    <3>1. PICK R : R = S \ {k}
      OBVIOUS
    <3>2. IsFiniteSet(R) /\ Cardinality(R) = m - 1 /\ A \in SUBSET R
      BY <2>1, <2>2, <3>1
    <3> QED
      BY <3>2, FS_Subset
  <2>4. Cardinality(A) \in Nat
    BY <2>3, FS_CardinalityType
  <2>5. PICK i \in 1 .. m : Before(S, k) = i - 1
    <3>1. Before(S, k) = Cardinality(A)
      BY DEF A, Before
    <3>2. Cardinality(A) + 1 \in 1 .. m
      BY <1>1, <2>3, <2>4
    <3>3. Before(S, k) = (Cardinality(A) + 1) - 1
      BY <2>4, <3>1
    <3> QED
      BY <3>2, <3>3
  <2>6. PICK q \in S : q = f[i] /\ Before(S, q) = i - 1
    BY <1>2
  <2> HIDE DEF f
  <2>7. ~(q < k) /\ ~(k < q) /\ q \in Nat /\ k \in Nat
    BY <2>5, <2>6, RankGrows
  <2> QED
    BY <2>6, <2>7
<1> HIDE DEF f
<1>6. f \in [1 .. m -> S] /\ f \in Seq(S) /\ Len(f) = m
  BY <1>2, <1>3, <1>1
<1> QED
  BY <1>1, <1>4, <1>5, <1>6 DEF f

\* What a loop keeps of a sequence.
LEMMA PickedIs ==
  ASSUME NEW D, NEW s \in Seq(D), NEW S \in SUBSET DOMAIN s
  PROVE  /\ Picked(s, S) \in Seq(D)
         /\ Len(Picked(s, S)) = Cardinality(S) /\ Cardinality(S) <= Len(s)
         /\ DOMAIN Picked(s, S) = 1 .. Cardinality(S)
         /\ InOrder(S) \in [1 .. Cardinality(S) -> S]
         /\ \A i \in 1 .. Cardinality(S) : Picked(s, S)[i] = s[InOrder(S)[i]]
         /\ \A i, j \in 1 .. Cardinality(S) : i < j => InOrder(S)[i] < InOrder(S)[j]
<1>1. DOMAIN s = 1 .. Len(s) /\ Len(s) \in Nat
  OBVIOUS
<1>2. IsFiniteSet(DOMAIN s) /\ Cardinality(DOMAIN s) = Len(s)
  <2>1. IsFiniteSet(1 .. Len(s)) /\ Cardinality(1 .. Len(s)) = Len(s)
    <3>1. PICK n \in Nat : n = Len(s)
      BY <1>1
    <3>2. IsFiniteSet(1 .. n) /\ Cardinality(1 .. n) = IF 1 > n THEN 0 ELSE n - 1 + 1
      BY FS_Interval
    <3> QED
      BY <3>1, <3>2
  <2> QED
    BY <1>1, <2>1
<1>3. IsFiniteSet(S) /\ Cardinality(S) <= Len(s) /\ S \in SUBSET Nat
  BY <1>1, <1>2, FS_Subset
<1>4. PICK m \in Nat : m = Cardinality(S)
  BY <1>3, FS_CardinalityType
<1>5. PICK f : f = InOrder(S)
  OBVIOUS
<1>6. f \in [1 .. m -> S] /\ \A i, j \in 1 .. m : i < j => f[i] < f[j]
  BY <1>3, <1>4, <1>5, OrderIs
<1>7. Picked(s, S) = [i \in 1 .. m |-> s[f[i]]]
  BY <1>4, <1>5 DEF Picked
<1>8. \A i \in 1 .. m : s[f[i]] \in D
  BY <1>6
<1>9. /\ Picked(s, S) \in [1 .. m -> D]
      /\ \A i \in 1 .. m : Picked(s, S)[i] = s[f[i]]
  BY <1>7, <1>8
<1>10. Picked(s, S) \in Seq(D) /\ Len(Picked(s, S)) = m /\ DOMAIN Picked(s, S) = 1 .. m
  BY <1>9
<1> QED
  BY <1>3, <1>4, <1>5, <1>6, <1>9, <1>10
\* A set of naturals that is not empty has a least member.
LEMMA SmallestOfNats ==
  ASSUME NEW S \in SUBSET Nat, NEW n \in S
  PROVE  \E i \in S : \A j \in S : i <= j
<1> DEFINE R == OpToRel(<, Nat)
<1>1. IsWellFoundedOn(R, Nat)
  BY NatLessThanWellFounded
<1>2. \A i, j \in Nat : <<i, j>> \in R <=> i < j
  BY DEF OpToRel
<1> HIDE DEF R
<1>3. PICK i \in S : \A j \in S : <<j, i>> \notin R
  BY <1>1, WFMin
<1>4. \A j \in S : ~(j < i)
  BY <1>2, <1>3
<1>5. \A j \in S : i <= j
  BY <1>4
<1> QED
  BY <1>5

-----------------------------------------------------------------------------
(* The op log *)

\* One step round the ring.
LEMMA NextSlot ==
  ASSUME NEW i \in Nat, NEW size \in Nat, i < size
  PROVE  (i + 1) % size = IF i + 1 = size THEN 0 ELSE i + 1
OBVIOUS

Entry == [n : Nat \ {0}, what : Payloads]

\* What the copy of the ring holds, place by place.
LEMMA SnapshotPlaces ==
  ASSUME NEW s \in Seq(Entry), NEW k \in 0..Len(s)
  PROVE  LET copy == SubSeq(s, k + 1, Len(s)) \o SubSeq(s, 1, k) IN
         /\ copy \in Seq(Entry)
         /\ Len(copy) = Len(s)
         /\ \A i \in 1..Len(s) :
              copy[i] = IF i <= Len(s) - k THEN s[k + i] ELSE s[i - (Len(s) - k)]
<1> DEFINE a == SubSeq(s, k + 1, Len(s))
           b == SubSeq(s, 1, k)
<1>1. a \in Seq(Entry) /\ Len(a) = Len(s) - k /\ \A i \in 1..(Len(s) - k) : a[i] = s[k + i]
  OBVIOUS
<1>2. b \in Seq(Entry) /\ Len(b) = k /\ \A i \in 1..k : b[i] = s[i]
  OBVIOUS
<1> HIDE DEF a, b
<1>3. /\ a \o b \in Seq(Entry)
      /\ Len(a \o b) = Len(a) + Len(b)
      /\ \A i \in 1..(Len(a) + Len(b)) :
           (a \o b)[i] = IF i <= Len(a) THEN a[i] ELSE b[i - Len(a)]
  BY <1>1, <1>2, ConcatProperties
<1> DEFINE c == a \o b
<1> HIDE DEF c
<1>4. ASSUME NEW i \in 1..Len(s)
      PROVE  c[i] = IF i <= Len(s) - k THEN s[k + i] ELSE s[i - (Len(s) - k)]
  <2>1. Len(s) \in Nat /\ k \in Nat /\ i \in Nat
    OBVIOUS
  <2>2. c[i] = IF i <= Len(s) - k THEN a[i] ELSE b[i - (Len(s) - k)]
    BY <1>1, <1>2, <1>3, <2>1 DEF c
  <2>3. CASE i <= Len(s) - k
    BY <2>1, <2>2, <2>3, <1>1
  <2>4. CASE i > Len(s) - k
    BY <2>1, <2>2, <2>4, <1>2
  <2> QED
    BY <2>1, <2>3, <2>4
<1>5. c \in Seq(Entry) /\ Len(c) = Len(s)
  BY <1>1, <1>2, <1>3 DEF c
<1> QED
  BY <1>4, <1>5 DEF a, b, c

-----------------------------------------------------------------------------
(* The ring's own invariant *)

RingOK == LogTypeOK /\ Placed

LEMMA RingInit == LogInit => RingOK
BY OpLogAssumption DEF LogInit, RingOK, LogTypeOK, Placed

\* Recording while there is room appends, and nothing moves.
LEMMA RecordWithRoom ==
  ASSUME RingOK, NEW payload \in Payloads, Record(payload), Len(entries) < Limit
  PROVE  RingOK' /\ entries' = Append(entries, [n |-> next, what |-> payload])
                 /\ oldest = 0 /\ oldest' = 0 /\ dropped' = dropped
<1>1. /\ next' = next + 1
      /\ entries' = Append(entries, [n |-> next, what |-> payload])
      /\ oldest = 0 /\ oldest' = 0 /\ dropped' = dropped
  BY DEF RingOK, Placed, Record
<1>2. LogTypeOK'
  BY <1>1, OpLogAssumption DEF RingOK, LogTypeOK
<1>3. Placed'
  <2>1. /\ Len(entries') = Len(entries) + 1
        /\ entries'[Len(entries) + 1] = [n |-> next, what |-> payload]
        /\ \A slot \in 1..Len(entries) : entries'[slot] = entries[slot]
    BY <1>1 DEF RingOK, LogTypeOK
  <2>2. next = Len(entries) + 1 /\ dropped = 0 /\ Len(entries) \in Nat
    BY DEF RingOK, LogTypeOK, Placed
  <2>3. ASSUME NEW slot \in 1..Len(entries') PROVE entries'[slot].n = OrdinalAt(slot)'
    <3>1. CASE slot = Len(entries) + 1
      BY <1>1, <2>1, <2>2, <3>1 DEF OrdinalAt
    <3>2. CASE slot \in 1..Len(entries)
      BY <1>1, <2>1, <2>2, <3>2 DEF RingOK, Placed, OrdinalAt
    <3> QED
      BY <2>1, <2>2, <3>1, <3>2
  <2> QED
    BY <1>1, <2>1, <2>2, <2>3 DEF Placed
<1> QED
  BY <1>1, <1>2, <1>3 DEF RingOK

\* Recording in a full ring overwrites the oldest entry and makes the next
\* slot the oldest.
LEMMA RecordWhenFull ==
  ASSUME RingOK, NEW payload \in Payloads, Record(payload), Len(entries) >= Limit
  PROVE  /\ RingOK'
         /\ Len(entries) = Limit
         /\ entries' = [entries EXCEPT ![oldest + 1] = [n |-> next, what |-> payload]]
         /\ oldest' = IF oldest + 1 = Limit THEN 0 ELSE oldest + 1
         /\ dropped' = dropped + 1
<1>1. Len(entries) = Limit /\ oldest \in Nat /\ oldest < Limit
  BY OpLogAssumption DEF RingOK, LogTypeOK
<1>2. (oldest + 1) % Limit = IF oldest + 1 = Limit THEN 0 ELSE oldest + 1
  BY <1>1, OpLogAssumption, NextSlot
<1>3. /\ next' = next + 1
      /\ entries' = [entries EXCEPT ![oldest + 1] = [n |-> next, what |-> payload]]
      /\ oldest' = (oldest + 1) % Limit
      /\ dropped' = dropped + 1
  BY <1>1 DEF Record
<1>4. oldest' = IF oldest + 1 = Limit THEN 0 ELSE oldest + 1
  BY <1>2, <1>3
<1>5. LogTypeOK'
  BY <1>1, <1>3, <1>4, OpLogAssumption DEF RingOK, LogTypeOK
<1>6. Placed'
  <2>1. /\ Len(entries') = Limit /\ Limit \in Nat \ {0}
        /\ entries'[oldest + 1] = [n |-> next, what |-> payload]
        /\ \A slot \in 1..Limit : slot # oldest + 1 => entries'[slot] = entries[slot]
    BY <1>1, <1>3, OpLogAssumption DEF RingOK, LogTypeOK
  <2>2. next = dropped + Limit + 1 /\ dropped \in Nat
    BY <1>1 DEF RingOK, LogTypeOK, Placed
  <2>3. ASSUME NEW slot \in 1..Limit PROVE entries'[slot].n = OrdinalAt(slot)'
    <3>1. CASE slot = oldest + 1
      BY <1>1, <1>3, <1>4, <2>1, <2>2, <3>1 DEF OrdinalAt
    <3>2. CASE slot # oldest + 1
      <4>1. entries'[slot].n = OrdinalAt(slot)
        BY <1>1, <2>1, <3>2 DEF RingOK, Placed
      <4> QED
        BY <1>1, <1>3, <1>4, <2>1, <2>2, <3>2, <4>1 DEF OrdinalAt
    <3> QED
      BY <3>1, <3>2
  <2> QED
    BY <1>1, <1>3, <2>1, <2>2, <2>3 DEF Placed
<1> QED
  BY <1>1, <1>3, <1>4, <1>5, <1>6 DEF RingOK

LEMMA RingStep == RingOK /\ [LogNext]_logVars => RingOK'
<1> SUFFICES ASSUME RingOK, [LogNext]_logVars PROVE RingOK'
  OBVIOUS
<1>1. CASE LogNext
  <2>1. PICK payload \in Payloads : Record(payload)
    BY <1>1 DEF LogNext
  <2>2. Len(entries) < Limit \/ Len(entries) >= Limit
    BY OpLogAssumption DEF RingOK, LogTypeOK
  <2>3. CASE Len(entries) < Limit
    BY <2>1, <2>3, RecordWithRoom
  <2>4. CASE Len(entries) >= Limit
    BY <2>1, <2>4, RecordWhenFull
  <2> QED
    BY <2>2, <2>3, <2>4
<1>2. CASE UNCHANGED logVars
  BY <1>2 DEF logVars, RingOK, LogTypeOK, Placed, OrdinalAt
<1> QED
  BY <1>1, <1>2

\* Wherever the ring stands, each slot holds the ordinal its place calls for:
\* ordinals are consecutive, none is reused, and dropped counts exactly the
\* ones that are gone (Log.Record).
THEOREM OrdinalsPlaced == LogSpec => []Placed
<1>1. LogSpec => []RingOK
  BY RingInit, RingStep, PTL DEF LogSpec
<1> QED
  BY <1>1, PTL DEF RingOK

-----------------------------------------------------------------------------
(* The ring implements the bounded log *)

\* The copy of the ring, place by place, in a state the ring can be in.
LEMMA SnapshotIs ==
  ASSUME RingOK
  PROVE  /\ Snapshot \in Seq(Entry)
         /\ Len(Snapshot) = Len(entries)
         /\ \A i \in 1..Len(entries) :
              Snapshot[i] = IF i <= Len(entries) - oldest THEN entries[oldest + i]
                            ELSE entries[i - (Len(entries) - oldest)]
<1>1. entries \in Seq(Entry) /\ oldest \in 0..Len(entries)
  BY OpLogAssumption DEF RingOK, LogTypeOK, Placed, Entry
<1> QED
  BY <1>1, SnapshotPlaces DEF Snapshot

\* The same of the state a step leads to.
LEMMA SnapshotIsNext ==
  ASSUME RingOK'
  PROVE  /\ Snapshot' \in Seq(Entry)
         /\ Len(Snapshot') = Len(entries')
         /\ \A i \in 1..Len(entries') :
              Snapshot'[i] = IF i <= Len(entries') - oldest' THEN entries'[oldest' + i]
                             ELSE entries'[i - (Len(entries') - oldest')]
<1>1. entries' \in Seq(Entry) /\ oldest' \in 0..Len(entries')
  BY OpLogAssumption DEF RingOK, LogTypeOK, Placed, Entry
<1> QED
  BY <1>1, SnapshotPlaces DEF Snapshot

\* With room left, the copy grows at its end.
LEMMA SnapshotGrows ==
  ASSUME RingOK, NEW payload \in Payloads, Record(payload), Len(entries) < Limit
  PROVE  Bounded!Add(payload)
<1> DEFINE entry == [n |-> next, what |-> payload]
<1>1. RingOK' /\ entries' = Append(entries, entry) /\ oldest = 0 /\ oldest' = 0
              /\ dropped' = dropped
  BY RecordWithRoom
<1>2. entries \in Seq(Entry) /\ entry \in Entry /\ Len(entries) \in Nat
  BY DEF RingOK, LogTypeOK, Entry
<1>3. next = dropped + Len(entries) + 1
  BY DEF RingOK, Placed
<1> HIDE DEF entry
<1>4. Snapshot = entries
  <2>1. Snapshot \in Seq(Entry) /\ Len(Snapshot) = Len(entries)
        /\ \A i \in 1..Len(entries) : Snapshot[i] = entries[i]
    BY <1>1, <1>2, SnapshotIs
  <2> QED
    BY <1>2, <2>1, SeqEqual
<1>5. Snapshot' = entries'
  <2>1. entries' \in Seq(Entry) /\ Len(entries') \in Nat
    BY <1>1, <1>2
  <2>2. /\ Snapshot' \in Seq(Entry)
        /\ Len(Snapshot') = Len(entries')
        /\ \A i \in 1..Len(entries') :
             Snapshot'[i] = IF i <= Len(entries') - oldest' THEN entries'[oldest' + i]
                            ELSE entries'[i - (Len(entries') - oldest')]
    BY <1>1, SnapshotIsNext
  <2>3. \A i \in 1..Len(entries') : Snapshot'[i] = entries'[i]
    BY <1>1, <2>1, <2>2
  <2> QED
    BY <2>1, <2>2, <2>3, SeqEqual
<1>6. Snapshot' = Append(Snapshot, [n |-> dropped + Len(Snapshot) + 1, what |-> payload])
  BY <1>1, <1>3, <1>4, <1>5 DEF entry
<1> QED
  BY <1>1, <1>4, <1>6 DEF Bounded!Add

\* When the ring is full, the copy loses its head and grows at its end.
LEMMA SnapshotShifts ==
  ASSUME RingOK, NEW payload \in Payloads, Record(payload), Len(entries) >= Limit
  PROVE  Bounded!Add(payload)
<1> DEFINE entry == [n |-> next, what |-> payload]
<1>1. /\ RingOK'
      /\ Len(entries) = Limit
      /\ entries' = [entries EXCEPT ![oldest + 1] = entry]
      /\ oldest' = IF oldest + 1 = Limit THEN 0 ELSE oldest + 1
      /\ dropped' = dropped + 1
  BY RecordWhenFull
<1>2. /\ entries \in Seq(Entry) /\ entry \in Entry /\ oldest \in Nat /\ oldest < Limit
      /\ Limit \in Nat \ {0} /\ next = dropped + Limit + 1
  BY <1>1, OpLogAssumption DEF RingOK, LogTypeOK, Placed, Entry
<1> HIDE DEF entry
<1>3. /\ Snapshot \in Seq(Entry)
      /\ Len(Snapshot) = Limit
      /\ \A i \in 1..Limit :
           Snapshot[i] = IF i <= Limit - oldest THEN entries[oldest + i]
                         ELSE entries[i - (Limit - oldest)]
  BY <1>1, SnapshotIs
<1>4. /\ entries' \in Seq(Entry) /\ Len(entries') = Limit
      /\ \A i \in 1..Limit : entries'[i] = IF i = oldest + 1 THEN entry ELSE entries[i]
  BY <1>1, <1>2
<1>5. /\ Snapshot' \in Seq(Entry)
      /\ Len(Snapshot') = Limit
      /\ \A i \in 1..Limit :
           Snapshot'[i] = IF i <= Limit - oldest' THEN entries'[oldest' + i]
                          ELSE entries'[i - (Limit - oldest')]
  BY <1>1, <1>4, SnapshotIsNext
<1> DEFINE shifted == Append(Tail(Snapshot), entry)
<1>6. /\ shifted \in Seq(Entry) /\ Len(shifted) = Limit
      /\ shifted[Limit] = entry
      /\ \A i \in 1..(Limit - 1) : shifted[i] = Snapshot[i + 1]
  BY <1>2, <1>3
<1> HIDE DEF shifted
<1>7. ASSUME NEW i \in 1..Limit PROVE Snapshot'[i] = shifted[i]
  <2>1. CASE i = Limit
    BY <1>1, <1>2, <1>4, <1>5, <1>6, <2>1
  <2>2. CASE i < Limit
    <3>1. shifted[i] = IF i + 1 <= Limit - oldest THEN entries[oldest + i + 1]
                       ELSE entries[i + 1 - (Limit - oldest)]
      BY <1>2, <1>3, <1>6, <2>2
    <3>2. Snapshot'[i] = IF i <= Limit - oldest' THEN entries'[oldest' + i]
                         ELSE entries'[i - (Limit - oldest')]
      BY <1>5
    <3>3. CASE oldest + 1 = Limit
      <4>1. oldest' = 0 /\ Limit - oldest = 1 /\ i + 1 <= Limit /\ i <= Limit - 1 /\ i # oldest + 1
        BY <1>1, <1>2, <2>2, <3>3
      <4>2. shifted[i] = entries[i] /\ Snapshot'[i] = entries'[i]
        BY <1>2, <3>1, <3>2, <4>1
      <4> QED
        BY <1>4, <4>1, <4>2
    <3>4. CASE oldest + 1 # Limit
      BY <1>1, <1>2, <1>4, <2>2, <3>1, <3>2, <3>4
    <3> QED
      BY <3>3, <3>4
  <2> QED
    BY <1>2, <2>1, <2>2
<1>8. Snapshot' = shifted
  BY <1>5, <1>6, <1>7, SeqEqual
<1>9. entry = [n |-> dropped + Len(Snapshot) + 1, what |-> payload]
  BY <1>2, <1>3 DEF entry
<1> QED
  BY <1>1, <1>2, <1>3, <1>8, <1>9 DEF Bounded!Add, shifted

\* Every step of the ring is a step of the bounded log: what readers copy out
\* is always the latest entries in order, numbered without a gap, beside the
\* exact count of what is gone (Log.Record, Log.snapshot, Log.DumpTo).
THEOREM RingIsBoundedLog == LogSpec => RefinesBoundedLog
<1>1. LogSpec => []RingOK
  BY RingInit, RingStep, PTL DEF LogSpec
<1>2. LogInit => Bounded!Init
  BY DEF LogInit, Bounded!Init, Snapshot
<1>3. RingOK /\ [LogNext]_logVars => [Bounded!Next]_<<Snapshot, dropped>>
  <2> SUFFICES ASSUME RingOK, [LogNext]_logVars
               PROVE  [Bounded!Next]_<<Snapshot, dropped>>
    OBVIOUS
  <2>1. CASE LogNext
    <3>1. PICK payload \in Payloads : Record(payload)
      BY <2>1 DEF LogNext
    <3>2. Len(entries) < Limit \/ Len(entries) >= Limit
      BY OpLogAssumption DEF RingOK, LogTypeOK
    <3>3. Bounded!Add(payload)
      BY <3>1, <3>2, SnapshotGrows, SnapshotShifts
    <3> QED
      BY <3>3 DEF Bounded!Next
  <2>2. CASE UNCHANGED logVars
    BY <2>2 DEF logVars, Snapshot
  <2> QED
    BY <2>1, <2>2
<1> QED
  BY <1>1, <1>2, <1>3, PTL DEF LogSpec, RefinesBoundedLog, Bounded!Spec

-----------------------------------------------------------------------------
(* What readers of the log are given *)

\* The entries copied out are numbered without a gap, from the count of those
\* that are gone.
LEMMA Numbered ==
  ASSUME RingOK
  PROVE  /\ Snapshot \in Seq(Entry) /\ Len(entries) \in Nat /\ dropped \in Nat
         /\ DOMAIN Snapshot = 1 .. Len(entries)
         /\ \A i \in DOMAIN Snapshot : Snapshot[i].n = dropped + i
         /\ next = dropped + Len(entries) + 1
<1>1. /\ Snapshot \in Seq(Entry) /\ Len(Snapshot) = Len(entries)
      /\ \A i \in 1 .. Len(entries) :
           Snapshot[i] = IF i <= Len(entries) - oldest THEN entries[oldest + i]
                         ELSE entries[i - (Len(entries) - oldest)]
  BY SnapshotIs
<1>2. PICK n \in Nat, o \in Nat, d \in Nat :
        n = Len(entries) /\ o = oldest /\ d = dropped /\ o <= n /\ next = d + n + 1
  BY OpLogAssumption DEF RingOK, LogTypeOK, Placed
<1>3. \A slot \in 1 .. n : entries[slot].n = IF slot <= o THEN d + n - o + slot ELSE d + slot - o
  BY <1>2 DEF RingOK, Placed, OrdinalAt
<1>4. ASSUME NEW i \in 1 .. n PROVE Snapshot[i].n = d + i
  <2>1. CASE i <= n - o
    <3>1. PICK slot \in 1 .. n : slot = o + i /\ ~(slot <= o) /\ d + slot - o = d + i
      BY <1>2, <2>1
    <3>2. Snapshot[i] = entries[slot]
      BY <1>1, <1>2, <2>1, <3>1
    <3> QED
      BY <1>3, <3>1, <3>2
  <2>2. CASE ~(i <= n - o)
    <3>1. PICK slot \in 1 .. n : slot = i - (n - o) /\ slot <= o /\ d + n - o + slot = d + i
      BY <1>2, <2>2
    <3>2. Snapshot[i] = entries[slot]
      BY <1>1, <1>2, <2>2, <3>1
    <3> QED
      BY <1>3, <3>1, <3>2
  <2> QED
    BY <2>1, <2>2
<1>5. DOMAIN Snapshot = 1 .. n
  BY <1>1, <1>2
<1> QED
  BY <1>1, <1>2, <1>4, <1>5

\* What an answer holds of the log, for a cursor k: later entries only, in
\* order; and how many must be known to be gone if it skips some.
Fresh(f, k, top) ==
  /\ f \in Seq(Entry)
  /\ \A i \in DOMAIN f : f[i].n > k /\ f[i].n < top
  /\ \A i, j \in DOMAIN f : i < j => f[i].n < f[j].n
Covered(f, k, gone) == f # <<>> /\ f[1].n > k + 1 => gone >= f[1].n - 1
\* What lies between the cursor and an entry of the answer is in it, or gone.
Whole(f, k, gone) ==
  \A i \in DOMAIN f : \A m \in Nat :
    k < m /\ m <= f[i].n => m <= gone \/ \E j \in DOMAIN f : f[j].n = m

LEMMA SinceIs ==
  ASSUME RingOK, NEW k \in Nat
  PROVE  Fresh(Since(k), k, next) /\ Covered(Since(k), k, dropped) /\ Whole(Since(k), k, dropped)
<1>1. PICK s \in Seq(Entry), n \in Nat, d \in Nat :
        /\ s = Snapshot /\ n = Len(entries) /\ d = dropped /\ DOMAIN s = 1 .. n
        /\ \A i \in 1 .. n : s[i].n = d + i
        /\ next = d + n + 1
  BY Numbered
<1> DEFINE S == {i \in DOMAIN s : s[i].n > k}
<1>2. S \in SUBSET DOMAIN s /\ Since(k) = Picked(s, S)
  BY <1>1 DEF Since
<1>3. \A i \in DOMAIN s : i \in S <=> d + i > k
  BY <1>1
<1> HIDE DEF S
<1>4. PICK f, o, m : f = Picked(s, S) /\ o = InOrder(S) /\ m = Cardinality(S)
  OBVIOUS
<1>5. /\ f \in Seq(Entry) /\ DOMAIN f = 1 .. m /\ Len(f) = m
      /\ o \in [1 .. m -> S]
      /\ \A i \in 1 .. m : f[i] = s[o[i]]
      /\ \A i, j \in 1 .. m : i < j => o[i] < o[j]
  BY <1>2, <1>4, PickedIs
<1>6. m \in Nat
  BY <1>5
<1>10. S \in SUBSET Nat /\ IsFiniteSet(S)
  <2>1. S \in SUBSET (1 .. n)
    BY <1>1, <1>2
  <2>2. IsFiniteSet(1 .. n)
    BY FS_Interval
  <2>3. PICK A, B : A = 1 .. n /\ B = S /\ IsFiniteSet(A) /\ B \in SUBSET A
    BY <2>1, <2>2
  <2>4. IsFiniteSet(B)
    BY <2>3, FS_Subset
  <2> QED
    BY <2>1, <2>3, <2>4
<1>7. ASSUME NEW i \in 1 .. m PROVE o[i] \in 1 .. n /\ d + o[i] > k /\ f[i].n = d + o[i]
  <2>1. o[i] \in S /\ o[i] \in DOMAIN s
    BY <1>2, <1>5
  <2> QED
    BY <1>1, <1>3, <1>5, <2>1
<1>8. Fresh(f, k, next)
  <2>1. ASSUME NEW i \in 1 .. m PROVE f[i].n > k /\ f[i].n < next
    <3>1. PICK v \in 1 .. n : v = o[i] /\ d + v > k /\ f[i].n = d + v
      BY <1>7
    <3> QED
      BY <1>1, <3>1
  <2>2. ASSUME NEW i \in 1 .. m, NEW j \in 1 .. m, i < j PROVE f[i].n < f[j].n
    <3>1. PICK v \in 1 .. n, w \in 1 .. n : v = o[i] /\ w = o[j] /\ f[i].n = d + v /\ f[j].n = d + w
      BY <1>7
    <3>2. v < w
      BY <1>5, <2>2, <3>1
    <3> QED
      BY <3>1, <3>2
  <2> QED
    BY <1>5, <2>1, <2>2 DEF Fresh
<1>9. Covered(f, k, d)
  <2> SUFFICES ASSUME f # <<>>, f[1].n > k + 1 PROVE d >= f[1].n - 1
    BY DEF Covered
  <2>1. 1 \in 1 .. m
    BY <1>5, <1>6
  <2>2. PICK v \in 1 .. n : v = o[1] /\ v \in S /\ d + v > k /\ f[1].n = d + v
    BY <1>5, <1>7, <2>1
  <2>3. CASE v = 1
    BY <2>2, <2>3
  <2>4. CASE v # 1
    <3>1. PICK u \in 1 .. n : u = v - 1 /\ d + u > k
      BY <2>2, <2>4
    <3>2. u \in S
      BY <1>1, <1>3, <3>1
    <3>3. PICK i \in 1 .. m : o[i] = u
      BY <1>4, <1>10, <3>2, OrderIs
    <3>4. v <= u
      <4>1. i = 1 \/ 1 < i
        BY <1>6
      <4>2. CASE i = 1
        BY <2>2, <3>3, <4>2
      <4>3. CASE 1 < i
        <5>1. o[1] < o[i]
          BY <1>5, <2>1, <4>3
        <5> QED
          BY <2>2, <3>3, <5>1
      <4> QED
        BY <4>1, <4>2, <4>3
    <3> QED
      BY <3>1, <3>4
  <2> QED
    BY <2>3, <2>4
<1>11. Whole(f, k, d)
  <2> SUFFICES ASSUME NEW i \in 1 .. m, NEW e \in Nat, k < e, e <= f[i].n, ~(e <= d)
               PROVE  \E j \in 1 .. m : f[j].n = e
    BY <1>5 DEF Whole
  <2>1. PICK v \in 1 .. n : v = o[i] /\ f[i].n = d + v
    BY <1>7
  <2>2. PICK u \in 1 .. n : u = e - d /\ d + u > k /\ d + u = e
    BY <1>1, <2>1
  <2>3. u \in S
    BY <1>1, <1>3, <2>2
  <2>4. PICK j \in 1 .. m : o[j] = u
    BY <1>4, <1>10, <2>3, OrderIs
  <2>5. f[j].n = d + u
    BY <1>7, <2>4
  <2> QED
    BY <2>2, <2>5
<1> QED
  BY <1>1, <1>2, <1>4, <1>8, <1>9, <1>11
-----------------------------------------------------------------------------
(* The dashboard over the log *)

\* Whatever pages and clients do, the log takes the steps of a log, or none.
LEMMA LogOnly == [Next]_vars => [LogNext]_logVars
<1> SUFFICES ASSUME [Next]_vars PROVE [LogNext]_logVars
  OBVIOUS
<1>1. CASE UNCHANGED logVars
  BY <1>1
<1>2. CASE next <= MaxRecords /\ \E payload \in Payloads : Record(payload)
  BY <1>2 DEF LogNext
<1>3. CASE Next
  <2>1. CASE RecordOp \/ Arm \/ Reset \/ \E p \in Pages, i \in 1 .. MaxRules : Disarm(p, i)
    BY <1>2, <2>1, DashboardAssumption DEF RecordOp, Arm, Reset, Disarm
  <2>2. CASE \E p \in Pages : Poll(p)
    BY <1>1, <2>2 DEF Poll, logVars
  <2>3. CASE \E q \in polls : ReadRules(q) \/ ReadSince(q) \/ ReadDropped(q) \/ Receive(q) \/ Lose(q)
    BY <1>1, <2>3 DEF ReadRules, ReadSince, ReadDropped, Receive, Lose, logVars
  <2> QED
    BY <1>3, <2>1, <2>2, <2>3 DEF Next
<1> QED
  BY <1>1, <1>3 DEF vars, logVars

\* Record: ordinals and the count of what is gone only grow.
LogFits == RingOK /\ next <= MaxRecords + 1
LEMMA LogGrows ==
  ASSUME LogFits, [LogNext]_logVars
  PROVE  /\ LogFits' /\ next \in Nat /\ next' \in Nat /\ dropped \in Nat /\ dropped' \in Nat
         /\ next <= next' /\ dropped <= dropped'
<1>1. RingOK /\ next <= MaxRecords + 1 /\ next \in Nat /\ dropped \in Nat /\ MaxRecords \in Nat
  BY OpLogAssumption DEF LogFits, RingOK, LogTypeOK
<1>2. RingOK' /\ next' \in Nat /\ dropped' \in Nat
  <2>1. RingOK'
    BY <1>1, RingStep
  <2> QED
    BY <2>1 DEF RingOK, LogTypeOK
<1>3. /\ next' = next \/ (next <= MaxRecords /\ next' = next + 1)
      /\ dropped' = dropped \/ dropped' = dropped + 1
  BY DEF LogNext, logVars, Record
<1>4. next' <= MaxRecords + 1 /\ next <= next' /\ dropped <= dropped'
  BY <1>1, <1>3
<1> QED
  BY <1>1, <1>2, <1>4 DEF LogFits

\* A poll that was asked holds what the log had, and what it is told is gone
\* covers what it skips.
PollOf == [page : Pages, slot : Slots, at : {"rules", "since", "dropped", "answered"}, since : Nat,
           rules : Seq(Nat), fresh : Seq(Entry), dropped : Nat]
PollOK(q) ==
  /\ q \in PollOf
  /\ Fresh(q.fresh, q.since, next)
  /\ q.at = "dropped" => Covered(q.fresh, q.since, dropped) /\ Whole(q.fresh, q.since, dropped)
  /\ q.at = "answered" => Covered(q.fresh, q.since, q.dropped) /\ Whole(q.fresh, q.since, q.dropped)
PageOf ==
  [cursor : Nat, rows : Seq(Nat), drawn : Seq(Nat), dropped : Nat, told : Nat, behind : BOOLEAN]
RulesOK ==
  /\ arms \in Nat /\ arms <= MaxRules /\ rules \in Seq(Nat)
  /\ \A i \in DOMAIN rules : rules[i] \in 1 .. arms
PagesOK == page \in [Pages -> PageOf] /\ \A p \in Pages : page[p].cursor <= MaxRecords
PollsOK == \A q \in polls : PollOK(q)

LEMMA PollStays ==
  ASSUME NEW q, PollOK(q), next \in Nat, next' \in Nat, dropped \in Nat, dropped' \in Nat,
         next <= next', dropped <= dropped'
  PROVE  PollOK(q)'
<1>1. PICK f \in Seq(Entry), k \in Nat : f = q.fresh /\ k = q.since
  BY DEF PollOK, PollOf
<1>2. PICK top \in Nat, later \in Nat, gone \in Nat, more \in Nat :
        top = next /\ later = next' /\ gone = dropped /\ more = dropped' /\ top <= later /\ gone <= more
  OBVIOUS
<1>3. \A i \in DOMAIN f : f[i].n \in Nat
  <2>1. \A i \in DOMAIN f : f[i] \in Entry
    OBVIOUS
  <2> QED
    BY <2>1 DEF Entry
<1>4. Fresh(f, k, top) => Fresh(f, k, later)
  <2> SUFFICES ASSUME Fresh(f, k, top), NEW i \in DOMAIN f PROVE f[i].n < later
    BY DEF Fresh
  <2>1. PICK v \in Nat : v = f[i].n
    BY <1>3
  <2>2. v < top
    BY <2>1 DEF Fresh
  <2> QED
    BY <1>2, <2>1, <2>2
<1>5. Covered(f, k, gone) => Covered(f, k, more)
  <2> SUFFICES ASSUME Covered(f, k, gone), f # <<>>, f[1].n > k + 1 PROVE more >= f[1].n - 1
    BY DEF Covered
  <2>1. 1 \in DOMAIN f
    OBVIOUS
  <2>2. PICK v \in Nat : v = f[1].n
    BY <1>3, <2>1
  <2>3. gone >= v - 1
    BY <2>2 DEF Covered
  <2> QED
    BY <1>2, <2>2, <2>3
<1>6. Fresh(q.fresh, q.since, later)
  BY <1>1, <1>2, <1>4 DEF PollOK
<1>8. Whole(f, k, gone) => Whole(f, k, more)
  <2> SUFFICES ASSUME Whole(f, k, gone), NEW i \in DOMAIN f, NEW m \in Nat, k < m, m <= f[i].n
               PROVE  m <= more \/ \E j \in DOMAIN f : f[j].n = m
    BY DEF Whole
  <2>1. m <= gone \/ \E j \in DOMAIN f : f[j].n = m
    BY DEF Whole
  <2> QED
    BY <1>2, <2>1
<1>7. q.at = "dropped" => Covered(q.fresh, q.since, more) /\ Whole(q.fresh, q.since, more)
  BY <1>1, <1>2, <1>5, <1>8 DEF PollOK
<1> QED
  BY <1>2, <1>6, <1>7 DEF PollOK

\* The three reads of an answer, each under its own lock.
LEMMA ReadIs ==
  ASSUME LogFits, RulesOK, NEW q \in polls, PollOK(q),
         ReadRules(q) \/ ReadSince(q) \/ ReadDropped(q)
  PROVE  \E x : /\ PollOK(x)' /\ polls' = (polls \ {q}) \cup {x}
                /\ x.page = q.page /\ x.slot = q.slot /\ x.since = q.since
<1>1. UNCHANGED <<entries, oldest, next, dropped>>
  BY DEF ReadRules, ReadSince, ReadDropped
<1>2. q \in PollOf /\ q.since \in Nat /\ Fresh(q.fresh, q.since, next)
  BY DEF PollOK, PollOf
<1>3. CASE ReadRules(q)
  <2>1. PICK x : x = [q EXCEPT !.at = "since", !.rules = rules]
    OBVIOUS
  <2>2. x \in PollOf /\ x.at = "since" /\ x.page = q.page /\ x.slot = q.slot
        /\ x.since = q.since /\ x.fresh = q.fresh
    BY <1>2, <2>1 DEF PollOf, RulesOK
  <2>3. PollOK(x)'
    BY <1>1, <1>2, <2>2 DEF PollOK
  <2> QED
    BY <1>3, <2>1, <2>2, <2>3 DEF ReadRules
<1>4. CASE ReadSince(q)
  <2>1. PICK k \in Nat : k = q.since
    BY <1>2
  <2>2. PICK f : f = Since(k) /\ Fresh(f, k, next) /\ Covered(f, k, dropped) /\ Whole(f, k, dropped)
    BY SinceIs DEF LogFits
  <2>3. PICK x : x = [q EXCEPT !.at = "dropped", !.fresh = f]
    OBVIOUS
  <2>4. f \in Seq(Entry)
    BY <2>2 DEF Fresh
  <2>5. x \in PollOf /\ x.at = "dropped" /\ x.page = q.page /\ x.slot = q.slot
        /\ x.since = q.since /\ x.fresh = f
    BY <1>2, <2>3, <2>4 DEF PollOf
  <2>6. PollOK(x)'
    BY <1>1, <2>1, <2>2, <2>5 DEF PollOK
  <2> QED
    BY <1>4, <2>1, <2>2, <2>3, <2>5, <2>6 DEF ReadSince
<1>5. CASE ReadDropped(q)
  <2>1. PICK d \in Nat : d = dropped
    BY DEF LogFits, RingOK, LogTypeOK
  <2>2. PICK x : x = [q EXCEPT !.at = "answered", !.dropped = d]
    OBVIOUS
  <2>3. x \in PollOf /\ x.at = "answered" /\ x.page = q.page /\ x.slot = q.slot
        /\ x.since = q.since /\ x.fresh = q.fresh /\ x.dropped = d
    BY <1>2, <2>2 DEF PollOf
  <2>4. Covered(q.fresh, q.since, d) /\ Whole(q.fresh, q.since, d)
    BY <1>5, <2>1 DEF ReadDropped, PollOK
  <2>5. PollOK(x)'
    BY <1>1, <1>2, <2>3, <2>4 DEF PollOK
  <2> QED
    BY <1>5, <2>1, <2>2, <2>3, <2>5 DEF ReadDropped
<1> QED
  BY <1>3, <1>4, <1>5

\* The greatest of a set, when one is.
LEMMA LargestOfNats ==
  ASSUME NEW T \in SUBSET Nat, NEW n \in T, \A m \in T : m <= n
  PROVE  Largest(T) = n
<1>1. PICK l \in T : l = Largest(T) /\ \A m \in T : m <= l
  BY DEF Largest
<1> QED
  BY <1>1

\* Receive: the page takes the rows over and moves its cursor to the last.
LEMMA ReceiveIs ==
  ASSUME LogFits, PagesOK, NEW q \in polls, PollOK(q), Receive(q)
  PROVE  \E b \in PageOf, o \in Seq(Nat) :
           /\ page' = [page EXCEPT ![q.page] = b] /\ q.page \in Pages
           /\ DOMAIN o = DOMAIN q.fresh /\ \A i \in DOMAIN o : o[i] = q.fresh[i].n
           /\ b.rows = page[q.page].rows \o o
           /\ b.cursor <= MaxRecords /\ page[q.page].cursor <= b.cursor
           /\ \A i \in DOMAIN o : o[i] <= b.cursor
           /\ b.cursor = page[q.page].cursor \/ \E i \in DOMAIN o : o[i] = b.cursor
           /\ page[q.page].told <= b.told /\ q.dropped <= b.told
           /\ b.behind <=> page[q.page].behind \/ (q.fresh # <<>> /\ q.since # page[q.page].cursor)
<1>1. PICK p \in Pages, f \in Seq(Entry), k \in Nat : p = q.page /\ f = q.fresh /\ k = q.since
  BY DEF PollOK, PollOf
<1>2. PICK a \in PageOf : a = page[p]
  BY DEF PagesOK
<1>3. q.rules \in Seq(Nat) /\ q.dropped \in Nat /\ Fresh(f, k, next)
  BY <1>1 DEF PollOK, PollOf
<1>4. PICK n \in Nat : n = Len(f) /\ DOMAIN f = 1 .. n
  OBVIOUS
<1>5. PICK c \in Nat, top \in Nat, most \in Nat :
        c = a.cursor /\ top = next /\ most = MaxRecords /\ c <= most /\ top <= most + 1
  BY <1>2, OpLogAssumption DEF PagesOK, PageOf, LogFits, RingOK, LogTypeOK
<1>6. PICK o : o = [i \in 1 .. Len(f) |-> f[i].n]
  OBVIOUS
<1>7. \A i \in 1 .. n : f[i].n \in Nat /\ f[i].n < top
  <2>1. \A i \in 1 .. n : f[i] \in Entry
    BY <1>4
  <2> QED
    BY <1>3, <1>4, <1>5, <2>1 DEF Fresh, Entry
<1>8. /\ o \in Seq(Nat) /\ DOMAIN o = 1 .. n /\ Len(o) = n
      /\ \A i \in 1 .. n : o[i] = f[i].n /\ o[i] \in Nat /\ o[i] < top
  BY <1>4, <1>6, <1>7
<1>9. \A i, j \in 1 .. n : i < j => o[i] < o[j]
  BY <1>3, <1>4, <1>8 DEF Fresh
<1> DEFINE T == {c} \cup {o[i] : i \in 1 .. Len(o)}
<1>10. T \in SUBSET Nat /\ c \in T /\ \A m \in T : m <= most
  <2>1. \A i \in 1 .. n : o[i] <= most
    BY <1>5, <1>8
  <2> QED
    BY <1>5, <1>8, <2>1
<1>11. PICK last \in T : \A m \in T : m <= last
  <2>1. CASE n = 0
    <3>1. T = {c} /\ c <= c
      BY <1>8, <2>1
    <3> QED
      BY <3>1
  <2>2. CASE n # 0
    <3>1. n \in 1 .. n
      BY <2>2
    <3>2. PICK v \in Nat : v = o[n] /\ v \in T
      BY <1>8, <3>1
    <3>3. \A i \in 1 .. n : o[i] <= v
      <4> SUFFICES ASSUME NEW i \in 1 .. n PROVE o[i] <= v
        OBVIOUS
      <4>1. PICK w \in Nat : w = o[i]
        BY <1>8
      <4>2. i = n \/ i < n
        OBVIOUS
      <4>3. w = v \/ w < v
        BY <1>9, <3>1, <3>2, <4>1, <4>2
      <4> QED
        BY <4>1, <4>3
    <3>4. CASE c <= v
      <4>1. \A m \in T : m <= v
        BY <1>8, <3>3, <3>4
      <4> QED
        BY <3>2, <4>1
    <3>5. CASE ~(c <= v)
      <4>1. \A i \in 1 .. n : o[i] <= c
        BY <1>8, <3>2, <3>3, <3>5
      <4>2. \A m \in T : m <= c
        BY <1>8, <4>1
      <4> QED
        BY <4>2
    <3> QED
      BY <3>4, <3>5
  <2> QED
    BY <2>1, <2>2
<1>12. /\ last \in Nat /\ last <= most /\ c <= last
       /\ \A i \in 1 .. n : o[i] <= last
  BY <1>8, <1>10, <1>11
<1>13. Largest(T) = last
  <2> HIDE DEF T
  <2> QED
    BY <1>10, <1>11, LargestOfNats
<1>18. PICK g \in Nat, h \in Nat : g = a.told /\ h = q.dropped
  BY <1>3 DEF PageOf
<1>19. PICK t \in Nat : t \in {g, h} /\ g <= t /\ h <= t
  OBVIOUS
<1>20. Largest({a.told, q.dropped}) = t
  <2>1. {g, h} \in SUBSET Nat /\ \A m \in {g, h} : m <= t
    BY <1>19
  <2> QED
    BY <1>18, <1>19, <2>1, LargestOfNats
<1>21. PICK late \in BOOLEAN : late <=> a.behind \/ (q.fresh # <<>> /\ q.since # a.cursor)
  OBVIOUS
<1>14. PICK b : b = [cursor |-> last, rows |-> a.rows \o o, drawn |-> q.rules, dropped |-> q.dropped,
                     told |-> t, behind |-> late]
  OBVIOUS
<1>15. a.rows \o o \in Seq(Nat)
  BY <1>8, ConcatProperties DEF PageOf
<1>16. b \in PageOf /\ b.cursor = last /\ b.rows = a.rows \o o /\ b.told = t /\ b.behind = late
  BY <1>3, <1>12, <1>14, <1>15 DEF PageOf
<1>17. page' = [page EXCEPT ![p] = b]
  <2>1. page' = [page EXCEPT ![p] =
          [cursor |-> Largest({a.cursor} \cup {o[i] : i \in 1 .. Len(o)}),
           rows |-> a.rows \o o, drawn |-> q.rules, dropped |-> q.dropped,
           told |-> Largest({a.told, q.dropped}),
           behind |-> a.behind \/ (q.fresh # <<>> /\ q.since # a.cursor)]]
    BY <1>1, <1>2, <1>6 DEF Receive
  <2>2. a.behind \in BOOLEAN /\ late = (a.behind \/ (q.fresh # <<>> /\ q.since # a.cursor))
    BY <1>21 DEF PageOf
  <2> QED
    BY <1>5, <1>13, <1>14, <1>20, <2>1, <2>2
<1>22. last = c \/ \E i \in 1 .. n : o[i] = last
  BY <1>8, <1>11
<1>23. /\ b.cursor = page[p].cursor \/ \E i \in 1 .. n : o[i] = b.cursor
       /\ page[p].told <= b.told /\ q.dropped <= b.told
  BY <1>2, <1>5, <1>16, <1>18, <1>19, <1>22
<1>24. b.behind <=> page[p].behind \/ (q.fresh # <<>> /\ q.since # page[p].cursor)
  BY <1>2, <1>16, <1>21
<1> QED
  BY <1>1, <1>2, <1>4, <1>5, <1>8, <1>12, <1>16, <1>17, <1>23, <1>24

DashInv == LogFits /\ RulesOK /\ PagesOK /\ PollsOK

LEMMA DashInit == Init => DashInv
<1> SUFFICES ASSUME Init PROVE DashInv
  OBVIOUS
<1>1. LogInit /\ next = 1
  BY DEF Init, LogInit
<1>2. RingOK /\ next <= MaxRecords + 1
  BY <1>1, RingInit, OpLogAssumption
<1>3. RulesOK
  <2>1. rules = <<1, 2>> /\ arms = 2 /\ 2 <= MaxRules
    BY DashboardAssumption DEF Init
  <2> QED
    BY <2>1 DEF RulesOK
<1>4. PagesOK /\ PollsOK
  <2>1. /\ page = [p \in Pages |-> [cursor |-> 0, rows |-> <<>>, drawn |-> <<>>, dropped |-> 0,
                               told |-> 0, behind |-> FALSE]]
        /\ polls = {} /\ 0 <= MaxRecords
    BY OpLogAssumption DEF Init
  <2> QED
    BY <2>1 DEF PagesOK, PageOf, PollsOK
<1> QED
  BY <1>2, <1>3, <1>4 DEF DashInv, LogFits

\* The rules: each was armed once, whatever index a page clicked on.
LEMMA RulesStay ==
  ASSUME RulesOK, [Next]_vars PROVE RulesOK'
<1>1. CASE UNCHANGED <<rules, arms>>
  BY <1>1 DEF RulesOK
<1>2. CASE Arm
  <2>1. PICK n \in Nat, s \in Seq(Nat) : n = arms /\ s = rules /\ \A i \in DOMAIN s : s[i] \in 1 .. n
    BY DEF RulesOK
  <2>2. arms' = n + 1 /\ rules' = Append(s, n + 1) /\ n < MaxRules
    BY <1>2, <2>1 DEF Arm
  <2>3. n + 1 \in Nat /\ n + 1 <= MaxRules
    BY <2>1, <2>2, DashboardAssumption
  <2>4. ASSUME NEW i \in DOMAIN Append(s, n + 1) PROVE Append(s, n + 1)[i] \in 1 .. (n + 1)
    <3>1. CASE i \in DOMAIN s
      BY <2>1, <3>1
    <3>2. CASE i \notin DOMAIN s
      BY <3>2
    <3> QED
      BY <3>1, <3>2
  <2>5. Append(s, n + 1) \in Seq(Nat)
    BY <2>3
  <2> QED
    BY <2>2, <2>3, <2>4, <2>5 DEF RulesOK
<1>3. CASE Reset
  BY <1>3 DEF Reset, RulesOK
<1>4. ASSUME NEW p \in Pages, NEW i \in 1 .. MaxRules, Disarm(p, i) PROVE RulesOK'
  <2>1. PICK n \in Nat, s \in Seq(Nat) : n = arms /\ s = rules /\ \A j \in DOMAIN s : s[j] \in 1 .. n
    BY DEF RulesOK
  <2>2. s \in Seq(1 .. n)
    BY <2>1
  <2>3. PICK l \in Nat, k \in Nat : l = Len(s) /\ DOMAIN s = 1 .. l /\ k = i
    BY <2>1
  <2>4. k >= 1 /\ k <= l
    BY <1>4, <2>1, <2>3 DEF Disarm
  <2>5. PICK a \in Seq(1 .. n) : a = SubSeq(s, 1, k - 1)
    <3>1. \A j \in 1 .. (k - 1) : s[j] \in 1 .. n
      BY <2>1, <2>3, <2>4
    <3>2. k - 1 \in Int /\ 1 \in Int
      OBVIOUS
    <3> QED
      BY <3>1, <3>2, SubSeqProperties
  <2>6. PICK b \in Seq(1 .. n) : b = SubSeq(s, k + 1, l)
    <3>1. \A j \in (k + 1) .. l : s[j] \in 1 .. n
      BY <2>1, <2>3, <2>4
    <3>2. k + 1 \in Int /\ l \in Int
      OBVIOUS
    <3> QED
      BY <3>1, <3>2, SubSeqProperties
  <2>7. rules' = a \o b /\ arms' = n
    BY <1>4, <2>1, <2>3, <2>5, <2>6 DEF Disarm
  <2>8. a \o b \in Seq(1 .. n)
    BY ConcatProperties
  <2>9. PICK w \in Seq(1 .. n) : w = rules'
    BY <2>7, <2>8
  <2>10. w \in Seq(Nat) /\ \A j \in DOMAIN w : w[j] \in 1 .. n
    OBVIOUS
  <2>11. n <= MaxRules
    BY <2>1 DEF RulesOK
  <2> QED
    BY <2>7, <2>9, <2>10, <2>11 DEF RulesOK
<1> QED
  BY <1>1, <1>2, <1>3, <1>4 DEF Next, vars, RecordOp, Poll, ReadRules, ReadSince, ReadDropped,
     Receive, Lose

\* Poll: a poll starts with nothing, from the cursor its page has.
LEMMA PollIs ==
  ASSUME LogFits, PagesOK, NEW p \in Pages, Poll(p)
  PROVE  \E x : /\ PollOK(x)' /\ polls' = polls \cup {x} /\ x.page = p
                /\ x.since = page[p].cursor /\ x.slot \in Slots
                /\ \A q \in polls : q.page = p => q.slot # x.slot
<1>1. PICK slot \in Slots :
        /\ \A q \in polls : q.page = p => q.slot # slot
        /\ polls' = polls \cup
             {[page |-> p, slot |-> slot, at |-> "rules", since |-> page[p].cursor,
               rules |-> <<>>, fresh |-> <<>>, dropped |-> 0]}
  BY DEF Poll
<1>2. PICK k \in Nat : k = page[p].cursor
  BY DEF PagesOK, PageOf
<1>3. PICK x : x = [page |-> p, slot |-> slot, at |-> "rules", since |-> k,
                    rules |-> <<>>, fresh |-> <<>>, dropped |-> 0]
  OBVIOUS
<1>4. /\ x \in PollOf /\ x.page = p /\ x.slot = slot /\ x.since = k /\ x.at = "rules"
      /\ x.fresh = <<>>
  BY <1>3 DEF PollOf
<1>5. Fresh(<<>>, k, next')
  <2>1. <<>> \in Seq(Entry) /\ DOMAIN <<>> = {}
    OBVIOUS
  <2> QED
    BY <2>1 DEF Fresh
<1>6. PollOK(x)'
  BY <1>4, <1>5 DEF PollOK
<1> QED
  BY <1>1, <1>2, <1>3, <1>4, <1>6

\* What a step does to the polls and the pages: nothing, one more poll, one
\* poll read on, one lost, or one taken over by its page.
LEMMA PollSteps ==
  ASSUME Next
  PROVE  \/ UNCHANGED <<polls, page>>
         \/ (\E p \in Pages : Poll(p)) /\ UNCHANGED page
         \/ \E q \in polls : \/ (ReadRules(q) \/ ReadSince(q) \/ ReadDropped(q)) /\ UNCHANGED page
                             \/ Lose(q) /\ UNCHANGED page
                             \/ Receive(q)
BY DEF Next, RecordOp, Arm, Reset, Disarm, Poll, ReadRules, ReadSince, ReadDropped, Lose

LEMMA DashStep == DashInv /\ [Next]_vars => DashInv'
<1> SUFFICES ASSUME DashInv, [Next]_vars PROVE DashInv'
  OBVIOUS
<1>1. LogFits' /\ next \in Nat /\ next' \in Nat /\ dropped \in Nat /\ dropped' \in Nat
      /\ next <= next' /\ dropped <= dropped'
  BY LogOnly, LogGrows DEF DashInv
<1>2. RulesOK'
  BY RulesStay DEF DashInv
<1>3. \A q \in polls : PollOK(q)'
  BY <1>1, PollStays DEF DashInv, PollsOK
<1>4. CASE UNCHANGED <<polls, page>>
  BY <1>1, <1>2, <1>3, <1>4 DEF DashInv, PollsOK, PagesOK
<1>5. CASE (\E p \in Pages : Poll(p)) /\ UNCHANGED page
  <2>1. PICK x : PollOK(x)' /\ polls' = polls \cup {x}
    BY <1>5, PollIs DEF DashInv
  <2>2. PollsOK'
    BY <1>3, <2>1 DEF PollsOK
  <2> QED
    BY <1>1, <1>2, <1>5, <2>2 DEF DashInv, PagesOK
<1>6. ASSUME NEW q \in polls, ReadRules(q) \/ ReadSince(q) \/ ReadDropped(q), UNCHANGED page
      PROVE  DashInv'
  <2>1. PICK x : PollOK(x)' /\ polls' = (polls \ {q}) \cup {x}
    BY <1>6, ReadIs DEF DashInv, PollsOK
  <2>2. PollsOK'
    BY <1>3, <2>1 DEF PollsOK
  <2> QED
    BY <1>1, <1>2, <1>6, <2>2 DEF DashInv, PagesOK
<1>7. ASSUME NEW q \in polls, Lose(q), UNCHANGED page PROVE DashInv'
  <2>1. polls' \subseteq polls
    BY <1>7 DEF Lose
  <2>2. PollsOK'
    BY <1>3, <2>1 DEF PollsOK
  <2> QED
    BY <1>1, <1>2, <1>7, <2>2 DEF DashInv, PagesOK
<1>8. ASSUME NEW q \in polls, Receive(q) PROVE DashInv'
  <2>1. polls' \subseteq polls
    BY <1>8 DEF Receive
  <2>2. PollsOK'
    BY <1>3, <2>1 DEF PollsOK
  <2>3. PICK b \in PageOf : /\ page' = [page EXCEPT ![q.page] = b] /\ q.page \in Pages
                            /\ b.cursor <= MaxRecords
    BY <1>8, ReceiveIs DEF DashInv, PollsOK
  <2>4. PagesOK'
    BY <2>3 DEF DashInv, PagesOK
  <2> QED
    BY <1>1, <1>2, <2>2, <2>4 DEF DashInv
<1>9. CASE UNCHANGED vars
  BY <1>1, <1>2, <1>3, <1>9, <1>4 DEF vars
<1> QED
  BY <1>4, <1>5, <1>6, <1>7, <1>8, <1>9, PollSteps

LEMMA DashStays == Spec => []DashInv
BY DashInit, DashStep, PTL DEF Spec

\* The log under the dashboard is the log: clients, polls and clicks record
\* through it and leave it alone otherwise.
LEMMA DashLogs == Spec => LogSpec
<1>1. Init => LogInit
  BY DEF Init
<1> QED
  BY <1>1, LogOnly, PTL DEF Spec, LogSpec

\* Log.Since, Log.Dropped, handleState: for every capacity and any number of
\* pages and polls, an answer that skips entries its page has not seen counts
\* them among those that are gone, though the log moved between the reads.
THEOREM GapsAreTold == Spec => []NoSilentGap
<1>1. DashInv => NoSilentGap
  BY DEF DashInv, PollsOK, PollOK, Covered, NoSilentGap
<1> QED
  BY <1>1, DashStays, PTL

\* Polls and clicks do not disturb the log: it stays a bounded log.
THEOREM DashboardLogIsBounded == Spec => RefinesBoundedLog
BY DashLogs, RingIsBoundedLog, PTL

-----------------------------------------------------------------------------
(* What a page shows, however its polls overlap *)

\* What a page's cursor has passed is on it or was told to it; its rows are in
\* order as long as no answer came that was asked for from an earlier cursor.
PageOK(a) ==
  /\ \A m \in Nat : 1 <= m /\ m <= a.cursor => m <= a.told \/ \E i \in DOMAIN a.rows : a.rows[i] = m
  /\ \A i \in DOMAIN a.rows : a.rows[i] <= a.cursor
  /\ ~a.behind => \A i, j \in DOMAIN a.rows : i < j => a.rows[i] < a.rows[j]
SightInv ==
  /\ \A q \in polls : q.since <= page[q.page].cursor
  /\ \A p \in Pages : PageOK(page[p])

LEMMA SightInit == Init => SightInv
<1> SUFFICES ASSUME Init PROVE SightInv
  OBVIOUS
<1>1. PICK a : a = [cursor |-> 0, rows |-> <<>>, drawn |-> <<>>, dropped |-> 0, told |-> 0, behind |-> FALSE]
  OBVIOUS
<1>2. PageOK(a)
  BY <1>1 DEF PageOK
<1>3. polls = {} /\ \A p \in Pages : page[p] = a
  BY <1>1 DEF Init
<1> QED
  BY <1>2, <1>3 DEF SightInv

LEMMA SightStep ==
  ASSUME DashInv, SightInv, [Next]_vars PROVE SightInv'
<1>6. \A q \in polls : q.since \in Nat /\ q.page \in Pages
  BY DEF DashInv, PollsOK, PollOK, PollOf
<1>7. \A p \in Pages : page[p] \in PageOf /\ page[p].cursor \in Nat
  BY DEF DashInv, PagesOK, PageOf
<1>1. CASE UNCHANGED <<polls, page>>
  BY <1>1 DEF SightInv
<1>2. CASE (\E p \in Pages : Poll(p)) /\ UNCHANGED page
  <2>1. PICK p \in Pages : Poll(p)
    BY <1>2
  <2>2. PICK x : polls' = polls \cup {x} /\ x.page = p /\ x.since = page[p].cursor
    BY <2>1, PollIs DEF DashInv
  <2>3. page[p].cursor <= page[p].cursor
    BY <1>7
  <2> QED
    BY <1>2, <2>2, <2>3 DEF SightInv
<1>3. ASSUME NEW q \in polls, ReadRules(q) \/ ReadSince(q) \/ ReadDropped(q), UNCHANGED page
      PROVE  SightInv'
  <2>1. PICK x : polls' = (polls \ {q}) \cup {x} /\ x.page = q.page /\ x.since = q.since
    BY <1>3, ReadIs DEF DashInv, PollsOK
  <2> QED
    BY <1>3, <2>1 DEF SightInv
<1>4. ASSUME NEW q \in polls, Lose(q), UNCHANGED page PROVE SightInv'
  BY <1>4 DEF Lose, SightInv
<1>5. ASSUME NEW q \in polls, Receive(q) PROVE SightInv'
  <2>1. PICK b \in PageOf, o \in Seq(Nat) :
          /\ page' = [page EXCEPT ![q.page] = b] /\ q.page \in Pages
          /\ DOMAIN o = DOMAIN q.fresh /\ \A i \in DOMAIN o : o[i] = q.fresh[i].n
          /\ b.rows = page[q.page].rows \o o
          /\ b.cursor <= MaxRecords /\ page[q.page].cursor <= b.cursor
          /\ \A i \in DOMAIN o : o[i] <= b.cursor
          /\ b.cursor = page[q.page].cursor \/ \E i \in DOMAIN o : o[i] = b.cursor
          /\ page[q.page].told <= b.told /\ q.dropped <= b.told
          /\ b.behind <=> page[q.page].behind \/ (q.fresh # <<>> /\ q.since # page[q.page].cursor)
    BY <1>5, ReceiveIs DEF DashInv, PollsOK
  <2>2. PICK p \in Pages, a \in PageOf : p = q.page /\ a = page[p]
    BY <2>1 DEF DashInv, PagesOK
  <2>3. polls' = polls \ {q}
    BY <1>5 DEF Receive
  <2>4. page'[p] = b /\ \A r \in Pages \ {p} : page'[r] = page[r]
    BY <2>1, <2>2 DEF DashInv, PagesOK
  <2>5. ASSUME NEW r \in polls' PROVE r.since <= page'[r.page].cursor
    <3>1. r \in polls /\ r.page \in Pages /\ r.since <= page[r.page].cursor
      BY <1>6, <2>3 DEF SightInv
    <3>2. CASE r.page # p
      BY <2>4, <3>1, <3>2
    <3>3. CASE r.page = p
      <4>1. PICK u \in Nat, v \in Nat, w \in Nat : u = r.since /\ v = a.cursor /\ w = b.cursor
        BY <1>6, <3>1 DEF PageOf
      <4>2. u <= v /\ v <= w
        BY <2>1, <2>2, <3>1, <3>3, <4>1
      <4> QED
        BY <2>4, <3>3, <4>1, <4>2
    <3> QED
      BY <3>2, <3>3
  <2>6. /\ ~b.behind => \A i \in DOMAIN o : o[i] > a.cursor
        /\ \A i, j \in DOMAIN o : i < j => o[i] < o[j]
    <3>1. Fresh(q.fresh, q.since, next)
      BY DEF DashInv, PollsOK, PollOK
    <3>2. ASSUME ~b.behind, NEW i \in DOMAIN o PROVE o[i] > a.cursor
      <4>1. q.fresh # <<>>
        BY <2>1, <3>2
      <4>2. q.since = a.cursor
        BY <2>1, <2>2, <3>2, <4>1
      <4> QED
        BY <2>1, <3>1, <3>2, <4>2 DEF Fresh
    <3> QED
      BY <2>1, <3>1, <3>2 DEF Fresh
  <2>14. PageOK(a)
    BY <2>2 DEF SightInv
  <2>7. PICK rows \in Seq(Nat), c \in Nat, d \in Nat :
          /\ rows = a.rows /\ c = a.cursor /\ d = b.cursor /\ c <= d
          /\ \A i \in DOMAIN rows : rows[i] <= c
    BY <2>1, <2>2, <2>14 DEF PageOf, PageOK
  <2>8. PICK m \in Nat, n \in Nat : m = Len(rows) /\ n = Len(o) /\ DOMAIN rows = 1 .. m /\ DOMAIN o = 1 .. n
    OBVIOUS
  <2>9. PICK t \in Seq(Nat) : /\ t = b.rows /\ DOMAIN t = 1 .. m + n
                              /\ \A i \in 1 .. m + n : t[i] = IF i <= m THEN rows[i] ELSE o[i - m]
    <3>1. /\ rows \o o \in Seq(Nat) /\ Len(rows \o o) = m + n
          /\ \A i \in 1 .. m + n : (rows \o o)[i] = IF i <= m THEN rows[i] ELSE o[i - m]
      BY <2>8, ConcatProperties
    <3>2. PICK u \in Seq(Nat) : u = rows \o o /\ Len(u) = m + n
      BY <3>1
    <3>3. DOMAIN u = 1 .. m + n
      BY <3>2
    <3>4. u = b.rows
      BY <2>1, <2>2, <2>7, <3>2
    <3> QED
      BY <3>1, <3>2, <3>3, <3>4
  <2>10. ASSUME NEW i \in 1 .. m + n PROVE t[i] <= d
    <3>1. CASE i <= m
      <4>1. i \in 1 .. m /\ t[i] = rows[i]
        BY <2>9, <3>1
      <4>2. rows[i] <= c /\ rows[i] \in Nat
        BY <2>7, <2>8, <4>1
      <4>3. PICK v \in Nat : v = rows[i] /\ v = t[i] /\ v <= c
        BY <4>1, <4>2
      <4> QED
        BY <2>7, <4>3
    <3>2. CASE ~(i <= m)
      <4>1. i - m \in 1 .. n /\ t[i] = o[i - m]
        BY <2>9, <3>2
      <4> QED
        BY <2>1, <2>7, <2>8, <4>1
    <3> QED
      BY <3>1, <3>2
  <2>11. ASSUME ~b.behind, NEW i \in 1 .. m + n, NEW j \in 1 .. m + n, i < j PROVE t[i] < t[j]
    <3>4. /\ \A x \in DOMAIN o : o[x] > c
          /\ \A x, y \in DOMAIN rows : x < y => rows[x] < rows[y]
      <4>1. \A x \in DOMAIN o : o[x] > c
        BY <2>6, <2>7, <2>11
      <4>2. ~a.behind
        BY <2>1, <2>2, <2>11
      <4>3. \A x, y \in DOMAIN a.rows : x < y => a.rows[x] < a.rows[y]
        BY <2>14, <4>2 DEF PageOK
      <4>4. \A x, y \in DOMAIN rows : x < y => rows[x] < rows[y]
        BY <2>7, <4>3
      <4> QED
        BY <4>1, <4>4
    <3>1. CASE j <= m
      <4>1. i \in 1 .. m /\ j \in 1 .. m /\ t[i] = rows[i] /\ t[j] = rows[j]
        <5>1. i \in 1 .. m /\ j \in 1 .. m
          BY <2>11, <3>1
        <5>2. i <= m /\ j <= m
          BY <5>1
        <5> QED
          BY <2>9, <5>1, <5>2
      <4> QED
        BY <2>8, <2>11, <3>4, <4>1
    <3>2. CASE i <= m /\ ~(j <= m)
      <4>1. i \in 1 .. m /\ j - m \in 1 .. n /\ t[i] = rows[i] /\ t[j] = o[j - m]
        BY <2>9, <3>2
      <4>2. PICK v \in Nat, w \in Nat : v = t[i] /\ w = t[j]
        <5>1. (\A h \in 1 .. m : rows[h] \in Nat) /\ (\A h \in 1 .. n : o[h] \in Nat)
          BY <2>8
        <5> QED
          BY <4>1, <5>1
      <4>3. v <= c /\ w > c
        BY <2>7, <2>8, <3>4, <4>1, <4>2
      <4> QED
        BY <4>2, <4>3
    <3>3. CASE ~(i <= m)
      <4>1. i - m \in 1 .. n /\ j - m \in 1 .. n /\ t[i] = o[i - m] /\ t[j] = o[j - m] /\ i - m < j - m
        <5>1. i \in 1 .. m + n /\ j \in 1 .. m + n /\ ~(i <= m) /\ ~(j <= m)
          BY <2>11, <3>3
        <5>2. i - m \in 1 .. n /\ j - m \in 1 .. n /\ i - m < j - m
          BY <2>11, <5>1
        <5> QED
          BY <2>9, <5>1, <5>2
      <4> QED
        BY <2>6, <2>8, <4>1
    <3> QED
      BY <3>1, <3>2, <3>3
  <2>12. ASSUME NEW e \in Nat, 1 <= e, e <= d PROVE e <= b.told \/ \E i \in 1 .. m + n : t[i] = e
    <3>1. PICK g \in Nat, h \in Nat, w \in Nat, k \in Nat :
            g = a.told /\ h = q.dropped /\ w = b.told /\ k = q.since /\ g <= w /\ h <= w /\ k <= c
      <4>1. a.told \in Nat /\ b.told \in Nat
        BY <2>2 DEF PageOf
      <4>2. q.dropped \in Nat /\ q.since \in Nat
        BY DEF DashInv, PollsOK, PollOK, PollOf
      <4>3. q.since <= c
        BY <2>2, <2>7 DEF SightInv
      <4> QED
        BY <2>1, <2>2, <4>1, <4>2, <4>3
    <3>2. CASE e <= c
      <4>1. e <= g \/ \E i \in 1 .. m : rows[i] = e
        BY <2>7, <2>8, <2>12, <2>14, <3>1, <3>2 DEF PageOK
      <4>2. CASE e <= g
        BY <3>1, <4>2
      <4>3. ASSUME NEW i \in 1 .. m, rows[i] = e PROVE \E l \in 1 .. m + n : t[l] = e
        <5>1. i \in 1 .. m + n /\ i <= m
          BY <2>8
        <5> QED
          BY <2>9, <4>3, <5>1
      <4> QED
        BY <4>1, <4>2, <4>3
    <3>3. CASE ~(e <= c)
      <4>1. PICK x \in 1 .. n : o[x] = d
        <5>1. d # c
          BY <2>12, <3>3
        <5> QED
          BY <2>1, <2>2, <2>7, <2>8, <5>1
      <4>2. k < e /\ e <= o[x]
        BY <2>12, <3>1, <3>3, <4>1
      <4>3. Whole(q.fresh, k, h)
        BY <1>5, <3>1 DEF DashInv, PollsOK, PollOK, Receive
      <4>4. x \in DOMAIN q.fresh /\ o[x] = q.fresh[x].n
        BY <2>1, <2>8, <4>1
      <4>5. e <= h \/ \E j \in DOMAIN q.fresh : q.fresh[j].n = e
        BY <4>2, <4>3, <4>4 DEF Whole
      <4>6. CASE e <= h
        BY <3>1, <4>6
      <4>7. ASSUME NEW j \in DOMAIN q.fresh, q.fresh[j].n = e PROVE \E l \in 1 .. m + n : t[l] = e
        <5>1. j \in 1 .. n /\ o[j] = e
          BY <2>1, <2>8, <4>7
        <5>6. m \in Nat /\ j \in Nat /\ j >= 1 /\ j <= n
          BY <2>8, <5>1
        <5>4. PICK u \in Nat, v \in Nat : u = m /\ v = j /\ v >= 1 /\ v <= n
          BY <5>6
        <5>5. u + v \in 1 .. m + n /\ ~(u + v <= m) /\ (u + v) - m = j
          BY <2>8, <5>4
        <5>2. PICK l \in 1 .. m + n : l = u + v /\ ~(l <= m) /\ l - m = j
          BY <5>5
        <5>3. t[l] = o[j]
          BY <2>9, <5>2
        <5> QED
          BY <5>1, <5>3
      <4> QED
        BY <4>5, <4>6, <4>7
    <3> QED
      BY <3>2, <3>3
  <2>13. PageOK(b)
    BY <2>7, <2>9, <2>10, <2>11, <2>12 DEF PageOK
  <2>15. \A r \in Pages : PageOK(page'[r])
    BY <2>4, <2>13 DEF SightInv
  <2> QED
    BY <2>5, <2>15 DEF SightInv
<1> QED
  BY <1>1, <1>2, <1>3, <1>4, <1>5, PollSteps DEF vars

\* poll, appendEntries: for every capacity, any number of pages and any number
\* of polls under way, whose answers may overtake each other, every gap in an
\* answer is counted, whatever the cursor has passed is on the page or was told
\* to it, and the rows are the log in order, each once, until an answer comes
\* that was asked for from an earlier cursor.
THEOREM PagesTellTruly == Spec => []PageTellsTruly
<1>1. Init => DashInv /\ SightInv
  BY DashInit, SightInit
<1>2. (DashInv /\ SightInv) /\ [Next]_vars => (DashInv /\ SightInv)'
  BY DashStep, SightStep
<1>3. DashInv /\ SightInv => PageTellsTruly
  <2> SUFFICES ASSUME DashInv, SightInv PROVE PageTellsTruly
    OBVIOUS
  <2>1. TypeOK
    <3>1. arms \in 0 .. MaxRules /\ \A i \in 1 .. Len(rules) : rules[i] \in 1 .. arms
      <4>1. DOMAIN rules = 1 .. Len(rules)
        BY DEF DashInv, RulesOK
      <4> QED
        BY <4>1, DashboardAssumption DEF DashInv, RulesOK
    <3>2. \A p \in Pages : page[p].cursor \in 0 .. MaxRecords /\ page[p].dropped \in Nat
      <4>1. \A p \in Pages : page[p] \in PageOf /\ page[p].cursor <= MaxRecords
        BY DEF DashInv, PagesOK
      <4> QED
        BY <4>1, OpLogAssumption DEF PageOf
    <3>3. \A q \in polls : q.at \in {"rules", "since", "dropped", "answered"}
      BY DEF DashInv, PollsOK, PollOK, PollOf
    <3> QED
      BY <3>1, <3>2, <3>3 DEF TypeOK
  <2>2. LogTypeOK
    BY DEF DashInv, LogFits, RingOK
  <2>3. NoSilentGap
    BY DEF DashInv, PollsOK, PollOK, Covered, NoSilentGap
  <2>4. \A p \in Pages : /\ DOMAIN page[p].rows = 1 .. Len(page[p].rows)
                         /\ page[p].cursor \in Nat /\ PageOK(page[p])
    BY DEF DashInv, PagesOK, PageOf, SightInv
  <2>5. NothingMissed
    <3> SUFFICES ASSUME NEW p \in Pages, NEW e \in 1 .. page[p].cursor
                 PROVE  e <= page[p].told \/ \E i \in 1 .. Len(page[p].rows) : page[p].rows[i] = e
      BY DEF NothingMissed
    <3>1. PICK c \in Nat : c = page[p].cursor
      BY <2>4
    <3>2. e \in Nat /\ 1 <= e /\ e <= c
      BY <3>1
    <3> QED
      BY <2>4, <3>1, <3>2 DEF PageOK
  <2>6. \A p \in Pages : page[p].behind \/ InLogOrder(p)
    BY <2>4 DEF PageOK, InLogOrder
  <2> QED
    BY <2>1, <2>2, <2>3, <2>5, <2>6 DEF PageTellsTruly
<1> QED
  BY <1>1, <1>2, <1>3, PTL DEF Spec

-----------------------------------------------------------------------------
(* The document store: loops *)

\* A loop over n entries has a run, and every value it goes through is of the
\* kind that its first value is and its steps keep.
Keeps(F, n, W) == \A w \in W, i \in 1 .. n : F[<<w, i>>] \in W
HasRun(F, n, W, w0) ==
  \E g : /\ g = [i \in 0 .. n |-> IF i = 0 THEN w0 ELSE F[<<g[i - 1], i>>]]
         /\ \A i \in 0 .. n : g[i] \in W
LEMMA RunExists ==
  ASSUME NEW W, NEW n \in Nat, NEW w0 \in W, NEW F, Keeps(F, n, W)
  PROVE  HasRun(F, n, W, w0)
<1> DEFINE Runs(k) == {g \in [0 .. k -> W] : g[0] = w0 /\ \A i \in 1 .. k : g[i] = F[<<g[i - 1], i>>]}
           Bad == {k \in 0 .. n : Runs(k) = {}}
<1>1. Bad = {}
  <2> SUFFICES ASSUME NEW b \in Bad PROVE FALSE
    OBVIOUS
  <2>1. Bad \in SUBSET Nat
    OBVIOUS
  <2>2. PICK k \in Bad : \A j \in Bad : k <= j
    <3> HIDE DEF Bad
    <3> QED
      BY <2>1, SmallestOfNats
  <2>3. CASE k = 0
    <3>1. [i \in 0 .. 0 |-> w0] \in Runs(0)
      OBVIOUS
    <3> QED
      BY <2>3, <3>1
  <2>4. CASE k # 0
    <3>1. k \in 1 .. n /\ k - 1 \in 0 .. n /\ k - 1 \notin Bad
      <4>1. k \in 1 .. n /\ k - 1 \in 0 .. n
        BY <2>4
      <4> HIDE DEF Bad
      <4> QED
        BY <4>1, <2>2
    <3>2. PICK g \in Runs(k - 1) : TRUE
      BY <3>1
    <3>3. /\ g \in [0 .. k - 1 -> W] /\ g[0] = w0
          /\ \A i \in 1 .. k - 1 : g[i] = F[<<g[i - 1], i>>]
      OBVIOUS
    <3> DEFINE h == [i \in 0 .. k |-> IF i = k THEN F[<<g[k - 1], k>>] ELSE g[i]]
    <3>4. g[k - 1] \in W /\ F[<<g[k - 1], k>>] \in W
      BY <3>1, <3>3 DEF Keeps
    <3>5. h \in [0 .. k -> W] /\ h[0] = w0
      BY <3>1, <3>3, <3>4
    <3>6. ASSUME NEW i \in 1 .. k PROVE h[i] = F[<<h[i - 1], i>>]
      <4>1. i - 1 \in 0 .. k /\ i - 1 # k /\ h[i - 1] = g[i - 1]
        BY <3>1
      <4>2. CASE i = k
        BY <4>1, <4>2, <3>1
      <4>3. CASE i # k
        <5>1. i \in 1 .. k - 1 /\ h[i] = g[i]
          BY <4>3, <3>1
        <5> QED
          BY <5>1, <4>1, <3>3
      <4> QED
        BY <4>2, <4>3
    <3>7. h \in Runs(k)
      BY <3>5, <3>6
    <3> QED
      BY <3>7
  <2> QED
    BY <2>3, <2>4
<1>2. PICK g \in Runs(n) : TRUE
  <2>1. n \in 0 .. n
    OBVIOUS
  <2>2. Runs(n) # {}
    BY <1>1, <2>1
  <2> HIDE DEF Runs
  <2> QED
    BY <2>2
<1>3. /\ g \in [0 .. n -> W] /\ g[0] = w0
      /\ \A i \in 1 .. n : g[i] = F[<<g[i - 1], i>>]
  OBVIOUS
<1>4. g = [i \in 0 .. n |-> IF i = 0 THEN w0 ELSE F[<<g[i - 1], i>>]]
  <2>1. g = [i \in 0 .. n |-> g[i]]
    BY <1>3
  <2>2. ASSUME NEW i \in 0 .. n PROVE g[i] = IF i = 0 THEN w0 ELSE F[<<g[i - 1], i>>]
    BY <1>3
  <2> QED
    BY <2>1, <2>2
<1>5. \A i \in 0 .. n : g[i] \in W
  BY <1>3
<1> QED
  BY <1>4, <1>5 DEF HasRun

\* Whatever the first value is and every step keeps, the last value is.
LEMMA RunStays ==
  ASSUME NEW n \in Nat, NEW g, NEW W, g[0] \in W, \A i \in 1 .. n : g[i - 1] \in W => g[i] \in W
  PROVE  \A i \in 0 .. n : g[i] \in W
<1> DEFINE Bad == {k \in 0 .. n : g[k] \notin W}
<1> SUFFICES ASSUME NEW b \in Bad PROVE FALSE
  OBVIOUS
<1>1. Bad \in SUBSET Nat
  OBVIOUS
<1>2. PICK k \in Bad : \A j \in Bad : k <= j
  <2> HIDE DEF Bad
  <2> QED
    BY <1>1, SmallestOfNats
<1>3. k # 0 /\ k \in 1 .. n /\ k - 1 \in 0 .. n
  OBVIOUS
<1>4. k - 1 \notin Bad
  BY <1>1, <1>2, <1>3
<1> QED
  BY <1>3, <1>4
\* A run that grows by one at most at each of n steps grows by n at most.
LEMMA RunGrows ==
  ASSUME NEW n \in Nat, NEW g \in [0 .. n -> Nat], \A i \in 1 .. n : g[i] <= g[i - 1] + 1
  PROVE  g[n] <= g[0] + n
<1> DEFINE Bad == {k \in 0 .. n : g[k] > g[0] + k}
<1>1. Bad = {}
  <2> SUFFICES ASSUME NEW b \in Bad PROVE FALSE
    OBVIOUS
  <2>1. Bad \in SUBSET Nat
    OBVIOUS
  <2>2. PICK k \in Bad : \A j \in Bad : k <= j
    <3> HIDE DEF Bad
    <3> QED
      BY <2>1, SmallestOfNats
  <2>3. k \in 0 .. n /\ g[k] > g[0] + k
    OBVIOUS
  <2>4. k # 0 /\ k \in 1 .. n /\ k - 1 \in 0 .. n /\ g[0] \in Nat /\ g[k] \in Nat
    BY <2>3
  <2>5. k - 1 \notin Bad
    <3> HIDE DEF Bad
    <3> QED
      BY <2>2, <2>4
  <2>6. g[k - 1] <= g[0] + (k - 1) /\ g[k - 1] \in Nat
    BY <2>4, <2>5
  <2> QED
    BY <2>3, <2>4, <2>6
<1>2. n \in 0 .. n /\ n \notin Bad /\ g[n] \in Nat /\ g[0] \in Nat
  BY <1>1
<1> QED
  BY <1>2

-----------------------------------------------------------------------------
(* What a batch makes of a collection *)

\* No document without an _id, and no _id twice.
Keyed(docs) == \A i, j \in DOMAIN docs :
  docs[i].id # Missing /\ (i # j => docs[i].id # docs[j].id)
Outcome == [docs : Seq(Document), made : Nat, n : Nat, modified : Nat,
            errors : SUBSET Nat, failed : BOOLEAN]
Outcomes == {w \in Outcome : Keyed(w.docs)}

\* A document goes in under an _id of its own or not at all.
LEMMA InsertKeeps ==
  ASSUME NEW w \in Outcomes, NEW d \in Document
  PROVE  Insert(w, d) \in Outcomes /\ Len(Insert(w, d).docs) <= Len(w.docs) + 1
<1> DEFINE stored == Identified(w, d)
<1>1. w \in Outcome /\ Keyed(w.docs) /\ w.docs \in Seq(Document) /\ w.made \in Nat /\ w.n \in Nat
  BY DEF Outcomes, Outcome
<1>2. stored \in Document /\ stored.id # Missing
  <2>1. <<"made", w.made + 1>> \in Identifier /\ <<"made", w.made + 1>> # Missing
    BY <1>1 DEF Identifier, Missing
  <2>2. d.id \in Identifier /\ d.qty \in Value
    BY DEF Document
  <2>3. CASE d.id = Missing
    <3>1. stored = [d EXCEPT !.id = <<"made", w.made + 1>>]
      BY <2>3 DEF Identified
    <3> QED
      BY <2>1, <2>2, <3>1 DEF Document
  <2>4. CASE d.id # Missing
    BY <2>4 DEF Identified
  <2> QED
    BY <2>3, <2>4
<1>3. Insert(w, d) = IF Taken(w.docs, stored.id) THEN [w EXCEPT !.failed = TRUE]
                     ELSE [w EXCEPT !.docs = Append(w.docs, stored), !.n = w.n + 1,
                                    !.made = IF d.id = Missing THEN w.made + 1 ELSE w.made]
  BY DEF Insert
<1> HIDE DEF stored
<1>4. CASE Taken(w.docs, stored.id)
  <2>1. Insert(w, d) = [w EXCEPT !.failed = TRUE]
    BY <1>3, <1>4
  <2>2. Insert(w, d) \in Outcome /\ Insert(w, d).docs = w.docs
    BY <1>1, <2>1 DEF Outcome
  <2> QED
    BY <1>1, <2>2 DEF Outcomes
<1>5. CASE ~Taken(w.docs, stored.id)
  <2> DEFINE after == Append(w.docs, stored)
             made == IF d.id = Missing THEN w.made + 1 ELSE w.made
  <2>1. Insert(w, d) = [w EXCEPT !.docs = after, !.n = w.n + 1, !.made = made]
    BY <1>3, <1>5
  <2>2. /\ after \in Seq(Document) /\ Len(after) = Len(w.docs) + 1
        /\ \A i \in DOMAIN after :
             \/ i \in DOMAIN w.docs /\ after[i] = w.docs[i]
             \/ i = Len(w.docs) + 1 /\ after[i] = stored
    BY <1>1, <1>2
  <2>3. made \in Nat
    BY <1>1
  <2> HIDE DEF after, made
  <2>8. PICK more \in Nat : more = w.n + 1
    BY <1>1
  <2>4. Insert(w, d) \in Outcome /\ Insert(w, d).docs = after
    <3>1. Insert(w, d) = [w EXCEPT !.docs = after, !.n = more, !.made = made]
      BY <2>1, <2>8
    <3>2. after \in Seq(Document)
      BY <2>2
    <3> QED
      BY <1>1, <3>1, <3>2, <2>3 DEF Outcome
  <2>5. \A i \in DOMAIN w.docs : w.docs[i].id # stored.id
    BY <1>5 DEF Taken
  <2>6. Keyed(after)
    BY <1>1, <1>2, <2>2, <2>5 DEF Keyed
  <2>7. Len(w.docs) \in Nat
    BY <1>1
  <2> QED
    BY <2>2, <2>4, <2>6, <2>7 DEF Outcomes
<1> QED
  BY <1>4, <1>5

\* The loop of an insert goes on, counts a duplicate, or has stopped.
LEMMA InsertNextKeeps ==
  ASSUME NEW w \in Outcomes, NEW d \in Document, NEW i \in Nat, NEW ordered \in BOOLEAN
  PROVE  /\ InsertNext(w, d, i, ordered) \in Outcomes
         /\ Len(InsertNext(w, d, i, ordered).docs) <= Len(w.docs) + 1
<1>1. PICK v \in Outcomes : v = Insert(w, d) /\ Len(v.docs) <= Len(w.docs) + 1
  BY InsertKeeps
<1>2. w \in Outcome /\ Keyed(w.docs) /\ Len(w.docs) \in Nat
  BY DEF Outcomes, Outcome
<1>3. \/ InsertNext(w, d, i, ordered) = w
      \/ InsertNext(w, d, i, ordered) = [w EXCEPT !.errors = w.errors \cup {i}]
      \/ InsertNext(w, d, i, ordered) = v
  BY <1>1 DEF InsertNext
<1>4. CASE InsertNext(w, d, i, ordered) = [w EXCEPT !.errors = w.errors \cup {i}]
  <2>1. /\ InsertNext(w, d, i, ordered) \in Outcome
        /\ InsertNext(w, d, i, ordered).docs = w.docs
    BY <1>2, <1>4 DEF Outcome
  <2> QED
    BY <1>2, <2>1 DEF Outcomes
<1> QED
  BY <1>1, <1>2, <1>3, <1>4

\* Nothing has been written when a batch begins.
LEMMA WritingIs ==
  ASSUME NEW docs \in Seq(Document), Keyed(docs), objectIds \in Nat
  PROVE  Writing(docs) \in Outcomes /\ Writing(docs).docs = docs
BY DEF Writing, Outcomes, Outcome

\* insert: whatever the batch, what it leaves is keyed, and it adds no more
\* documents than it has.
LEMMA InsertBatchKeeps ==
  ASSUME NEW docs \in Seq(Document), Keyed(docs), objectIds \in Nat,
         NEW batch \in Seq(Document), NEW ordered \in BOOLEAN
  PROVE  /\ InsertBatch(docs, batch, ordered) \in Outcomes
         /\ Len(InsertBatch(docs, batch, ordered).docs) <= Len(docs) + Len(batch)
<1>1. PICK n \in Nat : n = Len(batch)
  OBVIOUS
<1>2. PICK w0 \in Outcomes : w0 = Writing(docs) /\ w0.docs = docs
  BY WritingIs
<1>3. \A i \in 1 .. n : batch[i] \in Document
  BY <1>1
<1> DEFINE F == [x \in Outcomes \X (1 .. n) |-> InsertNext(x[1], batch[x[2]], x[2], ordered)]
<1>4. ASSUME NEW w \in Outcomes, NEW i \in 1 .. n
      PROVE  /\ F[<<w, i>>] = InsertNext(w, batch[i], i, ordered)
             /\ InsertNext(w, batch[i], i, ordered) \in Outcomes
             /\ Len(InsertNext(w, batch[i], i, ordered).docs) <= Len(w.docs) + 1
  <2>1. F[<<w, i>>] = InsertNext(w, batch[i], i, ordered)
    OBVIOUS
  <2>2. batch[i] \in Document /\ i \in Nat
    BY <1>3
  <2> HIDE DEF F
  <2> QED
    BY <2>1, <2>2, InsertNextKeeps
<1> HIDE DEF F
<1>5. PICK g : /\ g = [i \in 0 .. n |-> IF i = 0 THEN w0 ELSE F[<<g[i - 1], i>>]]
               /\ \A i \in 0 .. n : g[i] \in Outcomes
  <2>1. Keeps(F, n, Outcomes)
    BY <1>4 DEF Keeps
  <2>2. HasRun(F, n, Outcomes, w0)
    BY <2>1, RunExists
  <2> QED
    BY <2>2 DEF HasRun
<1> DEFINE run(h) == [i \in 0 .. n |->
                        IF i = 0 THEN w0 ELSE InsertNext(h[i - 1], batch[i], i, ordered)]
<1>6. g = run(g)
  <2>1. ASSUME NEW i \in 0 .. n
        PROVE  (IF i = 0 THEN w0 ELSE F[<<g[i - 1], i>>])
                 = IF i = 0 THEN w0 ELSE InsertNext(g[i - 1], batch[i], i, ordered)
    <3>1. CASE i # 0
      <4>1. i \in 1 .. n /\ i - 1 \in 0 .. n
        BY <3>1
      <4>2. g[i - 1] \in Outcomes
        BY <1>5, <4>1
      <4> QED
        BY <1>4, <3>1, <4>1, <4>2
    <3> QED
      BY <3>1
  <2> QED
    BY <1>5, <2>1
<1> DEFINE after == CHOOSE h : h = run(h)
<1>7. after = run(after)
  <2> HIDE DEF run
  <2> QED
    BY <1>6
<1>8. InsertBatch(docs, batch, ordered) = after[n]
  BY <1>1, <1>2 DEF InsertBatch
<1> HIDE DEF after
<1>9. after[0] \in Outcomes /\ \A i \in 1 .. n : after[i] = InsertNext(after[i - 1], batch[i], i, ordered)
  BY <1>7
<1> HIDE DEF run
<1>10. \A i \in 0 .. n : after[i] \in Outcomes
  <2>1. \A i \in 1 .. n : after[i - 1] \in Outcomes => after[i] \in Outcomes
    BY <1>4, <1>9
  <2> QED
    BY <1>9, <2>1, RunStays
<1> DEFINE sizes == [i \in 0 .. n |-> Len(after[i].docs)]
<1>11. ASSUME NEW i \in 0 .. n PROVE sizes[i] = Len(after[i].docs) /\ sizes[i] \in Nat
  <2>1. after[i].docs \in Seq(Document)
    BY <1>10 DEF Outcomes, Outcome
  <2> QED
    BY <2>1
<1>12. ASSUME NEW i \in 1 .. n PROVE sizes[i] <= sizes[i - 1] + 1
  <2>1. i \in 0 .. n /\ i - 1 \in 0 .. n
    OBVIOUS
  <2>2. after[i - 1] \in Outcomes
    BY <1>10, <2>1
  <2>3. Len(after[i].docs) <= Len(after[i - 1].docs) + 1
    BY <1>4, <1>9, <2>2
  <2> QED
    BY <1>11, <2>1, <2>3
<1>13. sizes \in [0 .. n -> Nat]
  BY <1>11
<1>14. sizes[0] = Len(docs) /\ sizes[n] = Len(after[n].docs)
  <2>1. after[0] = w0
    BY <1>7 DEF run
  <2> QED
    BY <1>2, <1>11, <2>1
<1> HIDE DEF sizes
<1>15. sizes[n] <= sizes[0] + n
  BY <1>12, <1>13, RunGrows
<1>16. after[n] \in Outcomes
  BY <1>10
<1> QED
  BY <1>1, <1>8, <1>14, <1>15, <1>16
\* What applyUpdate leaves is a document, unless it fails.
LEMMA ApplyUpdateIs ==
  ASSUME NEW d \in Document, NEW u \in Modifier, ~UpdateFails(d, u)
  PROVE  ApplyUpdate(d, u) \in Document
<1>1. d.id \in Identifier /\ d.qty \in Value /\ d = [id |-> d.id, qty |-> d.qty]
  BY DEF Document
<1>2. CASE u \in {"$set", "replace"} \X Value
  <2>1. u[1] \in {"$set", "replace"} /\ u[2] \in Value
    BY <1>2
  <2>2. ApplyUpdate(d, u) = [d EXCEPT !.qty = u[2]]
    BY <2>1 DEF ApplyUpdate
  <2> QED
    BY <1>1, <2>1, <2>2 DEF Document
<1>3. CASE u \in {"set_id"} \X Identifier
  <2>1. u[1] = "set_id" /\ u[2] \in Identifier
    BY <1>3
  <2>2. ApplyUpdate(d, u) = [d EXCEPT !.id = u[2]]
    BY <2>1 DEF ApplyUpdate
  <2> QED
    BY <1>1, <2>1, <2>2 DEF Document
<1>4. CASE u \in {"$unset", "$inc", "$push"} \X {0}
  <2>1. u[1] \in {"$unset", "$inc"} /\ (u[1] = "$inc" => d.qty # Word)
    BY <1>4 DEF UpdateFails
  <2>2. CASE u[1] = "$unset"
    <3>1. ApplyUpdate(d, u) = [d EXCEPT !.qty = Missing]
      BY <2>2 DEF ApplyUpdate
    <3>2. Missing \in Value
      BY DEF Value
    <3> QED
      BY <1>1, <3>1, <3>2 DEF Document
  <2>3. CASE u[1] = "$inc"
    <3> DEFINE more == Number(IF d.qty = Missing THEN 1 ELSE d.qty[2] + 1)
    <3>1. ApplyUpdate(d, u) = [d EXCEPT !.qty = more]
      BY <2>3 DEF ApplyUpdate
    <3>2. d.qty = Missing \/ d.qty[2] \in Int
      BY <1>1, <2>1, <2>3 DEF Value
    <3>3. more \in Value
      BY <3>2 DEF Value, Number
    <3> HIDE DEF more
    <3> QED
      BY <1>1, <3>1, <3>3 DEF Document
  <2> QED
    BY <2>1, <2>2, <2>3
<1> QED
  BY <1>2, <1>3, <1>4 DEF Modifier

\* A rewritten document stays in its place and keeps its _id.
LEMMA RewriteKeeps ==
  ASSUME NEW w \in Outcomes, NEW i \in DOMAIN w.docs, NEW u \in Modifier
  PROVE  Rewrite(w, i, u) \in Outcomes /\ Len(Rewrite(w, i, u).docs) = Len(w.docs)
<1>1. /\ w \in Outcome /\ Keyed(w.docs) /\ w.docs \in Seq(Document) /\ w.n \in Nat /\ w.modified \in Nat
      /\ w.docs[i] \in Document
  BY DEF Outcomes, Outcome
<1> DEFINE updated == ApplyUpdate(w.docs[i], u)
<1>2. CASE w.failed \/ UpdateFails(w.docs[i], u) \/ ~KeepsIdentifier(w.docs[i], updated)
  <2>1. Rewrite(w, i, u) = [w EXCEPT !.failed = TRUE]
    BY <1>2 DEF Rewrite
  <2>2. Rewrite(w, i, u) \in Outcome /\ Rewrite(w, i, u).docs = w.docs
    BY <1>1, <2>1 DEF Outcome
  <2> QED
    BY <1>1, <2>2 DEF Outcomes
<1>3. CASE ~(w.failed \/ UpdateFails(w.docs[i], u) \/ ~KeepsIdentifier(w.docs[i], updated))
  <2>1. PICK docs : docs = [w.docs EXCEPT ![i] = updated]
    OBVIOUS
  <2>2. PICK n \in Nat : n = w.n + 1
    BY <1>1
  <2>3. PICK modified \in Nat :
          modified = IF updated = w.docs[i] THEN w.modified ELSE w.modified + 1
    BY <1>1
  <2>4. Rewrite(w, i, u) = [w EXCEPT !.docs = docs, !.n = n, !.modified = modified]
    BY <1>3, <2>1, <2>2, <2>3 DEF Rewrite
  <2>5. updated \in Document /\ updated.id = w.docs[i].id
    BY <1>1, <1>3, ApplyUpdateIs DEF KeepsIdentifier
  <2> HIDE DEF updated
  <2>6. /\ docs \in Seq(Document) /\ Len(docs) = Len(w.docs) /\ DOMAIN docs = DOMAIN w.docs
        /\ \A j \in DOMAIN docs : docs[j].id = w.docs[j].id
    BY <1>1, <2>1, <2>5
  <2>7. Rewrite(w, i, u) \in Outcome /\ Rewrite(w, i, u).docs = docs
    BY <1>1, <2>4, <2>6 DEF Outcome
  <2>8. Keyed(docs)
    BY <1>1, <2>6 DEF Keyed
  <2> QED
    BY <2>6, <2>7, <2>8 DEF Outcomes
<1> QED
  BY <1>2, <1>3

\* update: so does a run of rewrites.
LEMMA RewriteAllKeeps ==
  ASSUME NEW w \in Outcomes, NEW places \in Seq(DOMAIN w.docs), NEW u \in Modifier
  PROVE  /\ RewriteAll(w, places, u) \in Outcomes
         /\ Len(RewriteAll(w, places, u).docs) = Len(w.docs)
<1>1. PICK n \in Nat : n = Len(places)
  OBVIOUS
<1>2. PICK m \in Nat : m = Len(w.docs) /\ DOMAIN w.docs = 1 .. m
  BY DEF Outcomes, Outcome
<1> DEFINE W == {v \in Outcomes : Len(v.docs) = m}
           F == [x \in W \X (1 .. n) |-> Rewrite(x[1], places[x[2]], u)]
<1>3. ASSUME NEW v \in W, NEW i \in 1 .. n
      PROVE  F[<<v, i>>] = Rewrite(v, places[i], u) /\ Rewrite(v, places[i], u) \in W
  <2>1. F[<<v, i>>] = Rewrite(v, places[i], u)
    OBVIOUS
  <2>2. v \in Outcomes /\ Len(v.docs) = m /\ v.docs \in Seq(Document)
    BY DEF Outcomes, Outcome
  <2>3. places[i] \in DOMAIN v.docs
    BY <1>1, <1>2, <2>2
  <2> HIDE DEF F
  <2> QED
    BY <2>1, <2>2, <2>3, RewriteKeeps
<1>4. w \in W
  BY <1>2
<1> HIDE DEF W, F
<1>5. PICK g : /\ g = [i \in 0 .. n |-> IF i = 0 THEN w ELSE F[<<g[i - 1], i>>]]
               /\ \A i \in 0 .. n : g[i] \in W
  <2>1. Keeps(F, n, W)
    BY <1>3 DEF Keeps
  <2>2. HasRun(F, n, W, w)
    BY <2>1, <1>4, RunExists
  <2> QED
    BY <2>2 DEF HasRun
<1> DEFINE run(h) == [i \in 0 .. n |-> IF i = 0 THEN w ELSE Rewrite(h[i - 1], places[i], u)]
<1>6. g = run(g)
  <2>1. ASSUME NEW i \in 0 .. n
        PROVE  (IF i = 0 THEN w ELSE F[<<g[i - 1], i>>])
                 = IF i = 0 THEN w ELSE Rewrite(g[i - 1], places[i], u)
    <3>1. CASE i # 0
      <4>1. i \in 1 .. n /\ i - 1 \in 0 .. n
        BY <3>1
      <4>2. g[i - 1] \in W
        BY <1>5, <4>1
      <4> QED
        BY <1>3, <3>1, <4>1, <4>2
    <3> QED
      BY <3>1
  <2> QED
    BY <1>5, <2>1
<1> DEFINE after == CHOOSE h : h = run(h)
<1>7. after = run(after)
  <2> HIDE DEF run
  <2> QED
    BY <1>6
<1>8. RewriteAll(w, places, u) = after[n]
  BY <1>1 DEF RewriteAll
<1> HIDE DEF after
<1>9. after[0] \in W /\ \A i \in 1 .. n : after[i] = Rewrite(after[i - 1], places[i], u)
  BY <1>4, <1>7
<1> HIDE DEF run
<1>10. \A i \in 0 .. n : after[i] \in W
  <2>1. \A i \in 1 .. n : after[i - 1] \in W => after[i] \in W
    BY <1>3, <1>9
  <2> QED
    BY <1>9, <2>1, RunStays
<1>11. after[n] \in W
  BY <1>10
<1> QED
  BY <1>2, <1>8, <1>11 DEF W
\* What an upsert's filter says of a document is a document.
LEMMA EqualityFieldsIs ==
  ASSUME NEW f \in Filter PROVE EqualityFields(f) \in Document
<1>1. Missing \in Identifier /\ Missing \in Value
  BY DEF Identifier, Value
<1>2. CASE f \in {"_id"} \X Identifier
  <2>1. f[1] = "_id" /\ f[2] \in Identifier
    BY <1>2
  <2> QED
    BY <1>1, <2>1 DEF EqualityFields, Doc, Document
<1>3. CASE f \in {"qty"} \X Value
  <2>1. f[1] = "qty" /\ f[2] \in Value
    BY <1>3
  <2> QED
    BY <1>1, <2>1 DEF EqualityFields, Doc, Document
<1>4. CASE f \in {<<"every">>, <<"unsupported">>}
  <2>1. f[1] # "_id" /\ f[1] # "qty"
    BY <1>4
  <2> QED
    BY <1>1, <2>1 DEF EqualityFields, Doc, NoDoc, Document
<1> QED
  BY <1>2, <1>3, <1>4 DEF Filter

\* A batch that failed keeps what it did.
LEMMA FailedKeeps ==
  ASSUME NEW w \in Outcomes
  PROVE  LET v == [w EXCEPT !.failed = TRUE] IN v \in Outcomes /\ v.docs = w.docs
<1>1. w \in Outcome /\ Keyed(w.docs)
  BY DEF Outcomes
<1> DEFINE v == [w EXCEPT !.failed = TRUE]
<1>2. v \in Outcome /\ v.docs = w.docs
  BY <1>1 DEF Outcome
<1> QED
  BY <1>1, <1>2 DEF Outcomes

LEMMA CreateKeeps ==
  ASSUME NEW w \in Outcomes, NEW f \in Filter, NEW u \in Modifier
  PROVE  Create(w, f, u) \in Outcomes /\ Len(Create(w, f, u).docs) <= Len(w.docs) + 1
<1>1. Len(w.docs) \in Nat
  BY DEF Outcomes, Outcome
<1>2. PICK d \in Document : d = EqualityFields(f)
  BY EqualityFieldsIs
<1>3. CASE UpdateFails(d, u)
  BY <1>1, <1>2, <1>3, FailedKeeps DEF Create
<1>4. CASE ~UpdateFails(d, u)
  <2>1. PICK a \in Document : a = ApplyUpdate(d, u)
    BY <1>4, ApplyUpdateIs
  <2>2. Create(w, f, u) = Insert(w, a)
    BY <1>2, <1>4, <2>1 DEF Create
  <2> QED
    BY <2>2, InsertKeeps
<1> QED
  BY <1>3, <1>4

\* find, selectFor: the places of documents, in order, each of them once.
LEMMA SelectForIs ==
  ASSUME NEW docs \in Seq(Document), NEW f, NEW all \in BOOLEAN
  PROVE  /\ SelectFor(docs, f, all) \in Seq(DOMAIN docs)
         /\ ToSet(SelectFor(docs, f, all)) \subseteq DOMAIN docs
         /\ Matching(docs, f) \in SUBSET DOMAIN docs
<1> DEFINE S == Matching(docs, f)
<1>1. PICK n \in Nat : DOMAIN docs = 1 .. n
  OBVIOUS
<1>2. S \in SUBSET DOMAIN docs
  BY DEF Matching
<1>3. IsFiniteSet(DOMAIN docs)
  BY <1>1, FS_Interval
<1> HIDE DEF S
<1>4. IsFiniteSet(S) /\ S \in SUBSET Nat
  BY <1>1, <1>2, <1>3, FS_Subset
<1>5. PICK found \in Seq(S) : found = InOrder(S)
  BY <1>4, OrderIs
<1>6. SelectFor(docs, f, all) = IF all THEN found ELSE Take(found, 1)
  BY <1>5 DEF SelectFor, S
<1>7. Take(found, 1) \in Seq(S)
  BY DEF Take
<1>8. SelectFor(docs, f, all) \in Seq(S)
  BY <1>6, <1>7
<1>9. SelectFor(docs, f, all) \in Seq(DOMAIN docs)
  <2>1. PICK s \in Seq(S) : s = SelectFor(docs, f, all)
    BY <1>8
  <2>2. s \in Seq(DOMAIN docs)
    BY <1>2
  <2> QED
    BY <2>1, <2>2
<1>10. ToSet(SelectFor(docs, f, all)) \subseteq DOMAIN docs
  BY <1>9 DEF ToSet
<1> QED
  BY <1>2, <1>9, <1>10 DEF S

Updating == [q : Filter, u : Modifier, multi : BOOLEAN, upsert : BOOLEAN]
Deleting == [q : Filter, limit : Int]

\* update: one entry of a batch rewrites, or adds one document at most.
LEMMA UpdateOneKeeps ==
  ASSUME NEW w \in Outcomes, NEW e \in Updating
  PROVE  UpdateOne(w, e) \in Outcomes /\ Len(UpdateOne(w, e).docs) <= Len(w.docs) + 1
<1>1. w.docs \in Seq(Document) /\ Len(w.docs) \in Nat
  BY DEF Outcomes, Outcome
<1>2. e.q \in Filter /\ e.u \in Modifier /\ e.multi \in BOOLEAN
  BY DEF Updating
<1>3. CASE w.failed \/ Breaks(w.docs, e.q)
  BY <1>1, <1>3, FailedKeeps DEF UpdateOne
<1>4. CASE ~(w.failed \/ Breaks(w.docs, e.q))
  <2>1. PICK selected \in Seq(DOMAIN w.docs) : selected = SelectFor(w.docs, e.q, e.multi)
    BY <1>1, <1>2, SelectForIs
  <2>2. UpdateOne(w, e) = IF selected = <<>> /\ e.upsert THEN Create(w, e.q, e.u)
                          ELSE RewriteAll(w, selected, e.u)
    BY <1>4, <2>1 DEF UpdateOne
  <2> QED
    BY <1>1, <1>2, <2>2, CreateKeeps, RewriteAllKeeps
<1> QED
  BY <1>3, <1>4

\* remove: what is left was there, in its order.
LEMMA DeleteOneKeeps ==
  ASSUME NEW w \in Outcomes, NEW e \in Deleting
  PROVE  DeleteOne(w, e) \in Outcomes /\ Len(DeleteOne(w, e).docs) <= Len(w.docs)
<1>1. /\ w \in Outcome /\ Keyed(w.docs) /\ w.docs \in Seq(Document) /\ Len(w.docs) \in Nat
      /\ w.n \in Nat
  BY DEF Outcomes, Outcome
<1>2. CASE w.failed \/ e.limit \notin {0, 1} \/ Breaks(w.docs, e.q)
  <2>1. DeleteOne(w, e) = [w EXCEPT !.failed = TRUE]
    BY <1>2 DEF DeleteOne
  <2> QED
    BY <1>1, <2>1, FailedKeeps
<1>3. CASE ~(w.failed \/ e.limit \notin {0, 1} \/ Breaks(w.docs, e.q))
  <2>1. PICK selected : /\ selected = ToSet(SelectFor(w.docs, e.q, e.limit = 0))
                        /\ selected \subseteq DOMAIN w.docs
    BY <1>1, SelectForIs
  <2>2. PICK kept \in SUBSET DOMAIN w.docs : kept = DOMAIN w.docs \ selected
    OBVIOUS
  <2>3. PICK docs : docs = Picked(w.docs, kept)
    OBVIOUS
  <2>4. PICK m \in Nat : m = Cardinality(kept) /\ m <= Len(w.docs)
    <3>1. IsFiniteSet(DOMAIN w.docs)
      <4>1. DOMAIN w.docs = 1 .. Len(w.docs)
        BY <1>1
      <4> QED
        BY <1>1, <4>1, FS_Interval
    <3>2. Cardinality(kept) \in Nat
      BY <3>1, FS_Subset, FS_CardinalityType
    <3> QED
      BY <3>2, <1>1, PickedIs
  <2>5. PICK f : f = InOrder(kept)
    OBVIOUS
  <2>6. /\ docs \in Seq(Document) /\ Len(docs) = m /\ DOMAIN docs = 1 .. m
        /\ f \in [1 .. m -> kept]
        /\ \A i \in 1 .. m : docs[i] = w.docs[f[i]]
        /\ \A i, j \in 1 .. m : i < j => f[i] < f[j]
    <3>1. PICK held \in Seq(Document) : held = w.docs
      BY <1>1
    <3>2. kept \in SUBSET DOMAIN held
      BY <3>1
    <3>3. /\ Picked(held, kept) \in Seq(Document)
          /\ Len(Picked(held, kept)) = Cardinality(kept)
          /\ DOMAIN Picked(held, kept) = 1 .. Cardinality(kept)
          /\ InOrder(kept) \in [1 .. Cardinality(kept) -> kept]
          /\ \A i \in 1 .. Cardinality(kept) : Picked(held, kept)[i] = held[InOrder(kept)[i]]
          /\ \A i, j \in 1 .. Cardinality(kept) : i < j => InOrder(kept)[i] < InOrder(kept)[j]
      BY <3>2, PickedIs
    <3> QED
      BY <2>3, <2>4, <2>5, <3>1, <3>3
  <2>7. Cardinality(selected) \in Nat
    <3>1. DOMAIN w.docs = 1 .. Len(w.docs)
      BY <1>1
    <3>2. IsFiniteSet(DOMAIN w.docs)
      BY <1>1, <3>1, FS_Interval
    <3> QED
      BY <2>1, <3>2, FS_Subset, FS_CardinalityType
  <2>8. PICK n \in Nat : n = w.n + Cardinality(selected)
    BY <1>1, <2>7
  <2>9. DeleteOne(w, e) = [w EXCEPT !.docs = docs, !.n = n]
    BY <1>3, <2>1, <2>2, <2>3, <2>8 DEF DeleteOne
  <2>10. DeleteOne(w, e) \in Outcome /\ DeleteOne(w, e).docs = docs
    BY <1>1, <2>6, <2>9 DEF Outcome
  <2>11. Keyed(docs)
    <3>1. ASSUME NEW i \in 1 .. m, NEW j \in 1 .. m, i # j
          PROVE  docs[i].id # Missing /\ docs[i].id # docs[j].id
      <4>1. f[i] \in DOMAIN w.docs /\ f[j] \in DOMAIN w.docs
        BY <2>6
      <4>2. f[i] # f[j]
        <5>1. f[i] \in Nat /\ f[j] \in Nat
          BY <1>1, <4>1
        <5>2. i < j \/ j < i
          BY <3>1
        <5> QED
          BY <2>6, <5>1, <5>2
      <4> QED
        BY <1>1, <2>6, <4>1, <4>2 DEF Keyed
    <3>2. ASSUME NEW i \in 1 .. m PROVE docs[i].id # Missing
      <4>1. f[i] \in DOMAIN w.docs
        BY <2>6
      <4> QED
        BY <1>1, <2>6, <4>1 DEF Keyed
    <3> QED
      BY <2>6, <3>1, <3>2 DEF Keyed
  <2> QED
    BY <2>4, <2>6, <2>10, <2>11 DEF Outcomes
<1> QED
  BY <1>2, <1>3
\* update: whatever the updates, what it leaves is keyed, and it adds no more
\* documents than it has entries.
LEMMA UpdateBatchKeeps ==
  ASSUME NEW docs \in Seq(Document), Keyed(docs), objectIds \in Nat,
         NEW updates \in Seq(Updating)
  PROVE  /\ UpdateBatch(docs, updates) \in Outcomes
         /\ Len(UpdateBatch(docs, updates).docs) <= Len(docs) + Len(updates)
<1>1. PICK n \in Nat : n = Len(updates)
  OBVIOUS
<1>2. PICK w0 \in Outcomes : w0 = Writing(docs) /\ w0.docs = docs
  BY WritingIs
<1>3. \A i \in 1 .. n : updates[i] \in Updating
  BY <1>1
<1> DEFINE F == [x \in Outcomes \X (1 .. n) |-> UpdateOne(x[1], updates[x[2]])]
<1>4. ASSUME NEW w \in Outcomes, NEW i \in 1 .. n
      PROVE  /\ F[<<w, i>>] = UpdateOne(w, updates[i])
             /\ UpdateOne(w, updates[i]) \in Outcomes
             /\ Len(UpdateOne(w, updates[i]).docs) <= Len(w.docs) + 1
  <2>1. F[<<w, i>>] = UpdateOne(w, updates[i])
    OBVIOUS
  <2>2. updates[i] \in Updating
    BY <1>3
  <2> HIDE DEF F
  <2> QED
    BY <2>1, <2>2, UpdateOneKeeps
<1> HIDE DEF F
<1>5. PICK g : /\ g = [i \in 0 .. n |-> IF i = 0 THEN w0 ELSE F[<<g[i - 1], i>>]]
               /\ \A i \in 0 .. n : g[i] \in Outcomes
  <2>1. Keeps(F, n, Outcomes)
    BY <1>4 DEF Keeps
  <2>2. HasRun(F, n, Outcomes, w0)
    BY <2>1, RunExists
  <2> QED
    BY <2>2 DEF HasRun
<1> DEFINE run(h) == [i \in 0 .. n |->
                        IF i = 0 THEN w0 ELSE UpdateOne(h[i - 1], updates[i])]
<1>6. g = run(g)
  <2>1. ASSUME NEW i \in 0 .. n
        PROVE  (IF i = 0 THEN w0 ELSE F[<<g[i - 1], i>>])
                 = IF i = 0 THEN w0 ELSE UpdateOne(g[i - 1], updates[i])
    <3>1. CASE i # 0
      <4>1. i \in 1 .. n /\ i - 1 \in 0 .. n
        BY <3>1
      <4>2. g[i - 1] \in Outcomes
        BY <1>5, <4>1
      <4> QED
        BY <1>4, <3>1, <4>1, <4>2
    <3> QED
      BY <3>1
  <2> QED
    BY <1>5, <2>1
<1> DEFINE after == CHOOSE h : h = run(h)
<1>7. after = run(after)
  <2> HIDE DEF run
  <2> QED
    BY <1>6
<1>8. UpdateBatch(docs, updates) = after[n]
  BY <1>1, <1>2 DEF UpdateBatch
<1> HIDE DEF after
<1>9. after[0] \in Outcomes /\ \A i \in 1 .. n : after[i] = UpdateOne(after[i - 1], updates[i])
  BY <1>7
<1> HIDE DEF run
<1>10. \A i \in 0 .. n : after[i] \in Outcomes
  <2>1. \A i \in 1 .. n : after[i - 1] \in Outcomes => after[i] \in Outcomes
    BY <1>4, <1>9
  <2> QED
    BY <1>9, <2>1, RunStays
<1> DEFINE sizes == [i \in 0 .. n |-> Len(after[i].docs)]
<1>11. ASSUME NEW i \in 0 .. n PROVE sizes[i] = Len(after[i].docs) /\ sizes[i] \in Nat
  <2>1. after[i].docs \in Seq(Document)
    BY <1>10 DEF Outcomes, Outcome
  <2> QED
    BY <2>1
<1>12. ASSUME NEW i \in 1 .. n PROVE sizes[i] <= sizes[i - 1] + 1
  <2>1. i \in 0 .. n /\ i - 1 \in 0 .. n
    OBVIOUS
  <2>2. after[i - 1] \in Outcomes
    BY <1>10, <2>1
  <2>3. Len(after[i].docs) <= Len(after[i - 1].docs) + 1
    BY <1>4, <1>9, <2>2
  <2> QED
    BY <1>11, <2>1, <2>3
<1>13. sizes \in [0 .. n -> Nat]
  BY <1>11
<1>14. sizes[0] = Len(docs) /\ sizes[n] = Len(after[n].docs)
  <2>1. after[0] = w0
    BY <1>7 DEF run
  <2> QED
    BY <1>2, <1>11, <2>1
<1> HIDE DEF sizes
<1>15. sizes[n] <= sizes[0] + n
  BY <1>12, <1>13, RunGrows
<1>16. after[n] \in Outcomes
  BY <1>10
<1> QED
  BY <1>1, <1>8, <1>14, <1>15, <1>16

\* update: whatever the deletes, what it leaves is keyed, and it adds no more
\* documents than it has entries.
LEMMA DeleteBatchKeeps ==
  ASSUME NEW docs \in Seq(Document), Keyed(docs), objectIds \in Nat,
         NEW deletes \in Seq(Deleting)
  PROVE  /\ DeleteBatch(docs, deletes) \in Outcomes
         /\ Len(DeleteBatch(docs, deletes).docs) <= Len(docs)
<1>1. PICK n \in Nat : n = Len(deletes)
  OBVIOUS
<1> DEFINE Smaller == {w \in Outcomes : Len(w.docs) <= Len(docs)}
<1>2. PICK w0 \in Smaller : w0 = Writing(docs)
  BY WritingIs
<1>3. \A i \in 1 .. n : deletes[i] \in Deleting
  BY <1>1
<1> DEFINE F == [x \in Smaller \X (1 .. n) |-> DeleteOne(x[1], deletes[x[2]])]
<1>4. ASSUME NEW w \in Smaller, NEW i \in 1 .. n
      PROVE  /\ F[<<w, i>>] = DeleteOne(w, deletes[i])
             /\ DeleteOne(w, deletes[i]) \in Smaller
  <2>1. F[<<w, i>>] = DeleteOne(w, deletes[i])
    OBVIOUS
  <2>2. deletes[i] \in Deleting
    BY <1>3
  <2> HIDE DEF F
  <2>3. w \in Outcomes /\ Len(w.docs) <= Len(docs) /\ w.docs \in Seq(Document)
    BY DEF Outcomes, Outcome
  <2>4. PICK v \in Outcomes : v = DeleteOne(w, deletes[i]) /\ Len(v.docs) <= Len(w.docs)
    BY <2>2, <2>3, DeleteOneKeeps
  <2>5. Len(v.docs) \in Nat /\ Len(w.docs) \in Nat /\ Len(docs) \in Nat
    BY <2>3 DEF Outcomes, Outcome
  <2> QED
    BY <2>1, <2>3, <2>4, <2>5
<1> HIDE DEF F, Smaller
<1>5. PICK g : /\ g = [i \in 0 .. n |-> IF i = 0 THEN w0 ELSE F[<<g[i - 1], i>>]]
               /\ \A i \in 0 .. n : g[i] \in Smaller
  <2>1. Keeps(F, n, Smaller)
    BY <1>4 DEF Keeps
  <2>2. HasRun(F, n, Smaller, w0)
    BY <2>1, RunExists
  <2> QED
    BY <2>2 DEF HasRun
<1> DEFINE run(h) == [i \in 0 .. n |->
                        IF i = 0 THEN w0 ELSE DeleteOne(h[i - 1], deletes[i])]
<1>6. g = run(g)
  <2>1. ASSUME NEW i \in 0 .. n
        PROVE  (IF i = 0 THEN w0 ELSE F[<<g[i - 1], i>>])
                 = IF i = 0 THEN w0 ELSE DeleteOne(g[i - 1], deletes[i])
    <3>1. CASE i # 0
      <4>1. i \in 1 .. n /\ i - 1 \in 0 .. n
        BY <3>1
      <4>2. g[i - 1] \in Smaller
        BY <1>5, <4>1
      <4> QED
        BY <1>4, <3>1, <4>1, <4>2
    <3> QED
      BY <3>1
  <2> QED
    BY <1>5, <2>1
<1> DEFINE after == CHOOSE h : h = run(h)
<1>7. after = run(after)
  <2> HIDE DEF run
  <2> QED
    BY <1>6
<1>8. DeleteBatch(docs, deletes) = after[n]
  BY <1>1, <1>2 DEF DeleteBatch
<1> HIDE DEF after
<1>9. after[0] \in Smaller /\ \A i \in 1 .. n : after[i] = DeleteOne(after[i - 1], deletes[i])
  BY <1>7
<1> HIDE DEF run
<1>10. \A i \in 0 .. n : after[i] \in Smaller
  <2>1. \A i \in 1 .. n : after[i - 1] \in Smaller => after[i] \in Smaller
    BY <1>4, <1>9
  <2> QED
    BY <1>9, <2>1, RunStays
<1>11. after[n] \in Smaller
  BY <1>10
<1> QED
  BY <1>8, <1>11 DEF Smaller

\* A stage turns documents into documents.
StageOf == ({"$match"} \X Filter) \cup ({"$skip", "$limit"} \X Nat)
             \cup ({"$count", "$group", "$lookup"} \X {0})
LEMMA WindowIs ==
  ASSUME NEW D, NEW docs \in Seq(D), NEW skip \in Nat, NEW limit \in Nat
  PROVE  Window(docs, skip, limit) \in Seq(D)
<1>1. PICK rest \in Seq(D) : rest = SubSeq(docs, skip + 1, Len(docs))
  <2>1. PICK m \in Int, n \in Int : m = skip + 1 /\ n = Len(docs)
    OBVIOUS
  <2>2. \A i \in m .. n : docs[i] \in D
    BY <2>1
  <2>3. SubSeq(docs, m, n) \in Seq(D)
    BY <2>2, SubSeqProperties
  <2> QED
    BY <2>1, <2>3
<1>2. Take(rest, limit) \in Seq(D)
  BY DEF Take
<1> QED
  BY <1>1, <1>2 DEF Window

LEMMA StageIs ==
  ASSUME NEW docs \in Seq(Document), NEW s \in StageOf, s[1] \in Stages
  PROVE  Stage(docs, s) \in Seq(Document)
<1>1. CASE s \in {"$match"} \X Filter
  <2>1. Matching(docs, s[2]) \in SUBSET DOMAIN docs
    BY DEF Matching
  <2>2. Picked(docs, Matching(docs, s[2])) \in Seq(Document)
    BY <2>1, PickedIs
  <2>3. s[1] = "$match"
    BY <1>1
  <2> QED
    BY <2>2, <2>3 DEF Stage
<1>2. CASE s \in {"$skip", "$limit"} \X Nat
  <2>1. s[1] \in {"$skip", "$limit"} /\ s[2] \in Nat
    BY <1>2
  <2>2. Window(docs, s[2], 0) \in Seq(Document) /\ Window(docs, 0, s[2]) \in Seq(Document)
    BY <2>1, WindowIs
  <2>3. CASE s[1] = "$skip"
    BY <2>2, <2>3 DEF Stage
  <2>4. CASE s[1] = "$limit"
    BY <2>2, <2>4 DEF Stage
  <2> QED
    BY <2>1, <2>3, <2>4
<1>3. CASE s \in {"$count", "$group", "$lookup"} \X {0}
  <2>1. s[1] \in {"$count", "$group"}
    BY <1>3 DEF Stages
  <2>2. Stage(docs, s) = <<Doc(Missing, Number(Len(docs)))>>
    BY <2>1 DEF Stage
  <2>3. Doc(Missing, Number(Len(docs))) \in Document
    <3>1. Missing \in Identifier
      BY DEF Identifier
    <3>2. PICK n \in Nat : n = Len(docs)
      OBVIOUS
    <3>3. Number(n) \in Value
      BY DEF Value, Number
    <3> QED
      BY <3>1, <3>2, <3>3 DEF Doc, Document
  <2> QED
    BY <2>2, <2>3
<1> QED
  BY <1>1, <1>2, <1>3 DEF StageOf

\* aggregate: what a pipeline ends with, failed or not, is a sequence of
\* documents.
LEMMA PipelineIs ==
  ASSUME NEW docs \in Seq(Document), NEW pipeline \in Seq(StageOf)
  PROVE  Pipeline(docs, pipeline).docs \in Seq(Document)
<1>1. PICK n \in Nat : n = Len(pipeline)
  OBVIOUS
<1> DEFINE Run == [docs : Seq(Document), failed : BOOLEAN]
<1>2. PICK w0 \in Run : w0 = [docs |-> docs, failed |-> FALSE]
  OBVIOUS
<1>3. \A i \in 1 .. n : pipeline[i] \in StageOf
  BY <1>1
<1> DEFINE F == [x \in Run \X (1 .. n) |-> RunStage(x[1], pipeline[x[2]])]
<1>4. ASSUME NEW w \in Run, NEW i \in 1 .. n
      PROVE  /\ F[<<w, i>>] = RunStage(w, pipeline[i])
             /\ RunStage(w, pipeline[i]) \in Run
  <2>1. F[<<w, i>>] = RunStage(w, pipeline[i])
    OBVIOUS
  <2>2. pipeline[i] \in StageOf
    BY <1>3
  <2> HIDE DEF F
  <2>3. CASE w.failed \/ pipeline[i][1] \notin Stages
                \/ (pipeline[i][1] = "$match" /\ Breaks(w.docs, pipeline[i][2]))
    <3>1. RunStage(w, pipeline[i]) = [w EXCEPT !.failed = TRUE]
      BY <2>3 DEF RunStage
    <3> QED
      BY <2>1, <3>1
  <2>4. CASE ~(w.failed \/ pipeline[i][1] \notin Stages
                \/ (pipeline[i][1] = "$match" /\ Breaks(w.docs, pipeline[i][2])))
    <3>1. RunStage(w, pipeline[i]) = [w EXCEPT !.docs = Stage(w.docs, pipeline[i])]
      BY <2>4 DEF RunStage
    <3>2. Stage(w.docs, pipeline[i]) \in Seq(Document)
      BY <2>2, <2>4, StageIs
    <3> QED
      BY <2>1, <3>1, <3>2
  <2> QED
    BY <2>3, <2>4
<1> HIDE DEF F, Run
<1>5. PICK g : /\ g = [i \in 0 .. n |-> IF i = 0 THEN w0 ELSE F[<<g[i - 1], i>>]]
               /\ \A i \in 0 .. n : g[i] \in Run
  <2>1. Keeps(F, n, Run)
    BY <1>4 DEF Keeps
  <2>2. HasRun(F, n, Run, w0)
    BY <2>1, RunExists
  <2> QED
    BY <2>2 DEF HasRun
<1> DEFINE run(h) == [i \in 0 .. n |->
                        IF i = 0 THEN w0 ELSE RunStage(h[i - 1], pipeline[i])]
<1>6. g = run(g)
  <2>1. ASSUME NEW i \in 0 .. n
        PROVE  (IF i = 0 THEN w0 ELSE F[<<g[i - 1], i>>])
                 = IF i = 0 THEN w0 ELSE RunStage(g[i - 1], pipeline[i])
    <3>1. CASE i # 0
      <4>1. i \in 1 .. n /\ i - 1 \in 0 .. n
        BY <3>1
      <4>2. g[i - 1] \in Run
        BY <1>5, <4>1
      <4> QED
        BY <1>4, <3>1, <4>1, <4>2
    <3> QED
      BY <3>1
  <2> QED
    BY <1>5, <2>1
<1> DEFINE after == CHOOSE h : h = run(h)
<1>7. after = run(after)
  <2> HIDE DEF run
  <2> QED
    BY <1>6
<1>8. Pipeline(docs, pipeline) = after[n]
  BY <1>1, <1>2 DEF Pipeline
<1> HIDE DEF after
<1>9. after[0] \in Run /\ \A i \in 1 .. n : after[i] = RunStage(after[i - 1], pipeline[i])
  BY <1>7
<1> HIDE DEF run
<1>10. \A i \in 0 .. n : after[i] \in Run
  <2>1. \A i \in 1 .. n : after[i - 1] \in Run => after[i] \in Run
    BY <1>4, <1>9
  <2> QED
    BY <1>9, <2>1, RunStays
<1>11. after[n] \in Run
  BY <1>10
<1> QED
  BY <1>8, <1>11 DEF Run
-----------------------------------------------------------------------------
(* The wires: what each client is owed *)

Phases == {"away", "connect", "reading", "running", "closed"}
SessionSet == [phase : Phases, request : Nat, silent : BOOLEAN, op : Script \cup {Idle}, gauge : Nat]
WireTypes ==
  /\ sessions \in [Client -> SessionSet]
  /\ \A c \in Client : sessions[c].phase = "running" => sessions[c].op \in Script
  /\ inbox \in [Client -> Seq(Script)] /\ \A c \in Client : Len(inbox[c]) <= 1
  /\ sent \in [Client -> Nat]
  /\ asked \in [Client -> Seq(Nat)] /\ answered \in [Client -> Seq(Nat)]

\* The request a session runs, and the one it has not read, if they are
\* waited for.
Due(c) ==
  IF sessions[c].phase = "running" /\ ~sessions[c].silent THEN <<sessions[c].request>> ELSE <<>>
Waiting(c) == IF inbox[c] # <<>> /\ ~Head(inbox[c]).silent THEN <<sent[c]>> ELSE <<>>
Owed(c) ==
  IF sessions[c].phase = "closed" THEN \E t \in Seq(Nat) : asked[c] = answered[c] \o t
  ELSE asked[c] = (answered[c] \o Due(c)) \o Waiting(c)
WireInv == WireTypes /\ \A c \in Client : Owed(c)

LEMMA AppendIs ==
  ASSUME NEW D, NEW a \in Seq(D), NEW x \in D
  PROVE  a \o <<>> = a /\ <<>> \o a = a /\ Append(a, x) = a \o <<x>> /\ <<x>> \in Seq(D)
<1>1. a \o <<>> = a /\ <<>> \o a = a
  BY ConcatEmptySeq
<1>2. Append(a, x) \in Seq(D) /\ Len(Append(a, x)) = Len(a) + 1
      /\ \A i \in 1 .. Len(a) + 1 : Append(a, x)[i] = IF i <= Len(a) THEN a[i] ELSE x
  OBVIOUS
<1>3. a \o <<x>> \in Seq(D) /\ Len(a \o <<x>>) = Len(a) + 1
      /\ \A i \in 1 .. Len(a) + 1 : (a \o <<x>>)[i] = IF i <= Len(a) THEN a[i] ELSE x
  OBVIOUS
<1>4. PICK s \in Seq(D), t \in Seq(D) : s = Append(a, x) /\ t = a \o <<x>>
  BY <1>2, <1>3
<1>5. Len(s) = Len(t) /\ \A i \in 1 .. Len(s) : s[i] = t[i]
  BY <1>2, <1>3, <1>4
<1>6. s = t
  BY <1>5, SeqEqual
<1> QED
  BY <1>1, <1>4, <1>6

LEMMA Silences == \A r \in Script : r.silent \in BOOLEAN /\ r.name \in Name
BY ScriptAssumption DEF Request

\* A session that is new, or reads on, has its type.
LEMMA SessionIs == \A p \in Phases : Session(p) \in SessionSet /\ Session(p).phase = p
BY DEF Session, SessionSet

LEMMA WireInit == StoreInit => WireInv
<1> SUFFICES ASSUME StoreInit PROVE WireInv
  OBVIOUS
<1>1. WireTypes
  BY SessionIs DEF StoreInit, WireTypes, Phases
<1>2. ASSUME NEW c \in Client PROVE Owed(c)
  <2>1. sessions[c].phase = "away"
    BY SessionIs DEF StoreInit, Phases
  <2>2. asked[c] = <<>> /\ answered[c] = <<>> /\ inbox[c] = <<>>
    BY DEF StoreInit
  <2> QED
    BY <2>1, <2>2 DEF Owed, Due, Waiting
<1> QED
  BY <1>1, <1>2 DEF WireInv

\* What a client is owed depends on what is its own.
LEMMA OthersOwed ==
  ASSUME NEW c \in Client, Owed(c), sessions'[c] = sessions[c], inbox'[c] = inbox[c],
         sent'[c] = sent[c], asked'[c] = asked[c], answered'[c] = answered[c]
  PROVE  Owed(c)'
BY DEF Owed, Due, Waiting

LEMMA OwedIs ==
  ASSUME WireTypes, NEW c \in Client
  PROVE  Due(c) \in Seq(Nat) /\ Waiting(c) \in Seq(Nat) /\ answered[c] \in Seq(Nat)
BY DEF WireTypes, Due, Waiting, SessionSet

\* A session that closes leaves its client with the replies it had.
LEMMA ClosedOwed ==
  ASSUME WireTypes, NEW c \in Client, Owed(c), asked'[c] = asked[c], answered'[c] = answered[c],
         sessions'[c].phase = "closed"
  PROVE  Owed(c)'
<1>1. Due(c) \in Seq(Nat) /\ Waiting(c) \in Seq(Nat) /\ answered[c] \in Seq(Nat)
  BY OwedIs
<1>2. (answered[c] \o Due(c)) \o Waiting(c) = answered[c] \o (Due(c) \o Waiting(c))
  <2>1. PICK a \in Seq(Nat), b \in Seq(Nat), d \in Seq(Nat) :
          a = answered[c] /\ b = Due(c) /\ d = Waiting(c)
    BY <1>1
  <2>2. (a \o b) \o d = a \o (b \o d)
    BY ConcatAssociative
  <2> QED
    BY <2>1, <2>2
<1>3. Due(c) \o Waiting(c) \in Seq(Nat)
  BY <1>1
<1>4. \E t \in Seq(Nat) : asked[c] = answered[c] \o t
  <2>1. CASE sessions[c].phase = "closed"
    BY <2>1 DEF Owed
  <2>2. CASE sessions[c].phase # "closed"
    BY <2>2, <1>2, <1>3 DEF Owed
  <2> QED
    BY <2>1, <2>2
<1> QED
  BY <1>4 DEF Owed

\* Only one client's entries change.
LEMMA SessionChanges ==
  ASSUME WireInv, NEW c \in Client, NEW s \in SessionSet, sessions' = [sessions EXCEPT ![c] = s],
         s.phase = "running" => s.op \in Script
  PROVE  /\ sessions' \in [Client -> SessionSet] /\ sessions'[c] = s
         /\ \A d \in Client : sessions'[d].phase = "running" => sessions'[d].op \in Script
         /\ \A d \in Client \ {c} : sessions'[d] = sessions[d]
BY DEF WireInv, WireTypes

LEMMA PhaseIs ==
  ASSUME WireInv, NEW c \in Client, NEW p \in Phases \ {"running"}, Phase(c, p)
  PROVE  /\ sessions' \in [Client -> SessionSet] /\ sessions'[c].phase = p
         /\ \A d \in Client : sessions'[d].phase = "running" => sessions'[d].op \in Script
         /\ \A d \in Client \ {c} : sessions'[d] = sessions[d]
BY SessionIs, SessionChanges DEF Phase

LEMMA AcceptKeepsWires ==
  ASSUME WireInv, NEW c \in Client, Accept(c) PROVE WireInv'
<1> DEFINE s == [Session("connect") EXCEPT !.gauge = Cardinality(Open)]
<1>1. IsFiniteSet(Open) /\ Cardinality(Open) \in Nat
  <2>1. Open \in SUBSET Client
    BY DEF Open
  <2> QED
    BY <2>1, ScriptAssumption, FS_Subset, FS_CardinalityType
<1>2. s \in SessionSet /\ s.phase = "connect"
  BY <1>1, SessionIs DEF SessionSet, Phases
<1>3. sessions' = [sessions EXCEPT ![c] = s] /\ UNCHANGED <<wires, answered>> /\ sessions[c].phase = "away"
  BY DEF Accept
<1> HIDE DEF s
<1>4. /\ sessions' \in [Client -> SessionSet] /\ sessions'[c] = s
      /\ \A d \in Client : sessions'[d].phase = "running" => sessions'[d].op \in Script
      /\ \A d \in Client \ {c} : sessions'[d] = sessions[d]
  BY <1>2, <1>3, SessionChanges
<1>5. WireTypes'
  BY <1>3, <1>4 DEF WireInv, WireTypes, wires
<1>6. Owed(c)'
  BY <1>2, <1>3, <1>4 DEF WireInv, Owed, Due, Waiting, wires
<1>7. ASSUME NEW d \in Client \ {c} PROVE Owed(d)'
  BY <1>3, <1>4, OthersOwed DEF WireInv, wires
<1> QED
  BY <1>5, <1>6, <1>7 DEF WireInv

LEMMA ConnectKeepsWires ==
  ASSUME WireInv, NEW c \in Client, Connect(c) PROVE WireInv'
<1>1. UNCHANGED <<wires, answered>> /\ sessions[c].phase = "connect"
  BY DEF Connect
<1>2. PICK p \in {"closed", "reading"} : Phase(c, p)
  BY DEF Connect
<1>3. p \in Phases \ {"running"}
  BY DEF Phases
<1>4. /\ sessions' \in [Client -> SessionSet] /\ sessions'[c].phase = p
      /\ \A d \in Client : sessions'[d].phase = "running" => sessions'[d].op \in Script
      /\ \A d \in Client \ {c} : sessions'[d] = sessions[d]
  BY <1>2, <1>3, PhaseIs
<1>5. WireTypes'
  BY <1>1, <1>4 DEF WireInv, WireTypes, wires
<1>6. Owed(c)'
  <2>1. CASE p = "closed"
    BY <2>1, <1>1, <1>4, ClosedOwed DEF WireInv, wires
  <2>2. CASE p = "reading"
    BY <2>2, <1>1, <1>4 DEF WireInv, Owed, Due, Waiting, wires
  <2> QED
    BY <2>1, <2>2
<1>7. ASSUME NEW d \in Client \ {c} PROVE Owed(d)'
  BY <1>1, <1>4, OthersOwed DEF WireInv, wires
<1> QED
  BY <1>5, <1>6, <1>7 DEF WireInv

LEMMA EndOfStreamKeepsWires ==
  ASSUME WireInv, NEW c \in Client, EndOfStream(c) PROVE WireInv'
<1>1. UNCHANGED <<wires, answered>> /\ Phase(c, "closed")
  BY DEF EndOfStream
<1>2. "closed" \in Phases \ {"running"}
  BY DEF Phases
<1>3. /\ sessions' \in [Client -> SessionSet] /\ sessions'[c].phase = "closed"
      /\ \A d \in Client : sessions'[d].phase = "running" => sessions'[d].op \in Script
      /\ \A d \in Client \ {c} : sessions'[d] = sessions[d]
  BY <1>1, <1>2, PhaseIs
<1>4. WireTypes'
  BY <1>1, <1>3 DEF WireInv, WireTypes, wires
<1>5. Owed(c)'
  BY <1>1, <1>3, ClosedOwed DEF WireInv, wires
<1>6. ASSUME NEW d \in Client \ {c} PROVE Owed(d)'
  BY <1>1, <1>3, OthersOwed DEF WireInv, wires
<1> QED
  BY <1>4, <1>5, <1>6 DEF WireInv

\* A request that is sent is owed at the end of what is owed already.
LEMMA SendKeepsWires ==
  ASSUME WireInv, NEW c \in Client, NEW r \in Script, Send(c, r) PROVE WireInv'
<1>1. /\ sessions[c].phase # "closed" /\ inbox[c] = <<>>
      /\ sent' = [sent EXCEPT ![c] = @ + 1]
      /\ inbox' = [inbox EXCEPT ![c] = Append(@, r)]
      /\ asked' = IF r.silent THEN asked ELSE [asked EXCEPT ![c] = Append(@, sent[c] + 1)]
      /\ UNCHANGED <<sessions, answered>>
  BY DEF Send
<1>2. /\ inbox'[c] = <<r>> /\ sent'[c] = sent[c] + 1 /\ sent[c] \in Nat
      /\ asked'[c] = IF r.silent THEN asked[c] ELSE Append(asked[c], sent[c] + 1)
      /\ \A d \in Client \ {c} :
           inbox'[d] = inbox[d] /\ sent'[d] = sent[d] /\ asked'[d] = asked[d]
  BY <1>1 DEF WireInv, WireTypes
<1>3. asked'[c] \in Seq(Nat) /\ asked[c] \in Seq(Nat) /\ answered[c] \in Seq(Nat)
  BY <1>2 DEF WireInv, WireTypes
<1>4. WireTypes'
  <2>1. inbox' \in [Client -> Seq(Script)] /\ \A d \in Client : Len(inbox'[d]) <= 1
    BY <1>1, <1>2 DEF WireInv, WireTypes
  <2>2. sent' \in [Client -> Nat] /\ asked' \in [Client -> Seq(Nat)]
    BY <1>1, <1>2, <1>3 DEF WireInv, WireTypes
  <2> QED
    BY <1>1, <2>1, <2>2 DEF WireInv, WireTypes
<1>5. Owed(c)'
  <2>1. asked[c] = (answered[c] \o Due(c)) \o <<>> /\ Due(c) \in Seq(Nat)
    <3>1. Waiting(c) = <<>>
      BY <1>1 DEF Waiting
    <3>2. asked[c] = (answered[c] \o Due(c)) \o Waiting(c)
      BY <1>1 DEF WireInv, Owed
    <3> QED
      BY <3>1, <3>2, OwedIs DEF WireInv
  <2>2. asked[c] = answered[c] \o Due(c)
    BY <1>3, <2>1
  <2>3. Due(c)' = Due(c)
    BY <1>1 DEF Due
  <2>4. Waiting(c)' = IF ~r.silent THEN <<sent[c] + 1>> ELSE <<>>
    BY <1>2 DEF Waiting
  <2>5. asked'[c] = (answered[c] \o Due(c)) \o Waiting(c)'
    <3>1. PICK a \in Seq(Nat) : a = answered[c] \o Due(c)
      <4>1. PICK e \in Seq(Nat), d \in Seq(Nat) : e = answered[c] /\ d = Due(c)
        BY <1>3, <2>1
      <4>2. e \o d \in Seq(Nat)
        BY ConcatProperties
      <4> QED
        BY <4>1, <4>2
    <3>2. a \o <<>> = a /\ Append(a, sent[c] + 1) = a \o <<sent[c] + 1>>
      <4>1. PICK n \in Nat : n = sent[c] + 1
        BY <1>2
      <4> QED
        BY <4>1, AppendIs
    <3> QED
      BY <1>2, <2>1, <2>2, <2>4, <3>1, <3>2
  <2> QED
    BY <1>1, <2>3, <2>5 DEF Owed
<1>6. ASSUME NEW d \in Client \ {c} PROVE Owed(d)'
  BY <1>1, <1>2, OthersOwed DEF WireInv
<1> QED
  BY <1>4, <1>5, <1>6 DEF WireInv
\* Every collection holds documents, each under an _id of its own.
StoreInv ==
  /\ objectIds \in Nat /\ DOMAIN collections \subseteq Name
  /\ \A x \in DOMAIN collections : collections[x] \in Seq(Document) /\ Keyed(collections[x])

LEMMA HeldIs ==
  ASSUME StoreInv, NEW x
  PROVE  Held(x) \in Seq(Document) /\ Keyed(Held(x)) /\ Len(Held(x)) \in Nat
<1>1. <<>> \in Seq(Document) /\ Keyed(<<>>)
  BY DEF Keyed
<1>2. Held(x) \in Seq(Document) /\ Keyed(Held(x))
  BY <1>1 DEF Held, StoreInv
<1> QED
  BY <1>2

\* A reply names the request a session runs, or the one it has read.
LEMMA AnswerIs ==
  ASSUME WireTypes, NEW c \in Client, NEW n \in Nat, NEW silent \in BOOLEAN, Answer(c, n, silent)
  PROVE  /\ answered' \in [Client -> Seq(Nat)]
         /\ answered'[c] = answered[c] \o (IF silent THEN <<>> ELSE <<n>>)
         /\ \A d \in Client \ {c} : answered'[d] = answered[d]
<1>1. answered \in [Client -> Seq(Nat)]
  BY DEF WireTypes
<1>2. PICK a \in Seq(Nat) : a = answered[c]
  BY <1>1
<1>3. a \o <<>> = a /\ Append(a, n) = a \o <<n>> /\ Append(a, n) \in Seq(Nat)
  BY AppendIs
<1> QED
  BY <1>1, <1>2, <1>3 DEF Answer

\* The request at the head of the wire is the last one sent.
LEMMA ReadKeepsWires ==
  ASSUME WireInv, StoreInv, NEW c \in Client, Read(c) PROVE WireInv'
<1>1. PICK r \in Script, n \in Nat :
        /\ r = Head(inbox[c]) /\ n = sent[c] - Len(inbox[c]) + 1 /\ n = sent[c]
        /\ inbox[c] # <<>> /\ Tail(inbox[c]) = <<>>
  <2>1. inbox[c] \in Seq(Script) /\ inbox[c] # <<>> /\ Len(inbox[c]) <= 1 /\ sent[c] \in Nat
    BY DEF Read, WireInv, WireTypes
  <2>2. PICK s \in Seq(Script) : s = inbox[c]
    BY <2>1
  <2>3. Len(s) \in Nat /\ Len(s) = 1 /\ Head(s) \in Script /\ Tail(s) = <<>>
    <3>1. Len(s) \in Nat /\ s # <<>> /\ Len(s) <= 1
      BY <2>1, <2>2
    <3>2. Len(s) # 0
      <4>1. Len(s) = 0 => s = <<>>
        OBVIOUS
      <4> QED
        BY <3>1, <4>1
    <3>4. Len(s) = 1
      <4>1. PICK m \in Nat : m = Len(s)
        BY <3>1
      <4>2. m # 0 /\ m <= 1
        BY <3>1, <3>2, <4>1
      <4>3. m = 1
        BY <4>2
      <4> QED
        BY <4>1, <4>3
    <3>3. Head(s) \in Script /\ Tail(s) \in Seq(Script) /\ Len(Tail(s)) = 0
      BY <3>1, <3>4, HeadTailProperties
    <3>5. \A t \in Seq(Script) : Len(t) = 0 => t = <<>>
      OBVIOUS
    <3> QED
      BY <3>1, <3>3, <3>4, <3>5
  <2> QED
    BY <2>1, <2>2, <2>3
<1>2. /\ sessions[c].phase = "reading"
      /\ inbox' = [inbox EXCEPT ![c] = <<>>] /\ UNCHANGED <<sent, asked>>
      /\ \/ Phase(c, "closed") /\ UNCHANGED answered
         \/ Answer(c, n, r.silent) /\ UNCHANGED sessions
         \/ /\ sessions' = [sessions EXCEPT ![c] =
                 [phase |-> "running", request |-> n, silent |-> r.silent, op |-> r, gauge |-> Count(r)]]
            /\ UNCHANGED answered
  BY <1>1 DEF Read
<1>3. r.silent \in BOOLEAN
  BY Silences
<1>4. /\ inbox' \in [Client -> Seq(Script)] /\ inbox'[c] = <<>>
      /\ \A d \in Client : Len(inbox'[d]) <= 1
      /\ \A d \in Client \ {c} : inbox'[d] = inbox[d]
  BY <1>2 DEF WireInv, WireTypes
<1>5. /\ asked[c] = answered[c] \o Waiting(c) /\ answered[c] \in Seq(Nat)
      /\ Waiting(c) = IF r.silent THEN <<>> ELSE <<n>>
  <2>1. Waiting(c) = IF r.silent THEN <<>> ELSE <<n>>
    BY <1>1 DEF Waiting
  <2>2. Due(c) = <<>>
    BY <1>2 DEF Due
  <2>3. PICK a \in Seq(Nat) : a = answered[c]
    BY DEF WireInv, WireTypes
  <2>4. a \o <<>> = a
    BY ConcatEmptySeq
  <2>5. asked[c] = (answered[c] \o Due(c)) \o Waiting(c)
    BY <1>2 DEF WireInv, Owed
  <2> QED
    BY <2>1, <2>2, <2>3, <2>4, <2>5
<1>6. Waiting(c)' = <<>>
  BY <1>4 DEF Waiting
<1>7. CASE Phase(c, "closed") /\ UNCHANGED answered
  <2>1. "closed" \in Phases \ {"running"}
    BY DEF Phases
  <2>2. /\ sessions' \in [Client -> SessionSet] /\ sessions'[c].phase = "closed"
        /\ \A d \in Client : sessions'[d].phase = "running" => sessions'[d].op \in Script
        /\ \A d \in Client \ {c} : sessions'[d] = sessions[d]
    BY <1>7, <2>1, PhaseIs
  <2>3. WireTypes'
    BY <1>2, <1>4, <1>7, <2>2 DEF WireInv, WireTypes
  <2>4. Owed(c)'
    BY <1>2, <1>7, <2>2, ClosedOwed DEF WireInv
  <2>5. ASSUME NEW d \in Client \ {c} PROVE Owed(d)'
    BY <1>2, <1>4, <1>7, <2>2, OthersOwed DEF WireInv
  <2> QED
    BY <2>3, <2>4, <2>5 DEF WireInv
<1>8. CASE Answer(c, n, r.silent) /\ UNCHANGED sessions
  <2>1. /\ answered' \in [Client -> Seq(Nat)]
        /\ answered'[c] = answered[c] \o Waiting(c)
        /\ \A d \in Client \ {c} : answered'[d] = answered[d]
    BY <1>3, <1>5, <1>8, AnswerIs DEF WireInv
  <2>2. WireTypes'
    BY <1>2, <1>4, <1>8, <2>1 DEF WireInv, WireTypes
  <2>3. Owed(c)'
    <3>1. asked'[c] = answered'[c] /\ Due(c)' = <<>> /\ sessions'[c].phase # "closed"
      BY <1>2, <1>5, <1>8, <2>1 DEF Due
    <3>2. PICK a \in Seq(Nat) : a = answered'[c]
      BY <2>1
    <3>3. (a \o <<>>) \o <<>> = a
      BY ConcatEmptySeq
    <3> QED
      BY <1>6, <3>1, <3>2, <3>3 DEF Owed
  <2>4. ASSUME NEW d \in Client \ {c} PROVE Owed(d)'
    BY <1>2, <1>4, <1>8, <2>1, OthersOwed DEF WireInv
  <2> QED
    BY <2>2, <2>3, <2>4 DEF WireInv
<1>9. CASE /\ sessions' = [sessions EXCEPT ![c] =
                 [phase |-> "running", request |-> n, silent |-> r.silent, op |-> r, gauge |-> Count(r)]]
           /\ UNCHANGED answered
  <2>1. PICK s \in SessionSet : s =
          [phase |-> "running", request |-> n, silent |-> r.silent, op |-> r, gauge |-> Count(r)]
    <3>1. Count(r) \in Nat
      BY HeldIs DEF Count
    <3> QED
      BY <1>3, <3>1 DEF SessionSet, Phases
  <2>2. /\ sessions' \in [Client -> SessionSet] /\ sessions'[c] = s
        /\ \A d \in Client : sessions'[d].phase = "running" => sessions'[d].op \in Script
        /\ \A d \in Client \ {c} : sessions'[d] = sessions[d]
    BY <1>9, <2>1, SessionChanges
  <2>3. WireTypes'
    BY <1>2, <1>4, <1>9, <2>2 DEF WireInv, WireTypes
  <2>4. Owed(c)'
    <3>1. Due(c)' = (IF r.silent THEN <<>> ELSE <<n>>) /\ sessions'[c].phase = "running"
      BY <2>1, <2>2 DEF Due
    <3>2. asked'[c] = answered'[c] \o Due(c)'
      BY <1>2, <1>5, <1>9, <3>1
    <3>3. PICK a \in Seq(Nat) : a = answered[c] \o Waiting(c)
      <4>1. PICK x \in Seq(Nat), y \in Seq(Nat) : x = answered[c] /\ y = Waiting(c)
        BY <1>5, OwedIs DEF WireInv
      <4>2. x \o y \in Seq(Nat)
        BY ConcatProperties
      <4> QED
        BY <4>1, <4>2
    <3>4. a \o <<>> = a
      BY ConcatEmptySeq
    <3> QED
      BY <1>2, <1>5, <1>6, <1>9, <3>1, <3>2, <3>3, <3>4 DEF Owed
  <2>5. ASSUME NEW d \in Client \ {c} PROVE Owed(d)'
    BY <1>2, <1>4, <1>9, <2>2, OthersOwed DEF WireInv
  <2> QED
    BY <2>3, <2>4, <2>5 DEF WireInv
<1> QED
  BY <1>2, <1>7, <1>8, <1>9
\* Every operation of the store ends with its reply, and leaves the wires.
LEMMA ExecReplies ==
  ASSUME NEW c \in Client, Exec(c)
  PROVE  sessions[c].phase = "running" /\ Reply(c) /\ UNCHANGED wires
BY DEF Exec, Fault, Write, Query, GetMore, KillCursors, CreateIndexes, List, Drop, DropDatabase, Running

LEMMA ReplyKeepsWires ==
  ASSUME WireInv, NEW c \in Client, sessions[c].phase = "running", Reply(c), UNCHANGED wires
  PROVE  /\ WireInv' /\ sessions'[c].phase \in {"reading", "closed"}
         /\ \A d \in Client \ {c} : sessions'[d] = sessions[d]
<1>1. PICK n \in Nat, silent \in BOOLEAN : n = sessions[c].request /\ silent = sessions[c].silent
  BY DEF WireInv, WireTypes, SessionSet
<1>2. /\ UNCHANGED <<inbox, sent, asked>>
      /\ \/ Answer(c, n, silent) /\ Phase(c, "reading")
         \/ Phase(c, "closed") /\ UNCHANGED answered
  BY <1>1 DEF Reply, wires
<1>3. {"reading", "closed"} \subseteq Phases \ {"running"}
  BY DEF Phases
<1>4. CASE Phase(c, "closed") /\ UNCHANGED answered
  <2>1. /\ sessions' \in [Client -> SessionSet] /\ sessions'[c].phase = "closed"
        /\ \A d \in Client : sessions'[d].phase = "running" => sessions'[d].op \in Script
        /\ \A d \in Client \ {c} : sessions'[d] = sessions[d]
    BY <1>3, <1>4, PhaseIs
  <2>2. WireTypes'
    BY <1>2, <1>4, <2>1 DEF WireInv, WireTypes
  <2>3. Owed(c)'
    BY <1>2, <1>4, <2>1, ClosedOwed DEF WireInv
  <2>4. ASSUME NEW d \in Client \ {c} PROVE Owed(d)'
    BY <1>2, <1>4, <2>1, OthersOwed DEF WireInv
  <2> QED
    BY <2>1, <2>2, <2>3, <2>4 DEF WireInv
<1>5. CASE Answer(c, n, silent) /\ Phase(c, "reading")
  <2>1. /\ sessions' \in [Client -> SessionSet] /\ sessions'[c].phase = "reading"
        /\ \A d \in Client : sessions'[d].phase = "running" => sessions'[d].op \in Script
        /\ \A d \in Client \ {c} : sessions'[d] = sessions[d]
    BY <1>3, <1>5, PhaseIs
  <2>2. Due(c) = IF silent THEN <<>> ELSE <<n>>
    BY <1>1 DEF Due
  <2>3. /\ answered' \in [Client -> Seq(Nat)]
        /\ answered'[c] = answered[c] \o Due(c)
        /\ \A d \in Client \ {c} : answered'[d] = answered[d]
    BY <1>5, <2>2, AnswerIs DEF WireInv
  <2>4. WireTypes'
    BY <1>2, <2>1, <2>3 DEF WireInv, WireTypes
  <2>5. Owed(c)'
    <3>1. asked[c] = answered'[c] \o Waiting(c)
      BY <2>3 DEF WireInv, Owed
    <3>2. Waiting(c)' = Waiting(c) /\ Due(c)' = <<>> /\ asked'[c] = asked[c]
      BY <1>2, <2>1 DEF Waiting, Due
    <3>3. PICK a \in Seq(Nat) : a = answered'[c]
      BY <2>3
    <3>4. a \o <<>> = a
      BY ConcatEmptySeq
    <3> QED
      BY <2>1, <3>1, <3>2, <3>3, <3>4 DEF Owed
  <2>6. ASSUME NEW d \in Client \ {c} PROVE Owed(d)'
    BY <1>2, <2>1, <2>3, OthersOwed DEF WireInv
  <2> QED
    BY <2>1, <2>4, <2>5, <2>6 DEF WireInv
<1> QED
  BY <1>2, <1>4, <1>5

LEMMA NextKeepsWires == WireInv /\ StoreInv /\ [StoreNext]_storeVars => WireInv'
<1> SUFFICES ASSUME WireInv, StoreInv, [StoreNext]_storeVars PROVE WireInv'
  OBVIOUS
<1>1. CASE UNCHANGED storeVars
  BY <1>1 DEF storeVars, wires, WireInv, WireTypes, Owed, Due, Waiting
<1>2. CASE StoreNext
  <2>1. PICK c \in Client : Accept(c) \/ EndOfStream(c) \/ Server(c) \/ \E r \in Script : Send(c, r)
    BY <1>2 DEF StoreNext
  <2>2. CASE Exec(c)
    BY <2>2, ExecReplies, ReplyKeepsWires
  <2> QED
    BY <2>1, <2>2, AcceptKeepsWires, EndOfStreamKeepsWires, ConnectKeepsWires, ReadKeepsWires,
       SendKeepsWires DEF Server
<1> QED
  BY <1>1, <1>2

\* What a sequence begins with.
LEMMA PrefixOfConcat ==
  ASSUME NEW D, NEW a \in Seq(D), NEW b \in Seq(D)
  PROVE  IsPrefix(a, a \o b)
<1>1. /\ a \o b \in Seq(D) /\ Len(a \o b) = Len(a) + Len(b) /\ Len(a) \in Nat /\ Len(b) \in Nat
      /\ \A i \in 1 .. Len(a) : (a \o b)[i] = a[i]
  BY ConcatProperties
<1>2. PICK t \in Seq(D) : t = a \o b
  BY <1>1
<1>3. PICK n \in Nat : n = Len(a)
  BY <1>1
<1>4. /\ SubSeq(t, 1, n) \in Seq(D) /\ Len(SubSeq(t, 1, n)) = n
      /\ \A i \in 1 .. n : SubSeq(t, 1, n)[i] = t[i]
  BY <1>1, <1>2, <1>3
<1>5. SubSeq(t, 1, n) = a
  <2>1. PICK s \in Seq(D) : s = SubSeq(t, 1, n)
    BY <1>4
  <2>2. Len(s) = Len(a) /\ \A i \in 1 .. Len(s) : s[i] = a[i]
    BY <1>1, <1>2, <1>3, <1>4, <2>1
  <2>3. s = a
    BY <2>2, SeqEqual
  <2> QED
    BY <2>1, <2>3
<1>6. SubSeq(a, 1, n) = a
  BY <1>3, SubSeqFull
<1>7. Len(a) <= Len(t)
  BY <1>1, <1>2
<1> QED
  BY <1>2, <1>3, <1>5, <1>6, <1>7 DEF IsPrefix

\* What the books say of the replies makes them answer the requests in order.
LEMMA OwedMeansOrder == WireInv => RepliesInOrder
<1> SUFFICES ASSUME WireInv, NEW c \in Client
             PROVE  /\ IsPrefix(answered[c], asked[c])
                    /\ sessions[c].phase = "reading" =>
                         \A n \in ToSet(asked[c]) :
                           n <= sent[c] - Len(inbox[c]) => n \in ToSet(answered[c])
  BY DEF RepliesInOrder
<1>1. PICK a \in Seq(Nat), d \in Seq(Nat), w \in Seq(Nat) :
        a = answered[c] /\ d = Due(c) /\ w = Waiting(c)
  BY OwedIs DEF WireInv
<1>2. d \o w \in Seq(Nat) /\ (a \o d) \o w = a \o (d \o w)
  BY ConcatAssociative, ConcatProperties
<1>3. \E t \in Seq(Nat) : asked[c] = a \o t
  BY <1>1, <1>2 DEF WireInv, Owed
<1>4. IsPrefix(a, asked[c])
  BY <1>3, PrefixOfConcat
<1>5. ASSUME sessions[c].phase = "reading", NEW n \in ToSet(asked[c]), n <= sent[c] - Len(inbox[c])
      PROVE  n \in ToSet(a)
  <2>1. d = <<>>
    BY <1>1, <1>5 DEF Due
  <2>2. a \o d = a
    BY <2>1, ConcatEmptySeq
  <2>3. asked[c] = a \o w
    BY <1>1, <1>5, <2>2 DEF WireInv, Owed
  <2>4. /\ Len(a) \in Nat /\ Len(w) \in Nat /\ DOMAIN (a \o w) = 1 .. Len(a) + Len(w)
        /\ \A i \in 1 .. Len(a) + Len(w) :
             (a \o w)[i] = IF i <= Len(a) THEN a[i] ELSE w[i - Len(a)]
    BY ConcatProperties, LenProperties
  <2>5. PICK i \in 1 .. Len(a) + Len(w) : n = IF i <= Len(a) THEN a[i] ELSE w[i - Len(a)]
    BY <2>3, <2>4 DEF ToSet
  <2>6. CASE i <= Len(a)
    BY <2>4, <2>5, <2>6 DEF ToSet
  <2>7. CASE i > Len(a)
    <3>1. w # <<>> /\ i - Len(a) \in 1 .. Len(w) /\ n = w[i - Len(a)]
      BY <2>4, <2>5, <2>7
    <3>2. inbox[c] # <<>> /\ w = <<sent[c]>>
      BY <1>1, <3>1 DEF Waiting
    <3>3. n = sent[c] /\ sent[c] \in Nat
      BY <3>1, <3>2 DEF WireInv, WireTypes
    <3>4. Len(inbox[c]) \in Nat /\ Len(inbox[c]) # 0
      BY <3>2 DEF WireInv, WireTypes
    <3> QED
      BY <1>5, <3>3, <3>4
  <2> QED
    BY <2>4, <2>6, <2>7
<1> QED
  BY <1>1, <1>4, <1>5
-----------------------------------------------------------------------------
(* The store: what each command leaves of the collections *)

\* A finite set of numbers has a greatest.
LEMMA MaxIs ==
  ASSUME NEW S \in SUBSET Nat, IsFiniteSet(S), S # {}
  PROVE  Max(S) \in S /\ \A y \in S : Max(S) >= y
<1> DEFINE Greatest(T) == \E x \in T : \A y \in T : x >= y
           Bad == {k \in Nat : \E T \in SUBSET S : T # {} /\ Cardinality(T) = k /\ ~Greatest(T)}
<1>1. Greatest(S)
  <2> SUFFICES ASSUME ~Greatest(S) PROVE FALSE
    OBVIOUS
  <2>1. Cardinality(S) \in Bad
    BY FS_CardinalityType
  <2>2. Bad \in SUBSET Nat
    OBVIOUS
  <2>3. PICK k \in Bad : \A j \in Bad : k <= j
    <3> HIDE DEF Bad
    <3> QED
      BY <2>1, <2>2, SmallestOfNats
  <2>4. PICK T \in SUBSET S : T # {} /\ Cardinality(T) = k /\ ~Greatest(T)
    OBVIOUS
  <2>5. PICK t \in T : TRUE
    BY <2>4
  <2>6. PICK R \in SUBSET S : R = T \ {t}
    OBVIOUS
  <2>7. IsFiniteSet(T) /\ IsFiniteSet(R) /\ Cardinality(R) = k - 1 /\ Cardinality(R) \in Nat
    BY <2>4, <2>6, FS_Subset, FS_RemoveElement, FS_CardinalityType
  <2>8. k - 1 \notin Bad
    <3>1. k \in Nat /\ ~(k <= k - 1)
      BY <2>2
    <3> HIDE DEF Bad
    <3> QED
      BY <2>3, <3>1
  <2>9. R = {} \/ Greatest(R)
    BY <2>7, <2>8
  <2>10. CASE R = {}
    <3>1. T = {t} /\ t \in Nat
      BY <2>6, <2>10
    <3>2. t >= t
      BY <3>1
    <3> QED
      BY <2>4, <3>1, <3>2
  <2>11. CASE Greatest(R)
    <3>1. PICK x \in R : \A y \in R : x >= y
      BY <2>11
    <3>2. x \in T /\ t \in T /\ x \in Nat /\ t \in Nat /\ \A y \in T : y \in Nat /\ (y = t \/ y \in R)
      BY <2>6
    <3>3. CASE x >= t
      BY <2>4, <3>1, <3>2, <3>3
    <3>4. CASE ~(x >= t)
      <4>1. \A y \in T : t >= y
        BY <3>1, <3>2, <3>4
      <4> QED
        BY <2>4, <4>1
    <3> QED
      BY <3>3, <3>4
  <2> QED
    BY <2>9, <2>10, <2>11
<1> QED
  BY <1>1 DEF Max

\* No request of the script brings more than the largest one.
LEMMA LargestIs ==
  /\ LargestBatch \in Nat \ {0}
  /\ \A r \in Script : r.kind = "insert" => Len(r.documents) <= LargestBatch
  /\ \A r \in Script : r.kind = "update" => Len(r.updates) <= LargestBatch
<1> DEFINE I == {q \in Script : q.kind = "insert"}
           U == {q \in Script : q.kind = "update"}
           A == {Len(r.documents) : r \in I}
           B == {Len(r.updates) : r \in U}
           f == [r \in I |-> Len(r.documents)]
           g == [r \in U |-> Len(r.updates)]
<1>1. \A r \in I : Len(r.documents) \in Nat
  BY ScriptAssumption DEF Request, Bare
<1>2. \A r \in U : Len(r.updates) \in Nat
  BY ScriptAssumption DEF Request, Bare
<1>3. IsFiniteSet(I) /\ IsFiniteSet(U)
  BY ScriptAssumption, FS_Subset
<1>4. f \in Surjection(I, A) /\ g \in Surjection(U, B)
  BY DEF Surjection
<1> HIDE DEF f, g
<1>5. IsFiniteSet(A) /\ IsFiniteSet(B) /\ A \in SUBSET Nat /\ B \in SUBSET Nat
  <2> HIDE DEF I, U
  <2>1. A \in SUBSET Nat /\ B \in SUBSET Nat
    BY <1>1, <1>2
  <2> HIDE DEF A, B
  <2> QED
    BY <1>3, <1>4, <2>1, FS_Surjection
<1>6. LargestBatch = Max(({1} \cup A) \cup B)
  BY DEF LargestBatch
<1>7. \A r \in Script : r.kind = "insert" => Len(r.documents) \in A
  OBVIOUS
<1>8. \A r \in Script : r.kind = "update" => Len(r.updates) \in B
  OBVIOUS
<1> HIDE DEF A, B
<1>9. PICK S \in SUBSET Nat : S = ({1} \cup A) \cup B /\ IsFiniteSet(S) /\ S # {}
  <2>1. IsFiniteSet({1} \cup A)
    BY <1>5, FS_Singleton, FS_Union
  <2>2. IsFiniteSet(({1} \cup A) \cup B)
    BY <1>5, <2>1, FS_Union
  <2> QED
    BY <1>5, <2>2
<1>10. PICK m \in S : m = LargestBatch /\ \A y \in S : m >= y
  BY <1>6, <1>9, MaxIs
<1>11. 1 \in S /\ m >= 1 /\ m \in Nat
  BY <1>9, <1>10
<1> QED
  BY <1>7, <1>8, <1>9, <1>10, <1>11

\* What a request carries, by its kind.
LEMMA RequestIs ==
  ASSUME NEW r \in Script
  PROVE  /\ r.kind = "insert" => r.documents \in Seq(Document) /\ r.ordered \in BOOLEAN
         /\ r.kind = "update" => r.updates \in Seq(Updating)
         /\ r.kind = "delete" => r.deletes \in Seq(Deleting)
         /\ r.kind = "find" => r.skip \in Nat /\ r.limit \in Nat /\ r.size \in Nat
         /\ r.kind = "aggregate" => r.pipeline \in Seq(StageOf) /\ r.size \in Nat
         /\ r.kind \in {"getMore", "killCursors"} => r.handle \in Nat /\ r.size \in Nat
         /\ r.name \in Name
BY ScriptAssumption DEF Request, Bare, Updating, Deleting, StageOf

LEMMA InitStore == StoreInit => StoreInv
BY SeedAssumption DEF StoreInit, StoreInv, Keyed

\* Naming a collection gives it what is written there, and leaves the others.
LEMMA CollectIs ==
  ASSUME StoreInv, NEW x \in Name, NEW docs \in Seq(Document), Keyed(docs), Collect(x, docs),
         objectIds' \in Nat
  PROVE  StoreInv' /\ Held(x)' = docs /\ \A y : y # x => Held(y)' = Held(y)
<1>1. collections' = [y \in DOMAIN collections \cup {x} |-> IF y = x THEN docs ELSE collections[y]]
  BY DEF Collect
<1>2. /\ DOMAIN collections' = DOMAIN collections \cup {x}
      /\ \A y \in DOMAIN collections' : collections'[y] = IF y = x THEN docs ELSE collections[y]
  BY <1>1
<1>3. StoreInv'
  BY <1>2 DEF StoreInv
<1>4. Held(x)' = docs /\ \A y : y # x => Held(y)' = Held(y)
  BY <1>2 DEF Held
<1> QED
  BY <1>3, <1>4

\* What a write leaves, and how much it may add.
LEMMA WriteIs ==
  ASSUME WireInv, StoreInv, NEW c \in Client, Write(c), NEW r \in Script, r = sessions[c].op
  PROVE  /\ StoreInv' /\ r.name \in Name
         /\ \A y : y # r.name => Held(y)' = Held(y)
         /\ Len(Held(r.name)') \in Nat
         /\ Len(Held(r.name)') <= Len(Held(r.name)) + LargestBatch
         /\ r.kind \notin {"insert", "update"} => Len(Held(r.name)') <= Len(Held(r.name))
         /\ r.kind \in {"insert", "update"} => sessions[c].gauge < Capacity
<1>2. PICK docs \in Seq(Document) : docs = Held(r.name) /\ Keyed(docs) /\ Len(docs) \in Nat
  BY HeldIs
<1>3. PICK b \in Nat \ {0} :
        /\ b = LargestBatch
        /\ r.kind = "insert" => Len(r.documents) <= b
        /\ r.kind = "update" => Len(r.updates) <= b
  BY LargestIs
<1> DEFINE w == CASE r.kind = "insert" -> InsertBatch(docs, r.documents, r.ordered)
                  [] r.kind = "update" -> UpdateBatch(docs, r.updates)
                  [] r.kind = "delete" -> DeleteBatch(docs, r.deletes)
<1>4. /\ r.kind \in {"insert", "update", "delete"} /\ ~Faulted(c)
      /\ Collect(r.name, w.docs) /\ objectIds' = w.made
  BY <1>2 DEF Write, Running
<1>5. /\ w \in Outcomes
      /\ Len(w.docs) <= Len(docs) + b
      /\ r.kind = "delete" => Len(w.docs) <= Len(docs)
  <2>1. objectIds \in Nat
    BY DEF StoreInv
  <2>2. CASE r.kind = "insert"
    <3>1. PICK batch \in Seq(Document) : batch = r.documents /\ r.ordered \in BOOLEAN
      BY <2>2, RequestIs
    <3>2. w = InsertBatch(docs, batch, r.ordered)
      BY <2>2, <3>1
    <3>3. PICK v \in Outcomes : v = w /\ Len(v.docs) <= Len(docs) + Len(batch)
      BY <1>2, <2>1, <3>1, <3>2, InsertBatchKeeps
    <3>4. Len(batch) \in Nat /\ Len(batch) <= b
      BY <1>3, <2>2, <3>1
    <3>5. Len(v.docs) \in Nat
      BY DEF Outcomes, Outcome
    <3> QED
      BY <1>2, <2>2, <3>3, <3>4, <3>5
  <2>3. CASE r.kind = "update"
    <3>1. PICK batch \in Seq(Updating) : batch = r.updates
      BY <2>3, RequestIs
    <3>2. w = UpdateBatch(docs, batch)
      BY <2>3, <3>1
    <3>3. PICK v \in Outcomes : v = w /\ Len(v.docs) <= Len(docs) + Len(batch)
      BY <1>2, <2>1, <3>1, <3>2, UpdateBatchKeeps
    <3>4. Len(batch) \in Nat /\ Len(batch) <= b
      BY <1>3, <2>3, <3>1
    <3>5. Len(v.docs) \in Nat
      BY DEF Outcomes, Outcome
    <3> QED
      BY <1>2, <2>3, <3>3, <3>4, <3>5
  <2>4. CASE r.kind = "delete"
    <3>1. PICK batch \in Seq(Deleting) : batch = r.deletes
      BY <2>4, RequestIs
    <3>2. w = DeleteBatch(docs, batch)
      BY <2>4, <3>1
    <3>3. PICK v \in Outcomes : v = w /\ Len(v.docs) <= Len(docs)
      BY <1>2, <2>1, <3>1, <3>2, DeleteBatchKeeps
    <3>4. Len(v.docs) \in Nat
      BY DEF Outcomes, Outcome
    <3> QED
      BY <1>2, <1>3, <2>4, <3>3, <3>4
  <2> QED
    BY <1>4, <2>2, <2>3, <2>4
<1> HIDE DEF w
<1>6. w.docs \in Seq(Document) /\ Keyed(w.docs) /\ w.made \in Nat /\ Len(w.docs) \in Nat
  BY <1>5 DEF Outcomes, Outcome
<1>7. r.name \in Name
  BY RequestIs
<1>8. StoreInv' /\ Held(r.name)' = w.docs /\ \A y : y # r.name => Held(y)' = Held(y)
  <2>1. PICK after \in Seq(Document) : after = w.docs
    BY <1>6
  <2> QED
    BY <1>4, <1>6, <1>7, <2>1, CollectIs
<1>9. r.kind \in {"insert", "update"} => sessions[c].gauge < Capacity
  <2>1. sessions[c].gauge \in Nat /\ Capacity \in Nat
    BY RuleAssumption DEF WireInv, WireTypes, SessionSet
  <2> QED
    BY <1>4, <2>1 DEF Faulted
<1> QED
  BY <1>2, <1>3, <1>4, <1>5, <1>6, <1>7, <1>8, <1>9
\* A step that writes nothing leaves every collection as long as it is, or
\* empty.
LEMMA OthersStore ==
  ASSUME WireInv, StoreInv, NEW c \in Client, Exec(c), ~Write(c)
  PROVE  StoreInv' /\ \A y : Len(Held(y)') \in Nat /\ Len(Held(y)') <= Len(Held(y))
<1>1. PICK r \in Script : r = sessions[c].op
  BY ExecReplies DEF WireInv, WireTypes
<1>2. r.name \in Name
  BY RequestIs
<1>3. /\ objectIds' \in Nat
      /\ \/ UNCHANGED collections
         \/ Collect(r.name, Held(r.name))
         \/ collections' = [x \in DOMAIN collections \ {r.name} |-> collections[x]]
         \/ collections' = <<>>
  <2>1. objectIds \in Nat
    BY DEF StoreInv
  <2>2. CASE Fault(c) \/ List(c)
    BY <2>1, <2>2 DEF Fault, List, store
  <2>3. CASE Query(c)
    BY <1>1, <2>1, <2>3 DEF Query
  <2>4. CASE GetMore(c) \/ KillCursors(c)
    BY <2>1, <2>4 DEF GetMore, KillCursors
  <2>5. CASE CreateIndexes(c)
    BY <1>1, <2>1, <2>5 DEF CreateIndexes
  <2>6. CASE Drop(c)
    BY <1>1, <2>1, <2>6 DEF Drop
  <2>7. CASE DropDatabase(c)
    BY <2>1, <2>7 DEF DropDatabase, Emptied
  <2> QED
    BY <2>2, <2>3, <2>4, <2>5, <2>6, <2>7 DEF Exec
<1>4. \A y : Len(Held(y)) \in Nat
  BY HeldIs
<1>5. CASE UNCHANGED collections
  BY <1>3, <1>4, <1>5 DEF StoreInv, Held
<1>6. CASE Collect(r.name, Held(r.name))
  <2>1. PICK docs \in Seq(Document) : docs = Held(r.name) /\ Keyed(docs)
    BY HeldIs
  <2>2. StoreInv' /\ Held(r.name)' = docs /\ \A y : y # r.name => Held(y)' = Held(y)
    BY <1>2, <1>3, <1>6, <2>1, CollectIs
  <2>3. \A y : Held(y)' = Held(y)
    BY <2>1, <2>2
  <2> QED
    BY <1>4, <2>2, <2>3
<1>7. CASE collections' = [x \in DOMAIN collections \ {r.name} |-> collections[x]]
  <2>1. /\ DOMAIN collections' = DOMAIN collections \ {r.name}
        /\ \A x \in DOMAIN collections' : collections'[x] = collections[x]
    BY <1>7
  <2>2. StoreInv'
    BY <1>3, <2>1 DEF StoreInv
  <2>3. \A y : Held(y)' = Held(y) \/ Held(y)' = <<>>
    BY <2>1 DEF Held
  <2> QED
    BY <1>4, <2>2, <2>3
<1>8. CASE collections' = <<>>
  <2>1. DOMAIN collections' = {}
    BY <1>8
  <2>2. StoreInv' /\ \A y : Held(y)' = <<>>
    BY <1>3, <2>1 DEF StoreInv, Held
  <2> QED
    BY <1>4, <2>2
<1> QED
  BY <1>3, <1>5, <1>6, <1>7, <1>8

LEMMA NextKeepsStore == WireInv /\ StoreInv /\ [StoreNext]_storeVars => StoreInv'
<1> SUFFICES ASSUME WireInv, StoreInv, [StoreNext]_storeVars PROVE StoreInv'
  OBVIOUS
<1>1. CASE UNCHANGED store
  BY <1>1 DEF store, StoreInv
<1>2. CASE UNCHANGED storeVars
  BY <1>1, <1>2 DEF storeVars
<1>3. CASE StoreNext
  <2>1. PICK c \in Client : Accept(c) \/ EndOfStream(c) \/ Server(c) \/ \E r \in Script : Send(c, r)
    BY <1>3 DEF StoreNext
  <2>2. CASE Exec(c)
    <3>1. CASE Write(c)
      <4>1. PICK r \in Script : r = sessions[c].op
        BY <2>2, ExecReplies DEF WireInv, WireTypes
      <4> QED
        BY <3>1, <4>1, WriteIs
    <3> QED
      BY <2>2, <3>1, OthersStore
  <2>3. CASE ~Exec(c)
    BY <1>1, <2>1, <2>3 DEF Accept, EndOfStream, Connect, Read, Send, Server
  <2> QED
    BY <2>2, <2>3
<1> QED
  BY <1>2, <1>3

-----------------------------------------------------------------------------
(* The rules' gauges: how many are let in, and how much they may add *)

\* The sessions a connection rule lets in, and those a capacity rule lets
\* write to a collection.
Admitted == {c \in Client : \/ sessions[c].phase \in {"reading", "running"}
                            \/ sessions[c].phase = "connect" /\ sessions[c].gauge < MaxOpen}
Writers(x) == {c \in Client :
  /\ sessions[c].phase = "running" /\ sessions[c].gauge < Capacity
  /\ sessions[c].op.kind \in {"insert", "update"} /\ sessions[c].op.name = x}
Room(x) ==
  Len(Held(x)) + Cardinality(Writers(x)) * LargestBatch < Capacity + MaxOpen * LargestBatch
CountInv == Cardinality(Admitted) <= MaxOpen /\ \A x \in Name : Room(x)

LEMMA Times ==
  ASSUME NEW a \in Nat, NEW b \in Nat, NEW l \in Nat, a <= b
  PROVE  a * l \in Nat /\ b * l \in Nat /\ a * l <= b * l /\ (a + 1) * l = a * l + l
<1>1. PICK d \in Nat : b = a + d
  <2>1. b - a \in Nat /\ b = a + (b - a)
    OBVIOUS
  <2> QED
    BY <2>1
<1>2. (a + d) * l = a * l + d * l /\ (a + 1) * l = a * l + l
  OBVIOUS
<1>3. a * l \in Nat /\ d * l \in Nat
  OBVIOUS
<1> QED
  BY <1>1, <1>2, <1>3

\* Clients can be counted.
LEMMA Counted ==
  ASSUME NEW S \in SUBSET Client, NEW T \in SUBSET S
  PROVE  /\ IsFiniteSet(S) /\ Cardinality(S) \in Nat /\ Cardinality(T) \in Nat
         /\ Cardinality(T) <= Cardinality(S)
BY ScriptAssumption, FS_Subset, FS_CardinalityType

LEMMA OneMore ==
  ASSUME NEW S \in SUBSET Client, NEW c \in Client
  PROVE  /\ Cardinality(S) \in Nat
         /\ c \notin S => Cardinality(S \cup {c}) = Cardinality(S) + 1
         /\ c \in S => Cardinality(S \ {c}) = Cardinality(S) - 1
BY Counted, FS_AddElement, FS_RemoveElement

\* Room is kept when a collection does not grow and nobody joins its writers.
LEMMA RoomStays ==
  ASSUME StoreInv, NEW x, Room(x), Len(Held(x)') \in Nat, Len(Held(x)') <= Len(Held(x)),
         Writers(x)' \subseteq Writers(x)
  PROVE  Room(x)'
<1>1. PICK h \in Nat, i \in Nat : h = Len(Held(x)) /\ i = Len(Held(x)') /\ i <= h
  BY HeldIs
<1>2. Writers(x) \in SUBSET Client
  BY DEF Writers
<1>10. PICK S \in SUBSET Client : S = Writers(x)
  BY <1>2
<1>3. PICK T \in SUBSET S : T = Writers(x)' /\ S = Writers(x)
  BY <1>10
<1>4. PICK k \in Nat, m \in Nat : k = Cardinality(S) /\ m = Cardinality(T) /\ m <= k
  BY Counted
<1>5. PICK l \in Nat : l = LargestBatch
  BY LargestIs
<1>6. m * l <= k * l /\ m * l \in Nat /\ k * l \in Nat
  BY <1>4, Times
<1>7. PICK bound \in Nat : bound = Capacity + MaxOpen * l
  <2>1. Capacity \in Nat /\ MaxOpen \in Nat
    BY RuleAssumption
  <2>2. MaxOpen * l \in Nat
    BY <2>1
  <2> QED
    BY <2>1, <2>2
<1>8. h + k * l < bound
  BY <1>1, <1>3, <1>4, <1>5, <1>7 DEF Room
<1>9. i + m * l < bound
  BY <1>1, <1>6, <1>8
<1> QED
  BY <1>1, <1>3, <1>4, <1>5, <1>7, <1>9 DEF Room
\* A client that joins the writers of a collection found it below the rule's
\* capacity, and the writers are among those let in.
LEMMA RoomJoins ==
  ASSUME NEW x, Len(Held(x)') \in Nat, Len(Held(x)') < Capacity,
         Cardinality(Admitted') <= MaxOpen
  PROVE  Room(x)'
<1>1. PICK i \in Nat : i = Len(Held(x)') /\ i < Capacity
  OBVIOUS
<1>2. Writers(x)' \subseteq Admitted' /\ Admitted' \subseteq Client
  BY DEF Writers, Admitted
<1>3. PICK S \in SUBSET Client : S = Admitted'
  BY <1>2
<1>4. PICK T \in SUBSET S : T = Writers(x)'
  BY <1>2, <1>3
<1>5. PICK k \in Nat, m \in Nat : k = Cardinality(S) /\ m = Cardinality(T) /\ m <= k
  BY Counted
<1>6. PICK l \in Nat, most \in Nat, cap \in Nat : l = LargestBatch /\ most = MaxOpen /\ cap = Capacity
  BY LargestIs, RuleAssumption
<1>7. m <= most
  BY <1>3, <1>5, <1>6
<1>8. m * l <= most * l /\ m * l \in Nat /\ most * l \in Nat
  BY <1>7, Times
<1>9. i + m * l < cap + most * l
  BY <1>1, <1>6, <1>8
<1> QED
  BY <1>1, <1>4, <1>5, <1>6, <1>9 DEF Room

\* A writer that is done has added a batch at most, and makes way for one.
LEMMA RoomLeaves ==
  ASSUME StoreInv, NEW x, NEW c \in Client, Room(x), Len(Held(x)') \in Nat,
         Len(Held(x)') <= Len(Held(x)) + LargestBatch,
         c \in Writers(x), Writers(x)' = Writers(x) \ {c}
  PROVE  Room(x)'
<1>1. PICK h \in Nat, i \in Nat, l \in Nat :
        h = Len(Held(x)) /\ i = Len(Held(x)') /\ l = LargestBatch /\ i <= h + l
  BY HeldIs, LargestIs
<1>2. Writers(x) \in SUBSET Client
  BY DEF Writers
<1>3. PICK S \in SUBSET Client : S = Writers(x)
  BY <1>2
<1>4. PICK T \in SUBSET S : T = Writers(x)' /\ T = S \ {c} /\ c \in S
  BY <1>3
<1>5. PICK k \in Nat, m \in Nat : k = Cardinality(S) /\ m = Cardinality(T) /\ k = m + 1
  <2>1. PICK k \in Nat, m \in Nat : k = Cardinality(S) /\ m = Cardinality(T)
    BY Counted
  <2>2. m = k - 1
    BY <1>4, <2>1, OneMore
  <2> QED
    BY <2>1, <2>2
<1>6. k * l = m * l + l /\ m * l \in Nat
  BY <1>5, Times
<1>7. PICK bound \in Nat : bound = Capacity + MaxOpen * l
  <2>1. Capacity \in Nat /\ MaxOpen \in Nat
    BY RuleAssumption
  <2>2. MaxOpen * l \in Nat
    BY <2>1
  <2> QED
    BY <2>1, <2>2
<1>8. h + k * l < bound
  BY <1>1, <1>3, <1>5, <1>7 DEF Room
<1>9. i + m * l < bound
  BY <1>1, <1>6, <1>8
<1> QED
  BY <1>1, <1>4, <1>5, <1>7, <1>9 DEF Room

LEMMA CountInit == StoreInit => CountInv
<1> SUFFICES ASSUME StoreInit PROVE CountInv
  OBVIOUS
<1>1. \A c \in Client : sessions[c].phase = "away"
  BY SessionIs DEF StoreInit, Phases
<1>2. Admitted = {} /\ \A x : Writers(x) = {}
  BY <1>1 DEF Admitted, Writers
<1>3. Cardinality({}) = 0
  BY FS_EmptySet
<1>7. Len(Seed) \in Nat
  BY SeedAssumption
<1>8. PICK l \in Nat \ {0}, most \in Nat \ {0} : l = LargestBatch /\ most = MaxOpen
  BY LargestIs, RuleAssumption
<1>9. PICK cap \in Nat, s \in Nat : cap = Capacity /\ s = Len(Seed)
  BY <1>7, RuleAssumption
<1>4. s <= cap
  BY <1>9, RuleAssumption
<1>5. ASSUME NEW x \in Name PROVE Room(x)
  <2>1. Len(Held(x)) = s
    BY <1>9 DEF StoreInit, Held
  <2>2. 1 * l <= most * l /\ 1 * l \in Nat /\ most * l \in Nat
    BY <1>4, Times
  <2>3. 1 * l = l /\ 0 * l = 0
    BY <1>4
  <2>4. s + 0 * l < cap + most * l
    BY <1>4, <2>2, <2>3
  <2> QED
    BY <1>2, <1>3, <1>8, <1>9, <2>1, <2>4 DEF Room
<1>6. 0 <= MaxOpen
  BY RuleAssumption
<1> QED
  BY <1>2, <1>3, <1>5, <1>6 DEF CountInv

\* What is counted depends on the sessions, and on the one that changes.
LEMMA CountsOnly ==
  ASSUME NEW c \in Client, \A d \in Client \ {c} : sessions'[d] = sessions[d]
  PROVE  /\ Admitted' \ {c} = Admitted \ {c}
         /\ \A x : Writers(x)' \ {c} = Writers(x) \ {c}
BY DEF Admitted, Writers

\* Fewer are let in when a session does not come in.
LEMMA FewerAdmitted ==
  ASSUME Cardinality(Admitted) <= MaxOpen, Admitted' \subseteq Admitted
  PROVE  Cardinality(Admitted') <= MaxOpen
<1>1. PICK S \in SUBSET Client : S = Admitted
  BY DEF Admitted
<1>2. PICK T \in SUBSET S : T = Admitted'
  BY <1>1
<1>3. Cardinality(T) <= Cardinality(S) /\ Cardinality(T) \in Nat /\ Cardinality(S) \in Nat
  BY Counted
<1>4. MaxOpen \in Nat
  BY RuleAssumption
<1> QED
  BY <1>1, <1>2, <1>3, <1>4

\* A session that moves on without a write leaves everything counted.
LEMMA QuietCounts ==
  ASSUME WireInv, StoreInv, CountInv, NEW c \in Client, UNCHANGED store,
         \A d \in Client \ {c} : sessions'[d] = sessions[d],
         c \in Admitted' => c \in Admitted, sessions'[c].phase # "running"
  PROVE  CountInv'
<1>1. Admitted' \subseteq Admitted /\ \A x : Writers(x)' \subseteq Writers(x)
  <2>1. \A x : c \notin Writers(x)'
    BY DEF Writers
  <2> QED
    BY <2>1, CountsOnly
<1>2. Cardinality(Admitted') <= MaxOpen
  BY <1>1, FewerAdmitted DEF CountInv
<1>3. \A x : Len(Held(x)') \in Nat /\ Len(Held(x)') <= Len(Held(x))
  BY HeldIs DEF Held, store
<1>4. ASSUME NEW x \in Name PROVE Room(x)'
  BY <1>1, <1>3, RoomStays DEF CountInv
<1> QED
  BY <1>2, <1>4 DEF CountInv

\* Accept: the gauge is how many are open, so with those let in the limit holds.
LEMMA AcceptCounts ==
  ASSUME WireInv, StoreInv, CountInv, NEW c \in Client, Accept(c) PROVE CountInv'
<1>1. PICK S \in SUBSET Client : S = Open
  BY DEF Open
<1>2. PICK n \in Nat : n = Cardinality(S)
  BY Counted
<1>3. PICK most \in Nat : most = MaxOpen
  BY RuleAssumption
<1> DEFINE s == [Session("connect") EXCEPT !.gauge = n]
<1>4. s \in SessionSet /\ s.phase = "connect" /\ s.gauge = n
  BY SessionIs DEF SessionSet, Phases
<1>5. sessions' = [sessions EXCEPT ![c] = s] /\ UNCHANGED store /\ sessions[c].phase = "away"
  BY <1>1, <1>2 DEF Accept
<1> HIDE DEF s
<1>6. sessions'[c] = s /\ \A d \in Client \ {c} : sessions'[d] = sessions[d]
  BY <1>4, <1>5, SessionChanges
<1>7. \A x : Writers(x)' \subseteq Writers(x)
  <2>1. \A x : c \notin Writers(x)'
    BY <1>4, <1>6 DEF Writers
  <2> QED
    BY <1>6, <2>1, CountsOnly
<1>8. Cardinality(Admitted') <= MaxOpen
  <2>1. CASE n < most
    <3>1. c \notin S
      BY <1>1, <1>5 DEF Open
    <3>2. Admitted' \subseteq S \cup {c}
      <4>1. Admitted \subseteq S
        BY <1>1 DEF Admitted, Open
      <4> QED
        BY <4>1, <1>6, CountsOnly
    <3>3. PICK T \in SUBSET Client : T = S \cup {c} /\ Cardinality(T) = n + 1
      BY <1>2, <3>1, OneMore
    <3>4. PICK A \in SUBSET T : A = Admitted'
      BY <3>2, <3>3
    <3>5. Cardinality(A) \in Nat /\ Cardinality(A) <= Cardinality(T)
      BY Counted
    <3>6. Cardinality(A) <= most
      BY <2>1, <3>3, <3>5
    <3> QED
      BY <1>3, <3>4, <3>6
  <2>2. CASE ~(n < most)
    <3>1. c \notin Admitted'
      BY <1>3, <1>4, <1>6, <2>2 DEF Admitted
    <3>2. Admitted' \subseteq Admitted
      BY <3>1, <1>6, CountsOnly
    <3> QED
      BY <3>2, FewerAdmitted DEF CountInv
  <2> QED
    BY <2>1, <2>2
<1>9. \A x : Len(Held(x)') \in Nat /\ Len(Held(x)') <= Len(Held(x))
  BY <1>5, HeldIs DEF Held, store
<1>10. ASSUME NEW x \in Name PROVE Room(x)'
  BY <1>7, <1>9, RoomStays DEF CountInv
<1> QED
  BY <1>8, <1>10 DEF CountInv

\* Connect: a session the rule refuses was not counted among those let in.
LEMMA ConnectCounts ==
  ASSUME WireInv, StoreInv, CountInv, NEW c \in Client, Connect(c) PROVE CountInv'
<1>1. PICK p \in {"closed", "reading"} :
        Phase(c, p) /\ (p = "reading" => ~(sessions[c].gauge >= MaxOpen))
  BY DEF Connect
<1>2. sessions[c].phase = "connect" /\ UNCHANGED store
  BY DEF Connect
<1>3. p \in Phases \ {"running"}
  BY DEF Phases
<1>4. sessions'[c].phase = p /\ \A d \in Client \ {c} : sessions'[d] = sessions[d]
  BY <1>1, <1>3, PhaseIs
<1>5. p = "reading" => sessions[c].gauge < MaxOpen
  <2>1. sessions[c].gauge \in Nat /\ MaxOpen \in Nat
    BY RuleAssumption DEF WireInv, WireTypes, SessionSet
  <2> QED
    BY <1>1, <2>1
<1>6. c \in Admitted' => c \in Admitted
  BY <1>2, <1>4, <1>5 DEF Admitted
<1> QED
  BY <1>2, <1>3, <1>4, <1>6, QuietCounts

LEMMA EndCounts ==
  ASSUME WireInv, StoreInv, CountInv, NEW c \in Client, EndOfStream(c) PROVE CountInv'
<1>1. Phase(c, "closed") /\ UNCHANGED store /\ "closed" \in Phases \ {"running"}
  BY DEF EndOfStream, Phases
<1>2. sessions'[c].phase = "closed" /\ \A d \in Client \ {c} : sessions'[d] = sessions[d]
  BY <1>1, PhaseIs
<1>3. c \notin Admitted'
  BY <1>2 DEF Admitted
<1> QED
  BY <1>1, <1>2, <1>3, QuietCounts

\* Nothing counted changes.
LEMMA StillCounts ==
  ASSUME CountInv, UNCHANGED store, UNCHANGED sessions PROVE CountInv'
BY DEF CountInv, Admitted, Room, Writers, Held, store

\* Read: the gauge of a writer is what its collection holds as it joins.
LEMMA ReadCounts ==
  ASSUME WireInv, StoreInv, CountInv, NEW c \in Client, Read(c) PROVE CountInv'
<1>1. PICK r \in Script : r = Head(inbox[c]) /\ inbox[c] # <<>>
  <2>1. inbox[c] \in Seq(Script) /\ inbox[c] # <<>>
    BY DEF Read, WireInv, WireTypes
  <2> QED
    BY <2>1
<1>2. UNCHANGED store /\ sessions[c].phase = "reading"
  BY DEF Read
<1>3. CASE Phase(c, "closed")
  <2>1. "closed" \in Phases \ {"running"}
    BY DEF Phases
  <2>2. sessions'[c].phase = "closed" /\ \A d \in Client \ {c} : sessions'[d] = sessions[d]
    BY <1>3, <2>1, PhaseIs
  <2>3. c \notin Admitted'
    BY <2>2 DEF Admitted
  <2> QED
    BY <1>2, <2>2, <2>3, QuietCounts
<1>4. CASE UNCHANGED sessions
  BY <1>2, <1>4, StillCounts
<1>5. CASE ~Phase(c, "closed") /\ ~(UNCHANGED sessions)
  <2>1. PICK n, s : /\ s = [phase |-> "running", request |-> n, silent |-> r.silent, op |-> r, gauge |-> Count(r)]
                    /\ sessions' = [sessions EXCEPT ![c] = s]
    BY <1>1, <1>5 DEF Read
  <2>2. /\ s.phase = "running" /\ s.op = r /\ s.gauge = Count(r)
    BY <2>1
  <2>3. sessions'[c] = s /\ \A d \in Client \ {c} : sessions'[d] = sessions[d]
    BY <2>1 DEF WireInv, WireTypes
  <2>4. Cardinality(Admitted') <= MaxOpen
    <3>1. c \in Admitted
      BY <1>2 DEF Admitted
    <3>2. Admitted' \subseteq Admitted
      BY <2>3, <3>1, CountsOnly
    <3> QED
      BY <3>2, FewerAdmitted DEF CountInv
  <2>5. \A x : Held(x)' = Held(x) /\ Len(Held(x)') \in Nat /\ Len(Held(x)') <= Len(Held(x))
    BY <1>2, HeldIs DEF Held, store
  <2>6. ASSUME NEW x \in Name PROVE Room(x)'
    <3>1. CASE c \notin Writers(x)'
      <4>1. Writers(x)' \subseteq Writers(x)
        BY <2>3, <3>1, CountsOnly
      <4> QED
        BY <2>5, <4>1, RoomStays DEF CountInv
    <3>2. CASE c \in Writers(x)'
      <4>1. r.kind \in {"insert", "update"} /\ r.name = x /\ Count(r) < Capacity
        BY <2>2, <2>3, <3>2 DEF Writers
      <4>2. Count(r) = Len(Held(x))
        BY <4>1 DEF Count
      <4>3. Len(Held(x)') \in Nat /\ Len(Held(x)') < Capacity
        BY <2>5, <4>1, <4>2
      <4> QED
        BY <2>4, <4>3, RoomJoins
    <3> QED
      BY <3>1, <3>2
  <2> QED
    BY <2>4, <2>6 DEF CountInv
<1> QED
  BY <1>3, <1>4, <1>5

\* An operation that is done leaves the writers, with a batch added at most.
LEMMA ExecCounts ==
  ASSUME WireInv, StoreInv, CountInv, NEW c \in Client, Exec(c) PROVE CountInv'
<1>1. /\ sessions[c].phase = "running" /\ sessions'[c].phase \in {"reading", "closed"}
      /\ \A d \in Client \ {c} : sessions'[d] = sessions[d]
  BY ExecReplies, ReplyKeepsWires
<1>2. Cardinality(Admitted') <= MaxOpen
  <2>1. c \in Admitted
    BY <1>1 DEF Admitted
  <2>2. Admitted' \subseteq Admitted
    BY <1>1, <2>1, CountsOnly
  <2> QED
    BY <2>2, FewerAdmitted DEF CountInv
<1>3. \A x : c \notin Writers(x)'
  BY <1>1 DEF Writers
<1>4. \A x : Writers(x)' = Writers(x) \ {c}
  BY <1>1, <1>3, CountsOnly
<1>5. \A x : Writers(x)' \subseteq Writers(x)
  BY <1>4
<1>6. CASE ~Write(c)
  <2>1. \A x : Len(Held(x)') \in Nat /\ Len(Held(x)') <= Len(Held(x))
    BY <1>6, OthersStore
  <2>2. ASSUME NEW x \in Name PROVE Room(x)'
    BY <1>5, <2>1, RoomStays DEF CountInv
  <2> QED
    BY <1>2, <2>2 DEF CountInv
<1>7. CASE Write(c)
  <2>1. PICK r \in Script : r = sessions[c].op
    BY <1>1 DEF WireInv, WireTypes
  <2>2. /\ \A y : y # r.name => Held(y)' = Held(y)
        /\ Len(Held(r.name)') \in Nat
        /\ Len(Held(r.name)') <= Len(Held(r.name)) + LargestBatch
        /\ r.kind \notin {"insert", "update"} => Len(Held(r.name)') <= Len(Held(r.name))
        /\ r.kind \in {"insert", "update"} => sessions[c].gauge < Capacity
    BY <1>7, <2>1, WriteIs
  <2>3. ASSUME NEW x \in Name PROVE Room(x)'
    <3>1. CASE x # r.name \/ r.kind \notin {"insert", "update"}
      <4>1. Len(Held(x)') \in Nat /\ Len(Held(x)') <= Len(Held(x))
        <5>1. CASE x # r.name
          BY <2>2, <5>1, HeldIs
        <5>2. CASE x = r.name
          BY <2>2, <3>1, <5>2
        <5> QED
          BY <5>1, <5>2
      <4> QED
        BY <1>5, <4>1, RoomStays DEF CountInv
    <3>2. CASE x = r.name /\ r.kind \in {"insert", "update"}
      <4>1. c \in Writers(x)
        BY <1>1, <2>1, <2>2, <3>2 DEF Writers
      <4>2. Len(Held(x)') \in Nat /\ Len(Held(x)') <= Len(Held(x)) + LargestBatch
        BY <2>2, <3>2
      <4> QED
        BY <1>4, <4>1, <4>2, RoomLeaves DEF CountInv
    <3> QED
      BY <3>1, <3>2
  <2> QED
    BY <1>2, <2>3 DEF CountInv
<1> QED
  BY <1>6, <1>7

LEMMA NextCounts == WireInv /\ StoreInv /\ CountInv /\ [StoreNext]_storeVars => CountInv'
<1> SUFFICES ASSUME WireInv, StoreInv, CountInv, [StoreNext]_storeVars PROVE CountInv'
  OBVIOUS
<1>1. CASE UNCHANGED storeVars
  BY <1>1, StillCounts DEF storeVars
<1>2. CASE StoreNext
  <2>1. PICK c \in Client : Accept(c) \/ EndOfStream(c) \/ Server(c) \/ \E r \in Script : Send(c, r)
    BY <1>2 DEF StoreNext
  <2>2. CASE \E r \in Script : Send(c, r)
    BY <2>2, StillCounts DEF Send
  <2> QED
    BY <2>1, <2>2, AcceptCounts, EndCounts, ConnectCounts, ReadCounts, ExecCounts DEF Server
<1> QED
  BY <1>1, <1>2

\* With room for a batch of every session let in, none is passed.
LEMMA RoomIsBound == StoreInv /\ CountInv => OvershootBounded
<1> SUFFICES ASSUME StoreInv, CountInv, NEW x \in DOMAIN collections
             PROVE  Len(collections[x]) < Capacity + MaxOpen * LargestBatch
  BY DEF OvershootBounded
<1>1. x \in Name /\ Room(x) /\ Held(x) = collections[x]
  BY DEF StoreInv, CountInv, Held
<1>2. PICK h \in Nat : h = Len(Held(x))
  BY HeldIs
<1>3. PICK S \in SUBSET Client : S = Writers(x)
  BY DEF Writers
<1>4. PICK k \in Nat, l \in Nat : k = Cardinality(S) /\ l = LargestBatch
  BY Counted, LargestIs
<1>5. k * l \in Nat
  BY Times
<1>6. PICK bound \in Nat : bound = Capacity + MaxOpen * l
  <2>1. Capacity \in Nat /\ MaxOpen \in Nat
    BY RuleAssumption
  <2>2. MaxOpen * l \in Nat
    BY <2>1
  <2> QED
    BY <2>1, <2>2
<1>7. h + k * l < bound
  BY <1>1, <1>2, <1>3, <1>4, <1>6 DEF Room
<1>8. h < bound
  BY <1>5, <1>7
<1> QED
  BY <1>1, <1>2, <1>4, <1>6, <1>8
-----------------------------------------------------------------------------
(* Answers handed out page by page *)

\* Sequences over a set are sequences over a larger one.
LEMMA MoreValues ==
  ASSUME NEW D, NEW E, D \subseteq E, NEW s \in Seq(D) PROVE s \in Seq(E)
<1>1. PICK n \in Nat : n = Len(s)
  OBVIOUS
<1>2. s \in [1 .. n -> D]
  BY <1>1
<1>3. s \in [1 .. n -> E]
  BY <1>2
<1> QED
  BY <1>3

\* batch, getMore: a page and what is left of it are the whole.
LEMMA PageAndRest ==
  ASSUME NEW D, NEW s \in Seq(D), NEW size \in Nat
  PROVE  /\ FirstPage(s, size) \in Seq(D) /\ Rest(s, FirstPage(s, size)) \in Seq(D)
         /\ FirstPage(s, size) \o Rest(s, FirstPage(s, size)) = s
         /\ Page(s, size) = FirstPage(s, size)
<1>1. PICK n \in Nat : n = Len(s)
  OBVIOUS
<1>2. PICK k \in 0 .. n : FirstPage(s, size) = SubSeq(s, 1, k)
  <2>1. CASE size > 0 /\ size < n
    BY <1>1, <2>1 DEF FirstPage, Take
  <2>2. CASE size > 0 /\ ~(size < n)
    BY <1>1, <2>2 DEF FirstPage, Take
  <2>3. CASE ~(size > 0)
    <3>1. FirstPage(s, size) = s
      BY <2>3 DEF FirstPage
    <3>2. SubSeq(s, 1, n) = s
      BY <1>1, SubSeqFull
    <3> QED
      BY <3>1, <3>2
  <2> QED
    BY <2>1, <2>2, <2>3
<1>3. /\ SubSeq(s, 1, k) \in Seq(D) /\ Len(SubSeq(s, 1, k)) = k
      /\ SubSeq(s, k + 1, n) \in Seq(D)
  <2>1. \A i \in 1 .. n : s[i] \in D
    BY <1>1
  <2>2. PICK m \in Nat : m = k + 1
    OBVIOUS
  <2>3. (\A i \in 1 .. k : s[i] \in D) /\ (\A i \in m .. n : s[i] \in D)
    BY <2>1, <2>2
  <2>4. SubSeq(s, m, n) \in Seq(D)
    BY <2>3, SubSeqProperties
  <2>5. SubSeq(s, 1, k) \in Seq(D) /\ Len(SubSeq(s, 1, k)) = IF 1 <= k THEN k - 1 + 1 ELSE 0
    BY <2>3, SubSeqProperties
  <2> QED
    BY <2>2, <2>4, <2>5
<1>4. SubSeq(s, 1, k) \o SubSeq(s, k + 1, n) = SubSeq(s, 1, n)
  <2>1. 1 \in 1 .. n + 1 /\ k \in 1 - 1 .. n /\ n \in k .. n
    BY <1>2
  <2> QED
    BY <1>1, <2>1, ConcatAdjacentSubSeq
<1>5. SubSeq(s, 1, n) = s
  BY <1>1, SubSeqFull
<1>6. Rest(s, FirstPage(s, size)) = SubSeq(s, k + 1, n)
  BY <1>1, <1>2, <1>3 DEF Rest
<1>7. Page(s, size) = FirstPage(s, size)
  BY DEF Page, FirstPage
<1> QED
  BY <1>2, <1>3, <1>4, <1>5, <1>6, <1>7

\* What is handed out under a cursor, with what the cursor still holds, is one
\* answer; ids are not given twice.  D is what answers were made of so far.
AnswerOf(D) == [cursor : Nat, whole : Seq(D), given : Seq(D)]
Honest(h, D) ==
  /\ answers[h].cursor \in 1 .. lastCursor
  /\ \E t \in Seq(D) : answers[h].given \o t = answers[h].whole
  /\ answers[h].cursor \in DOMAIN cursors =>
       answers[h].given \o cursors[answers[h].cursor] = answers[h].whole
CursorsOf(D) ==
  /\ lastCursor \in Nat /\ DOMAIN cursors \subseteq 1 .. lastCursor
  /\ \A i \in DOMAIN cursors : cursors[i] \in Seq(D) \ {<<>>}
PagesOf(D) ==
  /\ CursorsOf(D)
  /\ answers \in Seq(AnswerOf(D))
  /\ \A h \in DOMAIN answers : Honest(h, D)
  /\ \A g, h \in DOMAIN answers : g # h => answers[g].cursor # answers[h].cursor

\* A request that names a cursor names one some answer came with.
Known(r) == r.kind \in {"getMore", "killCursors"} => r.handle \in DOMAIN answers
Handles ==
  \A c \in Client : /\ \A i \in DOMAIN inbox[c] : Known(inbox[c][i])
                    /\ sessions[c].phase = "running" => Known(sessions[c].op)
PageInv == Handles /\ \E D : PagesOf(D)

LEMMA PageInit == StoreInit => PageInv
<1> SUFFICES ASSUME StoreInit PROVE PageInv
  OBVIOUS
<1>1. Handles
  BY SessionIs DEF StoreInit, Handles, Phases
<1>2. PagesOf({})
  <2>1. answers \in Seq(AnswerOf({})) /\ DOMAIN answers = {} /\ DOMAIN cursors = {} /\ lastCursor = 0
    BY DEF StoreInit
  <2> QED
    BY <2>1 DEF PagesOf, CursorsOf
<1> QED
  BY <1>1, <1>2 DEF PageInv

LEMMA PagesGrow ==
  ASSUME NEW D, NEW E, D \subseteq E, PagesOf(D) PROVE PagesOf(E)
<1>1. Seq(D) \subseteq Seq(E)
  BY MoreValues
<1>2. CursorsOf(E)
  BY <1>1 DEF PagesOf, CursorsOf
<1>3. AnswerOf(D) \subseteq AnswerOf(E)
  BY <1>1 DEF AnswerOf
<1>4. answers \in Seq(AnswerOf(E))
  BY <1>3, MoreValues DEF PagesOf
<1>5. ASSUME NEW h \in DOMAIN answers PROVE Honest(h, E)
  BY <1>1 DEF PagesOf, Honest
<1> QED
  BY <1>2, <1>4, <1>5 DEF PagesOf

\* batch: the first page goes out under a cursor of its own.
LEMMA BatchPages ==
  ASSUME NEW D, PagesOf(D), NEW answer \in Seq(D), NEW size \in Nat, StoreBatch(answer, size)
  PROVE  PagesOf(D)' /\ DOMAIN answers \subseteq DOMAIN answers'
<1>1. PICK first \in Seq(D), rest \in Seq(D) :
        /\ first = FirstPage(answer, size) /\ rest = Rest(answer, first) /\ first \o rest = answer
  BY PageAndRest
<1>2. CASE rest = <<>>
  <2>1. UNCHANGED <<cursors, lastCursor, answers>>
    BY <1>1, <1>2 DEF StoreBatch
  <2> QED
    BY <2>1 DEF PagesOf, CursorsOf, Honest
<1>3. CASE rest # <<>>
  <2>1. PICK last \in Nat : last = lastCursor
    BY DEF PagesOf, CursorsOf
  <2>2. PICK id \in Nat : id = last + 1
    OBVIOUS
  <2>3. PICK a \in AnswerOf(D) : a = [cursor |-> id, whole |-> answer, given |-> first]
    BY DEF AnswerOf
  <2>4. /\ lastCursor' = id
        /\ cursors' = [i \in DOMAIN cursors \cup {id} |-> IF i = id THEN rest ELSE cursors[i]]
        /\ answers' = Append(answers, a)
    BY <1>1, <1>3, <2>1, <2>2, <2>3 DEF StoreBatch, NextCursor
  <2>5. id \notin DOMAIN cursors /\ DOMAIN cursors \subseteq 1 .. last /\ 1 .. last \subseteq 1 .. id
    BY <2>1, <2>2 DEF PagesOf, CursorsOf
  <2>6. /\ DOMAIN cursors' = DOMAIN cursors \cup {id} /\ cursors'[id] = rest
        /\ \A i \in DOMAIN cursors : cursors'[i] = cursors[i]
    BY <2>4, <2>5
  <2>7. CursorsOf(D)'
    <3>1. DOMAIN cursors' \subseteq 1 .. id
      BY <2>2, <2>5, <2>6
    <3> QED
      BY <1>3, <2>4, <2>6, <3>1 DEF PagesOf, CursorsOf
  <2>8. PICK n \in Nat : n = Len(answers) /\ DOMAIN answers = 1 .. n
    BY DEF PagesOf
  <2>9. /\ answers' \in Seq(AnswerOf(D)) /\ DOMAIN answers' = 1 .. (n + 1) /\ answers'[n + 1] = a
        /\ \A h \in 1 .. n : answers'[h] = answers[h]
    BY <2>4, <2>8 DEF PagesOf
  <2>10. ASSUME NEW h \in 1 .. n PROVE Honest(h, D)' /\ answers'[h].cursor # id
    <3>1. Honest(h, D)
      BY <2>8 DEF PagesOf
    <3>2. answers[h].cursor \in 1 .. last /\ answers[h].cursor # id
      BY <3>1, <2>1, <2>2 DEF Honest
    <3>3. answers[h].cursor \in DOMAIN cursors' => answers[h].cursor \in DOMAIN cursors
      BY <3>2, <2>6
    <3> QED
      BY <3>1, <3>2, <3>3, <2>4, <2>5, <2>6, <2>9 DEF Honest
  <2>11. Honest(n + 1, D)'
    <3>1. a.cursor = id /\ a.whole = answer /\ a.given = first /\ id \in 1 .. id
      BY <2>2, <2>3
    <3> QED
      BY <1>1, <2>4, <2>6, <2>9, <3>1 DEF Honest
  <2>12. \A h \in DOMAIN answers' : h \in 1 .. n \/ h = n + 1
    BY <2>9
  <2>13. a.cursor = id
    BY <2>3
  <2>14. ASSUME NEW g \in 1 .. n, NEW h \in 1 .. n, g # h
         PROVE  answers'[g].cursor # answers'[h].cursor
    <3>1. answers[g].cursor # answers[h].cursor
      BY <2>8, <2>14 DEF PagesOf
    <3>2. answers'[g] = answers[g] /\ answers'[h] = answers[h]
      BY <2>9
    <3> QED
      BY <3>1, <3>2
  <2>15. \A g, h \in DOMAIN answers' : g # h => answers'[g].cursor # answers'[h].cursor
    BY <2>9, <2>10, <2>12, <2>13, <2>14
  <2>16. \A h \in DOMAIN answers' : Honest(h, D)'
    BY <2>10, <2>11, <2>12
  <2> QED
    BY <2>7, <2>8, <2>9, <2>15, <2>16 DEF PagesOf
<1> QED
  BY <1>2, <1>3

\* killCursors, dropDatabase: cursors that go leave the answers as they were.
LEMMA FewerCursors ==
  ASSUME NEW D, PagesOf(D), UNCHANGED <<lastCursor, answers>>,
         DOMAIN cursors' \subseteq DOMAIN cursors,
         \A i \in DOMAIN cursors' : cursors'[i] = cursors[i]
  PROVE  PagesOf(D)' /\ DOMAIN answers \subseteq DOMAIN answers'
<1>1. CursorsOf(D)'
  BY DEF PagesOf, CursorsOf
<1>2. ASSUME NEW h \in DOMAIN answers PROVE Honest(h, D)'
  BY DEF PagesOf, Honest
<1> QED
  BY <1>1, <1>2 DEF PagesOf

\* getMore: the next page moves from what the cursor holds to what its answer
\* was given; a cursor that has run out goes.
LEMMA MorePages ==
  ASSUME NEW D, PagesOf(D), NEW c \in Client, GetMore(c), NEW r \in Script, r = sessions[c].op,
         r.handle \in DOMAIN answers, r.size \in Nat
  PROVE  PagesOf(D)' /\ DOMAIN answers \subseteq DOMAIN answers'
<1>1. PICK h \in DOMAIN answers : h = r.handle
  OBVIOUS
<1>2. PICK a \in AnswerOf(D) : a = answers[h] /\ Honest(h, D)
  BY DEF PagesOf
<1>3. PICK id \in Nat : id = a.cursor
  BY DEF AnswerOf
<1>4. UNCHANGED lastCursor
  BY DEF GetMore
<1>5. CASE id \notin DOMAIN cursors
  <2>1. UNCHANGED <<cursors, answers>>
    BY <1>1, <1>2, <1>3, <1>5 DEF GetMore
  <2> QED
    BY <1>4, <2>1, FewerCursors
<1>6. CASE id \in DOMAIN cursors
  <2>1. PICK left \in Seq(D) : left = cursors[id] /\ a.given \o left = a.whole
    BY <1>2, <1>3, <1>6 DEF PagesOf, CursorsOf, Honest
  <2>2. PICK first \in Seq(D), rest \in Seq(D) :
          first = Page(left, r.size) /\ rest = Rest(left, first) /\ first \o rest = left
    <3>1. PICK most \in Nat : most = r.size
      OBVIOUS
    <3>2. /\ FirstPage(left, most) \in Seq(D) /\ Rest(left, FirstPage(left, most)) \in Seq(D)
          /\ FirstPage(left, most) \o Rest(left, FirstPage(left, most)) = left
          /\ Page(left, most) = FirstPage(left, most)
      BY PageAndRest
    <3>3. PICK p \in Seq(D) : p = Page(left, most) /\ p = FirstPage(left, most)
      BY <3>2
    <3> QED
      BY <3>1, <3>2, <3>3
  <2>3. /\ cursors' = [i \in (IF rest = <<>> THEN DOMAIN cursors \ {id} ELSE DOMAIN cursors) |->
                         IF i = id THEN rest ELSE cursors[i]]
        /\ answers' = [answers EXCEPT ![h].given = @ \o first]
    BY <1>1, <1>2, <1>3, <1>6, <2>1, <2>2 DEF GetMore
  <2>4. PICK given \in Seq(D), more \in Seq(D) : given = a.given /\ more = given \o first
    BY ConcatProperties DEF AnswerOf
  <2>5. PICK b \in AnswerOf(D) : b = [a EXCEPT !.given = more]
    BY <2>4 DEF AnswerOf
  <2>6. b.cursor = id /\ b.whole = a.whole /\ b.given = more
    BY <1>3, <2>4, <2>5 DEF AnswerOf
  <2>7. more \o rest = a.whole
    <3>1. given \in Seq(D) /\ first \in Seq(D) /\ rest \in Seq(D)
      OBVIOUS
    <3>2. (given \o first) \o rest = given \o (first \o rest)
      BY <3>1, ConcatAssociative
    <3> QED
      BY <2>1, <2>2, <2>4, <3>2
  <2>8. answers' = [answers EXCEPT ![h] = b]
    BY <1>2, <2>3, <2>4, <2>5
  <2>9. PICK n \in Nat : n = Len(answers) /\ DOMAIN answers = 1 .. n /\ answers \in [1 .. n -> AnswerOf(D)]
    BY DEF PagesOf
  <2>10. /\ answers' \in [1 .. n -> AnswerOf(D)] /\ DOMAIN answers' = DOMAIN answers
         /\ answers'[h] = b /\ \A g \in DOMAIN answers : g # h => answers'[g] = answers[g]
    BY <2>8, <2>9
  <2>11. answers' \in Seq(AnswerOf(D))
    BY <2>10
  <2>12. \A g \in DOMAIN answers : answers'[g].cursor = answers[g].cursor
    BY <1>2, <1>3, <2>6, <2>10
  <2>13. /\ DOMAIN cursors' \subseteq DOMAIN cursors
         /\ id \in DOMAIN cursors' => rest # <<>>
         /\ \A i \in DOMAIN cursors' : cursors'[i] = IF i = id THEN rest ELSE cursors[i]
    BY <2>3
  <2>14. CursorsOf(D)'
    BY <1>4, <2>13 DEF PagesOf, CursorsOf
  <2>15. ASSUME NEW g \in DOMAIN answers, g # h PROVE Honest(g, D)'
    <3>1. Honest(g, D) /\ answers[g].cursor # id /\ answers'[g] = answers[g]
      BY <1>2, <1>3, <2>10, <2>15 DEF PagesOf
    <3> QED
      BY <1>4, <2>13, <3>1 DEF Honest
  <2>16. Honest(h, D)'
    <3>1. id \in 1 .. lastCursor
      BY <1>2, <1>3 DEF Honest
    <3> QED
      BY <1>4, <2>6, <2>7, <2>10, <2>13, <3>1 DEF Honest
  <2>17. \A g \in DOMAIN answers' : Honest(g, D)'
    BY <2>10, <2>15, <2>16
  <2>18. ASSUME NEW f \in DOMAIN answers', NEW g \in DOMAIN answers', f # g
         PROVE  answers'[f].cursor # answers'[g].cursor
    <3>1. answers[f].cursor # answers[g].cursor
      BY <2>10, <2>18 DEF PagesOf
    <3> QED
      BY <2>10, <2>12, <3>1
  <2> QED
    BY <2>10, <2>11, <2>14, <2>17, <2>18 DEF PagesOf
<1> QED
  BY <1>5, <1>6

\* A find's answer is a sequence of what its collection held.
LEMMA FoundIs ==
  ASSUME StoreInv, NEW r \in Script, r.kind = "find"
  PROVE  \E E : Found(Held(r.name), r) \in Seq(E)
<1>1. PICK docs \in Seq(Document) : docs = Held(r.name)
  BY HeldIs
<1>2. Matching(docs, r.filter) \in SUBSET DOMAIN docs
  BY DEF Matching
<1>3. PICK sel \in Seq(Document) : sel = Picked(docs, Matching(docs, r.filter))
  BY <1>2, PickedIs
<1>4. PICK n \in Nat : n = Len(sel) /\ DOMAIN sel = 1 .. n
  OBVIOUS
<1>5. PICK order : Sorted(sel, r.sort) = [k \in DOMAIN sel |-> sel[order[k]]]
  BY DEF Sorted
<1> DEFINE E == {sel[order[k]] : k \in 1 .. n}
<1>6. [k \in 1 .. n |-> sel[order[k]]] \in [1 .. n -> E]
  OBVIOUS
<1> HIDE DEF E
<1>7. Sorted(sel, r.sort) \in Seq(E)
  BY <1>4, <1>5, <1>6
<1>8. r.skip \in Nat /\ r.limit \in Nat
  BY RequestIs
<1>9. Window(Sorted(sel, r.sort), r.skip, r.limit) \in Seq(E)
  BY <1>7, <1>8, WindowIs
<1> QED
  BY <1>1, <1>3, <1>9 DEF Found

LEMMA QueryPages ==
  ASSUME StoreInv, NEW D, PagesOf(D), NEW c \in Client, Query(c), NEW r \in Script,
         r = sessions[c].op
  PROVE  (\E E : PagesOf(E)') /\ DOMAIN answers \subseteq DOMAIN answers'
<1>1. ASSUME NEW E, NEW answer \in Seq(E), NEW size \in Nat, StoreBatch(answer, size)
      PROVE  (\E F : PagesOf(F)') /\ DOMAIN answers \subseteq DOMAIN answers'
  <2>1. PICK F : F = D \cup E
    OBVIOUS
  <2>2. PagesOf(F)
    BY <2>1, PagesGrow
  <2>3. answer \in Seq(F)
    BY <2>1, MoreValues
  <2>4. PagesOf(F)' /\ DOMAIN answers \subseteq DOMAIN answers'
    BY <1>1, <2>2, <2>3, BatchPages
  <2> QED
    BY <2>4
<1>2. CASE UNCHANGED <<cursors, lastCursor, answers>>
  BY <1>2, FewerCursors
<1>3. CASE r.kind = "find" /\ StoreBatch(Found(Held(r.name), r), r.size)
  <2>1. r.size \in Nat
    BY <1>3, RequestIs
  <2> QED
    BY <1>1, <1>3, <2>1, FoundIs
<1>4. CASE r.kind = "aggregate" /\ StoreBatch(Pipeline(Held(r.name), r.pipeline).docs, r.size)
  <2>1. PICK docs \in Seq(Document) : docs = Held(r.name)
    BY HeldIs
  <2>2. PICK stages \in Seq(StageOf), size \in Nat : stages = r.pipeline /\ size = r.size
    BY <1>4, RequestIs
  <2>3. Pipeline(docs, stages).docs \in Seq(Document)
    BY PipelineIs
  <2> QED
    BY <1>1, <1>4, <2>1, <2>2, <2>3
<1> QED
  BY <1>2, <1>3, <1>4 DEF Query

\* A session that runs nothing more leaves the handles others hold good.
LEMMA HandlesStay ==
  ASSUME Handles, DOMAIN answers \subseteq DOMAIN answers', UNCHANGED inbox, NEW c \in Client,
         \A d \in Client \ {c} : sessions'[d] = sessions[d],
         sessions'[c].phase # "running"
  PROVE  Handles'
<1>1. \A r : Known(r) => Known(r)'
  BY DEF Known
<1>2. ASSUME NEW d \in Client, NEW q, q = inbox[d], NEW i \in DOMAIN q PROVE Known(q[i])'
  BY <1>1, <1>2 DEF Handles
<1>3. ASSUME NEW d \in Client, NEW r, r = sessions'[d].op, sessions'[d].phase = "running"
      PROVE  Known(r)'
  <2>1. d # c /\ sessions'[d] = sessions[d]
    BY <1>3
  <2>2. Known(r)
    BY <1>3, <2>1 DEF Handles
  <2> QED
    BY <1>1, <2>2
<1> QED
  BY <1>2, <1>3 DEF Handles, Known

\* What an operation does to the pages that were handed out.
LEMMA ExecPages ==
  ASSUME WireInv, StoreInv, PageInv, NEW c \in Client, Exec(c) PROVE PageInv'
<1>1. PICK D : PagesOf(D)
  BY DEF PageInv
<1>2. /\ sessions[c].phase = "running" /\ sessions'[c].phase \in {"reading", "closed"}
      /\ UNCHANGED inbox /\ \A d \in Client \ {c} : sessions'[d] = sessions[d]
  BY ExecReplies, ReplyKeepsWires DEF wires
<1>3. PICK r \in Script : r = sessions[c].op /\ Known(r)
  BY <1>2 DEF WireInv, WireTypes, PageInv, Handles
<1>4. (\E E : PagesOf(E)') /\ DOMAIN answers \subseteq DOMAIN answers'
  <2>1. CASE UNCHANGED <<cursors, lastCursor, answers>>
    BY <1>1, <2>1, FewerCursors
  <2>2. CASE Fault(c) \/ Write(c) \/ CreateIndexes(c) \/ List(c) \/ Drop(c)
    BY <2>1, <2>2 DEF Fault, Write, CreateIndexes, List, Drop, store
  <2>3. CASE Query(c)
    BY <1>1, <1>3, <2>3, QueryPages
  <2>4. CASE GetMore(c)
    <3>1. r.kind = "getMore"
      BY <1>3, <2>4 DEF GetMore, Running
    <3>2. r.handle \in DOMAIN answers /\ r.size \in Nat
      BY <1>3, <3>1, RequestIs DEF Known
    <3> QED
      BY <1>1, <1>3, <2>4, <3>2, MorePages
  <2>5. CASE KillCursors(c)
    BY <1>1, <2>5, FewerCursors DEF KillCursors
  <2>6. CASE DropDatabase(c)
    BY <1>1, <2>6, FewerCursors DEF DropDatabase, Emptied
  <2> QED
    BY <2>2, <2>3, <2>4, <2>5, <2>6 DEF Exec
<1>5. Handles'
  BY <1>2, <1>4, HandlesStay DEF PageInv
<1> QED
  BY <1>4, <1>5 DEF PageInv

\* Send, Read: a request that names a cursor keeps its name on the way.
LEMMA SendHandles ==
  ASSUME WireInv, Handles, NEW c \in Client, NEW r \in Script, Send(c, r) PROVE Handles'
<1>1. /\ inbox[c] = <<>> /\ inbox' = [inbox EXCEPT ![c] = Append(inbox[c], r)]
      /\ UNCHANGED <<sessions, answers>> /\ Known(r)
  BY DEF Send, Known
<1>2. inbox'[c] = <<r>> /\ \A d \in Client \ {c} : inbox'[d] = inbox[d]
  BY <1>1 DEF WireInv, WireTypes
<1>3. ASSUME NEW d \in Client, NEW i \in DOMAIN inbox'[d] PROVE Known(inbox'[d][i])
  <2>1. CASE d = c
    BY <1>1, <1>2, <1>3, <2>1
  <2>2. CASE d # c
    BY <1>2, <1>3, <2>2 DEF Handles
  <2> QED
    BY <2>1, <2>2
<1> QED
  BY <1>1, <1>3 DEF Handles, Known

LEMMA ReadHandles ==
  ASSUME WireInv, Handles, NEW c \in Client, Read(c) PROVE Handles'
<1>1. PICK r \in Script : r = Head(inbox[c]) /\ Known(r)
  <2>1. inbox[c] \in Seq(Script) /\ inbox[c] # <<>>
    BY DEF Read, WireInv, WireTypes
  <2>2. Head(inbox[c]) = inbox[c][1] /\ Head(inbox[c]) \in Script /\ 1 \in DOMAIN inbox[c]
    BY <2>1
  <2> QED
    BY <2>2 DEF Handles
<1>2. inbox' = [inbox EXCEPT ![c] = Tail(inbox[c])] /\ UNCHANGED answers
  BY DEF Read
<1>3. inbox'[c] = Tail(inbox[c]) /\ \A d \in Client \ {c} : inbox'[d] = inbox[d]
  BY <1>2 DEF WireInv, WireTypes
<1>4. Tail(inbox[c]) = <<>>
  <2>1. inbox[c] \in Seq(Script) /\ inbox[c] # <<>> /\ Len(inbox[c]) <= 1
    BY DEF Read, WireInv, WireTypes
  <2>2. PICK p \in Seq(Script) : p = inbox[c] /\ p # <<>> /\ Len(p) <= 1
    BY <2>1
  <2>3. Tail(p) \in Seq(Script) /\ Len(Tail(p)) = Len(p) - 1 /\ Len(p) \in Nat
    BY <2>2
  <2>4. Len(Tail(p)) = 0
    <3>1. PICK k \in Nat, l \in Nat : k = Len(Tail(p)) /\ l = Len(p) /\ k = l - 1 /\ l <= 1
      BY <2>2, <2>3
    <3>2. k = 0
      BY <3>1
    <3> QED
      BY <3>1, <3>2
  <2> QED
    BY <2>2, <2>3, <2>4, EmptySeq
<1>5. ASSUME NEW d \in Client, NEW i \in DOMAIN inbox'[d] PROVE Known(inbox'[d][i])
  <2>1. d # c
    <3>1. DOMAIN <<>> = {}
      OBVIOUS
    <3> QED
      BY <1>3, <1>4, <1>5, <3>1
  <2> QED
    BY <1>3, <1>5, <2>1 DEF Handles
<1>6. ASSUME NEW d \in Client, sessions'[d].phase = "running" PROVE Known(sessions'[d].op)
  <2>1. CASE UNCHANGED sessions
    BY <1>6, <2>1 DEF Handles
  <2>2. CASE Phase(c, "closed")
    <3>1. "closed" \in Phases \ {"running"}
      BY DEF Phases
    <3>2. sessions'[c].phase = "closed" /\ \A e \in Client \ {c} : sessions'[e] = sessions[e]
      BY <2>2, <3>1, PhaseIs
    <3> QED
      BY <1>6, <3>2 DEF Handles
  <2>3. CASE ~Phase(c, "closed") /\ ~(UNCHANGED sessions)
    <3>1. PICK n : sessions' = [sessions EXCEPT ![c] =
            [phase |-> "running", request |-> n, silent |-> r.silent, op |-> r, gauge |-> Count(r)]]
      BY <1>1, <2>3 DEF Read
    <3>2. sessions'[c].op = r /\ \A e \in Client \ {c} : sessions'[e] = sessions[e]
      BY <3>1 DEF WireInv, WireTypes
    <3> QED
      BY <1>1, <1>6, <3>2 DEF Handles
  <2> QED
    BY <2>1, <2>2, <2>3
<1> QED
  BY <1>2, <1>5, <1>6 DEF Handles, Known

LEMMA NextKeepsPages == WireInv /\ StoreInv /\ PageInv /\ [StoreNext]_storeVars => PageInv'
<1> SUFFICES ASSUME WireInv, StoreInv, PageInv, [StoreNext]_storeVars PROVE PageInv'
  OBVIOUS
<1>1. Handles /\ \E D : PagesOf(D)
  BY DEF PageInv
<1>2. ASSUME UNCHANGED <<cursors, lastCursor, answers>> PROVE \E D : PagesOf(D)'
  BY <1>1, <1>2, FewerCursors
<1>3. CASE UNCHANGED storeVars
  <2>1. UNCHANGED <<cursors, lastCursor, answers, inbox, sessions>>
    BY <1>3 DEF storeVars, store, wires
  <2>2. Handles'
    BY <1>1, <2>1 DEF Handles, Known
  <2> QED
    BY <1>2, <2>1, <2>2 DEF PageInv
<1>4. ASSUME NEW c \in Client, Accept(c) \/ Connect(c) \/ EndOfStream(c) PROVE PageInv'
  <2>1. UNCHANGED <<cursors, lastCursor, answers, inbox>>
    BY <1>4 DEF Accept, Connect, EndOfStream, store, wires
  <2>2. sessions'[c].phase # "running" /\ \A d \in Client \ {c} : sessions'[d] = sessions[d]
    <3>1. CASE Accept(c)
      <4>1. PICK n : sessions' = [sessions EXCEPT ![c] = [Session("connect") EXCEPT !.gauge = n]]
        BY <3>1 DEF Accept
      <4>2. [Session("connect") EXCEPT !.gauge = n].phase = "connect"
        BY DEF Session
      <4> QED
        BY <4>1, <4>2 DEF WireInv, WireTypes
    <3>2. CASE Connect(c) \/ EndOfStream(c)
      <4>1. PICK p \in {"reading", "closed"} : Phase(c, p)
        BY <3>2 DEF Connect, EndOfStream
      <4>2. p \in Phases \ {"running"}
        BY DEF Phases
      <4> QED
        BY <4>1, <4>2, PhaseIs
    <3> QED
      BY <1>4, <3>1, <3>2
  <2>3. Handles'
    BY <1>1, <2>1, <2>2, HandlesStay
  <2> QED
    BY <1>2, <2>1, <2>3 DEF PageInv
<1>5. ASSUME NEW c \in Client, Read(c) \/ \E r \in Script : Send(c, r) PROVE PageInv'
  <2>1. UNCHANGED <<cursors, lastCursor, answers>>
    BY <1>5 DEF Read, Send, store
  <2>2. Handles'
    BY <1>1, <1>5, SendHandles, ReadHandles
  <2> QED
    BY <1>2, <2>1, <2>2 DEF PageInv
<1>6. ASSUME NEW c \in Client, Exec(c) PROVE PageInv'
  BY <1>6, ExecPages
<1> QED
  BY <1>3, <1>4, <1>5, <1>6 DEF StoreNext, Server

LEMMA HonestMeansOne == PageInv => PagesTellOneAnswer
<1> SUFFICES ASSUME PageInv, NEW h \in DOMAIN answers
             PROVE  /\ IsPrefix(answers[h].given, answers[h].whole)
                    /\ answers[h].cursor \in DOMAIN cursors =>
                         answers[h].given \o cursors[answers[h].cursor] = answers[h].whole
  BY DEF PagesTellOneAnswer
<1>1. PICK D : PagesOf(D)
  BY DEF PageInv
<1>2. answers[h] \in AnswerOf(D) /\ Honest(h, D)
  BY <1>1 DEF PagesOf
<1>3. PICK given \in Seq(D) : given = answers[h].given
  BY <1>2 DEF AnswerOf
<1>4. PICK t \in Seq(D) : given \o t = answers[h].whole
  BY <1>2, <1>3 DEF Honest
<1>5. IsPrefix(given, given \o t)
  BY PrefixOfConcat
<1> QED
  BY <1>2, <1>3, <1>4, <1>5 DEF Honest

-----------------------------------------------------------------------------
(* What the sessions, the collections, the gauges and the pages hold to, *)
(* together, at every step.                                              *)

DocInv == WireInv /\ StoreInv /\ CountInv /\ PageInv

LEMMA DocStays == StoreSpec => []DocInv
<1>1. StoreInit => DocInv
  BY WireInit, InitStore, CountInit, PageInit DEF DocInv
<1>2. DocInv /\ [StoreNext]_storeVars => DocInv'
  BY NextKeepsWires, NextKeepsStore, NextCounts, NextKeepsPages DEF DocInv
<1> QED
  BY <1>1, <1>2, PTL DEF StoreSpec

LEMMA DocMeansSound == DocInv => StoreSound
<1> SUFFICES ASSUME DocInv PROVE StoreSound
  OBVIOUS
<1>1. \A x \in DOMAIN collections : Keyed(collections[x])
  BY DEF DocInv, StoreInv
<1>2. UniqueIds /\ \A x \in DOMAIN collections : \A i \in DOMAIN collections[x] :
                      collections[x][i].id # Missing
  BY <1>1 DEF UniqueIds, Keyed
<1>3. PICK D : CursorsOf(D)
  BY DEF DocInv, PageInv, PagesOf
<1>4. \A c \in Client : sessions[c].phase \in {"away", "connect", "reading", "running", "closed"}
  BY DEF DocInv, WireInv, WireTypes, SessionSet, Phases
<1>5. StoreTypeOK
  BY <1>2, <1>3, <1>4 DEF StoreTypeOK, DocInv, StoreInv, CursorsOf
<1>6. OvershootBounded
  BY RoomIsBound DEF DocInv
<1> QED
  BY <1>2, <1>5, <1>6 DEF StoreSound

\* insert, update, delete and the gauges: for every set of clients, every
\* script of requests, every seed and every rule, no two documents of a
\* collection have one _id, and a capacity rule is passed by no more than a
\* batch of each connection that was let in.
THEOREM StoreStaysSound == StoreSpec => []StoreSound
BY DocStays, DocMeansSound, PTL

\* batch, getMore, killCursors: what is handed out under a cursor id is one
\* answer, from its first document on and without a gap.
THEOREM PagesTell == StoreSpec => []PagesTellOneAnswer
<1>1. DocInv => PagesTellOneAnswer
  BY HonestMeansOne DEF DocInv
<1> QED
  BY <1>1, DocStays, PTL

\* pending, send: replies name a client's requests in the order it sent them,
\* and a request that is not waited for has none.
THEOREM RepliesStayInOrder == StoreSpec => []RepliesInOrder
<1>1. DocInv => RepliesInOrder
  BY OwedMeansOrder DEF DocInv
<1> QED
  BY <1>1, DocStays, PTL
=============================================================================
