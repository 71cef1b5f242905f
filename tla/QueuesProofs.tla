---------------------------- MODULE QueuesProofs ----------------------------
(***************************************************************************)
(* The counters of the broker are right, no queue ever has two copies of a *)
(* message, fresh messages leave in publishing order, and no message is    *)
(* lost: for any number of connections, channels, queues and messages.  As *)
(* long as their consumer tags differ, connections that are gone hold      *)
(* nothing, both records of who consumes agree, and, when a channel serves *)
(* one queue, no message waits for a consumer that could take it.  Topic   *)
(* patterns of any length match the keys they should.                      *)
(***************************************************************************)
EXTENDS Queues, TLAPS, FiniteSetTheorems, SequenceTheorems,
        WellFoundedInduction

USE QueuesAssumption

----------------------------------------------------------------------------
(* Facts about the operators the model is built from *)

\* An order in which a loop visits a finite set is a sequence of its members
\* without repetition.
LEMMA OrderingIsSeq ==
  ASSUME NEW S, IsFiniteSet(S), NEW s \in Orderings(S)
  PROVE  /\ s \in Seq(S) /\ DOMAIN s = 1 .. Len(s) /\ Len(s) \in Nat
         /\ \A i \in DOMAIN s : s[i] \in S
         /\ \A i, j \in DOMAIN s : s[i] = s[j] => i = j
<1>1. Cardinality(S) \in Nat
  BY FS_CardinalityType
<1>2. s \in [1 .. Cardinality(S) -> S]
  BY DEF Orderings
<1>3. s \in Seq(S)
  BY <1>1, <1>2
<1> QED
  BY <1>1, <1>2, <1>3 DEF Orderings

\* An order in which a loop visits a finite set visits all of it.
LEMMA OrderingVisitsAll ==
  ASSUME NEW S, IsFiniteSet(S), NEW s \in Orderings(S), NEW x \in S
  PROVE  \E i \in DOMAIN s : s[i] = x
<1> DEFINE n == Cardinality(S)
<1>1. n \in Nat
  BY FS_CardinalityType
<1>2. s \in Injection(1 .. n, S) /\ DOMAIN s = 1 .. n
  BY DEF Orderings, Injection, IsInjective
<1>3. n = Cardinality(S)
  OBVIOUS
<1> HIDE DEF n
<1>4. Cardinality(1 .. n) = n
  <2>1. Cardinality(1 .. n) = IF 1 > n THEN 0 ELSE n - 1 + 1
    BY <1>1, FS_Interval
  <2> QED
    BY <1>1, <2>1
<1>5. s \in Surjection(1 .. n, S)
  BY <1>2, <1>3, <1>4, FS_Injection
<1> QED
  BY <1>2, <1>5 DEF Surjection

\* Objects are finitely many, and so is every set of them.
LEMMA ObjectsFinite ==
  ASSUME NEW S \in SUBSET Object
  PROVE  IsFiniteSet(S)
<1>1. MaxQueues \in Nat
  OBVIOUS
<1>2. IsFiniteSet(Object)
  BY <1>1, FS_Interval DEF Object
<1> QED
  BY <1>2, FS_Subset

\* Odd numbers with the same half are the same.
LEMMA OddHalves ==
  ASSUME NEW i \in Nat, NEW j \in Nat, i % 2 = 1, j % 2 = 1,
         (i + 1) \div 2 = (j + 1) \div 2
  PROVE  i = j
OBVIOUS

\* What the round robin computes is an index.
LEMMA ModBounds ==
  ASSUME NEW a \in Nat, NEW b \in Nat, b > 0
  PROVE  a % b \in 0 .. b - 1
OBVIOUS

\* The turn that was just taken, read off where the round robin stands next.
LEMMA TurnTaken ==
  ASSUME NEW x \in Nat, NEW n \in Nat, n > 0
  PROVE  (IF (x + 1) % n = 0 THEN n ELSE (x + 1) % n) = (x % n) + 1
<1>1. PICK d \in Nat, s \in 0 .. n - 1 : x = n * d + s
  <2>1. x = n * (x \div n) + (x % n) /\ x % n \in 0 .. n - 1 /\ x \div n \in Nat
    OBVIOUS
  <2> QED
    BY <2>1
<1>2. x % n = s
  BY <1>1
<1>3. CASE s + 1 < n
  <2>1. (n * d + (s + 1)) % n = s + 1
    BY <1>1, <1>3
  <2> QED
    BY <1>1, <1>2, <1>3, <2>1
<1>4. CASE s + 1 = n
  <2>1. x + 1 = n * (d + 1)
    BY <1>1, <1>4
  <2>2. (n * (d + 1)) % n = 0
    BY <1>1
  <2> QED
    BY <1>2, <1>4, <2>1, <2>2
<1> QED
  BY <1>1, <1>3, <1>4

\* A set of naturals that is not empty has a least member.
LEMMA SmallestOfNats ==
  ASSUME NEW S \in SUBSET Nat, NEW n \in S
  PROVE  \E i \in S : \A j \in S : i <= j
<1> DEFINE R == OpToRel(<, Nat)
<1>1. IsWellFoundedOn(R, Nat)
  BY NatLessThanWellFounded
<1>2. \A i, j \in Nat : <<i, j>> \in R <=> i < j
  BY DEF OpToRel
<1> HIDE DEF R
<1>3. PICK i \in S : \A j \in S : <<j, i>> \notin R
  BY <1>1, WFMin
<1>4. \A j \in S : ~(j < i)
  BY <1>2, <1>3
<1>5. \A j \in S : i <= j
  BY <1>4
<1> QED
  BY <1>5

----------------------------------------------------------------------------
(* The deliveries that are out and the counters kept beside them *)

\* The variables hold and give write have their types.
DeliveryTypes ==
  /\ ready \in [Object -> Seq(Pending)]
  /\ unacked \in [Object -> Nat]
  /\ nextTag \in [Conn -> Nat]
  /\ held \subseteq Held /\ IsFiniteSet(held)
  /\ outstanding \in [Conn -> [Channel -> Nat]]

\* hold issues a new tag and counts the delivery on both sides.
LEMMA HandOutCounts ==
  ASSUME DeliveryTypes, TagsIssued, Accounting,
         NEW c \in Conn, NEW q \in Object, NEW ch \in Channel, NEW noAck \in BOOLEAN,
         ready[q] # <<>>, HandOut(c, q, ch, noAck)
  PROVE  DeliveryTypes' /\ TagsIssued' /\ Accounting'
<1> DEFINE new == [conn |-> c, tag |-> nextTag[c] + 1, queue |-> q,
                   msg |-> Head(ready[q]).msg, channel |-> ch]
<1>1. Head(ready[q]) \in Pending /\ Tail(ready[q]) \in Seq(Pending)
  BY DEF DeliveryTypes
<1>2. nextTag' = [nextTag EXCEPT ![c] = @ + 1] /\ nextTag[c] \in Nat
  BY DEF HandOut, DeliveryTypes
<1>3. nextTag' \in [Conn -> Nat] /\ ready' \in [Object -> Seq(Pending)]
  BY <1>1, <1>2 DEF HandOut, DeliveryTypes
<1>4. CASE noAck
  <2>1. UNCHANGED <<held, outstanding, unacked>>
    BY <1>4 DEF HandOut
  <2>2. DeliveryTypes'
    BY <1>3, <2>1 DEF DeliveryTypes
  <2>3. TagsIssued'
    BY <1>2, <2>1 DEF TagsIssued, DeliveryTypes, Held
  <2> QED
    BY <2>1, <2>2, <2>3 DEF Accounting, HeldFrom, HeldOn
<1>5. CASE ~noAck
  <2>1. /\ held' = held \cup {new}
        /\ outstanding' = [outstanding EXCEPT ![c][ch] = @ + 1]
        /\ unacked' = [unacked EXCEPT ![q] = @ + 1]
    BY <1>5 DEF HandOut
  <2>2. new \in Held
    BY <1>1, <1>2 DEF Held, Pending
  <2>3. new \notin held
    BY <1>2 DEF TagsIssued
  <2>a. new.conn = c /\ new.tag = nextTag[c] + 1 /\ new.queue = q /\ new.channel = ch
    OBVIOUS
  <2> HIDE DEF new
  <2>b. IsFiniteSet(held')
    BY <2>1, FS_AddElement DEF DeliveryTypes
  <2>4. DeliveryTypes'
    BY <1>3, <2>1, <2>2, <2>b DEF DeliveryTypes
  <2>c. \A h \in held : h.conn \in Conn /\ h.tag \in Nat
    BY DEF DeliveryTypes, Held
  <2>5. TagsIssued'
    BY <1>2, <2>1, <2>a, <2>c DEF TagsIssued, DeliveryTypes
  <2>6. ASSUME NEW r \in Object
        PROVE  unacked'[r] = Cardinality(HeldFrom(r)')
    <3>1. IsFiniteSet(HeldFrom(r)) /\ new \notin HeldFrom(r)
      BY <2>3, FS_Subset DEF DeliveryTypes, HeldFrom
    <3>2. CASE r = q
      <4>1. HeldFrom(r)' = HeldFrom(r) \cup {new}
        BY <2>1, <2>a, <3>2 DEF HeldFrom
      <4>2. Cardinality(HeldFrom(r) \cup {new}) = Cardinality(HeldFrom(r)) + 1
        BY <3>1, FS_AddElement
      <4> QED
        BY <2>1, <3>2, <4>1, <4>2 DEF Accounting, DeliveryTypes
    <3>3. CASE r # q
      <4>1. HeldFrom(r)' = HeldFrom(r)
        BY <2>1, <2>a, <3>3 DEF HeldFrom
      <4> QED
        BY <2>1, <3>3, <4>1 DEF Accounting, DeliveryTypes
    <3> QED
      BY <3>2, <3>3
  <2>7. ASSUME NEW d \in Conn, NEW k \in Channel
        PROVE  outstanding'[d][k] = Cardinality(HeldOn(d, k)')
    <3>1. IsFiniteSet(HeldOn(d, k)) /\ new \notin HeldOn(d, k)
      BY <2>3, FS_Subset DEF DeliveryTypes, HeldOn
    <3>2. CASE d = c /\ k = ch
      <4>1. HeldOn(d, k)' = HeldOn(d, k) \cup {new}
        BY <2>1, <2>a, <3>2 DEF HeldOn
      <4>2. Cardinality(HeldOn(d, k) \cup {new}) = Cardinality(HeldOn(d, k)) + 1
        BY <3>1, FS_AddElement
      <4> QED
        BY <2>1, <3>2, <4>1, <4>2 DEF Accounting, DeliveryTypes
    <3>3. CASE ~(d = c /\ k = ch)
      <4>1. HeldOn(d, k)' = HeldOn(d, k)
        BY <2>1, <2>a, <3>3 DEF HeldOn
      <4> QED
        BY <2>1, <3>3, <4>1 DEF Accounting, DeliveryTypes
    <3> QED
      BY <3>2, <3>3
  <2> QED
    BY <2>4, <2>5, <2>6, <2>7 DEF Accounting
<1> QED
  BY <1>4, <1>5

\* give takes the delivery off both counts.
LEMMA GiveBackCounts ==
  ASSUME DeliveryTypes, TagsIssued, Accounting,
         NEW h \in held, NEW requeue \in BOOLEAN, GiveBack(h, requeue),
         UNCHANGED nextTag
  PROVE  DeliveryTypes' /\ TagsIssued' /\ Accounting'
<1>1. /\ h \in Held /\ h.conn \in Conn /\ h.channel \in Channel /\ h.queue \in Object
      /\ h.msg \in 1 .. MaxMessages
  BY DEF DeliveryTypes, Held
<1>2. /\ held' = held \ {h}
      /\ outstanding' = [outstanding EXCEPT ![h.conn][h.channel] = @ - 1]
      /\ unacked' = [unacked EXCEPT ![h.queue] = @ - 1]
  BY DEF GiveBack
<1>3. ready' \in [Object -> Seq(Pending)]
  <2>1. [msg |-> h.msg, redelivered |-> TRUE] \in Pending
    BY <1>1 DEF Pending
  <2>2. <<[msg |-> h.msg, redelivered |-> TRUE]>> \o ready[h.queue] \in Seq(Pending)
    BY <1>1, <2>1 DEF DeliveryTypes
  <2> QED
    BY <1>1, <2>2 DEF GiveBack, DeliveryTypes
<1>4. IsFiniteSet(held')
  BY <1>2, FS_RemoveElement DEF DeliveryTypes
<1>5. ASSUME NEW r \in Object
      PROVE  unacked'[r] = Cardinality(HeldFrom(r)')
  <2>1. IsFiniteSet(HeldFrom(r))
    BY FS_Subset DEF DeliveryTypes, HeldFrom
  <2>2. CASE r = h.queue
    <3>1. HeldFrom(r)' = HeldFrom(r) \ {h} /\ h \in HeldFrom(r)
      BY <1>2, <2>2 DEF HeldFrom
    <3>2. Cardinality(HeldFrom(r) \ {h}) = Cardinality(HeldFrom(r)) - 1
      BY <2>1, <3>1, FS_RemoveElement
    <3> QED
      BY <1>2, <2>2, <3>1, <3>2 DEF Accounting, DeliveryTypes
  <2>3. CASE r # h.queue
    <3>1. HeldFrom(r)' = HeldFrom(r)
      BY <1>2, <2>3 DEF HeldFrom
    <3> QED
      BY <1>2, <2>3, <3>1 DEF Accounting, DeliveryTypes
  <2> QED
    BY <2>2, <2>3
<1>6. ASSUME NEW d \in Conn, NEW k \in Channel
      PROVE  outstanding'[d][k] = Cardinality(HeldOn(d, k)')
  <2>1. IsFiniteSet(HeldOn(d, k))
    BY FS_Subset DEF DeliveryTypes, HeldOn
  <2>2. CASE d = h.conn /\ k = h.channel
    <3>1. HeldOn(d, k)' = HeldOn(d, k) \ {h} /\ h \in HeldOn(d, k)
      BY <1>2, <2>2 DEF HeldOn
    <3>2. Cardinality(HeldOn(d, k) \ {h}) = Cardinality(HeldOn(d, k)) - 1
      BY <2>1, <3>1, FS_RemoveElement
    <3> QED
      BY <1>1, <1>2, <2>2, <3>1, <3>2 DEF Accounting, DeliveryTypes
  <2>3. CASE ~(d = h.conn /\ k = h.channel)
    <3>1. HeldOn(d, k)' = HeldOn(d, k)
      BY <1>2, <2>3 DEF HeldOn
    <3> QED
      BY <1>1, <1>2, <2>3, <3>1 DEF Accounting, DeliveryTypes
  <2> QED
    BY <2>2, <2>3
<1>7. unacked' \in [Object -> Nat]
  <2>1. \A r \in Object : Cardinality(HeldFrom(r)') \in Nat
    BY <1>4, FS_Subset, FS_CardinalityType DEF HeldFrom
  <2>2. DOMAIN unacked' = Object /\ unacked' = [r \in Object |-> unacked'[r]]
    BY <1>2 DEF DeliveryTypes
  <2> QED
    BY <1>5, <2>1, <2>2
<1>8. outstanding' \in [Conn -> [Channel -> Nat]]
  <2>1. \A d \in Conn, k \in Channel : Cardinality(HeldOn(d, k)') \in Nat
    BY <1>4, FS_Subset, FS_CardinalityType DEF HeldOn
  <2>2. outstanding' = [d \in Conn |-> [k \in Channel |-> outstanding'[d][k]]]
    BY <1>1, <1>2 DEF DeliveryTypes
  <2> QED
    BY <1>6, <2>1, <2>2
<1>9. TagsIssued'
  BY <1>2 DEF TagsIssued
<1> QED
  BY <1>2, <1>3, <1>4, <1>5, <1>6, <1>7, <1>8, <1>9 DEF DeliveryTypes, Accounting

----------------------------------------------------------------------------
(* The loop of the operation that has the mutex *)

LoopTypes ==
  /\ work \in Seq(Step)
  /\ ~Free => op \in [conn : Conn, requeue : BOOLEAN, batch : SUBSET Held]

OtherTypes ==
  /\ named \in [QueueName -> Object \cup {NoQueue}]
  /\ consumers \in [Object -> Seq(Consumer)]
  /\ turn \in [Object -> Nat]
  /\ created \in 0 .. MaxQueues /\ generated \in 0 .. MaxQueues
  /\ published \in 0 .. MaxMessages
  /\ exchanges \in [Exchange -> [kind : Kinds \cup {"none"}, bindings : SUBSET Binding]]
  /\ status \in [Conn -> {"new", "open", "closed"}]
  /\ prefetch \in [Conn -> [Channel -> Nat]]
  /\ subscribed \subseteq Consumer /\ IsFiniteSet(subscribed)
  /\ ctags \in [Conn -> 0 .. MaxGenerated]

\* The inductive invariant behind the counters.
Consistent ==
  DeliveryTypes /\ OtherTypes /\ LoopTypes /\ TagsIssued /\ GivesAreHeld /\ Accounting

LEMMA ConsistentImplies == Consistent => TypeOK /\ Accounting
  BY DEF Consistent, DeliveryTypes, OtherTypes, LoopTypes, TypeOK

\* Going on to the next iteration leaves the later ones as they were.
LEMMA AdvanceTail ==
  ASSUME LoopTypes, work # <<>>, Advance
  PROVE  /\ LoopTypes'
         /\ work[1] = Head(work) /\ 1 \in DOMAIN work
         /\ \A i \in DOMAIN work' : /\ i + 1 \in DOMAIN work /\ i + 1 # 1
                                    /\ work'[i] = work[i + 1]
                                    /\ op' = op
         /\ \A i, j \in DOMAIN work' : i + 1 = j + 1 => i = j
<1>1. work \in Seq(Step) /\ work' = Tail(work)
  BY DEF LoopTypes, Advance
<1>2. /\ work' \in Seq(Step) /\ DOMAIN work = 1 .. Len(work)
      /\ Len(work) \in Nat \ {0} /\ Len(work') = Len(work) - 1
      /\ DOMAIN work' = 1 .. Len(work')
  BY <1>1
<1>3. \A i \in DOMAIN work' : i + 1 \in DOMAIN work /\ i + 1 # 1 /\ work'[i] = work[i + 1]
  BY <1>1, <1>2
<1>4. ~Free' => op' = op
  BY <1>1 DEF Advance, Free
<1>5. LoopTypes'
  BY <1>2, <1>4 DEF LoopTypes, Free
<1>6. \A i \in DOMAIN work' : ~Free'
  BY <1>2 DEF Free
<1> QED
  BY <1>1, <1>2, <1>3, <1>4, <1>5, <1>6

\* An iteration that releases nothing keeps what is to be given back.
LEMMA AdvanceKeepsGives ==
  ASSUME LoopTypes, GivesAreHeld, work # <<>>, Advance, held \subseteq held'
  PROVE  LoopTypes' /\ GivesAreHeld'
<1>1. \A i \in Gives' : i + 1 \in Gives /\ work'[i] = work[i + 1] /\ op' = op
  BY AdvanceTail DEF Gives
<1>2. \A i, j \in Gives' : i + 1 = j + 1 => i = j
  BY AdvanceTail DEF Gives
<1> QED
  BY <1>1, <1>2, AdvanceTail DEF GivesAreHeld

\* A loop without a give has nothing to give back.
LEMMA NoGives ==
  ASSUME \A i \in DOMAIN work' : work'[i].do # "give"
  PROVE  GivesAreHeld'
BY DEF GivesAreHeld, Gives

\* An operation that ends where it began leaves no loop behind.
LEMMA FreeHasNoGives ==
  ASSUME Free, UNCHANGED work
  PROVE  GivesAreHeld' /\ Free'
<1>1. work' = <<>>
  BY DEF Free
<1>2. Gives' = {}
  BY <1>1 DEF Gives
<1> QED
  BY <1>1, <1>2 DEF GivesAreHeld, Free

\* What does not touch the deliveries that are out keeps their counts.
LEMMA UntouchedCounts ==
  ASSUME DeliveryTypes, TagsIssued, Accounting,
         UNCHANGED <<unacked, nextTag, held, outstanding>>,
         ready' \in [Object -> Seq(Pending)]
  PROVE  DeliveryTypes' /\ TagsIssued' /\ Accounting'
BY DEF DeliveryTypes, TagsIssued, Accounting, HeldFrom, HeldOn

----------------------------------------------------------------------------
(* One step per action: the operations *)

LEMMA OpenConnKeeps ==
  ASSUME Consistent, NEW c \in Conn, OpenConn(c)
  PROVE  Consistent'
<1>1. DeliveryTypes' /\ TagsIssued' /\ Accounting'
  BY UntouchedCounts DEF Consistent, DeliveryTypes, OpenConn, queueVars
<1>2. GivesAreHeld' /\ Free'
  BY FreeHasNoGives DEF OpenConn
<1>3. LoopTypes'
  BY <1>2 DEF Consistent, LoopTypes, OpenConn
<1>4. OtherTypes'
  BY DEF Consistent, OtherTypes, OpenConn, queueVars
<1> QED
  BY <1>1, <1>2, <1>3, <1>4 DEF Consistent

\* The loop of a close: one drop per consumer of the connection, one give per
\* delivery it holds, then the offers.
IsCloseLoop(c, D, G, F) ==
  /\ work' = D \o G \o F
  /\ \A i \in DOMAIN D : /\ D[i].do = "drop"
                        /\ \E s \in ConsumersOf(c) : s.tag = D[i].tag
  /\ \A s \in ConsumersOf(c) : \E i \in DOMAIN D : D[i].queue = s.queue /\ D[i].tag = s.tag
  /\ \A i \in DOMAIN G : /\ G[i].do = "give"
                        /\ \E h \in held : h.conn = c /\ h.tag = G[i].tag
  /\ \A h \in HeldBy(c) : \E i \in DOMAIN G : G[i].tag = h.tag
  /\ \A i, j \in DOMAIN G : G[i].tag = G[j].tag => i = j
  /\ \A i \in DOMAIN F : F[i].do = "dispatch"
  /\ \A n \in QueueName : named[n] # NoQueue =>
       \E i \in DOMAIN F : F[i] = Dispatch(named[n])

LEMMA CloseConnLoop ==
  ASSUME Consistent, NEW c \in Conn, CloseConn(c)
  PROVE  /\ \E D, G, F \in Seq(Step) : IsCloseLoop(c, D, G, F)
         /\ op' = IF work' = <<>> THEN NoOp
                  ELSE [conn |-> c, requeue |-> TRUE, batch |-> HeldBy(c)]
<1>1. IsFiniteSet(ConsumersOf(c)) /\ IsFiniteSet(HeldBy(c))
  BY FS_Subset DEF Consistent, OtherTypes, DeliveryTypes, ConsumersOf, HeldBy
<1> DEFINE Offered == {named[n] : n \in QueueName} \ {NoQueue}
<1>2. Offered \subseteq Object /\ IsFiniteSet(Offered)
  <2>1. Offered \subseteq Object
    BY DEF Consistent, OtherTypes
  <2> QED
    BY <2>1, ObjectsFinite
<1>3. PICK drops \in Orderings(ConsumersOf(c)), gives \in Orderings(HeldBy(c)),
           offers \in Orderings(Offered) :
        Enter(c, TRUE, HeldBy(c),
              [i \in DOMAIN drops |-> [do |-> "drop", queue |-> drops[i].queue,
                                       tag |-> drops[i].tag]]
                \o [i \in DOMAIN gives |-> [do |-> "give", tag |-> gives[i].tag]]
                \o [i \in DOMAIN offers |-> Dispatch(offers[i])])
  BY DEF CloseConn
<1> HIDE DEF Offered
<1> DEFINE D == [i \in DOMAIN drops |-> [do |-> "drop", queue |-> drops[i].queue,
                                         tag |-> drops[i].tag]]
           G == [i \in DOMAIN gives |-> [do |-> "give", tag |-> gives[i].tag]]
           F == [i \in DOMAIN offers |-> Dispatch(offers[i])]
<1>4. /\ D \in Seq(Step)
      /\ \A i \in DOMAIN D : /\ D[i].do = "drop"
                            /\ \E s \in ConsumersOf(c) : s.tag = D[i].tag
      /\ \A s \in ConsumersOf(c) :
           \E i \in DOMAIN D : D[i].queue = s.queue /\ D[i].tag = s.tag
  <2>1. /\ DOMAIN drops = 1 .. Len(drops) /\ Len(drops) \in Nat
        /\ \A i \in DOMAIN drops : drops[i] \in ConsumersOf(c)
    BY <1>1, OrderingIsSeq
  <2>2. \A i \in DOMAIN drops : drops[i].queue \in Object
                                /\ drops[i].tag \in Tag \cup (1 .. MaxGenerated)
    BY <2>1 DEF Consistent, OtherTypes, ConsumersOf, Consumer
  <2>3. \A i \in DOMAIN drops : [do |-> "drop", queue |-> drops[i].queue,
                                 tag |-> drops[i].tag] \in Step
    BY <2>2 DEF Step
  <2>4. \A s \in ConsumersOf(c) : \E i \in DOMAIN drops : drops[i] = s
    BY <1>1, OrderingVisitsAll
  <2> QED
    BY <2>1, <2>3, <2>4
<1>5. /\ G \in Seq(Step)
      /\ \A i \in DOMAIN G : G[i].do = "give" /\ \E h \in held : h.conn = c /\ h.tag = G[i].tag
      /\ \A h \in HeldBy(c) : \E i \in DOMAIN G : G[i].tag = h.tag
      /\ \A i, j \in DOMAIN G : G[i].tag = G[j].tag => i = j
  <2>1. /\ DOMAIN gives = 1 .. Len(gives) /\ Len(gives) \in Nat
        /\ \A i \in DOMAIN gives : gives[i] \in HeldBy(c)
        /\ \A i, j \in DOMAIN gives : gives[i] = gives[j] => i = j
    BY <1>1, OrderingIsSeq
  <2>2. \A i \in DOMAIN gives : gives[i].tag \in Nat \ {0}
                                /\ gives[i] \in held /\ gives[i].conn = c
    BY <2>1 DEF Consistent, DeliveryTypes, HeldBy, Held
  <2>3. \A i \in DOMAIN gives : [do |-> "give", tag |-> gives[i].tag] \in Step
    BY <2>2 DEF Step
  <2>4. \A i, j \in DOMAIN gives : gives[i].tag = gives[j].tag => i = j
    BY <2>1, <2>2 DEF Consistent, TagsIssued
  <2>5. \A h \in HeldBy(c) : \E i \in DOMAIN gives : gives[i] = h
    BY <1>1, OrderingVisitsAll
  <2> QED
    BY <2>1, <2>2, <2>3, <2>4, <2>5
<1>6. /\ F \in Seq(Step) /\ \A i \in DOMAIN F : F[i].do = "dispatch"
      /\ \A n \in QueueName : named[n] # NoQueue =>
           \E i \in DOMAIN F : F[i] = Dispatch(named[n])
  <2>1. /\ DOMAIN offers = 1 .. Len(offers) /\ Len(offers) \in Nat
        /\ \A i \in DOMAIN offers : offers[i] \in Object
    BY <1>2, OrderingIsSeq
  <2>2. \A i \in DOMAIN offers : Dispatch(offers[i]) \in Step
                                 /\ Dispatch(offers[i]).do = "dispatch"
    BY <2>1 DEF Step, Dispatch
  <2>3. ASSUME NEW n \in QueueName, named[n] # NoQueue
        PROVE  \E i \in DOMAIN offers : offers[i] = named[n]
    <3>1. named[n] \in Offered
      BY <2>3 DEF Offered
    <3> QED
      BY <1>2, <3>1, OrderingVisitsAll
  <2> QED
    BY <2>1, <2>2, <2>3
<1>7. work' = D \o G \o F /\ op' = IF work' = <<>> THEN NoOp
                                     ELSE [conn |-> c, requeue |-> TRUE, batch |-> HeldBy(c)]
  BY <1>3 DEF Enter
<1> HIDE DEF D, G, F
<1>8. IsCloseLoop(c, D, G, F)
  BY <1>4, <1>5, <1>6, <1>7 DEF IsCloseLoop
<1> QED
  BY <1>4, <1>5, <1>6, <1>7, <1>8

\* Where a step of that loop stands tells what it does.
LEMMA CloseLoopParts ==
  ASSUME NEW c, NEW D \in Seq(Step), NEW G \in Seq(Step), NEW F \in Seq(Step),
         IsCloseLoop(c, D, G, F)
  PROVE  /\ work' \in Seq(Step) /\ Len(D) \in Nat
         /\ \A i \in DOMAIN work' :
              \/ i \in DOMAIN D /\ work'[i] = D[i]
              \/ i - Len(D) \in DOMAIN G /\ work'[i] = G[i - Len(D)]
              \/ i > Len(D) /\ work'[i].do = "dispatch"
         /\ \A i \in DOMAIN D : i \in DOMAIN work' /\ work'[i] = D[i]
         /\ \A i \in DOMAIN G : i + Len(D) \in DOMAIN work' /\ work'[i + Len(D)] = G[i]
<1>1. work' = D \o G \o F /\ work' \in Seq(Step)
  BY DEF IsCloseLoop
<1>2. /\ Len(D) \in Nat /\ Len(G) \in Nat /\ Len(F) \in Nat
      /\ DOMAIN D = 1 .. Len(D) /\ DOMAIN G = 1 .. Len(G) /\ DOMAIN F = 1 .. Len(F)
      /\ Len(work') = Len(D) + Len(G) + Len(F) /\ DOMAIN work' = 1 .. Len(work')
  BY <1>1
<1>3. ASSUME NEW i \in DOMAIN work'
      PROVE  \/ i \in DOMAIN D /\ work'[i] = D[i]
             \/ i - Len(D) \in DOMAIN G /\ work'[i] = G[i - Len(D)]
             \/ i > Len(D) /\ work'[i].do = "dispatch"
  <2>1. i \in 1 .. Len(D) + Len(G) + Len(F)
    BY <1>2
  <2>2. CASE i <= Len(D)
    BY <1>1, <1>2, <2>1, <2>2
  <2>3. CASE i > Len(D) + Len(G)
    <3>1. work'[i] = F[i - (Len(D) + Len(G))] /\ i - (Len(D) + Len(G)) \in DOMAIN F
      BY <1>1, <1>2, <2>1, <2>3
    <3>2. i > Len(D)
      BY <1>2, <2>1, <2>3
    <3> QED
      BY <3>1, <3>2 DEF IsCloseLoop
  <2>4. CASE i > Len(D) /\ i <= Len(D) + Len(G)
    BY <1>1, <1>2, <2>1, <2>4
  <2> QED
    BY <1>2, <2>1, <2>2, <2>3, <2>4
<1>4. \A i \in DOMAIN D : i \in DOMAIN work' /\ work'[i] = D[i]
  BY <1>1, <1>2
<1>5. \A i \in DOMAIN G : i + Len(D) \in DOMAIN work' /\ work'[i + Len(D)] = G[i]
  BY <1>1, <1>2
<1> QED
  BY <1>1, <1>2, <1>3, <1>4, <1>5

\* The connection's consumers are dropped, its deliveries given back and
\* every queue offered: what is to be given back is what it holds.
LEMMA CloseConnKeeps ==
  ASSUME Consistent, NEW c \in Conn, CloseConn(c)
  PROVE  Consistent'
<1>1. DeliveryTypes' /\ TagsIssued' /\ Accounting'
  BY UntouchedCounts DEF Consistent, DeliveryTypes, CloseConn, queueVars
<1>2. OtherTypes'
  <2>1. subscribed' \subseteq subscribed
    BY DEF CloseConn
  <2>2. IsFiniteSet(subscribed')
    BY <2>1, FS_Subset DEF Consistent, OtherTypes
  <2>3. status' \in [Conn -> {"new", "open", "closed"}]
    BY DEF Consistent, OtherTypes, CloseConn
  <2> QED
    BY <2>1, <2>2, <2>3 DEF Consistent, OtherTypes, CloseConn, queueVars
<1>3. op' = IF work' = <<>> THEN NoOp
            ELSE [conn |-> c, requeue |-> TRUE, batch |-> HeldBy(c)]
  BY CloseConnLoop
<1>4. PICK D \in Seq(Step), G \in Seq(Step), F \in Seq(Step) : IsCloseLoop(c, D, G, F)
  BY CloseConnLoop
<1>5. work' \in Seq(Step) /\ Len(D) \in Nat
  BY <1>4, CloseLoopParts
<1>6. LoopTypes'
  <2>1. HeldBy(c) \in SUBSET Held
    BY DEF Consistent, DeliveryTypes, HeldBy
  <2> QED
    BY <1>3, <1>5, <2>1 DEF LoopTypes, Free
<1>7. \A i \in Gives' : /\ i - Len(D) \in DOMAIN G
                        /\ work'[i] = G[i - Len(D)]
                        /\ op'.conn = c
  <2>1. ASSUME NEW i \in Gives'
        PROVE  i - Len(D) \in DOMAIN G /\ work'[i] = G[i - Len(D)]
    <3>1. i \in DOMAIN work' /\ work'[i].do = "give"
      BY DEF Gives
    <3>2. \/ i \in DOMAIN D /\ work'[i] = D[i]
          \/ i - Len(D) \in DOMAIN G /\ work'[i] = G[i - Len(D)]
          \/ i > Len(D) /\ work'[i].do = "dispatch"
      BY <1>4, <3>1, CloseLoopParts
    <3>3. \A j \in DOMAIN D : D[j].do = "drop"
      BY <1>4 DEF IsCloseLoop
    <3>4. ~(i \in DOMAIN D /\ work'[i] = D[i])
      BY <3>1, <3>3
    <3>5. work'[i].do # "dispatch"
      BY <3>1
    <3> QED
      BY <3>2, <3>4, <3>5, Zenon
  <2>2. \A i \in Gives' : work' # <<>>
    BY DEF Gives
  <2> QED
    BY <1>3, <2>1, <2>2
<1>8. GivesAreHeld'
  <2>1. held' = held
    BY DEF CloseConn
  <2>2. \A i, j \in Gives' : i - Len(D) = j - Len(D) => i = j
    <3>1. Len(D) \in Nat /\ Gives' \subseteq Nat
      BY <1>5 DEF Gives
    <3> QED
      BY <3>1
  <2>3. /\ \A i \in DOMAIN G : \E h \in held : h.conn = c /\ h.tag = G[i].tag
        /\ \A i, j \in DOMAIN G : G[i].tag = G[j].tag => i = j
    BY <1>4 DEF IsCloseLoop
  <2> QED
    BY <1>7, <2>1, <2>2, <2>3 DEF GivesAreHeld
<1> QED
  BY <1>1, <1>2, <1>6, <1>8 DEF Consistent

\* Declaring and binding touch names and exchanges only.
LEMMA TopologyKeeps ==
  ASSUME Consistent, NEW c \in Conn,
         \/ \E e \in Exchange, kind \in Kinds : DeclareExchange(c, e, kind)
         \/ \E name \in Name \cup {Unnamed} : Declare(c, name)
         \/ \E name \in QueueName, e \in Exchange, key \in Key : Bind(c, name, e, key)
  PROVE  Consistent'
<1>1. CASE \E e \in Exchange, kind \in Kinds : DeclareExchange(c, e, kind)
  <2>1. PICK e \in Exchange, kind \in Kinds : DeclareExchange(c, e, kind)
    BY <1>1
  <2>2. DeliveryTypes' /\ TagsIssued' /\ Accounting'
    BY <2>1, UntouchedCounts
       DEF Consistent, DeliveryTypes, DeclareExchange, queueVars, connVars
  <2>3. GivesAreHeld' /\ Free'
    BY <2>1, FreeHasNoGives DEF DeclareExchange
  <2>4. LoopTypes'
    BY <2>1, <2>3 DEF Consistent, LoopTypes, DeclareExchange
  <2>5. exchanges' \in [Exchange -> [kind : Kinds \cup {"none"}, bindings : SUBSET Binding]]
    BY <2>1 DEF Consistent, OtherTypes, DeclareExchange
  <2>6. OtherTypes'
    BY <2>1, <2>5 DEF Consistent, OtherTypes, DeclareExchange, queueVars, connVars
  <2> QED
    BY <2>2, <2>3, <2>4, <2>6 DEF Consistent
<1>2. CASE \E name \in Name \cup {Unnamed} : Declare(c, name)
  <2>1. PICK name \in Name \cup {Unnamed} : Declare(c, name)
    BY <1>2
  <2>2. DeliveryTypes' /\ TagsIssued' /\ Accounting'
    BY <2>1, UntouchedCounts DEF Consistent, DeliveryTypes, Declare, connVars
  <2>3. GivesAreHeld' /\ Free'
    BY <2>1, FreeHasNoGives DEF Declare
  <2>4. LoopTypes'
    BY <2>1, <2>3 DEF Consistent, LoopTypes, Declare
  <2>5. MaxQueues \in Nat
    OBVIOUS
  <2>6. /\ created' \in 0 .. MaxQueues /\ generated' \in 0 .. MaxQueues
        /\ named' \in [QueueName -> Object \cup {NoQueue}]
    <3> DEFINE called == IF name = Unnamed THEN generated + 1 ELSE name
    <3>1. /\ name = Unnamed => generated < MaxQueues
          /\ generated' = IF name = Unnamed THEN generated + 1 ELSE generated
          /\ IF named[called] = NoQueue
             THEN /\ created < MaxQueues
                  /\ created' = created + 1
                  /\ named' = [named EXCEPT ![called] = created + 1]
             ELSE UNCHANGED <<created, named>>
      BY <2>1 DEF Declare
    <3>2. /\ created \in 0 .. MaxQueues /\ generated \in 0 .. MaxQueues
          /\ named \in [QueueName -> Object \cup {NoQueue}]
      BY DEF Consistent, OtherTypes
    <3> HIDE DEF called
    <3>3. created' \in 0 .. MaxQueues
      BY <2>5, <3>1, <3>2
    <3>4. generated' \in 0 .. MaxQueues
      BY <2>5, <3>1, <3>2
    <3>5. created < MaxQueues => created + 1 \in Object
      BY <2>5, <3>2 DEF Object
    <3>6. named' \in [QueueName -> Object \cup {NoQueue}]
      BY <3>1, <3>2, <3>5
    <3> QED
      BY <3>3, <3>4, <3>6
  <2>7. OtherTypes'
    BY <2>1, <2>6 DEF Consistent, OtherTypes, Declare, connVars
  <2> QED
    BY <2>2, <2>3, <2>4, <2>7 DEF Consistent
<1>3. CASE \E name \in QueueName, e \in Exchange, key \in Key : Bind(c, name, e, key)
  <2>1. PICK name \in QueueName, e \in Exchange, key \in Key : Bind(c, name, e, key)
    BY <1>3
  <2>2. DeliveryTypes' /\ TagsIssued' /\ Accounting'
    BY <2>1, UntouchedCounts DEF Consistent, DeliveryTypes, Bind, queueVars, connVars
  <2>3. GivesAreHeld' /\ Free'
    BY <2>1, FreeHasNoGives DEF Bind
  <2>4. LoopTypes'
    BY <2>1, <2>3 DEF Consistent, LoopTypes, Bind
  <2>5. PICK place \in 1 .. MaxBindings :
          exchanges' = [exchanges EXCEPT ![e].bindings =
            @ \cup {[target |-> named[name], key |-> key, place |-> place]}]
    BY <2>1 DEF Bind
  <2>6. exchanges' \in [Exchange -> [kind : Kinds \cup {"none"}, bindings : SUBSET Binding]]
    <3> DEFINE new == [target |-> named[name], key |-> key, place |-> place]
    <3>1. new \in Binding
      BY <2>1 DEF Consistent, OtherTypes, Bind, Binding
    <3> HIDE DEF new
    <3>2. exchanges[e] \in [kind : Kinds \cup {"none"}, bindings : SUBSET Binding]
      BY DEF Consistent, OtherTypes
    <3>3. [exchanges[e] EXCEPT !.bindings = @ \cup {new}]
            \in [kind : Kinds \cup {"none"}, bindings : SUBSET Binding]
      BY <3>1, <3>2
    <3>4. exchanges' = [exchanges EXCEPT ![e] =
                          [exchanges[e] EXCEPT !.bindings = @ \cup {new}]]
      BY <2>5 DEF new
    <3> QED
      BY <3>3, <3>4 DEF Consistent, OtherTypes
  <2>7. OtherTypes'
    BY <2>1, <2>6 DEF Consistent, OtherTypes, Bind, queueVars, connVars
  <2> QED
    BY <2>2, <2>3, <2>4, <2>7 DEF Consistent
<1> QED
  BY <1>1, <1>2, <1>3

\* A publication starts a loop of appends and offers.
LEMMA PublishToKeeps ==
  ASSUME Consistent, NEW c \in Conn, NEW order \in Seq(Object),
         published < MaxMessages, PublishTo(c, order)
  PROVE  /\ Consistent'
         /\ published' = published + 1 /\ published' \in 1 .. MaxMessages
         /\ UNCHANGED <<queueVars, connVars>>
         /\ \A i \in DOMAIN work' : work'[i].do # "dispatch" =>
              /\ (i + 1) \div 2 \in 1 .. Len(order)
              /\ i % 2 = 1
              /\ work'[i] = [do |-> "append", queue |-> order[(i + 1) \div 2],
                             msg |-> published + 1]
<1> DEFINE W == [i \in 1 .. 2 * Len(order) |->
                   IF i % 2 = 1
                   THEN [do |-> "append", queue |-> order[(i + 1) \div 2],
                         msg |-> published + 1]
                   ELSE Dispatch(order[i \div 2])]
<1>1. MaxMessages \in Nat /\ published \in 0 .. MaxMessages
  BY DEF Consistent, OtherTypes
<1>2. /\ published' = published + 1 /\ published' \in 1 .. MaxMessages
      /\ published + 1 \in 1 .. MaxMessages
      /\ UNCHANGED <<queueVars, exchanges, connVars>>
  BY <1>1 DEF PublishTo
<1>3. work' = W /\ op' = IF W = <<>> THEN NoOp
                         ELSE [conn |-> c, requeue |-> FALSE, batch |-> {}]
  BY DEF PublishTo, Enter
<1>4. DeliveryTypes' /\ TagsIssued' /\ Accounting'
  BY <1>2, UntouchedCounts DEF Consistent, DeliveryTypes, queueVars, connVars
<1>5. OtherTypes'
  BY <1>1, <1>2 DEF Consistent, OtherTypes, queueVars, connVars
<1>6. ASSUME NEW i \in 1 .. 2 * Len(order)
      PROVE  IF i % 2 = 1
             THEN (i + 1) \div 2 \in 1 .. Len(order)
             ELSE i \div 2 \in 1 .. Len(order)
  <2>1. Len(order) \in Nat
    OBVIOUS
  <2> QED
    BY <2>1
<1>7. \A i \in 1 .. 2 * Len(order) :
        /\ W[i] \in Step
        /\ W[i].do # "give"
        /\ W[i].do # "dispatch" => i % 2 = 1
        /\ i % 2 = 1 => W[i] = [do |-> "append", queue |-> order[(i + 1) \div 2],
                                msg |-> published + 1]
  BY <1>2, <1>6 DEF Step, Dispatch
<1>8. W \in Seq(Step) /\ DOMAIN W = 1 .. 2 * Len(order)
  <2>1. 2 * Len(order) \in Nat
    OBVIOUS
  <2> QED
    BY <1>7, <2>1
<1> HIDE DEF W
<1>9. LoopTypes'
  BY <1>3, <1>8 DEF LoopTypes, Free
<1>10. GivesAreHeld'
  BY <1>3, <1>7, <1>8, NoGives
<1> QED
  BY <1>2, <1>3, <1>4, <1>5, <1>6, <1>7, <1>8, <1>9, <1>10 DEF Consistent

\* A publication visits queues, each at most once.
LEMMA PublishVisits ==
  ASSUME Consistent, NEW c \in Conn,
         \/ \E name \in QueueName : PublishDefault(c, name)
         \/ \E e \in Exchange, key \in Key : Publish(c, e, key)
  PROVE  /\ Free /\ published < MaxMessages
         /\ \E order \in Seq(Object) :
              /\ \A i, j \in 1 .. Len(order) : order[i] = order[j] => i = j
              /\ PublishTo(c, order)
<1>1. ASSUME NEW name \in QueueName, PublishDefault(c, name)
      PROVE  /\ Free /\ published < MaxMessages
             /\ \E order \in Seq(Object) :
                  /\ \A i, j \in 1 .. Len(order) : order[i] = order[j] => i = j
                  /\ PublishTo(c, order)
  <2> DEFINE order == IF named[name] = NoQueue THEN <<>> ELSE <<named[name]>>
  <2>1. Free /\ published < MaxMessages /\ PublishTo(c, order)
    BY <1>1 DEF PublishDefault
  <2>2. /\ order \in Seq(Object)
        /\ \A i, j \in 1 .. Len(order) : order[i] = order[j] => i = j
    BY DEF Consistent, OtherTypes
  <2> QED
    BY <2>1, <2>2
<1>2. ASSUME NEW e \in Exchange, NEW key \in Key, Publish(c, e, key)
      PROVE  /\ Free /\ published < MaxMessages
             /\ \E order \in Seq(Object) :
                  /\ \A i, j \in 1 .. Len(order) : order[i] = order[j] => i = j
                  /\ PublishTo(c, order)
  <2>1. Free /\ published < MaxMessages
    BY <1>2 DEF Publish
  <2>2. PICK order \in Orderings(Destinations(e, key)) : PublishTo(c, order)
    BY <1>2 DEF Publish
  <2>3. Destinations(e, key) \in SUBSET Object
    BY DEF Destinations
  <2>4. /\ order \in Seq(Destinations(e, key)) /\ DOMAIN order = 1 .. Len(order)
        /\ \A i \in DOMAIN order : order[i] \in Destinations(e, key)
        /\ \A i, j \in DOMAIN order : order[i] = order[j] => i = j
    BY <2>3, ObjectsFinite, OrderingIsSeq
  <2>5. order \in Seq(Object)
    BY <2>3, <2>4
  <2> QED
    BY <2>1, <2>2, <2>4, <2>5
<1> QED
  BY <1>1, <1>2

\* get hands out without a loop.
LEMMA GetKeeps ==
  ASSUME Consistent, NEW c \in Conn, NEW name \in QueueName, NEW ch \in Channel,
         NEW noAck \in BOOLEAN, Get(c, name, ch, noAck)
  PROVE  Consistent'
<1>1. /\ named[name] \in Object /\ ready[named[name]] # <<>>
      /\ HandOut(c, named[name], ch, noAck)
  BY DEF Consistent, OtherTypes, Get
<1>2. DeliveryTypes' /\ TagsIssued' /\ Accounting'
  BY <1>1, HandOutCounts DEF Consistent
<1>3. GivesAreHeld' /\ Free'
  BY FreeHasNoGives DEF Get
<1>4. LoopTypes'
  BY <1>3 DEF Consistent, LoopTypes, Get
<1>5. OtherTypes'
  BY DEF Consistent, OtherTypes, Get
<1> QED
  BY <1>2, <1>3, <1>4, <1>5 DEF Consistent

\* consume adds the consumer on both sides and offers its queue.
LEMMA ConsumeKeeps ==
  ASSUME Consistent, NEW c \in Conn, NEW name \in QueueName, NEW requested \in TagsOf[c],
         NEW ch \in Channel, NEW noAck \in BOOLEAN,
         Consume(c, name, requested, ch, noAck)
  PROVE  Consistent' /\ UNCHANGED <<ready, held, published>> /\ Free /\ Appends' = {}
<1> DEFINE tag == IF requested = Unnamed THEN ctags[c] + 1 ELSE requested
           taking == [tag |-> tag, queue |-> named[name], owner |-> c,
                      channel |-> ch, noAck |-> noAck]
<1>1. /\ named[name] \in Object
      /\ requested = Unnamed => ctags[c] < MaxGenerated
      /\ UNCHANGED <<named, ready, unacked, turn, created, generated, exchanges,
                     published, status, nextTag, held, outstanding, prefetch>>
  BY DEF Consistent, OtherTypes, Consume
<1>2. MaxGenerated \in Nat /\ ctags[c] \in 0 .. MaxGenerated
  BY DEF Consistent, OtherTypes
<1>3. tag \in Tag \cup (1 .. MaxGenerated)
  BY <1>1, <1>2
<1>4. taking \in Consumer
  BY <1>1, <1>3 DEF Consumer
<1>5. /\ ctags' = IF requested = Unnamed THEN [ctags EXCEPT ![c] = @ + 1] ELSE ctags
      /\ \/ UNCHANGED <<subscribed, consumers, work, op>>
         \/ /\ subscribed' = subscribed \cup {taking}
            /\ consumers' = [consumers EXCEPT ![named[name]] = Append(@, taking)]
            /\ Enter(c, FALSE, {}, <<Dispatch(named[name])>>)
  BY DEF Consume
<1>6. ctags' \in [Conn -> 0 .. MaxGenerated]
  BY <1>1, <1>2, <1>5 DEF Consistent, OtherTypes
<1>7. DeliveryTypes' /\ TagsIssued' /\ Accounting'
  BY <1>1, UntouchedCounts DEF Consistent, DeliveryTypes
<1> HIDE DEF taking
<1>8. CASE UNCHANGED <<subscribed, consumers, work, op>>
  <2>1. GivesAreHeld' /\ Free'
    BY <1>8, FreeHasNoGives DEF Consume
  <2>2. LoopTypes'
    BY <1>8, <2>1 DEF Consistent, LoopTypes
  <2>3. OtherTypes'
    BY <1>1, <1>6, <1>8 DEF Consistent, OtherTypes
  <2>4. Appends' = {}
    BY <2>1 DEF Appends, Free
  <2> QED
    BY <1>1, <1>7, <2>1, <2>2, <2>3, <2>4 DEF Consistent, Consume
<1>9. CASE /\ subscribed' = subscribed \cup {taking}
           /\ consumers' = [consumers EXCEPT ![named[name]] = Append(@, taking)]
           /\ Enter(c, FALSE, {}, <<Dispatch(named[name])>>)
  <2>1. subscribed' \subseteq Consumer /\ IsFiniteSet(subscribed')
    BY <1>4, <1>9, FS_AddElement DEF Consistent, OtherTypes
  <2>2. consumers' \in [Object -> Seq(Consumer)]
    <3>1. Append(consumers[named[name]], taking) \in Seq(Consumer)
      BY <1>1, <1>4 DEF Consistent, OtherTypes
    <3> QED
      BY <1>1, <1>9, <3>1 DEF Consistent, OtherTypes
  <2>3. OtherTypes'
    BY <1>1, <1>6, <2>1, <2>2 DEF Consistent, OtherTypes
  <2>4. Dispatch(named[name]) \in Step /\ Dispatch(named[name]).do = "dispatch"
    BY <1>1 DEF Dispatch, Step
  <2>5. /\ work' = <<Dispatch(named[name])>> /\ work' \in Seq(Step)
        /\ op' = [conn |-> c, requeue |-> FALSE, batch |-> {}]
    BY <1>9, <2>4 DEF Enter
  <2>6. LoopTypes'
    BY <2>5 DEF LoopTypes
  <2>7. \A i \in DOMAIN work' : work'[i].do = "dispatch"
    BY <2>4, <2>5
  <2>8. GivesAreHeld' /\ Appends' = {}
    BY <2>7, NoGives DEF Appends
  <2> QED
    BY <1>1, <1>7, <2>3, <2>6, <2>8 DEF Consistent, Consume
<1> QED
  BY <1>5, <1>8, <1>9

\* dropConsumer leaves a list of consumers and a turn.
LEMMA DropConsumerTypes ==
  ASSUME OtherTypes, NEW q \in Object, NEW tag, DropConsumer(q, tag)
  PROVE  consumers' \in [Object -> Seq(Consumer)] /\ turn' \in [Object -> Nat]
<1> DEFINE carrying == {i \in DOMAIN consumers[q] : consumers[q][i].tag = tag}
           first == CHOOSE i \in carrying : \A j \in carrying : i <= j
<1>1. consumers[q] \in Seq(Consumer)
  BY DEF OtherTypes
<1>2. \/ consumers' = consumers /\ turn' = turn
      \/ /\ carrying # {}
         /\ consumers' = [consumers EXCEPT ![q] = SubSeq(@, 1, first - 1)
                                                    \o SubSeq(@, first + 1, Len(@))]
         /\ turn' = [turn EXCEPT ![q] = 0]
  BY DEF DropConsumer
<1>3. carrying \in SUBSET (1 .. Len(consumers[q]))
  BY <1>1
<1>4. ASSUME NEW n \in carrying
      PROVE  \E i \in carrying : \A j \in carrying : i <= j
  <2>1. carrying \in SUBSET Nat
    BY <1>1, <1>3
  <2> HIDE DEF carrying
  <2> QED
    BY <1>4, <2>1, SmallestOfNats
<1>5. carrying # {} => first \in 1 .. Len(consumers[q])
  BY <1>3, <1>4
<1> HIDE DEF first, carrying
<1>6. ASSUME NEW k \in 1 .. Len(consumers[q])
      PROVE  SubSeq(consumers[q], 1, k - 1)
               \o SubSeq(consumers[q], k + 1, Len(consumers[q])) \in Seq(Consumer)
  <2>1. SubSeq(consumers[q], 1, k - 1) \in Seq(Consumer)
    BY <1>1, <1>6
  <2>2. SubSeq(consumers[q], k + 1, Len(consumers[q])) \in Seq(Consumer)
    BY <1>1, <1>6
  <2> QED
    BY <2>1, <2>2
<1>7. CASE carrying # {}
  <2>1. SubSeq(consumers[q], 1, first - 1)
          \o SubSeq(consumers[q], first + 1, Len(consumers[q])) \in Seq(Consumer)
    BY <1>5, <1>6, <1>7
  <2>2. consumers' \in [Object -> Seq(Consumer)]
    BY <1>2, <2>1 DEF OtherTypes
  <2>3. turn' = turn \/ turn' = [turn EXCEPT ![q] = 0]
    BY <1>2
  <2>4. turn \in [Object -> Nat]
    BY DEF OtherTypes
  <2>5. turn' \in [Object -> Nat]
    BY <2>3, <2>4
  <2> QED
    BY <2>2, <2>5
<1>8. CASE carrying = {}
  BY <1>2, <1>8 DEF OtherTypes
<1> QED
  BY <1>7, <1>8

LEMMA CancelKeeps ==
  ASSUME Consistent, NEW c \in Conn, NEW taking \in ConsumersOf(c), Cancel(c, taking)
  PROVE  Consistent'
<1>1. DeliveryTypes' /\ TagsIssued' /\ Accounting'
  BY UntouchedCounts DEF Consistent, DeliveryTypes, Cancel
<1>2. GivesAreHeld' /\ Free'
  BY FreeHasNoGives DEF Cancel
<1>3. LoopTypes'
  BY <1>2 DEF Consistent, LoopTypes, Cancel
<1>4. consumers' \in [Object -> Seq(Consumer)] /\ turn' \in [Object -> Nat]
  <2>1. taking.queue \in Object
    BY DEF Consistent, OtherTypes, ConsumersOf, Consumer
  <2> QED
    BY <2>1, DropConsumerTypes DEF Consistent, Cancel
<1>5. subscribed' \subseteq Consumer /\ IsFiniteSet(subscribed')
  BY FS_RemoveElement DEF Consistent, OtherTypes, Cancel
<1>6. OtherTypes'
  BY <1>4, <1>5 DEF Consistent, OtherTypes, Cancel
<1> QED
  BY <1>1, <1>2, <1>3, <1>6 DEF Consistent

\* qos starts a loop of offers.
LEMMA QosKeeps ==
  ASSUME Consistent, NEW c \in Conn, NEW ch \in Channel, NEW limit \in Prefetch,
         Qos(c, ch, limit)
  PROVE  Consistent' /\ UNCHANGED <<ready, held, published>> /\ Appends' = {}
<1>1. DeliveryTypes' /\ TagsIssued' /\ Accounting'
  BY UntouchedCounts DEF Consistent, DeliveryTypes, Qos, queueVars
<1>2. OtherTypes'
  <2>1. limit \in Nat
    OBVIOUS
  <2>2. prefetch' \in [Conn -> [Channel -> Nat]]
    BY <2>1 DEF Consistent, OtherTypes, Qos
  <2> QED
    BY <2>2 DEF Consistent, OtherTypes, Qos, queueVars
<1> DEFINE Offered == {s.queue : s \in ConsumersOf(c)}
<1>3. Offered \in SUBSET Object
  BY DEF Consistent, OtherTypes, ConsumersOf, Consumer
<1>4. PICK offers \in Orderings(Offered) :
        Enter(c, FALSE, {}, [i \in DOMAIN offers |-> Dispatch(offers[i])])
  BY DEF Qos
<1> HIDE DEF Offered
<1>5. /\ DOMAIN offers = 1 .. Len(offers) /\ Len(offers) \in Nat
      /\ \A i \in DOMAIN offers : offers[i] \in Object
  BY <1>3, ObjectsFinite, OrderingIsSeq
<1>6. \A i \in DOMAIN offers : Dispatch(offers[i]) \in Step
                               /\ Dispatch(offers[i]).do = "dispatch"
  BY <1>5 DEF Step, Dispatch
<1>7. /\ work' = [i \in DOMAIN offers |-> Dispatch(offers[i])]
      /\ ~Free' => op' = [conn |-> c, requeue |-> FALSE, batch |-> {}]
  BY <1>4 DEF Enter, Free
<1>8. work' \in Seq(Step) /\ \A i \in DOMAIN work' : work'[i].do = "dispatch"
  BY <1>5, <1>6, <1>7
<1>9. LoopTypes'
  <2>1. [conn |-> c, requeue |-> FALSE, batch |-> {}]
          \in [conn : Conn, requeue : BOOLEAN, batch : SUBSET Held]
    OBVIOUS
  <2> QED
    BY <1>7, <1>8, <2>1 DEF LoopTypes
<1>10. GivesAreHeld' /\ Appends' = {}
  BY <1>8, NoGives DEF Appends
<1> QED
  BY <1>1, <1>2, <1>9, <1>10 DEF Consistent, Qos, queueVars

\* settle starts a loop of gives and offers; the deliveries it names are out.
LEMMA SettleKeeps ==
  ASSUME Consistent, NEW c \in Conn, NEW tag, NEW ch, NEW multiple, NEW requeue \in BOOLEAN,
         Settle(c, tag, ch, multiple, requeue)
  PROVE  Consistent' /\ UNCHANGED <<ready, held, published>> /\ Free /\ Appends' = {}
<1> DEFINE chosen == Selected(c, tag, ch, multiple)
<1>1. /\ Free /\ UNCHANGED <<queueVars, exchanges, published, connVars>>
  BY DEF Settle
<1>2. chosen \subseteq HeldBy(c) /\ chosen \in SUBSET held
  BY DEF Selected, HeldBy
<1>3. chosen \in SUBSET Held /\ IsFiniteSet(chosen)
  BY <1>2, FS_Subset DEF Consistent, DeliveryTypes
<1>4. PICK order \in Orderings(chosen) :
        Enter(c, requeue, chosen,
              [i \in 1 .. 2 * Len(order) |->
                 IF i % 2 = 1
                 THEN [do |-> "give", tag |-> order[(i + 1) \div 2].tag]
                 ELSE Dispatch(order[i \div 2].queue)])
  BY DEF Settle
<1> HIDE DEF chosen
<1>5. /\ Len(order) \in Nat /\ DOMAIN order = 1 .. Len(order)
      /\ \A i \in 1 .. Len(order) : order[i] \in chosen
      /\ \A i, j \in 1 .. Len(order) : order[i] = order[j] => i = j
  BY <1>3, OrderingIsSeq
<1>6. /\ \A i \in 1 .. Len(order) : /\ order[i] \in held /\ order[i].conn = c
                                    /\ order[i].queue \in Object
                                    /\ order[i].tag \in Nat \ {0}
      /\ \A i, j \in 1 .. Len(order) : order[i].tag = order[j].tag => i = j
  <2>1. \A i \in 1 .. Len(order) : /\ order[i] \in held /\ order[i].conn = c
                                   /\ order[i].queue \in Object
                                   /\ order[i].tag \in Nat \ {0}
    BY <1>2, <1>3, <1>5 DEF HeldBy, Held
  <2> QED
    BY <1>5, <2>1 DEF Consistent, TagsIssued
<1> DEFINE W == [i \in 1 .. 2 * Len(order) |->
                   IF i % 2 = 1
                   THEN [do |-> "give", tag |-> order[(i + 1) \div 2].tag]
                   ELSE Dispatch(order[i \div 2].queue)]
<1>7. /\ work' = W
      /\ ~Free' => op' = [conn |-> c, requeue |-> requeue, batch |-> chosen]
  BY <1>4 DEF Enter, Free
<1>8. ASSUME NEW i \in 1 .. 2 * Len(order)
      PROVE  IF i % 2 = 1
             THEN (i + 1) \div 2 \in 1 .. Len(order)
             ELSE i \div 2 \in 1 .. Len(order)
  BY <1>5
<1>9. \A i \in 1 .. 2 * Len(order) :
        /\ W[i] \in Step /\ W[i].do # "append"
        /\ W[i].do = "give" => i % 2 = 1 /\ W[i].tag = order[(i + 1) \div 2].tag
  BY <1>6, <1>8 DEF Step, Dispatch
<1>10. W \in Seq(Step) /\ DOMAIN W = 1 .. 2 * Len(order)
  <2>1. 2 * Len(order) \in Nat
    BY <1>5
  <2> QED
    BY <1>9, <2>1
<1> HIDE DEF W
<1>11. LoopTypes'
  <2>1. [conn |-> c, requeue |-> requeue, batch |-> chosen]
          \in [conn : Conn, requeue : BOOLEAN, batch : SUBSET Held]
    BY <1>3
  <2> QED
    BY <1>7, <1>10, <2>1 DEF LoopTypes
<1>12. Appends' = {}
  BY <1>7, <1>9, <1>10 DEF Appends
<1>13. GivesAreHeld'
  <2>1. held' = held
    BY <1>1 DEF connVars
  <2>2. ASSUME NEW i \in Gives'
        PROVE  /\ i \in 1 .. 2 * Len(order) /\ i % 2 = 1 /\ (i + 1) \div 2 \in 1 .. Len(order)
               /\ work'[i].tag = order[(i + 1) \div 2].tag
               /\ op'.conn = c
    <3>1. i \in DOMAIN work' /\ work'[i].do = "give"
      BY DEF Gives
    <3>2. ~Free'
      BY <3>1 DEF Free
    <3>3. i \in 1 .. 2 * Len(order) /\ W[i].do = "give"
      BY <1>7, <1>10, <3>1
    <3> QED
      BY <1>7, <1>8, <1>9, <3>2, <3>3
  <2>3. \A i \in Gives' : \E h \in held' : h.conn = op'.conn /\ h.tag = work'[i].tag
    BY <1>6, <2>1, <2>2
  <2>4. ASSUME NEW i \in Gives', NEW j \in Gives', work'[i].tag = work'[j].tag
        PROVE  i = j
    <3> DEFINE Half(k) == (k + 1) \div 2
    <3>1. /\ i \in 1 .. 2 * Len(order) /\ i % 2 = 1 /\ Half(i) \in 1 .. Len(order)
          /\ work'[i].tag = order[Half(i)].tag
      BY <2>2
    <3>2. /\ j \in 1 .. 2 * Len(order) /\ j % 2 = 1 /\ Half(j) \in 1 .. Len(order)
          /\ work'[j].tag = order[Half(j)].tag
      BY <2>2
    <3> HIDE DEF Half
    <3>3. Half(i) = Half(j)
      BY <1>6, <2>4, <3>1, <3>2
    <3>4. i \in Nat /\ j \in Nat
      BY <1>5, <3>1, <3>2
    <3>5. (i + 1) \div 2 = (j + 1) \div 2
      BY <3>3 DEF Half
    <3> QED
      BY <3>1, <3>2, <3>4, <3>5, OddHalves
  <2> QED
    BY <2>3, <2>4 DEF GivesAreHeld
<1>14. DeliveryTypes' /\ TagsIssued' /\ Accounting'
  BY <1>1, UntouchedCounts DEF Consistent, DeliveryTypes, queueVars, connVars
<1>15. OtherTypes'
  BY <1>1 DEF Consistent, OtherTypes, queueVars, connVars
<1> QED
  BY <1>1, <1>11, <1>12, <1>13, <1>14, <1>15 DEF Consistent, queueVars, connVars

LEMMA PurgeKeeps ==
  ASSUME Consistent, NEW c \in Conn, NEW name \in QueueName, Purge(c, name)
  PROVE  Consistent'
<1>1. named[name] \in Object /\ ready' \in [Object -> Seq(Pending)]
  BY DEF Consistent, OtherTypes, DeliveryTypes, Purge
<1>2. DeliveryTypes' /\ TagsIssued' /\ Accounting'
  BY <1>1, UntouchedCounts DEF Consistent, Purge, connVars
<1>3. GivesAreHeld' /\ Free'
  BY FreeHasNoGives DEF Purge
<1>4. LoopTypes'
  BY <1>3 DEF Consistent, LoopTypes, Purge
<1>5. OtherTypes'
  BY DEF Consistent, OtherTypes, Purge, connVars
<1> QED
  BY <1>2, <1>3, <1>4, <1>5 DEF Consistent

LEMMA DeleteKeeps ==
  ASSUME Consistent, NEW c \in Conn, NEW name \in QueueName, Delete(c, name)
  PROVE  Consistent'
<1> DEFINE target == named[name]
<1>1. /\ target \in Object
      /\ named' = [named EXCEPT ![name] = NoQueue]
      /\ exchanges' = [e \in Exchange |->
           [exchanges[e] EXCEPT !.bindings = {b \in @ : b.target # target}]]
      /\ subscribed' \subseteq subscribed
      /\ ready' = [ready EXCEPT ![target] = <<>>]
      /\ consumers' = [consumers EXCEPT ![target] = <<>>]
  BY DEF Consistent, OtherTypes, Delete
<1>2. ready' \in [Object -> Seq(Pending)]
  BY <1>1 DEF Consistent, DeliveryTypes
<1>3. DeliveryTypes' /\ TagsIssued' /\ Accounting'
  BY <1>2, UntouchedCounts DEF Consistent, Delete
<1>4. GivesAreHeld' /\ Free'
  BY FreeHasNoGives DEF Delete
<1>5. LoopTypes'
  BY <1>4 DEF Consistent, LoopTypes, Delete
<1>6. exchanges' \in [Exchange -> [kind : Kinds \cup {"none"}, bindings : SUBSET Binding]]
  <2>1. ASSUME NEW e \in Exchange
        PROVE  [exchanges[e] EXCEPT !.bindings = {b \in @ : b.target # target}]
                 \in [kind : Kinds \cup {"none"}, bindings : SUBSET Binding]
    <3>1. exchanges[e] \in [kind : Kinds \cup {"none"}, bindings : SUBSET Binding]
      BY DEF Consistent, OtherTypes
    <3>2. {b \in exchanges[e].bindings : b.target # target} \in SUBSET Binding
      BY <3>1
    <3> QED
      BY <3>1, <3>2
  <2> QED
    BY <1>1, <2>1
<1>7. IsFiniteSet(subscribed')
  BY <1>1, FS_Subset DEF Consistent, OtherTypes
<1>8. /\ named' \in [QueueName -> Object \cup {NoQueue}]
      /\ consumers' \in [Object -> Seq(Consumer)]
  BY <1>1 DEF Consistent, OtherTypes
<1>9. OtherTypes'
  BY <1>1, <1>6, <1>7, <1>8 DEF Consistent, OtherTypes, Delete
<1> QED
  BY <1>3, <1>4, <1>5, <1>9 DEF Consistent

----------------------------------------------------------------------------
(* One step per action: the iterations of the loop *)

LEMMA AppendStepKeeps ==
  ASSUME Consistent, AppendStep
  PROVE  Consistent'
<1>1. work # <<>> /\ Head(work) \in Step /\ Head(work).do = "append"
  BY DEF Consistent, LoopTypes, AppendStep, Doing
<1>2. Head(work).queue \in Object /\ Head(work).msg \in 1 .. MaxMessages
  BY <1>1 DEF Step
<1>3. ready' \in [Object -> Seq(Pending)]
  <2>1. [msg |-> Head(work).msg, redelivered |-> FALSE] \in Pending
    BY <1>2 DEF Pending
  <2>2. Append(ready[Head(work).queue], [msg |-> Head(work).msg, redelivered |-> FALSE])
          \in Seq(Pending)
    BY <1>2, <2>1 DEF Consistent, DeliveryTypes
  <2> QED
    BY <1>2, <2>2 DEF Consistent, DeliveryTypes, AppendStep
<1>4. DeliveryTypes' /\ TagsIssued' /\ Accounting'
  BY <1>3, UntouchedCounts DEF Consistent, AppendStep, connVars
<1>5. LoopTypes' /\ GivesAreHeld'
  BY <1>1, AdvanceKeepsGives DEF Consistent, AppendStep, connVars
<1>6. OtherTypes'
  BY DEF Consistent, OtherTypes, AppendStep, connVars
<1> QED
  BY <1>4, <1>5, <1>6 DEF Consistent

LEMMA DropStepKeeps ==
  ASSUME Consistent, DropStep
  PROVE  Consistent'
<1>1. work # <<>> /\ Head(work) \in Step /\ Head(work).do = "drop"
  BY DEF Consistent, LoopTypes, DropStep, Doing
<1>2. Head(work).queue \in Object
  BY <1>1 DEF Step
<1>3. DeliveryTypes' /\ TagsIssued' /\ Accounting'
  BY UntouchedCounts DEF Consistent, DeliveryTypes, DropStep, connVars
<1>4. LoopTypes' /\ GivesAreHeld'
  BY <1>1, AdvanceKeepsGives DEF Consistent, DropStep, connVars
<1>5. consumers' \in [Object -> Seq(Consumer)] /\ turn' \in [Object -> Nat]
  BY <1>2, DropConsumerTypes DEF Consistent, DropStep
<1>6. OtherTypes'
  BY <1>5 DEF Consistent, OtherTypes, DropStep, connVars
<1> QED
  BY <1>3, <1>4, <1>6 DEF Consistent

\* The delivery that is given back is one that is out, and no later iteration
\* gives it back again.
LEMMA GiveStepKeeps ==
  ASSUME Consistent, GiveStep
  PROVE  /\ Consistent'
         /\ \E h \in held : h = HeldAs(op.conn, Head(work).tag)
<1> DEFINE h == HeldAs(op.conn, Head(work).tag)
<1>1. work # <<>> /\ Head(work).do = "give" /\ 1 \in Gives /\ work[1] = Head(work)
  BY DEF Consistent, LoopTypes, GiveStep, Doing, Gives
<1>2. \E g \in HeldBy(op.conn) : g.tag = Head(work).tag
  BY <1>1 DEF Consistent, GivesAreHeld, HeldBy
<1>3. h \in held /\ h.conn = op.conn /\ h.tag = Head(work).tag
  BY <1>2 DEF HeldAs, HeldBy
<1>4. op.requeue \in BOOLEAN
  BY <1>1 DEF Consistent, LoopTypes, Free
<1>5. GiveBack(h, op.requeue) /\ UNCHANGED nextTag
  BY DEF GiveStep
<1> HIDE DEF h
<1>6. DeliveryTypes' /\ TagsIssued' /\ Accounting'
  BY <1>3, <1>4, <1>5, GiveBackCounts DEF Consistent
<1>7. LoopTypes'
  BY <1>1, AdvanceTail DEF Consistent, GiveStep
<1>8. \A i \in Gives' : /\ i + 1 \in Gives /\ i + 1 # 1
                        /\ work'[i] = work[i + 1] /\ op' = op
  BY <1>1, AdvanceTail DEF Consistent, GiveStep, Gives
<1>9. \A i, j \in Gives' : i + 1 = j + 1 => i = j
  BY <1>1, AdvanceTail DEF Consistent, GiveStep, Gives
<1>10. GivesAreHeld'
  <2>1. held' = held \ {h}
    BY <1>5 DEF GiveBack
  <2>2. ASSUME NEW i \in Gives'
        PROVE  \E g \in held' : g.conn = op'.conn /\ g.tag = work'[i].tag
    <3>1. PICK g \in held : g.conn = op.conn /\ g.tag = work[i + 1].tag
      BY <1>8 DEF Consistent, GivesAreHeld
    <3>2. work[i + 1].tag # work[1].tag
      BY <1>1, <1>8 DEF Consistent, GivesAreHeld
    <3>3. g # h
      BY <1>1, <1>3, <3>1, <3>2
    <3> QED
      BY <1>8, <2>1, <3>1, <3>3
  <2> QED
    BY <1>8, <1>9, <2>2 DEF Consistent, GivesAreHeld
<1>11. OtherTypes'
  BY DEF Consistent, OtherTypes, GiveStep
<1> QED
  BY <1>3, <1>6, <1>7, <1>10, <1>11 DEF Consistent, h

\* push hands out to the consumer whose turn it is, and the round robin moves
\* on to the one behind it.
LEMMA PushTakesTurn ==
  ASSUME Consistent, PushStep
  PROVE  \E q \in Object, place \in Nat :
           /\ Doing("dispatch") /\ q = Head(work).queue /\ place \in DOMAIN consumers[q]
           /\ consumers[q][place] \in Consumer
           /\ turn' \in [Object -> Nat]
           /\ place = IF turn'[q] = 0 THEN Len(consumers[q]) ELSE turn'[q]
           /\ ready[q] # <<>>
           /\ HandOut(consumers[q][place].owner, q, consumers[q][place].channel,
                      consumers[q][place].noAck)
<1> DEFINE q == Head(work).queue
           k == CHOOSE i \in Willing(q) : \A j \in Willing(q) : i <= j
           n == Len(consumers[q])
           place == ((turn[q] + k) % n) + 1
           taking == consumers[q][place]
<1>1. /\ Doing("dispatch") /\ ready[q] # <<>> /\ Willing(q) # {}
      /\ turn' = [turn EXCEPT ![q] = (@ + k + 1) % n]
      /\ HandOut(taking.owner, q, taking.channel, taking.noAck)
  BY DEF PushStep
<1>2. q \in Object
  <2>1. work # <<>> /\ Head(work) \in Step /\ Head(work).do = "dispatch"
    <3>1. Doing("dispatch")
      BY <1>1
    <3> QED
      BY <3>1 DEF Consistent, LoopTypes, Doing
  <2> QED
    BY <2>1 DEF Step
<1>q. q = Head(work).queue
  OBVIOUS
<1> HIDE DEF q
<1>3. /\ consumers[q] \in Seq(Consumer) /\ turn \in [Object -> Nat] /\ turn[q] \in Nat
      /\ n \in Nat /\ DOMAIN consumers[q] = 1 .. n
  BY <1>2 DEF Consistent, OtherTypes
<1>4. Willing(q) \in SUBSET Nat /\ n > 0
  <2>1. Willing(q) \subseteq 0 .. n - 1
    BY DEF Willing
  <2>2. PICK w \in Willing(q) : TRUE
    BY <1>1
  <2> QED
    BY <1>3, <2>1, <2>2
<1>5. k \in Nat
  <2>1. PICK w \in Willing(q) : TRUE
    BY <1>1
  <2>2. \E i \in Willing(q) : \A j \in Willing(q) : i <= j
    BY <1>4, <2>1, SmallestOfNats
  <2> QED
    BY <1>4, <2>2
<1> HIDE DEF k, n
<1>6. /\ (turn[q] + k) % n \in 0 .. n - 1 /\ (turn[q] + k + 1) % n \in 0 .. n - 1
      /\ (IF (turn[q] + k + 1) % n = 0 THEN n ELSE (turn[q] + k + 1) % n)
           = ((turn[q] + k) % n) + 1
  <2> DEFINE x == turn[q] + k
  <2>1. x \in Nat /\ x + 1 \in Nat
    BY <1>3, <1>5
  <2> HIDE DEF x
  <2>2. x % n \in 0 .. n - 1 /\ (x + 1) % n \in 0 .. n - 1
    BY <1>3, <1>4, <2>1, ModBounds
  <2>3. (IF (x + 1) % n = 0 THEN n ELSE (x + 1) % n) = (x % n) + 1
    BY <1>3, <1>4, <2>1, TurnTaken
  <2> QED
    BY <2>2, <2>3 DEF x
<1>7. turn' \in [Object -> Nat] /\ turn'[q] = (turn[q] + k + 1) % n
  <2>1. (turn[q] + k + 1) % n \in Nat
    BY <1>3, <1>4, <1>6
  <2> QED
    BY <1>1, <1>2, <1>3, <2>1
<1>8. place \in DOMAIN consumers[q] /\ place = IF turn'[q] = 0 THEN n ELSE turn'[q]
  <2>1. place \in 1 .. n
    BY <1>3, <1>4, <1>6
  <2> QED
    BY <1>3, <1>6, <1>7, <2>1
<1> HIDE DEF place
<1>9. place \in Nat /\ taking \in Consumer
  BY <1>3, <1>8
<1> QED
  BY <1>1, <1>2, <1>q, <1>7, <1>8, <1>9 DEF n, taking

\* The consumer whose turn it is takes the message at the head.
LEMMA PushStepKeeps ==
  ASSUME Consistent, PushStep
  PROVE  /\ Consistent'
         /\ \E c \in Conn, q \in Object, ch \in Channel, noAck \in BOOLEAN :
              ready[q] # <<>> /\ HandOut(c, q, ch, noAck)
         /\ UNCHANGED <<work, op, published>>
<1>1. PICK q \in Object, place \in Nat :
        /\ consumers[q][place] \in Consumer
        /\ turn' \in [Object -> Nat]
        /\ ready[q] # <<>>
        /\ HandOut(consumers[q][place].owner, q, consumers[q][place].channel,
                   consumers[q][place].noAck)
  BY PushTakesTurn
<1>2. UNCHANGED <<named, consumers, created, generated, exchanges, published,
                  status, prefetch, subscribed, ctags, work, op>>
  BY DEF PushStep
<1> DEFINE taking == consumers[q][place]
<1>3. taking.owner \in Conn /\ taking.channel \in Channel /\ taking.noAck \in BOOLEAN
  BY <1>1 DEF Consumer
<1>4. HandOut(taking.owner, q, taking.channel, taking.noAck)
  BY <1>1
<1> HIDE DEF taking
<1>5. DeliveryTypes' /\ TagsIssued' /\ Accounting'
  BY <1>1, <1>3, <1>4, HandOutCounts DEF Consistent
<1>6. OtherTypes'
  BY <1>1, <1>2 DEF Consistent, OtherTypes
<1>7. LoopTypes'
  BY <1>2 DEF Consistent, LoopTypes, Free
<1>8. held \subseteq held'
  BY <1>4 DEF HandOut
<1>9. GivesAreHeld'
  BY <1>2, <1>8 DEF Consistent, GivesAreHeld, Gives
<1> QED
  BY <1>1, <1>2, <1>3, <1>4, <1>5, <1>6, <1>7, <1>9 DEF Consistent

LEMMA DispatchDoneKeeps ==
  ASSUME Consistent, DispatchDone
  PROVE  Consistent'
<1>1. work # <<>>
  BY DEF DispatchDone, Doing
<1>2. DeliveryTypes' /\ TagsIssued' /\ Accounting'
  BY UntouchedCounts DEF Consistent, DeliveryTypes, DispatchDone, queueVars, connVars
<1>3. LoopTypes' /\ GivesAreHeld'
  BY <1>1, AdvanceKeepsGives DEF Consistent, DispatchDone, connVars
<1>4. OtherTypes'
  BY DEF Consistent, OtherTypes, DispatchDone, queueVars, connVars
<1> QED
  BY <1>2, <1>3, <1>4 DEF Consistent

----------------------------------------------------------------------------
(* The counters agree with the deliveries that are out *)

LEMMA InitConsistent == Init => Consistent
<1> SUFFICES ASSUME Init PROVE Consistent
  OBVIOUS
<1>1. {MaxMessages, MaxQueues, MaxGenerated} \subseteq Nat
  OBVIOUS
<1>2. DeliveryTypes
  BY FS_EmptySet DEF Init, DeliveryTypes
<1>3. OtherTypes
  BY <1>1, FS_EmptySet DEF Init, OtherTypes, NoExchange
<1>4. LoopTypes /\ TagsIssued /\ GivesAreHeld
  BY DEF Init, LoopTypes, TagsIssued, GivesAreHeld, Gives, Free
<1>5. \A q \in Object, c \in Conn, ch \in Channel : HeldFrom(q) = {} /\ HeldOn(c, ch) = {}
  BY DEF Init, HeldFrom, HeldOn
<1>6. Accounting
  <2>1. Cardinality({}) = 0
    BY FS_EmptySet
  <2>2. \A q \in Object : unacked[q] = Cardinality(HeldFrom(q))
    BY <2>1 DEF Init, HeldFrom
  <2>3. \A c \in Conn, ch \in Channel : outstanding[c][ch] = Cardinality(HeldOn(c, ch))
    BY <2>1 DEF Init, HeldOn
  <2> QED
    BY <2>2, <2>3 DEF Accounting
<1> QED
  BY <1>2, <1>3, <1>4, <1>6 DEF Consistent

LEMMA NextKeepsConsistent == Consistent /\ [Next]_vars => Consistent'
<1> SUFFICES ASSUME Consistent, [Next]_vars PROVE Consistent'
  OBVIOUS
<1>1. CASE AppendStep
  BY <1>1, AppendStepKeeps
<1>2. CASE DropStep
  BY <1>2, DropStepKeeps
<1>3. CASE GiveStep
  BY <1>3, GiveStepKeeps
<1>4. CASE PushStep
  BY <1>4, PushStepKeeps
<1>5. CASE DispatchDone
  BY <1>5, DispatchDoneKeeps
<1>6. ASSUME NEW c \in Conn, Operation(c)
      PROVE  Consistent'
  <2>1. CASE OpenConn(c)
    BY <2>1, OpenConnKeeps
  <2>2. CASE CloseConn(c)
    BY <2>2, CloseConnKeeps
  <2>3. CASE \/ \E e \in Exchange, kind \in Kinds : DeclareExchange(c, e, kind)
             \/ \E name \in Name \cup {Unnamed} : Declare(c, name)
             \/ \E name \in QueueName, e \in Exchange, key \in Key : Bind(c, name, e, key)
    BY <2>3, TopologyKeeps
  <2>4. CASE \/ \E name \in QueueName : PublishDefault(c, name)
             \/ \E e \in Exchange, key \in Key : Publish(c, e, key)
    BY <2>4, PublishVisits, PublishToKeeps
  <2>5. CASE \E name \in QueueName, ch \in Channel, noAck \in BOOLEAN :
               Get(c, name, ch, noAck)
    BY <2>5, GetKeeps
  <2>6. CASE \E name \in QueueName, requested \in TagsOf[c], ch \in Channel,
                noAck \in BOOLEAN : Consume(c, name, requested, ch, noAck)
    BY <2>6, ConsumeKeeps
  <2>7. CASE \E taking \in ConsumersOf(c) : Cancel(c, taking)
    BY <2>7, CancelKeeps
  <2>8. CASE \E ch \in Channel, limit \in Prefetch : Qos(c, ch, limit)
    BY <2>8, QosKeeps
  <2>9. CASE \E tag \in 0 .. nextTag[c], ch \in Channel, multiple, requeue \in BOOLEAN :
               Settle(c, tag, ch, multiple, requeue)
    BY <2>9, SettleKeeps
  <2>10. CASE \E name \in QueueName : Purge(c, name) \/ Delete(c, name)
    BY <2>10, PurgeKeeps, DeleteKeeps
  <2> QED
    BY <1>6, <2>1, <2>2, <2>3, <2>4, <2>5, <2>6, <2>7, <2>8, <2>9, <2>10 DEF Operation
<1>7. CASE UNCHANGED vars
  BY <1>7 DEF vars, queueVars, connVars, Consistent, DeliveryTypes, OtherTypes, LoopTypes,
     TagsIssued, GivesAreHeld, Gives, Accounting, HeldFrom, HeldOn, Free
<1> QED
  BY <1>1, <1>2, <1>3, <1>4, <1>5, <1>6, <1>7 DEF Next, LoopStep

\* In every behaviour of the broker, whatever its clients do and however many
\* they are, the variables have their types and the two counters that hold
\* and give keep (exec.go:296-318) agree with the deliveries that are out.
THEOREM CountersRight == Spec => [](TypeOK /\ Accounting)
<1>1. Init => Consistent
  BY InitConsistent
<1>2. Consistent /\ [Next]_vars => Consistent'
  BY NextKeepsConsistent
<1>3. Consistent => TypeOK /\ Accounting
  BY ConsistentImplies
<1> QED
  BY <1>1, <1>2, <1>3, PTL DEF Spec

----------------------------------------------------------------------------
(* One copy, and fresh messages in order *)

\* AtMostOneCopy without its sets.
Unique ==
  /\ \A q \in Object : \A i, j \in DOMAIN ready[q] :
       ready[q][i].msg = ready[q][j].msg => i = j
  /\ \A g, h \in held : g.queue = h.queue /\ g.msg = h.msg => g = h
  /\ \A h \in held : \A i \in DOMAIN ready[h.queue] : ready[h.queue][i].msg # h.msg

\* What is in the broker was published.
Known ==
  /\ \A q \in Object : \A i \in DOMAIN ready[q] : ready[q][i].msg <= published
  /\ \A h \in held : h.msg <= published

\* What is to be appended is new.
AppendsNew ==
  /\ \A i \in Appends : /\ work[i].msg = published
                        /\ ~Present(work[i].queue, published)
  /\ \A i, j \in Appends : work[i].queue = work[j].queue => i = j

\* The inductive invariant behind the copies.
CopyInv == Unique /\ Known /\ AppendsNew /\ FreshInOrder

LEMMA UniqueMeans == Unique => AtMostOneCopy
  BY DEF Unique, AtMostOneCopy, Waiting, Out

\* hold moves the message at the head of a queue, or lets it go.
LEMMA HandOutCopies ==
  ASSUME Consistent, Unique, Known, FreshInOrder,
         NEW c \in Conn, NEW q \in Object, NEW ch \in Channel, NEW noAck \in BOOLEAN,
         ready[q] # <<>>, HandOut(c, q, ch, noAck), UNCHANGED published
  PROVE  /\ Unique' /\ Known' /\ FreshInOrder'
         /\ \A r \in Object, m \in Nat : Present(r, m)' => Present(r, m)
<1> DEFINE new == [conn |-> c, tag |-> nextTag[c] + 1, queue |-> q,
                   msg |-> Head(ready[q]).msg, channel |-> ch]
<1>1. ready[q] \in Seq(Pending) /\ DOMAIN ready = Object /\ held \subseteq Held
  BY DEF Consistent, DeliveryTypes
<1>2. ready' = [ready EXCEPT ![q] = Tail(@)]
  BY DEF HandOut
<1>3. ready'[q] = Tail(ready[q]) /\ \A r \in Object : r # q => ready'[r] = ready[r]
  BY <1>1, <1>2
<1>4. /\ 1 \in DOMAIN ready[q] /\ Head(ready[q]) = ready[q][1]
      /\ \A i \in DOMAIN ready'[q] : /\ i + 1 \in DOMAIN ready[q] /\ i + 1 # 1
                                     /\ ready'[q][i] = ready[q][i + 1]
      /\ \A i, j \in DOMAIN ready'[q] : /\ i + 1 = j + 1 => i = j
                                        /\ i < j => i + 1 < j + 1
  <2>1. ready'[q] \in Seq(Pending)
    BY <1>1, <1>3
  <2> QED
    BY <1>1, <1>3, <2>1
<1>5. \/ held' = held
      \/ held' = held \cup {new}
  BY DEF HandOut
<1>6. new.queue = q /\ new.msg = ready[q][1].msg
  BY <1>4
<1> HIDE DEF new
<1>7. ASSUME NEW r \in Object, NEW i \in DOMAIN ready'[r], NEW j \in DOMAIN ready'[r],
             ready'[r][i].msg = ready'[r][j].msg
      PROVE  i = j
  <2>1. CASE r # q
    BY <1>3, <1>7, <2>1 DEF Unique
  <2>2. CASE r = q
    <3>1. /\ i + 1 \in DOMAIN ready[q] /\ j + 1 \in DOMAIN ready[q]
          /\ ready[q][i + 1].msg = ready[q][j + 1].msg
          /\ i + 1 = j + 1 => i = j
      BY <1>4, <1>7, <2>2
    <3> QED
      BY <3>1 DEF Unique
  <2> QED
    BY <2>1, <2>2
<1>8. \A g, h \in held' : g.queue = h.queue /\ g.msg = h.msg => g = h
  BY <1>4, <1>5, <1>6 DEF Unique
<1>9. \A h \in held' : \A i \in DOMAIN ready'[h.queue] : ready'[h.queue][i].msg # h.msg
  <2>1. ASSUME NEW h \in held', NEW i \in DOMAIN ready'[h.queue]
        PROVE  ready'[h.queue][i].msg # h.msg
    <3>1. h.queue \in Object
      BY <1>1, <1>5, <1>6 DEF Held
    <3>2. CASE h \in held /\ h.queue # q
      BY <1>3, <3>1, <3>2 DEF Unique
    <3>3. CASE h \in held /\ h.queue = q
      <4>1. i + 1 \in DOMAIN ready[q] /\ ready'[q][i] = ready[q][i + 1]
        BY <1>4, <3>3
      <4> QED
        BY <3>3, <4>1 DEF Unique
    <3>4. CASE h = new
      <4>1. i + 1 \in DOMAIN ready[q] /\ i + 1 # 1 /\ ready'[q][i] = ready[q][i + 1]
        BY <1>4, <1>6, <3>4
      <4> QED
        BY <1>4, <1>6, <3>4, <4>1 DEF Unique
    <3> QED
      BY <1>5, <3>2, <3>3, <3>4
  <2> QED
    BY <2>1
<1>a. ASSUME NEW r \in Object, NEW i \in DOMAIN ready'[r]
      PROVE  \E j \in DOMAIN ready[r] : ready'[r][i] = ready[r][j]
  <2>1. CASE r # q
    BY <1>3, <2>1
  <2>2. CASE r = q
    <3>1. i + 1 \in DOMAIN ready[r] /\ ready'[r][i] = ready[r][i + 1]
      BY <1>4, <2>2
    <3> QED
      BY <3>1
  <2> QED
    BY <2>1, <2>2
<1>10. Known'
  <2>1. \A r \in Object : \A i \in DOMAIN ready'[r] : ready'[r][i].msg <= published
    BY <1>a DEF Known
  <2>2. \A h \in held' : h.msg <= published
    BY <1>4, <1>5, <1>6 DEF Known
  <2> QED
    BY <2>1, <2>2 DEF Known
<1>b. ASSUME NEW r \in Object, NEW i \in DOMAIN ready'[r], NEW j \in DOMAIN ready'[r], i < j
      PROVE  \/ ready'[r][i].redelivered
             \/ ~ready'[r][j].redelivered /\ ready'[r][i].msg < ready'[r][j].msg
  <2>1. CASE r # q
    BY <1>3, <1>b, <2>1 DEF FreshInOrder
  <2>2. CASE r = q
    <3>1. /\ i + 1 \in DOMAIN ready[q] /\ j + 1 \in DOMAIN ready[q] /\ i + 1 < j + 1
          /\ ready'[q][i] = ready[q][i + 1] /\ ready'[q][j] = ready[q][j + 1]
      BY <1>4, <1>b, <2>2
    <3>2. \/ ready[q][i + 1].redelivered
          \/ ~ready[q][j + 1].redelivered /\ ready[q][i + 1].msg < ready[q][j + 1].msg
      BY <3>1 DEF FreshInOrder
    <3> QED
      BY <2>2, <3>1, <3>2
  <2> QED
    BY <2>1, <2>2
<1>11. FreshInOrder'
  BY <1>b DEF FreshInOrder
<1>12. ASSUME NEW r \in Object, NEW m \in Nat, Present(r, m)'
       PROVE  Present(r, m)
  <2>1. CASE \E i \in DOMAIN ready'[r] : ready'[r][i].msg = m
    BY <1>a, <2>1 DEF Present, Waiting
  <2>2. CASE \E h \in held' : h.queue = r /\ h.msg = m
    BY <1>4, <1>5, <1>6, <2>2 DEF Present, Waiting, Out
  <2> QED
    BY <1>12, <2>1, <2>2 DEF Present, Waiting, Out
<1> QED
  BY <1>7, <1>8, <1>9, <1>10, <1>11, <1>12 DEF Unique

\* give moves a message that is out back to the head, or lets it go.
LEMMA GiveBackCopies ==
  ASSUME Consistent, Unique, Known, FreshInOrder,
         NEW h \in held, NEW requeue \in BOOLEAN, GiveBack(h, requeue), UNCHANGED published
  PROVE  /\ Unique' /\ Known' /\ FreshInOrder'
         /\ \A r \in Object, m \in Nat : Present(r, m)' => Present(r, m)
<1> DEFINE q == h.queue
           back == [msg |-> h.msg, redelivered |-> TRUE]
<1>1. /\ q \in Object /\ h.msg \in 1 .. MaxMessages /\ ready[q] \in Seq(Pending)
      /\ DOMAIN ready = Object /\ held \subseteq Held
  BY DEF Consistent, DeliveryTypes, Held
<1>2. back \in Pending /\ back.msg = h.msg /\ back.redelivered
  BY <1>1 DEF Pending
<1>3. held' = held \ {h}
  BY DEF GiveBack
<1>4. /\ ready'[q] = IF requeue THEN <<back>> \o ready[q] ELSE ready[q]
      /\ \A r \in Object : r # q => ready'[r] = ready[r]
  BY <1>1 DEF GiveBack
<1> HIDE DEF back
<1>5. CASE ~requeue
  <2>1. \A r \in Object : ready'[r] = ready[r]
    BY <1>4, <1>5
  <2>2. \A g \in held' : g \in held /\ g.queue \in Object
    BY <1>1, <1>3 DEF Held
  <2>3. Unique'
    BY <2>1, <2>2 DEF Unique
  <2>4. Known' /\ FreshInOrder'
    BY <2>1, <2>2 DEF Known, FreshInOrder
  <2> QED
    BY <2>1, <2>2, <2>3, <2>4 DEF Present, Waiting, Out
<1>6. CASE requeue
  <2>1. /\ \A i \in DOMAIN ready'[q] : i \in Nat
        /\ 1 \in DOMAIN ready'[q] /\ ready'[q][1] = back
        /\ \A i \in DOMAIN ready'[q] : i # 1 =>
             i - 1 \in DOMAIN ready[q] /\ ready'[q][i] = ready[q][i - 1]
        /\ \A i, j \in DOMAIN ready'[q] : /\ i - 1 = j - 1 => i = j
                                          /\ i < j => i - 1 < j - 1 /\ j # 1
    <3>1. <<back>> \in Seq(Pending) /\ Len(<<back>>) = 1
      BY <1>2
    <3>2. ready'[q] = <<back>> \o ready[q] /\ ready'[q] \in Seq(Pending)
      BY <1>1, <1>4, <1>6, <3>1
    <3>3. Len(ready'[q]) = Len(ready[q]) + 1 /\ DOMAIN ready'[q] = 1 .. Len(ready'[q])
          /\ DOMAIN ready[q] = 1 .. Len(ready[q]) /\ Len(ready[q]) \in Nat
      BY <1>1, <3>1, <3>2
    <3>4. \A i \in 1 .. Len(ready'[q]) :
            ready'[q][i] = IF i = 1 THEN back ELSE ready[q][i - 1]
      BY <1>1, <3>1, <3>2, <3>3
    <3>5. \A i \in 1 .. Len(ready'[q]) : i # 1 => i - 1 \in 1 .. Len(ready[q])
      BY <3>3
    <3>6. 1 \in 1 .. Len(ready'[q]) /\ 1 .. Len(ready'[q]) \subseteq Nat
      BY <3>3
    <3> QED
      BY <3>3, <3>4, <3>5, <3>6
  <2>2. \A i \in DOMAIN ready[q] : ready[q][i].msg # h.msg
    BY DEF Unique
  <2>3. ASSUME NEW r \in Object, NEW i \in DOMAIN ready'[r], NEW j \in DOMAIN ready'[r],
               ready'[r][i].msg = ready'[r][j].msg
        PROVE  i = j
    <3>1. CASE r # q
      BY <1>4, <2>3, <3>1 DEF Unique
    <3>2. CASE r = q /\ (i = 1 \/ j = 1)
      BY <1>2, <2>1, <2>2, <2>3, <3>2
    <3>3. CASE r = q /\ i # 1 /\ j # 1
      <4>1. /\ i - 1 \in DOMAIN ready[q] /\ j - 1 \in DOMAIN ready[q]
            /\ ready[q][i - 1].msg = ready[q][j - 1].msg
            /\ i - 1 = j - 1 => i = j
        BY <2>1, <2>3, <3>3
      <4> QED
        BY <1>1, <4>1 DEF Unique
    <3> QED
      BY <3>1, <3>2, <3>3
  <2>4. \A f, g \in held' : f.queue = g.queue /\ f.msg = g.msg => f = g
    BY <1>3 DEF Unique
  <2>5. ASSUME NEW g \in held', NEW i \in DOMAIN ready'[g.queue]
        PROVE  ready'[g.queue][i].msg # g.msg
    <3>1. g \in held /\ g # h /\ g.queue \in Object
      BY <1>1, <1>3 DEF Held
    <3>2. CASE g.queue # q
      BY <1>4, <3>1, <3>2 DEF Unique
    <3>3. CASE g.queue = q /\ i # 1
      BY <2>1, <3>1, <3>3 DEF Unique
    <3>4. CASE g.queue = q /\ i = 1
      BY <1>2, <2>1, <3>1, <3>4 DEF Unique
    <3> QED
      BY <3>2, <3>3, <3>4
  <2>6. Known'
    <3>1. ASSUME NEW r \in Object, NEW i \in DOMAIN ready'[r]
          PROVE  ready'[r][i].msg <= published
      <4>1. CASE r # q
        BY <1>4, <4>1 DEF Known
      <4>2. CASE r = q /\ i = 1
        BY <1>2, <2>1, <4>2 DEF Known
      <4>3. CASE r = q /\ i # 1
        BY <1>1, <2>1, <4>3 DEF Known
      <4> QED
        BY <4>1, <4>2, <4>3
    <3>2. \A g \in held' : g.msg <= published
      BY <1>3 DEF Known
    <3> QED
      BY <3>1, <3>2 DEF Known
  <2>7. ASSUME NEW r \in Object, NEW i \in DOMAIN ready'[r], NEW j \in DOMAIN ready'[r], i < j
        PROVE  \/ ready'[r][i].redelivered
               \/ ~ready'[r][j].redelivered /\ ready'[r][i].msg < ready'[r][j].msg
    <3>1. CASE r # q
      BY <1>4, <2>7, <3>1 DEF FreshInOrder
    <3>2. CASE r = q /\ i = 1
      BY <1>2, <2>1, <3>2
    <3>3. CASE r = q /\ i # 1
      BY <2>1, <2>7, <3>3 DEF FreshInOrder
    <3> QED
      BY <3>1, <3>2, <3>3
  <2>8. ASSUME NEW r \in Object, NEW m \in Nat, Present(r, m)'
        PROVE  Present(r, m)
    <3>1. CASE \E i \in DOMAIN ready'[r] : ready'[r][i].msg = m
      <4>1. PICK i \in DOMAIN ready'[r] : ready'[r][i].msg = m
        BY <3>1
      <4>2. CASE r = q /\ i = 1
        BY <1>2, <2>1, <4>1, <4>2 DEF Present, Out
      <4>3. CASE r # q
        BY <1>4, <4>1, <4>3 DEF Present, Waiting
      <4>4. CASE r = q /\ i # 1
        <5>1. i - 1 \in DOMAIN ready[r] /\ ready[r][i - 1].msg = m
          BY <2>1, <4>1, <4>4
        <5> QED
          BY <5>1 DEF Present, Waiting
      <4> QED
        BY <4>2, <4>3, <4>4
    <3>2. CASE \E g \in held' : g.queue = r /\ g.msg = m
      BY <1>3, <3>2 DEF Present, Out
    <3> QED
      BY <2>8, <3>1, <3>2 DEF Present, Waiting, Out
  <2> QED
    BY <2>3, <2>4, <2>5, <2>6, <2>7, <2>8 DEF Unique, FreshInOrder
<1> QED
  BY <1>5, <1>6

\* What touches no message keeps the copies as they are.
LEMMA UntouchedCopies ==
  ASSUME Unique, Known, FreshInOrder, UNCHANGED <<ready, held, published>>
  PROVE  /\ Unique' /\ Known' /\ FreshInOrder'
         /\ \A r, m : Present(r, m)' => Present(r, m)
BY DEF Unique, Known, FreshInOrder, Present, Waiting, Out

LEMMA NoAppendsNew ==
  ASSUME Appends' = {}
  PROVE  AppendsNew'
BY DEF AppendsNew

\* An operation that ends where it began appends nothing.
LEMMA FreeAppendsNothing ==
  ASSUME Free, UNCHANGED work
  PROVE  Appends' = {}
BY DEF Free, Appends

LEMMA AppendIsTyped ==
  ASSUME LoopTypes, NEW i \in Appends
  PROVE  /\ work[i].queue \in Object /\ work[i].msg \in 1 .. MaxMessages
         /\ work[i] \in Step /\ work[i].do = "append"
BY DEF LoopTypes, Appends, Step

\* Going on keeps what is to be appended new, if no copy appeared.
LEMMA AdvanceKeepsAppends ==
  ASSUME LoopTypes, AppendsNew, work # <<>>, Advance, published \in Nat,
         UNCHANGED published,
         \A r \in Object, m \in Nat : Present(r, m)' => Present(r, m)
  PROVE  AppendsNew'
<1>1. \A i \in Appends' : i + 1 \in Appends /\ work'[i] = work[i + 1]
  BY AdvanceTail DEF Appends
<1>2. \A i, j \in Appends' : i + 1 = j + 1 => i = j
  BY AdvanceTail DEF Appends
<1>3. \A i \in Appends' : work[i + 1].queue \in Object
  BY <1>1, AppendIsTyped
<1>4. ASSUME NEW i \in Appends'
      PROVE  (work[i].msg = published /\ ~Present(work[i].queue, published))'
  <2>1. /\ work[i + 1].queue \in Object /\ work[i + 1].msg = published
        /\ ~Present(work[i + 1].queue, published) /\ work'[i] = work[i + 1]
    BY <1>1, <1>3 DEF AppendsNew
  <2>2. PICK r \in Object, p \in Nat : r = work[i + 1].queue /\ p = published
    BY <2>1
  <2>3. ~Present(r, p)'
    BY <2>1, <2>2
  <2>4. r = work'[i].queue /\ p = published'
    BY <2>1, <2>2
  <2> QED
    BY <2>1, <2>3, <2>4 DEF Present, Waiting, Out
<1>5. \A i, j \in Appends' : work'[i].queue = work'[j].queue => i = j
  BY <1>1, <1>2 DEF AppendsNew
<1> QED
  BY <1>4, <1>5 DEF AppendsNew

\* A message that was just published is new to every queue, and the loop
\* visits each queue once.
LEMMA PublishCopies ==
  ASSUME Consistent, CopyInv, NEW c \in Conn,
         \/ \E name \in QueueName : PublishDefault(c, name)
         \/ \E e \in Exchange, key \in Key : Publish(c, e, key)
  PROVE  CopyInv'
<1>1. PICK order \in Seq(Object) :
        /\ \A i, j \in 1 .. Len(order) : order[i] = order[j] => i = j
        /\ PublishTo(c, order)
  BY PublishVisits
<1>2. published < MaxMessages
  BY PublishVisits
<1>3. /\ published' = published + 1 /\ UNCHANGED <<queueVars, connVars>>
      /\ \A i \in DOMAIN work' : work'[i].do # "dispatch" =>
           /\ (i + 1) \div 2 \in 1 .. Len(order)
           /\ i % 2 = 1
           /\ work'[i] = [do |-> "append", queue |-> order[(i + 1) \div 2],
                          msg |-> published + 1]
      /\ LoopTypes'
  BY <1>1, <1>2, PublishToKeeps DEF Consistent
<1>4. UNCHANGED <<ready, held>> /\ published \in Nat
  BY <1>3 DEF Consistent, OtherTypes, queueVars, connVars
<1>5. Unique' /\ FreshInOrder'
  BY <1>4 DEF CopyInv, Unique, FreshInOrder
<1>6. /\ \A q \in Object : \A i \in DOMAIN ready[q] : ready[q][i].msg \in Nat
      /\ \A h \in held : h.msg \in Nat
  <2>1. ready \in [Object -> Seq(Pending)] /\ held \subseteq Held
    BY DEF Consistent, DeliveryTypes
  <2>2. MaxMessages \in Nat
    OBVIOUS
  <2>3. ASSUME NEW q \in Object, NEW i \in DOMAIN ready[q]
        PROVE  ready[q][i].msg \in Nat
    <3>1. ready[q][i] \in Pending
      BY <2>1
    <3> QED
      BY <2>2, <3>1 DEF Pending
  <2>4. \A h \in held : h.msg \in Nat
    BY <2>1, <2>2 DEF Held
  <2> QED
    BY <2>3, <2>4
<1>a. PICK p : p = published + 1
  OBVIOUS
<1>7. Known' /\ \A q \in Object : ~Present(q, p)'
  <2>1. /\ \A q \in Object : \A i \in DOMAIN ready[q] :
             ready[q][i].msg <= published + 1 /\ ready[q][i].msg # published + 1
        /\ \A h \in held : h.msg <= published + 1 /\ h.msg # published + 1
    BY <1>4, <1>6 DEF CopyInv, Known
  <2> QED
    BY <1>3, <1>4, <1>a, <2>1 DEF Known, Present, Waiting, Out
<1>8. ASSUME NEW i \in Appends'
      PROVE  /\ i \in Nat /\ i % 2 = 1 /\ (i + 1) \div 2 \in 1 .. Len(order)
             /\ work'[i].queue = order[(i + 1) \div 2] /\ work'[i].msg = published + 1
             /\ work'[i].queue \in Object
  <2>1. i \in DOMAIN work' /\ work'[i].do # "dispatch"
    BY DEF Appends
  <2>2. i \in Nat
    BY <1>3, <2>1 DEF LoopTypes
  <2> QED
    BY <1>3, <2>1, <2>2
<1>9. AppendsNew'
  <2>1. ASSUME NEW i \in Appends'
        PROVE  (work[i].msg = published /\ ~Present(work[i].queue, published))'
    <3>1. PICK r \in Object : r = work'[i].queue
      BY <1>8
    <3>2. ~Present(r, p)'
      BY <1>7
    <3>3. published' = p /\ work'[i].msg = published'
      BY <1>3, <1>8, <1>a
    <3> QED
      BY <3>1, <3>2, <3>3 DEF Present, Waiting, Out
  <2>2. ASSUME NEW i \in Appends', NEW j \in Appends', work'[i].queue = work'[j].queue
        PROVE  i = j
    <3>1. (i + 1) \div 2 = (j + 1) \div 2
      <4> DEFINE Half(k) == (k + 1) \div 2
      <4>1. Half(i) \in 1 .. Len(order) /\ work'[i].queue = order[Half(i)]
        BY <1>8
      <4>2. Half(j) \in 1 .. Len(order) /\ work'[j].queue = order[Half(j)]
        BY <1>8
      <4> HIDE DEF Half
      <4>3. Half(i) = Half(j)
        BY <1>1, <2>2, <4>1, <4>2
      <4> QED
        BY <4>3 DEF Half
    <3>2. i \in Nat /\ j \in Nat /\ i % 2 = 1 /\ j % 2 = 1
      BY <1>8
    <3> QED
      BY <3>1, <3>2, OddHalves
  <2> QED
    BY <2>1, <2>2 DEF AppendsNew
<1> QED
  BY <1>5, <1>7, <1>9 DEF CopyInv

\* The message goes behind all that is in the queue, which is older.
LEMMA AppendCopies ==
  ASSUME Consistent, CopyInv, AppendStep
  PROVE  CopyInv'
<1> DEFINE q == work[1].queue
           m == work[1].msg
           new == [msg |-> m, redelivered |-> FALSE]
<1>1. /\ work # <<>> /\ Advance /\ Head(work) = work[1] /\ 1 \in Appends
      /\ UNCHANGED <<held, published>>
      /\ ready' = [ready EXCEPT ![q] = Append(@, new)]
  <2>1. Doing("append") /\ Advance /\ UNCHANGED <<held, published>>
        /\ ready' = [ready EXCEPT ![Head(work).queue] =
             Append(@, [msg |-> Head(work).msg, redelivered |-> FALSE])]
    BY DEF AppendStep, connVars
  <2>2. work # <<>> /\ work \in Seq(Step)
    BY <2>1 DEF Doing, Consistent, LoopTypes
  <2>3. Head(work) = work[1] /\ 1 \in DOMAIN work
    BY <2>2
  <2> QED
    BY <2>1, <2>2, <2>3 DEF Doing, Appends
<1>2. /\ q \in Object /\ m = published /\ ~Present(q, m) /\ m \in Nat
  BY <1>1, AppendIsTyped DEF Consistent, CopyInv, AppendsNew
<1>3. /\ ready[q] \in Seq(Pending) /\ new \in Pending
      /\ new.msg = m /\ ~new.redelivered
      /\ \A i \in DOMAIN ready[q] : ready[q][i].msg \in Nat
  <2>1. ready[q] \in Seq(Pending) /\ m \in 1 .. MaxMessages /\ MaxMessages \in Nat
    BY <1>1, <1>2, AppendIsTyped DEF Consistent, DeliveryTypes
  <2>2. \A i \in DOMAIN ready[q] : ready[q][i] \in Pending
    BY <2>1
  <2> QED
    BY <2>1, <2>2 DEF Pending
<1>4. /\ ready'[q] = Append(ready[q], new)
      /\ \A r \in Object : r # q => ready'[r] = ready[r]
  BY <1>1, <1>2 DEF Consistent, DeliveryTypes
<1> DEFINE last == Len(ready[q]) + 1
<1> HIDE DEF new, q, m
<1>5. /\ last \in DOMAIN ready'[q] /\ ready'[q][last] = new
      /\ \A i \in DOMAIN ready'[q] : i # last =>
           i \in DOMAIN ready[q] /\ ready'[q][i] = ready[q][i] /\ i < last
      /\ \A i, j \in DOMAIN ready'[q] : i < j => i # last
  <2>1. Len(ready[q]) \in Nat /\ DOMAIN ready[q] = 1 .. Len(ready[q])
    BY <1>3
  <2>2. ready'[q] \in Seq(Pending) /\ Len(ready'[q]) = last
        /\ DOMAIN ready'[q] = 1 .. last
    BY <1>3, <1>4, <2>1
  <2>3. \A i \in 1 .. last : ready'[q][i] = IF i = last THEN new ELSE ready[q][i]
    BY <1>3, <1>4, <2>1
  <2>4. last \in 1 .. last /\ \A i \in 1 .. last : i # last => i \in 1 .. Len(ready[q]) /\ i < last
    BY <2>1
  <2>5. \A i, j \in 1 .. last : i < j => i # last
    BY <2>1
  <2> QED
    BY <2>1, <2>2, <2>3, <2>4, <2>5
<1> HIDE DEF last
<1>6. /\ \A i \in DOMAIN ready[q] : ready[q][i].msg # m /\ ready[q][i].msg < m
      /\ \A h \in held : h.queue = q => h.msg # m
  BY <1>2, <1>3 DEF CopyInv, Known, Present, Waiting, Out
<1>7. ASSUME NEW r \in Object, NEW i \in DOMAIN ready'[r], NEW j \in DOMAIN ready'[r],
             ready'[r][i].msg = ready'[r][j].msg
      PROVE  i = j
  <2>1. CASE r # q
    BY <1>4, <1>7, <2>1 DEF CopyInv, Unique
  <2>2. CASE r = q
    BY <1>2, <1>3, <1>5, <1>6, <1>7, <2>2 DEF CopyInv, Unique
  <2> QED
    BY <2>1, <2>2
<1>8. ASSUME NEW h \in held', NEW i \in DOMAIN ready'[h.queue]
      PROVE  ready'[h.queue][i].msg # h.msg
  <2>1. h \in held /\ h.queue \in Object
    BY <1>1 DEF Consistent, DeliveryTypes, Held
  <2>2. CASE h.queue # q
    BY <1>4, <2>1, <2>2 DEF CopyInv, Unique
  <2>3. CASE h.queue = q
    <3>1. CASE i = last
      BY <1>3, <1>5, <1>6, <2>1, <2>3, <3>1
    <3>2. CASE i # last
      BY <1>5, <2>1, <2>3, <3>2 DEF CopyInv, Unique
    <3> QED
      BY <3>1, <3>2
  <2> QED
    BY <2>2, <2>3
<1>9. Unique'
  BY <1>1, <1>7, <1>8 DEF CopyInv, Unique
<1>10. Known'
  <2>1. ASSUME NEW r \in Object, NEW i \in DOMAIN ready'[r]
        PROVE  ready'[r][i].msg <= published
    <3>1. CASE r # q
      BY <1>4, <3>1 DEF CopyInv, Known
    <3>2. CASE r = q
      BY <1>2, <1>3, <1>5, <3>2 DEF CopyInv, Known
    <3> QED
      BY <3>1, <3>2
  <2> QED
    BY <1>1, <2>1 DEF CopyInv, Known
<1>11. FreshInOrder'
  <2>1. ASSUME NEW r \in Object, NEW i \in DOMAIN ready'[r], NEW j \in DOMAIN ready'[r], i < j
        PROVE  \/ ready'[r][i].redelivered
               \/ ~ready'[r][j].redelivered /\ ready'[r][i].msg < ready'[r][j].msg
    <3>1. CASE r # q
      BY <1>4, <2>1, <3>1 DEF CopyInv, FreshInOrder
    <3>2. CASE r = q /\ j = last
      BY <1>3, <1>5, <1>6, <2>1, <3>2
    <3>3. CASE r = q /\ j # last
      BY <1>2, <1>5, <2>1, <3>3 DEF CopyInv, FreshInOrder
    <3> QED
      BY <3>1, <3>2, <3>3
  <2> QED
    BY <2>1 DEF FreshInOrder
<1>12. AppendsNew'
  <2>1. \A i \in Appends' : i + 1 \in Appends /\ i + 1 # 1 /\ work'[i] = work[i + 1]
    BY <1>1, AdvanceTail DEF Consistent, Appends
  <2>2. \A i, j \in Appends' : i + 1 = j + 1 => i = j
    BY <1>1, AdvanceTail DEF Consistent, Appends
  <2>3. ASSUME NEW i \in Appends'
        PROVE  (work[i].msg = published /\ ~Present(work[i].queue, published))'
    <3>1. /\ work[i + 1].queue \in Object /\ work[i + 1].msg = published
          /\ ~Present(work[i + 1].queue, published)
      BY <2>1, AppendIsTyped DEF Consistent, CopyInv, AppendsNew
    <3>2. work[i + 1].queue # q
      BY <1>1, <2>1 DEF CopyInv, AppendsNew, q
    <3>3. ready'[work[i + 1].queue] = ready[work[i + 1].queue]
      BY <1>4, <3>1, <3>2
    <3>4. PICK r \in Object : r = work[i + 1].queue
      BY <3>1
    <3>5. work'[i].queue = r /\ work'[i].msg = published /\ ready'[r] = ready[r]
      BY <2>1, <3>1, <3>3, <3>4
    <3>6. ~Present(r, published)
      BY <3>1, <3>4
    <3>7. held' = held /\ published' = published
      BY <1>1
    <3>8. Waiting(r, published)' = Waiting(r, published)
      BY <3>5, <3>7 DEF Waiting
    <3>9. Out(r, published)' = Out(r, published)
      BY <3>7 DEF Out
    <3>10. (work[i].queue = r)' /\ (~Present(r, published))'
      BY <3>5, <3>6, <3>8, <3>9 DEF Present
    <3> QED
      BY <3>5, <3>7, <3>10
  <2>4. \A i, j \in Appends' : work'[i].queue = work'[j].queue => i = j
    BY <2>1, <2>2 DEF CopyInv, AppendsNew
  <2> QED
    BY <2>3, <2>4 DEF AppendsNew
<1> QED
  BY <1>9, <1>10, <1>11, <1>12 DEF CopyInv

\* A purge or a deletion empties one queue.
LEMMA EmptiedCopies ==
  ASSUME Consistent, CopyInv, NEW q \in Object, Free,
         ready' = [ready EXCEPT ![q] = <<>>], UNCHANGED <<held, published, work>>
  PROVE  CopyInv'
<1>1. ready'[q] = <<>> /\ \A r \in Object : r # q => ready'[r] = ready[r]
  BY DEF Consistent, DeliveryTypes
<1>2. \A r \in Object : \A i \in DOMAIN ready'[r] :
        i \in DOMAIN ready[r] /\ ready'[r][i] = ready[r][i]
  BY <1>1
<1>3. \A h \in held : h.queue \in Object
  BY DEF Consistent, DeliveryTypes, Held
<1>4. Unique'
  BY <1>2, <1>3 DEF CopyInv, Unique
<1>5. Known'
  BY <1>2 DEF CopyInv, Known
<1>6. FreshInOrder'
  BY <1>2 DEF CopyInv, FreshInOrder
<1>7. AppendsNew'
  BY FreeAppendsNothing, NoAppendsNew
<1> QED
  BY <1>4, <1>5, <1>6, <1>7 DEF CopyInv

\* The operations that move no message and append none.
LEMMA QuietCopies ==
  ASSUME CopyInv, UNCHANGED <<ready, held, published>>, Appends' = {}
  PROVE  CopyInv'
BY UntouchedCopies, NoAppendsNew DEF CopyInv

LEMMA CloseConnCopies ==
  ASSUME Consistent, CopyInv, NEW c \in Conn, CloseConn(c)
  PROVE  CopyInv'
<1>1. UNCHANGED <<ready, held, published>>
  BY DEF CloseConn, queueVars
<1>2. PICK D \in Seq(Step), G \in Seq(Step), F \in Seq(Step) : IsCloseLoop(c, D, G, F)
  BY CloseConnLoop
<1>3. ASSUME NEW i \in DOMAIN work'
      PROVE  work'[i].do # "append"
  <2>1. \/ i \in DOMAIN D /\ work'[i] = D[i]
        \/ i - Len(D) \in DOMAIN G /\ work'[i] = G[i - Len(D)]
        \/ i > Len(D) /\ work'[i].do = "dispatch"
    BY <1>2, CloseLoopParts
  <2>2. /\ \A j \in DOMAIN D : D[j].do = "drop"
        /\ \A j \in DOMAIN G : G[j].do = "give"
    BY <1>2 DEF IsCloseLoop
  <2> QED
    BY <2>1, <2>2
<1>4. Appends' = {}
  BY <1>3 DEF Appends
<1> QED
  BY <1>1, <1>4, QuietCopies

LEMMA NextKeepsCopies == Consistent /\ CopyInv /\ [Next]_vars => CopyInv'
<1> SUFFICES ASSUME Consistent, CopyInv, [Next]_vars PROVE CopyInv'
  OBVIOUS
<1>1. LoopTypes /\ published \in Nat /\ Unique /\ Known /\ AppendsNew /\ FreshInOrder
  BY DEF Consistent, OtherTypes, CopyInv
<1>2. CASE AppendStep
  BY <1>2, AppendCopies
<1>3. CASE DropStep
  <2>1. UNCHANGED <<ready, held, published>> /\ work # <<>> /\ Advance
    BY <1>3 DEF DropStep, Doing, connVars
  <2>2. /\ Unique' /\ Known' /\ FreshInOrder'
        /\ \A r \in Object, m \in Nat : Present(r, m)' => Present(r, m)
    BY <1>1, <2>1, UntouchedCopies
  <2>3. AppendsNew'
    BY <1>1, <2>1, <2>2, AdvanceKeepsAppends
  <2> QED
    BY <2>2, <2>3 DEF CopyInv
<1>4. CASE GiveStep
  <2>1. PICK h \in held : h = HeldAs(op.conn, Head(work).tag)
    BY <1>4, GiveStepKeeps
  <2>2. work # <<>> /\ op.requeue \in BOOLEAN
    BY <1>4 DEF GiveStep, Doing, Consistent, LoopTypes, Free
  <2>3. GiveBack(h, op.requeue) /\ UNCHANGED published /\ Advance
    BY <1>4, <2>1 DEF GiveStep
  <2>4. /\ Unique' /\ Known' /\ FreshInOrder'
        /\ \A r \in Object, m \in Nat : Present(r, m)' => Present(r, m)
    BY <1>1, <2>2, <2>3, GiveBackCopies
  <2>5. AppendsNew'
    BY <1>1, <2>2, <2>3, <2>4, AdvanceKeepsAppends
  <2> QED
    BY <2>4, <2>5 DEF CopyInv
<1>5. CASE PushStep
  <2>1. PICK c \in Conn, q \in Object, ch \in Channel, noAck \in BOOLEAN :
          ready[q] # <<>> /\ HandOut(c, q, ch, noAck)
    BY <1>5, PushStepKeeps
  <2>2. UNCHANGED <<work, op, published>>
    BY <1>5, PushStepKeeps
  <2>3. /\ Unique' /\ Known' /\ FreshInOrder'
        /\ \A r \in Object, m \in Nat : Present(r, m)' => Present(r, m)
    BY <1>1, <2>1, <2>2, HandOutCopies
  <2>4. AppendsNew'
    <3>1. Appends' = Appends /\ \A i \in Appends : work[i].queue \in Object
      BY <1>1, <2>2, AppendIsTyped DEF Appends
    <3>2. ASSUME NEW i \in Appends'
          PROVE  (work[i].msg = published /\ ~Present(work[i].queue, published))'
      <4>1. PICK r \in Object, p \in Nat : r = work[i].queue /\ p = published
        BY <1>1, <3>1
      <4>2. ~Present(r, p)'
        BY <1>1, <2>3, <3>1, <4>1 DEF AppendsNew
      <4>3. (r = work[i].queue /\ p = published)'
        BY <2>2, <4>1
      <4> QED
        BY <1>1, <2>2, <3>1, <4>2, <4>3 DEF AppendsNew
    <3> QED
      BY <1>1, <2>2, <3>1, <3>2 DEF AppendsNew
  <2> QED
    BY <2>3, <2>4 DEF CopyInv
<1>6. CASE DispatchDone
  <2>1. UNCHANGED <<ready, held, published>> /\ work # <<>> /\ Advance
    BY <1>6 DEF DispatchDone, Doing, queueVars, connVars
  <2>2. /\ Unique' /\ Known' /\ FreshInOrder'
        /\ \A r \in Object, m \in Nat : Present(r, m)' => Present(r, m)
    BY <1>1, <2>1, UntouchedCopies
  <2>3. AppendsNew'
    BY <1>1, <2>1, <2>2, AdvanceKeepsAppends
  <2> QED
    BY <2>2, <2>3 DEF CopyInv
<1>7. ASSUME NEW c \in Conn, Operation(c)
      PROVE  CopyInv'
  <2>1. CASE OpenConn(c)
    BY <2>1, QuietCopies, FreeAppendsNothing DEF OpenConn, queueVars
  <2>2. CASE CloseConn(c)
    BY <2>2, CloseConnCopies
  <2>3. CASE \E e \in Exchange, kind \in Kinds : DeclareExchange(c, e, kind)
    BY <2>3, QuietCopies, FreeAppendsNothing DEF DeclareExchange, queueVars, connVars
  <2>4. CASE \E name \in Name \cup {Unnamed} : Declare(c, name)
    BY <2>4, QuietCopies, FreeAppendsNothing DEF Declare, connVars
  <2>5. CASE \E name \in QueueName, e \in Exchange, key \in Key : Bind(c, name, e, key)
    BY <2>5, QuietCopies, FreeAppendsNothing DEF Bind, queueVars, connVars
  <2>6. CASE \/ \E name \in QueueName : PublishDefault(c, name)
             \/ \E e \in Exchange, key \in Key : Publish(c, e, key)
    BY <2>6, PublishCopies
  <2>7. ASSUME NEW name \in QueueName, NEW ch \in Channel, NEW noAck \in BOOLEAN,
               Get(c, name, ch, noAck)
        PROVE  CopyInv'
    <3>1. /\ named[name] \in Object /\ ready[named[name]] # <<>>
          /\ HandOut(c, named[name], ch, noAck) /\ UNCHANGED published
          /\ Free /\ UNCHANGED work
      BY <2>7 DEF Consistent, OtherTypes, Get
    <3>2. Unique' /\ Known' /\ FreshInOrder'
      BY <1>1, <3>1, HandOutCopies
    <3>3. AppendsNew'
      BY <3>1, FreeAppendsNothing, NoAppendsNew
    <3> QED
      BY <3>2, <3>3 DEF CopyInv
  <2>8. CASE \E name \in QueueName, requested \in TagsOf[c], ch \in Channel,
                noAck \in BOOLEAN : Consume(c, name, requested, ch, noAck)
    BY <2>8, ConsumeKeeps, QuietCopies
  <2>9. CASE \E taking \in ConsumersOf(c) : Cancel(c, taking)
    BY <2>9, QuietCopies, FreeAppendsNothing DEF Cancel
  <2>10. CASE \E ch \in Channel, limit \in Prefetch : Qos(c, ch, limit)
    BY <2>10, QosKeeps, QuietCopies
  <2>11. CASE \E tag \in 0 .. nextTag[c], ch \in Channel, multiple, requeue \in BOOLEAN :
                Settle(c, tag, ch, multiple, requeue)
    BY <2>11, SettleKeeps, QuietCopies
  <2>12. ASSUME NEW name \in QueueName, Purge(c, name) \/ Delete(c, name)
         PROVE  CopyInv'
    <3>1. /\ named[name] \in Object /\ Free
          /\ ready' = [ready EXCEPT ![named[name]] = <<>>]
          /\ UNCHANGED <<held, published, work>>
      BY <2>12 DEF Consistent, OtherTypes, Purge, Delete, connVars
    <3> QED
      BY <3>1, EmptiedCopies
  <2> QED
    BY <1>7, <2>1, <2>2, <2>3, <2>4, <2>5, <2>6, <2>7, <2>8, <2>9, <2>10, <2>11, <2>12
       DEF Operation
<1>8. CASE UNCHANGED vars
  <2>1. UNCHANGED <<ready, held, published, work>>
    BY <1>8 DEF vars, queueVars, connVars
  <2>2. AppendsNew'
    BY <1>1, <2>1 DEF AppendsNew, Appends, Present, Waiting, Out
  <2> QED
    BY <1>1, <2>1, <2>2, UntouchedCopies DEF CopyInv
<1> QED
  BY <1>2, <1>3, <1>4, <1>5, <1>6, <1>7, <1>8 DEF Next, LoopStep

\* In every behaviour of the broker a queue has at most one copy of a message,
\* whatever is requeued, settled, fanned out or dropped with a connection
\* (publish, dispatch, hold and give of internal/queues).
THEOREM OneCopy == Spec => []AtMostOneCopy
<1>1. Init => Consistent /\ CopyInv
  <2>1. Init => CopyInv
    BY DEF Init, CopyInv, Unique, Known, AppendsNew, Appends, FreshInOrder
  <2> QED
    BY <2>1, InitConsistent
<1>2. Consistent /\ CopyInv /\ [Next]_vars => Consistent' /\ CopyInv'
  BY NextKeepsConsistent, NextKeepsCopies
<1>3. CopyInv => AtMostOneCopy
  BY UniqueMeans DEF CopyInv
<1> QED
  BY <1>1, <1>2, <1>3, PTL DEF Spec

\* In every behaviour of the broker messages that never went out wait behind
\* those that did, in the order they were published (publish appends,
\* requeue prepends).
THEOREM FreshOrder == Spec => []FreshInOrder
<1>1. Init => Consistent /\ CopyInv
  <2>1. Init => CopyInv
    BY DEF Init, CopyInv, Unique, Known, AppendsNew, Appends, FreshInOrder
  <2> QED
    BY <2>1, InitConsistent
<1>2. Consistent /\ CopyInv /\ [Next]_vars => Consistent' /\ CopyInv'
  BY NextKeepsConsistent, NextKeepsCopies
<1>3. CopyInv => FreshInOrder
  BY DEF CopyInv
<1> QED
  BY <1>1, <1>2, <1>3, PTL DEF Spec

----------------------------------------------------------------------------
(* No step loses a message except those that are meant to *)

\* A step ends copies only where EndsCopy says so.
Lossless ==
  \A r \in Object, m \in 1 .. MaxMessages :
    Present(r, m) /\ ~Present(r, m)' => EndsCopy(r, m)

\* A step that leaves the queues and the deliveries alone loses nothing.
LEMMA UntouchedLosesNothing ==
  ASSUME UNCHANGED <<ready, held>>
  PROVE  Lossless
BY DEF Lossless, Present, Waiting, Out

\* What hand out takes from its queue is out with a connection, unless nobody
\* is to acknowledge it.
LEMMA HandOutLoses ==
  ASSUME Consistent, NEW c \in Conn, NEW q \in Object, NEW ch \in Channel,
         NEW noAck \in BOOLEAN, ready[q] # <<>>, HandOut(c, q, ch, noAck),
         NEW r \in Object, NEW m \in 1 .. MaxMessages, Present(r, m), ~Present(r, m)'
  PROVE  r = q /\ noAck /\ Head(ready[q]).msg = m
<1>1. /\ ready \in [Object -> Seq(Pending)]
      /\ ready' = [ready EXCEPT ![q] = Tail(@)] /\ held \subseteq held'
  BY DEF Consistent, DeliveryTypes, HandOut
<1>2. Out(r, m) = {}
  BY <1>1 DEF Present, Out
<1>3. PICK i \in DOMAIN ready[r] : ready[r][i].msg = m
  BY <1>2 DEF Present, Waiting
<1>4. \A j \in DOMAIN ready'[r] : ready'[r][j].msg # m
  BY DEF Present, Waiting
<1>5. r = q
  BY <1>1, <1>3, <1>4
<1>6. i = 1
  <2>1. ready'[q] = Tail(ready[q]) /\ ready[q] \in Seq(Pending)
    BY <1>1
  <2>2. CASE i # 1
    <3>1. i \in 1 .. Len(ready[q]) /\ Len(ready[q]) \in Nat
      BY <1>3, <1>5, <2>1
    <3>2. i - 1 \in DOMAIN Tail(ready[q]) /\ Tail(ready[q])[i - 1] = ready[q][i]
      BY <2>1, <2>2, <3>1
    <3> QED
      BY <1>3, <1>4, <1>5, <2>1, <3>2
  <2> QED
    BY <2>2
<1>7. Head(ready[q]).msg = m
  BY <1>1, <1>3, <1>5, <1>6
<1>8. CASE ~noAck
  <2>1. PICK new : /\ new = [conn |-> c, tag |-> nextTag[c] + 1, queue |-> q,
                             msg |-> Head(ready[q]).msg, channel |-> ch]
                   /\ new \in held'
    BY <1>8 DEF HandOut
  <2>2. new.queue = r /\ new.msg = m
    BY <1>5, <1>7, <2>1
  <2> QED
    BY <2>1, <2>2 DEF Present, Out
<1> QED
  BY <1>5, <1>7, <1>8

\* What is given back waits at the head of its queue, unless it is not to be
\* requeued.
LEMMA GiveBackLoses ==
  ASSUME Consistent, NEW h \in held, NEW requeue \in BOOLEAN, GiveBack(h, requeue),
         NEW r \in Object, NEW m \in 1 .. MaxMessages, Present(r, m), ~Present(r, m)'
  PROVE  ~requeue /\ h.msg = m
<1> DEFINE back == [msg |-> h.msg, redelivered |-> TRUE]
<1>1. /\ ready \in [Object -> Seq(Pending)] /\ held' = held \ {h}
      /\ h.queue \in Object /\ back \in Pending
  BY DEF Consistent, DeliveryTypes, GiveBack, Held, Pending
<1>2. ready' = [ready EXCEPT ![h.queue] = IF requeue THEN <<back>> \o @ ELSE @]
  BY DEF GiveBack
<1>a. back.msg = h.msg
  OBVIOUS
<1> HIDE DEF back
<1>3. \A j \in DOMAIN ready'[r] : ready'[r][j].msg # m
  BY DEF Present, Waiting
<1>4. ready[r] \in Seq(Pending)
  BY <1>1
<1>5. CASE r = h.queue /\ requeue
  <2>1. ready'[r] = <<back>> \o ready[r]
    BY <1>1, <1>2, <1>5
  <2>2. /\ 1 \in DOMAIN ready'[r] /\ ready'[r][1] = back
        /\ \A i \in DOMAIN ready[r] : /\ i + 1 \in DOMAIN ready'[r]
                                      /\ ready'[r][i + 1] = ready[r][i]
    BY <1>1, <1>4, <2>1
  <2>3. PICK g \in held : g.queue = r /\ g.msg = m
    BY <1>3, <2>2 DEF Present, Waiting, Out
  <2>4. g \notin held'
    BY <2>3 DEF Present, Out
  <2> QED
    BY <1>1, <1>3, <1>a, <2>2, <2>3, <2>4
<1>6. CASE ~(r = h.queue /\ requeue)
  <2>1. ready'[r] = ready[r]
    BY <1>1, <1>2, <1>6
  <2>2. PICK g \in held : g.queue = r /\ g.msg = m
    BY <1>3, <2>1 DEF Present, Waiting, Out
  <2>3. g \notin held'
    BY <2>2 DEF Present, Out
  <2> QED
    BY <1>1, <1>6, <2>2, <2>3
<1> QED
  BY <1>5, <1>6

LEMMA GetLosesNothing ==
  ASSUME Consistent, NEW c \in Conn, NEW n \in QueueName, NEW ch \in Channel,
         NEW noAck \in BOOLEAN, Get(c, n, ch, noAck)
  PROVE  Lossless
<1>1. /\ named[n] \in Object /\ ready[named[n]] # <<>>
      /\ HandOut(c, named[n], ch, noAck)
  BY DEF Consistent, OtherTypes, Get
<1>2. ASSUME NEW r \in Object, NEW m \in 1 .. MaxMessages, Present(r, m), ~Present(r, m)'
      PROVE  EndsCopy(r, m)
  <2>1. r = named[n] /\ noAck /\ Head(ready[named[n]]).msg = m
    BY <1>1, <1>2, HandOutLoses
  <2>2. noAck = TRUE
    BY <2>1
  <2>3. Get(c, n, ch, TRUE)
    BY <2>2
  <2> QED
    BY <2>1, <2>3 DEF EndsCopy
<1> QED
  BY <1>2 DEF Lossless

LEMMA EmptyingLosesNothing ==
  ASSUME Consistent, NEW c \in Conn, NEW n \in QueueName, Purge(c, n) \/ Delete(c, n)
  PROVE  Lossless
<1>1. /\ ready \in [Object -> Seq(Pending)] /\ held' = held
      /\ ready' = [ready EXCEPT ![named[n]] = <<>>]
  BY DEF Consistent, DeliveryTypes, Purge, Delete, connVars
<1>2. ASSUME NEW r \in Object, NEW m \in 1 .. MaxMessages, Present(r, m), ~Present(r, m)'
      PROVE  r = named[n]
  BY <1>1, <1>2 DEF Present, Waiting, Out
<1> QED
  BY <1>2 DEF Lossless, EndsCopy

LEMMA AppendLosesNothing ==
  ASSUME Consistent, AppendStep
  PROVE  Lossless
<1>1. Head(work).queue \in Object /\ Head(work).msg \in 1 .. MaxMessages
  <2>1. Doing("append")
    BY DEF AppendStep
  <2>2. work # <<>> /\ work \in Seq(Step)
    BY <2>1 DEF Doing, Consistent, LoopTypes
  <2>3. Head(work) = work[1] /\ 1 \in Appends
    BY <2>1, <2>2 DEF Doing, Appends
  <2> QED
    BY <2>3, AppendIsTyped DEF Consistent
<1>2. PICK q \in Object, one \in Pending :
        /\ ready' = [ready EXCEPT ![q] = Append(@, one)]
        /\ held' = held /\ ready \in [Object -> Seq(Pending)]
  <2>1. [msg |-> Head(work).msg, redelivered |-> FALSE] \in Pending
    BY <1>1 DEF Pending
  <2> QED
    BY <1>1, <2>1 DEF Consistent, DeliveryTypes, AppendStep, connVars
<1>3. \A r \in Object : \A i \in DOMAIN ready[r] :
        i \in DOMAIN ready'[r] /\ ready'[r][i] = ready[r][i]
  BY <1>2
<1>4. \A r \in Object, m \in 1 .. MaxMessages : Present(r, m) => Present(r, m)'
  BY <1>2, <1>3 DEF Present, Waiting, Out
<1> QED
  BY <1>4 DEF Lossless

LEMMA GiveLosesNothing ==
  ASSUME Consistent, GiveStep
  PROVE  Lossless
<1>1. PICK h \in held : h = HeldAs(op.conn, Head(work).tag)
  BY GiveStepKeeps
<1>2. Doing("give") /\ GiveBack(h, op.requeue)
  BY <1>1 DEF GiveStep
<1>3. op.requeue \in BOOLEAN
  BY <1>2 DEF Consistent, LoopTypes, Free, Doing
<1>4. ASSUME NEW r \in Object, NEW m \in 1 .. MaxMessages, Present(r, m), ~Present(r, m)'
      PROVE  EndsCopy(r, m)
  <2>1. ~op.requeue /\ h.msg = m
    BY <1>2, <1>3, <1>4, GiveBackLoses
  <2> QED
    BY <1>1, <1>2, <2>1 DEF EndsCopy
<1> QED
  BY <1>4 DEF Lossless

LEMMA PushLosesNothing ==
  ASSUME Consistent, PushStep
  PROVE  Lossless
<1>1. PICK q \in Object, place \in Nat :
        /\ Doing("dispatch") /\ consumers[q][place] \in Consumer
        /\ place = IF turn'[q] = 0 THEN Len(consumers[q]) ELSE turn'[q]
        /\ ready[q] # <<>>
        /\ HandOut(consumers[q][place].owner, q, consumers[q][place].channel,
                   consumers[q][place].noAck)
  BY PushTakesTurn
<1> DEFINE taking == consumers[q][place]
<1>2. taking.owner \in Conn /\ taking.channel \in Channel /\ taking.noAck \in BOOLEAN
  BY <1>1 DEF Consumer
<1>3. HandOut(taking.owner, q, taking.channel, taking.noAck)
  BY <1>1
<1>4. consumers[q][IF turn'[q] = 0 THEN Len(consumers[q]) ELSE turn'[q]] = taking
  BY <1>1
<1> HIDE DEF taking
<1>5. ASSUME NEW r \in Object, NEW m \in 1 .. MaxMessages, Present(r, m), ~Present(r, m)'
      PROVE  EndsCopy(r, m)
  <2>1. r = q /\ taking.noAck /\ Head(ready[q]).msg = m
    BY <1>1, <1>2, <1>3, <1>5, HandOutLoses
  <2>2. consumers[r][IF turn'[r] = 0 THEN Len(consumers[r]) ELSE turn'[r]].noAck
    BY <1>4, <2>1
  <2> QED
    BY <1>1, <2>1, <2>2 DEF EndsCopy
<1> QED
  BY <1>5 DEF Lossless

LEMMA StepsLoseNothing == Consistent /\ [Next]_vars => Lossless
<1> SUFFICES ASSUME Consistent, [Next]_vars PROVE Lossless
  OBVIOUS
<1>1. CASE AppendStep
  BY <1>1, AppendLosesNothing
<1>2. CASE DropStep
  BY <1>2, UntouchedLosesNothing DEF DropStep, connVars
<1>3. CASE GiveStep
  BY <1>3, GiveLosesNothing
<1>4. CASE PushStep
  BY <1>4, PushLosesNothing
<1>5. CASE DispatchDone
  BY <1>5, UntouchedLosesNothing DEF DispatchDone, queueVars, connVars
<1>6. ASSUME NEW c \in Conn, Operation(c)
      PROVE  Lossless
  <2>1. CASE OpenConn(c) \/ CloseConn(c)
    BY <2>1, UntouchedLosesNothing DEF OpenConn, CloseConn, queueVars
  <2>2. CASE \/ \E e \in Exchange, kind \in Kinds : DeclareExchange(c, e, kind)
             \/ \E name \in Name \cup {Unnamed} : Declare(c, name)
             \/ \E name \in QueueName, e \in Exchange, key \in Key : Bind(c, name, e, key)
    BY <2>2, UntouchedLosesNothing DEF DeclareExchange, Declare, Bind, queueVars, connVars
  <2>3. CASE \/ \E name \in QueueName : PublishDefault(c, name)
             \/ \E e \in Exchange, key \in Key : Publish(c, e, key)
    BY <2>3, UntouchedLosesNothing
       DEF PublishDefault, Publish, PublishTo, queueVars, connVars
  <2>4. CASE \E name \in QueueName, ch \in Channel, noAck \in BOOLEAN :
               Get(c, name, ch, noAck)
    BY <2>4, GetLosesNothing
  <2>5. CASE \E name \in QueueName, requested \in TagsOf[c], ch \in Channel,
                noAck \in BOOLEAN : Consume(c, name, requested, ch, noAck)
    BY <2>5, UntouchedLosesNothing DEF Consume
  <2>6. CASE \E taking \in ConsumersOf(c) : Cancel(c, taking)
    BY <2>6, UntouchedLosesNothing DEF Cancel
  <2>7. CASE \E ch \in Channel, limit \in Prefetch : Qos(c, ch, limit)
    BY <2>7, UntouchedLosesNothing DEF Qos, queueVars
  <2>8. CASE \E tag \in 0 .. nextTag[c], ch \in Channel, multiple, requeue \in BOOLEAN :
               Settle(c, tag, ch, multiple, requeue)
    BY <2>8, UntouchedLosesNothing DEF Settle, queueVars, connVars
  <2>9. CASE \E name \in QueueName : Purge(c, name) \/ Delete(c, name)
    BY <2>9, EmptyingLosesNothing
  <2> QED
    BY <1>6, <2>1, <2>2, <2>3, <2>4, <2>5, <2>6, <2>7, <2>8, <2>9 DEF Operation
<1>7. CASE UNCHANGED vars
  BY <1>7, UntouchedLosesNothing DEF vars, queueVars, connVars
<1> QED
  BY <1>1, <1>2, <1>3, <1>4, <1>5, <1>6, <1>7 DEF Next, LoopStep

\* In every behaviour of the broker a queue's copy of a message ends only by a
\* settlement without requeue, a delivery nobody has to acknowledge, a purge or
\* a deletion: neither a requeue nor the end of a connection loses one (give,
\* push and Close of internal/queues).
THEOREM NothingLost == Spec => NoLoss
<1>1. Init => Consistent
  BY InitConsistent
<1>2. Consistent /\ [Next]_vars => Consistent'
  BY NextKeepsConsistent
<1>3. Consistent /\ [Next]_vars => Lossless
  BY StepsLoseNothing
<1>4. Lossless => [\A q \in Object, m \in 1 .. MaxMessages :
                     Present(q, m) /\ ~Present(q, m)' => EndsCopy(q, m)]_vars
  BY DEF Lossless
<1> QED
  BY <1>1, <1>2, <1>3, <1>4, PTL DEF Spec, NoLoss

----------------------------------------------------------------------------
(* Connections that go away, and the two records of who consumes           *)

\* No two connections ever carry the same consumer tag: none asks for a tag
\* of another's, or leaves the choice to the server where another does too,
\* and what the server makes up is no tag a client asks for.
TagsApart ==
  /\ \A c, d \in Conn : c # d => TagsOf[c] \cap TagsOf[d] = {}
  /\ Tag \cap (1 .. MaxGenerated) = {}

\* The connection may come to consume under this tag.
MayCarry(c, tag) ==
  \/ tag \in TagsOf[c] \cap Tag
  \/ Unnamed \in TagsOf[c] /\ tag \in 1 .. MaxGenerated

Drops == {i \in DOMAIN work : work[i].do = "drop"}

\* The connections' own maps: whoever consumes is open, under a tag of its own.
SubscribedSound ==
  \A s \in subscribed :
    /\ Open(s.owner) /\ MayCarry(s.owner, s.tag)
    /\ \A t \in subscribed : t.owner = s.owner /\ t.tag = s.tag => t = s

\* The queues' lists: a tag appears once in each.
ListsSound ==
  \A q \in Object : \A i \in DOMAIN consumers[q] :
    /\ consumers[q][i].queue = q
    /\ MayCarry(consumers[q][i].owner, consumers[q][i].tag)
    /\ \A j \in DOMAIN consumers[q] : consumers[q][j].tag = consumers[q][i].tag => j = i

\* Who consumes is listed ...
AllListed ==
  \A s \in subscribed :
    \E i \in DOMAIN consumers[s.queue] : consumers[s.queue][i] = s

\* ... and who is listed consumes, or is about to be dropped.
ListedOrLeaving ==
  \A q \in Object : \A i \in DOMAIN consumers[q] :
    \/ consumers[q][i] \in subscribed
    \/ \E k \in Drops : work[k].queue = q /\ work[k].tag = consumers[q][i].tag

\* Only a connection that has just closed drops, its own consumers, and
\* before anything else.
DropsComeFirst ==
  \A k \in Drops :
    /\ op.conn \in Conn /\ status[op.conn] = "closed" /\ MayCarry(op.conn, work[k].tag)
    /\ \A j \in 1 .. k : j \in Drops

\* What is out is with a connection that is open, or about to be given back.
HeldOrLeaving ==
  \A h \in held :
    \/ Open(h.conn)
    \/ \E k \in Gives : op.conn = h.conn /\ work[k].tag = h.tag

OwnInv ==
  /\ SubscribedSound /\ ListsSound /\ AllListed
  /\ ListedOrLeaving /\ DropsComeFirst /\ HeldOrLeaving

LEMMA OneCarrier ==
  ASSUME TagsApart, NEW c \in Conn, NEW d \in Conn, NEW tag, MayCarry(c, tag), MayCarry(d, tag)
  PROVE  c = d
BY DEF TagsApart, MayCarry

\* Between operations nothing is about to be dropped or given back.
Calm ==
  /\ \A q \in Object : \A i \in DOMAIN consumers[q] : consumers[q][i] \in subscribed
  /\ \A h \in held : Open(h.conn)

LEMMA FreeIsCalm ==
  ASSUME OwnInv, Free
  PROVE  Calm
<1>1. Drops = {} /\ Gives = {}
  BY DEF Free, Drops, Gives
<1> QED
  BY <1>1 DEF OwnInv, ListedOrLeaving, HeldOrLeaving, Calm

LEMMA CalmIsSound ==
  ASSUME SubscribedSound', ListsSound', AllListed', Calm', Drops' = {}
  PROVE  OwnInv'
BY DEF OwnInv, Calm, ListedOrLeaving, HeldOrLeaving, DropsComeFirst

\* An operation that leaves connections, consumers and deliveries alone.
LEMMA UntouchedOwn ==
  ASSUME OwnInv, Free, UNCHANGED <<subscribed, consumers, status, held>>, Drops' = {}
  PROVE  OwnInv'
<1>1. Calm
  BY FreeIsCalm
<1>2. SubscribedSound' /\ ListsSound' /\ AllListed' /\ Calm'
  BY <1>1 DEF OwnInv, SubscribedSound, ListsSound, AllListed, Calm, Open
<1> QED
  BY <1>2, CalmIsSound

LEMMA FreeDropsNothing ==
  ASSUME Free, UNCHANGED work
  PROVE  Drops' = {}
BY DEF Free, Drops

LEMMA TopologyOwn ==
  ASSUME OwnInv, NEW c \in Conn,
         \/ \E e \in Exchange, kind \in Kinds : DeclareExchange(c, e, kind)
         \/ \E name \in Name \cup {Unnamed} : Declare(c, name)
         \/ \E name \in QueueName, e \in Exchange, key \in Key : Bind(c, name, e, key)
         \/ \E name \in QueueName : Purge(c, name)
  PROVE  OwnInv'
<1>1. Free /\ UNCHANGED <<subscribed, consumers, status, held, work>>
  BY DEF DeclareExchange, Declare, Bind, Purge, queueVars, connVars
<1> QED
  BY <1>1, FreeDropsNothing, UntouchedOwn

LEMMA PublishOwn ==
  ASSUME Consistent, OwnInv, NEW c \in Conn,
         \/ \E name \in QueueName : PublishDefault(c, name)
         \/ \E e \in Exchange, key \in Key : Publish(c, e, key)
  PROVE  OwnInv'
<1>1. PICK order \in Seq(Object) : Free /\ published < MaxMessages /\ PublishTo(c, order)
  BY PublishVisits
<1>2. UNCHANGED <<subscribed, consumers, status, held>>
  BY <1>1 DEF PublishTo, queueVars, connVars
<1>3. \A i \in DOMAIN work' : work'[i].do \in {"append", "dispatch"}
  <2>1. \A i \in DOMAIN work' : work'[i].do # "dispatch" => work'[i].do = "append"
    BY <1>1, PublishToKeeps
  <2> QED
    BY <2>1
<1>4. Drops' = {}
  BY <1>3 DEF Drops
<1> QED
  BY <1>1, <1>2, <1>4, UntouchedOwn

LEMMA QosOwn ==
  ASSUME OwnInv, NEW c \in Conn, NEW ch \in Channel, NEW limit \in Prefetch,
         Qos(c, ch, limit)
  PROVE  OwnInv'
<1>1. Free /\ UNCHANGED <<subscribed, consumers, status, held>>
  BY DEF Qos, queueVars
<1>2. PICK offers : work' = [i \in DOMAIN offers |-> Dispatch(offers[i])]
  BY DEF Qos, Enter
<1>3. Drops' = {}
  BY <1>2 DEF Drops, Dispatch
<1> QED
  BY <1>1, <1>3, UntouchedOwn

LEMMA SettleOwn ==
  ASSUME OwnInv, NEW c \in Conn, NEW tag, NEW ch, NEW multiple, NEW requeue,
         Settle(c, tag, ch, multiple, requeue)
  PROVE  OwnInv'
<1>1. Free /\ UNCHANGED <<subscribed, consumers, status, held>>
  BY DEF Settle, queueVars, connVars
<1>2. PICK order :
        work' = [i \in 1 .. 2 * Len(order) |->
                   IF i % 2 = 1
                   THEN [do |-> "give", tag |-> order[(i + 1) \div 2].tag]
                   ELSE Dispatch(order[i \div 2].queue)]
  BY DEF Settle, Enter
<1>3. Drops' = {}
  BY <1>2 DEF Drops, Dispatch
<1> QED
  BY <1>1, <1>3, UntouchedOwn

LEMMA OpenConnOwn ==
  ASSUME Consistent, OwnInv, NEW c \in Conn, OpenConn(c)
  PROVE  OwnInv'
<1>1. /\ Free /\ UNCHANGED <<subscribed, consumers, held, work>>
      /\ status' = [status EXCEPT ![c] = "open"]
  BY DEF OpenConn, queueVars
<1>2. \A d \in Conn : Open(d) => Open(d)'
  BY <1>1 DEF Consistent, OtherTypes, Open
<1>3. /\ \A s \in subscribed : s.owner \in Conn
      /\ \A h \in held : h.conn \in Conn
  BY DEF Consistent, OtherTypes, DeliveryTypes, Consumer, Held
<1>4. Calm /\ SubscribedSound /\ ListsSound /\ AllListed
  BY <1>1, FreeIsCalm DEF OwnInv
<1>5. Calm'
  BY <1>1, <1>2, <1>3, <1>4 DEF Calm
<1>6. SubscribedSound'
  BY <1>1, <1>2, <1>3, <1>4 DEF SubscribedSound
<1>7. ListsSound' /\ AllListed'
  BY <1>1, <1>4 DEF ListsSound, AllListed
<1> QED
  BY <1>1, <1>5, <1>6, <1>7, FreeDropsNothing, CalmIsSound

LEMMA GetOwn ==
  ASSUME OwnInv, NEW c \in Conn, NEW name \in QueueName, NEW ch \in Channel,
         NEW noAck \in BOOLEAN, Get(c, name, ch, noAck)
  PROVE  OwnInv'
<1>1. /\ Free /\ Open(c) /\ UNCHANGED <<subscribed, consumers, status, work>>
      /\ HandOut(c, named[name], ch, noAck)
  BY DEF Get
<1> DEFINE new == [conn |-> c, tag |-> nextTag[c] + 1, queue |-> named[name],
                   msg |-> Head(ready[named[name]]).msg, channel |-> ch]
<1>2. new.conn = c /\ held' \subseteq held \cup {new}
  BY <1>1 DEF HandOut
<1> HIDE DEF new
<1>3. Calm
  BY <1>1, FreeIsCalm
<1>4. Calm'
  BY <1>1, <1>2, <1>3 DEF Calm, Open
<1>5. SubscribedSound' /\ ListsSound' /\ AllListed'
  BY <1>1 DEF OwnInv, SubscribedSound, ListsSound, AllListed, Open
<1> QED
  BY <1>1, <1>4, <1>5, FreeDropsNothing, CalmIsSound

LEMMA ConsumeOwn ==
  ASSUME TagsApart, Consistent, OwnInv, NEW c \in Conn, NEW name \in QueueName,
         NEW requested \in TagsOf[c], NEW ch \in Channel, NEW noAck \in BOOLEAN,
         Consume(c, name, requested, ch, noAck)
  PROVE  OwnInv'
<1> DEFINE tag == IF requested = Unnamed THEN ctags[c] + 1 ELSE requested
           taking == [tag |-> tag, queue |-> named[name], owner |-> c,
                      channel |-> ch, noAck |-> noAck]
<1>1. /\ Free /\ Open(c) /\ named[name] \in Object /\ UNCHANGED <<status, held>>
      /\ requested = Unnamed => ctags[c] < MaxGenerated
      /\ \/ UNCHANGED <<subscribed, consumers, work>>
         \/ /\ \A s \in ConsumersOf(c) : s.tag # tag
            /\ subscribed' = subscribed \cup {taking}
            /\ consumers' = [consumers EXCEPT ![named[name]] = Append(@, taking)]
            /\ work' = <<Dispatch(named[name])>>
  BY DEF Consistent, OtherTypes, Consume, Enter
<1>2. MayCarry(c, tag)
  <2>1. MaxGenerated \in Nat /\ ctags[c] \in 0 .. MaxGenerated
        /\ requested \in Tag \cup {Unnamed}
    BY DEF Consistent, OtherTypes
  <2> QED
    BY <1>1, <2>1 DEF MayCarry
<1>3. taking.owner = c /\ taking.tag = tag /\ taking.queue = named[name]
  OBVIOUS
<1> HIDE DEF taking, tag
<1>4. CASE UNCHANGED <<subscribed, consumers, work>>
  BY <1>1, <1>4, FreeDropsNothing, UntouchedOwn
<1>5. CASE /\ \A s \in ConsumersOf(c) : s.tag # tag
           /\ subscribed' = subscribed \cup {taking}
           /\ consumers' = [consumers EXCEPT ![named[name]] = Append(@, taking)]
           /\ work' = <<Dispatch(named[name])>>
  <2> DEFINE q == named[name]
             last == Len(consumers[q]) + 1
  <2>1. /\ consumers \in [Object -> Seq(Consumer)] /\ q \in Object
        /\ consumers[q] \in Seq(Consumer)
        /\ \A s \in subscribed : s.queue \in Object /\ s.owner \in Conn
    BY <1>1 DEF Consistent, OtherTypes, Consumer
  <2>2. /\ \A r \in Object : r # q => consumers'[r] = consumers[r]
        /\ DOMAIN consumers'[q] = 1 .. last /\ consumers'[q][last] = taking
        /\ DOMAIN consumers[q] = 1 .. last - 1 /\ last \in Nat \ {0}
        /\ \A i \in 1 .. last - 1 : consumers'[q][i] = consumers[q][i]
    BY <1>5, <2>1
  <2>3. Calm /\ SubscribedSound /\ ListsSound /\ AllListed
    BY <1>1, FreeIsCalm DEF OwnInv
  <2>4. \A i \in 1 .. last - 1 : consumers[q][i].tag # tag
    <3> SUFFICES ASSUME NEW i \in 1 .. last - 1, consumers[q][i].tag = tag PROVE FALSE
      OBVIOUS
    <3>1. /\ consumers[q][i] \in subscribed
          /\ MayCarry(consumers[q][i].owner, consumers[q][i].tag)
      BY <2>1, <2>2, <2>3 DEF Calm, ListsSound
    <3>2. consumers[q][i].owner = c
      BY <1>2, <2>1, <3>1, OneCarrier
    <3> QED
      BY <1>5, <3>1, <3>2 DEF ConsumersOf
  <2> HIDE DEF last
  <2>5. SubscribedSound'
    <3>1. \A d : Open(d)' <=> Open(d)
      BY <1>1 DEF Open
    <3>2. \A s \in subscribed : s.owner = c => s.tag # tag
      BY <1>5 DEF ConsumersOf
    <3> QED
      BY <1>1, <1>2, <1>3, <1>5, <2>3, <3>1, <3>2 DEF SubscribedSound
  <2>6. ListsSound'
    <3>1. ASSUME NEW r \in Object, NEW i \in DOMAIN consumers'[r]
          PROVE  /\ consumers'[r][i].queue = r
                 /\ MayCarry(consumers'[r][i].owner, consumers'[r][i].tag)
                 /\ \A j \in DOMAIN consumers'[r] :
                      consumers'[r][j].tag = consumers'[r][i].tag => j = i
      <4>1. CASE r # q
        BY <2>2, <2>3, <4>1 DEF ListsSound
      <4>2. CASE r = q /\ i = last
        <5>1. \A j \in 1 .. last : j # last => consumers'[q][j].tag # tag
          BY <2>2, <2>4
        <5> QED
          BY <1>2, <1>3, <2>2, <4>2, <5>1
      <4>3. CASE r = q /\ i # last
        <5>1. i \in 1 .. last - 1 /\ consumers'[q][i] = consumers[q][i]
          BY <2>2, <4>3
        <5>2. /\ consumers[q][i].queue = q
              /\ MayCarry(consumers[q][i].owner, consumers[q][i].tag)
              /\ \A j \in 1 .. last - 1 : consumers[q][j].tag = consumers[q][i].tag => j = i
          BY <2>1, <2>2, <2>3, <5>1 DEF ListsSound
        <5>3. \A j \in 1 .. last : consumers'[q][j].tag = consumers[q][i].tag => j = i
          <6>1. \A j \in 1 .. last : j # last => j \in 1 .. last - 1
            BY <2>2
          <6> QED
            BY <1>3, <2>2, <2>4, <5>1, <5>2, <6>1
        <5> QED
          BY <2>2, <4>3, <5>1, <5>2, <5>3
      <4> QED
        BY <4>1, <4>2, <4>3
    <3> QED
      BY <3>1 DEF ListsSound
  <2>7. AllListed'
    <3>1. ASSUME NEW s \in subscribed
          PROVE  \E i \in DOMAIN consumers'[s.queue] : consumers'[s.queue][i] = s
      <4>1. PICK i \in DOMAIN consumers[s.queue] : consumers[s.queue][i] = s
        BY <2>3 DEF AllListed
      <4>2. CASE s.queue # q
        BY <2>1, <2>2, <4>1, <4>2
      <4>3. CASE s.queue = q
        <5>1. i \in 1 .. last - 1 /\ i \in 1 .. last
          BY <2>2, <4>1, <4>3
        <5> QED
          BY <2>2, <4>1, <4>3, <5>1
      <4> QED
        BY <4>2, <4>3
    <3>2. last \in DOMAIN consumers'[taking.queue] /\ consumers'[taking.queue][last] = taking
      BY <1>3, <2>2
    <3> QED
      BY <1>5, <3>1, <3>2 DEF AllListed
  <2>8. Calm'
    <3>1. ASSUME NEW r \in Object, NEW i \in DOMAIN consumers'[r]
          PROVE  consumers'[r][i] \in subscribed'
      <4>1. CASE r # q
        BY <1>5, <2>2, <2>3, <4>1 DEF Calm
      <4>2. CASE r = q
        <5>1. i = last \/ i \in 1 .. last - 1
          BY <2>2, <4>2
        <5> QED
          BY <1>5, <2>1, <2>2, <2>3, <4>2, <5>1 DEF Calm
      <4> QED
        BY <4>1, <4>2
    <3> QED
      BY <1>1, <2>3, <3>1 DEF Calm, Open
  <2>9. Drops' = {}
    BY <1>5 DEF Drops, Dispatch
  <2> QED
    BY <2>5, <2>6, <2>7, <2>8, <2>9, CalmIsSound
<1> QED
  BY <1>1, <1>4, <1>5

\* dropConsumer takes the one consumer of the queue with this tag out of its
\* list, and nobody else.
Thinned(q, tag) ==
  \A r \in Object :
    /\ \A i \in DOMAIN consumers'[r] : \E j \in DOMAIN consumers[r] :
         /\ consumers'[r][i] = consumers[r][j]
         /\ ~(r = q /\ consumers[r][j].tag = tag)
    /\ \A j \in DOMAIN consumers[r] : ~(r = q /\ consumers[r][j].tag = tag) =>
         \E i \in DOMAIN consumers'[r] : consumers'[r][i] = consumers[r][j]

\* u is s without its f-th member.
Skips(u, s, f) ==
  /\ DOMAIN u = 1 .. Len(s) - 1
  /\ \A i \in 1 .. Len(s) - 1 : u[i] = IF i < f THEN s[i] ELSE s[i + 1]

LEMMA WithoutOne ==
  ASSUME NEW T, NEW s \in Seq(T), NEW f \in 1 .. Len(s),
         NEW u, u = SubSeq(s, 1, f - 1) \o SubSeq(s, f + 1, Len(s))
  PROVE  Skips(u, s, f)
<1> DEFINE a == SubSeq(s, 1, f - 1)
           b == SubSeq(s, f + 1, Len(s))
<1>1. Len(s) \in Nat /\ DOMAIN s = 1 .. Len(s) /\ f \in Nat
  OBVIOUS
<1>2. /\ a \in Seq(T) /\ Len(a) = f - 1
      /\ \A i \in 1 .. f - 1 : a[i] = s[i]
  BY <1>1
<1>3. /\ b \in Seq(T) /\ Len(b) = Len(s) - f
      /\ \A i \in 1 .. Len(s) - f : b[i] = s[f + i]
  <2> DEFINE m == f + 1
             n == Len(s)
  <2>1. m \in Nat /\ n \in Nat /\ m = f + 1 /\ n = Len(s) /\ m \in Int /\ n \in Int
    BY <1>1
  <2>2. \A i \in m .. n : s[i] \in T
    BY <1>1
  <2>4. b = SubSeq(s, m, n)
    OBVIOUS
  <2> HIDE DEF m, n, b
  <2>3. /\ SubSeq(s, m, n) \in Seq(T)
        /\ Len(SubSeq(s, m, n)) = IF m <= n THEN n - m + 1 ELSE 0
        /\ \A i \in 1 .. n - m + 1 : SubSeq(s, m, n)[i] = s[m + i - 1]
    BY <2>1, <2>2, SubSeqProperties
  <2>5. n - m + 1 = Len(s) - f /\ f <= Len(s)
    BY <1>1, <2>1
  <2>6. b \in Seq(T) /\ Len(b) = Len(s) - f
    <3>1. Len(b) = IF m <= n THEN n - m + 1 ELSE 0
      BY <2>3, <2>4
    <3>2. CASE m <= n
      BY <2>3, <2>4, <2>5, <3>1, <3>2
    <3>3. CASE ~(m <= n)
      <4>1. f <= n /\ m = f + 1 /\ f \in Nat /\ n \in Nat
        BY <1>1, <2>1, <2>5
      <4>2. f = n
        BY <3>3, <4>1
      <4>3. Len(s) - f = 0
        BY <2>1, <4>1, <4>2
      <4> QED
        BY <2>3, <2>4, <3>1, <3>3, <4>3
    <3> QED
      BY <3>2, <3>3
  <2>7. ASSUME NEW i \in 1 .. Len(s) - f
        PROVE  b[i] = s[f + i]
    <3>1. m + i - 1 = f + i
      BY <1>1, <2>1
    <3> QED
      BY <2>3, <2>4, <2>5, <3>1
  <2> QED
    BY <2>6, <2>7
<1> HIDE DEF a, b
<1>4. u = a \o b
  BY DEF a, b
<1>5. /\ DOMAIN u = 1 .. Len(s) - 1
      /\ \A i \in 1 .. Len(s) - 1 : u[i] = IF i < f THEN a[i] ELSE b[i - (f - 1)]
  <2>1. /\ u \in Seq(T) /\ Len(u) = Len(a) + Len(b)
        /\ \A i \in 1 .. Len(a) + Len(b) : u[i] = IF i <= Len(a) THEN a[i] ELSE b[i - Len(a)]
    <3>1. /\ a \o b \in Seq(T) /\ Len(a \o b) = Len(a) + Len(b)
          /\ \A i \in 1 .. Len(a) + Len(b) :
               (a \o b)[i] = IF i <= Len(a) THEN a[i] ELSE b[i - Len(a)]
      <4>1. a \in Seq(T) /\ b \in Seq(T)
        BY <1>2, <1>3
      <4> QED
        BY <4>1, ConcatProperties, Zenon
    <3> QED
      BY <1>4, <3>1
  <2>2. DOMAIN u = 1 .. Len(u)
    BY <2>1
  <2>3. Len(a) + Len(b) = Len(s) - 1 /\ Len(a) = f - 1
    BY <1>1, <1>2, <1>3
  <2>4. ASSUME NEW i \in 1 .. Len(s) - 1
        PROVE  u[i] = IF i < f THEN a[i] ELSE b[i - (f - 1)]
    <3>1. i <= f - 1 <=> i < f
      BY <1>1
    <3> QED
      BY <2>1, <2>3, <3>1
  <2> QED
    BY <2>1, <2>2, <2>3, <2>4
<1>6. ASSUME NEW i \in 1 .. Len(s) - 1
      PROVE  u[i] = IF i < f THEN s[i] ELSE s[i + 1]
  <2>1. CASE i < f
    <3>1. i \in 1 .. f - 1
      BY <1>1, <2>1
    <3> QED
      BY <1>2, <1>5, <2>1, <3>1
  <2>2. CASE ~(i < f)
    <3>1. i - (f - 1) \in 1 .. Len(s) - f /\ f + (i - (f - 1)) = i + 1
      BY <1>1, <2>2
    <3> QED
      BY <1>1, <1>3, <1>5, <2>2, <3>1
  <2> QED
    BY <2>1, <2>2
<1> QED
  BY <1>5, <1>6 DEF Skips

LEMMA DropConsumerThins ==
  ASSUME OtherTypes, ListsSound, NEW q \in Object, NEW tag, DropConsumer(q, tag)
  PROVE  Thinned(q, tag) /\ ListsSound'
<1> DEFINE s == consumers[q]
           carrying == {i \in DOMAIN s : s[i].tag = tag}
           first == CHOOSE i \in carrying : \A j \in carrying : i <= j
<1>1. s \in Seq(Consumer) /\ consumers \in [Object -> Seq(Consumer)]
  BY DEF OtherTypes
<1>2. \/ carrying = {} /\ consumers' = consumers
      \/ /\ carrying # {}
         /\ consumers' = [consumers EXCEPT ![q] = SubSeq(@, 1, first - 1)
                                                    \o SubSeq(@, first + 1, Len(@))]
  BY DEF DropConsumer
<1>3. CASE carrying = {} /\ consumers' = consumers
  <2>1. Thinned(q, tag)
    BY <1>3 DEF Thinned
  <2>2. ListsSound'
    BY <1>3 DEF ListsSound
  <2> QED
    BY <2>1, <2>2
<1>4. CASE /\ carrying # {}
           /\ consumers' = [consumers EXCEPT ![q] = SubSeq(@, 1, first - 1)
                                                      \o SubSeq(@, first + 1, Len(@))]
  <2>1. PICK f \in DOMAIN s : s[f].tag = tag /\ f = first
    <3>1. carrying \in SUBSET Nat
      BY <1>1
    <3>2. PICK n \in carrying : TRUE
      BY <1>4
    <3>3. \E i \in carrying : \A j \in carrying : i <= j
      <4> HIDE DEF carrying
      <4> QED
        BY <3>1, <3>2, SmallestOfNats
    <3>4. first \in carrying
      <4> HIDE DEF carrying
      <4> QED
        BY <3>3
    <3> QED
      BY <3>4
  <2>2. \A j \in DOMAIN s : s[j].tag = tag <=> j = f
    BY <2>1 DEF ListsSound
  <2>3. consumers' = [consumers EXCEPT ![q] = SubSeq(s, 1, f - 1) \o SubSeq(s, f + 1, Len(s))]
    BY <1>4, <2>1
  <2> DEFINE u == consumers'[q]
             At(i) == IF i < f THEN i ELSE i + 1
  <2>4. \A r \in Object : r # q => consumers'[r] = consumers[r]
    BY <1>1, <2>3
  <2>5. u = SubSeq(s, 1, f - 1) \o SubSeq(s, f + 1, Len(s))
    BY <1>1, <2>3
  <2>6. f \in 1 .. Len(s) /\ Len(s) \in Nat /\ DOMAIN s = 1 .. Len(s)
    BY <1>1, <2>1
  <2> HIDE DEF s, u, first
  <2>7. /\ DOMAIN u = 1 .. Len(s) - 1
        /\ \A i \in 1 .. Len(s) - 1 : u[i] = IF i < f THEN s[i] ELSE s[i + 1]
    <3>1. Skips(u, s, f)
      BY <1>1, <2>5, <2>6, WithoutOne
    <3> QED
      BY <3>1 DEF Skips
  <2>8. \A i \in DOMAIN u : At(i) \in DOMAIN s /\ At(i) # f /\ u[i] = s[At(i)]
    BY <2>6, <2>7
  <2>9. \A i, j \in DOMAIN u : At(i) = At(j) => i = j
    BY <2>6, <2>7
  <2>10. \A j \in DOMAIN s : j # f => \E i \in DOMAIN u : At(i) = j
    <3> SUFFICES ASSUME NEW j \in DOMAIN s, j # f PROVE \E i \in DOMAIN u : At(i) = j
      OBVIOUS
    <3>1. CASE j < f
      <4>1. j \in DOMAIN u /\ At(j) = j
        BY <2>6, <2>7, <3>1
      <4> QED
        BY <4>1
    <3>2. CASE ~(j < f)
      <4>1. j - 1 \in DOMAIN u /\ At(j - 1) = j
        BY <2>6, <2>7, <3>2
      <4> QED
        BY <4>1
    <3> QED
      BY <3>1, <3>2
  <2> HIDE DEF At
  <2>11. Thinned(q, tag)
    <3>1. ASSUME NEW i \in DOMAIN u
          PROVE  \E j \in DOMAIN s : u[i] = s[j] /\ s[j].tag # tag
      BY <2>2, <2>8
    <3>2. ASSUME NEW j \in DOMAIN s, s[j].tag # tag
          PROVE  \E i \in DOMAIN u : u[i] = s[j]
      <4>1. PICK i \in DOMAIN u : At(i) = j
        BY <2>1, <2>10, <3>2
      <4> QED
        BY <2>8, <4>1
    <3> QED
      BY <2>4, <3>1, <3>2 DEF Thinned, s, u
  <2>12. ListsSound'
    <3>1. ASSUME NEW i \in DOMAIN u
          PROVE  /\ u[i].queue = q /\ MayCarry(u[i].owner, u[i].tag)
                 /\ \A j \in DOMAIN u : u[j].tag = u[i].tag => j = i
      <4>1. /\ s[At(i)].queue = q /\ MayCarry(s[At(i)].owner, s[At(i)].tag)
            /\ \A j \in DOMAIN s : s[j].tag = s[At(i)].tag => j = At(i)
        BY <2>8 DEF ListsSound, s
      <4> QED
        BY <2>8, <2>9, <4>1
    <3>2. \A r \in Object : r # q => \A i \in DOMAIN consumers'[r] :
            /\ consumers'[r][i].queue = r
            /\ MayCarry(consumers'[r][i].owner, consumers'[r][i].tag)
            /\ \A j \in DOMAIN consumers'[r] :
                 consumers'[r][j].tag = consumers'[r][i].tag => j = i
      BY <2>4 DEF ListsSound
    <3> QED
      BY <3>1, <3>2 DEF ListsSound, u
  <2> QED
    BY <2>11, <2>12
<1> QED
  BY <1>2, <1>3, <1>4

LEMMA CancelOwn ==
  ASSUME Consistent, OwnInv, NEW c \in Conn, NEW taking \in ConsumersOf(c), Cancel(c, taking)
  PROVE  OwnInv'
<1>1. /\ Free /\ UNCHANGED <<status, held, work>>
      /\ subscribed' = subscribed \ {taking} /\ DropConsumer(taking.queue, taking.tag)
  BY DEF Cancel
<1>2. Calm /\ SubscribedSound /\ ListsSound /\ AllListed
  BY <1>1, FreeIsCalm DEF OwnInv
<1>3. /\ taking \in subscribed /\ taking.queue \in Object
      /\ \A s \in subscribed : s.queue \in Object
  BY DEF Consistent, OtherTypes, ConsumersOf, Consumer
<1>4. Thinned(taking.queue, taking.tag) /\ ListsSound'
  BY <1>1, <1>2, <1>3, DropConsumerThins DEF Consistent
<1>5. SubscribedSound'
  BY <1>1, <1>2 DEF SubscribedSound, Open
<1>6. PICK t \in DOMAIN consumers[taking.queue] : consumers[taking.queue][t] = taking
  BY <1>2, <1>3 DEF AllListed
<1>7. AllListed'
  <2> SUFFICES ASSUME NEW s \in subscribed, s # taking
               PROVE  \E i \in DOMAIN consumers'[s.queue] : consumers'[s.queue][i] = s
    BY <1>1 DEF AllListed
  <2>1. PICK j \in DOMAIN consumers[s.queue] : consumers[s.queue][j] = s
    BY <1>2 DEF AllListed
  <2>2. ~(s.queue = taking.queue /\ s.tag = taking.tag)
    BY <1>2, <1>3, <1>6, <2>1 DEF ListsSound
  <2> QED
    BY <1>3, <1>4, <2>1, <2>2 DEF Thinned
<1>8. Calm'
  <2>1. ASSUME NEW r \in Object, NEW i \in DOMAIN consumers'[r]
        PROVE  consumers'[r][i] \in subscribed'
    <3>1. PICK j \in DOMAIN consumers[r] :
            /\ consumers'[r][i] = consumers[r][j]
            /\ ~(r = taking.queue /\ consumers[r][j].tag = taking.tag)
      BY <1>4 DEF Thinned
    <3>2. consumers[r][j] \in subscribed /\ consumers[r][j].queue = r
      BY <1>2 DEF Calm, ListsSound
    <3> QED
      BY <1>1, <3>1, <3>2
  <2> QED
    BY <1>1, <1>2, <2>1 DEF Calm, Open
<1> QED
  BY <1>1, <1>4, <1>5, <1>7, <1>8, FreeDropsNothing, CalmIsSound

LEMMA DeleteOwn ==
  ASSUME Consistent, OwnInv, NEW c \in Conn, NEW name \in QueueName, Delete(c, name)
  PROVE  OwnInv'
<1> DEFINE q == named[name]
<1>1. /\ Free /\ UNCHANGED <<status, held, work>>
      /\ consumers' = [consumers EXCEPT ![q] = <<>>]
      /\ subscribed' = {s \in subscribed :
           ~ \E i \in DOMAIN consumers[q] : /\ consumers[q][i].owner = s.owner
                                            /\ consumers[q][i].tag = s.tag}
      /\ q \in Object /\ consumers \in [Object -> Seq(Consumer)]
  BY DEF Consistent, OtherTypes, Delete
<1> HIDE DEF q
<1>2. Calm /\ SubscribedSound /\ ListsSound /\ AllListed
  BY <1>1, FreeIsCalm DEF OwnInv
<1>3. \A s \in subscribed : s.queue \in Object
  BY DEF Consistent, OtherTypes, Consumer
<1>4. \A s \in subscribed : s \in subscribed' <=> s.queue # q
  <2> TAKE s \in subscribed
  <2>1. CASE s.queue = q
    BY <1>1, <1>2, <2>1 DEF AllListed
  <2>2. CASE s.queue # q
    <3>1. ASSUME NEW i \in DOMAIN consumers[q], consumers[q][i].owner = s.owner,
                 consumers[q][i].tag = s.tag
          PROVE  FALSE
      <4>1. consumers[q][i] \in subscribed /\ consumers[q][i].queue = q
        BY <1>1, <1>2 DEF Calm, ListsSound
      <4>2. consumers[q][i] = s
        BY <1>2, <3>1, <4>1 DEF SubscribedSound
      <4> QED
        BY <2>2, <4>1, <4>2
    <3> QED
      BY <1>1, <2>2, <3>1
  <2> QED
    BY <2>1, <2>2
<1>5. /\ \A r \in Object : r # q => consumers'[r] = consumers[r]
      /\ DOMAIN consumers'[q] = {}
      /\ subscribed' \subseteq subscribed
  BY <1>1
<1>6. SubscribedSound'
  BY <1>1, <1>2, <1>5 DEF SubscribedSound, Open
<1>7. ListsSound'
  BY <1>2, <1>5 DEF ListsSound
<1>8. AllListed'
  BY <1>2, <1>3, <1>4, <1>5 DEF AllListed
<1>9. Calm'
  <2>1. ASSUME NEW r \in Object, NEW i \in DOMAIN consumers'[r]
        PROVE  consumers'[r][i] \in subscribed'
    <3>1. r # q /\ consumers'[r] = consumers[r]
      BY <1>5
    <3>2. consumers[r][i] \in subscribed /\ consumers[r][i].queue = r
      BY <1>2, <3>1 DEF Calm, ListsSound
    <3> QED
      BY <1>4, <3>1, <3>2
  <2> QED
    BY <1>1, <1>2, <2>1 DEF Calm, Open
<1> QED
  BY <1>1, <1>6, <1>7, <1>8, <1>9, FreeDropsNothing, CalmIsSound

\* Going on to the next iteration keeps the drops in front, and what is still
\* to be done.
StillToDo ==
  \A k \in DOMAIN work : k # 1 =>
    \E i \in DOMAIN work' : work'[i] = work[k] /\ op' = op

LEMMA AdvanceDrops ==
  ASSUME Consistent, DropsComeFirst, work # <<>>, Advance, UNCHANGED status
  PROVE  StillToDo /\ DropsComeFirst'
<1>1. /\ \A i \in DOMAIN work' : /\ i + 1 \in DOMAIN work /\ i + 1 # 1
                                 /\ work'[i] = work[i + 1] /\ op' = op
      /\ LoopTypes'
  BY AdvanceTail DEF Consistent
<1>2. /\ work \in Seq(Step) /\ work' \in Seq(Step) /\ work' = Tail(work)
      /\ DOMAIN work = 1 .. Len(work) /\ DOMAIN work' = 1 .. Len(work')
      /\ Len(work) \in Nat \ {0} /\ Len(work') = Len(work) - 1
  BY <1>1 DEF Consistent, LoopTypes, Advance
<1>3. StillToDo
  <2> SUFFICES ASSUME NEW k \in DOMAIN work, k # 1
               PROVE  \E i \in DOMAIN work' : work'[i] = work[k] /\ op' = op
    BY DEF StillToDo
  <2>1. k - 1 \in DOMAIN work' /\ (k - 1) + 1 = k
    BY <1>2
  <2> QED
    BY <1>1, <2>1
<1>4. DropsComeFirst'
  <2> SUFFICES ASSUME NEW k \in Drops'
               PROVE  /\ op'.conn \in Conn /\ status[op'.conn] = "closed"
                      /\ MayCarry(op'.conn, work'[k].tag)
                      /\ \A j \in 1 .. k : j \in Drops'
    BY DEF DropsComeFirst
  <2>1. k \in DOMAIN work' /\ k + 1 \in Drops /\ work'[k] = work[k + 1] /\ op' = op
    BY <1>1 DEF Drops
  <2>2. /\ op.conn \in Conn /\ status[op.conn] = "closed" /\ MayCarry(op.conn, work[k + 1].tag)
        /\ \A j \in 1 .. k + 1 : j \in Drops
    BY <2>1 DEF DropsComeFirst
  <2>3. ASSUME NEW j \in 1 .. k
        PROVE  j \in Drops'
    <3>1. j \in DOMAIN work' /\ j + 1 \in 1 .. k + 1
      BY <1>2, <2>1
    <3> QED
      BY <1>1, <2>2, <3>1 DEF Drops
  <2> QED
    BY <2>1, <2>2, <2>3
<1> QED
  BY <1>3, <1>4

LEMMA QuietStepOwn ==
  ASSUME Consistent, OwnInv, AppendStep \/ DispatchDone
  PROVE  OwnInv'
<1>1. /\ work # <<>> /\ Head(work).do \in {"append", "dispatch"} /\ Advance
      /\ UNCHANGED <<subscribed, consumers, status, held>>
  BY DEF AppendStep, DispatchDone, Doing, queueVars, connVars
<1>2. StillToDo /\ DropsComeFirst'
  BY <1>1, AdvanceDrops DEF OwnInv
<1>3. work[1] = Head(work)
  BY <1>1, AdvanceTail DEF Consistent
<1>4. /\ \A k \in Drops : \E i \in Drops' : work'[i] = work[k]
      /\ \A k \in Gives : \E i \in Gives' : work'[i] = work[k] /\ op' = op
  BY <1>1, <1>2, <1>3 DEF StillToDo, Drops, Gives
<1>5. ListedOrLeaving'
  <2> SUFFICES ASSUME NEW q \in Object, NEW i \in DOMAIN consumers[q],
                      consumers[q][i] \notin subscribed
               PROVE  \E k \in Drops' : work'[k].queue = q /\ work'[k].tag = consumers[q][i].tag
    BY <1>1 DEF ListedOrLeaving
  <2>1. PICK k \in Drops : work[k].queue = q /\ work[k].tag = consumers[q][i].tag
    BY DEF OwnInv, ListedOrLeaving
  <2> QED
    BY <1>4, <2>1
<1>6. HeldOrLeaving'
  <2> SUFFICES ASSUME NEW h \in held, ~Open(h.conn)
               PROVE  \E k \in Gives' : op'.conn = h.conn /\ work'[k].tag = h.tag
    BY <1>1 DEF HeldOrLeaving, Open
  <2>1. PICK k \in Gives : op.conn = h.conn /\ work[k].tag = h.tag
    BY DEF OwnInv, HeldOrLeaving
  <2> QED
    BY <1>4, <2>1
<1>7. SubscribedSound' /\ ListsSound' /\ AllListed'
  BY <1>1 DEF OwnInv, SubscribedSound, ListsSound, AllListed, Open
<1> QED
  BY <1>2, <1>5, <1>6, <1>7 DEF OwnInv

\* The connection that closes drops a consumer of its own.
LEMMA DropStepOwn ==
  ASSUME TagsApart, Consistent, OwnInv, DropStep
  PROVE  OwnInv'
<1> DEFINE q == Head(work).queue
           tag == Head(work).tag
<1>1. /\ work # <<>> /\ Head(work).do = "drop" /\ Advance
      /\ DropConsumer(q, tag)
      /\ UNCHANGED <<subscribed, status, held>>
  BY DEF DropStep, Doing, connVars
<1>2. StillToDo /\ DropsComeFirst'
  BY <1>1, AdvanceDrops DEF OwnInv
<1>3. work[1] = Head(work) /\ 1 \in DOMAIN work /\ Head(work) \in Step
  BY <1>1, AdvanceTail DEF Consistent, LoopTypes
<1>4. q \in Object
  BY <1>1, <1>3 DEF Step
<1>5. op.conn \in Conn /\ ~Open(op.conn) /\ MayCarry(op.conn, tag)
  <2>1. 1 \in Drops
    BY <1>1, <1>3 DEF Drops
  <2> QED
    BY <1>3, <2>1 DEF OwnInv, DropsComeFirst, Open
<1>a. q = work[1].queue /\ tag = work[1].tag
  BY <1>3
<1> HIDE DEF q, tag
<1>6. Thinned(q, tag) /\ ListsSound'
  BY <1>1, <1>4, DropConsumerThins DEF Consistent, OwnInv
<1>7. SubscribedSound'
  BY <1>1 DEF OwnInv, SubscribedSound, Open
<1>8. AllListed'
  <2> SUFFICES ASSUME NEW s \in subscribed
               PROVE  \E i \in DOMAIN consumers'[s.queue] : consumers'[s.queue][i] = s
    BY <1>1 DEF AllListed
  <2>1. PICK j \in DOMAIN consumers[s.queue] : consumers[s.queue][j] = s
    BY DEF OwnInv, AllListed
  <2>2. s.owner \in Conn /\ s.queue \in Object
    BY DEF Consistent, OtherTypes, Consumer
  <2>3. Open(s.owner) /\ MayCarry(s.owner, s.tag)
    BY DEF OwnInv, SubscribedSound
  <2>4. s.tag # tag
    BY <1>5, <2>2, <2>3, OneCarrier
  <2> QED
    BY <1>6, <2>1, <2>2, <2>4 DEF Thinned
<1>9. ListedOrLeaving'
  <2> SUFFICES ASSUME NEW r \in Object, NEW i \in DOMAIN consumers'[r],
                      consumers'[r][i] \notin subscribed
               PROVE  \E k \in Drops' : work'[k].queue = r
                                        /\ work'[k].tag = consumers'[r][i].tag
    BY <1>1 DEF ListedOrLeaving
  <2>1. PICK j \in DOMAIN consumers[r] : /\ consumers'[r][i] = consumers[r][j]
                                         /\ ~(r = q /\ consumers[r][j].tag = tag)
    BY <1>6 DEF Thinned
  <2>2. PICK k \in Drops : work[k].queue = r /\ work[k].tag = consumers[r][j].tag
    BY <2>1 DEF OwnInv, ListedOrLeaving
  <2>3. k # 1
    BY <1>a, <2>1, <2>2
  <2>4. PICK n \in DOMAIN work' : work'[n] = work[k]
    BY <1>2, <2>3 DEF StillToDo, Drops
  <2>5. n \in Drops'
    BY <2>4 DEF Drops
  <2> QED
    BY <2>1, <2>2, <2>4, <2>5
<1>10. HeldOrLeaving'
  <2> SUFFICES ASSUME NEW h \in held, ~Open(h.conn)
               PROVE  \E k \in Gives' : op'.conn = h.conn /\ work'[k].tag = h.tag
    BY <1>1 DEF HeldOrLeaving, Open
  <2>1. PICK k \in Gives : op.conn = h.conn /\ work[k].tag = h.tag
    BY DEF OwnInv, HeldOrLeaving
  <2>2. k # 1
    BY <1>1, <1>3 DEF Gives
  <2>3. PICK n \in DOMAIN work' : work'[n] = work[k] /\ op' = op
    BY <1>2, <2>2 DEF StillToDo, Gives
  <2>4. n \in Gives'
    BY <2>3 DEF Gives
  <2> QED
    BY <2>1, <2>3, <2>4
<1> QED
  BY <1>2, <1>6, <1>7, <1>8, <1>9, <1>10 DEF OwnInv

LEMMA GiveStepOwn ==
  ASSUME Consistent, OwnInv, GiveStep
  PROVE  OwnInv'
<1>1. PICK g \in held : g = HeldAs(op.conn, Head(work).tag)
  BY GiveStepKeeps
<1>2. /\ work # <<>> /\ Head(work).do = "give" /\ Advance
      /\ held' = held \ {g}
      /\ UNCHANGED <<subscribed, consumers, status>>
  BY <1>1 DEF GiveStep, Doing, GiveBack
<1>3. StillToDo /\ DropsComeFirst'
  BY <1>2, AdvanceDrops DEF OwnInv
<1>4. work[1] = Head(work) /\ 1 \in DOMAIN work
  BY <1>2, AdvanceTail DEF Consistent
<1>5. g.conn = op.conn /\ g.tag = work[1].tag
  <2>1. 1 \in Gives
    BY <1>2, <1>4 DEF Gives
  <2>2. \E h \in HeldBy(op.conn) : h.tag = work[1].tag
    BY <2>1 DEF Consistent, GivesAreHeld, HeldBy
  <2> QED
    BY <1>1, <1>4, <2>2 DEF HeldAs, HeldBy
<1>6. ListedOrLeaving'
  <2> SUFFICES ASSUME NEW q \in Object, NEW i \in DOMAIN consumers[q],
                      consumers[q][i] \notin subscribed
               PROVE  \E k \in Drops' : work'[k].queue = q /\ work'[k].tag = consumers[q][i].tag
    BY <1>2 DEF ListedOrLeaving
  <2>1. PICK k \in Drops : work[k].queue = q /\ work[k].tag = consumers[q][i].tag
    BY DEF OwnInv, ListedOrLeaving
  <2>2. k # 1
    BY <1>2, <1>4 DEF Drops
  <2>3. PICK n \in DOMAIN work' : work'[n] = work[k]
    BY <1>3, <2>2 DEF StillToDo, Drops
  <2>4. n \in Drops'
    BY <2>3 DEF Drops
  <2> QED
    BY <2>1, <2>3, <2>4
<1>7. HeldOrLeaving'
  <2> SUFFICES ASSUME NEW h \in held, h # g, ~Open(h.conn)
               PROVE  \E k \in Gives' : op'.conn = h.conn /\ work'[k].tag = h.tag
    BY <1>2 DEF HeldOrLeaving, Open
  <2>1. PICK k \in Gives : op.conn = h.conn /\ work[k].tag = h.tag
    BY DEF OwnInv, HeldOrLeaving
  <2>2. k # 1
    BY <1>5, <2>1 DEF Consistent, TagsIssued
  <2>3. PICK n \in DOMAIN work' : work'[n] = work[k] /\ op' = op
    BY <1>3, <2>2 DEF StillToDo, Gives
  <2>4. n \in Gives'
    BY <2>3 DEF Gives
  <2> QED
    BY <2>1, <2>3, <2>4
<1>8. SubscribedSound' /\ ListsSound' /\ AllListed'
  BY <1>2 DEF OwnInv, SubscribedSound, ListsSound, AllListed, Open
<1> QED
  BY <1>3, <1>6, <1>7, <1>8 DEF OwnInv

\* Nobody is about to be dropped when a message is handed out, so whoever
\* takes it is open.
LEMMA PushStepOwn ==
  ASSUME Consistent, OwnInv, PushStep
  PROVE  OwnInv'
<1>1. PICK q \in Object, place \in Nat :
        /\ Doing("dispatch") /\ place \in DOMAIN consumers[q]
        /\ HandOut(consumers[q][place].owner, q, consumers[q][place].channel,
                   consumers[q][place].noAck)
  BY PushTakesTurn
<1>2. UNCHANGED <<subscribed, consumers, status, work, op>>
  BY DEF PushStep
<1>3. Drops = {}
  <2>1. /\ work \in Seq(Step) /\ work # <<>> /\ Head(work).do = "dispatch"
        /\ DOMAIN work \subseteq Nat \ {0}
    BY <1>1 DEF Consistent, LoopTypes, Doing
  <2>2. 1 \notin Drops
    BY <2>1 DEF Drops
  <2>3. \A k \in Drops : 1 \in 1 .. k
    BY <2>1 DEF Drops
  <2> QED
    BY <2>2, <2>3 DEF OwnInv, DropsComeFirst
<1>4. Open(consumers[q][place].owner)
  BY <1>1, <1>3 DEF OwnInv, ListedOrLeaving, SubscribedSound
<1> DEFINE new == [conn |-> consumers[q][place].owner,
                   tag |-> nextTag[consumers[q][place].owner] + 1, queue |-> q,
                   msg |-> Head(ready[q]).msg, channel |-> consumers[q][place].channel]
<1>5. new.conn = consumers[q][place].owner /\ held' \subseteq held \cup {new}
  BY <1>1 DEF HandOut
<1> HIDE DEF new
<1>6. HeldOrLeaving'
  BY <1>2, <1>4, <1>5 DEF OwnInv, HeldOrLeaving, Open, Gives
<1>7. ListedOrLeaving' /\ DropsComeFirst'
  BY <1>2 DEF OwnInv, ListedOrLeaving, DropsComeFirst, Drops
<1>8. SubscribedSound' /\ ListsSound' /\ AllListed'
  BY <1>2 DEF OwnInv, SubscribedSound, ListsSound, AllListed, Open
<1> QED
  BY <1>6, <1>7, <1>8 DEF OwnInv

\* A close leaves a drop for each consumer of the connection and a give for
\* each delivery it holds, the drops in front.
LEMMA CloseConnOwn ==
  ASSUME Consistent, OwnInv, NEW c \in Conn, CloseConn(c)
  PROVE  OwnInv'
<1>1. /\ Free /\ UNCHANGED <<consumers, held>>
      /\ status' = [status EXCEPT ![c] = "closed"]
      /\ subscribed' = subscribed \ ConsumersOf(c)
  BY DEF CloseConn, queueVars
<1>2. Calm /\ SubscribedSound /\ ListsSound /\ AllListed
  BY <1>1, FreeIsCalm DEF OwnInv
<1>3. /\ \A s \in subscribed : s.owner \in Conn
      /\ \A h \in held : h.conn \in Conn
  BY DEF Consistent, OtherTypes, DeliveryTypes, Consumer, Held
<1>4. /\ status'[c] = "closed"
      /\ \A d \in Conn : d # c => (Open(d)' <=> Open(d))
  BY <1>1 DEF Consistent, OtherTypes, Open
<1>5. PICK D \in Seq(Step), G \in Seq(Step), F \in Seq(Step) : IsCloseLoop(c, D, G, F)
  BY CloseConnLoop
<1>6. op' = IF work' = <<>> THEN NoOp
            ELSE [conn |-> c, requeue |-> TRUE, batch |-> HeldBy(c)]
  BY CloseConnLoop
<1>7. /\ work' \in Seq(Step) /\ Len(D) \in Nat
      /\ \A i \in DOMAIN D : i \in DOMAIN work' /\ work'[i] = D[i]
      /\ \A i \in DOMAIN G : i + Len(D) \in DOMAIN work' /\ work'[i + Len(D)] = G[i]
  BY <1>5, CloseLoopParts
<1>8. /\ \A i \in DOMAIN D : /\ D[i].do = "drop"
                             /\ \E s \in ConsumersOf(c) : s.tag = D[i].tag
      /\ \A s \in ConsumersOf(c) :
           \E i \in DOMAIN D : D[i].queue = s.queue /\ D[i].tag = s.tag
      /\ \A i \in DOMAIN G : G[i].do = "give"
      /\ \A h \in HeldBy(c) : \E i \in DOMAIN G : G[i].tag = h.tag
  BY <1>5 DEF IsCloseLoop
<1>9. \A i \in DOMAIN work' : op'.conn = c
  <2>1. \A i \in DOMAIN work' : work' # <<>>
    OBVIOUS
  <2> QED
    BY <1>6, <2>1
<1>10. Drops' = DOMAIN D
  <2>1. ASSUME NEW i \in DOMAIN work', work'[i].do = "drop"
        PROVE  i \in DOMAIN D
    <3>1. \/ i \in DOMAIN D /\ work'[i] = D[i]
          \/ i - Len(D) \in DOMAIN G /\ work'[i] = G[i - Len(D)]
          \/ i > Len(D) /\ work'[i].do = "dispatch"
      BY <1>5, CloseLoopParts
    <3>2. ~(i - Len(D) \in DOMAIN G /\ work'[i] = G[i - Len(D)])
      BY <1>8, <2>1
    <3>3. work'[i].do # "dispatch"
      BY <2>1
    <3> QED
      BY <3>1, <3>2, <3>3
  <2>2. ASSUME NEW i \in DOMAIN D
        PROVE  i \in DOMAIN work' /\ work'[i].do = "drop"
    <3>1. i \in DOMAIN work' /\ work'[i] = D[i]
      BY <1>7
    <3>2. D[i].do = "drop"
      BY <1>8
    <3> QED
      BY <3>1, <3>2
  <2> QED
    BY <2>1, <2>2 DEF Drops
<1>11. SubscribedSound'
  <2>1. \A s \in subscribed' : s \in subscribed /\ s.owner # c
    BY <1>1 DEF ConsumersOf
  <2>2. \A s \in subscribed' : Open(s.owner)'
    BY <1>2, <1>3, <1>4, <2>1 DEF SubscribedSound
  <2> QED
    BY <1>2, <2>1, <2>2 DEF SubscribedSound
<1>12. ListsSound' /\ AllListed'
  BY <1>1, <1>2 DEF ListsSound, AllListed
<1>13. ListedOrLeaving'
  <2> SUFFICES ASSUME NEW q \in Object, NEW i \in DOMAIN consumers[q],
                      consumers[q][i] \notin subscribed'
               PROVE  \E k \in Drops' : /\ work'[k].queue = q
                                        /\ work'[k].tag = consumers[q][i].tag
    BY <1>1 DEF ListedOrLeaving
  <2>1. consumers[q][i] \in ConsumersOf(c) /\ consumers[q][i].queue = q
    BY <1>1, <1>2 DEF Calm, ListsSound
  <2>2. PICK s \in ConsumersOf(c) : s = consumers[q][i] /\ s.queue = q
    BY <2>1
  <2>3. PICK k \in DOMAIN D : D[k].queue = s.queue /\ D[k].tag = s.tag
    BY <1>8
  <2> QED
    BY <1>7, <1>10, <2>2, <2>3
<1>14. DropsComeFirst'
  <2> SUFFICES ASSUME NEW k \in Drops'
               PROVE  /\ op'.conn \in Conn /\ status'[op'.conn] = "closed"
                      /\ MayCarry(op'.conn, work'[k].tag)
                      /\ \A j \in 1 .. k : j \in Drops'
    BY DEF DropsComeFirst
  <2>1. k \in DOMAIN D /\ work'[k] = D[k] /\ op'.conn = c
    BY <1>7, <1>9, <1>10
  <2>2. PICK s \in ConsumersOf(c) : s.tag = D[k].tag
    BY <1>8, <2>1
  <2>3. MayCarry(c, work'[k].tag)
    BY <1>2, <2>1, <2>2 DEF SubscribedSound, ConsumersOf
  <2>4. \A j \in 1 .. k : j \in DOMAIN D
    <3>1. DOMAIN D = 1 .. Len(D)
      OBVIOUS
    <3> QED
      BY <1>7, <2>1, <3>1
  <2> QED
    BY <1>4, <1>10, <2>1, <2>3, <2>4
<1>15. HeldOrLeaving'
  <2> SUFFICES ASSUME NEW h \in held, ~Open(h.conn)'
               PROVE  \E k \in Gives' : op'.conn = h.conn /\ work'[k].tag = h.tag
    BY <1>1 DEF HeldOrLeaving
  <2>1. h.conn = c
    BY <1>2, <1>3, <1>4 DEF Calm
  <2>2. PICK n \in DOMAIN G : G[n].tag = h.tag
    BY <1>8, <2>1 DEF HeldBy
  <2>3. PICK k \in DOMAIN work' : work'[k] = G[n]
    BY <1>7
  <2>4. k \in Gives'
    BY <1>8, <2>3 DEF Gives
  <2> QED
    BY <1>9, <2>1, <2>2, <2>3, <2>4
<1> QED
  BY <1>11, <1>12, <1>13, <1>14, <1>15 DEF OwnInv

LEMMA NextKeepsOwn ==
  ASSUME TagsApart
  PROVE  Consistent /\ OwnInv /\ [Next]_vars => OwnInv'
<1> SUFFICES ASSUME Consistent, OwnInv, [Next]_vars PROVE OwnInv'
  OBVIOUS
<1>1. CASE AppendStep \/ DispatchDone
  BY <1>1, QuietStepOwn
<1>2. CASE DropStep
  BY <1>2, DropStepOwn
<1>3. CASE GiveStep
  BY <1>3, GiveStepOwn
<1>4. CASE PushStep
  BY <1>4, PushStepOwn
<1>5. ASSUME NEW c \in Conn, Operation(c)
      PROVE  OwnInv'
  <2>1. CASE OpenConn(c)
    BY <2>1, OpenConnOwn
  <2>2. CASE CloseConn(c)
    BY <2>2, CloseConnOwn
  <2>3. CASE \/ \E e \in Exchange, kind \in Kinds : DeclareExchange(c, e, kind)
             \/ \E name \in Name \cup {Unnamed} : Declare(c, name)
             \/ \E name \in QueueName, e \in Exchange, key \in Key : Bind(c, name, e, key)
             \/ \E name \in QueueName : Purge(c, name)
    BY <2>3, TopologyOwn
  <2>4. CASE \/ \E name \in QueueName : PublishDefault(c, name)
             \/ \E e \in Exchange, key \in Key : Publish(c, e, key)
    BY <2>4, PublishOwn
  <2>5. CASE \E name \in QueueName, ch \in Channel, noAck \in BOOLEAN :
               Get(c, name, ch, noAck)
    BY <2>5, GetOwn
  <2>6. CASE \E name \in QueueName, requested \in TagsOf[c], ch \in Channel,
                noAck \in BOOLEAN : Consume(c, name, requested, ch, noAck)
    BY <2>6, ConsumeOwn
  <2>7. CASE \E taking \in ConsumersOf(c) : Cancel(c, taking)
    BY <2>7, CancelOwn
  <2>8. CASE \E ch \in Channel, limit \in Prefetch : Qos(c, ch, limit)
    BY <2>8, QosOwn
  <2>9. CASE \E tag \in 0 .. nextTag[c], ch \in Channel, multiple, requeue \in BOOLEAN :
               Settle(c, tag, ch, multiple, requeue)
    BY <2>9, SettleOwn
  <2>10. CASE \E name \in QueueName : Delete(c, name)
    BY <2>10, DeleteOwn
  <2> QED
    BY <1>5, <2>1, <2>2, <2>3, <2>4, <2>5, <2>6, <2>7, <2>8, <2>9, <2>10 DEF Operation
<1>6. CASE UNCHANGED vars
  BY <1>6 DEF vars, queueVars, connVars, OwnInv, SubscribedSound, ListsSound, AllListed,
     ListedOrLeaving, DropsComeFirst, HeldOrLeaving, Drops, Gives, Open
<1> QED
  BY <1>1, <1>2, <1>3, <1>4, <1>5, <1>6 DEF Next, LoopStep

LEMMA OwnAlways ==
  ASSUME TagsApart
  PROVE  Spec => []OwnInv
<1>1. Init => Consistent
  BY InitConsistent
<1>2. Init => OwnInv
  BY DEF Init, OwnInv, SubscribedSound, ListsSound, AllListed, ListedOrLeaving,
     DropsComeFirst, HeldOrLeaving, Drops
<1>3. Consistent /\ [Next]_vars => Consistent'
  BY NextKeepsConsistent
<1>4. Consistent /\ OwnInv /\ [Next]_vars => OwnInv'
  BY NextKeepsOwn
<1> QED
  BY <1>1, <1>2, <1>3, <1>4, PTL DEF Spec

\* As long as no two connections carry the same consumer tag, whatever they do
\* and however many they are: a connection that is gone holds no delivery and
\* takes no more turns at any queue (Close and dropConsumer, exec.go:93-134).
THEOREM ClosedHoldNothing ==
  ASSUME TagsApart
  PROVE  Spec => []DeadHoldNothing
<1>1. OwnInv => DeadHoldNothing
  <2> SUFFICES ASSUME OwnInv, Free, NEW c \in Conn, status[c] = "closed"
               PROVE  /\ HeldBy(c) = {}
                      /\ \A q \in Object : \A i \in DOMAIN consumers[q] :
                           consumers[q][i].owner # c
    BY DEF DeadHoldNothing
  <2>1. Calm /\ ~Open(c)
    BY FreeIsCalm DEF Open
  <2> QED
    BY <2>1 DEF Calm, OwnInv, SubscribedSound, HeldBy
<1> QED
  BY <1>1, OwnAlways, PTL

\* As long as no two connections carry the same consumer tag: between
\* operations a queue's list of consumers and the connections' own maps tell
\* the same story, each consumer once (consume, cancel, remove and Close).
THEOREM ConsumersStayAgreed ==
  ASSUME TagsApart
  PROVE  Spec => []ConsumersAgree
<1>1. OwnInv => ConsumersAgree
  <2> SUFFICES ASSUME OwnInv, Free PROVE ConsumersAgree
    BY DEF ConsumersAgree
  <2>1. Calm
    BY FreeIsCalm
  <2> QED
    BY <2>1 DEF Calm, OwnInv, ListsSound, AllListed, ConsumersAgree
<1> QED
  BY <1>1, OwnAlways, PTL

----------------------------------------------------------------------------
(* Nobody waits for a message that could be handed out                      *)

\* A channel that consumes from a queue has no delivery of another one: every
\* client that takes its messages from one queue per channel sees to that.
ChannelsApart ==
  \A s \in subscribed, h \in held :
    s.owner = h.conn /\ s.channel = h.channel => s.queue = h.queue

RoomFor(q) ==
  \E i \in DOMAIN consumers[q] : HasRoom(consumers[q][i].owner, consumers[q][i].channel)

Rested(q) == ready[q] = <<>> \/ ~RoomFor(q)

\* The running operation comes to the queue after its step k.
ComesTo(k, q) == \E j \in DOMAIN work : j > k /\ work[j] = Dispatch(q)

\* A queue with something to hand out is still to be offered ...
RestedOrOffered == \A q \in Object : Rested(q) \/ ComesTo(0, q)

\* ... and whatever puts a message back, or into a queue, is followed by an offer.
OfferFollows ==
  \A k \in DOMAIN work :
    /\ work[k].do = "append" =>
         consumers[work[k].queue] = <<>> \/ ComesTo(k, work[k].queue)
    /\ work[k].do = "give" =>
         \A h \in held : h.conn = op.conn /\ h.tag = work[k].tag =>
           consumers[h.queue] = <<>> \/ ComesTo(k, h.queue)

\* Only a queue that has a name is consumed from: that is where the end of a
\* connection looks for queues to offer.
ConsumedByName ==
  \A q \in Object : consumers[q] = <<>> \/ \E n \in QueueName : named[n] = q

OfferInv == RestedOrOffered /\ OfferFollows /\ ConsumedByName

\* The turns from the one the round robin is at on go round the whole list.
LEMMA TurnsGoRound ==
  ASSUME NEW t \in Nat, NEW n \in Nat, NEW i \in 1 .. n
  PROVE  \E k \in 0 .. n - 1 : ((t + k) % n) + 1 = i
<1>1. PICK d \in Nat, s \in 0 .. n - 1 : t = n * d + s
  <2>1. t = n * (t \div n) + (t % n) /\ t % n \in 0 .. n - 1 /\ t \div n \in Nat
    OBVIOUS
  <2> QED
    BY <2>1
<1>2. CASE s <= i - 1
  <2>1. t + (i - 1 - s) = n * d + (i - 1) /\ i - 1 - s \in 0 .. n - 1
    BY <1>1, <1>2
  <2>2. (n * d + (i - 1)) % n = i - 1
    BY <1>1
  <2> QED
    BY <2>1, <2>2
<1>3. CASE s > i - 1
  <2>1. t + (i - 1 - s + n) = n * (d + 1) + (i - 1) /\ i - 1 - s + n \in 0 .. n - 1
    BY <1>1, <1>3
  <2>2. (n * (d + 1) + (i - 1)) % n = i - 1
    BY <1>1
  <2> QED
    BY <2>1, <2>2
<1> QED
  BY <1>1, <1>2, <1>3

\* next() finds somebody exactly when a consumer of the queue has room.
LEMMA SomeoneTakes ==
  ASSUME OtherTypes, NEW q \in Object
  PROVE  Willing(q) # {} <=> RoomFor(q)
<1> DEFINE n == Len(consumers[q])
           place(k) == ((turn[q] + k) % n) + 1
           room(i) == HasRoom(consumers[q][i].owner, consumers[q][i].channel)
<1>1. turn[q] \in Nat /\ n \in Nat /\ DOMAIN consumers[q] = 1 .. n
  BY DEF OtherTypes
<1>2. Willing(q) = {k \in 0 .. n - 1 : room(place(k))}
  BY DEF Willing
<1>3. RoomFor(q) <=> \E i \in 1 .. n : room(i)
  BY <1>1 DEF RoomFor
<1>4. ASSUME NEW k \in 0 .. n - 1
      PROVE  place(k) \in 1 .. n
  <2>1. n > 0 /\ turn[q] + k \in Nat
    BY <1>1
  <2>2. (turn[q] + k) % n \in 0 .. n - 1
    BY <1>1, <2>1, ModBounds
  <2> QED
    BY <1>1, <2>2
<1>5. ASSUME NEW i \in 1 .. n
      PROVE  \E k \in 0 .. n - 1 : place(k) = i
  <2>1. PICK t \in Nat, m \in Nat : t = turn[q] /\ m = n
    BY <1>1
  <2>2. i \in 1 .. m
    BY <2>1
  <2>3. PICK k \in 0 .. m - 1 : ((t + k) % m) + 1 = i
    BY <2>2, TurnsGoRound
  <2>4. k \in 0 .. n - 1 /\ ((turn[q] + k) % n) + 1 = i
    BY <2>1, <2>3
  <2> QED
    BY <2>4
<1> HIDE DEF n, place, room
<1> QED
  BY <1>2, <1>3, <1>4, <1>5

\* Between operations every queue has been offered.
LEMMA FreeIsRested ==
  ASSUME OfferInv, Free, NEW q \in Object
  PROVE  Rested(q)
BY DEF OfferInv, RestedOrOffered, ComesTo, Free

\* What a step does to a queue: it stays rested if nothing comes into it and
\* nobody gets room.
NothingMore(q) == /\ ready[q] = <<>> => ready'[q] = <<>>
                  /\ RoomFor(q)' => RoomFor(q)

LEMMA StaysRested ==
  ASSUME NEW q, NothingMore(q), Rested(q)
  PROVE  Rested(q)'
BY DEF NothingMore, Rested

LEMMA NobodyThere ==
  ASSUME NEW q, consumers[q] = <<>>
  PROVE  Rested(q)
BY DEF Rested, RoomFor

\* An operation after which nothing is put back or appended.
LEMMA NothingFollows ==
  ASSUME \A k \in DOMAIN work' : work'[k].do \notin {"append", "give"}
  PROVE  OfferFollows'
BY DEF OfferFollows

LEMMA FreeFollows ==
  ASSUME Free, UNCHANGED work
  PROVE  OfferFollows'
BY NothingFollows DEF Free

\* hold takes from the queue, and room from a channel.
LEMMA HandOutTakes ==
  ASSUME DeliveryTypes, OtherTypes, NEW c \in Conn, NEW q \in Object, NEW ch \in Channel,
         NEW noAck \in BOOLEAN, ready[q] # <<>>, HandOut(c, q, ch, noAck),
         UNCHANGED <<consumers, prefetch>>
  PROVE  \A r \in Object : NothingMore(r)
<1>1. \A d \in Conn, k \in Channel : HasRoom(d, k)' => HasRoom(d, k)
  <2> SUFFICES ASSUME NEW d \in Conn, NEW k \in Channel, HasRoom(d, k)'
               PROVE  HasRoom(d, k)
    OBVIOUS
  <2>1. /\ outstanding[d][k] \in Nat /\ prefetch[d][k] \in Nat
        /\ outstanding'[d][k] \in {outstanding[d][k], outstanding[d][k] + 1}
    <3>1. \/ outstanding' = outstanding
          \/ outstanding' = [outstanding EXCEPT ![c][ch] = @ + 1]
      BY DEF HandOut
    <3>2. outstanding \in [Conn -> [Channel -> Nat]] /\ prefetch \in [Conn -> [Channel -> Nat]]
      BY DEF DeliveryTypes, OtherTypes
    <3>3. CASE outstanding' = outstanding
      BY <3>2, <3>3
    <3>4. CASE outstanding' = [outstanding EXCEPT ![c][ch] = @ + 1]
      BY <3>2, <3>4
    <3> QED
      BY <3>1, <3>3, <3>4
  <2> QED
    BY <2>1 DEF HasRoom
<1>2. \A r \in Object : RoomFor(r)' => RoomFor(r)
  <2>1. ASSUME NEW r \in Object, NEW i \in DOMAIN consumers[r]
        PROVE  consumers[r][i].owner \in Conn /\ consumers[r][i].channel \in Channel
    <3>1. consumers[r] \in Seq(Consumer)
      BY DEF OtherTypes
    <3>2. consumers[r][i] \in Consumer
      BY <3>1
    <3> QED
      BY <3>2 DEF Consumer
  <2> QED
    BY <1>1, <2>1 DEF RoomFor
<1>3. \A r \in Object : ready[r] = <<>> => ready'[r] = <<>>
  BY DEF HandOut, DeliveryTypes
<1> QED
  BY <1>2, <1>3 DEF NothingMore

\* Going on to the next iteration brings every offer one step nearer.
LEMMA AdvanceComes ==
  ASSUME LoopTypes, work # <<>>, Advance
  PROVE  /\ \A q : ComesTo(0, q) /\ work[1] # Dispatch(q) => ComesTo(0, q)'
         /\ \A k \in Nat : \A q : ComesTo(k + 1, q) => ComesTo(k, q)'
         /\ \A q : ComesTo(1, q) => ComesTo(0, q)'
<1>1. /\ work \in Seq(Step) /\ work' = Tail(work)
      /\ DOMAIN work = 1 .. Len(work) /\ DOMAIN work' = 1 .. Len(work')
      /\ Len(work) \in Nat \ {0} /\ Len(work') = Len(work) - 1
  BY DEF LoopTypes, Advance
<1>2. ASSUME NEW j \in DOMAIN work, j # 1
      PROVE  j - 1 \in DOMAIN work' /\ work'[j - 1] = work[j]
  BY <1>1, <1>2
<1>3. ASSUME NEW k \in Nat, NEW q, ComesTo(k + 1, q)
      PROVE  ComesTo(k, q)'
  <2>1. PICK j \in DOMAIN work : j > k + 1 /\ work[j] = Dispatch(q)
    BY <1>3 DEF ComesTo
  <2>2. j # 1 /\ j - 1 > k
    BY <1>1, <2>1
  <2>3. j - 1 \in DOMAIN work' /\ work'[j - 1] = Dispatch(q)
    BY <1>2, <2>1, <2>2
  <2> QED
    BY <2>2, <2>3 DEF ComesTo, Dispatch
<1>4. ASSUME NEW q, ComesTo(0, q), work[1] # Dispatch(q)
      PROVE  ComesTo(0, q)'
  <2>1. PICK j \in DOMAIN work : work[j] = Dispatch(q)
    BY <1>4 DEF ComesTo
  <2>2. j # 1
    BY <1>4, <2>1
  <2>3. j - 1 \in DOMAIN work' /\ work'[j - 1] = Dispatch(q) /\ j - 1 > 0
    BY <1>1, <1>2, <2>1, <2>2
  <2> QED
    BY <2>3 DEF ComesTo, Dispatch
<1>5. ASSUME NEW q, ComesTo(1, q)
      PROVE  ComesTo(0, q)'
  <2>1. 0 \in Nat /\ ComesTo(0 + 1, q)
    BY <1>5
  <2> QED
    BY <1>3, <2>1
<1> QED
  BY <1>3, <1>4, <1>5

\* It keeps an offer behind whatever needs one.
LEMMA AdvanceFollows ==
  ASSUME Consistent, OfferFollows, work # <<>>, Advance, held' \subseteq held,
         \A q \in Object : consumers[q] = <<>> => consumers'[q] = <<>>
  PROVE  OfferFollows'
<1>1. /\ \A i \in DOMAIN work' : /\ i + 1 \in DOMAIN work /\ work'[i] = work[i + 1]
                                 /\ op' = op
      /\ \A i \in DOMAIN work' : i \in Nat /\ work'[i] \in Step
  <2>1. LoopTypes'
    BY AdvanceTail DEF Consistent
  <2>2. work' \in Seq(Step)
    BY <2>1 DEF LoopTypes
  <2>3. \A i \in DOMAIN work' : i \in Nat /\ work'[i] \in Step
    BY <2>2
  <2> QED
    BY <2>3, AdvanceTail DEF Consistent
<1>2. \A k \in Nat : \A q : ComesTo(k + 1, q) => ComesTo(k, q)'
  BY AdvanceComes DEF Consistent
<1>3. ASSUME NEW k \in DOMAIN work', work'[k].do = "append"
      PROVE  (consumers[work[k].queue] = <<>> \/ ComesTo(k, work[k].queue))'
  <2>1. /\ k \in Nat /\ k + 1 \in DOMAIN work /\ work'[k] = work[k + 1]
        /\ work'[k] \in Step
    BY <1>1
  <2>2. PICK q \in Object : q = work'[k].queue
    BY <1>3, <2>1 DEF Step
  <2>3. consumers[q] = <<>> \/ ComesTo(k + 1, q)
    BY <1>3, <2>1, <2>2 DEF OfferFollows
  <2>4. consumers'[q] = <<>> \/ ComesTo(k, q)'
    BY <1>2, <2>1, <2>3
  <2> QED
    BY <2>2, <2>4 DEF ComesTo, Dispatch
<1>4. ASSUME NEW k \in DOMAIN work', work'[k].do = "give",
             NEW h \in held', h.conn = op'.conn, h.tag = work'[k].tag
      PROVE  consumers'[h.queue] = <<>> \/ ComesTo(k, h.queue)'
  <2>1. k \in Nat /\ k + 1 \in DOMAIN work /\ work'[k] = work[k + 1] /\ op' = op /\ h \in held
    BY <1>1
  <2>2. h.queue \in Object
    BY <2>1 DEF Consistent, DeliveryTypes, Held
  <2>3. consumers[h.queue] = <<>> \/ ComesTo(k + 1, h.queue)
    BY <1>4, <2>1 DEF OfferFollows
  <2> QED
    BY <1>2, <2>1, <2>2, <2>3
<1> QED
  BY <1>3, <1>4 DEF OfferFollows

\* An iteration that lets nothing in and makes no room, other than an offer.
LEMMA AdvanceOffers ==
  ASSUME Consistent, OfferInv, work # <<>>, Advance, UNCHANGED named, held' \subseteq held,
         \A q \in Object : consumers[q] = <<>> => consumers'[q] = <<>>,
         \A q \in Object : work[1] = Dispatch(q) => Rested(q),
         \A q \in Object : NothingMore(q) \/ ComesTo(1, q) \/ consumers'[q] = <<>>
  PROVE  OfferInv'
<1>1. OfferFollows'
  BY AdvanceFollows DEF OfferInv
<1>2. ConsumedByName'
  BY DEF OfferInv, ConsumedByName
<1>3. /\ \A q : ComesTo(0, q) /\ work[1] # Dispatch(q) => ComesTo(0, q)'
      /\ \A q : ComesTo(1, q) => ComesTo(0, q)'
  BY AdvanceComes DEF Consistent
<1>4. RestedOrOffered'
  <2> SUFFICES ASSUME NEW q \in Object
               PROVE  Rested(q)' \/ ComesTo(0, q)'
    BY DEF RestedOrOffered
  <2>1. CASE ComesTo(1, q)
    BY <1>3, <2>1
  <2>2. CASE consumers'[q] = <<>>
    BY <2>2 DEF Rested, RoomFor
  <2>3. CASE NothingMore(q) /\ Rested(q)
    BY <2>3, StaysRested
  <2>4. CASE ~Rested(q)
    <3>1. ComesTo(0, q) /\ work[1] # Dispatch(q)
      BY <2>4 DEF OfferInv, RestedOrOffered
    <3> QED
      BY <1>3, <3>1
  <2> QED
    BY <2>1, <2>2, <2>3, <2>4
<1> QED
  BY <1>1, <1>2, <1>4 DEF OfferInv

\* Nobody gets room, and only what is named gets anything.
LEMMA SameRoom ==
  ASSUME NEW q, UNCHANGED <<consumers, outstanding, prefetch>>
  PROVE  RoomFor(q)' <=> RoomFor(q)
BY DEF RoomFor, HasRoom

LEMMA AppendStepOffers ==
  ASSUME Consistent, OfferInv, AppendStep
  PROVE  OfferInv'
<1>1. /\ work # <<>> /\ Advance /\ Head(work).do = "append"
      /\ UNCHANGED <<named, consumers, held, outstanding, prefetch>>
      /\ ready' = [ready EXCEPT ![Head(work).queue] =
                     Append(@, [msg |-> Head(work).msg, redelivered |-> FALSE])]
  BY DEF AppendStep, Doing, connVars
<1>2. work[1] = Head(work) /\ 1 \in DOMAIN work /\ work[1] \in Step
  <2>1. work \in Seq(Step)
    BY DEF Consistent, LoopTypes
  <2> QED
    BY <1>1, <2>1
<1>3. \A q : work[1] # Dispatch(q)
  BY <1>1, <1>2 DEF Dispatch
<1>4. ASSUME NEW q \in Object
      PROVE  NothingMore(q) \/ ComesTo(1, q) \/ consumers'[q] = <<>>
  <2>1. RoomFor(q)' => RoomFor(q)
    BY <1>1, SameRoom
  <2>2. CASE q = work[1].queue
    BY <1>1, <1>2, <2>2 DEF OfferInv, OfferFollows
  <2>3. CASE q # work[1].queue
    <3>1. ready'[q] = ready[q]
      BY <1>1, <1>2, <2>3 DEF Consistent, DeliveryTypes
    <3> QED
      BY <2>1, <3>1 DEF NothingMore
  <2> QED
    BY <2>2, <2>3
<1> QED
  BY <1>1, <1>3, <1>4, AdvanceOffers

\* A consumer that goes leaves no more room than there was.
LEMMA DroppingMakesNoRoom ==
  ASSUME OtherTypes, ListsSound, NEW q \in Object, NEW tag, DropConsumer(q, tag),
         UNCHANGED <<ready, outstanding, prefetch>>,
         NEW r \in Object
  PROVE  NothingMore(r) /\ (consumers[r] = <<>> => consumers'[r] = <<>>)
<1>1. Thinned(q, tag) /\ consumers' \in [Object -> Seq(Consumer)]
  BY DropConsumerThins, DropConsumerTypes
<1>2. \A i \in DOMAIN consumers'[r] : \E j \in DOMAIN consumers[r] :
        consumers'[r][i] = consumers[r][j]
  BY <1>1 DEF Thinned
<1>3. RoomFor(r)' => RoomFor(r)
  BY <1>2 DEF RoomFor, HasRoom
<1>4. consumers'[r] \in Seq(Consumer)
  BY <1>1
<1>5. ASSUME consumers[r] = <<>>
      PROVE  consumers'[r] = <<>>
  <2>1. DOMAIN consumers[r] = {}
    BY <1>5
  <2>2. 1 \notin DOMAIN consumers'[r]
    BY <1>2, <2>1
  <2> QED
    BY <1>4, <2>2
<1> QED
  BY <1>3, <1>5 DEF NothingMore

LEMMA DropStepOffers ==
  ASSUME Consistent, OwnInv, OfferInv, DropStep
  PROVE  OfferInv'
<1>1. /\ work # <<>> /\ Advance /\ Head(work).do = "drop"
      /\ DropConsumer(Head(work).queue, Head(work).tag)
      /\ UNCHANGED <<named, ready, held, outstanding, prefetch>>
  BY DEF DropStep, Doing, connVars
<1>2. work[1] = Head(work) /\ 1 \in DOMAIN work /\ work[1] \in Step
  <2>1. work \in Seq(Step)
    BY DEF Consistent, LoopTypes
  <2> QED
    BY <1>1, <2>1
<1>3. \A q : work[1] # Dispatch(q)
  BY <1>1, <1>2 DEF Dispatch
<1>4. work[1].queue \in Object
  BY <1>1, <1>2 DEF Step
<1>5. \A q \in Object : NothingMore(q) /\ (consumers[q] = <<>> => consumers'[q] = <<>>)
  BY <1>1, <1>2, <1>4, DroppingMakesNoRoom DEF Consistent, OwnInv
<1> QED
  BY <1>1, <1>3, <1>5, AdvanceOffers

\* A delivery that comes back makes room on its channel, whose consumers take
\* from the queue the delivery came from, and that one is offered next.
LEMMA GiveStepOffers ==
  ASSUME Consistent, OwnInv, ChannelsApart, OfferInv, GiveStep
  PROVE  OfferInv'
<1>1. PICK g \in held : g = HeldAs(op.conn, Head(work).tag)
  BY GiveStepKeeps
<1>2. /\ work # <<>> /\ Head(work).do = "give" /\ Advance
      /\ held' = held \ {g}
      /\ outstanding' = [outstanding EXCEPT ![g.conn][g.channel] = @ - 1]
      /\ ready' = [ready EXCEPT ![g.queue] =
                     IF op.requeue THEN <<[msg |-> g.msg, redelivered |-> TRUE]>> \o @
                     ELSE @]
      /\ UNCHANGED <<named, subscribed, consumers, prefetch>>
  BY <1>1 DEF GiveStep, Doing, GiveBack
<1>3. work[1] = Head(work) /\ 1 \in DOMAIN work
  BY <1>2, AdvanceTail DEF Consistent
<1>4. g.conn = op.conn /\ g.tag = work[1].tag
  <2>1. 1 \in Gives
    BY <1>2, <1>3 DEF Gives
  <2>2. \E h \in HeldBy(op.conn) : h.tag = work[1].tag
    BY <2>1 DEF Consistent, GivesAreHeld, HeldBy
  <2> QED
    BY <1>1, <1>3, <2>2 DEF HeldAs, HeldBy
<1>5. \A q : work[1] # Dispatch(q)
  BY <1>2, <1>3 DEF Dispatch
<1>6. ComesTo(1, g.queue) \/ consumers[g.queue] = <<>>
  BY <1>2, <1>3, <1>4 DEF OfferInv, OfferFollows
<1>7. Drops = {}
  <2>1. 1 \notin Drops
    BY <1>2, <1>3 DEF Drops
  <2>2. ASSUME NEW k \in Drops
        PROVE  FALSE
    <3>1. \A j \in 1 .. k : j \in Drops
      BY DEF OwnInv, DropsComeFirst
    <3>2. k \in Nat /\ k > 0
      BY DEF Drops, Consistent, LoopTypes
    <3> QED
      BY <2>1, <3>1, <3>2
  <2> QED
    BY <2>2
<1>8. \A q \in Object : \A i \in DOMAIN consumers[q] :
        consumers[q][i] \in subscribed /\ consumers[q][i].queue = q
  BY <1>7 DEF OwnInv, ListedOrLeaving, ListsSound
<1>9. ASSUME NEW q \in Object, q # g.queue
      PROVE  NothingMore(q)
  <2>1. ready'[q] = ready[q]
    BY <1>2, <1>9 DEF Consistent, DeliveryTypes
  <2>2. ASSUME NEW i \in DOMAIN consumers[q],
               HasRoom(consumers[q][i].owner, consumers[q][i].channel)'
        PROVE  HasRoom(consumers[q][i].owner, consumers[q][i].channel)
    <3> DEFINE s == consumers[q][i]
    <3>1. s \in subscribed /\ s.queue = q
      BY <1>8
    <3>2. s.owner \in Conn /\ s.channel \in Channel
      <4>1. subscribed \subseteq Consumer
        BY DEF Consistent, OtherTypes
      <4> QED
        BY <3>1, <4>1 DEF Consumer
    <3>3. ~(s.owner = g.conn /\ s.channel = g.channel)
      BY <1>9, <3>1 DEF ChannelsApart
    <3>4. outstanding \in [Conn -> [Channel -> Nat]]
      BY DEF Consistent, DeliveryTypes
    <3> HIDE DEF s
    <3>5. outstanding'[s.owner][s.channel] = outstanding[s.owner][s.channel]
      BY <1>2, <3>2, <3>3, <3>4
    <3> QED
      BY <1>2, <2>2, <3>5 DEF HasRoom, s
  <2> QED
    BY <1>2, <2>1, <2>2 DEF NothingMore, RoomFor
<1>10. \A q \in Object : NothingMore(q) \/ ComesTo(1, q) \/ consumers'[q] = <<>>
  BY <1>2, <1>6, <1>9
<1> QED
  BY <1>2, <1>5, <1>10, AdvanceOffers

\* Nobody is offered a message but takes it off the queue; who has one in hand
\* is still to be given the ones he was.
LEMMA PushStepOffers ==
  ASSUME Consistent, OfferInv, PushStep
  PROVE  OfferInv'
<1>1. PICK q \in Object, place \in Nat :
        /\ place \in DOMAIN consumers[q] /\ consumers[q][place] \in Consumer
        /\ ready[q] # <<>>
        /\ HandOut(consumers[q][place].owner, q, consumers[q][place].channel,
                   consumers[q][place].noAck)
  BY PushTakesTurn
<1>2. PICK c \in Conn, ch \in Channel, noAck \in BOOLEAN : HandOut(c, q, ch, noAck)
  BY <1>1 DEF Consumer
<1>3. UNCHANGED <<named, consumers, prefetch, work, op>>
  BY DEF PushStep
<1>4. \A r \in Object : NothingMore(r)
  BY <1>1, <1>2, <1>3, HandOutTakes DEF Consistent
<1>5. \A k \in Nat : \A r : ComesTo(k, r) => ComesTo(k, r)'
  BY <1>3 DEF ComesTo, Dispatch
<1>6. RestedOrOffered'
  <2> SUFFICES ASSUME NEW r \in Object
               PROVE  Rested(r)' \/ ComesTo(0, r)'
    BY DEF RestedOrOffered
  <2>1. Rested(r) \/ ComesTo(0, r)
    BY DEF OfferInv, RestedOrOffered
  <2> QED
    BY <1>4, <1>5, <2>1, StaysRested
<1>7. ASSUME NEW k \in DOMAIN work, work[k].do = "give",
             NEW h \in held', h.conn = op.conn, h.tag = work[k].tag
      PROVE  h \in held
  <2>1. PICK g \in held : g.conn = op.conn /\ g.tag = work[k].tag
    BY <1>7 DEF Consistent, GivesAreHeld, Gives
  <2>2. TagsIssued'
    BY PushStepKeeps DEF Consistent
  <2>3. g \in held'
    BY <1>2, <2>1 DEF HandOut
  <2> QED
    BY <1>7, <2>1, <2>2, <2>3 DEF TagsIssued
<1>8. OfferFollows'
  <2>1. ASSUME NEW k \in DOMAIN work, work[k].do = "give",
               NEW h \in held', h.conn = op.conn, h.tag = work[k].tag
        PROVE  consumers[h.queue] = <<>> \/ ComesTo(k, h.queue)
    BY <1>7, <2>1 DEF OfferInv, OfferFollows
  <2>2. ASSUME NEW k \in DOMAIN work, work[k].do = "append"
        PROVE  consumers[work[k].queue] = <<>> \/ ComesTo(k, work[k].queue)
    BY <2>2 DEF OfferInv, OfferFollows
  <2> QED
    BY <1>3, <2>1, <2>2 DEF OfferFollows, ComesTo, Dispatch
<1>9. ConsumedByName'
  BY <1>3 DEF OfferInv, ConsumedByName
<1> QED
  BY <1>6, <1>8, <1>9 DEF OfferInv

\* dispatch stops when there is nothing to hand out, or nobody to hand it to.
LEMMA DispatchDoneOffers ==
  ASSUME Consistent, OfferInv, DispatchDone
  PROVE  OfferInv'
<1>1. /\ work # <<>> /\ Advance /\ Head(work).do = "dispatch"
      /\ ready[Head(work).queue] = <<>> \/ Willing(Head(work).queue) = {}
      /\ UNCHANGED <<named, ready, consumers, held, outstanding, prefetch>>
  BY DEF DispatchDone, Doing, queueVars, connVars
<1>2. work[1] = Head(work)
  BY <1>1, AdvanceTail DEF Consistent
<1>3. ASSUME NEW q \in Object, work[1] = Dispatch(q)
      PROVE  Rested(q)
  <2>1. ready[q] = <<>> \/ Willing(q) = {}
    BY <1>1, <1>2, <1>3 DEF Dispatch
  <2> QED
    BY <2>1, SomeoneTakes DEF Consistent, Rested
<1>4. \A q \in Object : NothingMore(q)
  BY <1>1, SameRoom DEF NothingMore
<1> QED
  BY <1>1, <1>3, <1>4, AdvanceOffers

----------------------------------------------------------------------------
(* The operations *)

\* An operation that leaves the queues at rest, and runs no loop.
LEMMA AtRestOffers ==
  ASSUME OfferInv, Free, UNCHANGED work, ConsumedByName',
         \A q \in Object : NothingMore(q) \/ consumers'[q] = <<>>
  PROVE  OfferInv'
<1>1. RestedOrOffered'
  <2> SUFFICES ASSUME NEW q \in Object
               PROVE  Rested(q)'
    BY DEF RestedOrOffered
  <2>1. CASE NothingMore(q)
    BY <2>1, FreeIsRested, StaysRested
  <2>2. CASE consumers'[q] = <<>>
    BY <2>2 DEF Rested, RoomFor
  <2> QED
    BY <2>1, <2>2
<1> QED
  BY <1>1, FreeFollows DEF OfferInv

LEMMA TopologyOffers ==
  ASSUME Consistent, OfferInv, NEW c \in Conn,
         \/ OpenConn(c)
         \/ \E e \in Exchange, kind \in Kinds : DeclareExchange(c, e, kind)
         \/ \E name \in Name \cup {Unnamed} : Declare(c, name)
         \/ \E name \in QueueName, e \in Exchange, key \in Key : Bind(c, name, e, key)
  PROVE  OfferInv'
<1>1. Free /\ UNCHANGED <<ready, consumers, outstanding, prefetch, work>>
  BY DEF OpenConn, DeclareExchange, Declare, Bind, queueVars, connVars
<1>2. \A n \in QueueName : named[n] # NoQueue => named'[n] = named[n]
  <2>1. CASE UNCHANGED named
    BY <2>1
  <2>2. CASE \E name \in Name \cup {Unnamed} : Declare(c, name)
    <3>1. PICK name \in Name \cup {Unnamed} : Declare(c, name)
      BY <2>2
    <3> DEFINE called == IF name = Unnamed THEN generated + 1 ELSE name
    <3>2. \/ UNCHANGED named
          \/ named[called] = NoQueue /\ named' = [named EXCEPT ![called] = created + 1]
      BY <3>1 DEF Declare
    <3> HIDE DEF called
    <3> QED
      BY <3>2 DEF Consistent, OtherTypes
  <2> QED
    BY <2>1, <2>2 DEF OpenConn, DeclareExchange, Bind, queueVars
<1>3. ConsumedByName'
  <2>1. \A q \in Object : q # NoQueue
    BY DEF Object, NoQueue
  <2> QED
    BY <1>1, <1>2, <2>1 DEF OfferInv, ConsumedByName
<1>4. \A q \in Object : NothingMore(q)
  BY <1>1, SameRoom DEF NothingMore
<1> QED
  BY <1>1, <1>3, <1>4, AtRestOffers

LEMMA GetOffers ==
  ASSUME Consistent, OfferInv, NEW c \in Conn, NEW name \in QueueName, NEW ch \in Channel,
         NEW noAck \in BOOLEAN, Get(c, name, ch, noAck)
  PROVE  OfferInv'
<1>1. /\ Free /\ UNCHANGED <<named, consumers, prefetch, work>>
      /\ named[name] \in Object /\ ready[named[name]] # <<>>
      /\ HandOut(c, named[name], ch, noAck)
  BY DEF Consistent, OtherTypes, Get
<1>2. \A r \in Object : NothingMore(r)
  BY <1>1, HandOutTakes DEF Consistent
<1>3. ConsumedByName'
  BY <1>1 DEF OfferInv, ConsumedByName
<1> QED
  BY <1>1, <1>2, <1>3, AtRestOffers

\* A queue that is emptied or goes away has nothing left to hand out.
LEMMA EmptyingOffers ==
  ASSUME Consistent, OfferInv, NEW c \in Conn, NEW name \in QueueName,
         Purge(c, name) \/ Delete(c, name)
  PROVE  OfferInv'
<1> DEFINE target == named[name]
<1>1. /\ Free /\ target \in Object /\ UNCHANGED <<work, outstanding, prefetch>>
      /\ ready' = [ready EXCEPT ![target] = <<>>]
      /\ \/ UNCHANGED <<named, consumers>>
         \/ /\ named' = [named EXCEPT ![name] = NoQueue]
            /\ consumers' = [consumers EXCEPT ![target] = <<>>]
  BY DEF Consistent, OtherTypes, Purge, Delete, connVars
<1>2. /\ ready \in [Object -> Seq(Pending)] /\ consumers \in [Object -> Seq(Consumer)]
      /\ named \in [QueueName -> Object \cup {NoQueue}]
  BY DEF Consistent, DeliveryTypes, OtherTypes
<1> HIDE DEF target
<1>3. ASSUME NEW q \in Object, q # target
      PROVE  consumers'[q] = consumers[q] /\ ready'[q] = ready[q]
  BY <1>1, <1>2, <1>3
<1>4. ASSUME NEW q \in Object
      PROVE  NothingMore(q) \/ consumers'[q] = <<>>
  <2>1. ready[q] = <<>> => ready'[q] = <<>>
    BY <1>1, <1>2
  <2>2. consumers'[q] = consumers[q] \/ consumers'[q] = <<>>
    BY <1>1, <1>2
  <2>3. CASE consumers'[q] = consumers[q]
    <3>1. RoomFor(q)' => RoomFor(q)
      BY <1>1, <2>3 DEF RoomFor, HasRoom
    <3> QED
      BY <2>1, <3>1 DEF NothingMore
  <2> QED
    BY <2>2, <2>3
<1>5. ConsumedByName'
  <2> SUFFICES ASSUME NEW q \in Object, consumers'[q] # <<>>
               PROVE  \E n \in QueueName : named'[n] = q
    BY DEF ConsumedByName
  <2>1. CASE UNCHANGED <<named, consumers>>
    BY <2>1 DEF OfferInv, ConsumedByName
  <2>2. CASE /\ named' = [named EXCEPT ![name] = NoQueue]
             /\ consumers' = [consumers EXCEPT ![target] = <<>>]
    <3>1. q # target /\ consumers[q] # <<>>
      BY <1>2, <2>2
    <3>2. PICK n \in QueueName : named[n] = q
      BY <3>1 DEF OfferInv, ConsumedByName
    <3> QED
      BY <1>2, <2>2, <3>1, <3>2 DEF target
  <2> QED
    BY <1>1, <2>1, <2>2
<1> QED
  BY <1>1, <1>4, <1>5, AtRestOffers

LEMMA CancelOffers ==
  ASSUME Consistent, OwnInv, OfferInv, NEW c \in Conn, NEW taking \in ConsumersOf(c),
         Cancel(c, taking)
  PROVE  OfferInv'
<1>1. /\ Free /\ UNCHANGED <<named, ready, outstanding, prefetch, work>>
      /\ DropConsumer(taking.queue, taking.tag)
  BY DEF Cancel
<1>2. taking.queue \in Object
  <2>1. taking \in Consumer
    BY DEF Consistent, OtherTypes, ConsumersOf
  <2> QED
    BY <2>1 DEF Consumer
<1>3. \A q \in Object : NothingMore(q) /\ (consumers[q] = <<>> => consumers'[q] = <<>>)
  BY <1>1, <1>2, DroppingMakesNoRoom DEF Consistent, OwnInv
<1>4. ConsumedByName'
  BY <1>1, <1>3 DEF OfferInv, ConsumedByName
<1> QED
  BY <1>1, <1>3, <1>4, AtRestOffers

\* An operation whose loop offers every queue it lets somebody have room for.
LEMMA LoopOffers ==
  ASSUME OfferInv, Free, ConsumedByName', OfferFollows',
         \A q \in Object : NothingMore(q) \/ ComesTo(0, q)'
  PROVE  OfferInv'
<1>1. RestedOrOffered'
  BY FreeIsRested, StaysRested DEF RestedOrOffered
<1> QED
  BY <1>1 DEF OfferInv

\* consume: the queue is offered to its new consumer.
LEMMA ConsumeOffers ==
  ASSUME Consistent, OfferInv, NEW c \in Conn, NEW name \in QueueName,
         NEW requested \in TagsOf[c], NEW ch \in Channel, NEW noAck \in BOOLEAN,
         Consume(c, name, requested, ch, noAck)
  PROVE  OfferInv'
<1> DEFINE target == named[name]
<1>1. /\ Free /\ target \in Object
      /\ UNCHANGED <<named, ready, outstanding, prefetch>>
  BY DEF Consistent, OtherTypes, Consume
<1>2. \/ UNCHANGED <<consumers, work>>
      \/ \E taking : /\ consumers' = [consumers EXCEPT ![target] = Append(@, taking)]
                     /\ work' = <<Dispatch(target)>>
  BY DEF Consume, Enter
<1>3. consumers \in [Object -> Seq(Consumer)]
  BY DEF Consistent, OtherTypes
<1>4. CASE UNCHANGED <<consumers, work>>
  <2>1. \A q \in Object : NothingMore(q)
    BY <1>1, <1>4, SameRoom DEF NothingMore
  <2>2. ConsumedByName'
    BY <1>1, <1>4 DEF OfferInv, ConsumedByName
  <2> QED
    BY <1>1, <1>4, <2>1, <2>2, AtRestOffers
<1>5. ASSUME NEW taking, consumers' = [consumers EXCEPT ![target] = Append(@, taking)],
             work' = <<Dispatch(target)>>
      PROVE  OfferInv'
  <2>1. \A q \in Object : q # target => consumers'[q] = consumers[q]
    BY <1>1, <1>3, <1>5
  <2>2. DOMAIN work' = {1} /\ work'[1] = Dispatch(target)
    BY <1>5
  <2> HIDE DEF target
  <2>3. OfferFollows'
    BY <2>2, NothingFollows DEF Dispatch
  <2>4. ConsumedByName'
    BY <1>1, <2>1 DEF OfferInv, ConsumedByName, target
  <2>5. ASSUME NEW q \in Object
        PROVE  NothingMore(q) \/ ComesTo(0, q)'
    <3>1. CASE q = target
      BY <2>2, <3>1 DEF ComesTo, Dispatch
    <3>2. CASE q # target
      <4>1. RoomFor(q)' => RoomFor(q)
        BY <1>1, <2>1, <3>2 DEF RoomFor, HasRoom
      <4> QED
        BY <1>1, <4>1 DEF NothingMore
    <3> QED
      BY <3>1, <3>2
  <2> QED
    BY <1>1, <2>3, <2>4, <2>5, LoopOffers
<1> QED
  BY <1>2, <1>4, <1>5

\* A new limit changes the room of one connection; whatever it consumes from
\* is offered.
LEMMA QosOffers ==
  ASSUME Consistent, OwnInv, OfferInv, NEW c \in Conn, NEW ch \in Channel,
         NEW limit \in Prefetch, Qos(c, ch, limit)
  PROVE  OfferInv'
<1> DEFINE served == {s.queue : s \in ConsumersOf(c)}
<1>1. /\ Free /\ UNCHANGED <<named, ready, consumers, outstanding>>
      /\ prefetch' = [prefetch EXCEPT ![c][ch] = limit]
  BY DEF Qos, queueVars
<1>2. PICK offers \in Orderings(served) :
        work' = [i \in DOMAIN offers |-> Dispatch(offers[i])]
  BY DEF Qos, Enter
<1>3. served \in SUBSET Object
  <2>1. subscribed \subseteq Consumer
    BY DEF Consistent, OtherTypes
  <2>2. \A s \in ConsumersOf(c) : s.queue \in Object
    BY <2>1 DEF ConsumersOf, Consumer
  <2> QED
    BY <2>2
<1>4. \A q \in served : \E i \in DOMAIN offers : offers[i] = q
  <2> HIDE DEF served
  <2> QED
    BY <1>2, <1>3, ObjectsFinite, OrderingVisitsAll
<1>5. DOMAIN offers = 1 .. Len(offers) /\ Len(offers) \in Nat
  <2> HIDE DEF served
  <2> QED
    BY <1>2, <1>3, ObjectsFinite, OrderingIsSeq
<1>6. \A q \in Object : \A i \in DOMAIN consumers[q] :
        consumers[q][i] \in subscribed /\ consumers[q][i].queue = q
  BY <1>1, FreeIsCalm DEF Calm, OwnInv, ListsSound
<1>7. ASSUME NEW q \in served
      PROVE  ComesTo(0, q)'
  <2>1. PICK i \in DOMAIN offers : offers[i] = q
    BY <1>4
  <2>2. i \in DOMAIN work' /\ work'[i] = Dispatch(q) /\ i > 0
    BY <1>2, <1>5, <2>1
  <2> QED
    BY <2>2 DEF ComesTo, Dispatch
<1>8. ASSUME NEW q \in Object, q \notin served
      PROVE  NothingMore(q)
  <2>1. \A i \in DOMAIN consumers[q] : consumers[q][i].owner # c
    BY <1>6, <1>8 DEF ConsumersOf
  <2>2. \A d, k : d # c => prefetch'[d][k] = prefetch[d][k]
    <3>1. prefetch \in [Conn -> [Channel -> Nat]]
      BY DEF Consistent, OtherTypes
    <3>2. \A d : d # c => prefetch'[d] = prefetch[d]
      BY <1>1, <3>1
    <3> QED
      BY <3>2
  <2>3. \A d, k : d # c => (HasRoom(d, k)' <=> HasRoom(d, k))
    BY <1>1, <2>2 DEF HasRoom
  <2> QED
    BY <1>1, <2>1, <2>3 DEF NothingMore, RoomFor
<1>9. OfferFollows'
  BY <1>2, NothingFollows DEF Dispatch
<1>10. ConsumedByName'
  BY <1>1 DEF OfferInv, ConsumedByName
<1> HIDE DEF served
<1>11. \A q \in Object : NothingMore(q) \/ ComesTo(0, q)'
  BY <1>7, <1>8
<1> QED
  BY <1>1, <1>9, <1>10, <1>11, LoopOffers

\* publish: every append is followed by an offer of its queue.
LEMMA PublishOffers ==
  ASSUME Consistent, OfferInv, NEW c \in Conn,
         \/ \E name \in QueueName : PublishDefault(c, name)
         \/ \E e \in Exchange, key \in Key : Publish(c, e, key)
  PROVE  OfferInv'
<1>1. PICK order \in Seq(Object) : Free /\ published < MaxMessages /\ PublishTo(c, order)
  BY PublishVisits
<1>2. UNCHANGED <<named, ready, consumers, outstanding, prefetch>>
  BY <1>1 DEF PublishTo, queueVars, connVars
<1>3. /\ work' = [i \in 1 .. 2 * Len(order) |->
                    IF i % 2 = 1
                    THEN [do |-> "append", queue |-> order[(i + 1) \div 2],
                          msg |-> published + 1]
                    ELSE Dispatch(order[i \div 2])]
      /\ Len(order) \in Nat
  BY <1>1 DEF PublishTo, Enter
<1>4. ASSUME NEW k \in DOMAIN work', work'[k].do # "dispatch"
      PROVE  work'[k].do = "append" /\ ComesTo(k, work[k].queue)'
  <2>1. k \in 1 .. 2 * Len(order) /\ k % 2 = 1
    BY <1>3, <1>4 DEF Dispatch
  <2>2. /\ k + 1 \in 1 .. 2 * Len(order) /\ (k + 1) % 2 = 0 /\ k + 1 > k
    <3>1. Len(order) \in Nat
      OBVIOUS
    <3> QED
      BY <2>1, <3>1
  <2>3. work'[k].do = "append" /\ work'[k].queue = order[(k + 1) \div 2]
    BY <1>3, <2>1
  <2>4. k + 1 \in DOMAIN work' /\ work'[k + 1] = Dispatch(order[(k + 1) \div 2])
    BY <1>3, <2>2
  <2> QED
    BY <2>2, <2>3, <2>4 DEF ComesTo, Dispatch
<1>5. OfferFollows'
  <2>1. \A k \in DOMAIN work' : work'[k].do \in {"append", "give"} =>
          work'[k].do = "append" /\ ComesTo(k, work[k].queue)'
    BY <1>4
  <2> QED
    BY <2>1 DEF OfferFollows
<1>6. ConsumedByName'
  BY <1>2 DEF OfferInv, ConsumedByName
<1>7. \A q \in Object : NothingMore(q)
  BY <1>2, SameRoom DEF NothingMore
<1> QED
  BY <1>1, <1>5, <1>6, <1>7, LoopOffers

\* settle: every delivery that is given back is followed by an offer of the
\* queue it came from.
LEMMA SettleOffers ==
  ASSUME Consistent, OfferInv, NEW c \in Conn, NEW tag, NEW ch, NEW multiple, NEW requeue,
         Settle(c, tag, ch, multiple, requeue)
  PROVE  OfferInv'
<1> DEFINE chosen == Selected(c, tag, ch, multiple)
<1>1. /\ Free
      /\ UNCHANGED <<named, ready, consumers, held, outstanding, prefetch>>
  BY DEF Settle, queueVars, connVars
<1>2. chosen \subseteq held /\ \A h \in chosen : h.conn = c
  BY DEF Selected, HeldBy
<1>3. IsFiniteSet(chosen)
  BY <1>2, FS_Subset DEF Consistent, DeliveryTypes
<1>4. PICK order \in Orderings(chosen) :
        /\ work' = [i \in 1 .. 2 * Len(order) |->
                      IF i % 2 = 1
                      THEN [do |-> "give", tag |-> order[(i + 1) \div 2].tag]
                      ELSE Dispatch(order[i \div 2].queue)]
        /\ op' = IF work' = <<>> THEN NoOp
                 ELSE [conn |-> c, requeue |-> requeue, batch |-> chosen]
  BY DEF Settle, Enter
<1> HIDE DEF chosen
<1>5. /\ Len(order) \in Nat /\ DOMAIN order = 1 .. Len(order)
      /\ \A i \in DOMAIN order : order[i] \in held /\ order[i].conn = c
  BY <1>2, <1>3, <1>4, OrderingIsSeq
<1>6. ASSUME NEW k \in DOMAIN work', work'[k].do # "dispatch"
      PROVE  /\ work'[k].do = "give"
             /\ \A h \in held : h.conn = op'.conn /\ h.tag = work'[k].tag =>
                  ComesTo(k, h.queue)'
  <2>1. k \in 1 .. 2 * Len(order) /\ k % 2 = 1
    BY <1>4, <1>6 DEF Dispatch
  <2>2. /\ k + 1 \in 1 .. 2 * Len(order) /\ (k + 1) % 2 = 0 /\ k + 1 > k
        /\ (k + 1) \div 2 \in 1 .. Len(order)
    BY <1>5, <2>1
  <2>3. work'[k].do = "give" /\ work'[k].tag = order[(k + 1) \div 2].tag
    BY <1>4, <2>1
  <2>4. k + 1 \in DOMAIN work' /\ work'[k + 1] = Dispatch(order[(k + 1) \div 2].queue)
    BY <1>4, <2>2
  <2>5. op'.conn = c
    <3>1. work' # <<>>
      BY <1>6
    <3> QED
      BY <1>4, <3>1
  <2>6. PICK g \in held : g = order[(k + 1) \div 2] /\ g.conn = c
    BY <1>5, <2>2
  <2>7. ASSUME NEW h \in held, h.conn = op'.conn, h.tag = work'[k].tag
        PROVE  h = g
    BY <2>3, <2>5, <2>6, <2>7 DEF Consistent, TagsIssued
  <2>8. ComesTo(k, g.queue)'
    BY <2>2, <2>4, <2>6 DEF ComesTo, Dispatch
  <2> QED
    BY <2>3, <2>7, <2>8
<1>7. OfferFollows'
  <2>1. \A k \in DOMAIN work' : work'[k].do # "append"
    BY <1>6
  <2>2. \A k \in DOMAIN work' : work'[k].do = "give" =>
          \A h \in held : h.conn = op'.conn /\ h.tag = work'[k].tag => ComesTo(k, h.queue)'
    BY <1>6
  <2> QED
    BY <1>1, <2>1, <2>2 DEF OfferFollows
<1>8. ConsumedByName'
  BY <1>1 DEF OfferInv, ConsumedByName
<1>9. \A q \in Object : NothingMore(q)
  BY <1>1, SameRoom DEF NothingMore
<1> QED
  BY <1>1, <1>7, <1>8, <1>9, LoopOffers

\* The offers of a close come last.
LEMMA CloseLoopEnds ==
  ASSUME NEW c, NEW D \in Seq(Step), NEW G \in Seq(Step), NEW F \in Seq(Step),
         IsCloseLoop(c, D, G, F), NEW i \in DOMAIN F
  PROVE  /\ i + Len(D) + Len(G) \in DOMAIN work'
         /\ work'[i + Len(D) + Len(G)] = F[i]
<1>1. work' = D \o G \o F
  BY DEF IsCloseLoop
<1> QED
  BY <1>1

\* Close: the offers are for every queue with a name and come last, after all
\* that is given back.
LEMMA CloseConnOffers ==
  ASSUME Consistent, OfferInv, NEW c \in Conn, CloseConn(c)
  PROVE  OfferInv'
<1>1. /\ Free /\ UNCHANGED <<named, ready, consumers, held, outstanding, prefetch>>
  BY DEF CloseConn, queueVars
<1>2. PICK D \in Seq(Step), G \in Seq(Step), F \in Seq(Step) : IsCloseLoop(c, D, G, F)
  BY CloseConnLoop
<1>3. /\ Len(D) \in Nat /\ Len(G) \in Nat
      /\ DOMAIN D = 1 .. Len(D) /\ DOMAIN G = 1 .. Len(G)
      /\ \A i \in DOMAIN work' :
           \/ i \in DOMAIN D /\ work'[i] = D[i]
           \/ i - Len(D) \in DOMAIN G /\ work'[i] = G[i - Len(D)]
           \/ i > Len(D) /\ work'[i].do = "dispatch"
      /\ \A i \in DOMAIN F : /\ i + Len(D) + Len(G) \in DOMAIN work'
                             /\ work'[i + Len(D) + Len(G)] = F[i]
  <2>1. DOMAIN D = 1 .. Len(D) /\ DOMAIN G = 1 .. Len(G)
    OBVIOUS
  <2>2. Len(D) \in Nat /\ Len(G) \in Nat
    OBVIOUS
  <2>3. \A i \in DOMAIN F : /\ i + Len(D) + Len(G) \in DOMAIN work'
                            /\ work'[i + Len(D) + Len(G)] = F[i]
    BY <1>2, CloseLoopEnds
  <2>4. ASSUME NEW i \in DOMAIN work'
        PROVE  \/ i \in DOMAIN D /\ work'[i] = D[i]
               \/ i - Len(D) \in DOMAIN G /\ work'[i] = G[i - Len(D)]
               \/ i > Len(D) /\ work'[i].do = "dispatch"
    BY <1>2, CloseLoopParts
  <2> QED
    BY <2>1, <2>2, <2>3, <2>4
<1>4. /\ \A i \in DOMAIN D : D[i].do = "drop"
      /\ \A i \in DOMAIN G : G[i].do = "give"
      /\ \A n \in QueueName : named[n] # NoQueue =>
           \E i \in DOMAIN F : F[i] = Dispatch(named[n])
  BY <1>2 DEF IsCloseLoop
<1>5. \A i \in DOMAIN work' : i \in Nat
  <2>1. work' \in Seq(Step)
    BY <1>2, CloseLoopParts
  <2> QED
    BY <2>1
<1>6. ASSUME NEW k \in DOMAIN work', work'[k].do \in {"append", "give"}
      PROVE  work'[k].do = "give" /\ k - Len(D) \in DOMAIN G
  <2>1. ~(k \in DOMAIN D /\ work'[k] = D[k])
    BY <1>4, <1>6
  <2>2. k - Len(D) \in DOMAIN G /\ work'[k] = G[k - Len(D)]
    BY <1>3, <1>6, <2>1
  <2> QED
    BY <1>4, <2>2
<1>7. ASSUME NEW q \in Object, consumers[q] # <<>>, NEW k \in DOMAIN work',
             k - Len(D) \in DOMAIN G
      PROVE  ComesTo(k, q)'
  <2>1. PICK n \in QueueName : named[n] = q
    BY <1>7 DEF OfferInv, ConsumedByName
  <2>2. named[n] # NoQueue
    BY <2>1 DEF Object, NoQueue
  <2>3. PICK i \in DOMAIN F : F[i] = Dispatch(q)
    BY <1>4, <2>1, <2>2
  <2>4. i \in Nat /\ i > 0
    BY <2>3
  <2>5. /\ i + Len(D) + Len(G) \in DOMAIN work'
        /\ work'[i + Len(D) + Len(G)] = Dispatch(q)
    BY <1>3, <2>3
  <2>6. i + Len(D) + Len(G) > k
    BY <1>3, <1>5, <1>7, <2>4
  <2> QED
    BY <2>5, <2>6 DEF ComesTo, Dispatch
<1>8. OfferFollows'
  <2>1. \A k \in DOMAIN work' : work'[k].do # "append"
    BY <1>6
  <2>2. ASSUME NEW k \in DOMAIN work', work'[k].do = "give", NEW h \in held
        PROVE  consumers[h.queue] = <<>> \/ ComesTo(k, h.queue)'
    <3>1. h.queue \in Object
      BY DEF Consistent, DeliveryTypes, Held
    <3>2. k - Len(D) \in DOMAIN G
      BY <1>6, <2>2
    <3> QED
      BY <1>7, <3>1, <3>2
  <2> QED
    BY <1>1, <2>1, <2>2 DEF OfferFollows
<1>9. ConsumedByName'
  BY <1>1 DEF OfferInv, ConsumedByName
<1>10. \A q \in Object : NothingMore(q)
  BY <1>1, SameRoom DEF NothingMore
<1> QED
  BY <1>1, <1>8, <1>9, <1>10, LoopOffers

LEMMA NextKeepsOffers ==
  Consistent /\ OwnInv /\ ChannelsApart /\ OfferInv /\ [Next]_vars => OfferInv'
<1> SUFFICES ASSUME Consistent, OwnInv, ChannelsApart, OfferInv, [Next]_vars
             PROVE  OfferInv'
  OBVIOUS
<1>1. CASE AppendStep
  BY <1>1, AppendStepOffers
<1>2. CASE DropStep
  BY <1>2, DropStepOffers
<1>3. CASE GiveStep
  BY <1>3, GiveStepOffers
<1>4. CASE PushStep
  BY <1>4, PushStepOffers
<1>5. CASE DispatchDone
  BY <1>5, DispatchDoneOffers
<1>6. ASSUME NEW c \in Conn, Operation(c)
      PROVE  OfferInv'
  <2>1. CASE CloseConn(c)
    BY <2>1, CloseConnOffers
  <2>2. CASE \/ OpenConn(c)
             \/ \E e \in Exchange, kind \in Kinds : DeclareExchange(c, e, kind)
             \/ \E name \in Name \cup {Unnamed} : Declare(c, name)
             \/ \E name \in QueueName, e \in Exchange, key \in Key : Bind(c, name, e, key)
    BY <2>2, TopologyOffers
  <2>3. CASE \/ \E name \in QueueName : PublishDefault(c, name)
             \/ \E e \in Exchange, key \in Key : Publish(c, e, key)
    BY <2>3, PublishOffers
  <2>4. CASE \E name \in QueueName, ch \in Channel, noAck \in BOOLEAN :
               Get(c, name, ch, noAck)
    BY <2>4, GetOffers
  <2>5. CASE \E name \in QueueName, requested \in TagsOf[c], ch \in Channel,
                noAck \in BOOLEAN : Consume(c, name, requested, ch, noAck)
    BY <2>5, ConsumeOffers
  <2>6. CASE \E taking \in ConsumersOf(c) : Cancel(c, taking)
    BY <2>6, CancelOffers
  <2>7. CASE \E ch \in Channel, limit \in Prefetch : Qos(c, ch, limit)
    BY <2>7, QosOffers
  <2>8. CASE \E tag \in 0 .. nextTag[c], ch \in Channel, multiple, requeue \in BOOLEAN :
               Settle(c, tag, ch, multiple, requeue)
    BY <2>8, SettleOffers
  <2>9. CASE \E name \in QueueName : Purge(c, name) \/ Delete(c, name)
    BY <2>9, EmptyingOffers
  <2> QED
    BY <1>6, <2>1, <2>2, <2>3, <2>4, <2>5, <2>6, <2>7, <2>8, <2>9 DEF Operation
<1>7. CASE UNCHANGED vars
  BY <1>7 DEF vars, queueVars, connVars, OfferInv, RestedOrOffered, OfferFollows,
     ConsumedByName, Rested, RoomFor, HasRoom, ComesTo, Dispatch
<1> QED
  BY <1>1, <1>2, <1>3, <1>4, <1>5, <1>6, <1>7 DEF Next, LoopStep

\* As long as no two connections carry the same consumer tag and no channel
\* holds a delivery of a queue other than those it consumes from, no message
\* waits, between operations, for a consumer that has room (dispatch, which
\* publish, consume, qos, settle and Close call: queues.go:196-208).
THEOREM NobodyWaits ==
  ASSUME TagsApart
  PROVE  Spec /\ []ChannelsApart => []NoStall
<1>1. Init => Consistent
  BY InitConsistent
<1>2. Init => OfferInv
  BY DEF Init, OfferInv, RestedOrOffered, OfferFollows, ConsumedByName, Rested
<1>3. Consistent /\ [Next]_vars => Consistent'
  BY NextKeepsConsistent
<1>4. Consistent /\ OwnInv /\ ChannelsApart /\ OfferInv /\ [Next]_vars => OfferInv'
  BY NextKeepsOffers
<1>5. Consistent /\ OfferInv => NoStall
  <2> SUFFICES ASSUME Consistent, OfferInv, Free, NEW q \in Object, ready[q] # <<>>
               PROVE  Willing(q) = {}
    BY DEF NoStall
  <2>1. Rested(q)
    BY FreeIsRested
  <2> QED
    BY <2>1, SomeoneTakes DEF Rested, Consistent
<1> QED
  BY <1>1, <1>2, <1>3, <1>4, <1>5, OwnAlways, PTL DEF Spec

\* One queue is enough for that: with no more than one, whatever the channels
\* do, no message waits for a consumer that has room.
THEOREM OneQueueNeverStalls ==
  ASSUME TagsApart, MaxQueues = 1
  PROVE  Spec => []NoStall
<1>1. Consistent => ChannelsApart
  <2> SUFFICES ASSUME Consistent, NEW s \in subscribed, NEW h \in held
               PROVE  s.queue = h.queue
    BY DEF ChannelsApart
  <2>1. s \in Consumer /\ h \in Held
    BY DEF Consistent, OtherTypes, DeliveryTypes
  <2>2. s.queue \in 1 .. 1 /\ h.queue \in 1 .. 1
    BY <2>1 DEF Consumer, Held, Object
  <2> QED
    BY <2>2
<1>2. Spec => []Consistent
  BY InitConsistent, NextKeepsConsistent, PTL DEF Spec
<1> QED
  BY <1>1, <1>2, NobodyWaits, PTL

----------------------------------------------------------------------------
(* Topics *)

\* The key can be cut after its first b words along the pattern after its
\* first a.
CutAfter(pattern, key, a, b) ==
  \E cut \in [a .. Len(pattern) -> 0 .. Len(key)] :
    /\ cut[a] = b /\ cut[Len(pattern)] = Len(key)
    /\ \A p \in a + 1 .. Len(pattern) : Stands(pattern[p], key, cut[p - 1], cut[p])

\* A cut begins with a stretch, and goes on with a cut of the rest.
LEMMA CutBegins ==
  ASSUME NEW D, NEW pattern \in Seq(D), NEW key \in Seq(D), NEW a \in 0 .. Len(pattern),
         NEW b \in 0 .. Len(key), a # Len(pattern)
  PROVE  CutAfter(pattern, key, a, b) <=>
           \E c \in 0 .. Len(key) :
             Stands(pattern[a + 1], key, b, c) /\ CutAfter(pattern, key, a + 1, c)
<1>1. PICK n \in Nat, m \in Nat : n = Len(pattern) /\ m = Len(key)
  OBVIOUS
<1>2. a \in 0 .. n /\ b \in 0 .. m /\ a # n /\ a + 1 \in a .. n /\ a \in a .. n /\ n \in a .. n
  BY <1>1
<1>3. ASSUME NEW cut \in [a .. n -> 0 .. m], cut[a] = b, cut[n] = m,
             \A p \in a + 1 .. n : Stands(pattern[p], key, cut[p - 1], cut[p])
      PROVE  \E c \in 0 .. m : Stands(pattern[a + 1], key, b, c) /\ CutAfter(pattern, key, a + 1, c)
  <2> DEFINE short == [p \in a + 1 .. n |-> cut[p]]
  <2>1. cut[a + 1] \in 0 .. m /\ Stands(pattern[a + 1], key, b, cut[a + 1])
    <3>1. a + 1 \in a + 1 .. n /\ (a + 1) - 1 = a
      BY <1>2
    <3>2. Stands(pattern[a + 1], key, cut[(a + 1) - 1], cut[a + 1])
      BY <1>3, <3>1
    <3> QED
      BY <1>2, <1>3, <3>1, <3>2
  <2>2. short \in [a + 1 .. n -> 0 .. m] /\ short[a + 1] = cut[a + 1] /\ short[n] = m
    BY <1>2, <1>3
  <2>3. ASSUME NEW p \in (a + 1) + 1 .. n PROVE Stands(pattern[p], key, short[p - 1], short[p])
    <3>1. p \in a + 1 .. n /\ p - 1 \in a + 1 .. n
      BY <1>2
    <3>2. short[p - 1] = cut[p - 1] /\ short[p] = cut[p]
      BY <3>1
    <3> QED
      BY <1>3, <3>1, <3>2
  <2> HIDE DEF short
  <2>4. CutAfter(pattern, key, a + 1, cut[a + 1])
    BY <1>1, <2>2, <2>3 DEF CutAfter
  <2> QED
    BY <2>1, <2>4
<1>4. ASSUME NEW c \in 0 .. m, Stands(pattern[a + 1], key, b, c),
             NEW cut \in [a + 1 .. n -> 0 .. m], cut[a + 1] = c, cut[n] = m,
             \A p \in (a + 1) + 1 .. n : Stands(pattern[p], key, cut[p - 1], cut[p])
      PROVE  CutAfter(pattern, key, a, b)
  <2> DEFINE long == [p \in a .. n |-> IF p = a THEN b ELSE cut[p]]
  <2>1. long \in [a .. n -> 0 .. m] /\ long[a] = b /\ long[n] = m
    BY <1>2, <1>4
  <2>2. ASSUME NEW p \in a + 1 .. n PROVE Stands(pattern[p], key, long[p - 1], long[p])
    <3>1. CASE p = a + 1
      <4>1. p - 1 = a /\ p # a /\ p \in a .. n /\ a \in a .. n
        BY <1>2, <3>1
      <4>2. long[a] = b /\ long[p] = cut[p]
        BY <4>1
      <4>3. long[p - 1] = b /\ long[p] = c
        <5> HIDE DEF long
        <5> QED
          BY <1>4, <3>1, <4>1, <4>2
      <4> HIDE DEF long
      <4> QED
        BY <1>4, <3>1, <4>1, <4>3
    <3>2. CASE p # a + 1
      <4>1. p \in (a + 1) + 1 .. n /\ p \in a .. n /\ p - 1 \in a .. n /\ p # a /\ p - 1 # a
        BY <1>2, <3>2
      <4>2. long[p - 1] = cut[p - 1] /\ long[p] = cut[p]
        BY <4>1
      <4> QED
        BY <1>4, <4>1, <4>2
    <3> QED
      BY <3>1, <3>2
  <2> HIDE DEF long
  <2> QED
    BY <1>1, <2>1, <2>2 DEF CutAfter
<1>5. CutAfter(pattern, key, a, b) =>
        \E c \in 0 .. m : Stands(pattern[a + 1], key, b, c) /\ CutAfter(pattern, key, a + 1, c)
  BY <1>1, <1>3 DEF CutAfter
<1>6. ASSUME NEW c \in 0 .. m, Stands(pattern[a + 1], key, b, c), CutAfter(pattern, key, a + 1, c)
      PROVE  CutAfter(pattern, key, a, b)
  <2>1. PICK cut \in [a + 1 .. n -> 0 .. m] :
          /\ cut[a + 1] = c /\ cut[n] = m
          /\ \A p \in (a + 1) + 1 .. n : Stands(pattern[p], key, cut[p - 1], cut[p])
    BY <1>1, <1>6 DEF CutAfter
  <2> QED
    BY <1>4, <1>6, <2>1
<1> QED
  BY <1>1, <1>5, <1>6

\* wordsMatch, step by step: at the end of the pattern the key must have
\* ended; "#" stands for nothing more or takes a word and stays; any other
\* word takes one.
LEMMA CutSteps ==
  ASSUME NEW D, NEW pattern \in Seq(D), NEW key \in Seq(D), NEW a \in 0 .. Len(pattern),
         NEW b \in 0 .. Len(key)
  PROVE  CutAfter(pattern, key, a, b) <=>
           IF a = Len(pattern) THEN b = Len(key)
           ELSE IF pattern[a + 1] = AnyWords
           THEN \/ CutAfter(pattern, key, a + 1, b)
                \/ b < Len(key) /\ CutAfter(pattern, key, a, b + 1)
           ELSE /\ b < Len(key) /\ pattern[a + 1] \in {OneWord, key[b + 1]}
                /\ CutAfter(pattern, key, a + 1, b + 1)
<1>1. PICK n \in Nat, m \in Nat : n = Len(pattern) /\ m = Len(key)
  OBVIOUS
<1>2. a \in 0 .. n /\ b \in 0 .. m /\ a \in Nat /\ b \in Nat
  BY <1>1
<1>3. CASE a = n
  <2>1. b = m => CutAfter(pattern, key, a, b)
    <3>1. [p \in a .. n |-> m] \in [a .. n -> 0 .. m] /\ a + 1 .. n = {}
      BY <1>2, <1>3
    <3>2. [p \in a .. n |-> m][n] = m
      BY <1>2, <1>3
    <3> QED
      BY <1>1, <1>3, <3>1, <3>2 DEF CutAfter
  <2>2. CutAfter(pattern, key, a, b) => b = m
    BY <1>1, <1>3 DEF CutAfter
  <2> QED
    BY <1>1, <1>3, <2>1, <2>2
<1>4. CASE a # n
  <2>1. ASSUME NEW d \in 0 .. m
        PROVE  CutAfter(pattern, key, a, d) <=>
                 \E c \in 0 .. m : Stands(pattern[a + 1], key, d, c) /\ CutAfter(pattern, key, a + 1, c)
    BY <1>1, <1>2, <1>4, CutBegins
  <2>2. CASE pattern[a + 1] = AnyWords
    <3>1. \A d \in 0 .. m, c \in 0 .. m : Stands(pattern[a + 1], key, d, c) <=> d <= c
      BY <2>2 DEF Stands
    <3>2. \A d \in 0 .. m : CutAfter(pattern, key, a, d) <=>
                              \E c \in 0 .. m : d <= c /\ CutAfter(pattern, key, a + 1, c)
      BY <2>1, <3>1
    <3>3. (\E c \in 0 .. m : b <= c /\ CutAfter(pattern, key, a + 1, c)) <=>
            \/ CutAfter(pattern, key, a + 1, b)
            \/ b < m /\ \E c \in 0 .. m : b + 1 <= c /\ CutAfter(pattern, key, a + 1, c)
      <4>1. \A c \in 0 .. m : b <= c <=> c = b \/ (b < m /\ b + 1 <= c)
        BY <1>2
      <4> QED
        BY <1>2, <4>1
    <3>4. b < m => b + 1 \in 0 .. m
      BY <1>2
    <3> QED
      BY <1>1, <1>2, <1>4, <2>2, <3>2, <3>3, <3>4
  <2>3. CASE pattern[a + 1] # AnyWords
    <3>1. \A c \in 0 .. m : Stands(pattern[a + 1], key, b, c) <=>
                              c = b + 1 /\ pattern[a + 1] \in {OneWord, key[c]}
      BY <2>3 DEF Stands
    <3>2. b < m <=> b + 1 \in 0 .. m
      BY <1>2
    <3> QED
      BY <1>1, <1>2, <1>4, <2>1, <2>3, <3>1, <3>2
  <2> QED
    BY <2>2, <2>3
<1> QED
  BY <1>3, <1>4

\* wordsMatch finds every cut and no other, for patterns and keys of any
\* length over any words: of the pairs of suffixes on which the two differed
\* one would be the shortest, and they agree on what is left after one step.
THEOREM TopicsMatchByCuts ==
  ASSUME NEW D, NEW pattern \in Seq(D), NEW words \in Seq(D)
  PROVE  WordsMatch(pattern, words) <=> CutsTo(pattern, words)
<1>1. PICK n \in Nat, m \in Nat : n = Len(pattern) /\ m = Len(words)
  OBVIOUS
<1> DEFINE P == 1 .. n + 1
           W == 1 .. m + 1
           step(h, p, w) ==
             IF p > n THEN w > m
             ELSE IF pattern[p] = AnyWords
             THEN h[<<p + 1, w>>] \/ (w <= m /\ h[<<p, w + 1>>])
             ELSE /\ w <= m
                  /\ pattern[p] \in {OneWord, words[w]}
                  /\ h[<<p + 1, w + 1>>]
           body(h) == [at \in P \X W |-> step(h, at[1], at[2])]
           cuts == [at \in P \X W |-> CutAfter(pattern, words, at[1] - 1, at[2] - 1)]
           match == CHOOSE h : h = body(h)
<1>2. ASSUME NEW p \in P, NEW w \in W
      PROVE  CutAfter(pattern, words, p - 1, w - 1) <=>
               IF p > n THEN w > m
               ELSE IF pattern[p] = AnyWords
               THEN \/ CutAfter(pattern, words, (p + 1) - 1, w - 1)
                    \/ w <= m /\ CutAfter(pattern, words, p - 1, (w + 1) - 1)
               ELSE /\ w <= m /\ pattern[p] \in {OneWord, words[w]}
                    /\ CutAfter(pattern, words, (p + 1) - 1, (w + 1) - 1)
  <2>1. PICK a \in 0 .. n, b \in 0 .. m : a = p - 1 /\ b = w - 1
    OBVIOUS
  <2>2. /\ a + 1 = p /\ b + 1 = w /\ (p + 1) - 1 = a + 1 /\ (w + 1) - 1 = b + 1
        /\ a = n <=> p > n
        /\ b = m <=> w > m
        /\ b < m <=> w <= m
    BY <2>1
  <2>3. CutAfter(pattern, words, a, b) <=>
           IF a = n THEN b = m
           ELSE IF pattern[a + 1] = AnyWords
           THEN \/ CutAfter(pattern, words, a + 1, b)
                \/ b < m /\ CutAfter(pattern, words, a, b + 1)
           ELSE /\ b < m /\ pattern[a + 1] \in {OneWord, words[b + 1]}
                /\ CutAfter(pattern, words, a + 1, b + 1)
    BY <1>1, CutSteps
  <2> QED
    BY <2>1, <2>2, <2>3
<1>3. ASSUME NEW p \in P, NEW w \in W
      PROVE  /\ p <= n => <<p + 1, w>> \in P \X W
             /\ w <= m => <<p, w + 1>> \in P \X W
             /\ p <= n /\ w <= m => <<p + 1, w + 1>> \in P \X W
             /\ p > n \/ p <= n
  OBVIOUS
<1>4. cuts = body(cuts)
  <2>1. ASSUME NEW p \in P, NEW w \in W
        PROVE  CutAfter(pattern, words, p - 1, w - 1) <=> step(cuts, p, w)
    <3>1. ASSUME NEW q \in P, NEW v \in W
          PROVE  cuts[<<q, v>>] <=> CutAfter(pattern, words, q - 1, v - 1)
      OBVIOUS
    <3>2. /\ p <= n => (cuts[<<p + 1, w>>] <=> CutAfter(pattern, words, (p + 1) - 1, w - 1))
          /\ w <= m => (cuts[<<p, w + 1>>] <=> CutAfter(pattern, words, p - 1, (w + 1) - 1))
          /\ p <= n /\ w <= m =>
               (cuts[<<p + 1, w + 1>>] <=> CutAfter(pattern, words, (p + 1) - 1, (w + 1) - 1))
      <4> HIDE DEF cuts
      <4> QED
        BY <1>3, <3>1
    <3> HIDE DEF cuts
    <3> QED
      BY <1>2, <1>3, <3>2
  <2>2. ASSUME NEW p \in P, NEW w \in W
        PROVE  CutAfter(pattern, words, p - 1, w - 1) \in BOOLEAN /\ step(cuts, p, w) \in BOOLEAN
    <3> HIDE DEF cuts, P, W
    <3>1. CutAfter(pattern, words, p - 1, w - 1) \in BOOLEAN
      BY DEF CutAfter
    <3>2. step(cuts, p, w) \in BOOLEAN
      <4>1. CASE p > n
        BY <4>1
      <4>2. CASE ~(p > n) /\ pattern[p] = AnyWords
        BY <4>2
      <4>3. CASE ~(p > n) /\ pattern[p] # AnyWords
        BY <4>3
      <4> QED
        BY <4>1, <4>2, <4>3
    <3> QED
      BY <3>1, <3>2
  <2> HIDE DEF P, W, step, cuts
  <2>3. \A at \in P \X W : CutAfter(pattern, words, at[1] - 1, at[2] - 1) = step(cuts, at[1], at[2])
    BY <2>1, <2>2
  <2> QED
    BY <2>3 DEF cuts
<1>5. match = body(match)
  <2> HIDE DEF body, cuts
  <2> QED
    BY <1>4
<1>6. WordsMatch(pattern, words) = match[<<1, 1>>]
  BY <1>1 DEF WordsMatch
<1> HIDE DEF match
<1>7. ASSUME NEW p \in P, NEW w \in W
      PROVE  match[<<p, w>>] <=> step(match, p, w)
  <2>1. <<p, w>> \in P \X W /\ <<p, w>>[1] = p /\ <<p, w>>[2] = w
    OBVIOUS
  <2> HIDE DEF P, W, step
  <2> QED
    BY <1>5, <2>1
<1> DEFINE Left(p, w) == (n + 1 - p) + (m + 1 - w)
           Bad == {k \in Nat : \E p \in P, w \in W :
                     k = Left(p, w) /\ ~(match[<<p, w>>] <=> CutAfter(pattern, words, p - 1, w - 1))}
<1>8. Bad = {}
  <2> SUFFICES ASSUME NEW bad \in Bad PROVE FALSE
    OBVIOUS
  <2>1. Bad \in SUBSET Nat
    OBVIOUS
  <2>2. PICK k \in Bad : \A j \in Bad : k <= j
    <3> HIDE DEF Bad
    <3> QED
      BY <2>1, SmallestOfNats
  <2>3. PICK p \in P, w \in W :
          k = Left(p, w) /\ ~(match[<<p, w>>] <=> CutAfter(pattern, words, p - 1, w - 1))
    OBVIOUS
  <2>4. ASSUME NEW q \in P, NEW v \in W, Left(q, v) < Left(p, w)
        PROVE  match[<<q, v>>] <=> CutAfter(pattern, words, q - 1, v - 1)
    <3>1. Left(q, v) \in Nat /\ ~(k <= Left(q, v))
      <4>1. q \in Nat /\ q <= n + 1 /\ v \in Nat /\ v <= m + 1
        OBVIOUS
      <4>2. Left(q, v) \in Nat
        BY <4>1
      <4>3. k = Left(p, w) /\ k \in Nat /\ Left(q, v) < k
        <5>1. k \in Nat
          BY <2>1
        <5> HIDE DEF Bad, Left
        <5> QED
          BY <2>3, <2>4, <5>1
      <4> HIDE DEF Bad, Left
      <4> QED
        BY <4>2, <4>3
    <3>2. Left(q, v) \notin Bad
      <4> HIDE DEF Bad, Left
      <4> QED
        BY <2>2, <3>1
    <3> QED
      BY <3>1, <3>2
  <2>5. /\ p <= n => p + 1 \in P /\ Left(p + 1, w) < Left(p, w)
        /\ w <= m => w + 1 \in W /\ Left(p, w + 1) < Left(p, w)
        /\ p <= n /\ w <= m => Left(p + 1, w + 1) < Left(p, w)
        /\ p > n \/ p <= n
    OBVIOUS
  <2> HIDE DEF Left, Bad, body, cuts, P, W
  <2>6. /\ p <= n => (match[<<p + 1, w>>] <=> CutAfter(pattern, words, (p + 1) - 1, w - 1))
        /\ w <= m => (match[<<p, w + 1>>] <=> CutAfter(pattern, words, p - 1, (w + 1) - 1))
        /\ p <= n /\ w <= m => (match[<<p + 1, w + 1>>] <=> CutAfter(pattern, words, (p + 1) - 1, (w + 1) - 1))
    BY <2>4, <2>5
  <2>7. match[<<p, w>>] <=> CutAfter(pattern, words, p - 1, w - 1)
    BY <1>2, <1>7, <2>5, <2>6
  <2> QED
    BY <2>3, <2>7
<1>9. match[<<1, 1>>] <=> CutAfter(pattern, words, 0, 0)
  <2>1. 1 \in P /\ 1 \in W /\ Left(1, 1) \in Nat /\ 1 - 1 = 0
    OBVIOUS
  <2>2. Left(1, 1) \notin Bad
    <3> HIDE DEF Bad
    <3> QED
      BY <1>8
  <2> HIDE DEF Left, P, W
  <2>3. match[<<1, 1>>] <=> CutAfter(pattern, words, 1 - 1, 1 - 1)
    BY <2>1, <2>2
  <2> QED
    BY <2>1, <2>3
<1>10. CutAfter(pattern, words, 0, 0) <=> CutsTo(pattern, words)
  <2>1. 0 + 1 = 1
    OBVIOUS
  <2> QED
    BY <1>1, <2>1 DEF CutAfter, CutsTo
<1> QED
  BY <1>6, <1>9, <1>10

\* Whatever exchanges are declared, a topic reaches the keys that a cut says.
THEOREM TopicsRouteByCuts == Spec => []MatchIsCut
<1>1. ASSUME NEW pattern \in Texts, NEW key \in Texts
      PROVE  Reaches("topic", pattern, key) <=> CutsTo(pattern, key)
  <2>1. pattern \in Seq({"a", "b", OneWord, AnyWords}) /\ key \in Seq({"a", "b", OneWord, AnyWords})
    <3>1. ASSUME NEW text \in Texts PROVE text \in Seq({"a", "b", OneWord, AnyWords})
      <4>1. PICK n \in 1 .. 3 : text \in [1 .. n -> {"a", "b", OneWord, AnyWords}]
        BY DEF Texts
      <4> QED
        BY <4>1
    <3> QED
      BY <3>1
  <2>2. Reaches("topic", pattern, key) <=> WordsMatch(pattern, key)
    BY DEF Reaches
  <2> QED
    BY <2>1, <2>2, TopicsMatchByCuts
<1>2. MatchIsCut
  BY <1>1 DEF MatchIsCut, TopicIsCut
<1> QED
  BY <1>2, PTL
=============================================================================
