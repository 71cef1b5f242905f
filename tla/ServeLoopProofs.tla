--------------------------- MODULE ServeLoopProofs ---------------------------
(***************************************************************************)
(* The control layer and the loop of every emulator, for any rules, any    *)
(* number of connections and of operators: a rule fires on exactly the     *)
(* operations its numbers say, the log tells what the backend ran, and a   *)
(* depth cap is passed by fewer publishers than there are connections.     *)
(***************************************************************************)
EXTENDS ServeLoop, FiniteSetTheorems, SequenceTheorems, TLAPS

----------------------------------------------------------------------------
(* Types *)

ClientOp == [emulator : {"queue"}, kind : Kinds, gauges : [depth : Nat]]
AnyOp == ClientOp \cup Fireable
Verdict == [delay : BOOLEAN, outcome : {"none", "drop", "error"}]
ArmedRule == [id : Nat, rule : Rule, matched : Nat, fired : Nat]
Payload ==
  [kind : {"op"}, op : AnyOp, synthetic : BOOLEAN, ids : Seq(Nat), armed : Seq(ArmedRule),
   outcome : {"none", "drop", "error"}]
    \cup [kind : {"add", "remove", "reset"}, ids : Seq(Nat)]
Entry == [n : Nat, what : Payload]

DecidingCall ==
  [at : {"deciding"}, op : AnyOp, synthetic : BOOLEAN, i : Nat, verdict : Verdict, ids : Seq(Nat)]
DecidedCall == [at : {"decided"}, op : AnyOp, verdict : Verdict]
RecordingCall == [at : {"recording"}, entry : [kind : {"add", "remove", "reset"}, ids : Seq(Nat)]]
CallState == {Idle} \cup DecidingCall \cup DecidedCall \cup RecordingCall
SessionState == {Closed, Ready} \cup [at : {"decoded"}, op : ClientOp] \cup [at : {"asked"}]

LogTyped ==
  /\ entries \in Seq(Entry) /\ Len(entries) <= Limit /\ oldest \in 0 .. (Limit - 1)
  /\ next \in Nat \ {0} /\ dropped \in Nat

\* How often a rule that has met so many operations has fired.
Spent(rule, met) ==
  IF met <= Threshold(rule) THEN 0
  ELSE IF rule.times > 0 /\ met - Threshold(rule) > rule.times THEN rule.times
  ELSE met - Threshold(rule)

\* The armed rules: valid, in the order they were armed, their counters in step.
Ordered(list) == \A i, j \in 1 .. Len(list) : i < j => list[i].id < list[j].id
RuleList(list, n) ==
  /\ list \in Seq(ArmedRule) /\ Ordered(list)
  /\ \A i \in 1 .. Len(list) :
       /\ list[i].id \in 1 .. n /\ Validate(list[i].rule)
       /\ list[i].fired = Spent(list[i].rule, list[i].matched)

CallsTyped ==
  /\ mutex \in Callers \cup {Nobody} /\ call \in [Callers -> CallState]
  /\ \A c \in Callers : call[c].at = "deciding" <=> mutex = c
  /\ \A c \in Conns : call[c].at # "recording"
  /\ \A c \in Conns : call[c].at \in {"deciding", "decided"} => call[c].op \in ClientOp
  /\ \A c \in Callers : call[c].at = "deciding" => (call[c].synthetic <=> c \in Operators)

BackendTyped ==
  /\ depth \in Nat /\ fresh \in Nat /\ fresh <= depth
  /\ held \in [Conns -> Nat] /\ ran \in [Kinds -> Nat]
LoopTyped ==
  /\ session \in [Conns -> SessionState] /\ BackendTyped
  /\ \A c \in Conns : session[c].at # "asked" => call[c] = Idle

Typed ==
  /\ LogTyped /\ CallsTyped /\ LoopTyped
  /\ arms \in Len(Config) .. MaxArms /\ RuleList(rules, arms)

----------------------------------------------------------------------------
(* The decision under way *)

\* What the rules up to the n-th have made of an operation.
Due(armed) ==
  /\ armed.matched > Threshold(armed.rule)
  /\ armed.rule.times > 0 => armed.matched <= Threshold(armed.rule) + armed.rule.times
Decided(list, n, fired, half) ==
  \E p \in 1 .. n : list[p].id \in fired /\ Half(list[p].rule.action) = half
Walked(list, n, op, verdict, fired) ==
  /\ n \in 0 .. Len(list) /\ fired \subseteq {list[p].id : p \in 1 .. n}
  /\ verdict.delay <=> Decided(list, n, fired, "timing")
  /\ verdict.outcome # "none" <=> Decided(list, n, fired, "outcome")
  /\ \A p \in 1 .. n :
       /\ list[p].id \in fired <=> Concerned(list, p, op, fired) /\ Due(list[p])
       /\ Concerned(list, p, op, fired) => list[p].matched > 0

\* What a log says of the rules.
MetBy(entry, id) ==
  \E place \in 1 .. Len(entry.armed) :
    entry.armed[place].id = id /\ Concerned(entry.armed, place, entry.op, IdsOf(entry))
OpsIn(log) == {k \in 1 .. Len(log) : log[k].what.kind = "op"}
MetIn(log, k, id) == {j \in OpsIn(log) : j <= k /\ MetBy(log[j].what, id)}
FaultAt(log, k) ==
  \A place \in 1 .. Len(log[k].what.armed) :
    LET id == log[k].what.armed[place].id
        rule == log[k].what.armed[place].rule
        seen == Cardinality(MetIn(log, k, id))
    IN (id \in IdsOf(log[k].what)) <=>
         /\ k \in MetIn(log, k, id)
         /\ seen > Threshold(rule)
         /\ rule.times > 0 => seen <= Threshold(rule) + rule.times
AllArmed(log, n) ==
  \A k \in OpsIn(log) : \A p \in 1 .. Len(log[k].what.armed) : log[k].what.armed[p].id \in 1 .. n

\* What a list of rules has counted, given what the log shows of each.
Extra(list, p, n, op, fired) == IF p <= n /\ Concerned(list, p, op, fired) THEN 1 ELSE 0
Counted(list, log) ==
  \A p \in 1 .. Len(list) : list[p].matched = Cardinality(MetIn(log, Len(log), list[p].id))
CountedWith(list, log, it) ==
  \A p \in 1 .. Len(list) :
    list[p].matched = Cardinality(MetIn(log, Len(log), list[p].id))
                        + Extra(list, p, it.i - 1, it.op, IdsOf(it))

RulesInv ==
  /\ \A c \in Callers : call[c].at = "deciding" =>
       Walked(rules, call[c].i - 1, call[c].op, call[c].verdict, IdsOf(call[c]))
  /\ dropped = 0 =>
       /\ \A k \in OpsIn(entries) : FaultAt(entries, k)
       /\ AllArmed(entries, arms)
       /\ mutex = Nobody => Counted(rules, entries)
       /\ \A c \in Callers : call[c].at = "deciding" => CountedWith(rules, entries, call[c])

----------------------------------------------------------------------------
(* The backend, the caps and the bound on the log *)

\* Publishes that were decoded below a cap and have not been carried out.
Below(op, cap) == op.kind = "publish" /\ op.gauges.depth < cap
InFlight(cap) ==
  {c \in Conns : \/ session[c].at = "decoded" /\ Below(session[c].op, cap)
                 \/ call[c].at = "deciding" /\ Below(call[c].op, cap)
                 \/ /\ call[c].at = "decided" /\ Below(call[c].op, cap)
                    /\ call[c].verdict.outcome = "none"}
CapInv ==
  \A cap \in DepthCaps :
    /\ fresh + Cardinality(InFlight(cap)) <= cap - 1 + Cardinality(Conns)
    /\ \A c \in Conns :
         call[c].at = "decided" /\ call[c].op.kind = "publish" /\ call[c].op.gauges.depth >= cap =>
           call[c].verdict.outcome # "none"

Busy == {c \in Callers : call[c].at \in {"deciding", "recording"}}
Decoded == {c \in Conns : session[c].at = "decoded"}
RoomInv == next + Cardinality(Busy) + Cardinality(Decoded) <= MaxRecords + 1 + Cardinality(Conns)

LoopInv == Typed /\ RulesInv /\ CapInv /\ RoomInv /\ LogTellsWhatRan

----------------------------------------------------------------------------
(* One turn of decide, on a list of rules *)

LEMMA RuleIs ==
  ASSUME NEW rule \in Rule, Validate(rule)
  PROVE  /\ Threshold(rule) \in Nat /\ rule.times \in Nat /\ rule.action \in Actions
         /\ Half(rule.action) \in {"timing", "outcome"}
BY DEF Rule, Validate, Threshold, Half

\* Whether a rule is concerned depends on the rules and their names alone, and
\* on nobody behind it.
Alike(a, b, p) == \A q \in 1 .. p : a[q].id = b[q].id /\ a[q].rule = b[q].rule
FiredAlike(a, p, f, g) == \A q \in 1 .. (p - 1) : a[q].id \in f <=> a[q].id \in g
LEMMA ConcernAlike ==
  ASSUME NEW a, NEW b, NEW p \in Nat \ {0}, NEW op, NEW f, NEW g,
         Alike(a, b, p), FiredAlike(a, p, f, g)
  PROVE  Concerned(a, p, op, f) <=> Concerned(b, p, op, g)
<1>1. p \in 1 .. p /\ \A q \in 1 .. (p - 1) : q \in 1 .. p
  OBVIOUS
<1> QED
  BY <1>1 DEF Concerned, Alike, FiredAlike

\* The test of fire, and what the counters come to.
LEMMA FiresIsDue ==
  ASSUME NEW rule \in Rule, Validate(rule), NEW armed \in ArmedRule, armed.rule = rule,
         armed.fired = Spent(rule, armed.matched)
  PROVE  /\ Fires(armed) <=> /\ armed.matched + 1 > Threshold(rule)
                             /\ rule.times > 0 => armed.matched + 1 <= Threshold(rule) + rule.times
         /\ Fires(armed) => armed.fired + 1 = Spent(rule, armed.matched + 1)
         /\ ~Fires(armed) => armed.fired = Spent(rule, armed.matched + 1)
<1>1. Threshold(rule) \in Nat /\ rule.times \in Nat /\ armed.matched \in Nat /\ armed.fired \in Nat
  BY RuleIs DEF ArmedRule
<1> DEFINE t == Threshold(rule)
           m == armed.matched
<1>2. Fires(armed) <=> m + 1 > t /\ (rule.times > 0 => Spent(rule, m) < rule.times)
  BY DEF Fires
<1>3. /\ Spent(rule, m) = IF m <= t THEN 0 ELSE IF rule.times > 0 /\ m - t > rule.times THEN rule.times ELSE m - t
      /\ Spent(rule, m + 1) = IF m + 1 <= t THEN 0
                              ELSE IF rule.times > 0 /\ (m + 1) - t > rule.times THEN rule.times
                              ELSE (m + 1) - t
  BY DEF Spent
<1> HIDE DEF t, m
<1>4. t \in Nat /\ m \in Nat /\ rule.times \in Nat
  BY <1>1 DEF t, m
<1>5. /\ Fires(armed) <=> m + 1 > t /\ (rule.times > 0 => m + 1 <= t + rule.times)
      /\ Fires(armed) => Spent(rule, m) + 1 = Spent(rule, m + 1)
      /\ ~Fires(armed) => Spent(rule, m) = Spent(rule, m + 1)
  BY <1>2, <1>3, <1>4
<1> QED
  BY <1>5 DEF t, m

LEMMA ListIs ==
  ASSUME NEW m, NEW list, RuleList(list, m), NEW i \in 1 .. Len(list)
  PROVE  /\ list[i] \in ArmedRule /\ list[i].id \in Nat /\ list[i].matched \in Nat
         /\ list[i].rule \in Rule /\ Validate(list[i].rule) /\ Len(list) \in Nat
         /\ list[i].fired = Spent(list[i].rule, list[i].matched)
<1>1. list \in Seq(ArmedRule)
  BY DEF RuleList
<1>2. list[i] \in ArmedRule /\ Len(list) \in Nat
  BY <1>1
<1>3. list[i].id \in Nat /\ list[i].matched \in Nat /\ list[i].rule \in Rule
  BY <1>2 DEF ArmedRule
<1> QED
  BY <1>2, <1>3 DEF RuleList

\* A free half of the verdict is one that no rule so far has decided.
LEMMA FreeHalf ==
  ASSUME NEW m, NEW list, RuleList(list, m), NEW i \in 1 .. Len(list), NEW op, NEW verdict, NEW fired,
         Walked(list, i - 1, op, verdict, fired)
  PROVE  Concerned(list, i, op, fired) <=>
           ~SlotTaken(verdict, list[i].rule.action) /\ ActsOn(list[i].rule, op)
<1>1. list[i].rule \in Rule /\ Validate(list[i].rule)
  BY ListIs
<1>2. Half(list[i].rule.action) \in {"timing", "outcome"}
  BY <1>1, RuleIs
<1> DEFINE h == Half(list[i].rule.action)
<1>3. SlotTaken(verdict, list[i].rule.action) <=> Decided(list, i - 1, fired, h)
  BY <1>2 DEF SlotTaken, Walked
<1>4. Decided(list, i - 1, fired, h) <=>
        \E p \in 1 .. (i - 1) : list[p].id \in fired /\ Half(list[p].rule.action) = h
  BY DEF Decided
<1> QED
  BY <1>3, <1>4 DEF Concerned

\* A rule that has not been walked yet has not fired.
LEMMA NotYet ==
  ASSUME NEW m, NEW list, RuleList(list, m), NEW i \in 1 .. Len(list), NEW op, NEW verdict, NEW fired,
         Walked(list, i - 1, op, verdict, fired)
  PROVE  \A p \in i .. Len(list) : list[p].id \notin fired
<1> SUFFICES ASSUME NEW p \in i .. Len(list), list[p].id \in fired PROVE FALSE
  OBVIOUS
<1>1. PICK q \in 1 .. (i - 1) : list[q].id = list[p].id
  BY DEF Walked
<1>2. q \in 1 .. Len(list) /\ p \in 1 .. Len(list) /\ q < p
  BY ListIs
<1>3. list[q].id < list[p].id /\ list[p].id \in Nat
  BY <1>2, ListIs DEF RuleList, Ordered
<1> QED
  BY <1>1, <1>3

\* The rule is passed over.
LEMMA PassedOver ==
  ASSUME NEW m, NEW list, RuleList(list, m), NEW i \in 1 .. Len(list), NEW op, NEW verdict, NEW fired,
         Walked(list, i - 1, op, verdict, fired), ~Concerned(list, i, op, fired)
  PROVE  /\ Walked(list, i, op, verdict, fired)
         /\ \A p \in 1 .. Len(list) : Extra(list, p, i, op, fired) = Extra(list, p, i - 1, op, fired)
<1>1. list[i].id \notin fired /\ Len(list) \in Nat
  <2>1. i \in i .. Len(list) /\ Len(list) \in Nat
    BY ListIs
  <2> QED
    BY <2>1, NotYet
<1>2. \A p \in 1 .. i : p \in 1 .. (i - 1) \/ p = i
  OBVIOUS
<1>3. \A h : Decided(list, i, fired, h) <=> Decided(list, i - 1, fired, h)
  BY <1>1, <1>2 DEF Decided
<1>4. i \in 0 .. Len(list) /\ fired \subseteq {list[p].id : p \in 1 .. i}
  BY DEF Walked
<1>5. \A p \in 1 .. i : /\ list[p].id \in fired <=> Concerned(list, p, op, fired) /\ Due(list[p])
                        /\ Concerned(list, p, op, fired) => list[p].matched > 0
  BY <1>1, <1>2 DEF Walked
<1>6. Walked(list, i, op, verdict, fired)
  BY <1>3, <1>4, <1>5 DEF Walked
<1>7. ASSUME NEW p \in 1 .. Len(list)
      PROVE  Extra(list, p, i, op, fired) = Extra(list, p, i - 1, op, fired)
  <2>1. CASE p = i
    BY <2>1 DEF Extra
  <2>2. CASE p # i
    <3>1. p <= i <=> p <= i - 1
      BY <2>2
    <3> QED
      BY <3>1 DEF Extra
  <2> QED
    BY <2>1, <2>2
<1> QED
  BY <1>6, <1>7

LEMMA ApplyIs ==
  ASSUME NEW verdict \in Verdict, NEW rule, rule.action \in Actions, NEW after,
         after = Apply(verdict, rule)
  PROVE  /\ after \in Verdict
         /\ after.delay <=> verdict.delay \/ Half(rule.action) = "timing"
         /\ after.outcome # "none" <=> verdict.outcome # "none" \/ Half(rule.action) = "outcome"
<1>1. CASE rule.action = "delay"
  <2>1. after = [verdict EXCEPT !.delay = TRUE] /\ Half(rule.action) = "timing"
    BY <1>1 DEF Apply, Half
  <2> QED
    BY <2>1 DEF Verdict
<1>2. CASE rule.action = "drop_conn"
  <2>1. after = [verdict EXCEPT !.outcome = "drop"] /\ Half(rule.action) = "outcome"
    BY <1>2 DEF Apply, Half
  <2> QED
    BY <2>1 DEF Verdict
<1>3. CASE rule.action \in {"error", "cap"}
  <2>1. after = [verdict EXCEPT !.outcome = "error"] /\ Half(rule.action) = "outcome"
    BY <1>3 DEF Apply, Half
  <2> QED
    BY <2>1 DEF Verdict
<1> QED
  BY <1>1, <1>2, <1>3 DEF Actions

\* The rule is concerned: it counts, and fires if it is due.
CountedIn(list, i, new, list2) ==
  /\ new \in ArmedRule /\ new.id = list[i].id /\ new.rule = list[i].rule
  /\ new.matched = list[i].matched + 1 /\ new.fired = Spent(new.rule, new.matched)
  /\ list2 = [list EXCEPT ![i] = new]
FiredIn(new, fired, fired2, verdict, verdict2) ==
  /\ fired2 = IF Due(new) THEN fired \cup {new.id} ELSE fired
  /\ verdict2 = IF Due(new) THEN Apply(verdict, new.rule) ELSE verdict

\* The rules as a turn leaves them.
Turned(m, list, list2, i, op, fired, fired2, verdict2) ==
  /\ RuleList(list2, m) /\ Len(list2) = Len(list) /\ verdict2 \in Verdict
  /\ Walked(list2, i, op, verdict2, fired2)
  /\ \A p \in 1 .. Len(list) :
       /\ list2[p].id = list[p].id /\ list2[p].rule = list[p].rule
       /\ list2[p].matched + Extra(list, p, i - 1, op, fired)
            = list[p].matched + Extra(list2, p, i, op, fired2)
LEMMA CountedOn ==
  ASSUME NEW m, NEW list, RuleList(list, m), NEW i \in 1 .. Len(list), NEW op,
         NEW verdict \in Verdict, NEW fired,
         Walked(list, i - 1, op, verdict, fired), Concerned(list, i, op, fired),
         NEW new, NEW list2, CountedIn(list, i, new, list2),
         NEW fired2, NEW verdict2, FiredIn(new, fired, fired2, verdict, verdict2)
  PROVE  Turned(m, list, list2, i, op, fired, fired2, verdict2)
<1>a. /\ new \in ArmedRule /\ new.id = list[i].id /\ new.rule = list[i].rule
      /\ new.matched = list[i].matched + 1 /\ new.fired = Spent(new.rule, new.matched)
      /\ list2 = [list EXCEPT ![i] = new]
  BY DEF CountedIn
<1>b. /\ fired2 = IF Due(new) THEN fired \cup {new.id} ELSE fired
      /\ verdict2 = IF Due(new) THEN Apply(verdict, new.rule) ELSE verdict
  BY DEF FiredIn
<1> USE <1>a, <1>b
<1>1. /\ list \in Seq(ArmedRule) /\ Len(list) \in Nat /\ list[i].matched \in Nat
      /\ list[i].rule \in Rule /\ Validate(list[i].rule) /\ list[i].id \in 1 .. m
  BY ListIs DEF RuleList
<1>2. /\ list2 \in Seq(ArmedRule) /\ Len(list2) = Len(list) /\ list2[i] = new
      /\ \A p \in 1 .. Len(list) : p # i => list2[p] = list[p]
  BY <1>1
<1>3. \A p \in 1 .. Len(list) : list2[p].id = list[p].id /\ list2[p].rule = list[p].rule
  BY <1>2
<1>4. RuleList(list2, m)
  <2>1. Ordered(list2)
    BY <1>2, <1>3 DEF RuleList, Ordered
  <2>2. ASSUME NEW p \in 1 .. Len(list2)
        PROVE  /\ list2[p].id \in 1 .. m /\ Validate(list2[p].rule)
               /\ list2[p].fired = Spent(list2[p].rule, list2[p].matched)
    BY <1>1, <1>2, <1>3 DEF RuleList
  <2> QED
    BY <1>2, <2>1, <2>2 DEF RuleList
<1>5. \A p \in i .. Len(list) : list[p].id \notin fired
  BY NotYet
<1>6. \A q \in 1 .. (i - 1) : list[q].id # new.id
  <2>1. ASSUME NEW q \in 1 .. (i - 1) PROVE list[q].id # new.id
    <3>1. q \in 1 .. Len(list) /\ q < i
      BY <1>1
    <3>2. list[q].id < list[i].id /\ list[i].id \in Nat
      BY <3>1, ListIs DEF RuleList, Ordered
    <3> QED
      BY <3>2
  <2> QED
    BY <2>1
<1>7. \A q \in 1 .. (i - 1) : list[q].id \in fired <=> list[q].id \in fired2
  BY <1>6
<1>8. ASSUME NEW p \in 1 .. i
      PROVE  Concerned(list, p, op, fired) <=> Concerned(list2, p, op, fired2)
  <2>1. p \in Nat \ {0} /\ Alike(list, list2, p)
    BY <1>1, <1>3 DEF Alike
  <2>2. FiredAlike(list, p, fired, fired2)
    BY <1>7 DEF FiredAlike
  <2> QED
    BY <2>1, <2>2, ConcernAlike
<1>9. list2[i].id \in fired2 <=> Due(new)
  <2>1. list[i].id \notin fired
    BY <1>1, <1>5
  <2> QED
    BY <1>2, <2>1
<1>10. ASSUME NEW p \in 1 .. i
       PROVE  /\ list2[p].id \in fired2 <=> Concerned(list2, p, op, fired2) /\ Due(list2[p])
              /\ Concerned(list2, p, op, fired2) => list2[p].matched > 0
  <2>1. CASE p = i
    <3>1. Concerned(list2, p, op, fired2)
      BY <1>8, <2>1
    <3> QED
      BY <1>1, <1>2, <1>9, <2>1, <3>1
  <2>2. CASE p # i
    <3>1. p \in 1 .. (i - 1) /\ p \in 1 .. Len(list)
      BY <1>1, <2>2
    <3>2. /\ list[p].id \in fired <=> Concerned(list, p, op, fired) /\ Due(list[p])
          /\ Concerned(list, p, op, fired) => list[p].matched > 0
      BY <3>1 DEF Walked
    <3> QED
      BY <1>2, <1>7, <1>8, <2>2, <3>1, <3>2
  <2> QED
    BY <2>1, <2>2
<1>11. \A h : Decided(list2, i, fired2, h) <=>
         Decided(list, i - 1, fired, h) \/ (Due(new) /\ Half(new.rule.action) = h)
  <2>1. \A p \in 1 .. i : p \in 1 .. (i - 1) \/ p = i
    OBVIOUS
  <2>2. i \in 1 .. i /\ \A p \in 1 .. (i - 1) : p \in 1 .. i /\ p \in 1 .. Len(list)
    BY <1>1
  <2> QED
    BY <1>2, <1>3, <1>7, <1>9, <2>1, <2>2 DEF Decided
<1>12. /\ verdict2 \in Verdict
       /\ verdict2.delay <=> Decided(list2, i, fired2, "timing")
       /\ verdict2.outcome # "none" <=> Decided(list2, i, fired2, "outcome")
  <2>1. /\ verdict.delay <=> Decided(list, i - 1, fired, "timing")
        /\ verdict.outcome # "none" <=> Decided(list, i - 1, fired, "outcome")
    BY DEF Walked
  <2>2. CASE Due(new)
    <3>1. new.rule.action \in Actions
      BY <1>1, RuleIs
    <3>2. /\ verdict2 \in Verdict
          /\ verdict2.delay <=> verdict.delay \/ Half(new.rule.action) = "timing"
          /\ verdict2.outcome # "none" <=> verdict.outcome # "none" \/ Half(new.rule.action) = "outcome"
      BY <2>2, <3>1, ApplyIs
    <3> QED
      BY <1>11, <2>1, <2>2, <3>2
  <2>3. CASE ~Due(new)
    BY <1>11, <2>1, <2>3
  <2> QED
    BY <2>2, <2>3
<1>13. i \in 0 .. Len(list2) /\ fired2 \subseteq {list2[p].id : p \in 1 .. i}
  <2>1. \A p \in 1 .. (i - 1) : p \in 1 .. i /\ list2[p].id = list[p].id
    BY <1>1, <1>3
  <2>2. i \in 1 .. i /\ list2[i].id = new.id
    BY <1>2
  <2>3. fired \subseteq {list[p].id : p \in 1 .. (i - 1)}
    BY DEF Walked
  <2>4. \A x \in fired2 : \E p \in 1 .. i : x = list2[p].id
    BY <2>1, <2>2, <2>3
  <2> QED
    BY <1>1, <1>2, <2>4
<1>14. Walked(list2, i, op, verdict2, fired2)
  BY <1>10, <1>12, <1>13 DEF Walked
<1>15. ASSUME NEW p \in 1 .. Len(list)
       PROVE  list2[p].matched + Extra(list, p, i - 1, op, fired)
                = list[p].matched + Extra(list2, p, i, op, fired2)
  <2>1. list[p].matched \in Nat
    BY ListIs
  <2>2. CASE p = i
    <3>1. Extra(list, p, i - 1, op, fired) = 0
      BY <2>2 DEF Extra
    <3>2. Concerned(list2, p, op, fired2)
      <4>1. i \in 1 .. i
        OBVIOUS
      <4>2. Concerned(list2, i, op, fired2)
        BY <1>8, <4>1
      <4> QED
        BY <2>2, <4>2
    <3>3. Extra(list2, p, i, op, fired2) = 1
      BY <2>2, <3>2 DEF Extra
    <3> QED
      BY <1>1, <1>2, <2>2, <3>1, <3>3
  <2>3. CASE p # i /\ p <= i
    <3>1. p \in 1 .. i /\ p <= i - 1
      BY <2>3
    <3>2. Extra(list, p, i - 1, op, fired) = Extra(list2, p, i, op, fired2)
      BY <1>8, <2>3, <3>1 DEF Extra
    <3> QED
      BY <1>2, <2>3, <3>2
  <2>4. CASE p > i
    <3>1. Extra(list, p, i - 1, op, fired) = 0 /\ Extra(list2, p, i, op, fired2) = 0
      BY <2>4 DEF Extra
    <3> QED
      BY <1>2, <2>1, <2>4, <3>1
  <2> QED
    BY <2>2, <2>3, <2>4
<1> QED
  BY <1>2, <1>3, <1>4, <1>12, <1>14, <1>15 DEF Turned

----------------------------------------------------------------------------
(* What a log that grows by one entry says of a rule *)

LEMMA LogReads ==
  FaultsAsDeclared <=> (dropped = 0 => \A k \in OpsIn(entries) : FaultAt(entries, k))
<1>1. OpsLogged = OpsIn(entries)
  BY DEF OpsLogged, OpsIn
<1>2. \A k, id : Occurrences(k, id) = MetIn(entries, k, id)
  BY <1>1 DEF Occurrences, MetIn, MetBy
<1> QED
  BY <1>1, <1>2 DEF FaultsAsDeclared, FaultAt

LEMMA MetFinite ==
  ASSUME NEW log, Len(log) \in Nat, NEW k, NEW id
  PROVE  IsFiniteSet(MetIn(log, k, id)) /\ Cardinality(MetIn(log, k, id)) \in Nat
<1>1. MetIn(log, k, id) \subseteq 1 .. Len(log)
  BY DEF MetIn, OpsIn
<1>2. IsFiniteSet(1 .. Len(log))
  BY FS_Interval
<1> QED
  BY <1>1, <1>2, FS_Subset, FS_CardinalityType

Grown(log, new, log2) == log \in Seq(Entry) /\ new \in Entry /\ log2 = Append(log, new)
LEMMA GrownIs ==
  ASSUME NEW log, NEW new, NEW log2, Grown(log, new, log2)
  PROVE  /\ log2 \in Seq(Entry) /\ Len(log) \in Nat /\ Len(log2) = Len(log) + 1
         /\ log2[Len(log) + 1] = new
         /\ \A j \in 1 .. Len(log) : log2[j] = log[j]
         /\ OpsIn(log2) = OpsIn(log) \cup {j \in {Len(log) + 1} : new.what.kind = "op"}
<1>1. /\ log2 \in Seq(Entry) /\ Len(log) \in Nat /\ Len(log2) = Len(log) + 1
      /\ log2[Len(log) + 1] = new
      /\ \A j \in 1 .. Len(log) : log2[j] = log[j]
  BY DEF Grown
<1>2. \A j : j \in 1 .. Len(log2) <=> j \in 1 .. Len(log) \/ j = Len(log) + 1
  BY <1>1
<1>3. \A j : j \in OpsIn(log2) <=> j \in OpsIn(log) \/ (j = Len(log) + 1 /\ new.what.kind = "op")
  BY <1>1, <1>2 DEF OpsIn
<1> QED
  BY <1>1, <1>3

\* What was said of an earlier entry still holds.
LEMMA GrownBefore ==
  ASSUME NEW log, NEW new, NEW log2, Grown(log, new, log2),
         NEW k \in 1 .. Len(log), NEW id
  PROVE  MetIn(log2, k, id) = MetIn(log, k, id)
<1>1. /\ Len(log) \in Nat
      /\ \A j \in 1 .. Len(log) : log2[j] = log[j]
      /\ OpsIn(log2) = OpsIn(log) \cup {j \in {Len(log) + 1} : new.what.kind = "op"}
  BY GrownIs
<1>2. \A j \in OpsIn(log2) : j <= k => j \in OpsIn(log)
  BY <1>1
<1>3. \A j \in OpsIn(log) : j \in 1 .. Len(log) /\ log2[j] = log[j]
  BY <1>1 DEF OpsIn
<1>4. \A j : j \in MetIn(log2, k, id) <=> j \in MetIn(log, k, id)
  BY <1>1, <1>2, <1>3 DEF MetIn
<1> QED
  BY <1>4

LEMMA GrownFault ==
  ASSUME NEW log, NEW new, NEW log2, Grown(log, new, log2),
         NEW k \in OpsIn(log), FaultAt(log, k)
  PROVE  FaultAt(log2, k)
<1>1. k \in 1 .. Len(log) /\ log2[k] = log[k]
  BY GrownIs DEF OpsIn
<1>2. \A id : MetIn(log2, k, id) = MetIn(log, k, id)
  BY <1>1, GrownBefore
<1> QED
  BY <1>1, <1>2 DEF FaultAt

\* The last entry counts for the rules it is an occurrence of.
LEMMA GrownMet ==
  ASSUME NEW log, NEW new, NEW log2, Grown(log, new, log2), NEW id
  PROVE  LET last == Len(log) + 1
             counts == new.what.kind = "op" /\ MetBy(new.what, id) IN
         /\ Len(log2) = last
         /\ last \in MetIn(log2, last, id) <=> counts
         /\ Cardinality(MetIn(log2, last, id)) \in Nat
         /\ Cardinality(MetIn(log2, last, id)) =
              Cardinality(MetIn(log, Len(log), id)) + (IF counts THEN 1 ELSE 0)
<1> DEFINE last == Len(log) + 1
           counts == new.what.kind = "op" /\ MetBy(new.what, id)
           old == MetIn(log, Len(log), id)
<1>1. /\ Len(log) \in Nat /\ Len(log2) = last /\ log2[last] = new
      /\ \A j \in 1 .. Len(log) : log2[j] = log[j]
      /\ OpsIn(log2) = OpsIn(log) \cup {j \in {last} : new.what.kind = "op"}
  BY GrownIs
<1>2. \A j \in OpsIn(log) : j \in 1 .. Len(log) /\ log2[j] = log[j] /\ j <= Len(log) /\ j <= last /\ j # last
  BY <1>1 DEF OpsIn
<1>3. \A j : j \in MetIn(log2, last, id) <=> j \in old \/ (j = last /\ counts)
  BY <1>1, <1>2 DEF MetIn
<1>4. last \notin old /\ IsFiniteSet(old) /\ Cardinality(old) \in Nat
  <2>1. last \notin old
    BY <1>2 DEF MetIn
  <2> QED
    BY <1>1, <2>1, MetFinite
<1> HIDE DEF counts, old, last
<1>5. CASE counts
  <2>1. MetIn(log2, last, id) = old \cup {last}
    BY <1>3, <1>5
  <2>2. Cardinality(old \cup {last}) = Cardinality(old) + 1
    BY <1>4, FS_AddElement
  <2>3. Cardinality(MetIn(log2, last, id)) = Cardinality(old) + 1
    BY <2>1, <2>2
  <2> QED
    BY <1>1, <1>3, <1>4, <1>5, <2>3 DEF last, counts, old
<1>6. CASE ~counts
  <2>1. MetIn(log2, last, id) = old
    BY <1>3, <1>6
  <2> QED
    BY <1>1, <1>3, <1>4, <1>6, <2>1 DEF last, counts, old
<1> QED
  BY <1>5, <1>6

\* In a list without repetition, an occurrence of a rule is one at its place.
LEMMA MetAtPlace ==
  ASSUME NEW m, NEW entry, RuleList(entry.armed, m), NEW p \in 1 .. Len(entry.armed)
  PROVE  MetBy(entry, entry.armed[p].id) <=> Concerned(entry.armed, p, entry.op, IdsOf(entry))
<1>1. ASSUME NEW q \in 1 .. Len(entry.armed), entry.armed[q].id = entry.armed[p].id PROVE q = p
  <2>1. Len(entry.armed) \in Nat /\ entry.armed[q].id \in Nat /\ entry.armed[p].id \in Nat
    BY ListIs
  <2>2. q < p \/ p < q \/ p = q
    BY <2>1
  <2>3. ~(q < p) /\ ~(p < q)
    BY <1>1, <2>1 DEF RuleList, Ordered
  <2> QED
    BY <2>2, <2>3
<1> QED
  BY <1>1 DEF MetBy

LEMMA Replaced ==
  ASSUME NEW S, NEW s \in Seq(S), NEW i \in 1 .. Len(s), NEW e \in S
  PROVE  [s EXCEPT ![i] = e] \in Seq(S) /\ Len([s EXCEPT ![i] = e]) = Len(s)
BY ExceptSeq

\* Record, as long as nothing has been dropped, appends.
LEMMA RecordIs ==
  ASSUME LogTyped, NEW what \in Payload, Log!Record(what)
  PROVE  /\ LogTyped' /\ next' = next + 1
         /\ dropped' = 0 => dropped = 0 /\ Grown(entries, [n |-> next, what |-> what], entries')
<1> DEFINE new == [n |-> next, what |-> what]
<1>1. new \in Entry /\ Limit \in Nat \ {0} /\ Len(entries) \in Nat
  BY InterceptorAssumption DEF Entry, LogTyped
<1>2. CASE Len(entries) < Limit
  <2>1. entries' = Append(entries, new) /\ oldest' = oldest /\ dropped' = dropped /\ next' = next + 1
    BY <1>2 DEF Log!Record
  <2>2. entries' \in Seq(Entry) /\ Len(entries') <= Limit /\ next' \in Nat \ {0}
    BY <1>1, <1>2, <2>1 DEF LogTyped
  <2> QED
    BY <1>1, <2>1, <2>2 DEF LogTyped, Grown
<1>3. CASE ~(Len(entries) < Limit)
  <2>1. /\ entries' = [entries EXCEPT ![oldest + 1] = new] /\ next' = next + 1
        /\ oldest' = (oldest + 1) % Len(entries) /\ dropped' = dropped + 1
    BY <1>3 DEF Log!Record
  <2>2. Len(entries) = Limit /\ oldest + 1 \in 1 .. Len(entries) /\ entries \in Seq(Entry)
    BY <1>1, <1>3 DEF LogTyped
  <2>3. entries' \in Seq(Entry) /\ Len(entries') = Len(entries)
    <3> HIDE DEF new
    <3> QED
      BY <1>1, <2>1, <2>2, Replaced
  <2>4. oldest' \in 0 .. (Limit - 1) /\ next' \in Nat \ {0} /\ dropped' \in Nat /\ dropped' # 0
    BY <1>1, <2>1, <2>2 DEF LogTyped
  <2> QED
    BY <1>1, <2>1, <2>2, <2>3, <2>4 DEF LogTyped
<1> QED
  BY <1>2, <1>3

----------------------------------------------------------------------------
(* Where the callers are *)

LEMMA Parties ==
  /\ IsFiniteSet(Conns) /\ IsFiniteSet(Operators) /\ IsFiniteSet(Callers)
  /\ Cardinality(Conns) \in Nat /\ Nobody \notin Callers
  /\ \A c \in Conns : c \in Callers /\ c \notin Operators
  /\ \A c \in Operators : c \in Callers /\ c \notin Conns
<1>1. IsFiniteSet(Conns) /\ IsFiniteSet(Operators) /\ Conns \cap Operators = {} /\ Nobody \notin Callers
  BY InterceptorAssumption
<1>2. IsFiniteSet(Callers) /\ Cardinality(Conns) \in Nat
  BY <1>1, FS_Union, FS_CardinalityType DEF Callers
<1> QED
  BY <1>1, <1>2 DEF Callers

\* A caller moves on: what it must be to keep the book of calls in order.
MayBe(c, now) ==
  /\ now \in CallState
  /\ c \in Conns => now.at # "recording"
  /\ c \in Conns /\ now.at \in {"deciding", "decided"} => now.op \in ClientOp
  /\ now.at = "deciding" => (now.synthetic <=> c \in Operators)
Holding(c, now) ==
  /\ mutex' \in Callers \cup {Nobody}
  /\ now.at = "deciding" <=> mutex' = c
  /\ \A d \in Callers \ {c} : mutex' = d <=> mutex = d

LEMMA CallMoves ==
  ASSUME CallsTyped, NEW c \in Callers, NEW now, MayBe(c, now), Holding(c, now),
         call' = [call EXCEPT ![c] = now]
  PROVE  CallsTyped' /\ call'[c] = now /\ \A d \in Callers : d # c => call'[d] = call[d]
<1>1. call'[c] = now /\ \A d \in Callers : d # c => call'[d] = call[d]
  BY DEF CallsTyped
<1>2. call' \in [Callers -> CallState]
  BY DEF CallsTyped, MayBe
<1>3. mutex' \in Callers \cup {Nobody} /\ \A d \in Callers : call'[d].at = "deciding" <=> mutex' = d
  BY <1>1 DEF CallsTyped, Holding
<1>4. ASSUME NEW d \in Callers
      PROVE  /\ d \in Conns => call'[d].at # "recording"
             /\ d \in Conns /\ call'[d].at \in {"deciding", "decided"} => call'[d].op \in ClientOp
             /\ call'[d].at = "deciding" => (call'[d].synthetic <=> d \in Operators)
  <2>1. CASE d = c
    BY <1>1, <2>1 DEF MayBe
  <2>2. CASE d # c
    BY <1>1, <2>2 DEF CallsTyped
  <2> QED
    BY <2>1, <2>2
<1>5. \A d \in Conns : d \in Callers
  BY Parties
<1> QED
  BY <1>1, <1>2, <1>3, <1>4, <1>5 DEF CallsTyped

LEMMA CallKinds ==
  ASSUME NEW x \in CallState
  PROVE  /\ x.at = "idle" => x = Idle
         /\ x.at = "deciding" => x \in DecidingCall
         /\ x.at = "decided" => x \in DecidedCall
         /\ x.at = "recording" => x \in RecordingCall
         /\ x.at \in {"idle", "deciding", "decided", "recording"}
<1>1. Idle.at = "idle"
  BY DEF Idle
<1>2. \A y \in DecidingCall : y.at = "deciding"
  BY DEF DecidingCall
<1>3. \A y \in DecidedCall : y.at = "decided"
  BY DEF DecidedCall
<1>4. \A y \in RecordingCall : y.at = "recording"
  BY DEF RecordingCall
<1> QED
  BY <1>1, <1>2, <1>3, <1>4 DEF CallState

\* The forms a call can take next.
LEMMA StartsDeciding ==
  ASSUME NEW c \in Callers, NEW op \in AnyOp, NEW synthetic \in BOOLEAN,
         c \in Conns => op \in ClientOp, synthetic <=> c \in Operators,
         NEW now, now = [at |-> "deciding", op |-> op, synthetic |-> synthetic, i |-> 1,
                         verdict |-> Untouched, ids |-> <<>>]
  PROVE  MayBe(c, now) /\ now.at = "deciding" /\ now.i = 1 /\ now.op = op
           /\ now.verdict = Untouched /\ now.ids = <<>>
<1>1. Untouched \in Verdict
  BY DEF Untouched, Verdict
<1>2. now \in DecidingCall
  BY <1>1 DEF DecidingCall
<1> QED
  BY <1>2 DEF MayBe, CallState

LEMMA IdleMayBe ==
  ASSUME NEW c
  PROVE  MayBe(c, Idle) /\ Idle.at = "idle"
BY DEF MayBe, CallState, Idle

LEMMA DecidedMayBe ==
  ASSUME NEW c, NEW it \in DecidingCall, MayBe(c, it),
         NEW now, now = [at |-> "decided", op |-> it.op, verdict |-> it.verdict]
  PROVE  MayBe(c, now) /\ now.at = "decided" /\ now.op = it.op /\ now.verdict = it.verdict
<1>1. now \in DecidedCall /\ now.at = "decided" /\ it.at = "deciding"
  BY DEF DecidedCall, DecidingCall
<1> QED
  BY <1>1 DEF MayBe, CallState

LEMMA RecordingMayBe ==
  ASSUME NEW c \in Operators, NEW verb \in {"add", "remove", "reset"}, NEW ids \in Seq(Nat),
         NEW now, now = Recording(MutationEntry(verb, ids))
  PROVE  MayBe(c, now) /\ now.at = "recording"
<1>1. now \in RecordingCall /\ now.at = "recording"
  BY DEF RecordingCall, Recording, MutationEntry
<1>2. c \notin Conns
  BY Parties
<1> QED
  BY <1>1, <1>2 DEF MayBe, CallState

LEMMA CallIs ==
  ASSUME CallsTyped, NEW c \in Callers
  PROVE  MayBe(c, call[c])
BY DEF CallsTyped, MayBe

----------------------------------------------------------------------------
(* What the control plane does to the list of rules *)

Joined(list, rule, n, list2) == list2 = Append(list, Armed(rule, n + 1))
LEMMA ListGrows ==
  ASSUME NEW n \in Nat, NEW list, RuleList(list, n), NEW rule \in Rule, Validate(rule),
         NEW list2, Joined(list, rule, n, list2)
  PROVE  /\ RuleList(list2, n + 1) /\ Len(list) \in Nat /\ Len(list2) = Len(list) + 1
         /\ list2[Len(list) + 1] = Armed(rule, n + 1)
         /\ \A p \in 1 .. Len(list) : list2[p] = list[p]
<1> DEFINE new == Armed(rule, n + 1)
<1>1. /\ new \in ArmedRule /\ new.id = n + 1 /\ new.rule = rule /\ new.matched = 0 /\ new.fired = 0
  BY DEF ArmedRule, Armed
<1>2. new.fired = Spent(new.rule, new.matched)
  <2>1. Threshold(rule) \in Nat
    BY RuleIs
  <2> QED
    BY <1>1, <2>1 DEF Spent
<1>3. list \in Seq(ArmedRule) /\ list2 = Append(list, new)
  BY DEF RuleList, Joined
<1> HIDE DEF new
<1>4. /\ list2 \in Seq(ArmedRule) /\ Len(list) \in Nat /\ Len(list2) = Len(list) + 1
      /\ list2[Len(list) + 1] = new
      /\ \A p \in 1 .. Len(list) : list2[p] = list[p]
  BY <1>1, <1>3
<1>5. \A p \in 1 .. Len(list2) : p \in 1 .. Len(list) \/ p = Len(list) + 1
  BY <1>4
<1>6. ASSUME NEW p \in 1 .. Len(list2)
      PROVE  /\ list2[p].id \in 1 .. (n + 1) /\ Validate(list2[p].rule)
             /\ list2[p].fired = Spent(list2[p].rule, list2[p].matched)
  <2>1. CASE p \in 1 .. Len(list)
    <3>1. /\ list[p].id \in 1 .. n /\ Validate(list[p].rule)
          /\ list[p].fired = Spent(list[p].rule, list[p].matched)
      BY <2>1 DEF RuleList
    <3> QED
      BY <1>4, <2>1, <3>1
  <2>2. CASE p = Len(list) + 1
    BY <1>1, <1>2, <1>4, <2>2
  <2> QED
    BY <1>5, <2>1, <2>2
<1>7. Ordered(list2)
  <2> SUFFICES ASSUME NEW i \in 1 .. Len(list2), NEW j \in 1 .. Len(list2), i < j
               PROVE  list2[i].id < list2[j].id
    BY DEF Ordered
  <2>1. i \in 1 .. Len(list)
    BY <1>4
  <2>2. list[i].id \in 1 .. n /\ list2[i] = list[i]
    BY <1>4, <2>1 DEF RuleList
  <2>3. CASE j \in 1 .. Len(list)
    BY <1>4, <2>1, <2>3 DEF RuleList, Ordered
  <2>4. CASE j = Len(list) + 1
    BY <1>1, <1>4, <2>2, <2>4
  <2> QED
    BY <1>5, <2>3, <2>4
<1> QED
  BY <1>4, <1>6, <1>7 DEF RuleList, new

\* What is left of a list when one rule is taken out.
Source(index, p) == IF p < index THEN p ELSE p + 1
Spliced(list, index, list2) ==
  list2 = SubSeq(list, 1, index - 1) \o SubSeq(list, index + 1, Len(list))
LEMMA ListShrinks ==
  ASSUME NEW n, NEW list, RuleList(list, n), NEW index \in 1 .. Len(list),
         NEW list2, Spliced(list, index, list2)
  PROVE  /\ RuleList(list2, n)
         /\ \A p \in 1 .. Len(list2) : \E q \in 1 .. Len(list) : list2[p] = list[q]
<1>1. list \in Seq(ArmedRule) /\ Len(list) \in Nat
  BY ListIs DEF RuleList
<1> DEFINE a == SubSeq(list, 1, index - 1)
           b == SubSeq(list, index + 1, Len(list))
<1>2. /\ a \in Seq(ArmedRule) /\ Len(a) = index - 1
      /\ \A p \in 1 .. (index - 1) : a[p] = list[p]
  BY <1>1
<1>3. /\ b \in Seq(ArmedRule) /\ Len(b) = Len(list) - index
      /\ \A p \in 1 .. (Len(list) - index) : b[p] = list[index + p]
  BY <1>1
<1> HIDE DEF a, b
<1>4. list2 = a \o b
  BY DEF a, b, Spliced
<1>5. /\ list2 \in Seq(ArmedRule) /\ Len(list2) = Len(list) - 1
      /\ \A p \in 1 .. Len(list2) : list2[p] = IF p <= Len(a) THEN a[p] ELSE b[p - Len(a)]
  <2>1. a \in Seq(ArmedRule) /\ b \in Seq(ArmedRule)
    BY <1>2, <1>3
  <2>2. /\ list2 \in Seq(ArmedRule) /\ Len(list2) = Len(a) + Len(b)
        /\ \A p \in 1 .. Len(list2) : list2[p] = IF p <= Len(a) THEN a[p] ELSE b[p - Len(a)]
    BY <1>4, <2>1, ConcatProperties
  <2>3. Len(a) + Len(b) = Len(list) - 1
    BY <1>1, <1>2, <1>3
  <2> QED
    BY <2>2, <2>3
<1>6. ASSUME NEW p \in 1 .. Len(list2)
      PROVE  Source(index, p) \in 1 .. Len(list) /\ list2[p] = list[Source(index, p)]
  <2>1. CASE p < index
    <3>1. p \in 1 .. (index - 1) /\ p <= Len(a) /\ p \in 1 .. Len(list)
      BY <1>1, <1>2, <1>5, <2>1
    <3> QED
      BY <1>2, <1>5, <2>1, <3>1 DEF Source
  <2>2. CASE ~(p < index)
    <3>1. /\ (p - Len(a)) \in 1 .. (Len(list) - index) /\ ~(p <= Len(a)) /\ p + 1 \in 1 .. Len(list)
          /\ index + (p - Len(a)) = p + 1
      <4>1. p \in 1 .. (Len(list) - 1) /\ p >= index /\ Len(a) = index - 1
        BY <1>1, <1>2, <1>5, <2>2
      <4> QED
        BY <1>1, <4>1
    <3>2. b[p - Len(a)] = list[index + (p - Len(a))]
      BY <1>3, <3>1
    <3> QED
      BY <1>5, <2>2, <3>1, <3>2 DEF Source
  <2> QED
    BY <2>1, <2>2
<1>7. Ordered(list2)
  <2> SUFFICES ASSUME NEW i \in 1 .. Len(list2), NEW j \in 1 .. Len(list2), i < j
               PROVE  list2[i].id < list2[j].id
    BY DEF Ordered
  <2>1. Source(index, i) < Source(index, j)
    BY <1>5 DEF Source
  <2>2. /\ Source(index, i) \in 1 .. Len(list) /\ list2[i] = list[Source(index, i)]
        /\ Source(index, j) \in 1 .. Len(list) /\ list2[j] = list[Source(index, j)]
    BY <1>6
  <2> QED
    BY <2>1, <2>2 DEF RuleList, Ordered
<1>8. ASSUME NEW p \in 1 .. Len(list2)
      PROVE  /\ list2[p].id \in 1 .. n /\ Validate(list2[p].rule)
             /\ list2[p].fired = Spent(list2[p].rule, list2[p].matched)
  BY <1>6 DEF RuleList
<1> QED
  BY <1>5, <1>6, <1>7, <1>8 DEF RuleList

LEMMA NoRules ==
  ASSUME NEW n
  PROVE  RuleList(<<>>, n) /\ Len(<<>>) = 0
BY DEF RuleList, Ordered

LEMMA IdsTyped ==
  ASSUME NEW n, NEW list, RuleList(list, n)
  PROVE  Ids(list) \in Seq(Nat)
<1>1. list \in Seq(ArmedRule) /\ Len(list) \in Nat
  BY DEF RuleList
<1>2. \A i \in 1 .. Len(list) : list[i].id \in Nat
  BY ListIs
<1> QED
  BY <1>1, <1>2 DEF Ids

----------------------------------------------------------------------------
(* One turn of decide, as an action *)

IdAdded(a, b, id) == a.ids \in Seq(Nat) /\ id \in Nat /\ b.ids = Append(a.ids, id)
LEMMA IdsGrow ==
  ASSUME NEW a, NEW b, NEW id, IdAdded(a, b, id)
  PROVE  IdsOf(b) = IdsOf(a) \cup {id} /\ b.ids \in Seq(Nat)
<1>1. /\ b.ids \in Seq(Nat) /\ Len(a.ids) \in Nat /\ Len(b.ids) = Len(a.ids) + 1
      /\ b.ids[Len(a.ids) + 1] = id
      /\ \A k \in 1 .. Len(a.ids) : b.ids[k] = a.ids[k]
  BY DEF IdAdded
<1>2. \A k : k \in 1 .. Len(b.ids) <=> k \in 1 .. Len(a.ids) \/ k = Len(a.ids) + 1
  BY <1>1
<1>3. \A x : x \in IdsOf(b) <=> x \in IdsOf(a) \/ x = id
  BY <1>1, <1>2 DEF IdsOf
<1> QED
  BY <1>1, <1>3

\* The three ways a turn can go.
Turn(c, it, now) ==
  /\ call' = [call EXCEPT ![c] = now]
  /\ now = [at |-> "deciding", op |-> it.op, synthetic |-> it.synthetic, i |-> it.i + 1,
            verdict |-> now.verdict, ids |-> now.ids]
Passes(it, now) == now.verdict = it.verdict /\ now.ids = it.ids /\ rules' = rules
Counts(it, now, armed, fired) ==
  rules' = [rules EXCEPT ![it.i] =
              [id |-> armed.id, rule |-> armed.rule, matched |-> armed.matched + 1, fired |-> fired]]

LEMMA CountedUp ==
  ASSUME NEW armed \in ArmedRule
  PROVE  /\ [armed EXCEPT !.matched = @ + 1] =
              [id |-> armed.id, rule |-> armed.rule, matched |-> armed.matched + 1, fired |-> armed.fired]
         /\ [[armed EXCEPT !.matched = @ + 1] EXCEPT !.fired = @ + 1] =
              [id |-> armed.id, rule |-> armed.rule, matched |-> armed.matched + 1,
               fired |-> armed.fired + 1]
<1> DEFINE one == [id |-> armed.id, rule |-> armed.rule, matched |-> armed.matched + 1,
                   fired |-> armed.fired]
<1>1. [armed EXCEPT !.matched = @ + 1] = one
  BY DEF ArmedRule
<1>2. [one EXCEPT !.fired = @ + 1] =
        [id |-> armed.id, rule |-> armed.rule, matched |-> armed.matched + 1,
         fired |-> armed.fired + 1]
  OBVIOUS
<1> HIDE DEF one
<1> QED
  BY <1>1, <1>2 DEF one

LEMMA MovedOn ==
  ASSUME NEW it \in DecidingCall
  PROVE  /\ [it EXCEPT !.i = @ + 1] =
              [at |-> "deciding", op |-> it.op, synthetic |-> it.synthetic, i |-> it.i + 1,
               verdict |-> it.verdict, ids |-> it.ids]
         /\ \A v, s : [it EXCEPT !.i = @ + 1, !.verdict = v, !.ids = s] =
              [at |-> "deciding", op |-> it.op, synthetic |-> it.synthetic, i |-> it.i + 1,
               verdict |-> v, ids |-> s]
<1>1. [it EXCEPT !.i = @ + 1] =
        [at |-> "deciding", op |-> it.op, synthetic |-> it.synthetic, i |-> it.i + 1,
         verdict |-> it.verdict, ids |-> it.ids]
  BY DEF DecidingCall
<1>2. ASSUME NEW v, NEW s
      PROVE  [it EXCEPT !.i = @ + 1, !.verdict = v, !.ids = s] =
              [at |-> "deciding", op |-> it.op, synthetic |-> it.synthetic, i |-> it.i + 1,
               verdict |-> v, ids |-> s]
  <2> DEFINE one == [at |-> "deciding", op |-> it.op, synthetic |-> it.synthetic, i |-> it.i + 1,
                     verdict |-> it.verdict, ids |-> it.ids]
             two == [at |-> "deciding", op |-> it.op, synthetic |-> it.synthetic, i |-> it.i + 1,
                     verdict |-> v, ids |-> it.ids]
  <2>1. [it EXCEPT !.i = @ + 1, !.verdict = v, !.ids = s] =
          [[[it EXCEPT !.i = @ + 1] EXCEPT !.verdict = v] EXCEPT !.ids = s]
    OBVIOUS
  <2>2. [one EXCEPT !.verdict = v] = two
    OBVIOUS
  <2>3. [two EXCEPT !.ids = s] =
          [at |-> "deciding", op |-> it.op, synthetic |-> it.synthetic, i |-> it.i + 1,
           verdict |-> v, ids |-> s]
    OBVIOUS
  <2> HIDE DEF one, two
  <2>4. [it EXCEPT !.i = @ + 1] = one
    BY <1>1 DEF one
  <2> QED
    BY <2>1, <2>2, <2>3, <2>4
<1> QED
  BY <1>1, <1>2

LEMMA TurnIs ==
  ASSUME Typed, RulesInv, NEW c \in Callers, DecideStep(c)
  PROVE  \E now :
           LET it == call[c]
               armed == rules[it.i]
               concerned == ~SlotTaken(it.verdict, armed.rule.action) /\ ActsOn(armed.rule, it.op)
           IN
           /\ it.at = "deciding" /\ it \in DecidingCall /\ it.i \in 1 .. Len(rules) /\ Turn(c, it, now)
           /\ \/ ~concerned /\ Passes(it, now)
              \/ /\ concerned /\ ~Fires(armed)
                 /\ Counts(it, now, armed, armed.fired)
                 /\ now.verdict = it.verdict /\ now.ids = it.ids
              \/ /\ concerned /\ Fires(armed)
                 /\ Counts(it, now, armed, armed.fired + 1)
                 /\ now.verdict = Apply(it.verdict, armed.rule) /\ now.ids = Append(it.ids, armed.id)
<1> DEFINE it == call[c]
           armed == rules[it.i]
           concerned == ~SlotTaken(it.verdict, armed.rule.action) /\ ActsOn(armed.rule, it.op)
<1>1. it.at = "deciding" /\ it.i <= Len(rules)
  BY DEF DecideStep
<1>2. it \in DecidingCall /\ call \in [Callers -> CallState]
  <2>1. it \in CallState /\ call \in [Callers -> CallState]
    BY DEF Typed, CallsTyped
  <2> QED
    BY <1>1, <2>1, CallKinds
<1>3. /\ it = [at |-> "deciding", op |-> it.op, synthetic |-> it.synthetic, i |-> it.i,
               verdict |-> it.verdict, ids |-> it.ids]
      /\ it.i \in Nat
  BY <1>2 DEF DecidingCall
<1>4. it.i \in 1 .. Len(rules)
  <2>1. it.i - 1 \in 0 .. Len(rules)
    BY <1>1 DEF RulesInv, Walked
  <2>2. Len(rules) \in Nat
    BY DEF Typed, RuleList
  <2> QED
    BY <1>1, <1>3, <2>1, <2>2
<1>5. armed \in ArmedRule
  BY <1>4, ListIs DEF Typed
<1>6. /\ [armed EXCEPT !.matched = @ + 1] =
           [id |-> armed.id, rule |-> armed.rule, matched |-> armed.matched + 1, fired |-> armed.fired]
      /\ [[armed EXCEPT !.matched = @ + 1] EXCEPT !.fired = @ + 1] =
           [id |-> armed.id, rule |-> armed.rule, matched |-> armed.matched + 1,
            fired |-> armed.fired + 1]
  BY <1>5, CountedUp
<1> DEFINE Next3(verdict, ids) ==
             [at |-> "deciding", op |-> it.op, synthetic |-> it.synthetic, i |-> it.i + 1,
              verdict |-> verdict, ids |-> ids]
<1>7. /\ [it EXCEPT !.i = @ + 1] = Next3(it.verdict, it.ids)
      /\ \A v, s : [it EXCEPT !.i = @ + 1, !.verdict = v, !.ids = s] = Next3(v, s)
  BY <1>2, MovedOn
<1>8. \/ /\ ~concerned /\ call' = [call EXCEPT ![c].i = @ + 1] /\ rules' = rules
      \/ /\ concerned /\ ~Fires(armed)
         /\ rules' = [rules EXCEPT ![it.i] = [armed EXCEPT !.matched = @ + 1]]
         /\ call' = [call EXCEPT ![c].i = @ + 1]
      \/ /\ concerned /\ Fires(armed)
         /\ rules' = [rules EXCEPT ![it.i] = [[armed EXCEPT !.matched = @ + 1] EXCEPT !.fired = @ + 1]]
         /\ call' = [call EXCEPT ![c].i = @ + 1,
                                 ![c].verdict = Apply(@, armed.rule),
                                 ![c].ids = Append(@, armed.id)]
  BY DEF DecideStep
<1>9. CASE ~concerned /\ call' = [call EXCEPT ![c].i = @ + 1] /\ rules' = rules
  <2> DEFINE now == Next3(it.verdict, it.ids)
  <2>2. call' = [call EXCEPT ![c] = now]
    BY <1>2, <1>7, <1>9
  <2>3. Turn(c, it, now) /\ Passes(it, now)
    BY <1>9, <2>2 DEF Turn, Passes
  <2> QED
    BY <1>1, <1>2, <1>4, <1>9, <2>3
<1>10. CASE /\ concerned /\ ~Fires(armed)
            /\ rules' = [rules EXCEPT ![it.i] = [armed EXCEPT !.matched = @ + 1]]
            /\ call' = [call EXCEPT ![c].i = @ + 1]
  <2> DEFINE now == Next3(it.verdict, it.ids)
  <2>2. call' = [call EXCEPT ![c] = now]
    BY <1>2, <1>7, <1>10
  <2>3. Turn(c, it, now) /\ Counts(it, now, armed, armed.fired)
    BY <1>6, <1>10, <2>2 DEF Turn, Counts
  <2>4. now.verdict = it.verdict /\ now.ids = it.ids
    OBVIOUS
  <2> HIDE DEF now
  <2> QED
    BY <1>1, <1>2, <1>4, <1>10, <2>3, <2>4
<1>11. CASE /\ concerned /\ Fires(armed)
            /\ rules' = [rules EXCEPT ![it.i] =
                           [[armed EXCEPT !.matched = @ + 1] EXCEPT !.fired = @ + 1]]
            /\ call' = [call EXCEPT ![c].i = @ + 1,
                                    ![c].verdict = Apply(@, armed.rule),
                                    ![c].ids = Append(@, armed.id)]
  <2> DEFINE v == Apply(it.verdict, armed.rule)
             s == Append(it.ids, armed.id)
             now == Next3(v, s)
  <2>1. call' = [call EXCEPT ![c] = [it EXCEPT !.i = @ + 1, !.verdict = v, !.ids = s]]
    BY <1>2, <1>3, <1>11
  <2> HIDE DEF v, s
  <2>2. call' = [call EXCEPT ![c] = now]
    BY <1>7, <2>1
  <2>3. Turn(c, it, now) /\ Counts(it, now, armed, armed.fired + 1)
    BY <1>6, <1>11, <2>2 DEF Turn, Counts
  <2>4. now.verdict = v /\ now.ids = s
    OBVIOUS
  <2> HIDE DEF now
  <2> QED
    BY <1>1, <1>2, <1>4, <1>11, <2>3, <2>4 DEF v, s
<1> QED
  BY <1>8, <1>9, <1>10, <1>11

LEMMA TurnEffect ==
  ASSUME Typed, RulesInv, NEW c \in Callers, DecideStep(c)
  PROVE  \E now :
           /\ call[c].at = "deciding" /\ call[c] \in DecidingCall
           /\ MayBe(c, now) /\ call' = [call EXCEPT ![c] = now]
           /\ now.at = "deciding" /\ now.op = call[c].op /\ now.i = call[c].i + 1
           /\ Turned(arms, rules, rules', call[c].i, call[c].op, IdsOf(call[c]), IdsOf(now), now.verdict)
<1> DEFINE it == call[c]
           armed == rules[it.i]
           concerned == ~SlotTaken(it.verdict, armed.rule.action) /\ ActsOn(armed.rule, it.op)
<1>1. PICK now :
        /\ it.at = "deciding" /\ it \in DecidingCall /\ it.i \in 1 .. Len(rules) /\ Turn(c, it, now)
        /\ \/ ~concerned /\ Passes(it, now)
           \/ /\ concerned /\ ~Fires(armed)
              /\ Counts(it, now, armed, armed.fired)
              /\ now.verdict = it.verdict /\ now.ids = it.ids
           \/ /\ concerned /\ Fires(armed)
              /\ Counts(it, now, armed, armed.fired + 1)
              /\ now.verdict = Apply(it.verdict, armed.rule) /\ now.ids = Append(it.ids, armed.id)
  BY TurnIs
<1>2. /\ it.at = "deciding" /\ it \in DecidingCall /\ it.i \in 1 .. Len(rules)
      /\ it.verdict \in Verdict /\ it.ids \in Seq(Nat) /\ it.i \in Nat /\ it.op \in AnyOp
      /\ it.synthetic \in BOOLEAN
  BY <1>1 DEF DecidingCall
<1>3. RuleList(rules, arms) /\ Walked(rules, it.i - 1, it.op, it.verdict, IdsOf(it))
  BY <1>2 DEF Typed, RulesInv
<1>4. concerned <=> Concerned(rules, it.i, it.op, IdsOf(it))
  BY <1>2, <1>3, FreeHalf
<1>5. /\ armed \in ArmedRule /\ armed.id \in Nat /\ armed.matched \in Nat /\ armed.fired \in Nat
      /\ armed.rule \in Rule /\ Validate(armed.rule) /\ armed.fired = Spent(armed.rule, armed.matched)
  BY <1>2, <1>3, ListIs DEF ArmedRule
<1>6. /\ call' = [call EXCEPT ![c] = now]
      /\ now.at = "deciding" /\ now.op = it.op /\ now.i = it.i + 1 /\ now.synthetic = it.synthetic
      /\ now = [at |-> "deciding", op |-> it.op, synthetic |-> it.synthetic, i |-> it.i + 1,
                verdict |-> now.verdict, ids |-> now.ids]
  BY <1>1 DEF Turn
<1>7. ASSUME now.verdict \in Verdict, now.ids \in Seq(Nat)
      PROVE  MayBe(c, now)
  <2>1. now \in DecidingCall
    BY <1>2, <1>6, <1>7 DEF DecidingCall
  <2>2. MayBe(c, it)
    BY CallIs DEF Typed
  <2> QED
    BY <1>2, <1>6, <2>1, <2>2 DEF MayBe, CallState
<1>8. CASE ~concerned /\ Passes(it, now)
  <2>1. IdsOf(now) = IdsOf(it) /\ now.verdict = it.verdict /\ now.ids = it.ids /\ rules' = rules
    BY <1>8 DEF IdsOf, Passes
  <2>2. /\ Walked(rules, it.i, it.op, it.verdict, IdsOf(it))
        /\ \A p \in 1 .. Len(rules) :
             Extra(rules, p, it.i, it.op, IdsOf(it)) = Extra(rules, p, it.i - 1, it.op, IdsOf(it))
    BY <1>2, <1>3, <1>4, <1>8, PassedOver
  <2>3. Turned(arms, rules, rules', it.i, it.op, IdsOf(it), IdsOf(now), now.verdict)
    BY <1>2, <1>3, <2>1, <2>2 DEF Turned
  <2> QED
    BY <1>2, <1>6, <1>7, <2>1, <2>3
<1> DEFINE New(f) == [id |-> armed.id, rule |-> armed.rule, matched |-> armed.matched + 1, fired |-> f]
<1>10. \A f \in Nat : /\ New(f) \in ArmedRule /\ New(f).id = armed.id /\ New(f).rule = armed.rule
                      /\ New(f).matched = armed.matched + 1 /\ New(f).fired = f
  BY <1>5 DEF ArmedRule
<1>11. /\ Fires(armed) <=> /\ armed.matched + 1 > Threshold(armed.rule)
                           /\ armed.rule.times > 0 =>
                                armed.matched + 1 <= Threshold(armed.rule) + armed.rule.times
       /\ Fires(armed) => armed.fired + 1 = Spent(armed.rule, armed.matched + 1)
       /\ ~Fires(armed) => armed.fired = Spent(armed.rule, armed.matched + 1)
  BY <1>5, FiresIsDue
<1>12. CASE /\ concerned /\ ~Fires(armed)
            /\ Counts(it, now, armed, armed.fired)
            /\ now.verdict = it.verdict /\ now.ids = it.ids
  <2> DEFINE new == New(armed.fired)
  <2>1. /\ new \in ArmedRule /\ new.id = armed.id /\ new.rule = armed.rule
        /\ new.matched = armed.matched + 1 /\ new.fired = armed.fired
    BY <1>5, <1>10
  <2>2. rules' = [rules EXCEPT ![it.i] = new]
    BY <1>12 DEF Counts
  <2> HIDE DEF new, New
  <2>3. IdsOf(now) = IdsOf(it)
    BY <1>12 DEF IdsOf
  <2>4. ~Due(new) /\ new.fired = Spent(new.rule, new.matched)
    BY <1>11, <1>12, <2>1 DEF Due
  <2>5. Turned(arms, rules, rules', it.i, it.op, IdsOf(it), IdsOf(now), now.verdict)
    <3>1. CountedIn(rules, it.i, new, rules')
      BY <2>1, <2>2, <2>4 DEF CountedIn
    <3>2. FiredIn(new, IdsOf(it), IdsOf(now), it.verdict, now.verdict)
      BY <1>12, <2>3, <2>4 DEF FiredIn
    <3>3. Concerned(rules, it.i, it.op, IdsOf(it))
      BY <1>4, <1>12
    <3> HIDE DEF it, armed
    <3> QED
      BY <1>2, <1>3, <3>1, <3>2, <3>3, CountedOn
  <2> QED
    BY <1>2, <1>6, <1>7, <1>12, <2>5
<1>13. CASE /\ concerned /\ Fires(armed)
            /\ Counts(it, now, armed, armed.fired + 1)
            /\ now.verdict = Apply(it.verdict, armed.rule) /\ now.ids = Append(it.ids, armed.id)
  <2> DEFINE new == New(armed.fired + 1)
  <2>1. /\ new \in ArmedRule /\ new.id = armed.id /\ new.rule = armed.rule
        /\ new.matched = armed.matched + 1 /\ new.fired = armed.fired + 1
    BY <1>5, <1>10
  <2>2. rules' = [rules EXCEPT ![it.i] = new]
    BY <1>13 DEF Counts
  <2> HIDE DEF new, New
  <2>3. IdsOf(now) = IdsOf(it) \cup {new.id} /\ now.ids \in Seq(Nat)
    <3>1. IdAdded(it, now, new.id)
      BY <1>2, <1>5, <1>13, <2>1 DEF IdAdded
    <3> QED
      BY <3>1, IdsGrow
  <2>4. Due(new) /\ new.fired = Spent(new.rule, new.matched)
    BY <1>11, <1>13, <2>1 DEF Due
  <2>5. Turned(arms, rules, rules', it.i, it.op, IdsOf(it), IdsOf(now), now.verdict)
    <3>1. CountedIn(rules, it.i, new, rules')
      BY <2>1, <2>2, <2>4 DEF CountedIn
    <3>2. FiredIn(new, IdsOf(it), IdsOf(now), it.verdict, now.verdict)
      BY <1>13, <2>1, <2>3, <2>4 DEF FiredIn
    <3>3. Concerned(rules, it.i, it.op, IdsOf(it))
      BY <1>4, <1>13
    <3> HIDE DEF it, armed
    <3> QED
      BY <1>2, <1>3, <3>1, <3>2, <3>3, CountedOn
  <2>6. now.verdict \in Verdict
    BY <2>5 DEF Turned
  <2> QED
    BY <1>2, <1>6, <1>7, <2>3, <2>5, <2>6
<1> QED
  BY <1>1, <1>8, <1>12, <1>13

----------------------------------------------------------------------------
(* The rules and the log stay in step *)

RulesSame == rules' = rules /\ arms' = arms
LogSame == entries' = entries /\ oldest' = oldest /\ next' = next /\ dropped' = dropped

LEMMA RulesStay ==
  ASSUME RulesInv, RulesSame, LogSame, mutex' = mutex,
         \A c \in Callers : call'[c].at = "deciding" => call'[c] = call[c]
  PROVE  RulesInv'
<1>1. /\ rules' = rules /\ arms' = arms /\ entries' = entries /\ dropped' = dropped
  BY DEF RulesSame, LogSame
<1>2. ASSUME NEW c \in Callers, call'[c].at = "deciding"
      PROVE  Walked(rules', call'[c].i - 1, call'[c].op, call'[c].verdict, IdsOf(call'[c]))
  BY <1>1, <1>2 DEF RulesInv
<1>3. ASSUME dropped' = 0
      PROVE  /\ \A k \in OpsIn(entries') : FaultAt(entries', k)
             /\ AllArmed(entries', arms')
             /\ mutex' = Nobody => Counted(rules', entries')
             /\ \A c \in Callers : call'[c].at = "deciding" => CountedWith(rules', entries', call'[c])
  BY <1>1, <1>3 DEF RulesInv
<1> QED
  BY <1>2, <1>3 DEF RulesInv

\* Nobody is deciding while the mutex is free, and only its holder otherwise.
LEMMA Deciders ==
  ASSUME CallsTyped
  PROVE  /\ mutex = Nobody => \A c \in Callers : call[c].at # "deciding"
         /\ \A c, d \in Callers : call[c].at = "deciding" /\ call[d].at = "deciding" => c = d
         /\ \A c \in Callers : call[c].at = "deciding" => mutex # Nobody
BY Parties DEF CallsTyped

LEMMA StartRules ==
  ASSUME RulesInv, CallsTyped', Len(rules) \in Nat, Len(entries) \in Nat, RulesSame, LogSame, mutex = Nobody,
         NEW c \in Callers, call'[c].at = "deciding", call'[c].i = 1, call'[c].ids = <<>>,
         call'[c].verdict = Untouched
  PROVE  RulesInv'
<1>1. \A d \in Callers : call'[d].at = "deciding" => d = c
  BY DEF CallsTyped
<1>2. mutex' # Nobody
  BY Parties DEF CallsTyped
<1>3. IdsOf(call'[c]) = {}
  BY DEF IdsOf
<1>4. Walked(rules, 0, call'[c].op, Untouched, {})
  BY DEF Walked, Decided, Untouched
<1>5. call'[c].i - 1 = 0
  OBVIOUS
<1>6. Walked(rules', call'[c].i - 1, call'[c].op, call'[c].verdict, IdsOf(call'[c]))
  BY <1>3, <1>4, <1>5 DEF RulesSame
<1>7. ASSUME dropped' = 0
      PROVE  /\ \A k \in OpsIn(entries') : FaultAt(entries', k)
             /\ AllArmed(entries', arms')
             /\ CountedWith(rules', entries', call'[c])
  <2>1. /\ \A k \in OpsIn(entries) : FaultAt(entries, k)
        /\ AllArmed(entries, arms) /\ Counted(rules, entries)
    BY <1>7 DEF RulesInv, LogSame
  <2>2. ASSUME NEW p \in 1 .. Len(rules)
        PROVE  rules[p].matched = Cardinality(MetIn(entries, Len(entries), rules[p].id))
                                    + Extra(rules, p, 0, call'[c].op, IdsOf(call'[c]))
    <3>1. Extra(rules, p, 0, call'[c].op, IdsOf(call'[c])) = 0
      BY DEF Extra
    <3>2. rules[p].matched = Cardinality(MetIn(entries, Len(entries), rules[p].id))
      BY <2>1 DEF Counted
    <3>3. Cardinality(MetIn(entries, Len(entries), rules[p].id)) \in Nat
      BY MetFinite
    <3> QED
      BY <3>1, <3>2, <3>3
  <2>3. CountedWith(rules, entries, call'[c])
    BY <1>5, <2>2 DEF CountedWith
  <2> QED
    BY <2>1, <2>3 DEF RulesSame, LogSame
<1> QED
  BY <1>1, <1>2, <1>6, <1>7 DEF RulesInv

LEMMA TurnRules ==
  ASSUME Typed, RulesInv, CallsTyped', LogSame, arms' = arms, mutex' = mutex,
         NEW c \in Callers, call[c].at = "deciding", call[c] \in DecidingCall, NEW now,
         call'[c] = now, now.at = "deciding", now.op = call[c].op, now.i = call[c].i + 1,
         Turned(arms, rules, rules', call[c].i, call[c].op, IdsOf(call[c]), IdsOf(now), now.verdict)
  PROVE  RulesInv'
<1> DEFINE it == call[c]
<1>1. \A d \in Callers : call'[d].at = "deciding" => d = c
  BY DEF CallsTyped
<1>2. mutex' # Nobody
  BY Parties DEF CallsTyped
<1>3. it.i \in Nat /\ now.i - 1 = it.i
  BY DEF DecidingCall
<1>4. Walked(rules', now.i - 1, now.op, now.verdict, IdsOf(now))
  BY <1>3 DEF Turned
<1>5. ASSUME dropped' = 0
      PROVE  /\ \A k \in OpsIn(entries') : FaultAt(entries', k)
             /\ AllArmed(entries', arms')
             /\ CountedWith(rules', entries', now)
  <2>1. /\ \A k \in OpsIn(entries) : FaultAt(entries, k)
        /\ AllArmed(entries, arms) /\ CountedWith(rules, entries, it)
    BY <1>5 DEF RulesInv, LogSame
  <2>2. ASSUME NEW p \in 1 .. Len(rules)
        PROVE  rules'[p].matched = Cardinality(MetIn(entries, Len(entries), rules'[p].id))
                                     + Extra(rules', p, it.i, it.op, IdsOf(now))
    <3> DEFINE seen == Cardinality(MetIn(entries, Len(entries), rules[p].id))
               e1 == Extra(rules, p, it.i - 1, it.op, IdsOf(it))
               e2 == Extra(rules', p, it.i, it.op, IdsOf(now))
    <3>1. rules[p].matched = seen + e1
      BY <2>1 DEF CountedWith
    <3>2. rules'[p].matched + e1 = rules[p].matched + e2 /\ rules'[p].id = rules[p].id
      BY DEF Turned
    <3>3. e1 \in {0, 1} /\ e2 \in {0, 1}
      BY DEF Extra
    <3>4. rules'[p].matched \in Nat
      <4>1. RuleList(rules', arms) /\ p \in 1 .. Len(rules')
        BY DEF Turned
      <4> QED
        BY <4>1, ListIs
    <3>5. seen \in Nat
      <4>1. Len(entries) \in Nat
        BY DEF Typed, LogTyped
      <4> QED
        BY <4>1, MetFinite
    <3> HIDE DEF e1, e2, seen
    <3>6. rules'[p].matched = seen + e2
      BY <3>1, <3>2, <3>3, <3>4, <3>5
    <3> QED
      BY <3>2, <3>6 DEF seen, e2
  <2>3. CountedWith(rules', entries, now)
    <3>1. Len(rules') = Len(rules)
      BY DEF Turned
    <3> QED
      BY <1>3, <2>2, <3>1 DEF CountedWith
  <2> QED
    BY <2>1, <2>3 DEF LogSame
<1> QED
  BY <1>1, <1>2, <1>4, <1>5 DEF RulesInv

\* The control plane changes the list while nobody is deciding.
Carried(list2, n) ==
  \A p \in 1 .. Len(list2) :
    \/ \E q \in 1 .. Len(rules) : list2[p] = rules[q]
    \/ list2[p].matched = 0 /\ list2[p].id = n + 1
LEMMA ListRules ==
  ASSUME RulesInv, CallsTyped', LogSame, mutex = Nobody, mutex' = Nobody,
         arms \in Nat, arms' \in {arms, arms + 1}, Carried(rules', arms)
  PROVE  RulesInv'
<1>1. \A d \in Callers : call'[d].at # "deciding"
  BY Parties DEF CallsTyped
<1>2. ASSUME dropped' = 0
      PROVE  /\ \A k \in OpsIn(entries) : FaultAt(entries, k)
             /\ AllArmed(entries, arms') /\ Counted(rules', entries)
  <2>1. /\ \A k \in OpsIn(entries) : FaultAt(entries, k)
        /\ AllArmed(entries, arms) /\ Counted(rules, entries)
    BY <1>2 DEF RulesInv, LogSame
  <2>2. AllArmed(entries, arms')
    <3>1. \A x : x \in 1 .. arms => x \in 1 .. arms'
      OBVIOUS
    <3> QED
      BY <2>1, <3>1 DEF AllArmed
  <2>3. MetIn(entries, Len(entries), arms + 1) = {}
    <3>1. arms + 1 \notin 1 .. arms
      OBVIOUS
    <3> QED
      BY <2>1, <3>1 DEF AllArmed, MetIn, MetBy
  <2>4. ASSUME NEW p \in 1 .. Len(rules')
        PROVE  rules'[p].matched = Cardinality(MetIn(entries, Len(entries), rules'[p].id))
    <3>1. CASE \E q \in 1 .. Len(rules) : rules'[p] = rules[q]
      BY <2>1, <3>1 DEF Counted
    <3>2. CASE rules'[p].matched = 0 /\ rules'[p].id = arms + 1
      <4>1. Cardinality({}) = 0
        BY FS_EmptySet
      <4> QED
        BY <2>3, <3>2, <4>1
    <3> QED
      BY <3>1, <3>2 DEF Carried
  <2> QED
    BY <2>1, <2>2, <2>4 DEF Counted
<1> QED
  BY <1>1, <1>2 DEF RulesInv, LogSame

\* A record that is not of an operation counts for no rule.
LEMMA NoteRules ==
  ASSUME RulesInv, RulesSame, mutex' = mutex, NEW new, new.what.kind # "op",
         dropped' = 0 => dropped = 0 /\ Grown(entries, new, entries'),
         \A c \in Callers : call'[c].at = "deciding" => call'[c] = call[c]
  PROVE  RulesInv'
<1>1. ASSUME NEW c \in Callers, call'[c].at = "deciding"
      PROVE  Walked(rules', call'[c].i - 1, call'[c].op, call'[c].verdict, IdsOf(call'[c]))
  BY <1>1 DEF RulesInv, RulesSame
<1>2. ASSUME dropped' = 0
      PROVE  /\ \A k \in OpsIn(entries') : FaultAt(entries', k)
             /\ AllArmed(entries', arms')
             /\ mutex' = Nobody => Counted(rules', entries')
             /\ \A c \in Callers : call'[c].at = "deciding" => CountedWith(rules', entries', call'[c])
  <2>1. /\ \A k \in OpsIn(entries) : FaultAt(entries, k)
        /\ AllArmed(entries, arms)
        /\ mutex = Nobody => Counted(rules, entries)
        /\ \A c \in Callers : call[c].at = "deciding" => CountedWith(rules, entries, call[c])
    BY <1>2 DEF RulesInv
  <2>2. Grown(entries, new, entries')
    BY <1>2
  <2>3. /\ OpsIn(entries') = OpsIn(entries) /\ Len(entries) \in Nat
        /\ \A j \in 1 .. Len(entries) : entries'[j] = entries[j]
    <3>1. /\ OpsIn(entries') = OpsIn(entries) \cup {j \in {Len(entries) + 1} : new.what.kind = "op"}
          /\ Len(entries) \in Nat
          /\ \A j \in 1 .. Len(entries) : entries'[j] = entries[j]
      BY <2>2, GrownIs
    <3>2. {j \in {Len(entries) + 1} : new.what.kind = "op"} = {}
      OBVIOUS
    <3> QED
      BY <3>1, <3>2
  <2>4. \A k \in OpsIn(entries') : FaultAt(entries', k)
    BY <2>1, <2>2, <2>3, GrownFault
  <2>5. AllArmed(entries', arms)
    BY <2>1, <2>3 DEF AllArmed, OpsIn
  <2>6. \A id : Cardinality(MetIn(entries', Len(entries'), id))
                  = Cardinality(MetIn(entries, Len(entries), id))
    <3>1. SUFFICES ASSUME NEW id
                   PROVE Cardinality(MetIn(entries', Len(entries'), id))
                           = Cardinality(MetIn(entries, Len(entries), id))
      OBVIOUS
    <3>2. Cardinality(MetIn(entries', Len(entries'), id))
            = Cardinality(MetIn(entries, Len(entries), id)) + 0
      BY <2>2, GrownMet
    <3>3. Cardinality(MetIn(entries, Len(entries), id)) \in Nat
      BY <2>3, MetFinite
    <3> QED
      BY <3>2, <3>3
  <2>7. Counted(rules, entries) => Counted(rules, entries')
    BY <2>6 DEF Counted
  <2>8. \A it : CountedWith(rules, entries, it) => CountedWith(rules, entries', it)
    BY <2>6 DEF CountedWith
  <2> QED
    BY <2>1, <2>4, <2>5, <2>7, <2>8 DEF RulesSame
<1> QED
  BY <1>1, <1>2 DEF RulesInv

\* The walk is over and recorded.
LEMMA DoneRules ==
  ASSUME Typed, RulesInv, CallsTyped', RulesSame, mutex' = Nobody,
         NEW c \in Callers, call[c].at = "deciding", call[c] \in DecidingCall,
         call[c].i > Len(rules), NEW new, new.what = OpEntry(call[c]),
         dropped' = 0 => dropped = 0 /\ Grown(entries, new, entries')
  PROVE  RulesInv'
<1> DEFINE it == call[c]
           last == Len(entries) + 1
<1>1. \A d \in Callers : call'[d].at # "deciding"
  BY Parties DEF CallsTyped
<1>2. RuleList(rules, arms) /\ Len(rules) \in Nat /\ Len(entries) \in Nat /\ it.i \in Nat
  BY DEF Typed, RuleList, LogTyped, DecidingCall
<1>3. Walked(rules, it.i - 1, it.op, it.verdict, IdsOf(it))
  BY DEF RulesInv
<1>4. it.i - 1 = Len(rules)
  BY <1>2, <1>3 DEF Walked
<1>5. /\ new.what.kind = "op" /\ new.what.armed = rules /\ new.what.op = it.op
      /\ IdsOf(new.what) = IdsOf(it)
  BY DEF OpEntry, IdsOf
<1>6. ASSUME NEW p \in 1 .. Len(rules)
      PROVE  /\ MetBy(new.what, rules[p].id) <=> Concerned(rules, p, it.op, IdsOf(it))
             /\ rules[p].id \in IdsOf(it) <=> Concerned(rules, p, it.op, IdsOf(it)) /\ Due(rules[p])
  <2>1. MetBy(new.what, rules[p].id) <=> Concerned(rules, p, it.op, IdsOf(it))
    BY <1>2, <1>5, MetAtPlace
  <2>2. p \in 1 .. (it.i - 1)
    BY <1>4
  <2> QED
    BY <1>3, <2>1, <2>2 DEF Walked
<1>7. ASSUME dropped' = 0
      PROVE  /\ \A k \in OpsIn(entries') : FaultAt(entries', k)
             /\ AllArmed(entries', arms)
             /\ Counted(rules, entries')
  <2>1. /\ \A k \in OpsIn(entries) : FaultAt(entries, k)
        /\ AllArmed(entries, arms) /\ CountedWith(rules, entries, it)
    BY <1>7 DEF RulesInv
  <2>2. Grown(entries, new, entries')
    BY <1>7
  <2>3. /\ OpsIn(entries') = OpsIn(entries) \cup {last} /\ Len(entries') = last
        /\ \A j \in 1 .. Len(entries) : entries'[j] = entries[j]
        /\ entries'[last] = new
    BY <1>5, <2>2, GrownIs
  <2>4. ASSUME NEW p \in 1 .. Len(rules)
        PROVE  /\ Cardinality(MetIn(entries', last, rules[p].id)) = rules[p].matched
               /\ last \in MetIn(entries', last, rules[p].id)
                    <=> Concerned(rules, p, it.op, IdsOf(it))
    <3> DEFINE id == rules[p].id
               old == Cardinality(MetIn(entries, Len(entries), id))
    <3>1. /\ last \in MetIn(entries', last, id) <=> MetBy(new.what, id)
          /\ Cardinality(MetIn(entries', last, id)) = old + (IF MetBy(new.what, id) THEN 1 ELSE 0)
      BY <1>5, <2>2, GrownMet
    <3>2. rules[p].matched = old + Extra(rules, p, it.i - 1, it.op, IdsOf(it))
      BY <2>1 DEF CountedWith
    <3>3. p <= it.i - 1
      BY <1>4
    <3>4. Extra(rules, p, it.i - 1, it.op, IdsOf(it))
            = IF Concerned(rules, p, it.op, IdsOf(it)) THEN 1 ELSE 0
      BY <3>3 DEF Extra
    <3> QED
      BY <1>6, <3>1, <3>2, <3>4
  <2>5. FaultAt(entries', last)
    <3>1. entries'[last].what.armed = rules /\ IdsOf(entries'[last].what) = IdsOf(it)
      BY <1>5, <2>3
    <3>2. ASSUME NEW p \in 1 .. Len(rules)
          PROVE  LET seen == Cardinality(MetIn(entries', last, rules[p].id)) IN
                 (rules[p].id \in IdsOf(it)) <=>
                   /\ last \in MetIn(entries', last, rules[p].id)
                   /\ seen > Threshold(rules[p].rule)
                   /\ rules[p].rule.times > 0 =>
                        seen <= Threshold(rules[p].rule) + rules[p].rule.times
      BY <1>6, <2>4 DEF Due
    <3> QED
      BY <3>1, <3>2 DEF FaultAt
  <2>6. \A k \in OpsIn(entries') : FaultAt(entries', k)
    BY <2>1, <2>2, <2>3, <2>5, GrownFault
  <2>7. AllArmed(entries', arms)
    <3>1. ASSUME NEW k \in OpsIn(entries'), NEW p \in 1 .. Len(entries'[k].what.armed)
          PROVE  entries'[k].what.armed[p].id \in 1 .. arms
      <4>1. CASE k = last
        BY <1>2, <1>5, <2>3, <4>1 DEF RuleList
      <4>2. CASE k \in OpsIn(entries)
        BY <2>1, <2>3, <4>2 DEF AllArmed, OpsIn
      <4> QED
        BY <2>3, <4>1, <4>2
    <3> QED
      BY <3>1 DEF AllArmed
  <2>8. Counted(rules, entries')
    BY <2>3, <2>4 DEF Counted
  <2> QED
    BY <2>6, <2>7, <2>8
<1> QED
  BY <1>1, <1>7 DEF RulesInv, RulesSame

----------------------------------------------------------------------------
(* Types, step by step *)

\* An action of the control layer leaves the loop where it is.
LEMMA LoopStays ==
  ASSUME LoopTyped, UNCHANGED loopVars, NEW c \in Callers, c \in Operators \/ call[c] # Idle,
         \A d \in Callers : d # c => call'[d] = call[d]
  PROVE  LoopTyped'
<1>1. /\ session' = session /\ depth' = depth /\ fresh' = fresh /\ held' = held /\ ran' = ran
  BY DEF loopVars, backend
<1>2. ASSUME NEW d \in Conns, session'[d].at # "asked" PROVE call'[d] = Idle
  <2>1. call[d] = Idle
    BY <1>1, <1>2 DEF LoopTyped
  <2>2. d # c /\ d \in Callers
    BY <2>1, Parties
  <2> QED
    BY <2>1, <2>2
<1> QED
  BY <1>1, <1>2 DEF LoopTyped, BackendTyped

\* A connection moves from one state of its session to another.
SessionMay(c, now) == now \in SessionState /\ (now.at # "asked" => call'[c] = Idle)
LEMMA SessionMoves ==
  ASSUME LoopTyped, NEW c \in Conns, NEW now, SessionMay(c, now),
         session' = [session EXCEPT ![c] = now], BackendTyped',
         \A d \in Conns : d # c => call'[d] = call[d]
  PROVE  LoopTyped' /\ session'[c] = now /\ \A d \in Conns : d # c => session'[d] = session[d]
<1>1. /\ session' \in [Conns -> SessionState] /\ session'[c] = now
      /\ \A d \in Conns : d # c => session'[d] = session[d]
  BY DEF LoopTyped, SessionMay
<1> QED
  BY <1>1 DEF LoopTyped, SessionMay

LEMMA SameTyped ==
  ASSUME Typed, RulesSame, LogSame
  PROVE  LogTyped' /\ arms' \in Len(Config) .. MaxArms /\ RuleList(rules', arms')
BY DEF Typed, RulesSame, LogSame, LogTyped

LEMMA SessionKinds ==
  ASSUME NEW x \in SessionState
  PROVE  /\ x.at = "closed" => x = Closed
         /\ x.at = "ready" => x = Ready
         /\ x.at = "decoded" => x.op \in ClientOp
         /\ x.at \in {"closed", "ready", "decoded", "asked"}
         /\ Closed.at = "closed" /\ Ready.at = "ready"
<1>1. Closed.at = "closed" /\ Ready.at = "ready"
  BY DEF Closed, Ready
<1> QED
  BY <1>1 DEF SessionState

\* What Before does, whoever calls it.
LEMMA BeforeIs ==
  ASSUME Typed, RulesInv, NEW c \in Callers, NEW op \in AnyOp, NEW synthetic \in BOOLEAN,
         c \in Conns => op \in ClientOp, synthetic <=> c \in Operators,
         Before(c, op, synthetic)
  PROVE  /\ RulesSame /\ LogSame /\ CallsTyped' /\ RulesInv' /\ call[c] = Idle
         /\ call'[c].at = "deciding" /\ call'[c].op = op
         /\ \A d \in Callers : d # c => call'[d] = call[d]
<1> DEFINE now == [at |-> "deciding", op |-> op, synthetic |-> synthetic, i |-> 1,
                   verdict |-> Untouched, ids |-> <<>>]
<1>1. /\ call[c] = Idle /\ mutex = Nobody /\ mutex' = c /\ call' = [call EXCEPT ![c] = now]
      /\ RulesSame /\ LogSame
  BY DEF Before, RulesSame, LogSame
<1>2. MayBe(c, now) /\ now.at = "deciding" /\ now.i = 1 /\ now.op = op
        /\ now.verdict = Untouched /\ now.ids = <<>>
  BY StartsDeciding
<1> HIDE DEF now
<1>3. Holding(c, now)
  BY <1>1, <1>2, Parties DEF Holding
<1>4. CallsTyped' /\ call'[c] = now /\ \A d \in Callers : d # c => call'[d] = call[d]
  BY <1>1, <1>2, <1>3, CallMoves DEF Typed
<1>5. Len(rules) \in Nat /\ Len(entries) \in Nat
  BY DEF Typed, RuleList, LogTyped
<1>6. RulesInv'
  BY <1>1, <1>2, <1>4, <1>5, StartRules
<1> QED
  BY <1>1, <1>2, <1>4, <1>6

\* What a turn does.
LEMMA StepIs ==
  ASSUME Typed, RulesInv, NEW c \in Callers, DecideStep(c)
  PROVE  /\ LogSame /\ CallsTyped' /\ RulesInv' /\ arms' = arms /\ RuleList(rules', arms')
         /\ Len(rules') = Len(rules)
         /\ \A p \in 1 .. Len(rules) : rules'[p].id = rules[p].id /\ rules'[p].rule = rules[p].rule
         /\ call[c].at = "deciding" /\ call'[c].at = "deciding" /\ call'[c].op = call[c].op
         /\ \A d \in Callers : d # c => call'[d] = call[d]
<1>1. PICK now :
        /\ call[c].at = "deciding" /\ call[c] \in DecidingCall
        /\ MayBe(c, now) /\ call' = [call EXCEPT ![c] = now]
        /\ now.at = "deciding" /\ now.op = call[c].op /\ now.i = call[c].i + 1
        /\ Turned(arms, rules, rules', call[c].i, call[c].op, IdsOf(call[c]), IdsOf(now), now.verdict)
  BY TurnEffect
<1>2. LogSame /\ mutex' = mutex /\ arms' = arms
  BY DEF DecideStep, LogSame
<1>3. Holding(c, now)
  BY <1>1, <1>2 DEF Typed, CallsTyped, Holding
<1>4. CallsTyped' /\ call'[c] = now /\ \A d \in Callers : d # c => call'[d] = call[d]
  BY <1>1, <1>3, CallMoves DEF Typed
<1>5. RulesInv'
  BY <1>1, <1>2, <1>4, TurnRules
<1>6. /\ RuleList(rules', arms') /\ Len(rules') = Len(rules)
      /\ \A p \in 1 .. Len(rules) : rules'[p].id = rules[p].id /\ rules'[p].rule = rules[p].rule
  BY <1>1, <1>2 DEF Turned
<1> QED
  BY <1>1, <1>2, <1>4, <1>5, <1>6

\* What the end of a walk does.
LEMMA DoneIs ==
  ASSUME Typed, RulesInv, NEW c \in Callers, DecideDone(c)
  PROVE  /\ RulesSame /\ LogTyped' /\ next' = next + 1 /\ CallsTyped' /\ RulesInv'
         /\ call[c].at = "deciding" /\ call[c] \in DecidingCall /\ call'[c].at = "decided"
         /\ call'[c].op = call[c].op /\ call'[c].verdict = call[c].verdict
         /\ \A d \in Callers : d # c => call'[d] = call[d]
         /\ call[c].i - 1 = Len(rules)
         /\ Walked(rules, Len(rules), call[c].op, call[c].verdict, IdsOf(call[c]))
         /\ dropped' = 0 =>
              dropped = 0 /\ Grown(entries, [n |-> next, what |-> OpEntry(call[c])], entries')
<1> DEFINE it == call[c]
           now == [at |-> "decided", op |-> it.op, verdict |-> it.verdict]
<1>1. /\ it.at = "deciding" /\ it.i > Len(rules) /\ Log!Record(OpEntry(it)) /\ mutex' = Nobody
      /\ call' = [call EXCEPT ![c] = now] /\ RulesSame
  BY DEF DecideDone, RulesSame, ruleVars
<1>2. it \in DecidingCall /\ MayBe(c, it)
  <2>1. it \in CallState /\ MayBe(c, it)
    BY CallIs DEF Typed, CallsTyped
  <2> QED
    BY <1>1, <2>1, CallKinds
<1>3. MayBe(c, now) /\ now.at = "decided" /\ now.op = it.op /\ now.verdict = it.verdict
  BY <1>2, DecidedMayBe
<1> HIDE DEF now
<1>4. Holding(c, now)
  BY <1>1, <1>3, Parties DEF Typed, CallsTyped, Holding
<1>5. CallsTyped' /\ call'[c] = now /\ \A d \in Callers : d # c => call'[d] = call[d]
  BY <1>1, <1>3, <1>4, CallMoves DEF Typed
<1>6. OpEntry(it) \in Payload
  BY <1>2 DEF OpEntry, Payload, DecidingCall, Verdict, Typed, RuleList
<1>7. /\ LogTyped' /\ next' = next + 1
      /\ dropped' = 0 => dropped = 0 /\ Grown(entries, [n |-> next, what |-> OpEntry(it)], entries')
  BY <1>1, <1>6, RecordIs DEF Typed
<1>8. RulesInv'
  <2> DEFINE new == [n |-> next, what |-> OpEntry(it)]
  <2>1. new.what = OpEntry(it)
    OBVIOUS
  <2> HIDE DEF new
  <2>2. dropped' = 0 => dropped = 0 /\ Grown(entries, new, entries')
    BY <1>7 DEF new
  <2> QED
    BY <1>1, <1>2, <1>5, <2>1, <2>2, DoneRules
<1>9. it.i - 1 = Len(rules) /\ Walked(rules, Len(rules), it.op, it.verdict, IdsOf(it))
  <2>1. Walked(rules, it.i - 1, it.op, it.verdict, IdsOf(it))
    BY <1>1 DEF RulesInv
  <2>2. it.i \in Nat /\ Len(rules) \in Nat
    BY <1>2 DEF Typed, RuleList, DecidingCall
  <2>3. it.i - 1 = Len(rules)
    BY <1>1, <2>1, <2>2 DEF Walked
  <2> QED
    BY <2>1, <2>3
<1> QED
  BY <1>1, <1>2, <1>3, <1>5, <1>7, <1>8, <1>9

LEMMA Sizes == Len(Config) \in Nat /\ MaxArms \in Nat /\ MaxRecords \in Nat
BY InterceptorAssumption

\* A rule that was there when the config was read is one of those still there.
Inherited(list2) ==
  \A p \in 1 .. Len(list2) :
    list2[p].id <= Len(Config) => \E q \in 1 .. Len(rules) : list2[p] = rules[q]

LEMMA MutationIs ==
  ASSUME Typed, RulesInv, NEW c \in Operators,
         \/ \E rule \in Armable : AddRule(c, rule)
         \/ \E index \in 1 .. Len(rules) : RemoveRule(c, index)
         \/ ResetRules(c)
  PROVE  /\ LogSame /\ CallsTyped' /\ RulesInv'
         /\ arms' \in Len(Config) .. MaxArms /\ RuleList(rules', arms') /\ Inherited(rules')
         /\ call[c] = Idle /\ call'[c].at = "recording"
         /\ \A d \in Callers : d # c => call'[d] = call[d]
<1>1. RuleList(rules, arms) /\ arms \in Len(Config) .. MaxArms /\ arms \in Nat
  BY Sizes DEF Typed
<1>2. c \in Callers
  BY Parties
<1>3. ASSUME NEW verb \in {"add", "remove", "reset"}, NEW ids \in Seq(Nat),
             call' = [call EXCEPT ![c] = Recording(MutationEntry(verb, ids))],
             mutex = Nobody, mutex' = mutex
      PROVE  /\ CallsTyped' /\ call'[c].at = "recording"
             /\ \A d \in Callers : d # c => call'[d] = call[d]
  <2> DEFINE now == Recording(MutationEntry(verb, ids))
  <2>1. MayBe(c, now) /\ now.at = "recording"
    BY RecordingMayBe
  <2> HIDE DEF now
  <2>2. call' = [call EXCEPT ![c] = now]
    BY <1>3 DEF now
  <2>3. Holding(c, now)
    BY <1>2, <1>3, <2>1, Parties DEF Holding
  <2> QED
    BY <1>2, <2>1, <2>2, <2>3, CallMoves DEF Typed
<1>4. ASSUME NEW rule \in Armable, AddRule(c, rule)
      PROVE  /\ LogSame /\ CallsTyped' /\ RulesInv'
             /\ arms' \in Len(Config) .. MaxArms /\ RuleList(rules', arms') /\ Inherited(rules')
             /\ call[c] = Idle /\ call'[c].at = "recording"
             /\ \A d \in Callers : d # c => call'[d] = call[d]
  <2>1. /\ LogSame /\ call[c] = Idle /\ Validate(rule) /\ mutex = Nobody /\ mutex' = mutex
        /\ arms < MaxArms /\ arms' = arms + 1 /\ Joined(rules, rule, arms, rules')
        /\ call' = [call EXCEPT ![c] = Recording(MutationEntry("add", <<arms + 1>>))]
    BY <1>4 DEF AddRule, LogSame, Joined
  <2>2. rule \in Rule /\ <<arms + 1>> \in Seq(Nat)
    BY <1>1, InterceptorAssumption
  <2>3. /\ RuleList(rules', arms + 1) /\ Len(rules) \in Nat /\ Len(rules') = Len(rules) + 1
        /\ rules'[Len(rules) + 1] = Armed(rule, arms + 1)
        /\ \A p \in 1 .. Len(rules) : rules'[p] = rules[p]
    BY <1>1, <2>1, <2>2, ListGrows
  <2>4. arms' \in Len(Config) .. MaxArms /\ RuleList(rules', arms') /\ arms + 1 > Len(Config)
    BY <1>1, <2>1, <2>3, Sizes
  <2>5. /\ CallsTyped' /\ call'[c].at = "recording"
        /\ \A d \in Callers : d # c => call'[d] = call[d]
    BY <1>3, <2>1, <2>2
  <2>6. \A p \in 1 .. Len(rules') : p \in 1 .. Len(rules) \/ p = Len(rules) + 1
    BY <2>3
  <2>7. Armed(rule, arms + 1).matched = 0 /\ Armed(rule, arms + 1).id = arms + 1
    BY DEF Armed
  <2>8. ASSUME NEW p \in 1 .. Len(rules')
        PROVE  \/ \E q \in 1 .. Len(rules) : rules'[p] = rules[q]
               \/ rules'[p].matched = 0 /\ rules'[p].id = arms + 1
    BY <2>3, <2>6, <2>7
  <2>9. Carried(rules', arms)
    BY <2>8 DEF Carried
  <2>10. Inherited(rules')
    <3>1. ~(arms + 1 <= Len(Config))
      BY <1>1, <2>4, Sizes
    <3> QED
      BY <2>8, <3>1 DEF Inherited
  <2>11. RulesInv'
    BY <1>1, <2>1, <2>5, <2>9, ListRules
  <2> QED
    BY <2>1, <2>4, <2>5, <2>10, <2>11
<1>5. ASSUME NEW index \in 1 .. Len(rules), RemoveRule(c, index)
      PROVE  /\ LogSame /\ CallsTyped' /\ RulesInv'
             /\ arms' \in Len(Config) .. MaxArms /\ RuleList(rules', arms') /\ Inherited(rules')
             /\ call[c] = Idle /\ call'[c].at = "recording"
             /\ \A d \in Callers : d # c => call'[d] = call[d]
  <2>1. /\ LogSame /\ call[c] = Idle /\ mutex = Nobody /\ mutex' = mutex /\ arms' = arms
        /\ Spliced(rules, index, rules')
        /\ call' = [call EXCEPT ![c] = Recording(MutationEntry("remove", <<rules[index].id>>))]
    BY <1>5 DEF RemoveRule, LogSame, Spliced
  <2>2. <<rules[index].id>> \in Seq(Nat)
    BY <1>1, ListIs
  <2>3. /\ RuleList(rules', arms')
        /\ \A p \in 1 .. Len(rules') : \E q \in 1 .. Len(rules) : rules'[p] = rules[q]
    BY <1>1, <2>1, ListShrinks
  <2>4. Carried(rules', arms) /\ Inherited(rules')
    BY <2>3 DEF Carried, Inherited
  <2>5. /\ CallsTyped' /\ call'[c].at = "recording"
        /\ \A d \in Callers : d # c => call'[d] = call[d]
    BY <1>3, <2>1, <2>2
  <2>6. RulesInv'
    BY <1>1, <2>1, <2>4, <2>5, ListRules
  <2> QED
    BY <1>1, <2>1, <2>3, <2>4, <2>5, <2>6
<1>6. ASSUME ResetRules(c)
      PROVE  /\ LogSame /\ CallsTyped' /\ RulesInv'
             /\ arms' \in Len(Config) .. MaxArms /\ RuleList(rules', arms') /\ Inherited(rules')
             /\ call[c] = Idle /\ call'[c].at = "recording"
             /\ \A d \in Callers : d # c => call'[d] = call[d]
  <2>1. /\ LogSame /\ call[c] = Idle /\ mutex = Nobody /\ mutex' = mutex /\ arms' = arms
        /\ rules' = <<>>
        /\ call' = [call EXCEPT ![c] = Recording(MutationEntry("reset", Ids(rules)))]
    BY <1>6 DEF ResetRules, LogSame
  <2>2. Ids(rules) \in Seq(Nat)
    BY <1>1, IdsTyped
  <2>3. RuleList(rules', arms') /\ Len(rules') = 0
    BY <2>1, NoRules
  <2>4. Carried(rules', arms) /\ Inherited(rules')
    BY <2>3 DEF Carried, Inherited
  <2>5. /\ CallsTyped' /\ call'[c].at = "recording"
        /\ \A d \in Callers : d # c => call'[d] = call[d]
    BY <1>3, <2>1, <2>2
  <2>6. RulesInv'
    BY <1>1, <2>1, <2>4, <2>5, ListRules
  <2> QED
    BY <1>1, <2>1, <2>3, <2>4, <2>5, <2>6
<1> QED
  BY <1>4, <1>5, <1>6

\* What recording a change does.
LEMMA NoteIs ==
  ASSUME Typed, RulesInv, NEW c \in Operators, RecordMutation(c)
  PROVE  /\ RulesSame /\ LogTyped' /\ next' = next + 1 /\ CallsTyped' /\ RulesInv'
         /\ call[c].at = "recording" /\ call[c].entry.kind # "op" /\ call'[c] = Idle
         /\ \A d \in Callers : d # c => call'[d] = call[d]
         /\ dropped' = 0 =>
              dropped = 0 /\ Grown(entries, [n |-> next, what |-> call[c].entry], entries')
<1>1. /\ call[c].at = "recording" /\ Log!Record(call[c].entry) /\ RulesSame /\ mutex' = mutex
      /\ call' = [call EXCEPT ![c] = Idle]
  BY DEF RecordMutation, RulesSame
<1>2. c \in Callers
  BY Parties
<1>3. call[c].entry \in Payload /\ call[c].entry.kind # "op"
  <2>1. call[c] \in CallState
    BY <1>2 DEF Typed, CallsTyped
  <2>2. call[c] \in RecordingCall
    BY <1>1, <2>1, CallKinds
  <2>3. call[c].entry \in [kind : {"add", "remove", "reset"}, ids : Seq(Nat)]
    BY <2>2 DEF RecordingCall
  <2> QED
    BY <2>3 DEF Payload
<1>4. MayBe(c, Idle) /\ Idle.at = "idle"
  BY IdleMayBe
<1>5. Holding(c, Idle)
  BY <1>1, <1>2, <1>4 DEF Holding, Typed, CallsTyped
<1>6. CallsTyped' /\ call'[c] = Idle /\ \A d \in Callers : d # c => call'[d] = call[d]
  BY <1>1, <1>2, <1>4, <1>5, CallMoves DEF Typed
<1>7. /\ LogTyped' /\ next' = next + 1
      /\ dropped' = 0 => dropped = 0 /\ Grown(entries, [n |-> next, what |-> call[c].entry], entries')
  BY <1>1, <1>3, RecordIs DEF Typed
<1>8. RulesInv'
  <2> DEFINE new == [n |-> next, what |-> call[c].entry]
  <2>1. new.what.kind # "op"
    BY <1>3
  <2> HIDE DEF new
  <2>2. dropped' = 0 => dropped = 0 /\ Grown(entries, new, entries')
    BY <1>7 DEF new
  <2>3. \A d \in Callers : call'[d].at = "deciding" => call'[d] = call[d]
    BY <1>4, <1>6
  <2> QED
    BY <1>1, <2>1, <2>2, <2>3, NoteRules
<1> QED
  BY <1>1, <1>3, <1>6, <1>7, <1>8

\* A verdict is taken: by an operator, or by a connection that carries it out.
LEMMA TakenIs ==
  ASSUME Typed, RulesInv, NEW c \in Callers, call[c].at = "decided",
         call' = [call EXCEPT ![c] = Idle], RulesSame, LogSame, mutex' = mutex
  PROVE  /\ CallsTyped' /\ RulesInv' /\ call'[c] = Idle /\ call[c] \in DecidedCall
         /\ \A d \in Callers : d # c => call'[d] = call[d]
<1>1. MayBe(c, Idle) /\ Idle.at = "idle"
  BY IdleMayBe
<1>2. Holding(c, Idle)
  BY <1>1 DEF Holding, Typed, CallsTyped
<1>3. CallsTyped' /\ call'[c] = Idle /\ \A d \in Callers : d # c => call'[d] = call[d]
  BY <1>1, <1>2, CallMoves DEF Typed
<1>4. \A d \in Callers : call'[d].at = "deciding" => call'[d] = call[d]
  BY <1>1, <1>3
<1>5. RulesInv'
  BY <1>4, RulesStay
<1>6. call[c] \in CallState
  BY DEF Typed, CallsTyped
<1> QED
  BY <1>3, <1>5, <1>6, CallKinds

----------------------------------------------------------------------------
(* What each step does, to be read by the invariants below *)

OthersCall(c) == \A d \in Callers : d # c => call'[d] = call[d]
OthersSession(c) == \A d \in Conns : d # c => session'[d] = session[d]
LoopSame ==
  session' = session /\ depth' = depth /\ fresh' = fresh /\ held' = held /\ ran' = ran

\* Nothing that the invariants read of callers and sessions gets more.
Quiet ==
  /\ RulesSame /\ LogSame /\ call' = call /\ fresh' = fresh /\ ran' = ran
  /\ \A c \in Conns : session'[c].at = "decoded" => session'[c] = session[c]
Decodes(c) ==
  /\ RulesSame /\ LogSame /\ call' = call /\ fresh' = fresh /\ ran' = ran
  /\ Room /\ session'[c].at = "decoded" /\ session'[c].op.gauges.depth = depth
  /\ call[c] = Idle /\ OthersSession(c)
Asks(c) ==
  /\ RulesSame /\ LogSame /\ fresh' = fresh /\ ran' = ran
  /\ session[c].at = "decoded" /\ session'[c].at = "asked" /\ OthersSession(c)
  /\ call[c] = Idle /\ call'[c].at = "deciding" /\ call'[c].op = session[c].op /\ OthersCall(c)
Carries(c) ==
  /\ RulesSame /\ LogSame
  /\ call[c].at = "decided" /\ call[c] \in DecidedCall /\ call[c].op \in ClientOp
  /\ call'[c] = Idle /\ OthersCall(c)
  /\ ran' = IF call[c].verdict.outcome = "none"
            THEN [ran EXCEPT ![call[c].op.kind] = @ + 1] ELSE ran
  /\ fresh' \in Nat
  /\ \/ fresh' <= fresh
     \/ fresh' = fresh + 1 /\ call[c].op.kind = "publish" /\ call[c].verdict.outcome = "none"
  /\ session[c].at = "asked" /\ session'[c].at \in {"closed", "ready"} /\ OthersSession(c)
Turns(c) ==
  /\ LogSame /\ LoopSame /\ Len(rules') = Len(rules)
  /\ \A p \in 1 .. Len(rules) : rules'[p].id = rules[p].id /\ rules'[p].rule = rules[p].rule
  /\ call[c].at = "deciding" /\ call'[c].at = "deciding" /\ call'[c].op = call[c].op /\ OthersCall(c)
Finishes(c) ==
  /\ RulesSame /\ LoopSame /\ next' = next + 1
  /\ call[c].at = "deciding" /\ call[c] \in DecidingCall /\ call'[c].at = "decided"
  /\ call'[c].op = call[c].op /\ call'[c].verdict = call[c].verdict /\ OthersCall(c)
  /\ call[c].synthetic <=> c \in Operators
  /\ Walked(rules, Len(rules), call[c].op, call[c].verdict, IdsOf(call[c]))
  /\ dropped' = 0 =>
       dropped = 0 /\ Grown(entries, [n |-> next, what |-> OpEntry(call[c])], entries')
Starts(c) ==
  /\ LogSame /\ LoopSame /\ Room /\ Inherited(rules')
  /\ call[c] = Idle /\ call'[c].at \in {"deciding", "recording"} /\ OthersCall(c)
Notes(c) ==
  /\ RulesSame /\ LoopSame /\ next' = next + 1
  /\ call[c].at = "recording" /\ call[c].entry.kind # "op" /\ call'[c] = Idle /\ OthersCall(c)
  /\ dropped' = 0 =>
       dropped = 0 /\ Grown(entries, [n |-> next, what |-> call[c].entry], entries')
Takes(c) ==
  RulesSame /\ LogSame /\ LoopSame /\ call[c].at = "decided" /\ call'[c] = Idle /\ OthersCall(c)

Effect ==
  \/ Quiet
  \/ \E c \in Conns : Decodes(c) \/ Asks(c) \/ Carries(c)
  \/ \E c \in Callers : Turns(c) \/ Finishes(c)
  \/ \E c \in Operators : Starts(c) \/ Notes(c) \/ Takes(c)

\* What running an operation does to the queue.
LEMMA RunIs ==
  ASSUME BackendTyped, NEW c \in Conns, NEW kind \in Kinds, RunOp(c, kind)
  PROVE  /\ BackendTyped' /\ ran' = [ran EXCEPT ![kind] = @ + 1] /\ fresh' \in Nat
         /\ fresh' <= fresh \/ (fresh' = fresh + 1 /\ kind = "publish")
<1>1. /\ depth \in Nat /\ fresh \in Nat /\ fresh <= depth
      /\ held \in [Conns -> Nat] /\ held[c] \in Nat /\ ran \in [Kinds -> Nat]
  BY DEF BackendTyped
<1>2. ran' = [ran EXCEPT ![kind] = @ + 1] /\ ran' \in [Kinds -> Nat]
  BY <1>1 DEF RunOp
<1>3. CASE kind = "publish" /\ Enqueue
  BY <1>1, <1>2, <1>3 DEF Enqueue, BackendTyped
<1>4. CASE kind = "get" /\ Pull(c)
  <2>1. CASE depth = 0
    BY <1>1, <1>2, <1>4, <2>1 DEF Pull, BackendTyped
  <2>2. CASE depth # 0
    <3>1. depth' = depth - 1 /\ fresh' = IF fresh = depth THEN fresh - 1 ELSE fresh
      BY <1>4, <2>2 DEF Pull
    <3>2. depth' \in Nat /\ fresh' \in Nat /\ fresh' <= depth' /\ fresh' <= fresh
      BY <1>1, <2>2, <3>1
    <3>3. held' = held \/ held' = [held EXCEPT ![c] = @ + 1]
      BY <1>4, <2>2 DEF Pull
    <3>4. held' \in [Conns -> Nat]
      BY <1>1, <3>3
    <3> QED
      BY <1>2, <3>2, <3>4 DEF BackendTyped
  <2> QED
    BY <2>1, <2>2
<1>5. CASE Settle(c, kind)
  <2>1. PICK k \in 0 .. held[c] :
          /\ held' = [held EXCEPT ![c] = @ - k]
          /\ depth' = depth \/ depth' = depth + k
          /\ fresh' = fresh
    BY <1>5 DEF Settle
  <2>2. k \in Nat /\ held[c] - k \in Nat
    BY <1>1
  <2>3. held' \in [Conns -> Nat]
    BY <1>1, <2>1, <2>2
  <2>4. depth' \in Nat /\ fresh' <= depth'
    BY <1>1, <2>1, <2>2
  <2> QED
    BY <1>1, <1>2, <2>1, <2>3, <2>4 DEF BackendTyped
<1> QED
  BY <1>3, <1>4, <1>5 DEF RunOp

\* What the end of a connection does to it.
LEMMA GiveIs ==
  ASSUME BackendTyped, NEW c \in Conns, GiveBack(c)
  PROVE  BackendTyped' /\ fresh' = fresh /\ ran' = ran
<1>1. /\ depth \in Nat /\ fresh \in Nat /\ fresh <= depth
      /\ held \in [Conns -> Nat] /\ held[c] \in Nat /\ ran \in [Kinds -> Nat]
  BY DEF BackendTyped
<1>2. depth' = depth + held[c] /\ fresh' = fresh /\ ran' = ran /\ held' = [held EXCEPT ![c] = 0]
  BY DEF GiveBack
<1>3. held' \in [Conns -> Nat] /\ depth' \in Nat /\ fresh' <= depth'
  BY <1>1, <1>2
<1> QED
  BY <1>1, <1>2, <1>3 DEF BackendTyped

LEMMA ServeIs ==
  ASSUME Typed, RulesInv, NEW c \in Conns, Serve(c)
  PROVE  Typed' /\ RulesInv' /\ (Quiet \/ Decodes(c) \/ Asks(c) \/ Carries(c))
<1>1. c \in Callers /\ c \notin Operators /\ \A d \in Conns : d \in Callers
  BY Parties
<1>2. /\ session \in [Conns -> SessionState] /\ BackendTyped /\ depth \in Nat
      /\ session[c] \in SessionState /\ (session[c].at # "asked" => call[c] = Idle)
  BY DEF Typed, LoopTyped, BackendTyped
<1>3. Closed.at = "closed" /\ Ready.at = "ready" /\ Closed \in SessionState /\ Ready \in SessionState
  BY SessionKinds DEF SessionState
\* The loop alone moves.
<1>4. ASSUME UNCHANGED vars, BackendTyped', fresh' = fresh, ran' = ran, NEW now \in SessionState, now.at # "asked",
             session[c].at # "asked", session' = [session EXCEPT ![c] = now]
      PROVE  Typed' /\ RulesInv' /\ RulesSame /\ LogSame /\ call' = call /\ fresh' = fresh
               /\ ran' = ran /\ session'[c] = now /\ OthersSession(c) /\ call[c] = Idle
  <2>1. RulesSame /\ LogSame /\ call' = call /\ mutex' = mutex /\ fresh' = fresh /\ ran' = ran
    BY <1>4 DEF vars, RulesSame, LogSame
  <2>2. LogTyped' /\ arms' \in Len(Config) .. MaxArms /\ RuleList(rules', arms')
    BY <2>1, SameTyped
  <2>3. CallsTyped'
    BY <2>1 DEF Typed, CallsTyped
  <2>4. SessionMay(c, now)
    BY <1>2, <1>4, <2>1 DEF SessionMay
  <2>5. LoopTyped' /\ session'[c] = now /\ OthersSession(c)
    BY <1>2, <1>4, <2>1, <2>4, SessionMoves DEF Typed, OthersSession
  <2>6. RulesInv'
    BY <2>1, RulesStay
  <2> QED
    BY <1>2, <1>4, <2>1, <2>2, <2>3, <2>5, <2>6 DEF Typed
<1>5. CASE Handle(c)
  <2>1. session[c] = Closed /\ session' = [session EXCEPT ![c] = Ready] /\ UNCHANGED <<vars, backend>>
    BY <1>5 DEF Handle
  <2>3. BackendTyped' /\ UNCHANGED vars /\ fresh' = fresh /\ ran' = ran
    BY <1>2, <2>1 DEF BackendTyped, backend
  <2>2. Typed' /\ RulesInv' /\ RulesSame /\ LogSame /\ call' = call /\ fresh' = fresh
          /\ ran' = ran /\ session'[c] = Ready /\ OthersSession(c)
    BY <1>3, <1>4, <2>1, <2>3
  <2> QED
    BY <1>3, <2>2 DEF Quiet, OthersSession
<1>6. CASE Hangup(c)
  <2>1. session[c] = Ready /\ session' = [session EXCEPT ![c] = Closed] /\ UNCHANGED vars /\ GiveBack(c)
    BY <1>6 DEF Hangup
  <2>3. BackendTyped' /\ fresh' = fresh /\ ran' = ran
    BY <1>2, <2>1, GiveIs
  <2>2. Typed' /\ RulesInv' /\ RulesSame /\ LogSame /\ call' = call /\ fresh' = fresh
          /\ ran' = ran /\ session'[c] = Closed /\ OthersSession(c)
    BY <1>3, <1>4, <2>1, <2>3
  <2> QED
    BY <1>3, <2>2 DEF Quiet, OthersSession
<1>7. CASE Decode(c)
  <2>1. PICK kind \in Kinds :
          session' = [session EXCEPT ![c] =
            [at |-> "decoded",
             op |-> [emulator |-> "queue", kind |-> kind, gauges |-> [depth |-> depth]]]]
    BY <1>7 DEF Decode
  <2> DEFINE op == [emulator |-> "queue", kind |-> kind, gauges |-> [depth |-> depth]]
             now == [at |-> "decoded", op |-> op]
  <2>2. op \in ClientOp /\ op.gauges.depth = depth
    BY <1>2 DEF ClientOp
  <2> HIDE DEF op
  <2>3. now \in SessionState /\ now.at = "decoded" /\ now.op = op
    BY <2>2 DEF SessionState
  <2> HIDE DEF now
  <2>4. session' = [session EXCEPT ![c] = now]
    BY <2>1 DEF now, op
  <2>5. session[c] = Ready /\ Room /\ UNCHANGED <<vars, backend>>
    BY <1>7 DEF Decode
  <2>8. BackendTyped' /\ UNCHANGED vars /\ fresh' = fresh /\ ran' = ran
    BY <1>2, <2>5 DEF BackendTyped, backend
  <2>6. Typed' /\ RulesInv' /\ RulesSame /\ LogSame /\ call' = call /\ fresh' = fresh
          /\ ran' = ran /\ session'[c] = now /\ OthersSession(c) /\ call[c] = Idle
    BY <1>3, <1>4, <2>3, <2>4, <2>5, <2>8
  <2>7. Decodes(c)
    BY <2>2, <2>3, <2>5, <2>6 DEF Decodes
  <2> QED
    BY <2>6, <2>7
<1>8. CASE Ask(c)
  <2> DEFINE now == [at |-> "asked"]
  <2>1. /\ session[c].at = "decoded" /\ Before(c, session[c].op, FALSE) /\ UNCHANGED backend
        /\ session' = [session EXCEPT ![c] = now]
    BY <1>8 DEF Ask
  <2>8. BackendTyped' /\ fresh' = fresh /\ ran' = ran
    BY <1>2, <2>1 DEF BackendTyped, backend
  <2>2. now \in SessionState /\ now.at = "asked"
    BY DEF SessionState
  <2> HIDE DEF now
  <2>3. session[c].op \in ClientOp /\ session[c].op \in AnyOp
    BY <1>2, <2>1, SessionKinds DEF AnyOp
  <2>4. /\ RulesSame /\ LogSame /\ CallsTyped' /\ RulesInv' /\ call[c] = Idle
        /\ call'[c].at = "deciding" /\ call'[c].op = session[c].op /\ OthersCall(c)
    BY <1>1, <2>1, <2>3, BeforeIs DEF OthersCall
  <2>5. LogTyped' /\ arms' \in Len(Config) .. MaxArms /\ RuleList(rules', arms')
    BY <2>4, SameTyped
  <2>6. LoopTyped' /\ session'[c] = now /\ OthersSession(c)
    BY <1>1, <1>2, <2>1, <2>2, <2>4, <2>8, SessionMoves DEF Typed, SessionMay, OthersSession, OthersCall
  <2>7. Asks(c)
    BY <2>1, <2>2, <2>4, <2>6, <2>8 DEF Asks
  <2> QED
    BY <2>4, <2>5, <2>6, <2>7 DEF Typed
<1>9. CASE Step(c)
  <2>1. /\ call[c].at = "decided" /\ call' = [call EXCEPT ![c] = Idle] /\ RulesSame /\ LogSame
        /\ mutex' = mutex
        /\ \/ call[c].verdict.outcome = "drop" /\ GiveBack(c)
           \/ call[c].verdict.outcome = "error" /\ UNCHANGED backend
           \/ call[c].verdict.outcome = "none" /\ RunOp(c, call[c].op.kind)
        /\ session' = [session EXCEPT ![c] = Closed] \/ session' = [session EXCEPT ![c] = Ready]
    BY <1>9 DEF Step, RulesSame, LogSame
  <2>2. /\ CallsTyped' /\ RulesInv' /\ call'[c] = Idle /\ call[c] \in DecidedCall /\ OthersCall(c)
    BY <1>1, <2>1, TakenIs DEF OthersCall
  <2>3. LogTyped' /\ arms' \in Len(Config) .. MaxArms /\ RuleList(rules', arms')
    BY <2>1, SameTyped
  <2>4. call[c].op \in ClientOp
    BY <2>1 DEF Typed, CallsTyped
  <2> DEFINE runs == call[c].verdict.outcome = "none"
             kind0 == call[c].op.kind
  <2>5. /\ BackendTyped' /\ fresh' \in Nat
        /\ ran' = IF runs THEN [ran EXCEPT ![kind0] = @ + 1] ELSE ran
        /\ fresh' <= fresh \/ (fresh' = fresh + 1 /\ kind0 = "publish" /\ runs)
    <3>1. kind0 \in Kinds /\ fresh \in Nat
      BY <1>2, <2>4 DEF ClientOp, BackendTyped
    <3>2. CASE call[c].verdict.outcome = "drop" /\ GiveBack(c)
      BY <1>2, <3>1, <3>2, GiveIs
    <3>3. CASE call[c].verdict.outcome = "error" /\ UNCHANGED backend
      BY <1>2, <3>1, <3>3 DEF BackendTyped, backend
    <3>4. CASE call[c].verdict.outcome = "none" /\ RunOp(c, kind0)
      BY <1>2, <3>1, <3>4, RunIs
    <3> QED
      BY <2>1, <3>2, <3>3, <3>4
  <2>6. session[c].at = "asked"
    <3>1. Idle.at = "idle"
      BY DEF Idle
    <3> QED
      BY <1>2, <2>1, <3>1
  <2>7. ASSUME NEW now \in {Closed, Ready}, session' = [session EXCEPT ![c] = now]
        PROVE  LoopTyped' /\ session'[c].at \in {"closed", "ready"} /\ OthersSession(c)
    <3>1. SessionMay(c, now)
      BY <1>3, <2>2, <2>7 DEF SessionMay
    <3>2. \A d \in Conns : d # c => call'[d] = call[d]
      BY <1>1, <2>2 DEF OthersCall
    <3>3. LoopTyped' /\ session'[c] = now /\ OthersSession(c)
      BY <2>5, <2>7, <3>1, <3>2, SessionMoves DEF Typed, OthersSession
    <3> QED
      BY <1>3, <2>7, <3>3
  <2>8. LoopTyped' /\ session'[c].at \in {"closed", "ready"} /\ OthersSession(c)
    BY <2>1, <2>7
  <2>9. Carries(c)
    BY <2>1, <2>2, <2>4, <2>5, <2>6, <2>8 DEF Carries
  <2> QED
    BY <2>2, <2>3, <2>8, <2>9 DEF Typed
<1> QED
  BY <1>5, <1>6, <1>7, <1>8, <1>9 DEF Serve

LEMMA DecideIs ==
  ASSUME Typed, RulesInv, NEW c \in Callers, Decide(c), UNCHANGED loopVars
  PROVE  Typed' /\ RulesInv' /\ (Turns(c) \/ Finishes(c))
<1>1. LoopSame
  BY DEF loopVars, backend, LoopSame
<1>2. CASE DecideStep(c)
  <2>1. /\ LogSame /\ CallsTyped' /\ RulesInv' /\ arms' = arms /\ RuleList(rules', arms')
        /\ Len(rules') = Len(rules)
        /\ \A p \in 1 .. Len(rules) : rules'[p].id = rules[p].id /\ rules'[p].rule = rules[p].rule
        /\ call[c].at = "deciding" /\ call'[c].at = "deciding" /\ call'[c].op = call[c].op
        /\ \A d \in Callers : d # c => call'[d] = call[d]
    BY <1>2, StepIs
  <2>2. call[c] # Idle
    BY <2>1 DEF Idle
  <2>3. LoopTyped'
    BY <2>1, <2>2, LoopStays DEF Typed
  <2>4. LogTyped'
    BY <2>1 DEF Typed, LogTyped, LogSame
  <2> QED
    BY <1>1, <2>1, <2>3, <2>4 DEF Typed, Turns, OthersCall
<1>3. CASE DecideDone(c)
  <2>1. /\ RulesSame /\ LogTyped' /\ next' = next + 1 /\ CallsTyped' /\ RulesInv'
        /\ call[c].at = "deciding" /\ call[c] \in DecidingCall /\ call'[c].at = "decided"
        /\ call'[c].op = call[c].op /\ call'[c].verdict = call[c].verdict
        /\ \A d \in Callers : d # c => call'[d] = call[d]
        /\ call[c].i - 1 = Len(rules)
        /\ Walked(rules, Len(rules), call[c].op, call[c].verdict, IdsOf(call[c]))
        /\ dropped' = 0 =>
             dropped = 0 /\ Grown(entries, [n |-> next, what |-> OpEntry(call[c])], entries')
    BY <1>3, DoneIs
  <2>2. call[c] # Idle
    BY <2>1 DEF Idle
  <2>3. LoopTyped'
    BY <2>1, <2>2, LoopStays DEF Typed
  <2>4. call[c].synthetic <=> c \in Operators
    BY <2>1 DEF Typed, CallsTyped
  <2>5. arms' \in Len(Config) .. MaxArms /\ RuleList(rules', arms')
    BY <2>1 DEF Typed, RulesSame
  <2>6. Finishes(c)
    BY <1>1, <2>1, <2>4 DEF Finishes, OthersCall
  <2> QED
    BY <2>1, <2>3, <2>5, <2>6 DEF Typed
<1> QED
  BY <1>2, <1>3 DEF Decide

LEMMA OperateIs ==
  ASSUME Typed, RulesInv, NEW c \in Operators, Operate(c), UNCHANGED loopVars
  PROVE  Typed' /\ RulesInv' /\ (Starts(c) \/ Notes(c) \/ Takes(c))
<1>1. LoopSame /\ c \in Callers /\ c \notin Conns
  BY Parties DEF loopVars, backend, LoopSame
<1>2. ASSUME OthersCall(c) PROVE LoopTyped'
  BY <1>1, <1>2, LoopStays DEF Typed, OthersCall
<1>3. CASE /\ Room
           /\ \/ \E rule \in Armable : AddRule(c, rule)
              \/ \E index \in 1 .. Len(rules) : RemoveRule(c, index)
              \/ ResetRules(c)
  <2>1. /\ LogSame /\ CallsTyped' /\ RulesInv'
        /\ arms' \in Len(Config) .. MaxArms /\ RuleList(rules', arms') /\ Inherited(rules')
        /\ call[c] = Idle /\ call'[c].at = "recording" /\ OthersCall(c)
    BY <1>3, MutationIs DEF OthersCall
  <2>2. LogTyped'
    BY <2>1 DEF Typed, LogTyped, LogSame
  <2>3. Starts(c)
    BY <1>1, <1>3, <2>1 DEF Starts
  <2> QED
    BY <1>2, <2>1, <2>2, <2>3 DEF Typed
<1>4. CASE Room /\ \E op \in Fireable : Before(c, op, TRUE)
  <2>1. PICK op \in Fireable : Before(c, op, TRUE)
    BY <1>4
  <2>2. op \in AnyOp
    BY DEF AnyOp
  <2>3. /\ RulesSame /\ LogSame /\ CallsTyped' /\ RulesInv' /\ call[c] = Idle
        /\ call'[c].at = "deciding" /\ OthersCall(c)
    BY <1>1, <2>1, <2>2, BeforeIs DEF OthersCall
  <2>4. LogTyped' /\ arms' \in Len(Config) .. MaxArms /\ RuleList(rules', arms')
    BY <2>3, SameTyped
  <2>5. Inherited(rules')
    BY <2>3 DEF Inherited, RulesSame
  <2>6. Starts(c)
    BY <1>1, <1>4, <2>3, <2>5 DEF Starts
  <2> QED
    BY <1>2, <2>3, <2>4, <2>6 DEF Typed
<1>5. CASE RecordMutation(c)
  <2>1. /\ RulesSame /\ LogTyped' /\ next' = next + 1 /\ CallsTyped' /\ RulesInv'
        /\ call[c].at = "recording" /\ call[c].entry.kind # "op" /\ call'[c] = Idle
        /\ OthersCall(c)
        /\ dropped' = 0 =>
             dropped = 0 /\ Grown(entries, [n |-> next, what |-> call[c].entry], entries')
    BY <1>5, NoteIs DEF OthersCall
  <2>2. arms' \in Len(Config) .. MaxArms /\ RuleList(rules', arms')
    BY <2>1 DEF Typed, RulesSame
  <2>3. Notes(c)
    BY <1>1, <2>1 DEF Notes
  <2> QED
    BY <1>2, <2>1, <2>2, <2>3 DEF Typed
<1>6. CASE FireDone(c)
  <2>1. /\ call[c].at = "decided" /\ call' = [call EXCEPT ![c] = Idle]
        /\ RulesSame /\ LogSame /\ mutex' = mutex
    BY <1>6 DEF FireDone, RulesSame, LogSame
  <2>2. CallsTyped' /\ RulesInv' /\ call'[c] = Idle /\ OthersCall(c)
    BY <1>1, <2>1, TakenIs DEF OthersCall
  <2>3. LogTyped' /\ arms' \in Len(Config) .. MaxArms /\ RuleList(rules', arms')
    BY <2>1, SameTyped
  <2> QED
    BY <1>1, <1>2, <2>1, <2>2, <2>3 DEF Typed, Takes
<1> QED
  BY <1>3, <1>4, <1>5, <1>6 DEF Operate

LEMMA StepEffect ==
  ASSUME Typed, RulesInv, [Next]_allVars
  PROVE  Typed' /\ RulesInv' /\ Effect
<1>1. CASE UNCHANGED allVars
  <2>1. /\ RulesSame /\ LogSame /\ call' = call /\ mutex' = mutex
        /\ session' = session /\ depth' = depth /\ fresh' = fresh /\ held' = held /\ ran' = ran
    BY <1>1 DEF allVars, vars, loopVars, backend, RulesSame, LogSame
  <2>2. LogTyped' /\ arms' \in Len(Config) .. MaxArms /\ RuleList(rules', arms')
    BY <2>1, SameTyped
  <2>3. CallsTyped' /\ LoopTyped'
    BY <2>1 DEF Typed, CallsTyped, LoopTyped, BackendTyped
  <2>4. RulesInv'
    BY <2>1, RulesStay
  <2>5. Quiet
    BY <2>1 DEF Quiet
  <2> QED
    BY <2>2, <2>3, <2>4, <2>5 DEF Typed, Effect
<1>2. ASSUME NEW c \in Conns, Serve(c) PROVE Typed' /\ RulesInv' /\ Effect
  BY <1>2, ServeIs DEF Effect
<1>3. ASSUME NEW c \in Callers, Decide(c), UNCHANGED loopVars PROVE Typed' /\ RulesInv' /\ Effect
  BY <1>3, DecideIs DEF Effect
<1>4. ASSUME NEW c \in Operators, Operate(c), UNCHANGED loopVars PROVE Typed' /\ RulesInv' /\ Effect
  BY <1>4, OperateIs DEF Effect
<1> QED
  BY <1>1, <1>2, <1>3, <1>4 DEF Next

----------------------------------------------------------------------------
(* There is room for what is still to be recorded *)

LEMMA Counting ==
  /\ IsFiniteSet(Busy) /\ Cardinality(Busy) \in Nat
  /\ IsFiniteSet(Decoded) /\ Cardinality(Decoded) \in Nat /\ Cardinality(Decoded) <= Cardinality(Conns)
<1>1. Busy \subseteq Callers /\ Decoded \subseteq Conns
  BY DEF Busy, Decoded
<1> QED
  BY <1>1, Parties, FS_Subset, FS_CardinalityType

LEMMA Fewer ==
  ASSUME NEW A, NEW B, IsFiniteSet(B), A \subseteq B
  PROVE  IsFiniteSet(A) /\ Cardinality(A) \in Nat /\ Cardinality(B) \in Nat /\ Cardinality(A) <= Cardinality(B)
BY FS_Subset, FS_CardinalityType

LEMMA OneMore ==
  ASSUME NEW A, IsFiniteSet(A), NEW x, x \notin A, NEW B, B = A \cup {x}
  PROVE  Cardinality(A) \in Nat /\ Cardinality(B) = Cardinality(A) + 1
BY FS_AddElement, FS_CardinalityType

LEMMA OneLess ==
  ASSUME NEW A, IsFiniteSet(A), NEW x \in A, NEW B, B = A \ {x}
  PROVE  Cardinality(B) \in Nat /\ Cardinality(B) = Cardinality(A) - 1
<1>1. IsFiniteSet(B) /\ Cardinality(B) \in Nat
  BY Fewer
<1>2. x \notin B /\ A = B \cup {x}
  OBVIOUS
<1>3. Cardinality(A) = Cardinality(B) + 1
  BY <1>1, <1>2, OneMore
<1> QED
  BY <1>1, <1>3

LEMMA RoomStep ==
  ASSUME Typed, RoomInv, Effect
  PROVE  RoomInv'
<1>1. /\ IsFiniteSet(Busy) /\ Cardinality(Busy) \in Nat
      /\ IsFiniteSet(Decoded) /\ Cardinality(Decoded) \in Nat
      /\ Cardinality(Decoded) <= Cardinality(Conns)
      /\ Cardinality(Conns) \in Nat /\ next \in Nat /\ MaxRecords \in Nat
      /\ next + Cardinality(Busy) + Cardinality(Decoded) <= MaxRecords + 1 + Cardinality(Conns)
  BY Counting, Parties, Sizes DEF Typed, LogTyped, RoomInv
<1>2. Busy' \subseteq Callers /\ Decoded' \subseteq Conns /\ \A c \in Conns : c \in Callers
  BY Parties DEF Busy, Decoded
<1>3. /\ Cardinality(Busy') \in Nat /\ Cardinality(Decoded') \in Nat
      /\ Cardinality(Decoded') <= Cardinality(Conns)
  BY <1>2, Parties, Fewer
<1>4. ASSUME next' = next, Busy' \subseteq Busy, Decoded' \subseteq Decoded PROVE RoomInv'
  <2>1. Cardinality(Busy') <= Cardinality(Busy) /\ Cardinality(Decoded') <= Cardinality(Decoded)
    BY <1>1, <1>4, Fewer
  <2> QED
    BY <1>1, <1>3, <1>4, <2>1 DEF RoomInv
<1>5. Room => next + Cardinality(Busy) <= MaxRecords
  BY DEF Room, Busy
<1>6. Idle.at = "idle"
  BY DEF Idle
<1>7. CASE Quiet
  <2>1. Busy' = Busy /\ Decoded' \subseteq Decoded /\ next' = next
    BY <1>7 DEF Quiet, Busy, Decoded, LogSame
  <2> QED
    BY <1>4, <2>1
<1>8. ASSUME NEW c \in Conns, Decodes(c) PROVE RoomInv'
  <2>1. Busy' = Busy /\ next' = next /\ next + Cardinality(Busy) <= MaxRecords
    BY <1>5, <1>8 DEF Decodes, Busy, LogSame
  <2> QED
    BY <1>1, <1>3, <2>1 DEF RoomInv
<1>9. ASSUME NEW c \in Conns, Asks(c) PROVE RoomInv'
  <2>1. c \notin Busy /\ c \in Decoded
    BY <1>6, <1>9 DEF Asks, Busy, Decoded
  <2>2. Busy' = Busy \cup {c}
    BY <1>2, <1>9 DEF Asks, Busy, OthersCall
  <2>3. Decoded' = Decoded \ {c}
    BY <1>9 DEF Asks, Decoded, OthersSession
  <2>4. Cardinality(Busy') = Cardinality(Busy) + 1 /\ Cardinality(Decoded') = Cardinality(Decoded) - 1
    BY <1>1, <2>1, <2>2, <2>3, OneMore, OneLess
  <2>5. next' = next
    BY <1>9 DEF Asks, LogSame
  <2> QED
    BY <1>1, <1>3, <2>4, <2>5 DEF RoomInv
<1>10. ASSUME NEW c \in Conns, Carries(c) PROVE RoomInv'
  <2>1. Busy' \subseteq Busy
    BY <1>6, <1>10 DEF Carries, Busy, OthersCall
  <2>2. Decoded' \subseteq Decoded
    BY <1>10 DEF Carries, Decoded, OthersSession
  <2>3. next' = next
    BY <1>10 DEF Carries, LogSame
  <2> QED
    BY <1>4, <2>1, <2>2, <2>3
<1>11. ASSUME LoopSame PROVE Decoded' = Decoded
  BY <1>11 DEF LoopSame, Decoded
<1>12. ASSUME NEW c \in Callers, Turns(c) PROVE RoomInv'
  <2>1. Busy' \subseteq Busy
    BY <1>12 DEF Turns, Busy, OthersCall
  <2>2. Decoded' = Decoded /\ next' = next
    BY <1>11, <1>12 DEF Turns, LogSame
  <2> QED
    BY <1>4, <2>1, <2>2
<1>13. ASSUME NEW c \in Callers, c \in Busy, Busy' = Busy \ {c}, Decoded' = Decoded, next' = next + 1
       PROVE  RoomInv'
  <2>1. Cardinality(Busy') = Cardinality(Busy) - 1
    BY <1>1, <1>13, OneLess
  <2> QED
    BY <1>1, <1>3, <1>13, <2>1 DEF RoomInv
<1>14. ASSUME NEW c \in Callers, Finishes(c) PROVE RoomInv'
  <2>1. c \in Busy /\ Busy' = Busy \ {c}
    BY <1>14 DEF Finishes, Busy, OthersCall
  <2>2. Decoded' = Decoded /\ next' = next + 1
    BY <1>11, <1>14 DEF Finishes
  <2> QED
    BY <1>13, <2>1, <2>2
<1>15. \A c \in Operators : c \in Callers
  BY Parties
<1>16. ASSUME NEW c \in Operators, Starts(c) PROVE RoomInv'
  <2>1. c \notin Busy
    BY <1>6, <1>16 DEF Starts, Busy
  <2>2. Busy' = Busy \cup {c}
    BY <1>15, <1>16 DEF Starts, Busy, OthersCall
  <2>3. Cardinality(Busy') = Cardinality(Busy) + 1
    BY <1>1, <2>1, <2>2, OneMore
  <2>4. Decoded' = Decoded /\ next' = next /\ next + Cardinality(Busy) <= MaxRecords
    BY <1>5, <1>11, <1>16 DEF Starts, LogSame
  <2> QED
    BY <1>1, <1>3, <2>3, <2>4 DEF RoomInv
<1>17. ASSUME NEW c \in Operators, Notes(c) PROVE RoomInv'
  <2>1. c \in Busy /\ Busy' = Busy \ {c}
    BY <1>6, <1>15, <1>17 DEF Notes, Busy, OthersCall
  <2>2. Decoded' = Decoded /\ next' = next + 1
    BY <1>11, <1>17 DEF Notes
  <2> QED
    BY <1>13, <1>15, <2>1, <2>2
<1>18. ASSUME NEW c \in Operators, Takes(c) PROVE RoomInv'
  <2>1. Busy' \subseteq Busy
    BY <1>6, <1>15, <1>18 DEF Takes, Busy, OthersCall
  <2>2. Decoded' = Decoded /\ next' = next
    BY <1>11, <1>18 DEF Takes, LogSame
  <2> QED
    BY <1>4, <2>1, <2>2
<1> QED
  BY <1>7, <1>8, <1>9, <1>10, <1>12, <1>14, <1>16, <1>17, <1>18 DEF Effect

----------------------------------------------------------------------------
(* The log tells what the backend ran *)

ToRun(what, kind) ==
  what.kind = "op" /\ ~what.synthetic /\ what.outcome = "none" /\ what.op.kind = kind
RunsIn(log, kind) == {k \in 1 .. Len(log) : ToRun(log[k].what, kind)}
Pending(kind) ==
  {c \in Conns : call[c].at = "decided" /\ call[c].op.kind = kind /\ call[c].verdict.outcome = "none"}
Tells == \A kind \in Kinds : Cardinality(RunsIn(entries, kind)) = ran[kind] + Cardinality(Pending(kind))

LEMMA TellsIs ==
  /\ LogTellsWhatRan <=> (dropped = 0 => Tells)
  /\ LogTellsWhatRan' <=> (dropped' = 0 => Tells')
BY DEF LogTellsWhatRan, Tells, RunsIn, ToRun, Pending

LEMMA RunsGrow ==
  ASSUME NEW log, NEW new, NEW log2, Grown(log, new, log2), NEW kind
  PROVE  /\ Cardinality(RunsIn(log, kind)) \in Nat
         /\ ToRun(new.what, kind) => Cardinality(RunsIn(log2, kind)) = Cardinality(RunsIn(log, kind)) + 1
         /\ ~ToRun(new.what, kind) => Cardinality(RunsIn(log2, kind)) = Cardinality(RunsIn(log, kind))
<1> DEFINE last == Len(log) + 1
           old == RunsIn(log, kind)
<1>1. /\ Len(log) \in Nat /\ Len(log2) = last /\ log2[last] = new
      /\ \A j \in 1 .. Len(log) : log2[j] = log[j]
  BY GrownIs
<1>2. \A j : j \in 1 .. Len(log2) <=> j \in 1 .. Len(log) \/ j = last
  BY <1>1
<1>3. \A j : j \in RunsIn(log2, kind) <=> j \in old \/ (j = last /\ ToRun(new.what, kind))
  BY <1>1, <1>2 DEF RunsIn
<1>4. old \subseteq 1 .. Len(log) /\ IsFiniteSet(1 .. Len(log)) /\ last \notin old
  BY <1>1, FS_Interval DEF RunsIn
<1>5. IsFiniteSet(old) /\ Cardinality(old) \in Nat
  BY <1>4, Fewer
<1> HIDE DEF last, old
<1>6. CASE ToRun(new.what, kind)
  <2>1. RunsIn(log2, kind) = old \cup {last}
    BY <1>3, <1>6
  <2> QED
    BY <1>4, <1>5, <1>6, <2>1, OneMore DEF old
<1>7. CASE ~ToRun(new.what, kind)
  <2>1. RunsIn(log2, kind) = old
    BY <1>3, <1>7
  <2> QED
    BY <1>5, <1>7, <2>1 DEF old
<1> QED
  BY <1>6, <1>7

LEMMA TellsStep ==
  ASSUME Typed, LogTellsWhatRan, Effect
  PROVE  LogTellsWhatRan'
<1>1. ran \in [Kinds -> Nat] /\ \A c \in Conns : c \in Callers
  BY Parties DEF Typed, LoopTyped, BackendTyped
<1>2. \A kind : IsFiniteSet(Pending(kind)) /\ Cardinality(Pending(kind)) \in Nat
  <2>1. \A kind : Pending(kind) \subseteq Conns
    BY DEF Pending
  <2> QED
    BY <2>1, Parties, Fewer
<1>3. Idle.at = "idle"
  BY DEF Idle
<1>4. ASSUME LogSame, ran' = ran, \A kind \in Kinds : Pending(kind)' = Pending(kind)
      PROVE  LogTellsWhatRan'
  <2>1. dropped' = 0 => Tells'
    BY <1>4, TellsIs DEF Tells, LogSame
  <2> QED
    BY <2>1, TellsIs
<1>5. CASE Quiet
  BY <1>4, <1>5 DEF Quiet, Pending
<1>6. ASSUME NEW c \in Conns, Decodes(c) PROVE LogTellsWhatRan'
  BY <1>4, <1>6 DEF Decodes, Pending
<1>7. ASSUME NEW c \in Conns, Asks(c) PROVE LogTellsWhatRan'
  <2>1. \A kind \in Kinds : Pending(kind)' = Pending(kind)
    BY <1>1, <1>3, <1>7 DEF Asks, Pending, OthersCall
  <2> QED
    BY <1>4, <1>7, <2>1 DEF Asks
<1>8. ASSUME NEW c \in Conns, Carries(c) PROVE LogTellsWhatRan'
  <2> DEFINE kind0 == call[c].op.kind
             runs == call[c].verdict.outcome = "none"
  <2>1. kind0 \in Kinds
    BY <1>8 DEF Carries, ClientOp
  <2>2. CASE ~runs
    <3>1. \A kind \in Kinds : Pending(kind)' = Pending(kind)
      BY <1>1, <1>3, <1>8, <2>2 DEF Carries, Pending, OthersCall
    <3> QED
      BY <1>4, <1>8, <2>2, <3>1 DEF Carries
  <2>3. CASE runs
    <3>1. ran' = [ran EXCEPT ![kind0] = @ + 1]
      BY <1>8, <2>3 DEF Carries
    <3>2. ASSUME NEW kind \in Kinds
          PROVE  ran'[kind] + Cardinality(Pending(kind)') = ran[kind] + Cardinality(Pending(kind))
      <4>1. CASE kind = kind0
        <5>1. c \in Pending(kind) /\ Pending(kind)' = Pending(kind) \ {c}
          BY <1>1, <1>3, <1>8, <2>3, <4>1 DEF Carries, Pending, OthersCall
        <5>2. Cardinality(Pending(kind)') = Cardinality(Pending(kind)) - 1
          BY <1>2, <5>1, OneLess
        <5>3. ran'[kind] = ran[kind] + 1 /\ ran[kind] \in Nat
          BY <1>1, <3>1, <4>1
        <5> QED
          BY <1>2, <5>2, <5>3
      <4>2. CASE kind # kind0
        <5>1. Pending(kind)' = Pending(kind)
          BY <1>1, <1>3, <1>8, <4>2 DEF Carries, Pending, OthersCall
        <5>2. ran'[kind] = ran[kind]
          BY <1>1, <3>1, <4>2
        <5> QED
          BY <5>1, <5>2
      <4> QED
        BY <4>1, <4>2
    <3>3. LogSame
      BY <1>8 DEF Carries
    <3>4. dropped' = 0 => Tells'
      BY <3>2, <3>3, TellsIs DEF Tells, LogSame
    <3> QED
      BY <3>4, TellsIs
  <2> QED
    BY <2>2, <2>3
<1>9. ASSUME NEW c \in Callers, Turns(c) PROVE LogTellsWhatRan'
  <2>1. \A kind \in Kinds : Pending(kind)' = Pending(kind)
    BY <1>1, <1>9 DEF Turns, Pending, OthersCall
  <2> QED
    BY <1>4, <1>9, <2>1 DEF Turns, LoopSame
<1>10. ASSUME NEW c \in Callers, Finishes(c) PROVE LogTellsWhatRan'
  <2> DEFINE new == [n |-> next, what |-> OpEntry(call[c])]
  <2>1. /\ ran' = ran
        /\ dropped' = 0 => dropped = 0 /\ Grown(entries, new, entries')
        /\ call[c].synthetic <=> c \notin Conns
    BY <1>10, Parties DEF Finishes, LoopSame, Callers
  <2>2. ASSUME NEW kind \in Kinds
        PROVE  ToRun(new.what, kind) <=>
                 c \in Conns /\ call[c].verdict.outcome = "none" /\ call[c].op.kind = kind
    <3>1. /\ new.what.kind = "op" /\ new.what.synthetic = call[c].synthetic
          /\ new.what.outcome = call[c].verdict.outcome /\ new.what.op = call[c].op
      BY DEF OpEntry
    <3> QED
      BY <2>1, <3>1 DEF ToRun
  <2> HIDE DEF new
  <2>3. ASSUME NEW kind \in Kinds, dropped' = 0
        PROVE  Cardinality(RunsIn(entries', kind)) = ran[kind] + Cardinality(Pending(kind)')
    <3>1. Cardinality(RunsIn(entries, kind)) = ran[kind] + Cardinality(Pending(kind))
      BY <2>1, <2>3, TellsIs DEF Tells
    <3>2. /\ Cardinality(RunsIn(entries, kind)) \in Nat
          /\ ToRun(new.what, kind) =>
               Cardinality(RunsIn(entries', kind)) = Cardinality(RunsIn(entries, kind)) + 1
          /\ ~ToRun(new.what, kind) =>
               Cardinality(RunsIn(entries', kind)) = Cardinality(RunsIn(entries, kind))
      BY <2>1, <2>3, RunsGrow
    <3>3. ran[kind] \in Nat /\ Cardinality(Pending(kind)) \in Nat
      BY <1>1, <1>2
    <3>4. CASE ToRun(new.what, kind)
      <4>1. c \notin Pending(kind) /\ Pending(kind)' = Pending(kind) \cup {c}
        BY <1>1, <1>10, <2>2, <3>4 DEF Finishes, Pending, OthersCall
      <4>2. Cardinality(Pending(kind)') = Cardinality(Pending(kind)) + 1
        BY <1>2, <4>1, OneMore
      <4> QED
        BY <3>1, <3>2, <3>3, <3>4, <4>2
    <3>5. CASE ~ToRun(new.what, kind)
      <4>1. Pending(kind)' = Pending(kind)
        BY <1>1, <1>10, <2>2, <3>5 DEF Finishes, Pending, OthersCall
      <4> QED
        BY <3>1, <3>2, <3>5, <4>1
    <3> QED
      BY <3>4, <3>5
  <2>4. dropped' = 0 => Tells'
    BY <2>1, <2>3 DEF Tells
  <2> QED
    BY <2>4, TellsIs
<1>11. \A c \in Operators : c \in Callers /\ c \notin Conns
  BY Parties
<1>12. ASSUME NEW c \in Operators, OthersCall(c)
       PROVE  \A kind \in Kinds : Pending(kind)' = Pending(kind)
  BY <1>1, <1>11, <1>12 DEF Pending, OthersCall
<1>13. ASSUME NEW c \in Operators, Starts(c) PROVE LogTellsWhatRan'
  BY <1>4, <1>12, <1>13 DEF Starts, LoopSame
<1>14. ASSUME NEW c \in Operators, Takes(c) PROVE LogTellsWhatRan'
  BY <1>4, <1>12, <1>14 DEF Takes, LoopSame
<1>15. ASSUME NEW c \in Operators, Notes(c) PROVE LogTellsWhatRan'
  <2> DEFINE new == [n |-> next, what |-> call[c].entry]
  <2>1. /\ ran' = ran /\ OthersCall(c)
        /\ dropped' = 0 => dropped = 0 /\ Grown(entries, new, entries')
        /\ new.what.kind # "op"
    BY <1>15 DEF Notes, LoopSame
  <2> HIDE DEF new
  <2>2. \A kind \in Kinds : Pending(kind)' = Pending(kind)
    BY <1>12, <2>1
  <2>3. ASSUME NEW kind \in Kinds, dropped' = 0
        PROVE  Cardinality(RunsIn(entries', kind)) = ran[kind] + Cardinality(Pending(kind)')
    <3>1. Cardinality(RunsIn(entries, kind)) = ran[kind] + Cardinality(Pending(kind))
      BY <2>1, <2>3, TellsIs DEF Tells
    <3>2. ~ToRun(new.what, kind)
      BY <2>1 DEF ToRun
    <3>3. Cardinality(RunsIn(entries', kind)) = Cardinality(RunsIn(entries, kind))
      BY <2>1, <2>3, <3>2, RunsGrow
    <3> QED
      BY <2>2, <3>1, <3>3
  <2>4. dropped' = 0 => Tells'
    BY <2>1, <2>3 DEF Tells
  <2> QED
    BY <2>4, TellsIs
<1> QED
  BY <1>5, <1>6, <1>7, <1>8, <1>9, <1>10, <1>13, <1>14, <1>15 DEF Effect

----------------------------------------------------------------------------
(* A depth cap that is left alone *)

CapRule(armed) == armed.id <= Len(Config) /\ FailsWhenFull(armed.rule)
CapsOf(list) ==
  {cap \in Int : \E p \in 1 .. Len(list) :
     CapRule(list[p]) /\ \E a \in list[p].rule.when : a.bound = cap}

LEMMA CapsAre ==
  ASSUME NEW m, NEW list, RuleList(list, m)
  PROVE  {condition.bound : condition \in
            UNION {list[i].rule.when : i \in
              {j \in 1..Len(list) : list[j].id <= Len(Config) /\ FailsWhenFull(list[j].rule)}}}
         = CapsOf(list)
<1> DEFINE caps == {condition.bound : condition \in
                      UNION {list[i].rule.when : i \in
                        {j \in 1..Len(list) : list[j].id <= Len(Config) /\ FailsWhenFull(list[j].rule)}}}
<1>1. ASSUME NEW p \in 1 .. Len(list), NEW a \in list[p].rule.when PROVE a.bound \in Int
  <2>1. list[p].rule \in Rule
    BY ListIs
  <2>2. a \in Condition
    BY <2>1 DEF Rule
  <2> QED
    BY <2>2 DEF Condition
<1>2. \A cap : cap \in caps <=>
        \E p \in 1 .. Len(list) : CapRule(list[p]) /\ \E a \in list[p].rule.when : a.bound = cap
  BY DEF CapRule
<1> HIDE DEF caps
<1>3. \A cap : cap \in caps <=> cap \in CapsOf(list)
  BY <1>1, <1>2 DEF CapsOf
<1>4. caps = CapsOf(list)
  BY <1>3
<1> QED
  BY <1>4 DEF caps

LEMMA CapsFewer ==
  ASSUME Typed, Effect
  PROVE  CapsOf(rules') \subseteq CapsOf(rules)
<1>1. CASE RulesSame
  BY <1>1 DEF RulesSame
<1>2. ASSUME NEW c \in Callers, Turns(c) PROVE CapsOf(rules') \subseteq CapsOf(rules)
  <2>1. /\ Len(rules') = Len(rules)
        /\ \A p \in 1 .. Len(rules) : rules'[p].id = rules[p].id /\ rules'[p].rule = rules[p].rule
    BY <1>2 DEF Turns
  <2> QED
    BY <2>1 DEF CapsOf, CapRule
<1>3. ASSUME NEW c \in Operators, Starts(c) PROVE CapsOf(rules') \subseteq CapsOf(rules)
  BY <1>3 DEF Starts, Inherited, CapsOf, CapRule
<1> QED
  BY <1>1, <1>2, <1>3 DEF Effect, Quiet, Decodes, Asks, Carries, Finishes, Notes, Takes

\* A publish that finds the queue full is failed, whatever other rules there are.
LEMMA FullFails ==
  ASSUME RuleList(rules, arms), NEW cap \in CapsOf(rules), NEW op \in ClientOp, NEW verdict, NEW fired,
         op.kind = "publish", op.gauges.depth >= cap,
         Walked(rules, Len(rules), op, verdict, fired)
  PROVE  verdict.outcome # "none"
<1>1. PICK p \in 1 .. Len(rules) : CapRule(rules[p]) /\ \E a \in rules[p].rule.when : a.bound = cap
  BY DEF CapsOf
<1>2. PICK a0 \in rules[p].rule.when : a0.bound = cap
  BY <1>1
<1> DEFINE rule == rules[p].rule
<1>3. rule \in Rule /\ Validate(rule) /\ FailsWhenFull(rule) /\ rules[p].matched \in Nat
  BY <1>1, ListIs DEF CapRule
<1>4. op.emulator = "queue" /\ op.gauges.depth \in Nat /\ DOMAIN op.gauges = {"depth"}
  BY DEF ClientOp
<1>5. ActsOn(rule, op)
  <2>1. MatchName(rule.match, op)
    BY <1>3, <1>4 DEF FailsWhenFull, MatchName
  <2>2. ASSUME NEW a \in rule.when
        PROVE  a.gauge \in DOMAIN op.gauges /\ a.comparison = "gte" /\ op.gauges[a.gauge] >= a.bound
    <3>1. a = a0 /\ a.gauge = "depth" /\ a.comparison = "gte"
      BY <1>2, <1>3 DEF FailsWhenFull
    <3> QED
      BY <1>2, <1>4, <3>1
  <2>3. Hold(rule.when, op.gauges)
    BY <2>2 DEF Hold
  <2> QED
    BY <2>1, <2>3 DEF ActsOn
<1>6. rule.action = "error" /\ Threshold(rule) = 0 /\ rule.times = 0 /\ Half(rule.action) = "outcome"
  BY <1>3 DEF FailsWhenFull, Threshold, Half
<1>7. verdict.outcome # "none" <=> Decided(rules, Len(rules), fired, "outcome")
  BY DEF Walked
<1>8. CASE Concerned(rules, p, op, fired)
  <2>1. rules[p].matched > 0
    BY <1>8 DEF Walked
  <2>2. Due(rules[p])
    BY <1>3, <1>6, <2>1 DEF Due
  <2>3. rules[p].id \in fired
    BY <1>8, <2>2 DEF Walked
  <2> QED
    BY <1>6, <1>7, <2>3 DEF Decided
<1>9. CASE ~Concerned(rules, p, op, fired)
  <2>1. PICK q \in 1 .. (p - 1) : Half(rules[q].rule.action) = Half(rule.action) /\ rules[q].id \in fired
    BY <1>5, <1>9 DEF Concerned
  <2>2. q \in 1 .. Len(rules)
    BY DEF RuleList
  <2> QED
    BY <1>6, <1>7, <2>1, <2>2 DEF Decided
<1> QED
  BY <1>8, <1>9

CapOK(cap) ==
  /\ fresh + Cardinality(InFlight(cap)) <= (cap - 1) + Cardinality(Conns)
  /\ \A c \in Conns :
       call[c].at = "decided" /\ call[c].op.kind = "publish" /\ call[c].op.gauges.depth >= cap =>
         call[c].verdict.outcome # "none"

LEMMA CapStep ==
  ASSUME Typed, Typed', CapInv, Effect
  PROVE  CapInv'
<1>1. DepthCaps = CapsOf(rules) /\ DepthCaps' = CapsOf(rules')
  BY CapsAre DEF Typed, DepthCaps
<1>2. \A cap \in CapsOf(rules) : CapOK(cap)
  BY <1>1 DEF CapInv, CapOK
<1> SUFFICES ASSUME NEW cap \in CapsOf(rules') PROVE CapOK(cap)'
  BY <1>1 DEF CapInv, CapOK
<1>3. cap \in CapsOf(rules) /\ cap \in Int
  BY CapsFewer DEF CapsOf
<1>4. /\ fresh + Cardinality(InFlight(cap)) <= (cap - 1) + Cardinality(Conns)
      /\ \A c \in Conns :
           call[c].at = "decided" /\ call[c].op.kind = "publish" /\ call[c].op.gauges.depth >= cap =>
             call[c].verdict.outcome # "none"
  BY <1>2, <1>3 DEF CapOK
<1>5. /\ InFlight(cap) \subseteq Conns /\ InFlight(cap)' \subseteq Conns
      /\ IsFiniteSet(InFlight(cap)) /\ Cardinality(InFlight(cap)) \in Nat
      /\ Cardinality(InFlight(cap)') \in Nat /\ Cardinality(InFlight(cap)') <= Cardinality(Conns)
      /\ Cardinality(Conns) \in Nat /\ depth \in Nat /\ fresh \in Nat /\ fresh' \in Nat
      /\ fresh <= depth
  <2>1. InFlight(cap) \subseteq Conns /\ InFlight(cap)' \subseteq Conns
    BY DEF InFlight
  <2>2. depth \in Nat /\ fresh \in Nat /\ fresh' \in Nat /\ fresh <= depth
    BY DEF Typed, LoopTyped, BackendTyped
  <2> QED
    BY <2>1, <2>2, Parties, Fewer
<1>6. ASSUME fresh' <= fresh, InFlight(cap)' \subseteq InFlight(cap)
      PROVE  fresh' + Cardinality(InFlight(cap)') <= (cap - 1) + Cardinality(Conns)
  <2>1. Cardinality(InFlight(cap)') <= Cardinality(InFlight(cap))
    BY <1>5, <1>6, Fewer
  <2> QED
    BY <1>3, <1>4, <1>5, <1>6, <2>1
<1>7. Idle.at = "idle" /\ \A c \in Conns : c \in Callers /\ c \notin Operators
  BY Parties DEF Idle
<1>8. ASSUME fresh' = fresh, InFlight(cap)' \subseteq InFlight(cap),
             \A c \in Conns : call'[c].at = "decided" => call'[c] = call[c]
      PROVE  CapOK(cap)'
  BY <1>4, <1>5, <1>6, <1>8 DEF CapOK
<1>9. CASE Quiet
  <2>1. InFlight(cap)' \subseteq InFlight(cap)
    BY <1>9 DEF Quiet, InFlight
  <2> QED
    BY <1>5, <1>8, <1>9, <2>1 DEF Quiet
<1>10. ASSUME NEW c \in Conns, Decodes(c) PROVE CapOK(cap)'
  <2>1. fresh' = fresh /\ call' = call /\ call[c] = Idle /\ session'[c].op.gauges.depth = depth
    BY <1>10 DEF Decodes
  <2>2. CASE Below(session'[c].op, cap)
    <3>1. depth < cap
      BY <2>1, <2>2 DEF Below
    <3>2. fresh' + Cardinality(InFlight(cap)') <= (cap - 1) + Cardinality(Conns)
      BY <1>3, <1>5, <2>1, <3>1
    <3> QED
      BY <1>4, <2>1, <3>2 DEF CapOK
  <2>3. CASE ~Below(session'[c].op, cap)
    <3>1. InFlight(cap)' \subseteq InFlight(cap)
      BY <1>7, <1>10, <2>1, <2>3 DEF Decodes, InFlight, OthersSession
    <3> QED
      BY <1>8, <2>1, <3>1
  <2> QED
    BY <2>2, <2>3
<1>11. ASSUME NEW c \in Conns, Asks(c) PROVE CapOK(cap)'
  <2>1. InFlight(cap)' \subseteq InFlight(cap)
    BY <1>7, <1>11 DEF Asks, InFlight, OthersSession, OthersCall
  <2>2. \A d \in Conns : call'[d].at = "decided" => call'[d] = call[d]
    BY <1>7, <1>11 DEF Asks, OthersCall
  <2> QED
    BY <1>8, <1>11, <2>1, <2>2 DEF Asks
<1>12. ASSUME NEW c \in Conns, Carries(c) PROVE CapOK(cap)'
  <2>1. InFlight(cap)' = InFlight(cap) \ {c}
    BY <1>7, <1>12 DEF Carries, InFlight, OthersSession, OthersCall
  <2>2. \A d \in Conns : call'[d].at = "decided" => call'[d] = call[d]
    BY <1>7, <1>12 DEF Carries, OthersCall
  <2>3. \A d \in Conns :
          call'[d].at = "decided" /\ call'[d].op.kind = "publish" /\ call'[d].op.gauges.depth >= cap =>
            call'[d].verdict.outcome # "none"
    BY <1>4, <2>2
  <2>4. CASE fresh' <= fresh
    <3>1. fresh' + Cardinality(InFlight(cap)') <= (cap - 1) + Cardinality(Conns)
      BY <1>6, <2>1, <2>4
    <3> QED
      BY <2>3, <3>1 DEF CapOK
  <2>5. CASE ~(fresh' <= fresh)
    <3>1. call[c].op.kind = "publish" /\ call[c].verdict.outcome = "none" /\ fresh' = fresh + 1
      BY <1>12, <2>5 DEF Carries
    <3>2. call[c].at = "decided" /\ call[c].op.gauges.depth \in Nat
      BY <1>12 DEF Carries, ClientOp
    <3>3. Below(call[c].op, cap)
      BY <1>3, <1>4, <3>1, <3>2 DEF Below
    <3>4. c \in InFlight(cap)
      BY <3>1, <3>2, <3>3 DEF InFlight
    <3>5. Cardinality(InFlight(cap)') = Cardinality(InFlight(cap)) - 1
      BY <1>5, <2>1, <3>4, OneLess
    <3>6. fresh' + Cardinality(InFlight(cap)') <= (cap - 1) + Cardinality(Conns)
      BY <1>3, <1>4, <1>5, <3>1, <3>5
    <3> QED
      BY <2>3, <3>6 DEF CapOK
  <2> QED
    BY <2>4, <2>5
<1>13. ASSUME NEW c \in Callers, Turns(c) PROVE CapOK(cap)'
  <2>1. InFlight(cap)' \subseteq InFlight(cap)
    BY <1>7, <1>13 DEF Turns, InFlight, LoopSame, OthersCall
  <2>2. \A d \in Conns : call'[d].at = "decided" => call'[d] = call[d]
    BY <1>7, <1>13 DEF Turns, OthersCall
  <2> QED
    BY <1>8, <1>13, <2>1, <2>2 DEF Turns, LoopSame
<1>14. ASSUME NEW c \in Callers, Finishes(c) PROVE CapOK(cap)'
  <2>1. InFlight(cap)' \subseteq InFlight(cap)
    BY <1>7, <1>14 DEF Finishes, InFlight, LoopSame, OthersCall
  <2>2. fresh' + Cardinality(InFlight(cap)') <= (cap - 1) + Cardinality(Conns)
    BY <1>5, <1>6, <1>14, <2>1 DEF Finishes, LoopSame
  <2>3. ASSUME NEW d \in Conns, call'[d].at = "decided", call'[d].op.kind = "publish",
               call'[d].op.gauges.depth >= cap
        PROVE  call'[d].verdict.outcome # "none"
    <3>1. CASE d # c
      BY <1>4, <1>7, <1>14, <2>3, <3>1 DEF Finishes, OthersCall
    <3>2. CASE d = c
      <4>1. /\ call'[c].op = call[c].op /\ call'[c].verdict = call[c].verdict
            /\ Walked(rules, Len(rules), call[c].op, call[c].verdict, IdsOf(call[c]))
            /\ call[c].at = "deciding"
        BY <1>14 DEF Finishes
      <4>2. call[c].op \in ClientOp /\ RuleList(rules, arms)
        BY <3>2, <4>1 DEF Typed, CallsTyped
      <4>3. call[c].op.kind = "publish" /\ call[c].op.gauges.depth >= cap
        BY <2>3, <3>2, <4>1
      <4>4. call[c].verdict.outcome # "none"
        BY <1>3, <4>1, <4>2, <4>3, FullFails
      <4> QED
        BY <3>2, <4>1, <4>4
    <3> QED
      BY <3>1, <3>2
  <2> QED
    BY <2>2, <2>3 DEF CapOK
<1>15. ASSUME NEW c \in Operators, LoopSame, OthersCall(c) PROVE CapOK(cap)'
  <2>1. \A d \in Conns : call'[d] = call[d]
    BY <1>7, <1>15 DEF OthersCall
  <2>2. InFlight(cap)' = InFlight(cap)
    BY <1>15, <2>1 DEF InFlight, LoopSame
  <2> QED
    BY <1>8, <1>15, <2>1, <2>2 DEF LoopSame
<1>16. ASSUME NEW c \in Operators, Starts(c) \/ Notes(c) \/ Takes(c) PROVE CapOK(cap)'
  BY <1>15, <1>16 DEF Starts, Notes, Takes
<1> QED
  BY <1>9, <1>10, <1>11, <1>12, <1>13, <1>14, <1>16 DEF Effect

----------------------------------------------------------------------------
(* The theorems *)

LEMMA LoopInvInit ==
  ASSUME LoopInit
  PROVE  LoopInv
<1>1. /\ rules = [i \in 1 .. Len(Config) |-> Armed(Config[i], i)] /\ arms = Len(Config)
      /\ mutex = Nobody /\ call = [c \in Callers |-> Idle]
      /\ entries = <<>> /\ oldest = 0 /\ next = 1 /\ dropped = 0
      /\ session = [c \in Conns |-> Closed] /\ depth = 0 /\ fresh = 0
      /\ held = [c \in Conns |-> 0] /\ ran = [kind \in Kinds |-> 0]
  BY DEF LoopInit, Init, Log!LogInit
<1>2. /\ Len(Config) \in Nat /\ Len(Config) <= MaxArms /\ MaxArms \in Nat /\ Config \in Seq(Rule)
      /\ Limit \in Nat \ {0} /\ \A i \in 1 .. Len(Config) : Validate(Config[i])
  BY InterceptorAssumption
<1>3. LogTyped
  BY <1>1, <1>2 DEF LogTyped
<1>4. ASSUME NEW i \in 1 .. Len(Config)
      PROVE  /\ Armed(Config[i], i) \in ArmedRule /\ Armed(Config[i], i).id = i
             /\ Armed(Config[i], i).rule = Config[i] /\ Validate(Config[i]) /\ Config[i] \in Rule
             /\ Armed(Config[i], i).matched = 0
             /\ Armed(Config[i], i).fired = Spent(Config[i], 0)
  <2>1. Config[i] \in Rule /\ Validate(Config[i]) /\ i \in Nat
    BY <1>2
  <2>2. Threshold(Config[i]) \in Nat
    BY <2>1, RuleIs
  <2>3. Spent(Config[i], 0) = 0
    BY <2>2 DEF Spent
  <2> QED
    BY <2>1, <2>3 DEF Armed, ArmedRule
<1>5. /\ rules \in Seq(ArmedRule) /\ Len(rules) = Len(Config)
      /\ \A i \in 1 .. Len(rules) : rules[i] = Armed(Config[i], i)
  <2>1. \A i \in 1 .. Len(Config) : Armed(Config[i], i) \in ArmedRule
    BY <1>4
  <2> QED
    BY <1>1, <1>2, <2>1
<1>6. RuleList(rules, arms)
  <2>1. Ordered(rules)
    BY <1>2, <1>4, <1>5 DEF Ordered
  <2>2. ASSUME NEW i \in 1 .. Len(rules)
        PROVE  /\ rules[i].id \in 1 .. arms /\ Validate(rules[i].rule)
               /\ rules[i].fired = Spent(rules[i].rule, rules[i].matched)
    BY <1>1, <1>2, <1>4, <1>5
  <2> QED
    BY <1>5, <2>1, <2>2 DEF RuleList
<1>7. Idle.at = "idle" /\ Closed.at = "closed" /\ Idle \in CallState /\ Closed \in SessionState
  BY DEF Idle, Closed, CallState, SessionState
<1>8. \A c \in Callers : call[c] = Idle
  BY <1>1
<1>9. \A c \in Conns : session[c] = Closed /\ c \in Callers /\ call[c] = Idle
  BY <1>1, Parties
<1>10. CallsTyped /\ LoopTyped
  BY <1>1, <1>7, <1>8, <1>9, Parties DEF CallsTyped, LoopTyped, BackendTyped
<1>11. Typed
  BY <1>1, <1>2, <1>3, <1>6, <1>10 DEF Typed
<1>12. Len(entries) = 0 /\ OpsIn(entries) = {}
  BY <1>1 DEF OpsIn
<1>13. RulesInv
  <2>1. Counted(rules, entries)
    <3>1. \A id : MetIn(entries, Len(entries), id) = {}
      BY <1>12 DEF MetIn
    <3>2. Cardinality({}) = 0
      BY FS_EmptySet
    <3>3. \A p \in 1 .. Len(rules) : rules[p].matched = 0
      BY <1>4, <1>5
    <3> QED
      BY <3>1, <3>2, <3>3 DEF Counted
  <2> QED
    BY <1>7, <1>8, <1>12, <2>1 DEF RulesInv, AllArmed
<1>14. CapInv
  <2>1. DepthCaps = CapsOf(rules)
    BY <1>6, CapsAre DEF DepthCaps
  <2>2. ASSUME NEW cap \in CapsOf(rules)
        PROVE  /\ fresh + Cardinality(InFlight(cap)) <= (cap - 1) + Cardinality(Conns)
               /\ \A c \in Conns : call[c].at # "decided"
    <3>1. cap \in Int /\ cap > 0
      BY DEF CapsOf, CapRule, FailsWhenFull
    <3>2. InFlight(cap) = {}
      BY <1>7, <1>9 DEF InFlight
    <3>3. Cardinality(InFlight(cap)) = 0 /\ Cardinality(Conns) \in Nat
      BY <3>2, FS_EmptySet, Parties
    <3> QED
      BY <1>1, <1>7, <1>9, <3>1, <3>3
  <2> QED
    BY <2>1, <2>2 DEF CapInv
<1>15. RoomInv
  <2>1. Busy = {} /\ Decoded = {}
    BY <1>7, <1>8, <1>9 DEF Busy, Decoded
  <2>2. Cardinality(Busy) = 0 /\ Cardinality(Decoded) = 0
    BY <2>1, FS_EmptySet
  <2> QED
    BY <1>1, <2>2, Parties, Sizes DEF RoomInv
<1>16. LogTellsWhatRan
  <2>1. ASSUME NEW kind \in Kinds
        PROVE  Cardinality(RunsIn(entries, kind)) = ran[kind] + Cardinality(Pending(kind))
    <3>1. RunsIn(entries, kind) = {} /\ Pending(kind) = {}
      BY <1>7, <1>9, <1>12 DEF RunsIn, Pending
    <3>2. Cardinality(RunsIn(entries, kind)) = 0 /\ Cardinality(Pending(kind)) = 0
      BY <3>1, FS_EmptySet
    <3>3. ran[kind] = 0
      BY <1>1
    <3> QED
      BY <3>2, <3>3
  <2> QED
    BY <2>1, TellsIs DEF Tells
<1> QED
  BY <1>11, <1>13, <1>14, <1>15, <1>16 DEF LoopInv

LEMMA LoopInvStep ==
  ASSUME LoopInv, [Next]_allVars
  PROVE  LoopInv'
<1>1. Typed /\ RulesInv /\ CapInv /\ RoomInv /\ LogTellsWhatRan
  BY DEF LoopInv
<1>2. Typed' /\ RulesInv' /\ Effect
  BY <1>1, StepEffect
<1>3. CapInv' /\ RoomInv' /\ LogTellsWhatRan'
  BY <1>1, <1>2, CapStep, RoomStep, TellsStep
<1> QED
  BY <1>2, <1>3 DEF LoopInv

(***************************************************************************)
(* Whatever connections, operators and rules come and go at once, the      *)
(* inductive invariant holds: the counters of every armed rule are what    *)
(* the log and the decision under way make of them.                        *)
(***************************************************************************)
THEOREM LoopInvariant == Spec => []LoopInv
<1>1. LoopInit => LoopInv
  BY LoopInvInit
<1>2. LoopInv /\ [Next]_allVars => LoopInv'
  BY LoopInvStep
<1> QED
  BY <1>1, <1>2, PTL DEF Spec

LEMMA Budget ==
  ASSUME Typed
  PROVE  WithinBudget
<1> SUFFICES ASSUME NEW i \in 1 .. Len(rules)
             PROVE  /\ rules[i].fired <= rules[i].matched
                    /\ rules[i].rule.times > 0 => rules[i].fired <= rules[i].rule.times
                    /\ rules[i].matched <= Threshold(rules[i].rule) => rules[i].fired = 0
  BY DEF WithinBudget
<1>1. /\ rules[i].matched \in Nat /\ rules[i].fired = Spent(rules[i].rule, rules[i].matched)
      /\ rules[i].rule \in Rule /\ Validate(rules[i].rule)
  BY ListIs DEF Typed
<1>2. Threshold(rules[i].rule) \in Nat /\ rules[i].rule.times \in Nat
  BY <1>1, RuleIs
<1> QED
  BY <1>1, <1>2 DEF Spent

LEMMA InvTypes ==
  ASSUME LoopInv
  PROVE  TypeOK
<1>1. Typed /\ RoomInv
  BY DEF LoopInv
<1>2. arms \in 0 .. MaxArms
  BY <1>1, Sizes DEF Typed
<1>3. \A i \in 1 .. Len(rules) : rules[i].id \in 1 .. arms /\ Validate(rules[i].rule)
  BY <1>1 DEF Typed, RuleList
<1>4. \A c \in Callers : /\ call[c].at \in {"idle", "deciding", "decided", "recording"}
                         /\ call[c].at = "deciding" <=> mutex = c
  BY <1>1, CallKinds DEF Typed, CallsTyped
<1>5. \A c \in Conns : session[c].at \in {"closed", "ready", "decoded", "asked"}
  BY <1>1, SessionKinds DEF Typed, LoopTyped
<1>6. next \in 1 .. (MaxRecords + 1 + Cardinality(Conns))
  <2>1. next \in Nat \ {0} /\ Cardinality(Busy) \in Nat /\ Cardinality(Decoded) \in Nat
    BY <1>1, Counting DEF Typed, LogTyped
  <2>2. MaxRecords \in Nat /\ Cardinality(Conns) \in Nat
    BY Sizes, Parties
  <2>3. next + Cardinality(Busy) + Cardinality(Decoded) <= MaxRecords + 1 + Cardinality(Conns)
    BY <1>1 DEF RoomInv
  <2> QED
    BY <2>1, <2>2, <2>3
<1>7. mutex \in Callers \cup {Nobody} /\ fresh \in 0 .. depth /\ held \in [Conns -> Nat]
  BY <1>1 DEF Typed, CallsTyped, LoopTyped, BackendTyped
<1> QED
  BY <1>2, <1>3, <1>4, <1>5, <1>6, <1>7 DEF TypeOK

(***************************************************************************)
(* interceptor.decide and armedRule.fire: with any number of connections   *)
(* and operators at once, and rules armed, removed and reset while they    *)
(* run, a rule fires on exactly the operations of the log that its numbers *)
(* say, spends no more than its budget, and only the caller that holds the *)
(* mutex decides.                                                          *)
(***************************************************************************)
THEOREM RulesAreHonoured == Spec => []RulesHonoured
<1>1. LoopInv => RulesHonoured
  <2> SUFFICES ASSUME LoopInv PROVE TypeOK /\ FaultsAsDeclared /\ WithinBudget
    BY DEF RulesHonoured
  <2>1. TypeOK
    BY InvTypes
  <2>2. FaultsAsDeclared
    BY LogReads DEF LoopInv, RulesInv
  <2>3. WithinBudget
    BY Budget DEF LoopInv
  <2> QED
    BY <2>1, <2>2, <2>3
<1> QED
  BY <1>1, LoopInvariant, PTL

(***************************************************************************)
(* emulator.step and oplog.Record: the entries without a fault on their    *)
(* outcome are the operations the backend ran or is about to run, kind by  *)
(* kind, and the synthetic ones an operator fires are never run.           *)
(***************************************************************************)
THEOREM LogIsTrue == Spec => []LogTellsWhatRan
<1>1. LoopInv => LogTellsWhatRan
  BY DEF LoopInv
<1> QED
  BY <1>1, LoopInvariant, PTL

(***************************************************************************)
(* The gauge a depth cap reads is taken when the operation is decoded, so  *)
(* publishers that read it together may all pass.  Whatever is pulled,     *)
(* settled, requeued or given back meanwhile, the messages of a queue that *)
(* were never handed out exceed a cap that is left alone by fewer than     *)
(* there are connections.                                                  *)
(***************************************************************************)
THEOREM OvershootIsBounded == Spec => []OvershootBounded
<1>1. LoopInv => OvershootBounded
  <2> SUFFICES ASSUME LoopInv, NEW cap \in DepthCaps PROVE fresh <= cap + Cardinality(Conns) - 1
    BY DEF OvershootBounded
  <2>1. Typed /\ CapInv
    BY DEF LoopInv
  <2>2. DepthCaps = CapsOf(rules)
    BY <2>1, CapsAre DEF Typed, DepthCaps
  <2>3. cap \in Int
    BY <2>2 DEF CapsOf
  <2>4. fresh + Cardinality(InFlight(cap)) <= (cap - 1) + Cardinality(Conns)
    BY <2>1 DEF CapInv
  <2>5. InFlight(cap) \subseteq Conns
    BY DEF InFlight
  <2>6. Cardinality(InFlight(cap)) \in Nat /\ Cardinality(Conns) \in Nat /\ fresh \in Nat
    BY <2>1, <2>5, Parties, Fewer DEF Typed, LoopTyped, BackendTyped
  <2> QED
    BY <2>3, <2>4, <2>6
<1> QED
  BY <1>1, LoopInvariant, PTL
=============================================================================
