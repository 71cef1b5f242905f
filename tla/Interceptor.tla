---------------------------- MODULE Interceptor -----------------------------
(***************************************************************************)
(* The control layer (internal/control): the armed rules, the decision each*)
(* operation gets, and the op log it is recorded in.                       *)
(*                                                                         *)
(* Before holds the interceptor's mutex while it walks the rules and until *)
(* it has recorded the operation.  AddRule, RemoveRule and ResetRules hold *)
(* it only while they change the rules, and record what they did after     *)
(* they have let go of it.                                                 *)
(***************************************************************************)
EXTENDS Integers, Sequences, FiniteSets

CONSTANTS
  Conns,       \* goroutines that serve a client
  Operators,   \* goroutines that serve the control plane
  Config,      \* the rules the lesson's config arms, in order
  Armable,     \* the rules an operator may try to arm
  Fireable,    \* the synthetic operations an operator may fire
  MaxArms,     \* bound: rules ever armed
  Limit,       \* the op log's capacity
  MaxRecords   \* bound: entries ever recorded

VARIABLES
  rules,       \* the armed rules in the order Before walks them
  arms,        \* how many rules have been armed
  mutex,       \* who holds the interceptor's mutex
  call,        \* where each caller is in its call
  entries, oldest, next, dropped   \* the op log

ruleVars == <<rules, arms>>
logVars == <<entries, oldest, next, dropped>>
vars == <<rules, arms, mutex, call, entries, oldest, next, dropped>>

Callers == Conns \cup Operators
Nobody == "nobody"
Wildcard == "*"

Actions == {"error", "delay", "drop_conn", "cap"}
Idle == [at |-> "idle"]

Log == INSTANCE OpLog WITH Payloads <- {}

---------------------------------------------------------------------------
(* Rules *)

Condition == [gauge : STRING, comparison : {"gte", "lte"}, bound : Int]
Rule == [match : [emulator : STRING, kind : STRING], action : STRING, after : Int,
         times : Int, limit : Int, ms : Int, when : SUBSET Condition]

(* A field that an action does not read must be absent, and the one it     *)
(* cannot do without must be positive.                                     *)
Validate(rule) ==
  /\ rule.after >= 0 /\ rule.times >= 0
  /\ rule.action \in Actions
  /\ rule.action = "cap" => rule.after = 0 /\ rule.times = 0
  /\ IF rule.action = "delay" THEN rule.ms > 0 ELSE rule.ms = 0
  /\ IF rule.action = "cap" THEN rule.limit > 0 ELSE rule.limit = 0

MatchName(pattern, op) ==
  /\ pattern.emulator \in {Wildcard, op.emulator}
  /\ pattern.kind \in {Wildcard, op.kind}

(* A gauge the backend does not report satisfies nothing. *)
Hold(when, gauges) ==
  \A condition \in when :
    /\ condition.gauge \in DOMAIN gauges
    /\ \/ condition.comparison = "gte" /\ gauges[condition.gauge] >= condition.bound
       \/ condition.comparison = "lte" /\ gauges[condition.gauge] <= condition.bound

ActsOn(rule, op) == MatchName(rule.match, op) /\ Hold(rule.when, op.gauges)

Threshold(rule) == IF rule.action = "cap" THEN rule.limit ELSE rule.after

(* The half of the verdict an action decides: the timing or the outcome. *)
Half(action) == IF action = "delay" THEN "timing" ELSE "outcome"

SlotTaken(verdict, action) ==
  IF Half(action) = "timing" THEN verdict.delay ELSE verdict.outcome # "none"

Untouched == [delay |-> FALSE, outcome |-> "none"]

Apply(verdict, rule) ==
  CASE rule.action = "delay" -> [verdict EXCEPT !.delay = TRUE]
    [] rule.action = "drop_conn" -> [verdict EXCEPT !.outcome = "drop"]
    [] OTHER -> [verdict EXCEPT !.outcome = "error"]

(* Whether a rule that acts on this operation fires on it, the operation   *)
(* counted.                                                                *)
Fires(armed) ==
  /\ armed.matched + 1 > Threshold(armed.rule)
  /\ armed.rule.times > 0 => armed.fired < armed.rule.times

Armed(rule, id) == [id |-> id, rule |-> rule, matched |-> 0, fired |-> 0]

(* New refuses the whole config if one of its rules is malformed. *)
ASSUME InterceptorAssumption ==
  /\ Config \in Seq(Rule) /\ Armable \subseteq Rule
  /\ \A i \in 1..Len(Config) : Validate(Config[i])
  /\ Len(Config) <= MaxArms
  /\ IsFiniteSet(Conns) /\ IsFiniteSet(Operators) /\ Conns \cap Operators = {}
  /\ Nobody \notin Callers
  /\ Limit \in Nat \ {0} /\ {MaxArms, MaxRecords} \subseteq Nat

Init ==
  /\ rules = [i \in 1..Len(Config) |-> Armed(Config[i], i)]
  /\ arms = Len(Config)
  /\ mutex = Nobody
  /\ call = [c \in Callers |-> Idle]
  /\ Log!LogInit

---------------------------------------------------------------------------
(* Log entries.  by, ids and gauges say more than the code writes: who is  *)
(* behind the entry, which rules fired on it out of which were armed, and  *)
(* what it was decided on.  The Fault string is the actions of ids.        *)

Ids(list) == [i \in 1..Len(list) |-> list[i].id]

OpEntry(it) ==
  [kind |-> "op", op |-> it.op, synthetic |-> it.synthetic,
   ids |-> it.ids, armed |-> rules, outcome |-> it.verdict.outcome]

MutationEntry(verb, ids) == [kind |-> verb, ids |-> ids]

(* Room for what every caller under way will still record. *)
Room == next + Cardinality({c \in Callers : call[c].at \in {"deciding", "recording"}}) <= MaxRecords

---------------------------------------------------------------------------
(* Mutants of the definitions below. *)
DecideStepSpendsFirst(c) ==
  LET it == call[c]
      armed == rules[it.i]
      counted == [armed EXCEPT !.matched = @ + 1]
  IN
  /\ it.at = "deciding" /\ it.i <= Len(rules)
  /\ \/ /\ ~ActsOn(armed.rule, it.op)
        /\ call' = [call EXCEPT ![c].i = @ + 1]
        /\ UNCHANGED rules
     \/ /\ ActsOn(armed.rule, it.op)
        /\ SlotTaken(it.verdict, armed.rule.action) \/ ~Fires(armed)
        /\ rules' = [rules EXCEPT ![it.i] = counted]
        /\ call' = [call EXCEPT ![c].i = @ + 1]
     \/ /\ ActsOn(armed.rule, it.op)
        /\ ~SlotTaken(it.verdict, armed.rule.action) /\ Fires(armed)
        /\ rules' = [rules EXCEPT ![it.i] = [counted EXCEPT !.fired = @ + 1]]
        /\ call' = [call EXCEPT ![c].i = @ + 1,
                                ![c].verdict = Apply(@, armed.rule),
                                ![c].ids = Append(@, armed.id)]
  /\ UNCHANGED <<arms, mutex, entries, oldest, next, dropped>>
DecideDoneUnlocked(c) ==
  LET it == call[c] IN
  /\ it.at = "deciding" /\ it.i > Len(rules)
  /\ \/ /\ mutex = c
        /\ mutex' = Nobody
        /\ UNCHANGED <<call, entries, oldest, next, dropped>>
     \/ /\ mutex # c
        /\ UNCHANGED mutex
        /\ Log!Record(OpEntry(it))
        /\ call' = [call EXCEPT ![c] =
             [at |-> "decided", op |-> it.op, verdict |-> it.verdict]]
  /\ UNCHANGED ruleVars
DecideDoneKeepsMutex(c) ==
  LET it == call[c] IN
  /\ it.at = "deciding" /\ it.i > Len(rules)
  /\ Log!Record(OpEntry(it))
  /\ call' = [call EXCEPT ![c] = [at |-> "decided", op |-> it.op, verdict |-> it.verdict]]
  /\ UNCHANGED <<rules, arms, mutex>>
---------------------------------------------------------------------------
(* Before and Fire *)

Before(c, op, synthetic) ==
  /\ call[c] = Idle
  /\ mutex = Nobody
  /\ mutex' = c
  /\ call' = [call EXCEPT ![c] =
       [at |-> "deciding", op |-> op, synthetic |-> synthetic, i |-> 1,
        verdict |-> Untouched, ids |-> <<>>]]
  /\ UNCHANGED <<rules, arms, entries, oldest, next, dropped>>

(* One turn of decide's loop.  A rule whose half of the verdict is taken,  *)
(* or that does not act on the operation, is passed over and counts        *)
(* nothing.                                                                *)
DecideStep(c) ==
  LET it == call[c]
      armed == rules[it.i]
      counted == [armed EXCEPT !.matched = @ + 1]
      concerned == ~SlotTaken(it.verdict, armed.rule.action) /\ ActsOn(armed.rule, it.op)
  IN
  /\ it.at = "deciding" /\ it.i <= Len(rules)
  /\ \/ /\ ~concerned
        /\ call' = [call EXCEPT ![c].i = @ + 1]
        /\ UNCHANGED rules
     \/ /\ concerned /\ ~Fires(armed)
        /\ rules' = [rules EXCEPT ![it.i] = counted]
        /\ call' = [call EXCEPT ![c].i = @ + 1]
     \/ /\ concerned /\ Fires(armed)
        /\ rules' = [rules EXCEPT ![it.i] = [counted EXCEPT !.fired = @ + 1]]
        /\ call' = [call EXCEPT ![c].i = @ + 1,
                                ![c].verdict = Apply(@, armed.rule),
                                ![c].ids = Append(@, armed.id)]
  /\ UNCHANGED <<arms, mutex, entries, oldest, next, dropped>>

DecideDone(c) ==
  LET it == call[c] IN
  /\ it.at = "deciding" /\ it.i > Len(rules)
  /\ Log!Record(OpEntry(it))
  /\ mutex' = Nobody
  /\ call' = [call EXCEPT ![c] = [at |-> "decided", op |-> it.op, verdict |-> it.verdict]]
  /\ UNCHANGED ruleVars

---------------------------------------------------------------------------
(* What the control plane changes *)

Recording(entry) == [at |-> "recording", entry |-> entry]

AddRule(c, rule) ==
  /\ call[c] = Idle
  /\ Validate(rule)
  /\ mutex = Nobody
  /\ arms < MaxArms
  /\ arms' = arms + 1
  /\ rules' = Append(rules, Armed(rule, arms'))
  /\ call' = [call EXCEPT ![c] = Recording(MutationEntry("add", <<arms'>>))]
  /\ UNCHANGED <<mutex, entries, oldest, next, dropped>>

(* index counts from 1 here; one that is out of range changes nothing. *)
RemoveRule(c, index) ==
  /\ call[c] = Idle
  /\ mutex = Nobody
  /\ index \in 1..Len(rules)
  /\ rules' = SubSeq(rules, 1, index - 1) \o SubSeq(rules, index + 1, Len(rules))
  /\ call' = [call EXCEPT ![c] = Recording(MutationEntry("remove", <<rules[index].id>>))]
  /\ UNCHANGED <<arms, mutex, entries, oldest, next, dropped>>

ResetRules(c) ==
  /\ call[c] = Idle
  /\ mutex = Nobody
  /\ rules' = <<>>
  /\ call' = [call EXCEPT ![c] = Recording(MutationEntry("reset", Ids(rules)))]
  /\ UNCHANGED <<arms, mutex, entries, oldest, next, dropped>>

RecordMutation(c) ==
  /\ call[c].at = "recording"
  /\ Log!Record(call[c].entry)
  /\ call' = [call EXCEPT ![c] = Idle]
  /\ UNCHANGED <<rules, arms, mutex>>

(* The operator has its verdict; nothing is executed. *)
FireDone(c) ==
  /\ c \in Operators /\ call[c].at = "decided"
  /\ call' = [call EXCEPT ![c] = Idle]
  /\ UNCHANGED <<rules, arms, mutex, entries, oldest, next, dropped>>

Decide(c) == DecideStep(c) \/ DecideDone(c)

Operate(c) ==
  \/ Room /\ \E rule \in Armable : AddRule(c, rule)
  \/ Room /\ \E index \in 1..Len(rules) : RemoveRule(c, index)
  \/ Room /\ ResetRules(c)
  \/ Room /\ \E op \in Fireable : Before(c, op, TRUE)
  \/ RecordMutation(c)
  \/ FireDone(c)

---------------------------------------------------------------------------
(* What the log says *)

OpsLogged == {k \in 1..Len(entries) : entries[k].what.kind = "op"}
IdsOf(it) == {it.ids[k] : k \in 1..Len(it.ids)}

(* Whether the rule at a place of a list acts on an operation, and no rule *)
(* before it that fired had decided its half of the verdict.               *)
Concerned(list, place, op, fired) ==
  /\ ActsOn(list[place].rule, op)
  /\ \A i \in 1..(place - 1) :
       Half(list[i].rule.action) = Half(list[place].rule.action) => list[i].id \notin fired

(* The entries, up to the k-th, that rule id was there for and concerned by. *)
Occurrences(k, id) ==
  {j \in OpsLogged :
     LET entry == entries[j].what IN
     /\ j <= k
     /\ \E place \in 1..Len(entry.armed) :
          /\ entry.armed[place].id = id
          /\ Concerned(entry.armed, place, entry.op, IdsOf(entry))}

(***************************************************************************)
(* "fail the third commit means one thing": a rule fires on exactly the    *)
(* entries its numbers say, counted in the order of the log whoever sent   *)
(* the operations: past its threshold, at most times of them, and never on *)
(* one that an earlier rule had already decided (interceptor.decide,       *)
(* armedRule.fire, and before's "counting and log ordinals advance         *)
(* together").                                                             *)
(***************************************************************************)
FaultsAsDeclared ==
  dropped = 0 =>
    \A k \in OpsLogged :
      LET entry == entries[k].what IN
      \A place \in 1..Len(entry.armed) :
        LET id == entry.armed[place].id
            rule == entry.armed[place].rule
            seen == Cardinality(Occurrences(k, id))
        IN (id \in IdsOf(entry)) <=>
             /\ k \in Occurrences(k, id)
             /\ seen > Threshold(rule)
             /\ rule.times > 0 => seen <= Threshold(rule) + rule.times

(* A rule that has fired within its budget: the counters themselves. *)
WithinBudget ==
  \A i \in 1..Len(rules) :
    LET armed == rules[i] IN
    /\ armed.fired <= armed.matched
    /\ armed.rule.times > 0 => armed.fired <= armed.rule.times
    /\ armed.matched <= Threshold(armed.rule) => armed.fired = 0

(***************************************************************************)
(* "The op log records control-plane mutations.  A run that was driven live*)
(* is identifiable afterwards instead of indistinguishable from one that   *)
(* was not" (README): as long as nothing was dropped, a log that shows the *)
(* fault of a rule armed live also shows the rule being armed.             *)
(***************************************************************************)
LiveRulesShow ==
  dropped = 0 =>
    \A k \in 1..Len(entries) :
      entries[k].what.kind = "op" =>
        \A id \in IdsOf(entries[k].what) : id > Len(Config) =>
          \E j \in 1..(k - 1) :
            entries[j].what.kind = "add" /\ entries[j].what.ids = <<id>>

(***************************************************************************)
(* "lets Limit operations through and fails every one after that"          *)
(* (ActionCap): when a cap fails an operation, as many of those it matches *)
(* as its limit have gone through untouched.                               *)
(***************************************************************************)
CapLetsLimitThrough ==
  dropped = 0 =>
    \A k \in OpsLogged :
      LET entry == entries[k].what IN
      \A place \in 1..Len(entry.armed) :
        LET rule == entry.armed[place].rule IN
        rule.action = "cap" /\ entry.armed[place].id \in IdsOf(entry) =>
          rule.limit <= Cardinality(
            {j \in OpsLogged : /\ j <= k /\ entries[j].what.outcome = "none"
                               /\ ActsOn(rule, entries[j].what.op)})
=============================================================================
