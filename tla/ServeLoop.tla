----------------------------- MODULE ServeLoop ------------------------------
(***************************************************************************)
(* The loop every emulator runs for a connection (internal/emulator): read *)
(* an operation, ask the interceptor, carry out its verdict.               *)
(*                                                                         *)
(* The gauges a rule's `when` clause reads are taken when the session      *)
(* decodes the operation, before it asks for a verdict and long before the *)
(* backend runs it.  The backend is one queue that clients pull from and   *)
(* that nobody purges: the messages it holds, and the deliveries that are  *)
(* out.  What a nack or the end of a connection returns goes to its head   *)
(* (requeue), so the messages never handed out are the ones at its end.    *)
(***************************************************************************)
EXTENDS Interceptor

CONSTANTS Kinds   \* the operations clients send: "publish", "get", "ack", "nack"

VARIABLES
  session,   \* connection -> closed, ready, or the operation it has decoded
  depth,     \* how many messages the queue holds
  fresh,     \* how many of them have never been handed out
  held,      \* connection -> the deliveries it has not settled
  ran        \* kind -> how many operations the backend has run

backend == <<depth, fresh, held, ran>>
loopVars == <<session, backend>>
allVars == <<vars, loopVars>>

Closed == [at |-> "closed"]
Ready == [at |-> "ready"]

LoopInit ==
  /\ Init
  /\ session = [c \in Conns |-> Closed]
  /\ depth = 0 /\ fresh = 0
  /\ held = [c \in Conns |-> 0]
  /\ ran = [kind \in Kinds |-> 0]

---------------------------------------------------------------------------
\* exec: one message at the end of the queue.
Enqueue == depth' = depth + 1 /\ fresh' = fresh + 1 /\ held' = held

\* get: the message at the head, held unless the client asked for no_ack.
Pull(c) ==
  IF depth = 0
  THEN UNCHANGED <<depth, fresh, held>>
  ELSE /\ depth' = depth - 1
       /\ fresh' = IF fresh = depth THEN fresh - 1 ELSE fresh
       /\ held' \in {held, [held EXCEPT ![c] = @ + 1]}

\* settle: any number of the deliveries held, none when the tag is unknown; only
\* a requeueing nack returns them.
Settle(c, kind) ==
  \E k \in 0..held[c] :
    /\ held' = [held EXCEPT ![c] = @ - k]
    /\ \/ depth' = depth
       \/ kind = "nack" /\ depth' = depth + k
    /\ fresh' = fresh

RunOp(c, kind) ==
  /\ ran' = [ran EXCEPT ![kind] = @ + 1]
  /\ \/ kind = "publish" /\ Enqueue
     \/ kind = "get" /\ Pull(c)
     \/ kind \in {"ack", "nack"} /\ Settle(c, kind)

\* executor.Close: all that the connection holds goes back.
GiveBack(c) ==
  /\ depth' = depth + held[c]
  /\ held' = [held EXCEPT ![c] = 0]
  /\ UNCHANGED <<fresh, ran>>

---------------------------------------------------------------------------
(* Mutants of the definitions below. *)
StepRunsDropped(c) ==
  LET it == call[c] IN
  /\ it.at = "decided"
  /\ call' = [call EXCEPT ![c] = Idle]
  /\ IF it.verdict.outcome = "error"
     THEN UNCHANGED backend
     ELSE RunOp(c, it.op.kind)
  /\ session' \in {[session EXCEPT ![c] = Ready], [session EXCEPT ![c] = Closed]}
  /\ UNCHANGED <<rules, arms, mutex, entries, oldest, next, dropped>>
DecodeStale(c) ==
  /\ session[c] = Ready
  /\ Room
  /\ \E kind \in Kinds :
       session' = [session EXCEPT ![c] =
         [at |-> "decoded",
          op |-> [emulator |-> "queue", kind |-> kind, gauges |-> [depth |-> 0]]]]
  /\ UNCHANGED <<vars, backend>>
---------------------------------------------------------------------------

(* handle opens an executor and accepts the connection. *)
Handle(c) ==
  /\ session[c] = Closed
  /\ session' = [session EXCEPT ![c] = Ready]
  /\ UNCHANGED <<vars, backend>>

(* session.Next: the operation comes with the gauges of that moment. *)
Decode(c) ==
  /\ session[c] = Ready
  /\ Room
  /\ \E kind \in Kinds :
       session' = [session EXCEPT ![c] =
         [at |-> "decoded",
          op |-> [emulator |-> "queue", kind |-> kind, gauges |-> [depth |-> depth]]]]
  /\ UNCHANGED <<vars, backend>>

(* session.Next fails, or the answer before it could not be written: the *)
(* client is gone, and the executor is closed.                           *)
Hangup(c) ==
  /\ session[c] = Ready
  /\ session' = [session EXCEPT ![c] = Closed]
  /\ GiveBack(c)
  /\ UNCHANGED vars

Ask(c) ==
  /\ session[c].at = "decoded"
  /\ Before(c, session[c].op, FALSE)
  /\ session' = [session EXCEPT ![c] = [at |-> "asked"]]
  /\ UNCHANGED backend

(***************************************************************************)
(* step: a dropped connection gets no answer and what it held goes back, a *)
(* failed operation is aborted and never run, anything else is run.  A     *)
(* delay only says that this comes later.                                  *)
(***************************************************************************)
Step(c) ==
  LET it == call[c] IN
  /\ it.at = "decided"
  /\ call' = [call EXCEPT ![c] = Idle]
  /\ \/ /\ it.verdict.outcome = "drop"
        /\ GiveBack(c)
        /\ session' = [session EXCEPT ![c] = Closed]
     \/ /\ \/ it.verdict.outcome = "error" /\ UNCHANGED backend
           \/ it.verdict.outcome = "none" /\ RunOp(c, it.op.kind)
        /\ session' = [session EXCEPT ![c] = Ready]
  /\ UNCHANGED <<rules, arms, mutex, entries, oldest, next, dropped>>

Serve(c) ==
  \/ Handle(c) \/ Decode(c) \/ Hangup(c) \/ Ask(c) \/ Step(c)

Next ==
  \/ \E c \in Conns : Serve(c)
  \/ \E c \in Callers : Decide(c) /\ UNCHANGED loopVars
  \/ \E c \in Operators : Operate(c) /\ UNCHANGED loopVars

Spec == LoopInit /\ [][Next]_allVars

(***************************************************************************)
(* A goroutine that can run does; one that waits for the mutex gets it, as *)
(* Go's mutex hands over to a waiter that has been waiting for long.       *)
(***************************************************************************)
FairSpec ==
  /\ Spec
  /\ \A c \in Callers : WF_allVars(Decide(c) /\ UNCHANGED loopVars)
  /\ \A c \in Conns : SF_allVars(Ask(c)) /\ WF_allVars(Step(c))

---------------------------------------------------------------------------

(* Every variable has its type. *)
TypeOK ==
  /\ arms \in 0..MaxArms
  /\ \A i \in 1..Len(rules) : rules[i].id \in 1..arms /\ Validate(rules[i].rule)
  /\ mutex \in Callers \cup {Nobody}
  /\ \A c \in Callers :
       /\ call[c].at \in {"idle", "deciding", "decided", "recording"}
       /\ call[c].at = "deciding" <=> mutex = c
  /\ \A c \in Conns : session[c].at \in {"closed", "ready", "decoded", "asked"}
  /\ next \in 1..(MaxRecords + 1 + Cardinality(Conns))
  /\ fresh \in 0..depth /\ held \in [Conns -> Nat]

(***************************************************************************)
(* "The log is the graded artifact": the entries without a fault on their  *)
(* outcome are the operations the backend ran, and those it is about to    *)
(* run.  Synthetic ones are never run.                                     *)
(***************************************************************************)
LogTellsWhatRan ==
  dropped = 0 =>
    \A kind \in Kinds :
      Cardinality({k \in 1..Len(entries) :
        LET it == entries[k].what IN
        it.kind = "op" /\ ~it.synthetic /\ it.outcome = "none" /\ it.op.kind = kind})
      = ran[kind] + Cardinality({c \in Conns :
          call[c].at = "decided" /\ call[c].op.kind = kind /\ call[c].verdict.outcome = "none"})

(* decide, fire: whatever connections and operators do at once, the faults *)
(* in the log are the ones its rules declare, no rule spends more than its *)
(* budget, and only the caller that holds the mutex decides.               *)
RulesHonoured == TypeOK /\ FaultsAsDeclared /\ WithinBudget

(* The depths at which a rule that the config armed, and nobody has        *)
(* disarmed since, fails every publish: it has no other condition.         *)
FailsWhenFull(rule) ==
  /\ rule.action = "error" /\ rule.after = 0 /\ rule.times = 0
  /\ MatchName(rule.match, [emulator |-> "queue", kind |-> "publish"])
  /\ \A a \in rule.when : a.gauge = "depth" /\ a.comparison = "gte" /\ a.bound > 0
  /\ \A a, b \in rule.when : a = b

DepthCaps ==
  {condition.bound : condition \in
     UNION {rules[i].rule.when : i \in
       {j \in 1..Len(rules) : rules[j].id <= Len(Config) /\ FailsWhenFull(rules[j].rule)}}}

(***************************************************************************)
(* A depth cap that is left alone: the gauge is read early, so publishing  *)
(* can pass the cap, but by no more than the publishers that read it       *)
(* together, whatever other rules come and go meanwhile, and whatever is   *)
(* returned.  It is the messages never handed out that are bounded: what a *)
(* nack or the end of a connection puts back meets no rule at all, so the  *)
(* depth itself can be passed by any number.                               *)
(***************************************************************************)
OvershootBounded ==
  \A cap \in DepthCaps : fresh <= cap + Cardinality(Conns) - 1

(* "and the queue holds exactly a hundred messages" (README, of a depth_gte*)
(* rule of a hundred): the queue is never deeper than its cap.             *)
DepthCapHolds == \A cap \in DepthCaps : depth <= cap

(* Every operation a session has decoded is answered, or its connection    *)
(* closed: nobody waits for ever behind the interceptor's mutex.           *)
EveryOpAnswered ==
  \A c \in Conns : session[c].at = "decoded" ~> session[c].at \in {"ready", "closed"}
=============================================================================
