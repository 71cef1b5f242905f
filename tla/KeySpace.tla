------------------------------ MODULE KeySpace ------------------------------
(***************************************************************************)
(* The emulated Redis: the key space (internal/kv) and one RESP connection *)
(* (internal/resp) that pipelines commands at it.                          *)
(*                                                                         *)
(* A command runs under the backend's mutex, so it is one action; the      *)
(* other connections are therefore just their commands (Other).  Nothing   *)
(* watches the clock: a key whose time has come stays in the map until a   *)
(* command passes it (At), and the refinement of Cache says nobody can     *)
(* tell.  A counter wraps like the machine integer it is (Wrap).           *)
(*                                                                         *)
(* A value is a number, some other text, a list, a hash (its fields) or a  *)
(* set; time is in whole seconds.                                          *)
(***************************************************************************)
EXTENDS Integers, Sequences, FiniteSets

CONSTANTS
  Key,        \* the keys clients name
  Db,         \* the numbered databases
  Item,       \* what lists, hashes and sets hold
  HighestInt, \* the largest number of the integer width modelled
  Seeds,      \* what a lesson may put under a key of database 0
  Script,     \* the commands the pipelining client chooses from
  MaxLength,  \* bound: items in a list
  MaxTime,    \* bound: the last instant
  MaxCommands \* bound: commands, of the pipelining client and all others

ASSUME KeySpaceAssumption ==
  /\ {HighestInt, MaxLength, MaxTime, MaxCommands} \subseteq Nat /\ HighestInt > 0
  /\ 0 \in Db /\ IsFiniteSet(Key) /\ IsFiniteSet(Item)

VARIABLES
  now,      \* the clock
  spaces,   \* database -> key -> its entry, or Absent
  said,     \* the last answer of the key space
  up,       \* the process has not panicked
  seeded,   \* what the lesson put under each key of database 0
  others,   \* how many commands the other connections have run
  inbox,    \* commands on the pipelining client's socket
  sent,     \* how many it has sent
  session,  \* that connection's session
  answers,  \* the numbers of the commands answered on it, in order
  ran       \* the numbers of those that reached the key space

kvVars == <<now, spaces, said, up, seeded>>
respVars == <<others, inbox, sent, session, answers, ran>>
vars == <<kvVars, respVars>>

Lowest == -HighestInt - 1
Number == Lowest .. HighestInt
Absent == [is |-> <<"none", 0>>, dies |-> 0]
Text == {<<"number", n>> : n \in Number} \cup {<<"text", 0>>}
Kind(e) == IF e.is[1] \in {"number", "text"} THEN "string" ELSE e.is[1]
Later == now + 1 .. MaxTime

\* The kinds of value a lesson can seed, none of them with a deadline.
Seedable ==
  {Absent.is} \cup Text \cup ({"list"} \X Seq(Item)) \cup ({"hash"} \X SUBSET Item)
ASSUME SeedsAssumption == Seeds \subseteq [is : Seedable, dies : {0}]

----------------------------------------------------------------------------
(* Mutants, one slip of the code each. *)

AtLate(db, k) ==
  IF spaces[db][k].dies # 0 /\ now > spaces[db][k].dies THEN Absent ELSE spaces[db][k]
PruneNothing(e) == e
DeferForgets(s, cmd) == [s EXCEPT !.greeted = TRUE]

----------------------------------------------------------------------------
(* space *)

\* at: what the key holds now.  Whoever looks puts the outcome back, which is
\* how an entry past its time leaves the map.
At(db, k) ==
  IF spaces[db][k].dies # 0 /\ now >= spaces[db][k].dies THEN Absent ELSE spaces[db][k]

Put(db, k, e, answer) ==
  /\ spaces' = [spaces EXCEPT ![db][k] = e] /\ said' = answer
  /\ UNCHANGED <<now, up, seeded>>

\* of and mutable: a key of another kind is refused.
Fits(e, want) == e = Absent \/ Kind(e) = want
WrongType(db, k, want) ==
  /\ ~Fits(At(db, k), want) /\ Put(db, k, At(db, k), <<"error">>)

\* prune: a collection without items is a key that is not there.
Empty(e) == e.is \in {<<"list", <<>>>>, <<"hash", {}>>, <<"set", {}>>}
Prune(e) == IF Empty(e) THEN Absent ELSE e

\* A command that is refused for its arguments looks at nothing.
Refused(answer) == said' = answer /\ UNCHANGED <<now, spaces, up, seeded>>

----------------------------------------------------------------------------
(* strings *)

Get(db, k) ==
  \/ WrongType(db, k, "string")
  \/ LET e == At(db, k)
     IN Fits(e, "string") /\ Put(db, k, e, IF e = Absent THEN <<"nil">> ELSE e.is)

\* mget: a key of another kind is a miss; one of the answers is shown.
MGet(db, k) ==
  LET e == At(db, k)
  IN Put(db, k, e, IF Kind(e) = "string" THEN e.is ELSE <<"nil">>)

Set(db, k, v, o) ==
  \/ /\ o.nx /\ o.xx /\ Refused(<<"error">>)
  \/ /\ ~(o.nx /\ o.xx)
     /\ LET e == At(db, k)
        IN IF (o.nx /\ e # Absent) \/ (o.xx /\ e = Absent) THEN Put(db, k, e, <<"nil">>)
           ELSE Put(db, k, [is |-> v,
                            dies |-> IF o.dies # 0 THEN o.dies
                                     ELSE IF o.keep THEN e.dies ELSE 0], <<"ok">>)

SetEx(db, k, v) ==
  \/ Refused(<<"error">>)
  \/ \E dies \in Later : Put(db, k, [is |-> v, dies |-> dies], <<"ok">>)

GetSet(db, k, v) ==
  \/ WrongType(db, k, "string")
  \/ LET e == At(db, k)
     IN /\ Fits(e, "string")
        /\ Put(db, k, [is |-> v, dies |-> 0], IF e = Absent THEN <<"nil">> ELSE e.is)

MSet(db, Named, v) ==
  /\ spaces' = [spaces EXCEPT ![db] =
                  [k \in Key |-> IF k \in Named THEN [is |-> v, dies |-> 0] ELSE @[k]]]
  /\ said' = <<"ok">> /\ UNCHANGED <<now, up, seeded>>

AppendTo(db, k) ==
  \/ WrongType(db, k, "string")
  \/ LET e == At(db, k)
     IN Fits(e, "string") /\ Put(db, k, [e EXCEPT !.is = <<"text", 0>>], <<"length">>)

\* The sum of two integers of the width, and the test that it wrapped.
Wrap(n) == ((n - Lowest) % (2 * (HighestInt + 1))) + Lowest
Wrapped(total, current, step) ==
  (step > 0 /\ total < current) \/ (step < 0 /\ total > current)

Increment(db, k, step) ==
  \/ WrongType(db, k, "string")
  \/ /\ At(db, k).is = <<"text", 0>> /\ Put(db, k, At(db, k), <<"error">>)
  \/ LET e == At(db, k)
         current == e.is[2]
         total == Wrap(current + step)
     IN /\ e.is[1] \in {"none", "number"}
        /\ IF Wrapped(total, current, step) THEN Put(db, k, e, <<"error">>)
           ELSE Put(db, k, [e EXCEPT !.is = <<"number", total>>], <<"sum", current, step>>)

\* DECRBY turns its argument round, which the lowest number does not survive.
DecrementBy(db, k, step) ==
  IF step = Lowest THEN Refused(<<"error">>) ELSE Increment(db, k, Wrap(-step))

----------------------------------------------------------------------------
(* keys *)

Live(db, Named) == {k \in Named : At(db, k) # Absent}

\* A command on several keys reads the clock for each of them: one in its last
\* second may be gone by the time it has its turn.
Ending(db, Named) == {k \in Named : spaces[db][k].dies = now + 1}
Counts(db, Named) == {Cardinality(Live(db, Named \ late)) : late \in SUBSET Ending(db, Named)}

Del(db, Named) ==
  /\ spaces' = [spaces EXCEPT ![db] = [k \in Key |-> IF k \in Named THEN Absent ELSE @[k]]]
  /\ said' \in {<<"number", n>> : n \in Counts(db, Named)}
  /\ UNCHANGED <<now, up, seeded>>

\* exists: a key counts as often as it is named.
Exists(db, k, times) ==
  \E n \in IF At(db, k) = Absent THEN {0}
           ELSE IF Ending(db, {k}) = {} THEN {times} ELSE 0 .. times :
    Put(db, k, At(db, k), <<"number", n>>)

\* expire: nothing to do for no key, gone at once for no time, and a deadline
\* otherwise, unless it is further off than the clock can say.
Expire(db, k) ==
  LET e == At(db, k)
  IN \/ Refused(<<"error">>)
     \/ e = Absent /\ Put(db, k, e, <<"number", 0>>)
     \/ e # Absent /\ Put(db, k, Absent, <<"number", 1>>)
     \/ e # Absent /\ Put(db, k, e, <<"error">>)
     \/ e # Absent /\ \E dies \in Later : Put(db, k, [e EXCEPT !.dies = dies], <<"number", 1>>)

\* ttl reads the clock twice: a second may pass in between.
Ttl(db, k) ==
  LET e == At(db, k)
  IN \E passed \in {0, 1} :
       Put(db, k, e, <<"ttl", CASE e = Absent -> -2
                                [] e # Absent /\ e.dies = 0 -> -1
                                [] OTHER -> e.dies - now - passed>>)

TypeOf(db, k) == Put(db, k, At(db, k), <<"type", Kind(At(db, k))>>)

\* live, for KEYS, SCAN, DBSIZE and INFO: every key is looked at.
Keys(db) ==
  /\ spaces' = [spaces EXCEPT ![db] = [k \in Key |-> At(db, k)]]
  /\ said' \in {<<"number", n>> : n \in Counts(db, Key)}
  /\ UNCHANGED <<now, up, seeded>>

FlushDb(db) ==
  /\ spaces' = [spaces EXCEPT ![db] = [k \in Key |-> Absent]] /\ said' = <<"ok">>
  /\ UNCHANGED <<now, up, seeded>>

----------------------------------------------------------------------------
(* lists, hashes and sets *)

Push(db, k, x, front) ==
  \/ WrongType(db, k, "list")
  \/ LET e == At(db, k)
         old == IF e = Absent THEN <<>> ELSE e.is[2]
     IN /\ Fits(e, "list") /\ Len(old) < MaxLength
        /\ Put(db, k, [e EXCEPT !.is = <<"list", IF front THEN <<x>> \o old ELSE Append(old, x)>>],
               <<"number", Len(old) + 1>>)

\* pop takes an item without looking whether there is one.
Pop(db, k, front) ==
  \/ WrongType(db, k, "list")
  \/ At(db, k) = Absent /\ Put(db, k, Absent, <<"nil">>)
  \/ LET e == At(db, k)
         old == e.is[2]
     IN /\ Kind(e) = "list"
        /\ IF old = <<>>
           THEN up' = FALSE /\ UNCHANGED <<now, spaces, said, seeded>>
           ELSE LET new == IF front THEN Tail(old) ELSE SubSeq(old, 1, Len(old) - 1)
                IN Put(db, k, Prune([e EXCEPT !.is = <<"list", new>>]),
                       <<"item", IF front THEN Head(old) ELSE old[Len(old)]>>)

\* hset and sadd: the answer counts what was not there.
AddTo(db, k, kind, New) ==
  \/ WrongType(db, k, kind)
  \/ LET e == At(db, k)
         old == IF e = Absent THEN {} ELSE e.is[2]
     IN /\ Fits(e, kind)
        /\ Put(db, k, [e EXCEPT !.is = <<kind, old \cup New>>], <<"number", Cardinality(New \ old)>>)
HSet(db, k, New) == AddTo(db, k, "hash", New)
SAdd(db, k, New) == AddTo(db, k, "set", New)

\* hdel and srem: the answer counts what was.
TakeFrom(db, k, kind, Named) ==
  \/ WrongType(db, k, kind)
  \/ At(db, k) = Absent /\ Put(db, k, Absent, <<"number", 0>>)
  \/ LET e == At(db, k)
         old == e.is[2]
     IN /\ Kind(e) = kind
        /\ Put(db, k, Prune([e EXCEPT !.is = <<kind, old \ Named>>]),
               <<"number", Cardinality(old \cap Named)>>)
HDel(db, k, Named) == TakeFrom(db, k, "hash", Named)
SRem(db, k, Named) == TakeFrom(db, k, "set", Named)

\* What reads a collection: absent is empty, and the answer is what it holds.
ReadAll(db, k, kind) ==
  \/ WrongType(db, k, kind)
  \/ LET e == At(db, k)
     IN Fits(e, kind) /\ Put(db, k, e, IF e = Absent THEN <<"nil">> ELSE e.is)
HGetAll(db, k) == ReadAll(db, k, "hash")
LRange(db, k) == ReadAll(db, k, "list")
SMembers(db, k) == ReadAll(db, k, "set")

----------------------------------------------------------------------------
(* Any command of any other connection, in database 0.                      *)

\* The words of a SET come in any combination.
Options == [nx : BOOLEAN, xx : BOOLEAN, keep : BOOLEAN, dies : {0} \cup Later]

Command(db) ==
  \/ Keys(db) \/ FlushDb(db)
  \/ \E Named \in (SUBSET Key) \ {{}} : Del(db, Named) \/ \E v \in Text : MSet(db, Named, v)
  \/ \E k \in Key :
       \/ Get(db, k) \/ MGet(db, k) \/ AppendTo(db, k) \/ Expire(db, k) \/ Ttl(db, k)
       \/ TypeOf(db, k) \/ HGetAll(db, k) \/ LRange(db, k) \/ SMembers(db, k)
       \/ \E v \in Text : SetEx(db, k, v) \/ GetSet(db, k, v)
       \/ \E v \in Text, o \in Options : Set(db, k, v, o)
       \/ \E step \in Number : Increment(db, k, step) \/ DecrementBy(db, k, step)
       \/ \E times \in {1, 2} : Exists(db, k, times)
       \/ \E front \in BOOLEAN : Pop(db, k, front) \/ \E x \in Item : Push(db, k, x, front)
       \/ \E Some \in (SUBSET Item) \ {{}} :
            HSet(db, k, Some) \/ SAdd(db, k, Some) \/ HDel(db, k, Some) \/ SRem(db, k, Some)

Other ==
  /\ up /\ others + sent < MaxCommands /\ others' = others + 1
  /\ Command(0)
  /\ UNCHANGED <<inbox, sent, session, answers, ran>>

Tick ==
  /\ up /\ now < MaxTime /\ now' = now + 1
  /\ UNCHANGED <<spaces, said, up, seeded, respVars>>

----------------------------------------------------------------------------
(* The pipelining client and its session.  A command carries its number.    *)

NoCmd == [verb |-> "none", n |-> 0]
Connect == [verb |-> "CONNECT", n |-> 0]
Driver == {"HELLO", "CLIENT", "COMMAND", "QUIT"}

Send(verb) ==
  /\ up /\ others + sent < MaxCommands /\ session.phase # "over"
  /\ sent' = sent + 1 /\ inbox' = Append(inbox, [verb |-> verb, n |-> sent + 1])
  /\ UNCHANGED <<kvVars, others, session, answers, ran>>

\* Mutants of nextFrame and of answerDriver.
ReadingTheSocketFirst ==
  /\ up /\ session.phase = "next" /\ inbox # <<>>
  /\ inbox' = IF session.deferred # NoCmd THEN inbox ELSE Tail(inbox)
  /\ UNCHANGED <<kvVars, others, sent, ran>>

\* nextFrame: the command that announced the connection, or the next one off
\* the socket.
Frame == IF session.deferred # NoCmd THEN session.deferred ELSE Head(inbox)
Reading ==
  /\ up /\ session.phase = "next"
  /\ session.deferred # NoCmd \/ inbox # <<>>
  /\ inbox' = IF session.deferred # NoCmd THEN inbox ELSE Tail(inbox)
  /\ UNCHANGED <<kvVars, others, sent, ran>>
Answer(n) == answers' = Append(answers, n)

\* A frame with no words in it, and one whose boundary is lost.
ReadEmpty ==
  /\ Reading /\ Frame.verb = "EMPTY"
  /\ session' = [session EXCEPT !.skipped = @ \cup {Frame.n}] /\ UNCHANGED answers

ReadBroken ==
  /\ Reading /\ Frame.verb = "BROKEN"
  /\ session' = [session EXCEPT !.phase = "over"] /\ Answer(Frame.n)

\* hello: the version the client asks for, if emu speaks it.
AfterHello(s, version) == [s EXCEPT !.modern = version = 3]

\* answerDriver: the client library talking.
AnswerDriver ==
  /\ Reading /\ Frame.verb \in Driver /\ Answer(Frame.n)
  /\ \/ Frame.verb = "HELLO" /\ \E version \in {2, 3} :
          session' = AfterHello(session, version)
     \/ Frame.verb = "QUIT" /\ session' = [session EXCEPT !.phase = "over"]
     \/ Frame.verb # "QUIT" /\ UNCHANGED session

\* The first command of the lesson's is put aside while CONNECT is decided.
Defer(s, cmd) == [s EXCEPT !.greeted = TRUE, !.deferred = cmd]
Greet ==
  /\ Reading /\ Frame.verb \notin Driver \cup {"EMPTY", "BROKEN"} /\ ~session.greeted
  /\ session' = [Defer(session, Frame) EXCEPT !.phase = "verdict", !.active = Connect]
  /\ UNCHANGED answers

Take ==
  /\ Reading /\ Frame.verb \notin Driver \cup {"EMPTY", "BROKEN"} /\ session.greeted
  /\ session' = [session EXCEPT !.phase = "verdict", !.active = Frame, !.deferred = NoCmd]
  /\ UNCHANGED answers

----------------------------------------------------------------------------
(* The verdict on the active operation, and what it leads to.               *)

Deciding == up /\ session.phase = "verdict" /\ UNCHANGED <<others, inbox, sent>>
After(phase) == session' = [session EXCEPT !.phase = phase, !.active = NoCmd]

Drop == Deciding /\ After("over") /\ UNCHANGED <<kvVars, answers, ran>>

\* Fail: an error frame, and the end for a connection that is refused.  The
\* client takes it for the answer to its first command.
Fail ==
  /\ Deciding
  /\ IF session.active = Connect
     THEN After("over") /\ Answer(session.deferred.n)
     ELSE After("next") /\ Answer(session.active.n)
  /\ UNCHANGED <<kvVars, ran>>

Admit ==
  /\ Deciding /\ session.active = Connect
  /\ session' = [session EXCEPT !.phase = "next", !.active = NoCmd, !.admitted = TRUE]
  /\ UNCHANGED <<kvVars, answers, ran>>

\* A database past the last one is refused.
SelectDatabase ==
  \/ Refused(<<"error">>) /\ After("next")
  \/ /\ Refused(<<"ok">>)
     /\ \E db \in Db : session' = [session EXCEPT !.phase = "next", !.active = NoCmd, !.db = db]

Execute ==
  /\ Deciding /\ session.active # Connect
  /\ LET verb == session.active.verb
         db == session.db
     IN \/ verb = "SELECT" /\ SelectDatabase
        \/ /\ After("next")
           /\ \/ verb = "UNKNOWN" /\ Refused(<<"error">>)
              \/ \E k \in Key : \/ verb = "GET" /\ Get(db, k)
                                \/ verb = "INCR" /\ Increment(db, k, 1)
                                \/ verb = "LPOP" /\ Pop(db, k, TRUE)
  /\ answers' = IF up' THEN Append(answers, session.active.n) ELSE answers
  /\ ran' = Append(ran, session.active.n)

----------------------------------------------------------------------------
Init ==
  /\ now = 0 /\ said = <<"nothing">> /\ up = TRUE
  /\ seeded \in [Key -> Seeds]
  /\ spaces = [db \in Db |-> IF db = 0 THEN seeded ELSE [k \in Key |-> Absent]]
  /\ inbox = <<>> /\ sent = 0 /\ others = 0 /\ answers = <<>> /\ ran = <<>>
  /\ session = [phase |-> "next", greeted |-> FALSE, deferred |-> NoCmd, active |-> NoCmd,
                modern |-> FALSE, db |-> 0, admitted |-> FALSE, skipped |-> {}]

Session == ReadEmpty \/ ReadBroken \/ AnswerDriver \/ Greet \/ Take \/ Fail \/ Admit \/ Execute
Next == Tick \/ Other \/ (\E verb \in Script : Send(verb)) \/ Session \/ Drop
Spec == Init /\ [][Next]_vars

\* The connection's goroutine keeps going; nobody else has to.
FairSpec == Spec /\ WF_vars(Session)

----------------------------------------------------------------------------
(* Properties *)

\* Entries hold values of their kind, and a counter stays within its width.
TypeOK ==
  /\ now \in 0 .. MaxTime /\ up \in BOOLEAN /\ sent \in 0 .. MaxCommands
  /\ \A db \in Db, k \in Key :
       LET e == spaces[db][k]
       IN /\ e.dies \in 0 .. MaxTime
          /\ \/ e = Absent \/ e.is \in Text
             \/ e.is[1] = "list" /\ e.is[2] \in Seq(Item)
             \/ e.is[1] \in {"hash", "set"} /\ e.is[2] \subseteq Item
  /\ session.phase \in {"next", "verdict", "over"} /\ session.db \in Db

\* at, space: nobody can tell a key that is past its time from one that was
\* removed the instant it died; and each command does what a cache promises,
\* with machine integers standing for numbers.
C == INSTANCE Cache WITH cache <- [db \in Db |-> [k \in Key |-> At(db, k)]]
RefinesCache == C!Spec

\* prune, and pop's "a list is never present and empty": true of what commands
\* leave behind, so a collection is empty, and a pop brings the process down,
\* only where the lesson seeded the key with an empty one.
EmptyOnlyAsSeeded ==
  /\ \A db \in Db, k \in Key :
       Empty(spaces[db][k]) => db = 0 /\ spaces[db][k].is = seeded[k].is
  /\ ~up => \E k \in Key : Empty(seeded[k])

\* Next, Reply and Fail: answers come in the order of the commands, and
\* between two of them every command read has exactly one, whether it was the
\* driver's, the one that announced the connection, or one that failed.
OneReplyEach ==
  /\ \A i, j \in DOMAIN answers : i < j => answers[i] < answers[j]
  /\ session.phase = "next" /\ session.deferred = NoCmd /\ up =>
       {answers[i] : i \in DOMAIN answers} \cup session.skipped = 1 .. sent - Len(inbox)

\* Greet: nothing reaches the key space ahead of the verdict on CONNECT, and
\* the command put aside for it runs once, in its turn.
RunsOnceAdmitted ==
  /\ ran # <<>> => session.admitted
  /\ \A i, j \in DOMAIN ran : i < j => ran[i] < ran[j]

\* The key space holds values of their kinds and no empty collection of its
\* own making (prune, increment).
KeysSound == TypeOK /\ EmptyOnlyAsSeeded

\* Each command runs and is answered in its turn, once, and none before the
\* connection is admitted (Next, Reply, Fail).
AnsweredInTurn == OneReplyEach /\ RunsOnceAdmitted

\* Every command the client sent is answered in the end, unless the connection
\* or the process is over.
AllAnswered ==
  \A n \in 1 .. MaxCommands :
    sent = n ~> \/ n \in {answers[i] : i \in DOMAIN answers} \cup session.skipped
                \/ session.phase = "over" \/ ~up
=============================================================================
