--------------------------- MODULE KeySpaceProofs ---------------------------
(***************************************************************************)
(* The emulated Redis, for any keys, any seeds, any width of integer and   *)
(* any commands: its key space is sound, its connection answers every      *)
(* command once and in turn, and what clients see of it is a cache whose   *)
(* keys are gone the instant they die.                                     *)
(***************************************************************************)
EXTENDS KeySpace, FiniteSetTheorems, TLAPS

----------------------------------------------------------------------------
(* The inductive invariant of the key space *)

Nothing == <<"none", 0>>
Value ==
  {Nothing} \cup Text \cup ({"list"} \X Seq(Item)) \cup ({"hash", "set"} \X SUBSET Item)
Entry == [is : Value, dies : 0 .. MaxTime]

\* A key that holds nothing has no deadline either.
Whole(e) == e \in Entry /\ (e.is = Nothing => e.dies = 0)

KvInv ==
  /\ now \in 0 .. MaxTime /\ up \in BOOLEAN /\ seeded \in [Key -> Entry]
  /\ spaces \in [Db -> [Key -> Entry]]
  /\ \A db \in Db, k \in Key : Whole(spaces[db][k])
  /\ EmptyOnlyAsSeeded

----------------------------------------------------------------------------
(* The inductive invariant of the connection *)

Cmd == [verb : Script \cup {"none", "CONNECT"}, n : Nat]
SessionType ==
  [phase : {"next", "verdict", "over"}, greeted : BOOLEAN, deferred : Cmd, active : Cmd,
   modern : BOOLEAN, db : Db, admitted : BOOLEAN, skipped : SUBSET Nat]

\* How many commands were read off the socket, and which have been dealt with.
Turn == sent - Len(inbox)
Members(s) == {s[i] : i \in DOMAIN s}
Settled == Members(answers) \cup session.skipped
Increasing(s) == \A i, j \in DOMAIN s : i < j => s[i] < s[j]
Below(s, n) == \A i \in DOMAIN s : s[i] < n

\* The command put aside is the last one read, and the lesson's.
PutAside ==
  /\ session.deferred.n = Turn /\ Turn > 0
  /\ session.deferred.verb \notin Driver \cup {"EMPTY", "BROKEN"}

RespInv ==
  /\ sent \in 0 .. MaxCommands /\ others \in Nat /\ session \in SessionType
  /\ inbox \in Seq(Cmd) /\ answers \in Seq(Nat) /\ ran \in Seq(Nat)
  /\ Turn \in Nat /\ \A i \in DOMAIN inbox : inbox[i].n = Turn + i
  /\ Increasing(answers) /\ Increasing(ran) /\ Below(ran, Turn + 1)
  /\ ran # <<>> => session.admitted
  /\ session.greeted => session.admitted \/ session.active = Connect \/ session.phase = "over"
  /\ ~session.greeted => session.deferred = NoCmd
  /\ up /\ session.phase = "next" =>
       /\ session.active = NoCmd
       /\ IF session.deferred = NoCmd THEN Settled = 1 .. Turn
          ELSE PutAside /\ Settled = 1 .. Turn - 1 /\ Below(ran, Turn)
  /\ session.phase = "verdict" =>
       /\ Settled = 1 .. Turn - 1 /\ Turn > 0 /\ Below(ran, Turn) /\ session.greeted
       /\ IF session.active = Connect THEN PutAside
          ELSE session.active.n = Turn /\ session.deferred = NoCmd

----------------------------------------------------------------------------
(* The connection: each of its steps keeps RespInv *)

\* One more number, above all the others.
LEMMA OneMore ==
  ASSUME NEW s \in Seq(Nat), NEW n \in Nat, NEW t, t = Append(s, n)
  PROVE  /\ t \in Seq(Nat) /\ t # <<>>
         /\ Members(t) = Members(s) \cup {n}
         /\ Increasing(s) /\ Below(s, n) => Increasing(t) /\ Below(t, n + 1)
<1>1. /\ t \in Seq(Nat) /\ Len(t) = Len(s) + 1 /\ Len(s) \in Nat /\ t[Len(s) + 1] = n
      /\ \A i \in 1 .. Len(s) : t[i] = s[i] /\ s[i] \in Nat
      /\ DOMAIN s = 1 .. Len(s) /\ DOMAIN t = 1 .. Len(s) + 1
  OBVIOUS
<1> DEFINE l == Len(s)
<1>2. 1 .. l + 1 = (1 .. l) \cup {l + 1} /\ t # <<>>
  BY <1>1
<1>3. Members(t) = Members(s) \cup {n}
  <2>1. \A i \in DOMAIN t : i \in DOMAIN s \/ i = l + 1
    BY <1>1, <1>2
  <2>2. \A i \in DOMAIN s : i \in DOMAIN t /\ t[i] = s[i]
    BY <1>1, <1>2
  <2>3. l + 1 \in DOMAIN t /\ t[l + 1] = n
    BY <1>1, <1>2
  <2> HIDE DEF l
  <2> QED
    BY <2>1, <2>2, <2>3 DEF Members
<1>4. ASSUME Increasing(s), Below(s, n) PROVE Increasing(t) /\ Below(t, n + 1)
  <2>1. \A i \in 1 .. l : s[i] < n /\ t[i] = s[i] /\ t[i] \in Nat
    BY <1>1, <1>4 DEF Below
  <2>2. ASSUME NEW i \in DOMAIN t, NEW j \in DOMAIN t, i < j PROVE t[i] < t[j]
    <3>1. i \in 1 .. l /\ (j \in 1 .. l \/ j = l + 1)
      BY <1>1, <2>2
    <3>2. CASE j \in 1 .. l
      <4>1. s[i] < s[j]
        BY <1>1, <1>4, <2>2, <3>1, <3>2 DEF Increasing
      <4> QED
        BY <2>1, <3>1, <3>2, <4>1
    <3>3. CASE j = l + 1
      BY <1>1, <2>1, <3>1, <3>3
    <3> QED
      BY <3>1, <3>2, <3>3
  <2>3. ASSUME NEW i \in DOMAIN t PROVE t[i] < n + 1
    <3>1. CASE i \in 1 .. l
      BY <2>1, <3>1
    <3>2. CASE i = l + 1
      BY <1>1, <3>2
    <3> QED
      BY <1>1, <1>2, <3>1, <3>2
  <2> QED
    BY <2>2, <2>3 DEF Increasing, Below
<1> QED
  BY <1>1, <1>2, <1>3, <1>4

\* Whichever way a command comes, it is the next in turn.
Next1(f) ==
  /\ f \in Cmd /\ f.n = Turn' /\ Turn' \in Nat /\ Turn' > 0
  /\ inbox' \in Seq(Cmd) /\ \A i \in DOMAIN inbox' : inbox'[i].n = Turn' + i
  /\ Settled = 1 .. Turn' - 1 /\ Below(ran, Turn')
  /\ f.verb \in Driver \cup {"EMPTY", "BROKEN"} => session.deferred = NoCmd

LEMMA ReadingIs ==
  ASSUME RespInv, Reading
  PROVE  Next1(Frame) /\ UNCHANGED <<others, sent, ran, up>> /\ up /\ session.phase = "next"
<1>1. /\ sent \in Nat /\ inbox \in Seq(Cmd) /\ Turn \in Nat /\ Len(inbox) \in Nat
      /\ session \in SessionType
      /\ \A i \in DOMAIN inbox : inbox[i].n = Turn + i
  BY KeySpaceAssumption DEF RespInv
<1>2. UNCHANGED <<others, sent, ran, up>> /\ up /\ session.phase = "next"
  BY DEF Reading, kvVars
<1>3. CASE session.deferred # NoCmd
  <2>1. inbox' = inbox /\ Frame = session.deferred
    BY <1>3 DEF Reading, Frame
  <2>2. Turn' = Turn
    BY <1>2, <2>1 DEF Turn
  <2>3. PutAside /\ Settled = 1 .. Turn - 1 /\ Below(ran, Turn)
    BY <1>2, <1>3 DEF RespInv
  <2>4. session.deferred \in Cmd
    BY <1>1 DEF SessionType
  <2> QED
    BY <1>1, <1>2, <1>3, <2>1, <2>2, <2>3, <2>4 DEF Next1, PutAside
<1>4. CASE session.deferred = NoCmd
  <2>1. inbox' = Tail(inbox) /\ Frame = Head(inbox) /\ inbox # <<>>
    BY <1>4 DEF Reading, Frame
  <2>2. /\ inbox' \in Seq(Cmd) /\ Len(inbox') = Len(inbox) - 1 /\ inbox[1] \in Cmd
        /\ Frame = inbox[1] /\ 1 \in DOMAIN inbox
        /\ \A i \in DOMAIN inbox' : i \in Nat /\ i + 1 \in DOMAIN inbox /\ inbox'[i] = inbox[i + 1]
    BY <1>1, <2>1
  <2>3. Turn' = Turn + 1
    BY <1>1, <1>2, <2>2 DEF Turn
  <2>4. Frame.n = Turn' /\ Turn' \in Nat /\ Turn' > 0
    BY <1>1, <2>2, <2>3
  <2>5. \A i \in DOMAIN inbox' : inbox'[i].n = Turn' + i
    <3>1. \A i \in DOMAIN inbox' : inbox'[i].n = Turn + (i + 1) /\ i \in Nat
      BY <1>1, <2>2
    <3> QED
      BY <1>1, <2>3, <3>1
  <2>6. Settled = 1 .. Turn /\ Below(ran, Turn + 1)
    BY <1>2, <1>4 DEF RespInv
  <2>7. Turn' - 1 = Turn
    BY <1>1, <2>3
  <2> QED
    BY <1>2, <1>4, <2>2, <2>3, <2>4, <2>5, <2>6, <2>7 DEF Next1
<1> QED
  BY <1>3, <1>4

\* What a step that reads owes the invariant, beyond what ReadingIs says.
LEMMA ReadKeeps ==
  ASSUME RespInv, Reading,
         session' \in SessionType, answers' \in Seq(Nat), Increasing(answers'),
         session'.admitted = session.admitted,
         session'.greeted => session'.admitted \/ session'.active = Connect \/ session'.phase = "over",
         ~session'.greeted => session'.deferred = NoCmd,
         session'.phase = "next" =>
           session'.active = NoCmd /\ session'.deferred = NoCmd /\ Settled' = 1 .. Turn',
         session'.phase = "verdict" =>
           /\ Settled' = 1 .. Turn' - 1 /\ session'.greeted
           /\ IF session'.active = Connect THEN PutAside'
              ELSE session'.active.n = Turn' /\ session'.deferred = NoCmd
  PROVE  RespInv'
<1>1. Next1(Frame) /\ UNCHANGED <<others, sent, ran, up>> /\ up
  BY ReadingIs
<1>2. Below(ran, Turn') /\ Turn' \in Nat /\ Turn' > 0
  BY <1>1 DEF Next1
<1>3. ran \in Seq(Nat) /\ Increasing(ran) /\ (ran # <<>> => session.admitted)
      /\ sent \in 0 .. MaxCommands /\ others \in Nat
  BY DEF RespInv
<1>4. Below(ran, Turn' + 1)
  <2>1. \A i \in DOMAIN ran : ran[i] \in Nat
    BY <1>3
  <2> QED
    BY <1>2, <2>1 DEF Below
<1>5. Increasing(ran)' /\ Below(ran, Turn + 1)' /\ Below(ran, Turn)' /\ Increasing(answers)'
  BY <1>1, <1>2, <1>3, <1>4 DEF Increasing, Below
<1>6. inbox' \in Seq(Cmd) /\ \A i \in DOMAIN inbox' : inbox'[i].n = Turn' + i
  BY <1>1 DEF Next1
<1> QED
  BY <1>1, <1>2, <1>3, <1>5, <1>6 DEF RespInv

LEMMA ReadEmptyKeeps ==
  ASSUME RespInv, ReadEmpty
  PROVE  RespInv'
<1>1. Reading /\ Frame.verb = "EMPTY" /\ answers' = answers
      /\ session' = [session EXCEPT !.skipped = @ \cup {Frame.n}]
  BY DEF ReadEmpty
<1>2. Next1(Frame) /\ session.phase = "next" /\ session.deferred = NoCmd /\ up
  BY <1>1, ReadingIs DEF Next1
<1>3. Frame.n = Turn' /\ Turn' \in Nat /\ Turn' > 0 /\ Settled = 1 .. Turn' - 1
  BY <1>2 DEF Next1
<1>4. /\ session \in SessionType /\ answers \in Seq(Nat) /\ Increasing(answers)
      /\ session.greeted => session.admitted \/ session.active = Connect \/ session.phase = "over"
      /\ session.active = NoCmd
  BY <1>2 DEF RespInv
<1>5. /\ session' \in SessionType /\ session'.skipped = session.skipped \cup {Turn'}
      /\ session'.phase = "next" /\ session'.greeted = session.greeted
      /\ session'.deferred = session.deferred /\ session'.active = session.active
      /\ session'.admitted = session.admitted
  <2> DEFINE n == Frame.n
  <2>1. n \in Nat /\ n = Turn'
    BY <1>3
  <2> HIDE DEF n
  <2>2. session' = [session EXCEPT !.skipped = @ \cup {n}]
    BY <1>1 DEF n
  <2> QED
    BY <1>2, <1>4, <2>1, <2>2 DEF SessionType
<1>6. Settled' = Settled \cup {Turn'}
  BY <1>1, <1>5 DEF Settled, Members
<1>7. Settled' = 1 .. Turn'
  BY <1>3, <1>6
<1> QED
  BY <1>1, <1>2, <1>4, <1>5, <1>7, ReadKeeps DEF Connect, NoCmd

\* The command in turn is answered.
LEMMA AnswerIs ==
  ASSUME RespInv, NEW n \in Nat, n > 0, answers' = Append(answers, n), Settled = 1 .. n - 1,
         session'.skipped = session.skipped
  PROVE  answers' \in Seq(Nat) /\ Increasing(answers') /\ Settled' = 1 .. n
<1>1. answers \in Seq(Nat) /\ Increasing(answers)
  BY DEF RespInv
<1>2. Below(answers, n)
  <2>1. \A i \in DOMAIN answers : answers[i] \in 1 .. n - 1
    BY DEF Settled, Members
  <2> QED
    BY <2>1 DEF Below
<1>3. /\ answers' \in Seq(Nat) /\ Increasing(answers')
      /\ Members(answers') = Members(answers) \cup {n}
  BY <1>1, <1>2, OneMore
<1>4. Settled' = Settled \cup {n}
  BY <1>3 DEF Settled, Members
<1> QED
  BY <1>3, <1>4

LEMMA ReadBrokenKeeps ==
  ASSUME RespInv, ReadBroken
  PROVE  RespInv'
<1>1. Reading /\ Frame.verb = "BROKEN" /\ answers' = Append(answers, Frame.n)
      /\ session' = [session EXCEPT !.phase = "over"]
  BY DEF ReadBroken, Answer
<1>2. Next1(Frame) /\ session.deferred = NoCmd
  BY <1>1, ReadingIs DEF Next1
<1>3. Frame.n = Turn' /\ Turn' \in Nat /\ Turn' > 0 /\ Settled = 1 .. Turn' - 1
  BY <1>2 DEF Next1
<1>4. session \in SessionType
  BY DEF RespInv
<1>5. /\ session' \in SessionType /\ session'.skipped = session.skipped
      /\ session'.phase = "over" /\ session'.deferred = session.deferred
      /\ session'.admitted = session.admitted
  BY <1>1, <1>4 DEF SessionType
<1>6. answers' \in Seq(Nat) /\ Increasing(answers')
  BY <1>1, <1>3, <1>5, AnswerIs
<1> QED
  BY <1>1, <1>2, <1>5, <1>6, ReadKeeps

LEMMA AnswerDriverKeeps ==
  ASSUME RespInv, AnswerDriver
  PROVE  RespInv'
<1>1. Reading /\ Frame.verb \in Driver /\ answers' = Append(answers, Frame.n)
  BY DEF AnswerDriver, Answer
<1>2. Next1(Frame) /\ session.deferred = NoCmd /\ session.phase = "next" /\ up
  BY <1>1, ReadingIs DEF Next1
<1>3. Frame.n = Turn' /\ Turn' \in Nat /\ Turn' > 0 /\ Settled = 1 .. Turn' - 1
  BY <1>2 DEF Next1
<1>4. /\ session \in SessionType /\ session.active = NoCmd
      /\ session.greeted => session.admitted \/ session.active = Connect \/ session.phase = "over"
  BY <1>2 DEF RespInv
<1>5. /\ session' \in SessionType /\ session'.skipped = session.skipped
      /\ session'.phase \in {"next", "over"} /\ session'.deferred = session.deferred
      /\ session'.admitted = session.admitted /\ session'.active = session.active
      /\ session'.greeted = session.greeted
  <2>1. CASE \E version \in {2, 3} : session' = AfterHello(session, version)
    <3>1. PICK m \in BOOLEAN : session' = [session EXCEPT !.modern = m]
      BY <2>1 DEF AfterHello
    <3> QED
      BY <1>2, <1>4, <3>1 DEF SessionType
  <2>2. CASE session' = [session EXCEPT !.phase = "over"]
    BY <1>4, <2>2 DEF SessionType
  <2>3. CASE session' = session
    BY <1>2, <1>4, <2>3
  <2> QED
    BY <2>1, <2>2, <2>3 DEF AnswerDriver
<1>6. answers' \in Seq(Nat) /\ Increasing(answers') /\ Settled' = 1 .. Turn'
  BY <1>1, <1>3, <1>5, AnswerIs
<1> QED
  BY <1>1, <1>2, <1>4, <1>5, <1>6, ReadKeeps DEF Connect, NoCmd

\* Nothing is answered or skipped.
LEMMA SettledSame ==
  ASSUME answers' = answers, session'.skipped = session.skipped
  PROVE  Settled' = Settled
BY DEF Settled, Members

LEMMA GreetKeeps ==
  ASSUME RespInv, Greet
  PROVE  RespInv'
<1> DEFINE f == Frame
<1>1. Reading /\ f.verb \notin Driver \cup {"EMPTY", "BROKEN"} /\ answers' = answers
      /\ session' = [Defer(session, f) EXCEPT !.phase = "verdict", !.active = Connect]
  BY DEF Greet
<1>2. Next1(f)
  BY <1>1, ReadingIs
<1>3. f \in Cmd /\ f.n = Turn' /\ Turn' \in Nat /\ Turn' > 0 /\ Settled = 1 .. Turn' - 1
  BY <1>2 DEF Next1
<1>4. session \in SessionType /\ answers \in Seq(Nat) /\ Increasing(answers)
  BY DEF RespInv
<1> HIDE DEF f
<1>5. /\ session' \in SessionType /\ session'.skipped = session.skipped
      /\ session'.phase = "verdict" /\ session'.deferred = f /\ session'.active = Connect
      /\ session'.greeted /\ session'.admitted = session.admitted
  <2> DEFINE s == Defer(session, f)
  <2>1. /\ s \in SessionType /\ s.greeted /\ s.deferred = f /\ s.skipped = session.skipped
        /\ s.admitted = session.admitted
    BY <1>3, <1>4 DEF Defer, SessionType
  <2>2. Connect \in Cmd
    BY DEF Connect, Cmd
  <2>3. session' = [s EXCEPT !.phase = "verdict", !.active = Connect]
    BY <1>1
  <2> HIDE DEF s
  <2> QED
    BY <2>1, <2>2, <2>3 DEF SessionType
<1>6. Settled' = 1 .. Turn' - 1
  BY <1>1, <1>3, <1>5, SettledSame
<1>7. PutAside'
  BY <1>1, <1>3, <1>5 DEF PutAside
<1> QED
  BY <1>1, <1>4, <1>5, <1>6, <1>7, ReadKeeps

LEMMA TakeKeeps ==
  ASSUME RespInv, Take
  PROVE  RespInv'
<1> DEFINE f == Frame
<1>1. Reading /\ session.greeted /\ answers' = answers
      /\ session' = [session EXCEPT !.phase = "verdict", !.active = f, !.deferred = NoCmd]
  BY DEF Take
<1>2. Next1(f) /\ session.phase = "next" /\ up
  BY <1>1, ReadingIs
<1>3. f \in Cmd /\ f.n = Turn' /\ Turn' \in Nat /\ Turn' > 0 /\ Settled = 1 .. Turn' - 1
  BY <1>2 DEF Next1
<1>4. /\ session \in SessionType /\ answers \in Seq(Nat) /\ Increasing(answers)
      /\ session.greeted => session.admitted \/ session.active = Connect \/ session.phase = "over"
      /\ session.active = NoCmd
  BY <1>2 DEF RespInv
<1> HIDE DEF f
<1>5. /\ session' \in SessionType /\ session'.skipped = session.skipped
      /\ session'.phase = "verdict" /\ session'.deferred = NoCmd /\ session'.active = f
      /\ session'.greeted = session.greeted /\ session'.admitted = session.admitted
  <2>1. NoCmd \in Cmd
    BY DEF NoCmd, Cmd
  <2> QED
    BY <1>1, <1>3, <1>4, <2>1 DEF SessionType
<1>6. Settled' = 1 .. Turn' - 1
  BY <1>1, <1>3, <1>5, SettledSame
<1>7. f # Connect /\ NoCmd # Connect
  BY <1>3 DEF Connect, NoCmd
<1> QED
  BY <1>1, <1>2, <1>3, <1>4, <1>5, <1>6, <1>7, ReadKeeps

\* A step that leaves the socket alone.
LEMMA VerdictKeeps ==
  ASSUME RespInv, UNCHANGED <<inbox, sent>>, others' \in Nat,
         session' \in SessionType, answers' \in Seq(Nat), Increasing(answers'),
         ran' \in Seq(Nat), Increasing(ran'), Below(ran', Turn + 1),
         ran' # <<>> => session'.admitted,
         session'.greeted => session'.admitted \/ session'.active = Connect \/ session'.phase = "over",
         ~session'.greeted => session'.deferred = NoCmd,
         up' /\ session'.phase = "next" =>
           /\ session'.active = NoCmd
           /\ IF session'.deferred = NoCmd THEN Settled' = 1 .. Turn
              ELSE /\ session'.deferred = session.deferred /\ PutAside
                   /\ Settled' = 1 .. Turn - 1 /\ Below(ran', Turn),
         session'.phase # "verdict"
  PROVE  RespInv'
<1>1. Turn' = Turn
  BY DEF Turn
<1>2. Increasing(ran)' /\ Below(ran, Turn + 1)' /\ Increasing(answers)'
  BY <1>1 DEF Increasing, Below
<1>3. Below(ran', Turn) => Below(ran, Turn)'
  BY <1>1 DEF Below
<1>4. PutAside /\ session'.deferred = session.deferred => PutAside'
  BY <1>1 DEF PutAside
<1> QED
  BY <1>1, <1>2, <1>3, <1>4 DEF RespInv

LEMMA VerdictIs ==
  ASSUME RespInv, Deciding
  PROVE  /\ UNCHANGED <<others, inbox, sent>> /\ up /\ session.phase = "verdict" /\ session.greeted
         /\ session \in SessionType /\ Turn \in Nat /\ Turn > 0 /\ others \in Nat
         /\ answers \in Seq(Nat) /\ Increasing(answers) /\ ran \in Seq(Nat) /\ Increasing(ran)
         /\ Settled = 1 .. Turn - 1 /\ Below(ran, Turn) /\ Below(ran, Turn + 1)
         /\ ran # <<>> => session.admitted
         /\ session.active = Connect => PutAside
         /\ session.active # Connect =>
              session.active.n = Turn /\ session.deferred = NoCmd /\ session.admitted
BY DEF RespInv, Deciding

\* The session once a verdict has been carried out.
LEMMA AfterIs ==
  ASSUME session \in SessionType, NEW phase \in {"next", "over"}, After(phase)
  PROVE  /\ session' \in SessionType /\ session'.phase = phase /\ session'.active = NoCmd
         /\ session'.greeted = session.greeted /\ session'.deferred = session.deferred
         /\ session'.admitted = session.admitted /\ session'.skipped = session.skipped
<1>1. NoCmd \in Cmd
  BY DEF NoCmd, Cmd
<1> QED
  BY <1>1 DEF After, SessionType

LEMMA DropKeeps ==
  ASSUME RespInv, Drop
  PROVE  RespInv'
<1>1. Deciding /\ After("over") /\ UNCHANGED <<answers, ran>>
  BY DEF Drop
<1> QED
  BY <1>1, VerdictIs, AfterIs, VerdictKeeps

LEMMA FailKeeps ==
  ASSUME RespInv, Fail
  PROVE  RespInv'
<1>1. Deciding /\ ran' = ran
  BY DEF Fail
<1>2. CASE session.active = Connect
  <2>1. After("over") /\ answers' = Append(answers, session.deferred.n)
    BY <1>2 DEF Fail, Answer
  <2>2. session.deferred.n = Turn
    BY <1>1, <1>2, VerdictIs DEF PutAside
  <2>3. session'.skipped = session.skipped
    BY <1>1, <2>1, VerdictIs, AfterIs
  <2>4. answers' \in Seq(Nat) /\ Increasing(answers')
    BY <1>1, <2>1, <2>2, <2>3, VerdictIs, AnswerIs
  <2> QED
    BY <1>1, <2>1, <2>4, VerdictIs, AfterIs, VerdictKeeps
<1>3. CASE session.active # Connect
  <2>1. After("next") /\ answers' = Append(answers, session.active.n)
    BY <1>3 DEF Fail, Answer
  <2>2. session.active.n = Turn /\ session.deferred = NoCmd /\ session.admitted
    BY <1>1, <1>3, VerdictIs
  <2>3. session'.skipped = session.skipped
    BY <1>1, <2>1, VerdictIs, AfterIs
  <2>4. answers' \in Seq(Nat) /\ Increasing(answers') /\ Settled' = 1 .. Turn
    BY <1>1, <2>1, <2>2, <2>3, VerdictIs, AnswerIs
  <2> QED
    BY <1>1, <2>1, <2>2, <2>4, VerdictIs, AfterIs, VerdictKeeps
<1> QED
  BY <1>2, <1>3

LEMMA AdmitKeeps ==
  ASSUME RespInv, Admit
  PROVE  RespInv'
<1>1. Deciding /\ session.active = Connect /\ UNCHANGED <<answers, ran>>
      /\ session' = [session EXCEPT !.phase = "next", !.active = NoCmd, !.admitted = TRUE]
  BY DEF Admit
<1>2. session \in SessionType /\ NoCmd \in Cmd
  BY <1>1, VerdictIs DEF NoCmd, Cmd
<1>3. /\ session' \in SessionType /\ session'.phase = "next" /\ session'.active = NoCmd
      /\ session'.greeted = session.greeted /\ session'.deferred = session.deferred
      /\ session'.admitted /\ session'.skipped = session.skipped
  BY <1>1, <1>2 DEF SessionType
<1>4. PutAside /\ session.greeted /\ Turn \in Nat
  BY <1>1, VerdictIs
<1>5. session.deferred # NoCmd
  BY <1>4 DEF PutAside, NoCmd
<1>6. Settled' = 1 .. Turn - 1
  BY <1>1, <1>3, VerdictIs, SettledSame
<1> QED
  BY <1>1, <1>3, <1>4, <1>5, <1>6, VerdictIs, VerdictKeeps

LEMMA ExecuteKeeps ==
  ASSUME RespInv, Execute
  PROVE  RespInv'
<1> DEFINE n == session.active.n
<1>1. Deciding /\ session.active # Connect /\ ran' = Append(ran, n)
      /\ answers' = IF up' THEN Append(answers, n) ELSE answers
  BY DEF Execute
<1>2. n = Turn /\ session.deferred = NoCmd /\ session.admitted /\ session.greeted
      /\ Turn \in Nat /\ Turn > 0 /\ session \in SessionType
  BY <1>1, VerdictIs
<1>3. /\ session' \in SessionType /\ session'.phase = "next" /\ session'.active = NoCmd
      /\ session'.greeted = session.greeted /\ session'.deferred = session.deferred
      /\ session'.admitted = session.admitted /\ session'.skipped = session.skipped
  <2>1. CASE After("next")
    BY <1>2, <2>1, AfterIs
  <2>2. CASE \E db \in Db :
               session' = [session EXCEPT !.phase = "next", !.active = NoCmd, !.db = db]
    <3>1. NoCmd \in Cmd
      BY DEF NoCmd, Cmd
    <3>2. PICK db \in Db :
               session' = [session EXCEPT !.phase = "next", !.active = NoCmd, !.db = db]
      BY <2>2
    <3> QED
      BY <1>2, <3>1, <3>2 DEF SessionType
  <2> QED
    BY <2>1, <2>2 DEF Execute, SelectDatabase
<1>4. ran' \in Seq(Nat) /\ Increasing(ran') /\ Below(ran', Turn + 1)
  <2>1. ran \in Seq(Nat) /\ Increasing(ran) /\ Below(ran, Turn) /\ ran' = Append(ran, Turn)
    BY <1>1, <1>2, VerdictIs
  <2>2. Turn \in Nat
    BY <1>2
  <2> QED
    BY <2>1, <2>2, OneMore
<1>5. CASE up'
  <2>1. answers' \in Seq(Nat) /\ Increasing(answers') /\ Settled' = 1 .. Turn
    BY <1>1, <1>2, <1>3, <1>5, VerdictIs, AnswerIs
  <2> QED
    BY <1>1, <1>2, <1>3, <1>4, <2>1, VerdictIs, VerdictKeeps
<1>6. CASE ~up'
  <2>1. answers' \in Seq(Nat) /\ Increasing(answers')
    BY <1>1, <1>6, VerdictIs
  <2> QED
    BY <1>1, <1>2, <1>3, <1>4, <1>6, <2>1, VerdictIs, VerdictKeeps
<1> QED
  BY <1>5, <1>6

LEMMA SendKeeps ==
  ASSUME RespInv, NEW verb \in Script, Send(verb)
  PROVE  RespInv'
<1> DEFINE cmd == [verb |-> verb, n |-> sent + 1]
<1>1. /\ sent \in 0 .. MaxCommands /\ others \in Nat /\ inbox \in Seq(Cmd) /\ Turn \in Nat
      /\ MaxCommands \in Nat /\ Len(inbox) \in Nat
      /\ \A i \in DOMAIN inbox : inbox[i].n = Turn + i
  BY KeySpaceAssumption DEF RespInv
<1>2. UNCHANGED <<kvVars, others, session, answers, ran>> /\ sent' = sent + 1
      /\ inbox' = Append(inbox, cmd) /\ others + sent < MaxCommands
  BY DEF Send
<1>3. cmd \in Cmd /\ cmd.n = sent + 1
  BY <1>1 DEF Cmd
<1> HIDE DEF cmd
<1>4. /\ inbox' \in Seq(Cmd) /\ Len(inbox') = Len(inbox) + 1 /\ inbox'[Len(inbox) + 1] = cmd
      /\ DOMAIN inbox' = 1 .. Len(inbox) + 1
      /\ \A i \in 1 .. Len(inbox) : inbox'[i] = inbox[i]
  BY <1>1, <1>2, <1>3
<1>5. Turn' = Turn
  BY <1>1, <1>2, <1>4 DEF Turn
<1>6. ASSUME NEW i \in DOMAIN inbox' PROVE inbox'[i].n = Turn' + i
  <2>1. CASE i \in 1 .. Len(inbox)
    BY <1>1, <1>4, <1>5, <2>1
  <2>2. CASE i = Len(inbox) + 1
    <3>1. Turn + i = sent + 1
      BY <1>1, <2>2 DEF Turn
    <3> QED
      BY <1>3, <1>4, <1>5, <2>2, <3>1
  <2> QED
    BY <1>1, <1>4, <2>1, <2>2
<1>7. sent' \in 0 .. MaxCommands
  BY <1>1, <1>2
<1>8. Settled' = Settled /\ (PutAside' <=> PutAside) /\ up' = up
  BY <1>2, <1>5 DEF Settled, PutAside, Members, kvVars
<1>9. /\ Increasing(answers)' = Increasing(answers) /\ Increasing(ran)' = Increasing(ran)
      /\ Below(ran, Turn + 1)' = Below(ran, Turn + 1) /\ Below(ran, Turn)' = Below(ran, Turn)
  BY <1>2, <1>5 DEF Increasing, Below
<1> QED
  BY <1>2, <1>4, <1>5, <1>6, <1>7, <1>8, <1>9 DEF RespInv

\* The clock and the other connections leave this one alone.
LEMMA ElsewhereKeeps ==
  ASSUME RespInv, UNCHANGED <<inbox, sent, session, answers, ran>>, others' \in Nat, up' => up
  PROVE  RespInv'
<1>1. Turn' = Turn /\ Settled' = Settled /\ PutAside' = PutAside
  BY DEF Turn, Settled, PutAside, Members
<1>2. /\ Increasing(answers)' = Increasing(answers) /\ Increasing(ran)' = Increasing(ran)
      /\ Below(ran, Turn + 1)' = Below(ran, Turn + 1) /\ Below(ran, Turn)' = Below(ran, Turn)
  BY <1>1 DEF Increasing, Below
<1> QED
  BY <1>1, <1>2 DEF RespInv

----------------------------------------------------------------------------
(* Values and entries *)

\* What an entry of each kind holds.
LEMMA ValueIs ==
  ASSUME NEW v \in Value
  PROVE  /\ v[1] \in {"none", "number", "text", "list", "hash", "set"}
         /\ v[1] = "none" <=> v = Nothing
         /\ v[1] = "number" => v[2] \in Number /\ v = <<"number", v[2]>> /\ v \in Text
         /\ v[1] = "text" => v = <<"text", 0>> /\ v \in Text
         /\ v[1] = "list" => v[2] \in Seq(Item) /\ v = <<"list", v[2]>>
         /\ v[1] \in {"hash", "set"} => v[2] \in SUBSET Item /\ v = <<v[1], v[2]>>
<1>1. CASE v = Nothing
  BY <1>1 DEF Nothing
<1>2. CASE v \in Text
  <2>1. CASE v = <<"text", 0>>
    BY <1>2, <2>1 DEF Nothing
  <2>2. CASE \E n \in Number : v = <<"number", n>>
    BY <1>2, <2>2 DEF Nothing
  <2> QED
    BY <1>2, <2>1, <2>2 DEF Text
<1>3. CASE v \in {"list"} \X Seq(Item)
  <2>1. PICK s \in Seq(Item) : v = <<"list", s>>
    BY <1>3
  <2> QED
    BY <2>1 DEF Nothing
<1>4. CASE v \in {"hash", "set"} \X SUBSET Item
  <2>1. PICK kind \in {"hash", "set"}, s \in SUBSET Item : v = <<kind, s>>
    BY <1>4
  <2> QED
    BY <2>1 DEF Nothing
<1> QED
  BY <1>1, <1>2, <1>3, <1>4 DEF Value

LEMMA EmptyIs ==
  ASSUME NEW e
  PROVE  /\ Empty(e) => e.is[1] \in {"list", "hash", "set"}
         /\ e.is[1] = "list" => (Empty(e) <=> e.is = <<"list", <<>>>>)
         /\ e.is[1] = "hash" => (Empty(e) <=> e.is = <<"hash", {}>>)
         /\ e.is[1] = "set" => (Empty(e) <=> e.is = <<"set", {}>>)
<1> DEFINE v == e.is
<1>1. v = <<"list", <<>>>> => v[1] = "list"
  OBVIOUS
<1>2. v = <<"hash", {}>> => v[1] = "hash"
  OBVIOUS
<1>3. v = <<"set", {}>> => v[1] = "set"
  OBVIOUS
<1>4. Empty(e) <=> v = <<"list", <<>>>> \/ v = <<"hash", {}>> \/ v = <<"set", {}>>
  BY DEF Empty
<1> HIDE DEF v
<1>5. /\ Empty(e) => v[1] \in {"list", "hash", "set"}
      /\ v[1] = "list" => (Empty(e) <=> v = <<"list", <<>>>>)
      /\ v[1] = "hash" => (Empty(e) <=> v = <<"hash", {}>>)
      /\ v[1] = "set" => (Empty(e) <=> v = <<"set", {}>>)
  BY <1>1, <1>2, <1>3, <1>4
<1> QED
  BY <1>5 DEF v

\* What a key may come to hold: a whole entry whose time has not come, and no
\* empty collection that was not there.
Lasting(e) == Whole(e) /\ (e.dies = 0 \/ e.dies > now)
Fresh(db, k, e) == Lasting(e) /\ (Empty(e) => e.is = At(db, k).is)

LEMMA NothingIsWhole ==
  ASSUME KvInv
  PROVE  Lasting(Absent) /\ ~Empty(Absent) /\ Absent.is = Nothing
<1>1. Absent \in Entry /\ Absent.is = Nothing /\ Absent.dies = 0
  BY KeySpaceAssumption DEF Absent, Entry, Value, Nothing
<1>2. ~Empty(Absent)
  BY <1>1, EmptyIs DEF Nothing
<1> QED
  BY <1>1, <1>2 DEF Lasting, Whole

LEMMA AtIs ==
  ASSUME KvInv, NEW db \in Db, NEW k \in Key
  PROVE  /\ Lasting(At(db, k)) /\ Fresh(db, k, At(db, k))
         /\ Empty(At(db, k)) => db = 0 /\ At(db, k).is = seeded[k].is
<1>1. Whole(spaces[db][k]) /\ now \in Nat /\ MaxTime \in Nat
  BY KeySpaceAssumption DEF KvInv
<1>2. CASE At(db, k) = Absent
  BY <1>2, NothingIsWhole DEF Fresh
<1>3. CASE At(db, k) # Absent
  <2>1. At(db, k) = spaces[db][k] /\ ~(spaces[db][k].dies # 0 /\ now >= spaces[db][k].dies)
    BY <1>3 DEF At
  <2>2. spaces[db][k].dies \in Nat
    BY <1>1 DEF Whole, Entry
  <2> QED
    BY <1>1, <2>1, <2>2 DEF Lasting, Fresh, KvInv, EmptyOnlyAsSeeded
<1> QED
  BY <1>2, <1>3

\* A command on one key.
LEMMA PutKeeps ==
  ASSUME KvInv, NEW db \in Db, NEW k \in Key, NEW e, Fresh(db, k, e), NEW answer,
         Put(db, k, e, answer)
  PROVE  KvInv'
<1>1. spaces' = [spaces EXCEPT ![db][k] = e] /\ UNCHANGED <<now, up, seeded>>
  BY DEF Put
<1>2. Whole(e) /\ e \in Entry /\ (Empty(e) => e.is = At(db, k).is)
  BY DEF Fresh, Lasting, Whole
<1>3. spaces \in [Db -> [Key -> Entry]]
  BY DEF KvInv
<1>4. /\ spaces' \in [Db -> [Key -> Entry]]
      /\ \A d \in Db, j \in Key : spaces'[d][j] = IF d = db /\ j = k THEN e ELSE spaces[d][j]
  BY <1>1, <1>2, <1>3
<1>5. Empty(e) => db = 0 /\ e.is = seeded[k].is
  <2>1. ASSUME Empty(e) PROVE Empty(At(db, k))
    BY <1>2, <2>1 DEF Empty
  <2> QED
    BY <1>2, <2>1, AtIs
<1>6. \A d \in Db, j \in Key : Whole(spaces'[d][j])
  BY <1>2, <1>4 DEF KvInv
<1>7. \A d \in Db, j \in Key : Empty(spaces'[d][j]) => d = 0 /\ spaces'[d][j].is = seeded[j].is
  BY <1>4, <1>5 DEF KvInv, EmptyOnlyAsSeeded
<1>8. EmptyOnlyAsSeeded'
  BY <1>1, <1>7 DEF KvInv, EmptyOnlyAsSeeded, Empty
<1> QED
  BY <1>1, <1>4, <1>6, <1>8 DEF KvInv, Whole

----------------------------------------------------------------------------
(* Each command keeps the invariant, and is one of the cache's *)

CacheNow == [db \in Db |-> [k \in Key |-> At(db, k)]]
CacheStep == [C!Next]_<<now, CacheNow, said>>

LEMMA CacheIs ==
  ASSUME NEW db \in Db, NEW k \in Key
  PROVE  CacheNow[db][k] = At(db, k)
BY DEF CacheNow

\* A key comes to hold an entry whose time has not come: so it does for a cache.
LEMMA PutBecomes ==
  ASSUME KvInv, NEW db \in Db, NEW k \in Key, NEW e, Lasting(e), NEW answer, Put(db, k, e, answer)
  PROVE  C!Becomes(db, k, e, answer)
<1>1. spaces' = [spaces EXCEPT ![db][k] = e] /\ now' = now /\ said' = answer
  BY DEF Put
<1>2. e.dies \in Nat /\ now \in Nat /\ (e.dies = 0 \/ e.dies > now)
  BY KeySpaceAssumption DEF KvInv, Lasting, Whole, Entry
<1>3. spaces \in [Db -> [Key -> Entry]]
  BY DEF KvInv
<1>4. \A d \in Db, j \in Key : spaces'[d][j] = IF d = db /\ j = k THEN e ELSE spaces[d][j]
  BY <1>1, <1>3
<1>5. \A d \in Db, j \in Key : At(d, j)' = IF d = db /\ j = k THEN e ELSE At(d, j)
  BY <1>1, <1>2, <1>4 DEF At
<1>6. CacheNow' = [CacheNow EXCEPT ![db][k] = e]
  BY <1>5 DEF CacheNow
<1> QED
  BY <1>1, <1>6 DEF C!Becomes, CacheNow

\* Nobody can tell that the key space was looked at.
LEMMA PutBack ==
  ASSUME KvInv, NEW db \in Db, NEW k \in Key, NEW answer, Put(db, k, At(db, k), answer)
  PROVE  KvInv' /\ CacheNow' = CacheNow /\ now' = now /\ said' = answer
<1>1. KvInv' /\ C!Becomes(db, k, At(db, k), answer)
  BY AtIs, PutKeeps, PutBecomes
<1>2. CacheNow' = [CacheNow EXCEPT ![db][k] = At(db, k)] /\ now' = now /\ said' = answer
  BY <1>1 DEF C!Becomes, CacheNow
<1>3. [CacheNow EXCEPT ![db][k] = At(db, k)] = CacheNow
  BY DEF CacheNow
<1> QED
  BY <1>1, <1>2, <1>3

LEMMA RefusedIs ==
  ASSUME KvInv, NEW answer, Refused(answer)
  PROVE  KvInv' /\ CacheNow' = CacheNow /\ now' = now /\ said' = answer
<1>1. UNCHANGED <<now, spaces, up, seeded>> /\ said' = answer
  BY DEF Refused
<1> QED
  BY <1>1 DEF KvInv, EmptyOnlyAsSeeded, Whole, CacheNow, At, Empty

\* Answers that say nothing of any key.
LEMMA PlainlyTold ==
  ASSUME CacheNow' = CacheNow, now' = now, said' \in {<<"error">>, <<"nil">>, <<"ok">>}
  PROVE  CacheStep
BY DEF CacheStep, C!Next, C!Tell, CacheNow

\* A cache counts as the key space does.
LEMMA SameCount ==
  ASSUME NEW S
  PROVE  C!Cardinality(S) = Cardinality(S)
BY DEF C!Cardinality, Cardinality

\* Answers that say what a key holds, of which kind it is, or how many there are.
LEMMA KeyTold ==
  ASSUME CacheNow' = CacheNow, now' = now, NEW db \in Db, NEW k \in Key,
         \/ At(db, k) # Absent /\ said' = At(db, k).is
         \/ said' = <<"type", Kind(At(db, k))>>
         \/ \E n \in 0 .. 2 * Cardinality(Key) : said' = <<"number", n>>
  PROVE  CacheStep
<1> DEFINE e == [d \in Db |-> [j \in Key |-> At(d, j)]][db][k]
<1>1. e = At(db, k) /\ C!None = Absent /\ C!Kind(e) = Kind(e)
  BY DEF C!None, Absent, C!Kind, Kind
<1>2. \/ e # C!None /\ said' = e.is
      \/ said' = <<"type", C!Kind(e)>>
      \/ said' \in {<<"number", n>> : n \in 0 .. 2 * C!Cardinality(Key)}
  BY <1>1, SameCount
<1>3. UNCHANGED <<now, [d \in Db |-> [j \in Key |-> At(d, j)]]>>
  BY DEF CacheNow
<1> DEFINE T(d, j) ==
             LET x == [dd \in Db |-> [jj \in Key |-> At(dd, jj)]][d][j]
             IN \/ x # C!None /\ said' = x.is
                \/ said' = <<"type", C!Kind(x)>>
                \/ said' \in {<<"number", n>> : n \in 0 .. 2 * C!Cardinality(Key)}
                \/ /\ said'[1] = "ttl"
                   /\ CASE x = C!None -> said'[2] = -2
                        [] x # C!None /\ x.dies = 0 -> said'[2] = -1
                        [] OTHER -> said'[2] \in 0 .. x.dies - now
<1>4. T(db, k)
  BY <1>2
<1>5. \E d \in Db, j \in Key : T(d, j)
  <2> HIDE DEF T
  <2> QED
    BY <1>4
<1>6. C!Tell
  BY <1>3, <1>5 DEF C!Tell
<1> QED
  BY <1>6 DEF CacheStep, C!Next

LEMMA WrongTypeStep ==
  ASSUME KvInv, NEW db \in Db, NEW k \in Key, NEW want, WrongType(db, k, want)
  PROVE  KvInv' /\ CacheStep
<1>1. Put(db, k, At(db, k), <<"error">>)
  BY DEF WrongType
<1> QED
  BY <1>1, PutBack, PlainlyTold

LEMMA GetStep ==
  ASSUME KvInv, NEW db \in Db, NEW k \in Key, Get(db, k)
  PROVE  KvInv' /\ CacheStep
<1>1. CASE WrongType(db, k, "string")
  BY <1>1, WrongTypeStep
<1>2. CASE Put(db, k, At(db, k), <<"nil">>)
  BY <1>2, PutBack, PlainlyTold
<1>3. CASE At(db, k) # Absent /\ Put(db, k, At(db, k), At(db, k).is)
  BY <1>3, PutBack, KeyTold
<1> QED
  BY <1>1, <1>2, <1>3 DEF Get

LEMMA MGetStep ==
  ASSUME KvInv, NEW db \in Db, NEW k \in Key, MGet(db, k)
  PROVE  KvInv' /\ CacheStep
<1>1. CASE Put(db, k, At(db, k), <<"nil">>)
  BY <1>1, PutBack, PlainlyTold
<1>2. CASE Kind(At(db, k)) = "string" /\ Put(db, k, At(db, k), At(db, k).is)
  <2>1. At(db, k) # Absent
    BY <1>2 DEF Kind, Absent
  <2> QED
    BY <1>2, <2>1, PutBack, KeyTold
<1> QED
  BY <1>1, <1>2 DEF MGet

LEMMA ReadAllStep ==
  ASSUME KvInv, NEW db \in Db, NEW k \in Key, NEW kind, ReadAll(db, k, kind)
  PROVE  KvInv' /\ CacheStep
<1>1. CASE WrongType(db, k, kind)
  BY <1>1, WrongTypeStep
<1>2. CASE Put(db, k, At(db, k), <<"nil">>)
  BY <1>2, PutBack, PlainlyTold
<1>3. CASE At(db, k) # Absent /\ Put(db, k, At(db, k), At(db, k).is)
  BY <1>3, PutBack, KeyTold
<1> QED
  BY <1>1, <1>2, <1>3 DEF ReadAll

----------------------------------------------------------------------------
(* Commands that change what one key holds *)

\* The key space and the cache speak of the same things.
LEMMA SameTerms ==
  /\ C!None = Absent /\ C!Text = Text /\ C!Number = Number /\ C!Deadlines = Later
  /\ \A e : C!Kind(e) = Kind(e)
BY DEF C!None, Absent, C!Text, Text, C!Number, Number, Lowest, C!Deadlines, Later, C!Kind, Kind

\* Whatever a cache may do to a key is one of its steps.
LEMMA KeyChanged ==
  ASSUME NEW db \in Db, NEW k \in Key,
         \/ C!Store(db, k) \/ C!Swap(db, k) \/ C!Add(db, k) \/ C!Concatenate(db, k)
         \/ C!Push(db, k) \/ C!Pop(db, k) \/ C!Alter(db, k) \/ C!Remove(db, k)
         \/ C!Postpone(db, k)
  PROVE  CacheStep
BY DEF CacheStep, C!Next

\* An entry built of a value and a deadline still to come.
LEMMA BuiltIsFresh ==
  ASSUME KvInv, NEW db \in Db, NEW k \in Key, NEW v \in Value, v # Nothing,
         NEW d \in 0 .. MaxTime, d = 0 \/ d > now,
         v \notin {<<"list", <<>>>>, <<"hash", {}>>, <<"set", {}>>}
  PROVE  Fresh(db, k, [is |-> v, dies |-> d]) /\ Lasting([is |-> v, dies |-> d])
BY DEF Fresh, Lasting, Whole, Entry, Empty

LEMMA TextIs ==
  ASSUME NEW v \in Text
  PROVE  /\ v \in Value /\ v # Nothing
         /\ v \notin {<<"list", <<>>>>, <<"hash", {}>>, <<"set", {}>>}
<1>1. v \in Value /\ v[1] \in {"number", "text"}
  BY DEF Text, Value
<1> QED
  BY <1>1 DEF Nothing

LEMMA AtHolds ==
  ASSUME KvInv, NEW db \in Db, NEW k \in Key
  PROVE  /\ At(db, k).dies \in 0 .. MaxTime
         /\ At(db, k).dies = 0 \/ At(db, k).dies > now
         /\ At(db, k).is \in Value /\ At(db, k) \in Entry
         /\ At(db, k).is = Nothing <=> At(db, k) = Absent
<1> DEFINE e == At(db, k)
<1>1. e \in Entry /\ (e.is = Nothing => e.dies = 0) /\ (e.dies = 0 \/ e.dies > now)
  BY AtIs DEF Lasting, Whole
<1> HIDE DEF e
<1>2. e.dies \in 0 .. MaxTime /\ e.is \in Value /\ e = [is |-> e.is, dies |-> e.dies]
  BY <1>1 DEF Entry
<1>3. e.is = Nothing <=> e = Absent
  BY <1>1, <1>2 DEF Absent, Nothing
<1> QED
  BY <1>1, <1>2, <1>3 DEF e

\* What a key holds is replaced, and its deadline stays.
LEMMA Replaced ==
  ASSUME KvInv, NEW db \in Db, NEW k \in Key, NEW v
  PROVE  [At(db, k) EXCEPT !.is = v] = [is |-> v, dies |-> At(db, k).dies]
BY AtHolds DEF Entry

LEMMA TextStored ==
  ASSUME KvInv, NEW db \in Db, NEW k \in Key, NEW v \in Text,
         NEW d \in Later \cup {0, At(db, k).dies}, Put(db, k, [is |-> v, dies |-> d], <<"ok">>)
  PROVE  KvInv' /\ CacheStep
<1>1. d \in 0 .. MaxTime /\ (d = 0 \/ d > now)
  <2>1. now \in Nat /\ MaxTime \in Nat
    BY KeySpaceAssumption DEF KvInv
  <2>2. d \in Later => d \in 0 .. MaxTime /\ d > now
    BY <2>1 DEF Later
  <2> QED
    BY <2>1, <2>2, AtHolds
<1>2. Fresh(db, k, [is |-> v, dies |-> d]) /\ Lasting([is |-> v, dies |-> d])
  BY <1>1, TextIs, BuiltIsFresh
<1>3. KvInv' /\ C!Becomes(db, k, [is |-> v, dies |-> d], <<"ok">>)
  BY <1>2, PutKeeps, PutBecomes
<1>4. C!Store(db, k)
  <2>1. v \in C!Text /\ d \in C!Deadlines \cup {0, CacheNow[db][k].dies}
    BY SameTerms, CacheIs
  <2> QED
    BY <1>3, <2>1 DEF C!Store, CacheNow
<1> QED
  BY <1>3, <1>4, KeyChanged

LEMMA SetStep ==
  ASSUME KvInv, NEW db \in Db, NEW k \in Key, NEW v \in Text, NEW o \in Options, Set(db, k, v, o)
  PROVE  KvInv' /\ CacheStep
<1>1. CASE Refused(<<"error">>)
  BY <1>1, RefusedIs, PlainlyTold
<1>2. CASE Put(db, k, At(db, k), <<"nil">>)
  BY <1>2, PutBack, PlainlyTold
<1>3. CASE Put(db, k, [is |-> v, dies |-> IF o.dies # 0 THEN o.dies
                                          ELSE IF o.keep THEN At(db, k).dies ELSE 0], <<"ok">>)
  <2>1. o.dies \in Later \cup {0}
    BY DEF Options
  <2>2. PICK d \in Later \cup {0, At(db, k).dies} : Put(db, k, [is |-> v, dies |-> d], <<"ok">>)
    BY <1>3, <2>1
  <2> QED
    BY <2>2, TextStored
<1> QED
  BY <1>1, <1>2, <1>3 DEF Set

LEMMA SetExStep ==
  ASSUME KvInv, NEW db \in Db, NEW k \in Key, NEW v \in Text, SetEx(db, k, v)
  PROVE  KvInv' /\ CacheStep
<1>1. CASE Refused(<<"error">>)
  BY <1>1, RefusedIs, PlainlyTold
<1>2. CASE \E d \in Later : Put(db, k, [is |-> v, dies |-> d], <<"ok">>)
  BY <1>2, TextStored
<1> QED
  BY <1>1, <1>2 DEF SetEx

\* A key that fits a string is one for the cache too.
LEMMA FitsIs ==
  ASSUME NEW db \in Db, NEW k \in Key, NEW want, Fits(At(db, k), want)
  PROVE  C!Kind(CacheNow[db][k]) \in {"none", want}
<1>1. C!Kind(CacheNow[db][k]) = Kind(At(db, k))
  BY SameTerms, CacheIs
<1>2. Kind(Absent) = "none"
  BY DEF Kind, Absent
<1> QED
  BY <1>1, <1>2 DEF Fits

LEMMA GetSetStep ==
  ASSUME KvInv, NEW db \in Db, NEW k \in Key, NEW v \in Text, GetSet(db, k, v)
  PROVE  KvInv' /\ CacheStep
<1> DEFINE new == [is |-> v, dies |-> 0]
           answer == IF At(db, k) = Absent THEN <<"nil">> ELSE At(db, k).is
<1>1. CASE WrongType(db, k, "string")
  BY <1>1, WrongTypeStep
<1>2. CASE Fits(At(db, k), "string") /\ Put(db, k, new, answer)
  <2>1. Fresh(db, k, new) /\ Lasting(new)
    BY KeySpaceAssumption, TextIs, BuiltIsFresh
  <2>2. KvInv' /\ C!Becomes(db, k, new, answer)
    BY <1>2, <2>1, PutKeeps, PutBecomes
  <2>3. C!Kind(CacheNow[db][k]) \in {"none", "string"} /\ v \in C!Text
        /\ answer = IF CacheNow[db][k] = C!None THEN <<"nil">> ELSE CacheNow[db][k].is
    BY <1>2, FitsIs, SameTerms, CacheIs
  <2>4. C!Swap(db, k)
    <3> HIDE DEF answer
    <3> QED
      BY <2>2, <2>3 DEF C!Swap, CacheNow
  <2> QED
    BY <2>2, <2>4, KeyChanged
<1> QED
  BY <1>1, <1>2 DEF GetSet

LEMMA AppendToStep ==
  ASSUME KvInv, NEW db \in Db, NEW k \in Key, AppendTo(db, k)
  PROVE  KvInv' /\ CacheStep
<1> DEFINE new == [At(db, k) EXCEPT !.is = <<"text", 0>>]
<1>1. CASE WrongType(db, k, "string")
  BY <1>1, WrongTypeStep
<1>2. CASE Fits(At(db, k), "string") /\ Put(db, k, new, <<"length">>)
  <2>1. <<"text", 0>> \in Text /\ new = [is |-> <<"text", 0>>, dies |-> At(db, k).dies]
    BY Replaced DEF Text
  <2>2. Fresh(db, k, new) /\ Lasting(new)
    <3>1. Fresh(db, k, [is |-> <<"text", 0>>, dies |-> At(db, k).dies])
      BY <2>1, AtHolds, TextIs, BuiltIsFresh
    <3> QED
      BY <2>1, <3>1 DEF Fresh
  <2>3. KvInv' /\ C!Becomes(db, k, new, <<"length">>)
    BY <1>2, <2>2, PutKeeps, PutBecomes
  <2>4. C!Kind(CacheNow[db][k]) \in {"none", "string"} /\ CacheNow[db][k] = At(db, k)
    BY <1>2, FitsIs, CacheIs
  <2>5. C!Concatenate(db, k)
    BY <2>3, <2>4 DEF C!Concatenate, CacheNow
  <2> QED
    BY <2>3, <2>5, KeyChanged
<1> QED
  BY <1>1, <1>2 DEF AppendTo

\* A remainder, a turn below, within and a turn above the modulus.
LEMMA RemainderIs ==
  ASSUME NEW m \in Nat \ {0}, NEW x \in Int
  PROVE  /\ x % m \in 0 .. m - 1
         /\ x \in 0 .. m - 1 => x % m = x
         /\ x \in m .. 2 * m - 1 => x % m = x - m
         /\ x \in -m .. -1 => x % m = x + m
OBVIOUS

\* A sum that leaves the width is noticed, and one that does not is right.
LEMMA WrapIs ==
  ASSUME NEW current \in Number, NEW step \in Number, NEW total, total = Wrap(current + step)
  PROVE  total \in Number /\ (~Wrapped(total, current, step) => total = current + step)
<1> DEFINE m == 2 * (HighestInt + 1)
           x == (current + step) - Lowest
<1>1. /\ HighestInt \in Nat /\ m \in Nat \ {0} /\ Lowest = -HighestInt - 1 /\ x \in Int
      /\ current \in Int /\ step \in Int
      /\ Lowest <= current /\ current <= HighestInt /\ Lowest <= step /\ step <= HighestInt
  BY KeySpaceAssumption DEF Number, Lowest
<1>2. total = (x % m) + Lowest
  BY DEF Wrap
<1>3. x \in 0 .. m - 1 \/ x \in m .. 2 * m - 1 \/ x \in -m .. -1
  BY <1>1
<1>4. total \in Number
  <2>1. x % m \in 0 .. m - 1
    BY <1>1, RemainderIs
  <2> HIDE DEF x
  <2> QED
    BY <1>1, <1>2, <2>1 DEF Number
<1>5. CASE x \in 0 .. m - 1
  <2>1. x % m = x
    BY <1>1, <1>5, RemainderIs
  <2> QED
    BY <1>1, <1>2, <1>4, <2>1
<1>6. CASE x \in m .. 2 * m - 1
  <2>1. x % m = x - m
    BY <1>1, <1>6, RemainderIs
  <2>2. total = current + step - m /\ step > 0
    BY <1>1, <1>2, <1>6, <2>1
  <2>3. total < current
    BY <1>1, <2>2
  <2> QED
    BY <1>4, <2>2, <2>3 DEF Wrapped
<1>7. CASE x \in -m .. -1
  <2>1. x % m = x + m
    BY <1>1, <1>7, RemainderIs
  <2>2. total = current + step + m /\ step < 0
    BY <1>1, <1>2, <1>7, <2>1
  <2>3. total > current
    BY <1>1, <2>2
  <2> QED
    BY <1>4, <2>2, <2>3 DEF Wrapped
<1> QED
  BY <1>3, <1>5, <1>6, <1>7

LEMMA WrapOne ==
  ASSUME NEW n \in Int
  PROVE  Wrap(n) \in Number
<1> DEFINE m == 2 * (HighestInt + 1)
<1>1. HighestInt \in Nat /\ m \in Nat \ {0} /\ Lowest = -HighestInt - 1 /\ n - Lowest \in Int
  BY KeySpaceAssumption DEF Lowest
<1>2. (n - Lowest) % m \in 0 .. m - 1
  BY <1>1, RemainderIs
<1>3. Wrap(n) = ((n - Lowest) % m) + Lowest
  BY DEF Wrap
<1> QED
  BY <1>1, <1>2, <1>3 DEF Number

LEMMA IncrementStep ==
  ASSUME KvInv, NEW db \in Db, NEW k \in Key, NEW step \in Number, Increment(db, k, step)
  PROVE  KvInv' /\ CacheStep
<1> DEFINE e == At(db, k)
           current == e.is[2]
           total == Wrap(current + step)
           new == [e EXCEPT !.is = <<"number", total>>]
<1>1. CASE WrongType(db, k, "string")
  BY <1>1, WrongTypeStep
<1>2. CASE Put(db, k, e, <<"error">>)
  BY <1>2, PutBack, PlainlyTold
<1>3. CASE /\ e.is[1] \in {"none", "number"} /\ ~Wrapped(total, current, step)
           /\ Put(db, k, new, <<"sum", current, step>>)
  <2>1. current \in Number
    <3>1. CASE e.is[1] = "none"
      <4>1. current = 0
        BY <3>1, AtHolds, ValueIs DEF Nothing
      <4> QED
        BY <4>1, KeySpaceAssumption DEF Number, Lowest
    <3>2. CASE e.is[1] = "number"
      BY <3>2, AtHolds, ValueIs
    <3> QED
      BY <1>3, <3>1, <3>2
  <2>2. total \in Number /\ total = current + step /\ current \in Int /\ step \in Int
    BY <1>3, <2>1, WrapIs DEF Number
  <2> HIDE DEF total
  <2>3. <<"number", total>> \in Text /\ new = [is |-> <<"number", total>>, dies |-> e.dies]
    BY <2>2, Replaced DEF Text
  <2>4. Fresh(db, k, new) /\ Lasting(new)
    <3>1. Fresh(db, k, [is |-> <<"number", total>>, dies |-> e.dies])
      BY <2>3, AtHolds, TextIs, BuiltIsFresh
    <3> QED
      BY <2>3, <3>1 DEF Fresh
  <2>5. KvInv' /\ C!Becomes(db, k, new, <<"sum", current, step>>)
    BY <1>3, <2>4, PutKeeps, PutBecomes
  <2>6. step = total - current
    BY <2>2
  <2>7. CacheNow[db][k] = e /\ total \in C!Number
    BY <2>2, SameTerms, CacheIs
  <2>8. C!Becomes(db, k, [CacheNow[db][k] EXCEPT !.is = <<"number", total>>],
                  <<"sum", CacheNow[db][k].is[2], total - CacheNow[db][k].is[2]>>)
    BY <2>5, <2>6, <2>7
  <2>9. CacheNow[db][k].is[1] \in {"none", "number"}
    BY <1>3, <2>7
  <2>10. C!Add(db, k)
    BY <2>7, <2>8, <2>9 DEF C!Add, CacheNow
  <2> QED
    BY <2>5, <2>10, KeyChanged
<1> QED
  BY <1>1, <1>2, <1>3 DEF Increment

LEMMA DecrementByStep ==
  ASSUME KvInv, NEW db \in Db, NEW k \in Key, NEW step \in Number, DecrementBy(db, k, step)
  PROVE  KvInv' /\ CacheStep
<1>1. CASE Refused(<<"error">>)
  BY <1>1, RefusedIs, PlainlyTold
<1>2. CASE Increment(db, k, Wrap(-step))
  <2>1. -step \in Int
    BY DEF Number
  <2> QED
    BY <1>2, <2>1, WrapOne, IncrementStep
<1> QED
  BY <1>1, <1>2 DEF DecrementBy

----------------------------------------------------------------------------
(* Commands about keys *)

LEMMA CountIs ==
  ASSUME NEW S \in SUBSET Key
  PROVE  /\ Cardinality(S) \in 0 .. 2 * Cardinality(Key)
         /\ S # {} => Cardinality(Key) > 0
<1>1. IsFiniteSet(S) /\ IsFiniteSet(Key) /\ Cardinality(S) <= Cardinality(Key)
  BY KeySpaceAssumption, FS_Subset
<1>2. Cardinality(S) \in Nat /\ Cardinality(Key) \in Nat
  BY <1>1, FS_CardinalityType
<1>3. S # {} => Cardinality(S) # 0
  BY <1>1, FS_EmptySet
<1> QED
  BY <1>1, <1>2, <1>3

LEMMA ExistsStep ==
  ASSUME KvInv, NEW db \in Db, NEW k \in Key, NEW times \in {1, 2}, Exists(db, k, times)
  PROVE  KvInv' /\ CacheStep
<1>1. PICK n \in {0, times} \cup 0 .. times : Put(db, k, At(db, k), <<"number", n>>)
  BY DEF Exists
<1>2. n \in 0 .. 2 * Cardinality(Key)
  <2>1. Cardinality(Key) > 0 /\ Cardinality(Key) \in Nat
    BY KeySpaceAssumption, CountIs, FS_CardinalityType
  <2> QED
    BY <2>1
<1>3. CacheNow' = CacheNow /\ now' = now /\ KvInv' /\ said' = <<"number", n>>
  BY <1>1, PutBack DEF Put
<1> QED
  BY <1>2, <1>3, KeyTold

LEMMA TypeOfStep ==
  ASSUME KvInv, NEW db \in Db, NEW k \in Key, TypeOf(db, k)
  PROVE  KvInv' /\ CacheStep
<1>1. Put(db, k, At(db, k), <<"type", Kind(At(db, k))>>)
  BY DEF TypeOf
<1> QED
  BY <1>1, PutBack, KeyTold

\* How long a key has to live, which a second may have taken one off.
LEMMA TtlTold ==
  ASSUME CacheNow' = CacheNow, now' = now, NEW db \in Db, NEW k \in Key,
         NEW n, said' = <<"ttl", n>>,
         \/ At(db, k) = Absent /\ n = -2
         \/ At(db, k) # Absent /\ At(db, k).dies = 0 /\ n = -1
         \/ At(db, k) # Absent /\ At(db, k).dies # 0 /\ n \in 0 .. At(db, k).dies - now
  PROVE  CacheStep
<1> DEFINE T(d, j) ==
             LET x == [dd \in Db |-> [jj \in Key |-> At(dd, jj)]][d][j]
             IN \/ x # C!None /\ said' = x.is
                \/ said' = <<"type", C!Kind(x)>>
                \/ said' \in {<<"number", nn>> : nn \in 0 .. 2 * C!Cardinality(Key)}
                \/ /\ said'[1] = "ttl"
                   /\ CASE x = C!None -> said'[2] = -2
                        [] x # C!None /\ x.dies = 0 -> said'[2] = -1
                        [] OTHER -> said'[2] \in 0 .. x.dies - now
<1>1. C!None = Absent /\ said'[1] = "ttl" /\ said'[2] = n
  BY SameTerms
<1>2. T(db, k)
  BY <1>1
<1>3. \E d \in Db, j \in Key : T(d, j)
  <2> HIDE DEF T
  <2> QED
    BY <1>2
<1>4. UNCHANGED <<now, [d \in Db |-> [j \in Key |-> At(d, j)]]>>
  BY DEF CacheNow
<1>5. C!Tell
  BY <1>3, <1>4 DEF C!Tell
<1> QED
  BY <1>5 DEF CacheStep, C!Next

LEMMA TtlStep ==
  ASSUME KvInv, NEW db \in Db, NEW k \in Key, Ttl(db, k)
  PROVE  KvInv' /\ CacheStep
<1> DEFINE e == At(db, k)
<1>1. PICK passed \in {0, 1} :
        Put(db, k, e, <<"ttl", CASE e = Absent -> -2
                                 [] e # Absent /\ e.dies = 0 -> -1
                                 [] OTHER -> e.dies - now - passed>>)
  BY DEF Ttl
<1> DEFINE n == CASE e = Absent -> -2
                  [] e # Absent /\ e.dies = 0 -> -1
                  [] OTHER -> e.dies - now - passed
<1>2. now \in Nat /\ MaxTime \in Nat /\ e.dies \in 0 .. MaxTime /\ (e.dies = 0 \/ e.dies > now)
  BY KeySpaceAssumption, AtHolds DEF KvInv
<1> HIDE DEF e
<1>3. e = Absent => n = -2
  OBVIOUS
<1>4. e # Absent /\ e.dies = 0 => n = -1
  OBVIOUS
<1>5. e # Absent /\ e.dies # 0 => n = e.dies - now - passed
  OBVIOUS
<1>6. e # Absent /\ e.dies # 0 => n \in 0 .. e.dies - now
  BY <1>2, <1>5
<1> HIDE DEF n
<1>7. KvInv' /\ CacheNow' = CacheNow /\ now' = now /\ said' = <<"ttl", n>>
  BY <1>1, PutBack DEF n, e
<1> QED
  BY <1>3, <1>4, <1>6, <1>7, TtlTold DEF e

LEMMA ExpireStep ==
  ASSUME KvInv, NEW db \in Db, NEW k \in Key, Expire(db, k)
  PROVE  KvInv' /\ CacheStep
<1> DEFINE e == At(db, k)
<1>1. CASE Refused(<<"error">>)
  BY <1>1, RefusedIs, PlainlyTold
<1>2. CASE e = Absent /\ Put(db, k, e, <<"number", 0>>)
  <2>1. 0 \in 0 .. 2 * Cardinality(Key)
    <3>1. Cardinality(Key) \in Nat
      BY KeySpaceAssumption, FS_CardinalityType
    <3> QED
      BY <3>1
  <2> QED
    BY <1>2, <2>1, PutBack, KeyTold
<1>3. CASE e # Absent /\ Put(db, k, Absent, <<"number", 1>>)
  <2>1. KvInv' /\ C!Becomes(db, k, Absent, <<"number", 1>>)
    BY <1>3, NothingIsWhole, PutKeeps, PutBecomes DEF Fresh
  <2>2. C!Remove(db, k)
    <3>1. CacheNow[db][k] # C!None /\ C!None = Absent
      BY <1>3, CacheIs, SameTerms
    <3> QED
      BY <2>1, <3>1 DEF C!Remove, CacheNow
  <2> QED
    BY <2>1, <2>2, KeyChanged
<1>4. CASE Put(db, k, e, <<"error">>)
  BY <1>4, PutBack, PlainlyTold
<1>5. CASE e # Absent /\ \E d \in Later : Put(db, k, [e EXCEPT !.dies = d], <<"number", 1>>)
  <2>1. PICK d \in Later : Put(db, k, [e EXCEPT !.dies = d], <<"number", 1>>)
    BY <1>5
  <2> DEFINE new == [e EXCEPT !.dies = d]
  <2>2. e \in Entry /\ e.is # Nothing
    BY <1>5, AtHolds
  <2>3. d \in 0 .. MaxTime /\ d > now
    BY KeySpaceAssumption DEF Later, KvInv
  <2>4. new \in Entry /\ new.is = e.is /\ new.dies = d
    <3> HIDE DEF e
    <3> QED
      BY <2>2, <2>3 DEF Entry
  <2> HIDE DEF new
  <2>5. Fresh(db, k, new) /\ Lasting(new)
    BY <2>2, <2>3, <2>4 DEF Fresh, Lasting, Whole
  <2>6. KvInv' /\ C!Becomes(db, k, new, <<"number", 1>>)
    BY <2>1, <2>5, PutKeeps, PutBecomes DEF new
  <2>7. CacheNow[db][k] # C!None /\ d \in C!Deadlines /\ new = [CacheNow[db][k] EXCEPT !.dies = d]
    BY <1>5, CacheIs, SameTerms DEF new
  <2>8. C!Postpone(db, k)
    BY <2>6, <2>7 DEF C!Postpone, CacheNow
  <2> QED
    BY <2>6, <2>8, KeyChanged
<1> QED
  BY <1>1, <1>2, <1>3, <1>4, <1>5 DEF Expire

\* A command on several keys of a database: what they come to hold, and that
\* a cache would show.
Rewritten(db, Named, g) ==
  /\ spaces' = [spaces EXCEPT ![db] = [j \in Key |-> IF j \in Named THEN g[j] ELSE @[j]]]
  /\ UNCHANGED <<now, up, seeded>>
Shown(db, Named, g) ==
  CacheNow' = [CacheNow EXCEPT ![db] = [j \in Key |-> IF j \in Named THEN g[j] ELSE @[j]]]
AllFresh(db, Named, g) == \A j \in Named : Fresh(db, j, g[j])

LEMMA Several ==
  ASSUME KvInv, NEW db \in Db, NEW Named \in SUBSET Key, NEW g,
         AllFresh(db, Named, g), Rewritten(db, Named, g)
  PROVE  KvInv' /\ Shown(db, Named, g)
<1> USE DEF AllFresh, Rewritten, Shown
<1>1. spaces \in [Db -> [Key -> Entry]] /\ now \in Nat
  BY KeySpaceAssumption DEF KvInv
<1>2. \A j \in Named : /\ Whole(g[j]) /\ g[j] \in Entry
                       /\ g[j].dies = 0 \/ g[j].dies > now
                       /\ Empty(g[j]) => g[j].is = At(db, j).is
  BY DEF Fresh, Lasting, Whole
<1>3. \A d \in Db, j \in Key :
        spaces'[d][j] = IF d = db /\ j \in Named THEN g[j] ELSE spaces[d][j]
  BY <1>1
<1>4. spaces' \in [Db -> [Key -> Entry]]
  BY <1>1, <1>2
<1>5. \A d \in Db, j \in Key : Whole(spaces'[d][j])
  BY <1>2, <1>3 DEF KvInv
<1>6. \A j \in Named : Empty(g[j]) => db = 0 /\ g[j].is = seeded[j].is
  <2>1. ASSUME NEW j \in Named, Empty(g[j]) PROVE db = 0 /\ g[j].is = seeded[j].is
    <3>1. g[j].is = At(db, j).is /\ j \in Key
      BY <1>2, <2>1
    <3>2. Empty(At(db, j))
      BY <2>1, <3>1 DEF Empty
    <3> QED
      BY <3>1, <3>2, AtIs
  <2> QED
    BY <2>1
<1>7. \A d \in Db, j \in Key : Empty(spaces'[d][j]) => d = 0 /\ spaces'[d][j].is = seeded[j].is
  BY <1>3, <1>6 DEF KvInv, EmptyOnlyAsSeeded
<1>8. EmptyOnlyAsSeeded'
  BY <1>7 DEF KvInv, EmptyOnlyAsSeeded, Empty
<1>9. KvInv'
  BY <1>4, <1>5, <1>8 DEF KvInv, Whole
<1>10. \A d \in Db, j \in Key : At(d, j)' = IF d = db /\ j \in Named THEN g[j] ELSE At(d, j)
  <2>1. ASSUME NEW d \in Db, NEW j \in Key
        PROVE  At(d, j)' = IF d = db /\ j \in Named THEN g[j] ELSE At(d, j)
    <3>1. CASE d = db /\ j \in Named
      <4>1. spaces'[d][j] = g[j] /\ g[j].dies \in Nat /\ (g[j].dies = 0 \/ g[j].dies > now)
        BY <1>2, <1>3, <3>1 DEF Entry
      <4> QED
        BY <1>1, <3>1, <4>1 DEF At
    <3>2. CASE ~(d = db /\ j \in Named)
      BY <1>3, <3>2 DEF At
    <3> QED
      BY <3>1, <3>2
  <2> QED
    BY <2>1
<1>11. CacheNow' = [d \in Db |-> [j \in Key |-> IF d = db /\ j \in Named THEN g[j] ELSE At(d, j)]]
  BY <1>10 DEF CacheNow
<1>12. [CacheNow EXCEPT ![db] = [j \in Key |-> IF j \in Named THEN g[j] ELSE @[j]]]
         = [d \in Db |-> [j \in Key |-> IF d = db /\ j \in Named THEN g[j] ELSE At(d, j)]]
  BY DEF CacheNow
<1> QED
  BY <1>9, <1>11, <1>12

\* The same entry for each of them.
LEMMA SeveralSame ==
  ASSUME KvInv, NEW db \in Db, NEW Named \in SUBSET Key, NEW e,
         \A j \in Named : Fresh(db, j, e),
         spaces' = [spaces EXCEPT ![db] = [j \in Key |-> IF j \in Named THEN e ELSE @[j]]],
         UNCHANGED <<now, up, seeded>>
  PROVE  /\ KvInv'
         /\ CacheNow' = [CacheNow EXCEPT ![db] = [j \in Key |-> IF j \in Named THEN e ELSE @[j]]]
<1> DEFINE g == [j \in Key |-> e]
<1>1. \A j \in Named : g[j] = e
  OBVIOUS
<1>2. AllFresh(db, Named, g)
  BY <1>1 DEF AllFresh
<1> HIDE DEF g
<1>3. [j \in Key |-> IF j \in Named THEN e ELSE spaces[db][j]]
        = [j \in Key |-> IF j \in Named THEN g[j] ELSE spaces[db][j]]
  BY <1>1
<1>4. Rewritten(db, Named, g)
  BY <1>3 DEF Rewritten
<1>5. KvInv' /\ Shown(db, Named, g)
  BY <1>2, <1>4, Several
<1>6. [j \in Key |-> IF j \in Named THEN g[j] ELSE CacheNow[db][j]]
        = [j \in Key |-> IF j \in Named THEN e ELSE CacheNow[db][j]]
  BY <1>1
<1> QED
  BY <1>5, <1>6 DEF Shown

LEMMA MSetStep ==
  ASSUME KvInv, NEW db \in Db, NEW Named \in SUBSET Key, NEW v \in Text, MSet(db, Named, v)
  PROVE  KvInv' /\ CacheStep
<1> DEFINE new == [is |-> v, dies |-> 0]
<1>1. \A j \in Named : Fresh(db, j, new)
  BY KeySpaceAssumption, TextIs, BuiltIsFresh
<1>2. /\ spaces' = [spaces EXCEPT ![db] = [j \in Key |-> IF j \in Named THEN new ELSE @[j]]]
      /\ said' = <<"ok">> /\ UNCHANGED <<now, up, seeded>>
  BY DEF MSet
<1> HIDE DEF new
<1>3. /\ KvInv'
      /\ CacheNow' = [CacheNow EXCEPT ![db] = [j \in Key |-> IF j \in Named THEN new ELSE @[j]]]
  BY <1>1, <1>2, SeveralSame
<1>4. C!StoreAll(db)
  BY <1>2, <1>3, SameTerms DEF C!StoreAll, CacheNow, new
<1> QED
  BY <1>3, <1>4 DEF CacheStep, C!Next

\* The named keys hold nothing afterwards.
LEMMA SeveralAbsent ==
  ASSUME KvInv, NEW db \in Db, NEW Named \in SUBSET Key,
         spaces' = [spaces EXCEPT ![db] = [j \in Key |-> IF j \in Named THEN Absent ELSE @[j]]],
         UNCHANGED <<now, up, seeded>>
  PROVE  /\ KvInv'
         /\ CacheNow' = [CacheNow EXCEPT ![db] =
                            [j \in Key |-> IF j \in Named THEN C!None ELSE @[j]]]
<1>1. \A j \in Named : Fresh(db, j, Absent)
  BY NothingIsWhole DEF Fresh
<1>2. /\ KvInv'
      /\ CacheNow' = [CacheNow EXCEPT ![db] = [j \in Key |-> IF j \in Named THEN Absent ELSE @[j]]]
  BY <1>1, SeveralSame
<1> QED
  BY <1>2, SameTerms

\* They do so whatever is answered, and the answer is right.
LEMMA AllRemoved ==
  ASSUME KvInv, NEW db \in Db, NEW Named \in SUBSET Key, NEW late \in SUBSET Ending(db, Named),
         spaces' = [spaces EXCEPT ![db] = [j \in Key |-> IF j \in Named THEN Absent ELSE @[j]]],
         said' \in {<<"ok">>, <<"number", Cardinality(Live(db, Named \ late))>>},
         UNCHANGED <<now, up, seeded>>
  PROVE  KvInv' /\ CacheStep
<1>1. /\ KvInv'
      /\ CacheNow' = [CacheNow EXCEPT ![db] =
                        [j \in Key |-> IF j \in Named THEN C!None ELSE @[j]]]
  BY SeveralAbsent
<1>2. said' \in {<<"ok">>,
                <<"number", C!Cardinality({j \in Named \ late : CacheNow[db][j] # C!None})>>}
  <2>1. {j \in Named \ late : CacheNow[db][j] # C!None} = Live(db, Named \ late)
    BY CacheIs, SameTerms DEF Live
  <2>2. C!Cardinality(Live(db, Named \ late)) = Cardinality(Live(db, Named \ late))
    BY SameCount
  <2> QED
    BY <2>1, <2>2
<1>3. late \in SUBSET {j \in Named : CacheNow[db][j].dies = now + 1}
  <2>1. ASSUME NEW j \in late PROVE j \in Named /\ CacheNow[db][j].dies = now + 1
    <3>1. j \in Named /\ j \in Key /\ spaces[db][j].dies = now + 1
      BY DEF Ending
    <3>2. now \in Nat
      BY KeySpaceAssumption DEF KvInv
    <3>3. At(db, j) = spaces[db][j]
      BY <3>1, <3>2 DEF At
    <3> QED
      BY <3>1, <3>3, CacheIs
  <2> QED
    BY <2>1
<1>4. C!RemoveAll(db)
  <2>1. said' = <<"ok">> \/ \E l \in SUBSET {j \in Named : CacheNow[db][j].dies = now + 1} :
          said' = <<"number", C!Cardinality({j \in Named \ l : CacheNow[db][j] # C!None})>>
    BY <1>2, <1>3
  <2> QED
    BY <1>1, <2>1 DEF C!RemoveAll, CacheNow
<1> QED
  BY <1>1, <1>4 DEF CacheStep, C!Next

LEMMA DelStep ==
  ASSUME KvInv, NEW db \in Db, NEW Named \in SUBSET Key, Del(db, Named)
  PROVE  KvInv' /\ CacheStep
<1>1. PICK late \in SUBSET Ending(db, Named) :
        said' = <<"number", Cardinality(Live(db, Named \ late))>>
  BY DEF Del, Counts
<1> QED
  BY <1>1, AllRemoved DEF Del

LEMMA FlushDbStep ==
  ASSUME KvInv, NEW db \in Db, FlushDb(db)
  PROVE  KvInv' /\ CacheStep
<1>1. [j \in Key |-> IF j \in Key THEN Absent ELSE spaces[db][j]] = [j \in Key |-> Absent]
  OBVIOUS
<1>2. spaces' = [spaces EXCEPT ![db] = [j \in Key |-> IF j \in Key THEN Absent ELSE @[j]]]
      /\ said' = <<"ok">> /\ UNCHANGED <<now, up, seeded>>
  BY <1>1 DEF FlushDb
<1>3. {} \in SUBSET Ending(db, Key)
  OBVIOUS
<1> QED
  BY <1>2, <1>3, AllRemoved

\* KEYS clears away what is past its time, and nobody can tell.
LEMMA KeysStep ==
  ASSUME KvInv, NEW db \in Db, Keys(db)
  PROVE  KvInv' /\ CacheStep
<1> DEFINE g == [j \in Key |-> At(db, j)]
<1>1. /\ spaces' = [spaces EXCEPT ![db] = g] /\ UNCHANGED <<now, up, seeded>>
      /\ said' \in {<<"number", n>> : n \in Counts(db, Key)}
  BY DEF Keys
<1>9. PICK late \in SUBSET Ending(db, Key) :
        said' = <<"number", Cardinality(Live(db, Key \ late))>>
  BY <1>1 DEF Counts
<1>2. AllFresh(db, Key, g)
  BY AtIs DEF AllFresh
<1>3. /\ [j \in Key |-> IF j \in Key THEN g[j] ELSE spaces[db][j]] = g
      /\ [j \in Key |-> IF j \in Key THEN g[j] ELSE CacheNow[db][j]] = CacheNow[db]
  BY DEF CacheNow
<1> HIDE DEF g
<1>4. Rewritten(db, Key, g)
  BY <1>1, <1>3 DEF Rewritten
<1>5. KvInv' /\ Shown(db, Key, g)
  BY <1>2, <1>4, Several
<1>6. CacheNow' = CacheNow
  <2>1. CacheNow' = [CacheNow EXCEPT ![db] = CacheNow[db]]
    BY <1>3, <1>5 DEF Shown
  <2> QED
    BY <2>1 DEF CacheNow
<1>7. CASE Key # {}
  <2>1. PICK k \in Key : TRUE
    BY <1>7
  <2>2. Cardinality(Live(db, Key \ late)) \in 0 .. 2 * Cardinality(Key)
    BY CountIs DEF Live
  <2> QED
    BY <1>1, <1>5, <1>6, <1>9, <2>1, <2>2, KeyTold
<1>8. CASE Key = {}
  <2>1. /\ Live(db, Key \ late) = Live(db, {} \ late) /\ {} \in SUBSET Key
        /\ late \in SUBSET Ending(db, {})
    BY <1>8, <1>9
  <2>2. spaces' = [spaces EXCEPT ![db] = [j \in Key |-> IF j \in {} THEN Absent ELSE @[j]]]
    BY <1>1, <1>8 DEF g
  <2> QED
    BY <1>1, <1>9, <2>1, <2>2, AllRemoved
<1> QED
  BY <1>7, <1>8

----------------------------------------------------------------------------
(* Lists, hashes and sets *)

\* A collection takes the place of what the key holds, or the key goes when
\* the collection is empty.
Emptied(v) == v \in {<<"list", <<>>>>, <<"hash", {}>>, <<"set", {}>>}

LEMMA CollectionIs ==
  ASSUME KvInv, NEW db \in Db, NEW k \in Key, NEW v \in Value, v # Nothing, NEW new,
         new = [At(db, k) EXCEPT !.is = v]
  PROVE  /\ ~Emptied(v) => Fresh(db, k, new) /\ Lasting(new)
         /\ Prune(new) = IF Emptied(v) THEN Absent ELSE new
         /\ Fresh(db, k, Prune(new)) /\ Lasting(Prune(new))
<1>1. new = [is |-> v, dies |-> At(db, k).dies]
  BY Replaced
<1>2. new.is = v
  BY <1>1
<1>3. Prune(new) = IF Emptied(v) THEN Absent ELSE new
  BY <1>2 DEF Prune, Empty, Emptied
<1>4. ASSUME ~Emptied(v) PROVE Fresh(db, k, new) /\ Lasting(new)
  <2>1. Fresh(db, k, [is |-> v, dies |-> At(db, k).dies])
    BY <1>4, AtHolds, BuiltIsFresh DEF Emptied
  <2> QED
    BY <1>1, <2>1 DEF Fresh
<1>5. Fresh(db, k, Absent) /\ Lasting(Absent)
  BY NothingIsWhole DEF Fresh
<1> QED
  BY <1>3, <1>4, <1>5

LEMMA ListIs ==
  ASSUME NEW s \in Seq(Item)
  PROVE  /\ <<"list", s>> \in Value /\ <<"list", s>> # Nothing
         /\ Emptied(<<"list", s>>) <=> s = <<>>
<1>1. <<"list", s>> \in Value
  BY DEF Value
<1> QED
  BY <1>1 DEF Nothing, Emptied

LEMMA MembersAre ==
  ASSUME NEW s \in SUBSET Item, NEW kind \in {"hash", "set"}
  PROVE  /\ <<kind, s>> \in Value /\ <<kind, s>> # Nothing
         /\ Emptied(<<kind, s>>) <=> s = {}
<1>1. <<kind, s>> \in Value
  BY DEF Value
<1> QED
  BY <1>1 DEF Nothing, Emptied

\* What a key that fits a collection holds.
LEMMA HeldIs ==
  ASSUME KvInv, NEW db \in Db, NEW k \in Key, NEW kind \in {"list", "hash", "set"},
         Kind(At(db, k)) = kind
  PROVE  /\ At(db, k).is = <<kind, At(db, k).is[2]>> /\ At(db, k) # Absent
         /\ kind = "list" => At(db, k).is[2] \in Seq(Item)
         /\ kind \in {"hash", "set"} => At(db, k).is[2] \in SUBSET Item
<1>1. At(db, k).is[1] = kind
  BY DEF Kind
<1>2. At(db, k).is \in Value
  BY AtHolds
<1>3. At(db, k) # Absent
  BY <1>1 DEF Absent
<1> QED
  BY <1>1, <1>2, <1>3, ValueIs

LEMMA PushStep ==
  ASSUME KvInv, NEW db \in Db, NEW k \in Key, NEW x \in Item, NEW front \in BOOLEAN,
         Push(db, k, x, front)
  PROVE  KvInv' /\ CacheStep
<1> DEFINE e == At(db, k)
           old == IF e = Absent THEN <<>> ELSE e.is[2]
           list == IF front THEN <<x>> \o old ELSE Append(old, x)
           new == [e EXCEPT !.is = <<"list", list>>]
<1>1. CASE WrongType(db, k, "list")
  BY <1>1, WrongTypeStep
<1>2. CASE Fits(e, "list") /\ Put(db, k, new, <<"number", Len(old) + 1>>)
  <2>1. old \in Seq(Item)
    <3>1. CASE e = Absent
      BY <3>1
    <3>2. CASE e # Absent
      BY <1>2, <3>2, HeldIs DEF Fits
    <3> QED
      BY <3>1, <3>2
  <2>2. CacheNow[db][k] = e /\ C!None = Absent /\ C!Kind(e) \in {"none", "list"}
    BY <1>2, CacheIs, SameTerms, FitsIs
  <2>3. old = IF CacheNow[db][k] = C!None THEN <<>> ELSE CacheNow[db][k].is[2]
    BY <2>2
  <2> HIDE DEF old, e
  <2>4. list \in Seq(Item) /\ list # <<>> /\ list \in {<<x>> \o old, Append(old, x)}
    BY <2>1
  <2> HIDE DEF list
  <2>5. Fresh(db, k, new) /\ Lasting(new)
    <3>1. <<"list", list>> \in Value /\ <<"list", list>> # Nothing /\ ~Emptied(<<"list", list>>)
      BY <2>4, ListIs
    <3> QED
      BY <3>1, CollectionIs DEF e
  <2> HIDE DEF new
  <2>6. KvInv' /\ C!Becomes(db, k, new, <<"number", Len(old) + 1>>)
    BY <1>2, <2>5, PutKeeps, PutBecomes
  <2>7. C!Push(db, k)
    BY <2>2, <2>3, <2>4, <2>6 DEF C!Push, CacheNow, new
  <2> QED
    BY <2>6, <2>7, KeyChanged
<1> QED
  BY <1>1, <1>2 DEF Push

\* Both ends of a list, in the words of the cache.
LEMMA EndsAre ==
  ASSUME NEW old \in Seq(Item), old # <<>>, NEW front \in BOOLEAN
  PROVE  \E left \in {1, 2} :
           /\ (IF front THEN Tail(old) ELSE SubSeq(old, 1, Len(old) - 1))
                = SubSeq(old, left, Len(old) + left - 2)
           /\ SubSeq(old, left, Len(old) + left - 2) \in Seq(Item)
           /\ (IF front THEN Head(old) ELSE old[Len(old)])
                = old[IF left = 2 THEN 1 ELSE Len(old)]
<1>1. Len(old) \in Nat /\ Len(old) > 0
  OBVIOUS
<1>2. CASE front
  <2>1. Len(old) + 2 - 2 = Len(old)
    BY <1>1
  <2>2. Tail(old) = SubSeq(old, 2, Len(old)) /\ Tail(old) \in Seq(Item) /\ Head(old) = old[1]
    BY <1>1
  <2> QED
    BY <1>2, <2>1, <2>2
<1>3. CASE ~front
  <2>1. Len(old) + 1 - 2 = Len(old) - 1
    BY <1>1
  <2>2. SubSeq(old, 1, Len(old) - 1) \in Seq(Item)
    BY <1>1
  <2> QED
    BY <1>3, <2>1, <2>2
<1> QED
  BY <1>2, <1>3

\* A list that is there and empty was seeded so: the panic of pop.
LEMMA PopPanics ==
  ASSUME KvInv, NEW db \in Db, NEW k \in Key, Kind(At(db, k)) = "list", At(db, k).is[2] = <<>>,
         up' = FALSE, UNCHANGED <<now, spaces, said, seeded>>
  PROVE  KvInv' /\ CacheStep
<1>1. At(db, k).is = <<"list", <<>>>>
  BY HeldIs
<1>2. Empty(At(db, k))
  BY <1>1 DEF Empty
<1>3. At(db, k).is = seeded[k].is
  BY <1>2, AtIs
<1>4. Empty(seeded[k])
  BY <1>2, <1>3 DEF Empty
<1>5. EmptyOnlyAsSeeded'
  BY <1>4 DEF KvInv, EmptyOnlyAsSeeded, Empty
<1>6. KvInv'
  BY <1>5 DEF KvInv, Whole
<1> QED
  BY <1>6 DEF CacheStep, CacheNow, At

LEMMA PopStep ==
  ASSUME KvInv, NEW db \in Db, NEW k \in Key, NEW front \in BOOLEAN, Pop(db, k, front)
  PROVE  KvInv' /\ CacheStep
<1> DEFINE e == At(db, k)
           old == e.is[2]
           list == IF front THEN Tail(old) ELSE SubSeq(old, 1, Len(old) - 1)
           item == IF front THEN Head(old) ELSE old[Len(old)]
           new == [e EXCEPT !.is = <<"list", list>>]
<1>1. CASE WrongType(db, k, "list")
  BY <1>1, WrongTypeStep
<1>2. CASE e = Absent /\ Put(db, k, Absent, <<"nil">>)
  BY <1>2, PutBack, PlainlyTold
<1>3. CASE Kind(e) = "list" /\ old = <<>> /\ up' = FALSE /\ UNCHANGED <<now, spaces, said, seeded>>
  BY <1>3, PopPanics
<1>4. CASE Kind(e) = "list" /\ old # <<>> /\ Put(db, k, Prune(new), <<"item", item>>)
  <2>1. old \in Seq(Item) /\ old # <<>>
    BY <1>4, HeldIs
  <2>2. PICK left \in {1, 2} : /\ list = SubSeq(old, left, Len(old) + left - 2)
                               /\ list \in Seq(Item)
                               /\ item = old[IF left = 2 THEN 1 ELSE Len(old)]
    BY <2>1, EndsAre
  <2>3. CacheNow[db][k] = e /\ C!None = Absent /\ C!Kind(e) = "list"
    BY <1>4, CacheIs, SameTerms
  <2> HIDE DEF list, item, e
  <2>4. /\ Fresh(db, k, Prune(new)) /\ Lasting(Prune(new))
        /\ Prune(new) = IF list = <<>> THEN Absent ELSE new
    BY <2>2, ListIs, CollectionIs DEF e
  <2>5. KvInv' /\ C!Becomes(db, k, Prune(new), <<"item", item>>)
    BY <1>4, <2>4, PutKeeps, PutBecomes
  <2>6. C!Becomes(db, k, IF list = <<>> THEN C!None ELSE [e EXCEPT !.is = <<"list", list>>],
                  <<"item", old[IF left = 2 THEN 1 ELSE Len(old)]>>)
    BY <2>2, <2>3, <2>4, <2>5
  <2>7. C!Pop(db, k)
    BY <1>4, <2>2, <2>3, <2>6 DEF C!Pop, CacheNow
  <2> QED
    BY <2>5, <2>7, KeyChanged
<1> QED
  BY <1>1, <1>2, <1>3, <1>4 DEF Pop

\* A hash or a set comes to hold other members, and the answer counts them.
LEMMA Altered ==
  ASSUME KvInv, NEW db \in Db, NEW k \in Key, NEW kind \in {"hash", "set"}, Fits(At(db, k), kind),
         NEW held, held = IF At(db, k) = Absent THEN {} ELSE At(db, k).is[2],
         NEW left \in SUBSET Item, NEW changed, changed = (left \ held) \cup (held \ left),
         Put(db, k, Prune([At(db, k) EXCEPT !.is = <<kind, left>>]), <<"number", Cardinality(changed)>>)
  PROVE  KvInv' /\ CacheStep
<1> DEFINE e == At(db, k)
           new == [e EXCEPT !.is = <<kind, left>>]
<1>1. /\ Fresh(db, k, Prune(new)) /\ Lasting(Prune(new))
      /\ Prune(new) = IF left = {} THEN Absent ELSE new
  <2>1. /\ <<kind, left>> \in Value /\ <<kind, left>> # Nothing
        /\ Emptied(<<kind, left>>) <=> left = {}
    BY MembersAre
  <2> QED
    BY <2>1, CollectionIs
<1>2. KvInv' /\ C!Becomes(db, k, Prune(new), <<"number", Cardinality(changed)>>)
  BY <1>1, PutKeeps, PutBecomes
<1>3. CacheNow[db][k] = e /\ C!None = Absent /\ C!Kind(e) \in {"none", kind}
  BY CacheIs, SameTerms, FitsIs
<1>4. held = IF CacheNow[db][k] = C!None THEN {} ELSE CacheNow[db][k].is[2]
  BY <1>3
<1>5. Cardinality(changed) = C!Cardinality((left \ held) \cup (held \ left))
  BY SameCount
<1>6. C!Becomes(db, k, IF left = {} THEN C!None ELSE [CacheNow[db][k] EXCEPT !.is = <<kind, left>>],
                <<"number", C!Cardinality((left \ held) \cup (held \ left))>>)
  BY <1>1, <1>2, <1>3, <1>5
<1> HIDE DEF e
<1>7. C!Alter(db, k)
  BY <1>3, <1>4, <1>6 DEF C!Alter, CacheNow
<1> QED
  BY <1>2, <1>7, KeyChanged

LEMMA AddToStep ==
  ASSUME KvInv, NEW db \in Db, NEW k \in Key, NEW kind \in {"hash", "set"},
         NEW New \in SUBSET Item, New # {}, AddTo(db, k, kind, New)
  PROVE  KvInv' /\ CacheStep
<1> DEFINE e == At(db, k)
           held == IF e = Absent THEN {} ELSE e.is[2]
           new == [e EXCEPT !.is = <<kind, held \cup New>>]
<1>1. CASE WrongType(db, k, kind)
  BY <1>1, WrongTypeStep
<1>2. CASE Fits(e, kind) /\ Put(db, k, new, <<"number", Cardinality(New \ held)>>)
  <2>1. held \in SUBSET Item
    <3>1. CASE e = Absent
      BY <3>1
    <3>2. CASE e # Absent
      BY <1>2, <3>2, HeldIs DEF Fits
    <3> QED
      BY <3>1, <3>2
  <2> HIDE DEF held
  <2>2. held \cup New \in SUBSET Item /\ held \cup New # {}
    BY <2>1
  <2>3. New \ held = ((held \cup New) \ held) \cup (held \ (held \cup New))
    OBVIOUS
  <2>4. Prune(new) = new
    <3>1. <<kind, held \cup New>> \in Value /\ <<kind, held \cup New>> # Nothing
          /\ ~Emptied(<<kind, held \cup New>>)
      BY <2>2, MembersAre
    <3> QED
      BY <3>1, CollectionIs
  <2>5. Put(db, k, Prune(new), <<"number", Cardinality(New \ held)>>)
    BY <1>2, <2>4
  <2> QED
    BY <1>2, <2>2, <2>3, <2>5, Altered DEF held
<1> QED
  BY <1>1, <1>2 DEF AddTo

LEMMA TakeFromStep ==
  ASSUME KvInv, NEW db \in Db, NEW k \in Key, NEW kind \in {"hash", "set"},
         NEW Named \in SUBSET Item, TakeFrom(db, k, kind, Named)
  PROVE  KvInv' /\ CacheStep
<1> DEFINE e == At(db, k)
           held == e.is[2]
           new == [e EXCEPT !.is = <<kind, held \ Named>>]
<1>1. CASE WrongType(db, k, kind)
  BY <1>1, WrongTypeStep
<1>2. CASE e = Absent /\ Put(db, k, Absent, <<"number", 0>>)
  <2>1. 0 \in 0 .. 2 * Cardinality(Key)
    <3>1. Cardinality(Key) \in Nat
      BY KeySpaceAssumption, FS_CardinalityType
    <3> QED
      BY <3>1
  <2> QED
    BY <1>2, <2>1, PutBack, KeyTold
<1>3. CASE Kind(e) = kind /\ Put(db, k, Prune(new), <<"number", Cardinality(held \cap Named)>>)
  <2>1. held \in SUBSET Item /\ e # Absent
    BY <1>3, HeldIs
  <2>2. held = (IF e = Absent THEN {} ELSE e.is[2]) /\ Fits(e, kind)
    BY <1>3, <2>1 DEF Fits
  <2> HIDE DEF held
  <2>3. held \ Named \in SUBSET Item
        /\ held \cap Named = ((held \ Named) \ held) \cup (held \ (held \ Named))
    BY <2>1
  <2>4. Put(db, k, Prune([At(db, k) EXCEPT !.is = <<kind, held \ Named>>]),
            <<"number", Cardinality(held \cap Named)>>)
    BY <1>3
  <2> DEFINE rest == held \ Named
             gone == held \cap Named
  <2>5. /\ rest \in SUBSET Item /\ gone = (rest \ held) \cup (held \ rest)
        /\ Put(db, k, Prune([At(db, k) EXCEPT !.is = <<kind, rest>>]), <<"number", Cardinality(gone)>>)
    BY <2>3, <2>4
  <2> HIDE DEF rest, gone
  <2> QED
    BY <2>2, <2>5, Altered
<1> QED
  BY <1>1, <1>2, <1>3 DEF TakeFrom

----------------------------------------------------------------------------
(* Every step *)

LEMMA CommandStep ==
  ASSUME KvInv, NEW db \in Db, Command(db)
  PROVE  KvInv' /\ CacheStep
<1>1. CASE Keys(db)
  BY <1>1, KeysStep
<1>2. CASE FlushDb(db)
  BY <1>2, FlushDbStep
<1>3. CASE \E Named \in (SUBSET Key) \ {{}} : Del(db, Named)
  BY <1>3, DelStep
<1>4. CASE \E Named \in (SUBSET Key) \ {{}}, v \in Text : MSet(db, Named, v)
  BY <1>4, MSetStep
<1>5. ASSUME NEW k \in Key,
             \/ Get(db, k) \/ MGet(db, k) \/ AppendTo(db, k) \/ Expire(db, k) \/ Ttl(db, k)
             \/ TypeOf(db, k) \/ HGetAll(db, k) \/ LRange(db, k) \/ SMembers(db, k)
      PROVE  KvInv' /\ CacheStep
  BY <1>5, GetStep, MGetStep, AppendToStep, ExpireStep, TtlStep, TypeOfStep, ReadAllStep
     DEF HGetAll, LRange, SMembers
<1>6. ASSUME NEW k \in Key, NEW v \in Text,
             SetEx(db, k, v) \/ GetSet(db, k, v) \/ \E o \in Options : Set(db, k, v, o)
      PROVE  KvInv' /\ CacheStep
  BY <1>6, SetExStep, GetSetStep, SetStep
<1>7. ASSUME NEW k \in Key, NEW step \in Number, Increment(db, k, step) \/ DecrementBy(db, k, step)
      PROVE  KvInv' /\ CacheStep
  BY <1>7, IncrementStep, DecrementByStep
<1>8. ASSUME NEW k \in Key, NEW times \in {1, 2}, Exists(db, k, times)
      PROVE  KvInv' /\ CacheStep
  BY <1>8, ExistsStep
<1>9. ASSUME NEW k \in Key, NEW front \in BOOLEAN,
             Pop(db, k, front) \/ \E x \in Item : Push(db, k, x, front)
      PROVE  KvInv' /\ CacheStep
  BY <1>9, PopStep, PushStep
<1>10. ASSUME NEW k \in Key, NEW Some \in (SUBSET Item) \ {{}},
              HSet(db, k, Some) \/ SAdd(db, k, Some) \/ HDel(db, k, Some) \/ SRem(db, k, Some)
       PROVE  KvInv' /\ CacheStep
  <2>1. CASE HSet(db, k, Some) \/ SAdd(db, k, Some)
    <3>1. Some \in SUBSET Item /\ Some # {}
      OBVIOUS
    <3> QED
      BY <2>1, <3>1, AddToStep DEF HSet, SAdd
  <2>2. CASE HDel(db, k, Some) \/ SRem(db, k, Some)
    BY <2>2, TakeFromStep DEF HDel, SRem
  <2> QED
    BY <1>10, <2>1, <2>2
<1> QED
  BY <1>1, <1>2, <1>3, <1>4, <1>5, <1>6, <1>7, <1>8, <1>9, <1>10 DEF Command

\* The clock: what dies this instant is gone, whether or not it still lies there.
LEMMA TickStep ==
  ASSUME KvInv, Tick
  PROVE  KvInv' /\ CacheStep
<1>1. now < MaxTime /\ now' = now + 1 /\ UNCHANGED <<spaces, said, up, seeded>>
  BY DEF Tick
<1>2. now \in Nat /\ MaxTime \in Nat /\ spaces \in [Db -> [Key -> Entry]]
  BY KeySpaceAssumption DEF KvInv
<1>3. KvInv'
  <2>1. now' \in 0 .. MaxTime
    BY <1>1, <1>2
  <2>2. EmptyOnlyAsSeeded'
    BY <1>1 DEF KvInv, EmptyOnlyAsSeeded, Empty
  <2> QED
    BY <1>1, <2>1, <2>2 DEF KvInv, Whole
<1>4. ASSUME NEW db \in Db, NEW k \in Key
      PROVE  At(db, k)' = IF At(db, k).dies = now + 1 THEN Absent ELSE At(db, k)
  <2> DEFINE e == spaces[db][k]
  <2>1. e.dies \in Nat /\ e' = e
    BY <1>1, <1>2 DEF Entry
  <2>2. Absent.dies = 0
    BY DEF Absent
  <2>3. /\ At(db, k) = IF e.dies # 0 /\ now >= e.dies THEN Absent ELSE e
        /\ At(db, k)' = IF e.dies # 0 /\ now + 1 >= e.dies THEN Absent ELSE e
    BY <1>1 DEF At
  <2> HIDE DEF e
  <2> QED
    BY <1>2, <2>1, <2>2, <2>3
<1>5. CacheNow' = [db \in Db |-> [k \in Key |->
                    IF CacheNow[db][k].dies = now + 1 THEN C!None ELSE CacheNow[db][k]]]
  BY <1>4, SameTerms DEF CacheNow
<1>6. C!Tick
  BY <1>1, <1>5 DEF C!Tick, CacheNow
<1> QED
  BY <1>3, <1>6 DEF CacheStep, C!Next

LEMMA ExecuteStep ==
  ASSUME KvInv, RespInv, Execute
  PROVE  KvInv' /\ CacheStep
<1>1. session.db \in Db
  BY DEF RespInv, SessionType
<1>2. 1 \in Number
  BY KeySpaceAssumption DEF Number, Lowest
<1>3. CASE Refused(<<"error">>) \/ Refused(<<"ok">>)
  BY <1>3, RefusedIs, PlainlyTold
<1>4. ASSUME NEW k \in Key, Get(session.db, k) PROVE KvInv' /\ CacheStep
  BY <1>1, <1>4, GetStep
<1>5. ASSUME NEW k \in Key, Increment(session.db, k, 1) PROVE KvInv' /\ CacheStep
  BY <1>1, <1>2, <1>5, IncrementStep
<1>6. ASSUME NEW k \in Key, Pop(session.db, k, TRUE) PROVE KvInv' /\ CacheStep
  BY <1>1, <1>6, PopStep
<1> QED
  BY <1>3, <1>4, <1>5, <1>6 DEF Execute, SelectDatabase

\* The connection reads, decides and answers without the key space.
LEMMA KvSame ==
  ASSUME KvInv, UNCHANGED kvVars
  PROVE  KvInv' /\ CacheStep
<1>1. UNCHANGED <<now, spaces, said, up, seeded>>
  BY DEF kvVars
<1>2. EmptyOnlyAsSeeded'
  BY <1>1 DEF KvInv, EmptyOnlyAsSeeded, Empty
<1>3. KvInv'
  BY <1>1, <1>2 DEF KvInv, Whole
<1> QED
  BY <1>1, <1>3 DEF CacheStep, CacheNow, At

LEMMA InitKeeps ==
  ASSUME Init
  PROVE  KvInv /\ RespInv /\ C!Init
<1>1. /\ now = 0 /\ said = <<"nothing">> /\ up = TRUE /\ seeded \in [Key -> Seeds]
      /\ spaces = [db \in Db |-> IF db = 0 THEN seeded ELSE [k \in Key |-> Absent]]
  BY DEF Init
<1>2. \A s \in Seeds : s \in Entry /\ s.is \in Seedable /\ s.dies = 0
  <2>1. Seedable \subseteq Value
    BY DEF Seedable, Value, Absent, Nothing
  <2>2. \A s \in Seeds : s \in [is : Seedable, dies : {0}]
    BY SeedsAssumption
  <2> QED
    BY <2>1, <2>2, KeySpaceAssumption DEF Entry
<1>3. Absent \in Entry /\ Absent.is \in Seedable /\ Absent.dies = 0
  BY KeySpaceAssumption DEF Absent, Entry, Value, Nothing, Seedable
<1>4. spaces \in [Db -> [Key -> Entry]] /\ seeded \in [Key -> Entry]
  BY <1>1, <1>2, <1>3
<1>5. \A db \in Db, k \in Key : /\ spaces[db][k] \in Entry /\ spaces[db][k].dies = 0
                                /\ spaces[db][k].is \in Seedable
                                /\ spaces[db][k] = IF db = 0 THEN seeded[k] ELSE Absent
  BY <1>1, <1>2, <1>3
<1>6. KvInv
  <2>1. ~Empty(Absent)
    BY EmptyIs DEF Absent
  <2>2. EmptyOnlyAsSeeded
    BY <1>1, <1>5, <2>1 DEF EmptyOnlyAsSeeded
  <2> QED
    BY <1>1, <1>4, <1>5, <2>2, KeySpaceAssumption DEF KvInv, Whole
<1>7. C!Init
  <2>1. \A db \in Db, k \in Key : CacheNow[db][k] = spaces[db][k]
    BY <1>5 DEF CacheNow, At
  <2>2. ASSUME NEW db \in Db, NEW k \in Key
        PROVE  CacheNow[db][k].dies = 0
               /\ C!Kind(CacheNow[db][k]) \in {"none", "string", "list", "hash"}
    <3> DEFINE e == spaces[db][k]
    <3>1. e.is \in Seedable /\ e.dies = 0 /\ CacheNow[db][k] = e /\ C!Kind(e) = Kind(e)
      BY <1>5, <2>1, SameTerms
    <3> HIDE DEF e
    <3>2. e.is[1] \in {"none", "number", "text", "list", "hash"}
      BY <3>1 DEF Seedable, Text, Absent
    <3> QED
      BY <3>1, <3>2 DEF Kind
  <2> QED
    BY <1>1, <2>2 DEF C!Init, CacheNow
<1>8. RespInv
  <2>1. /\ inbox = <<>> /\ sent = 0 /\ others = 0 /\ answers = <<>> /\ ran = <<>>
        /\ session = [phase |-> "next", greeted |-> FALSE, deferred |-> NoCmd, active |-> NoCmd,
                      modern |-> FALSE, db |-> 0, admitted |-> FALSE, skipped |-> {}]
    BY DEF Init
  <2>2. NoCmd \in Cmd
    BY DEF NoCmd, Cmd
  <2>3. session \in SessionType
    BY <2>1, <2>2, KeySpaceAssumption DEF SessionType
  <2>4. /\ session.phase = "next" /\ ~session.greeted /\ session.deferred = NoCmd
        /\ session.active = NoCmd /\ session.skipped = {}
    BY <2>1
  <2>5. Turn = 0 /\ Settled = {} /\ 1 .. 0 = {}
    <3>1. Turn = 0 /\ 1 .. 0 = {}
      <4>1. Len(inbox) = 0 /\ sent = 0
        BY <2>1
      <4> QED
        BY <4>1 DEF Turn
    <3>2. DOMAIN answers = {}
      BY <2>1
    <3>3. Settled = {}
      BY <2>4, <3>2 DEF Settled, Members
    <3> QED
      BY <3>1, <3>3
  <2>6. Increasing(answers) /\ Increasing(ran) /\ Below(ran, Turn + 1)
    BY <2>1 DEF Increasing, Below
  <2>7. /\ inbox \in Seq(Cmd) /\ answers \in Seq(Nat) /\ ran \in Seq(Nat)
        /\ \A i \in DOMAIN inbox : inbox[i].n = Turn + i
    BY <2>1
  <2>8. sent \in 0 .. MaxCommands /\ others \in Nat
    BY <2>1, KeySpaceAssumption
  <2> HIDE DEF Init
  <2> QED
    BY <2>1, <2>3, <2>4, <2>5, <2>6, <2>7, <2>8 DEF RespInv
<1> QED
  BY <1>6, <1>7, <1>8

LEMMA NextKeeps ==
  ASSUME KvInv, RespInv, [Next]_vars
  PROVE  KvInv' /\ RespInv' /\ CacheStep
<1>1. CASE UNCHANGED vars
  <2>1. UNCHANGED kvVars /\ UNCHANGED <<inbox, sent, session, answers, ran>> /\ others' = others /\ up' = up
    BY <1>1 DEF vars, kvVars, respVars
  <2>2. others' \in Nat
    BY <2>1 DEF RespInv
  <2> QED
    BY <2>1, <2>2, KvSame, ElsewhereKeeps
<1>2. CASE Tick
  <2>1. UNCHANGED <<inbox, sent, session, answers, ran>> /\ others' = others /\ up' = up
    BY <1>2 DEF Tick, respVars
  <2>2. others' \in Nat
    BY <2>1 DEF RespInv
  <2> QED
    BY <1>2, <2>1, <2>2, TickStep, ElsewhereKeeps
<1>3. CASE Other
  <2>1. Command(0) /\ UNCHANGED <<inbox, sent, session, answers, ran>> /\ others' = others + 1 /\ up
    BY <1>3 DEF Other
  <2>2. others' \in Nat
    BY <2>1 DEF RespInv
  <2> QED
    BY <2>1, <2>2, CommandStep, ElsewhereKeeps, KeySpaceAssumption
<1>4. CASE \E verb \in Script : Send(verb)
  <2>1. UNCHANGED kvVars
    BY <1>4 DEF Send
  <2> QED
    BY <1>4, <2>1, SendKeeps, KvSame
<1>5. CASE ReadEmpty \/ ReadBroken \/ AnswerDriver \/ Greet \/ Take
  <2>1. UNCHANGED kvVars
    BY <1>5 DEF ReadEmpty, ReadBroken, AnswerDriver, Greet, Take, Reading
  <2> QED
    BY <1>5, <2>1, ReadEmptyKeeps, ReadBrokenKeeps, AnswerDriverKeeps, GreetKeeps, TakeKeeps, KvSame
<1>6. CASE Fail \/ Admit \/ Drop
  <2>1. UNCHANGED kvVars
    BY <1>6 DEF Fail, Admit, Drop
  <2> QED
    BY <1>6, <2>1, FailKeeps, AdmitKeeps, DropKeeps, KvSame
<1>7. CASE Execute
  BY <1>7, ExecuteStep, ExecuteKeeps
<1> QED
  BY <1>1, <1>2, <1>3, <1>4, <1>5, <1>6, <1>7 DEF Next, Session

LEMMA KvAlways == Spec => [](KvInv /\ RespInv)
BY InitKeeps, NextKeeps, PTL DEF Spec

----------------------------------------------------------------------------
(* What follows *)

\* space, prune, increment: for any keys, seeds, width of integer and commands,
\* every key holds a value of its kind within its width, and a collection is
\* empty, and a pop brings the process down, only where a lesson seeded it so.
THEOREM KeysAreSound == Spec => []KeysSound
<1>1. ASSUME KvInv, RespInv PROVE KeysSound
  <2>1. ASSUME NEW db \in Db, NEW k \in Key
        PROVE  LET e == spaces[db][k]
               IN /\ e.dies \in 0 .. MaxTime
                  /\ \/ e = Absent \/ e.is \in Text
                     \/ e.is[1] = "list" /\ e.is[2] \in Seq(Item)
                     \/ e.is[1] \in {"hash", "set"} /\ e.is[2] \subseteq Item
    <3> DEFINE e == spaces[db][k]
    <3>1. e \in Entry /\ (e.is = Nothing => e.dies = 0)
      BY <1>1 DEF KvInv, Whole
    <3> HIDE DEF e
    <3>2. e.is \in Value /\ e.dies \in 0 .. MaxTime /\ e = [is |-> e.is, dies |-> e.dies]
      BY <3>1 DEF Entry
    <3>3. e.is = Nothing => e = Absent
      BY <3>1, <3>2 DEF Absent, Nothing
    <3>4. \/ e = Absent \/ e.is \in Text
          \/ e.is[1] = "list" /\ e.is[2] \in Seq(Item)
          \/ e.is[1] \in {"hash", "set"} /\ e.is[2] \subseteq Item
      BY <3>2, <3>3, ValueIs
    <3> QED
      BY <3>2, <3>4 DEF e
  <2>2. now \in 0 .. MaxTime /\ up \in BOOLEAN /\ sent \in 0 .. MaxCommands
        /\ session.phase \in {"next", "verdict", "over"} /\ session.db \in Db
    BY <1>1 DEF KvInv, RespInv, SessionType
  <2>3. TypeOK
    BY <2>1, <2>2 DEF TypeOK
  <2>4. EmptyOnlyAsSeeded
    BY <1>1 DEF KvInv
  <2> QED
    BY <2>3, <2>4 DEF KeysSound
<1> QED
  BY <1>1, KvAlways, PTL

\* Next, Reply, Fail and Greet: however many commands are pipelined, each is
\* answered in its turn and once, and none runs before the connection is admitted.
THEOREM AnswersInTurn == Spec => []AnsweredInTurn
<1>1. ASSUME RespInv PROVE AnsweredInTurn
  <2>1. OneReplyEach
    <3>1. Increasing(answers)
      BY <1>1 DEF RespInv
    <3>2. session.phase = "next" /\ session.deferred = NoCmd /\ up => Settled = 1 .. Turn
      BY <1>1 DEF RespInv
    <3> QED
      BY <3>1, <3>2 DEF OneReplyEach, Increasing, Settled, Members, Turn
  <2>2. RunsOnceAdmitted
    BY <1>1 DEF RespInv, RunsOnceAdmitted, Increasing
  <2> QED
    BY <2>1, <2>2 DEF AnsweredInTurn
<1> QED
  BY <1>1, KvAlways, PTL

\* at: the key space, which removes a key only when a command passes it and
\* counts with machine integers, is a cache whose keys are gone the instant
\* they die and whose counters refuse to leave their range.
THEOREM KeySpaceIsACache == Spec => RefinesCache
<1>1. Init => C!Init
  BY InitKeeps
<1>2. KvInv /\ RespInv /\ [Next]_vars => [C!Next]_<<now, CacheNow, said>>
  BY NextKeeps DEF CacheStep
<1>3. KvInv /\ RespInv /\ [Next]_vars =>
        [C!Next]_<<now, [db \in Db |-> [k \in Key |-> At(db, k)]], said>>
  BY <1>2 DEF CacheNow
<1> QED
  BY <1>1, <1>3, KvAlways, PTL DEF Spec, RefinesCache, C!Spec
=============================================================================
