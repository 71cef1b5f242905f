------------------------------ MODULE PgProofs ------------------------------
(***************************************************************************)
(* What a Postgres client is told about its writes is true, for every      *)
(* sequence of messages, verdicts and engine failures.                     *)
(***************************************************************************)
EXTENDS PgSession, TLAPS

\* The types the argument needs: writes are numbered as they come.
Typed ==
  /\ wrote \in Nat
  /\ writes \in SUBSET Nat /\ db \in SUBSET Nat
  /\ believed \in SUBSET Nat /\ promised \in SUBSET Nat /\ denied \in SUBSET Nat
  /\ \A w \in writes \cup db \cup believed \cup promised \cup denied : w < wrote
  /\ inBlock \in BOOLEAN /\ aborted \in BOOLEAN /\ tx \in BOOLEAN /\ failed \in BOOLEAN

Faithful == Typed /\ TwoAccounts

\* What the steps that run nothing leave alone.
accounts == <<inBlock, tx, failed, writes, db, wrote, believed, promised, denied>>

LEMMA FaithfulInit == Init => Faithful
<1> SUFFICES ASSUME Init PROVE Faithful
  OBVIOUS
<1>1. /\ wrote = 0 /\ writes = {} /\ db = {} /\ believed = {} /\ promised = {} /\ denied = {}
      /\ inBlock = FALSE /\ aborted = FALSE /\ tx = FALSE /\ failed = FALSE
  BY DEF Init
<1> QED
  BY <1>1 DEF Faithful, Typed, TwoAccounts

\* Sending, decoding and reporting touch neither account.
LEMMA QuietStep ==
  ASSUME Faithful, accounts' = accounts, aborted' = aborted, phase = "closed" => phase' = "closed"
  PROVE  Faithful'
BY DEF Faithful, Typed, TwoAccounts, accounts

\* A statement that is answered, whatever the engine did with it.
LEMMA ExecStep ==
  ASSUME Faithful, NEW ok \in BOOLEAN, Exec(ok)
  PROVE  Faithful'
<1> DEFINE kind == active.kind
<1> USE DEF Faithful, Typed, TwoAccounts, Exec, Decided, Ends, LearnNothing, LearnEnd, LearnWrite
<1>0. phase = "decide"
  OBVIOUS
<1>1. CASE kind = "CONNECT"
  BY <1>1 DEF Reply, Fail, Track
<1>2. CASE kind = "BEGIN"
  BY <1>2 DEF Reply, Fail, Track, Begin
<1>3. CASE kind = "COMMIT"
  BY <1>3 DEF Reply, Fail, Track, Commit, Discard
<1>4. CASE kind = "ROLLBACK"
  BY <1>4 DEF Reply, Fail, Track, Discard
<1>5. CASE kind = "READ"
  BY <1>5 DEF Reply, Fail, Track, Run
<1>6. CASE kind = "WRITE"
  BY <1>6 DEF Reply, Fail, Track, Run
<1> QED
  BY <1>1, <1>2, <1>3, <1>4, <1>5, <1>6

\* A statement that a rule fails.
LEMMA FaultStep ==
  ASSUME Faithful, Fault
  PROVE  Faithful'
<1> DEFINE kind == active.kind
<1> USE DEF Faithful, Typed, TwoAccounts, Fault, Decided, Ends, LearnNothing, LearnEnd, LearnWrite
<1>1. CASE kind \in Ends
  BY <1>1 DEF Fail, Track, Abort, Discard
<1>2. CASE kind = "WRITE"
  BY <1>2 DEF Fail, Track, Abort
<1>3. CASE kind = "BEGIN"
  BY <1>3 DEF Fail, Track, Abort
<1>4. CASE kind \notin Ends \cup {"WRITE", "BEGIN"}
  BY <1>4 DEF Fail, Track, Abort
<1> QED
  BY <1>1, <1>2, <1>3, <1>4

LEMMA EndStep == Faithful /\ End => Faithful'
BY DEF Faithful, Typed, TwoAccounts, End, Discard, sessionVars

LEMMA FaithfulStep == Faithful /\ [Next]_vars => Faithful'
<1> SUFFICES ASSUME Faithful, [Next]_vars PROVE Faithful'
  OBVIOUS
<1>1. CASE Greet
  BY <1>1, QuietStep DEF Greet, accounts, engineVars, clientVars
<1>2. CASE Take
  BY <1>2, QuietStep DEF Take, accounts, engineVars, clientVars
<1>3. CASE ReportReady
  BY <1>3, QuietStep DEF ReportReady, accounts, engineVars
<1>4. CASE Receive
  BY <1>4, QuietStep DEF Receive, accounts, engineVars
<1>5. CASE Exec(TRUE) \/ Exec(FALSE)
  BY <1>5, ExecStep
<1>6. CASE Fault
  BY <1>6, FaultStep
<1>7. CASE End
  BY <1>7, EndStep
<1>8. CASE \E message \in Messages : Send(message)
  BY <1>8, QuietStep DEF Send, accounts, sessionVars, engineVars, clientVars
<1>9. CASE UNCHANGED vars
  BY <1>9, QuietStep DEF vars, accounts, sessionVars, engineVars, clientVars
<1> QED
  BY <1>1, <1>2, <1>3, <1>4, <1>5, <1>6, <1>7, <1>8, <1>9 DEF Next, Serve

\* The two accounts of the transaction differ only over a block that has
\* failed (session.track, connection.begin, connection.Abort).
THEOREM AccountsAgree == Spec => []TwoAccounts
<1>1. Spec => []Faithful
  BY FaithfulInit, FaithfulStep, PTL DEF Spec
<1> QED
  BY <1>1, PTL DEF Faithful

\* What the client was told of its writes is so, for every exchange of any
\* length: "a faulted COMMIT has to leave its writes absent" (Executor.Abort).
THEOREM ClientsAreToldTruly == Spec => []ToldTruly
<1>1. Spec => []TwoAccounts
  BY AccountsAgree
<1>2. TwoAccounts => ToldTruly
  BY DEF TwoAccounts, ToldTruly
<1> QED
  BY <1>1, <1>2, PTL

----------------------------------------------------------------------------
(* The status byte, and the block that has failed *)

\* The flags are Booleans and the client sends what it may.
Flagged ==
  /\ phase \in {"next", "decide", "closed"}
  /\ inbox \in Seq(Messages) /\ Len(inbox) <= MaxAhead
  /\ sent \in Nat /\ sent <= MaxSent /\ owed \in Nat
  /\ greeted \in BOOLEAN /\ owesReady \in BOOLEAN /\ skipping \in BOOLEAN
  /\ poisoned \in BOOLEAN /\ nested \in BOOLEAN

\* As long as no second BEGIN has come between them the session and the
\* executor agree on the block; a block is poisoned just when it has failed.
OneStory ==
  /\ ~nested /\ phase # "closed" => (inBlock <=> tx) /\ (aborted <=> failed)
  /\ aborted => inBlock
  /\ failed => tx
  /\ poisoned <=> failed

\* The connection itself is the first operation and no statement is one, so
\* it is decided before there is a block.
Introduced ==
  /\ queue \in Seq([kind : Kinds, extended : BOOLEAN])
  /\ prepared \in Kinds \cup {None} /\ portal \in Kinds \cup {None}
  /\ ~greeted => phase # "decide" /\ ~tx
  /\ phase = "decide" /\ active.kind = "CONNECT" => ~tx

InStepInv == Faithful /\ Flagged /\ Introduced /\ OneStory /\ OneReadyEach /\ StatusTrueUnlessNested

\* What the status byte says while the two accounts agree.
StatusNow ==
  CASE Status = "I" -> ~tx
    [] Status = "T" -> tx /\ ~failed
    [] Status = "E" -> tx /\ failed

LEMMA StatusIsTrue ==
  ASSUME Faithful, OneStory, ~nested, phase # "closed"
  PROVE  StatusNow
BY DEF StatusNow, Status, OneStory, Faithful, Typed

LEMMA InStepInit == Init => InStepInv
<1> SUFFICES ASSUME Init PROVE InStepInv
  OBVIOUS
<1>1. Flagged
  <2>1. inbox \in Seq(Messages) /\ Len(inbox) = 0
    BY DEF Init
  <2> QED
    <3>1. /\ inbox \in Seq(Messages) /\ Len(inbox) <= MaxAhead
          /\ sent \in Nat /\ sent <= MaxSent /\ owed \in Nat
      BY <2>1, PgAssumption DEF Init
    <3>2. /\ greeted = FALSE /\ owesReady = FALSE /\ skipping = FALSE /\ poisoned = FALSE /\ nested = FALSE
          /\ phase = "next"
      BY DEF Init
    <3> QED
      BY <3>1, <3>2 DEF Flagged
<1>a. Introduced
  BY DEF Init, Introduced, None
<1>2. OneStory /\ OneReadyEach
  BY DEF Init, OneStory, OneReadyEach
<1>3. StatusTrueUnlessNested
  BY DEF Init, StatusTrueUnlessNested, StatusTellsTruth
<1> QED
  BY <1>1, <1>a, <1>2, <1>3, FaithfulInit DEF InStepInv

\* Decoding and sending run nothing.
LEMMA QuietStory ==
  ASSUME InStepInv, UNCHANGED <<inBlock, aborted, tx, failed, poisoned, nested>>,
         phase = "closed" <=> phase' = "closed"
  PROVE  OneStory'
BY DEF InStepInv, OneStory

\* A statement that is answered, whatever the engine did with it.
LEMMA ExecStory ==
  ASSUME InStepInv, NEW ok \in BOOLEAN, Exec(ok)
  PROVE  OneStory' /\ Flagged' /\ OneReadyEach' /\ StatusTrueUnlessNested'
<1> DEFINE kind == active.kind
<1>0. phase = "decide" /\ owed' = owed /\ reported' = reported
  BY DEF Exec, Decided
<1>1. OneStory'
  <2> USE DEF InStepInv, Faithful, Typed, Flagged, OneStory, Exec, Ends
  <2>1. CASE kind = "CONNECT"
    BY <2>1, <1>0 DEF Reply, Fail, Track
  <2>2. CASE kind = "BEGIN"
    BY <2>2, <1>0 DEF Reply, Fail, Track, Begin
  <2>3. CASE kind = "COMMIT"
    BY <2>3, <1>0 DEF Reply, Fail, Track, Commit, Discard
  <2>4. CASE kind = "ROLLBACK"
    BY <2>4, <1>0 DEF Reply, Fail, Track, Discard
  <2>5. CASE kind = "READ"
    BY <2>5, <1>0 DEF Reply, Fail, Track, Run
  <2>6. CASE kind = "WRITE"
    BY <2>6, <1>0 DEF Reply, Fail, Track, Run
  <2> QED
    BY <2>1, <2>2, <2>3, <2>4, <2>5, <2>6
<1>2. phase' \in {"next", "closed"} /\ (owesReady => owesReady') /\ owesReady' \in BOOLEAN /\ skipping' \in BOOLEAN
  BY DEF Exec, Reply, Fail, InStepInv, Flagged
<1>3. poisoned' \in BOOLEAN /\ nested' \in BOOLEAN
  BY DEF Exec, Begin, Commit, Discard, Run, InStepInv, Flagged
<1>4. Flagged'
  BY <1>0, <1>2, <1>3 DEF InStepInv, Flagged, Exec, Decided, protoVars
<1>5. OneReadyEach'
  BY <1>0, <1>2 DEF InStepInv, OneReadyEach
<1>6. StatusTrueUnlessNested'
  BY <1>0 DEF InStepInv, StatusTrueUnlessNested, StatusTellsTruth
<1> QED
  BY <1>1, <1>4, <1>5, <1>6

\* A statement that a rule fails.
LEMMA FaultStory ==
  ASSUME InStepInv, Fault
  PROVE  OneStory' /\ Flagged' /\ OneReadyEach' /\ StatusTrueUnlessNested'
<1> DEFINE kind == active.kind
<1>0. phase = "decide" /\ owed' = owed /\ reported' = reported
  BY DEF Fault, Decided
<1>1. OneStory'
  <2> USE DEF InStepInv, Faithful, Typed, Flagged, OneStory, Fault, Ends
  <2>1. CASE kind \in Ends
    BY <2>1, <1>0 DEF Fail, Track, Abort, Discard
  <2>2. CASE kind = "BEGIN"
    BY <2>2, <1>0 DEF Fail, Track, Abort
  <2>3. CASE kind \notin Ends \cup {"BEGIN"}
    BY <2>3, <1>0 DEF Fail, Track, Abort
  <2> QED
    BY <2>1, <2>2, <2>3
<1>2. phase' \in {"next", "closed"} /\ (owesReady => owesReady') /\ owesReady' \in BOOLEAN /\ skipping' \in BOOLEAN
  BY DEF Fault, Fail, InStepInv, Flagged
<1>3. poisoned' \in BOOLEAN /\ nested' \in BOOLEAN
  BY DEF Fault, Abort, Discard, InStepInv, Flagged
<1>4. Flagged'
  BY <1>0, <1>2, <1>3 DEF InStepInv, Flagged, Fault, Decided, protoVars
<1>5. OneReadyEach'
  BY <1>0, <1>2 DEF InStepInv, OneReadyEach
<1>6. StatusTrueUnlessNested'
  BY <1>0 DEF InStepInv, StatusTrueUnlessNested, StatusTellsTruth
<1> QED
  BY <1>1, <1>4, <1>5, <1>6

LEMMA ReportStory ==
  ASSUME InStepInv, ReportReady
  PROVE  OneStory' /\ Flagged' /\ OneReadyEach' /\ StatusTrueUnlessNested'
<1>0. UNCHANGED <<phase, inBlock, aborted, tx, failed, poisoned, nested, inbox, sent, greeted, skipping>>
  BY DEF ReportReady, protoVars, engineVars
<1>1. owed' \in Nat /\ owed' = 0 /\ owesReady' = FALSE
  BY DEF ReportReady, InStepInv, Flagged, OneReadyEach
<1>2. OneStory'
  BY <1>0, QuietStory
<1>3. Flagged'
  BY <1>0, <1>1 DEF InStepInv, Flagged
<1>4. OneReadyEach'
  BY <1>1 DEF OneReadyEach
<1>5. StatusTrueUnlessNested'
  <2>1. /\ reported'.status = Status /\ reported'.tx = tx /\ reported'.failed = failed
        /\ reported'.nested = nested
    BY DEF ReportReady
  <2>2. CASE nested
    BY <2>1, <2>2 DEF StatusTrueUnlessNested
  <2>3. CASE ~nested
    <3>1. StatusNow
      BY <2>3, StatusIsTrue DEF InStepInv, ReportReady
    <3>2. StatusTellsTruth'
      BY <2>1, <3>1 DEF StatusNow, StatusTellsTruth
    <3> QED
      BY <3>2 DEF StatusTrueUnlessNested
  <2> QED
    BY <2>2, <2>3
<1> QED
  BY <1>2, <1>3, <1>4, <1>5

LEMMA ReceiveStory ==
  ASSUME InStepInv, Receive
  PROVE  OneStory' /\ Flagged' /\ OneReadyEach' /\ StatusTrueUnlessNested'
<1>0. UNCHANGED <<phase, inBlock, aborted, tx, failed, poisoned, nested, sent, greeted, reported>>
  BY DEF Receive, engineVars
<1>1. inbox' \in Seq(Messages) /\ Len(inbox') <= MaxAhead
  <2>1. Tail(inbox) \in Seq(Messages) /\ Len(Tail(inbox)) = Len(inbox) - 1 /\ Len(inbox) \in Nat
    BY DEF Receive, InStepInv, Flagged
  <2> QED
    BY <2>1, PgAssumption DEF Receive, InStepInv, Flagged
<1>2. owed = 0 /\ owesReady = FALSE
  BY DEF Receive, InStepInv, Flagged, OneReadyEach
<1>3. /\ owed' \in {0, 1} /\ (owed' = 1 => owesReady') /\ owesReady' \in BOOLEAN /\ skipping' \in BOOLEAN
  <2>1. owed \in Nat /\ owesReady \in BOOLEAN /\ skipping \in BOOLEAN
    BY DEF InStepInv, Flagged
  <2>2. CASE Sync
    <3>1. owed' = 1
      BY <1>2, <2>2 DEF Sync
    <3>2. owesReady' = TRUE /\ skipping' = FALSE
      BY <2>2 DEF Sync
    <3> QED
      BY <3>1, <3>2
  <2>3. CASE UNCHANGED <<owed, owesReady>> /\ (skipping' = TRUE \/ UNCHANGED skipping)
    <3>1. owed' = 0 /\ owed' # 1
      BY <1>2, <2>3
    <3>2. owesReady' = FALSE /\ skipping' \in BOOLEAN
      BY <1>2, <2>1, <2>3
    <3> QED
      BY <3>1, <3>2
  <2>4. CASE \E text : Query(text)
    <3>1. owed' = 1
      BY <1>2, <2>4 DEF Query
    <3>2. owesReady' = TRUE /\ skipping' = skipping
      BY <2>4 DEF Query
    <3> QED
      BY <2>1, <3>1, <3>2
  <2> QED
    BY <2>2, <2>3, <2>4 DEF Receive, Parse, Bind, Describe, Execute, CloseStatement, Reject
<1>4. OneStory'
  BY <1>0, QuietStory
<1>5. Flagged' /\ OneReadyEach'
  BY <1>0, <1>1, <1>3 DEF InStepInv, Flagged, OneReadyEach
<1>6. StatusTrueUnlessNested'
  BY <1>0 DEF InStepInv, StatusTrueUnlessNested, StatusTellsTruth
<1> QED
  BY <1>4, <1>5, <1>6

LEMMA SendStory ==
  ASSUME InStepInv, NEW message \in Messages, Send(message)
  PROVE  OneStory' /\ Flagged' /\ OneReadyEach' /\ StatusTrueUnlessNested'
<1>0. UNCHANGED <<phase, inBlock, aborted, tx, failed, poisoned, nested, greeted, reported, owesReady, skipping, owed>>
  BY DEF Send, engineVars, sessionVars, clientVars
<1>1. /\ inbox' \in Seq(Messages) /\ Len(inbox') <= MaxAhead /\ sent' \in Nat /\ sent' <= MaxSent
  BY PgAssumption DEF Send, InStepInv, Flagged
<1>4. OneStory'
  BY <1>0, QuietStory
<1>5. Flagged' /\ OneReadyEach'
  BY <1>0, <1>1 DEF InStepInv, Flagged, OneReadyEach
<1>6. StatusTrueUnlessNested'
  BY <1>0 DEF InStepInv, StatusTrueUnlessNested, StatusTellsTruth
<1> QED
  BY <1>4, <1>5, <1>6

\* The steps that neither read nor answer.
LEMMA IdleStory ==
  ASSUME InStepInv, Greet \/ Take \/ End \/ UNCHANGED vars
  PROVE  OneStory' /\ Flagged' /\ OneReadyEach' /\ StatusTrueUnlessNested'
<1>0. UNCHANGED <<inBlock, aborted, inbox, sent, reported, owesReady, skipping, owed>>
  BY DEF Greet, Take, End, vars, protoVars, engineVars, sessionVars, clientVars
<1>1. phase' \in {"next", "decide", "closed"} /\ greeted' \in BOOLEAN /\ (phase = "closed" => phase' = "closed")
  BY DEF Greet, Take, End, vars, sessionVars, InStepInv, Flagged
<1>2. \/ UNCHANGED <<tx, failed, poisoned, nested>> /\ (phase = "closed" <=> phase' = "closed")
      \/ phase' = "closed" /\ tx' = FALSE /\ failed' = FALSE /\ poisoned' = FALSE /\ nested' = FALSE
  BY DEF Greet, Take, End, Discard, vars, engineVars, clientVars
<1>4. OneStory'
  BY <1>0, <1>2, QuietStory DEF InStepInv, OneStory
<1>5. Flagged' /\ OneReadyEach'
  BY <1>0, <1>1, <1>2 DEF InStepInv, Flagged, OneReadyEach
<1>6. StatusTrueUnlessNested'
  BY <1>0 DEF InStepInv, StatusTrueUnlessNested, StatusTellsTruth
<1> QED
  BY <1>4, <1>5, <1>6

\* What the session has read is statements, never another connection.
LEMMA IntroducedStep ==
  ASSUME InStepInv, [Next]_vars
  PROVE  Introduced'
<1> DEFINE Tasks == [kind : Kinds, extended : BOOLEAN]
<1>0. /\ queue \in Seq(Tasks) /\ prepared \in Kinds \cup {None} /\ portal \in Kinds \cup {None}
      /\ ~greeted => phase # "decide" /\ ~tx
      /\ phase = "decide" /\ active.kind = "CONNECT" => ~tx
      /\ greeted \in BOOLEAN
  BY DEF InStepInv, Introduced, Flagged
<1>1. CASE Greet
  BY <1>0, <1>1 DEF Greet, Introduced, engineVars
<1>2. CASE Take
  <2>1. Head(queue) \in Tasks /\ Tail(queue) \in Seq(Tasks)
    <3> HIDE DEF Tasks
    <3>1. queue # <<>>
      BY <1>2 DEF Take
    <3> QED
      BY <1>0, <3>1
  <2>2. Head(queue).kind # "CONNECT"
    BY <2>1 DEF Kinds
  <2> QED
    BY <1>0, <1>2, <2>1, <2>2 DEF Take, Introduced, engineVars
<1>3. CASE ReportReady
  BY <1>0, <1>3 DEF ReportReady, Introduced, engineVars
<1>4. CASE Receive
  <2> DEFINE message == Head(inbox)
  <2>1. message \in Messages
    BY <1>4 DEF Receive, InStepInv, Flagged
  <2>2. /\ message.type = "Query" => message.text \in Seq(Kinds)
        /\ message.type = "Parse" => message.kind \in Kinds
    BY <2>1, PgAssumption DEF Messages
  <2>3. UNCHANGED <<phase, active, greeted, tx>> /\ phase = "next"
    BY <1>4 DEF Receive, engineVars
  <2>4. ASSUME NEW text \in Seq(Kinds)
        PROVE  [i \in 1..Len(text) |-> Task(text[i], FALSE)] \in Seq(Tasks)
    <3>1. Len(text) \in Nat /\ \A i \in 1..Len(text) : text[i] \in Kinds
      OBVIOUS
    <3>2. \A i \in 1..Len(text) : Task(text[i], FALSE) \in Tasks
      BY <3>1 DEF Task
    <3> DEFINE tasks == [i \in 1..Len(text) |-> Task(text[i], FALSE)]
    <3>3. tasks \in [1..Len(text) -> Tasks]
      BY <3>2
    <3> HIDE DEF Tasks, tasks
    <3>4. tasks \in Seq(Tasks)
      BY <3>1, <3>3
    <3> QED
      BY <3>4 DEF tasks
  <2>5. portal # None => <<Task(portal, TRUE)>> \in Seq(Tasks)
    BY <1>0 DEF Task
  <2>6. queue' \in Seq(Tasks) /\ prepared' \in Kinds \cup {None} /\ portal' \in Kinds \cup {None}
    <3> HIDE DEF Tasks
    <3>1. CASE UNCHANGED <<queue, prepared, portal>>
      BY <1>0, <3>1
    <3>2. CASE message.type = "Query" /\ Query(message.text)
      BY <1>0, <2>2, <2>4, <3>2 DEF Query
    <3>3. CASE message.type = "Parse" /\ Parse(message.kind)
      BY <1>0, <2>2, <3>3 DEF Parse
    <3>4. CASE Bind \/ CloseStatement
      BY <1>0, <3>4 DEF Bind, CloseStatement, Reject
    <3>5. CASE Execute
      BY <1>0, <2>5, <3>5 DEF Execute, Reject
    <3> QED
      BY <1>4, <3>1, <3>2, <3>3, <3>4, <3>5 DEF Receive, Sync, Describe, Reject
  <2> QED
    BY <1>0, <2>3, <2>6 DEF Introduced
<1>5. ASSUME NEW ok \in BOOLEAN, Exec(ok) PROVE Introduced'
  <2>1. /\ phase = "decide" /\ phase' # "decide" /\ UNCHANGED <<prepared, portal, greeted>>
        /\ queue' \in {queue, <<>>}
    BY <1>5 DEF Exec, Decided, Reply, Fail
  <2>2. <<>> \in Seq(Tasks)
    OBVIOUS
  <2> QED
    BY <1>0, <2>1, <2>2 DEF Introduced
<1>6. CASE Fault
  <2>1. /\ phase = "decide" /\ phase' # "decide" /\ UNCHANGED <<prepared, portal, greeted>>
        /\ queue' = <<>>
    BY <1>6 DEF Fault, Decided, Fail
  <2>2. <<>> \in Seq(Tasks)
    OBVIOUS
  <2> QED
    BY <1>0, <2>1, <2>2 DEF Introduced
<1>7. CASE End
  BY <1>0, <1>7 DEF End, Discard, sessionVars, Introduced
<1>8. CASE \E message \in Messages : Send(message)
  BY <1>0, <1>8 DEF Send, sessionVars, engineVars, Introduced
<1>9. CASE UNCHANGED vars
  BY <1>0, <1>9 DEF vars, sessionVars, engineVars, Introduced
<1> QED
  BY <1>1, <1>2, <1>3, <1>4, <1>5, <1>6, <1>7, <1>8, <1>9 DEF Next, Serve

LEMMA InStepStep == InStepInv /\ [Next]_vars => InStepInv'
<1> SUFFICES ASSUME InStepInv, [Next]_vars PROVE InStepInv'
  OBVIOUS
<1>1. Faithful'
  BY FaithfulStep DEF InStepInv
<1>3. Introduced'
  BY IntroducedStep
<1>2. OneStory' /\ Flagged' /\ OneReadyEach' /\ StatusTrueUnlessNested'
  BY ExecStory, FaultStory, ReportStory, ReceiveStory, SendStory, IdleStory DEF Next, Serve
<1> QED
  BY <1>1, <1>2, <1>3 DEF InStepInv

LEMMA InStepAlways == Spec => []InStepInv
BY InStepInit, InStepStep, PTL DEF Spec

\* Each Query and each Sync is answered by one ReadyForQuery before the next
\* message is read, and its status byte is that of the engine's block unless
\* a second BEGIN came between (reportReady, status, track).
THEOREM SessionInStep == Spec => []InStep
<1>1. InStepInv => TypeOK
  <2> SUFFICES ASSUME InStepInv PROVE TypeOK
    OBVIOUS
  <2>1. writes \cup db \subseteq 0..wrote
    BY DEF InStepInv, Faithful, Typed
  <2>2. {greeted, owesReady, skipping, inBlock, aborted, tx, failed, poisoned, nested} \subseteq BOOLEAN
    BY DEF InStepInv, Faithful, Typed, Flagged
  <2> QED
    BY <2>1, <2>2 DEF InStepInv, Flagged, TypeOK
<1>2. InStepInv => OneReadyEach /\ StatusTrueUnlessNested
  BY DEF InStepInv
<1> QED
  BY <1>1, <1>2, InStepAlways, PTL DEF InStep

\* "Every later statement gets 25P02 until the ROLLBACK" (run, discard): a
\* block in which a statement has failed takes no write and commits none, and
\* only what ends it, or a second BEGIN, is answered with success.
THEOREM FailedBlocksAreDead == Spec => FailedBlockIsDead
<1>1. InStepInv /\ [Next]_vars => [poisoned /\ poisoned' => writes' = writes /\ db' = db]_vars
  <2> SUFFICES ASSUME InStepInv, Next, poisoned, poisoned' PROVE writes' = writes /\ db' = db
    OBVIOUS
  <2>1. failed /\ tx
    BY DEF InStepInv, OneStory
  <2>2. ASSUME NEW ok \in BOOLEAN, Exec(ok) PROVE writes' = writes /\ db' = db
    BY <2>1, <2>2 DEF Exec, Begin, Commit, Discard, Run
  <2>3. CASE Fault
    BY <2>1, <2>3 DEF Fault, Abort, Discard
  <2>4. CASE End
    BY <2>4 DEF End, Discard
  <2>5. CASE Greet \/ Take \/ ReportReady \/ Receive \/ \E message \in Messages : Send(message)
    BY <2>5 DEF Greet, Take, ReportReady, Receive, Send, engineVars
  <2> QED
    BY <2>2, <2>3, <2>4, <2>5 DEF Next, Serve
<1>2. InStepInv /\ [Next]_vars => [poisoned /\ Exec(TRUE) => active.kind \in Ends \cup {"BEGIN"}]_vars
  <2> SUFFICES ASSUME InStepInv, poisoned, Exec(TRUE), active.kind \notin Ends \cup {"BEGIN"} PROVE FALSE
    OBVIOUS
  <2>1. failed /\ tx
    BY DEF InStepInv, OneStory
  <2> QED
    BY <2>1 DEF Exec, Run, Ends, InStepInv, Introduced
<1>3. Spec => PoisonedWritesNothing
  BY <1>1, InStepAlways, PTL DEF Spec, PoisonedWritesNothing
<1>4. Spec => AbortedUntilEnd
  BY <1>2, InStepAlways, PTL DEF Spec, AbortedUntilEnd
<1> QED
  BY <1>3, <1>4 DEF FailedBlockIsDead
=============================================================================
