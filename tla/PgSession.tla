----------------------------- MODULE PgSession ------------------------------
(***************************************************************************)
(* One Postgres connection: the session that decodes it (internal/pgwire), *)
(* the executor that runs its statements (internal/sqlitedb), and the      *)
(* verdicts of the control layer in between.                               *)
(*                                                                         *)
(* The transaction is kept twice.  The executor has it open or not, failed *)
(* or not; the session follows what the client was told, in inBlock and    *)
(* aborted, and reports it in the status byte of every ReadyForQuery.      *)
(*                                                                         *)
(* The client may send ahead of the answers.  SQLite is external: a        *)
(* statement of the engine succeeds or fails, and a commit makes the       *)
(* transaction's writes permanent or fails and leaves none.                *)
(***************************************************************************)
EXTENDS Integers, Sequences, FiniteSets

CONSTANTS
  Queries,      \* what a Query message can hold: sequences of kinds
  Prepared,     \* the kinds a Parse message prepares
  MaxSent,      \* bound: messages the client sends
  MaxAhead      \* bound: messages sent and not yet read

(* What a statement can be: one that only reads, one that writes, one that *)
(* begins or ends a block, and the driver's own.                           *)
Kinds == {"READ", "WRITE", "BEGIN", "COMMIT", "ROLLBACK", "DEALLOCATE"}

ASSUME PgAssumption ==
  /\ MaxSent \in Nat /\ MaxAhead \in Nat
  /\ Queries \subseteq Seq(Kinds) /\ Prepared \subseteq Kinds

VARIABLES
  inbox,       \* what the client has sent and the session not read
  sent,        \* how many messages it has sent
  phase,       \* where the serve loop is: "next", "decide" or "closed"
  queue,       \* the statements of the query under way
  active,      \* the operation Next last returned
  prepared,    \* the prepared statement, or None
  portal,      \* the bound portal, or None
  greeted, owesReady, skipping,
  inBlock, aborted,    \* the transaction as the client was told
  tx, failed,          \* the transaction as the executor has it
  writes,      \* what the open transaction has written
  db,          \* what has been committed
  wrote,       \* how many writes the engine was asked for
  owed,        \* Query and Sync messages read and not yet answered
  reported,    \* the last status byte, and what it was about
  believed,    \* the writes of the block the client thinks it is in
  promised,    \* the writes the client was told are permanent
  denied,      \* the writes the client was told are not
  poisoned,    \* a statement of the executor's block has failed
  nested       \* BEGIN was sent inside the executor's block

protoVars == <<inbox, sent>>
sessionVars == <<queue, active, prepared, portal, greeted, owesReady, skipping, inBlock, aborted>>
engineVars == <<tx, failed, writes, db, wrote>>
clientVars == <<owed, reported, believed, promised, denied, poisoned, nested>>
vars == <<protoVars, phase, sessionVars, engineVars, clientVars>>

None == "none"
Connect == [kind |-> "CONNECT", extended |-> FALSE]
Task(kind, extended) == [kind |-> kind, extended |-> extended]
Driver == {"DEALLOCATE"}
Ends == {"COMMIT", "ROLLBACK"}

Messages ==
  [type : {"Query"}, text : Queries] \cup [type : {"Parse"}, kind : Prepared]
  \cup [type : {"Bind", "Describe", "Execute", "CloseStatement", "Sync"}]

Status == IF aborted THEN "E" ELSE IF inBlock THEN "T" ELSE "I"

Init ==
  /\ inbox = <<>> /\ sent = 0
  /\ phase = "next"
  /\ queue = <<>> /\ active = Connect
  /\ prepared = None /\ portal = None
  /\ greeted = FALSE /\ owesReady = FALSE /\ skipping = FALSE
  /\ inBlock = FALSE /\ aborted = FALSE
  /\ tx = FALSE /\ failed = FALSE
  /\ writes = {} /\ db = {} /\ wrote = 0
  /\ owed = 0
  /\ reported = [status |-> "I", tx |-> FALSE, failed |-> FALSE, nested |-> FALSE]
  /\ believed = {} /\ promised = {} /\ denied = {}
  /\ poisoned = FALSE /\ nested = FALSE

---------------------------------------------------------------------------
(* The client *)

Send(message) ==
  /\ phase # "closed"
  /\ sent < MaxSent /\ Len(inbox) < MaxAhead
  /\ inbox' = Append(inbox, message)
  /\ sent' = sent + 1
  /\ UNCHANGED <<phase, sessionVars, engineVars, clientVars>>

---------------------------------------------------------------------------
(* Mutants of the definitions below. *)
TrackForgetsCommit(kind, succeeded) ==
  CASE kind = "BEGIN" -> inBlock' = succeeded /\ aborted' = FALSE
    [] kind \in Ends -> inBlock' = (inBlock /\ ~succeeded) /\ aborted' = FALSE
    [] OTHER -> UNCHANGED inBlock /\ aborted' = (aborted \/ (~succeeded /\ inBlock))
AbortKeepsWrites(kind) ==
  IF kind \in Ends
  THEN /\ tx' = FALSE /\ failed' = FALSE /\ writes' = {}
       /\ poisoned' = FALSE /\ nested' = FALSE
       /\ db' = IF kind = "COMMIT" /\ ~failed THEN db \cup writes ELSE db
  ELSE /\ failed' = tx /\ poisoned' = (poisoned \/ tx)
       /\ nested' = (nested \/ (tx /\ kind = "BEGIN"))
       /\ UNCHANGED <<tx, writes, db>>
RunIgnoresFailed(kind, ok) ==
  /\ IF ok
     THEN /\ IF kind # "WRITE" THEN UNCHANGED <<writes, db>>
             ELSE IF tx THEN writes' = writes \cup {wrote} /\ UNCHANGED db
                        ELSE db' = db \cup {wrote} /\ UNCHANGED writes
          /\ UNCHANGED <<tx, failed, poisoned>>
     ELSE failed' = tx /\ poisoned' = (poisoned \/ tx) /\ UNCHANGED <<tx, writes, db>>
  /\ UNCHANGED nested
QueryOwesNothing(text) ==
  /\ owed' = owed + 1
  /\ queue' = [i \in 1..Len(text) |-> Task(text[i], FALSE)]
  /\ UNCHANGED <<owesReady, skipping, prepared, portal>>
SyncKeepsSkipping ==
  /\ owesReady' = TRUE
  /\ owed' = owed + 1
  /\ UNCHANGED <<skipping, queue, prepared, portal>>
---------------------------------------------------------------------------
(* session.Next *)

(* The first operation of a connection is the connection itself. *)
Greet ==
  /\ phase = "next" /\ ~greeted
  /\ greeted' = TRUE
  /\ active' = Connect
  /\ phase' = "decide"
  /\ UNCHANGED <<protoVars, queue, prepared, portal, owesReady, skipping, inBlock, aborted,
                 engineVars, clientVars>>

(* The next statement of the query; the driver's own are answered here. *)
Take ==
  /\ phase = "next" /\ greeted /\ queue # <<>>
  /\ active' = Head(queue)
  /\ queue' = Tail(queue)
  /\ phase' = IF Head(queue).kind \in Driver THEN "next" ELSE "decide"
  /\ UNCHANGED <<protoVars, prepared, portal, greeted, owesReady, skipping, inBlock, aborted,
                 engineVars, clientVars>>

(* reportReady, ahead of every read. *)
ReportReady ==
  /\ phase = "next" /\ greeted /\ queue = <<>> /\ owesReady
  /\ owesReady' = FALSE
  /\ reported' = [status |-> Status, tx |-> tx, failed |-> failed, nested |-> nested]
  /\ owed' = IF owed = 0 THEN 0 ELSE owed - 1
  /\ UNCHANGED <<protoVars, phase, queue, active, prepared, portal, greeted, skipping, inBlock,
                 aborted, engineVars, believed, promised, denied, poisoned, nested>>

Reject == skipping' = TRUE /\ UNCHANGED <<queue, prepared, portal, owesReady, owed>>

Sync ==
  /\ skipping' = FALSE
  /\ owesReady' = TRUE
  /\ owed' = owed + 1
  /\ UNCHANGED <<queue, prepared, portal>>

Query(text) ==
  /\ owesReady' = TRUE
  /\ owed' = owed + 1
  /\ queue' = [i \in 1..Len(text) |-> Task(text[i], FALSE)]
  /\ UNCHANGED <<skipping, prepared, portal>>

Parse(kind) ==
  /\ prepared' = kind
  /\ UNCHANGED <<queue, portal, owesReady, skipping, owed>>

(* A format or a parameter emu cannot read is refused as well. *)
Bind ==
  \/ Reject
  \/ /\ prepared # None
     /\ portal' = prepared
     /\ UNCHANGED <<queue, prepared, owesReady, skipping, owed>>

Describe ==
  \/ prepared = None /\ Reject
  \/ portal = None /\ Reject
  \/ {prepared, portal} # {None} /\ UNCHANGED <<queue, prepared, portal, owesReady, skipping, owed>>

(* So is a limit on the rows of an answer. *)
Execute ==
  \/ Reject
  \/ /\ portal # None
     /\ queue' = <<Task(portal, TRUE)>>
     /\ UNCHANGED <<prepared, portal, owesReady, skipping, owed>>

CloseStatement ==
  /\ prepared' = None
  /\ UNCHANGED <<queue, portal, owesReady, skipping, owed>>

(* dispatch: between an error and the Sync after it, everything is         *)
(* discarded.                                                              *)
Receive ==
  LET message == Head(inbox) IN
  /\ phase = "next" /\ greeted /\ queue = <<>> /\ ~owesReady
  /\ inbox # <<>>
  /\ inbox' = Tail(inbox)
  /\ \/ message.type = "Sync" /\ Sync
     \/ /\ message.type # "Sync" /\ skipping
        /\ UNCHANGED <<queue, prepared, portal, owesReady, skipping, owed>>
     \/ /\ message.type # "Sync" /\ ~skipping
        /\ \/ message.type = "Query" /\ Query(message.text)
           \/ message.type = "Parse" /\ Parse(message.kind)
           \/ message.type = "Bind" /\ Bind
           \/ message.type = "Describe" /\ Describe
           \/ message.type = "Execute" /\ Execute
           \/ message.type = "CloseStatement" /\ CloseStatement
  /\ UNCHANGED <<sent, phase, active, greeted, inBlock, aborted, engineVars, reported, believed,
                 promised, denied, poisoned, nested>>

---------------------------------------------------------------------------
(* Reply and Fail *)

Track(kind, succeeded) ==
  CASE kind = "BEGIN" -> inBlock' = succeeded /\ aborted' = FALSE
    [] kind \in Ends -> inBlock' = FALSE /\ aborted' = FALSE
    [] OTHER -> UNCHANGED inBlock /\ aborted' = (aborted \/ (~succeeded /\ inBlock))

Reply(kind) ==
  /\ phase' = "next"
  /\ IF kind = "CONNECT"
     THEN owesReady' = TRUE /\ UNCHANGED <<inBlock, aborted>>
     ELSE Track(kind, TRUE) /\ UNCHANGED owesReady
  /\ UNCHANGED <<queue, skipping>>

Fail(kind) ==
  /\ queue' = <<>>
  /\ Track(kind, FALSE)
  /\ phase' = IF kind = "CONNECT" THEN "closed" ELSE "next"
  /\ skipping' = (skipping \/ (active.extended /\ kind # "CONNECT"))
  /\ owesReady' = (owesReady \/ (~active.extended /\ kind # "CONNECT"))

(* What the client makes of the answer. *)
LearnEnd(committed) ==
  /\ promised' = IF committed THEN promised \cup believed ELSE promised
  /\ denied' = IF committed THEN denied ELSE denied \cup believed
  /\ believed' = {}

LearnWrite(ok) ==
  /\ believed' = IF ok /\ inBlock THEN believed \cup {wrote} ELSE believed
  /\ promised' = IF ok /\ ~inBlock THEN promised \cup {wrote} ELSE promised
  /\ denied' = IF ok THEN denied ELSE denied \cup {wrote}

LearnNothing == UNCHANGED <<believed, promised, denied>>

---------------------------------------------------------------------------
(* The executor *)

Discard ==
  /\ tx' = FALSE /\ failed' = FALSE /\ writes' = {}
  /\ poisoned' = FALSE /\ nested' = FALSE

(* begin: inside a block Postgres warns and carries on. *)
Begin(ok) ==
  /\ ~tx \/ ok
  /\ IF tx \/ ~ok THEN UNCHANGED <<tx, failed, writes, poisoned>>
     ELSE tx' = TRUE /\ failed' = FALSE /\ writes' = {} /\ poisoned' = FALSE
  /\ nested' = (nested \/ tx)
  /\ UNCHANGED db

Commit(ok) ==
  /\ ok \/ (tx /\ ~failed)
  /\ db' = IF tx /\ ~failed /\ ok THEN db \cup writes ELSE db
  /\ Discard

(* A statement on its own: in a failed block it is refused; one that fails *)
(* poisons the block it was in.                                            *)
Run(kind, ok) ==
  /\ failed => ~ok
  /\ IF ok
     THEN /\ IF kind # "WRITE" THEN UNCHANGED <<writes, db>>
             ELSE IF tx THEN writes' = writes \cup {wrote} /\ UNCHANGED db
                        ELSE db' = db \cup {wrote} /\ UNCHANGED writes
          /\ UNCHANGED <<tx, failed, poisoned>>
     ELSE failed' = tx /\ poisoned' = (poisoned \/ tx) /\ UNCHANGED <<tx, writes, db>>
  /\ UNCHANGED nested

(* Abort undoes what a fault prevented. *)
Abort(kind) ==
  IF kind \in Ends
  THEN Discard /\ UNCHANGED db
  ELSE /\ failed' = tx /\ poisoned' = (poisoned \/ tx)
       /\ nested' = (nested \/ (tx /\ kind = "BEGIN"))
       /\ UNCHANGED <<tx, writes, db>>

---------------------------------------------------------------------------
(* emulator.step *)

Decided == UNCHANGED <<protoVars, active, prepared, portal, greeted, owed, reported>>

(* The verdict lets the operation through, and the backend runs it. *)
Exec(ok) ==
  LET kind == active.kind IN
  /\ phase = "decide"
  /\ \/ /\ kind = "CONNECT" /\ ok
        /\ UNCHANGED <<tx, failed, writes, db, poisoned, nested>> /\ LearnNothing
     \/ kind = "BEGIN" /\ Begin(ok) /\ LearnNothing
     \/ kind = "COMMIT" /\ Commit(ok) /\ LearnEnd(ok /\ ~failed)
     \/ kind = "ROLLBACK" /\ ok /\ Discard /\ UNCHANGED db /\ LearnEnd(FALSE)
     \/ kind = "READ" /\ Run(kind, ok) /\ LearnNothing
     \/ kind = "WRITE" /\ Run(kind, ok) /\ LearnWrite(ok)
  /\ wrote' = IF kind = "WRITE" THEN wrote + 1 ELSE wrote
  /\ IF ok THEN Reply(kind) ELSE Fail(kind)
  /\ Decided

(* A rule fails the operation: it never reaches the engine. *)
Fault ==
  LET kind == active.kind IN
  /\ phase = "decide"
  /\ Abort(kind)
  /\ \/ kind \in Ends /\ LearnEnd(FALSE)
     \/ kind = "WRITE" /\ LearnWrite(FALSE)
     \/ kind \notin Ends \cup {"WRITE"} /\ LearnNothing
  /\ wrote' = IF kind = "WRITE" THEN wrote + 1 ELSE wrote
  /\ Fail(kind)
  /\ Decided

(* A rule drops the connection, the client ends it, or it sends something  *)
(* emu does not implement: the executor's Close discards what was open.    *)
End ==
  /\ phase # "closed"
  /\ phase' = "closed"
  /\ Discard
  /\ UNCHANGED <<protoVars, sessionVars, db, wrote, owed, reported, believed, promised, denied>>

Serve == Greet \/ Take \/ ReportReady \/ Receive \/ Exec(TRUE) \/ Exec(FALSE) \/ Fault

Next == Serve \/ End \/ \E message \in Messages : Send(message)

Spec == Init /\ [][Next]_vars

(* The goroutine of a connection runs as long as it has something to do. *)
FairSpec == Spec /\ WF_vars(Serve)

---------------------------------------------------------------------------

(* Every variable has its type. *)
TypeOK ==
  /\ phase \in {"next", "decide", "closed"}
  /\ Len(inbox) <= MaxAhead /\ sent <= MaxSent
  /\ {greeted, owesReady, skipping, inBlock, aborted, tx, failed, poisoned, nested} \subseteq BOOLEAN
  /\ writes \cup db \subseteq 0..wrote
  /\ owed \in Nat

(* The status byte of every ReadyForQuery is the truth about the          *)
(* executor's transaction: a driver decides from it whether it has a block *)
(* to end.                                                                 *)
StatusTellsTruth ==
  CASE reported.status = "I" -> ~reported.tx
    [] reported.status = "T" -> reported.tx /\ ~reported.failed
    [] reported.status = "E" -> reported.tx /\ reported.failed

(* So it is, faults and failures at any point included, except in a block  *)
(* that has been sent a second BEGIN (session.track, session.status).      *)
StatusTrueUnlessNested == reported.nested \/ StatusTellsTruth

(***************************************************************************)
(* "a faulted COMMIT has to leave its writes absent": what the client was  *)
(* told is committed is there for good, what it was told is not never is,  *)
(* whichever statement was faulted or failed on the way.                   *)
(***************************************************************************)
ToldTruly == promised \subseteq db /\ denied \cap db = {}

(* Why it holds, where the two accounts of the transaction can differ: the *)
(* session may think a block has ended that the executor still has open,   *)
(* but then it is one that has failed.                                     *)
TwoAccounts ==
  /\ inBlock => tx \/ phase = "closed"
  /\ tx /\ ~inBlock => failed
  /\ believed \subseteq writes \/ phase = "closed"
  /\ denied \cap (db \cup writes) = {}
  /\ writes \cap db = {}
  /\ writes # {} => tx
  /\ promised \subseteq db

(***************************************************************************)
(* "Every later statement gets 25P02 until the ROLLBACK": once a statement *)
(* of a block has failed, nothing of the block is written any more, and    *)
(* none of it is committed.                                                *)
(***************************************************************************)
PoisonedWritesNothing == [][poisoned /\ poisoned' => writes' = writes /\ db' = db]_vars

(* The same sentence in full: in a block that has failed, no statement but *)
(* the one that ends it is answered with success, BEGIN apart.             *)
AbortedUntilEnd == [][poisoned /\ Exec(TRUE) => active.kind \in Ends \cup {"BEGIN"}]_vars

(***************************************************************************)
(* "The client is ready when its whole query is": every Query and every    *)
(* Sync the session reads is answered by one ReadyForQuery of its own,     *)
(* before the next message is read.                                        *)
(***************************************************************************)
OneReadyEach ==
  /\ owed <= 1
  /\ owed = 1 => owesReady \/ phase = "closed"

(* reportReady, status: each Query and each Sync is answered by one        *)
(* ReadyForQuery, and its status byte is that of the engine's block unless *)
(* a second BEGIN came between.                                            *)
InStep == TypeOK /\ OneReadyEach /\ StatusTrueUnlessNested

(* run, discard: a block that has failed takes no write and answers with   *)
(* success only what ends it or begins again, whatever was sent ahead.     *)
FailedBlockIsDead == PoisonedWritesNothing /\ AbortedUntilEnd

(* A session that discards messages stops at the client's Sync: an error   *)
(* leaves no connection that is deaf for ever.                             *)
SyncEndsSkipping ==
  (skipping /\ \E i \in 1..Len(inbox) : inbox[i].type = "Sync") ~>
    (~skipping \/ phase = "closed")
=============================================================================
