------------------------------ MODULE DocStore ------------------------------
(***************************************************************************)
(* The emulated MongoDB: docstore's collections and cursors, shared by     *)
(* every connection under one mutex, and the mongowire sessions that read  *)
(* requests, ask the control layer and answer.  A document is its _id and  *)
(* one field, which holds a number or a word, or is missing.               *)
(***************************************************************************)
EXTENDS Integers, Sequences, FiniteSets, SequencesExt, TLC, Places

CONSTANTS
  Client,      \* connections
  Name,        \* collections
  Seed,        \* the documents each collection starts with
  Capacity,    \* the lesson's rule: inserts and updates fail at this many documents
  MaxOpen,     \* the lesson's rule: a connection is refused at this many
  Script,      \* the requests clients may send
  MaxRequests  \* bound: requests sent in all

VARIABLES
  collections, \* name -> documents, for the collections that exist
  cursors,     \* cursor id -> the namespace and what is left to hand out
  lastCursor,  \* the last id given to a cursor
  objectIds,   \* how many ObjectIds were made
  sessions,    \* client -> its session, with the operation it runs and its gauge
  inbox,       \* client -> requests it sent that were not read
  sent,        \* client -> how many requests it sent
  asked,       \* client -> the requests it waits for an answer to, in order
  answered,    \* client -> the requests its replies name, in order
  answers      \* every answer that did not fit one reply: its cursor, the
               \* whole of it, and what was handed out under that cursor

store == <<collections, cursors, lastCursor, objectIds>>
wires == <<inbox, sent, asked>>
storeVars == <<store, sessions, wires, answered, answers>>

----------------------------------------------------------------------------
(* Documents, filters and updates                                           *)

Missing == <<"missing", 0>>
Number(n) == <<"number", n>>
Word == <<"word", 0>>
Given(i) == <<"given", i>>
Doc(id, qty) == [id |-> id, qty |-> qty]
NoDoc == Doc(Missing, Missing)

\* What a document may hold, what a filter asks and what an update changes.
Identifier == {Missing} \cup ({"given", "made"} \X Nat)
Value == {Missing, Word} \cup ({"number"} \X Int)
Document == [id : Identifier, qty : Value]
Filter == {<<"every">>, <<"unsupported">>} \cup ({"_id"} \X Identifier) \cup ({"qty"} \X Value)
Modifier == ({"$set", "replace"} \X Value) \cup ({"set_id"} \X Identifier)
            \cup ({"$unset", "$inc", "$push"} \X {0})

\* The requests a driver may send, by the command they carry.
Bare == {"ping", "unknown", "undecodable", "malformed", "createIndexes", "count", "drop",
         "dropDatabase", "listCollections"}
Request ==
  [kind : Bare, name : Name, silent : BOOLEAN]
    \cup [kind : {"insert"}, name : Name, silent : BOOLEAN,
          documents : Seq(Document), ordered : BOOLEAN]
    \cup [kind : {"update"}, name : Name, silent : BOOLEAN,
          updates : Seq([q : Filter, u : Modifier, multi : BOOLEAN, upsert : BOOLEAN])]
    \cup [kind : {"delete"}, name : Name, silent : BOOLEAN,
          deletes : Seq([q : Filter, limit : Int])]
    \cup [kind : {"find"}, name : Name, silent : BOOLEAN, filter : Filter,
          sort : {-1, 0, 1}, skip : Nat, limit : Nat, size : Nat]
    \cup [kind : {"aggregate"}, name : Name, silent : BOOLEAN, size : Nat,
          pipeline : Seq(({"$match"} \X Filter) \cup ({"$skip", "$limit"} \X Nat)
                           \cup ({"$count", "$group", "$lookup"} \X {0}))]
    \cup [kind : {"getMore", "killCursors"}, name : Name, silent : BOOLEAN,
          handle : Nat, size : Nat]

\* The most documents one request adds.
LargestBatch == Max({1} \cup {Len(r.documents) : r \in {q \in Script : q.kind = "insert"}}
                       \cup {Len(r.updates) : r \in {q \in Script : q.kind = "update"}})

ASSUME ScriptAssumption == IsFiniteSet(Client) /\ IsFiniteSet(Script) /\ Script \subseteq Request
ASSUME SeedAssumption ==
  /\ Seed \in Seq(Document)
  /\ \A i, j \in DOMAIN Seed : Seed[i].id # Missing /\ (i # j => Seed[i].id # Seed[j].id)
ASSUME RuleAssumption ==
  Capacity \in Nat /\ MaxOpen \in Nat \ {0} /\ Len(Seed) <= Capacity

\* A filter emu cannot evaluate fails on the first document it is held against.
Evaluable(f) == f[1] # "unsupported"
Matches(d, f) ==
  CASE f[1] = "every" -> TRUE
    [] f[1] = "_id"   -> d.id = f[2]
    [] f[1] = "qty"   -> d.qty = f[2]

Take(s, n) == SubSeq(s, 1, IF n < Len(s) THEN n ELSE Len(s))

\* find, selectFor: where the matching documents are.
Breaks(docs, f) == docs # <<>> /\ ~Evaluable(f)
Places(docs) == [i \in DOMAIN docs |-> i]
Matching(docs, f) == {i \in DOMAIN docs : Evaluable(f) /\ Matches(docs[i], f)}
SelectFor(docs, f, all) ==
  LET found == InOrder(Matching(docs, f)) IN IF all THEN found ELSE Take(found, 1)

\* applyUpdate: $set, $inc and $unset of the field, $set of the _id, or a
\* replacement, which keeps the _id.
UpdateFails(d, u) == u[1] = "$push" \/ (u[1] = "$inc" /\ d.qty = Word)
ApplyUpdate(d, u) ==
  CASE u[1] \in {"$set", "replace"} -> [d EXCEPT !.qty = u[2]]
    [] u[1] = "$unset"  -> [d EXCEPT !.qty = Missing]
    [] u[1] = "$inc"    -> [d EXCEPT !.qty = Number(IF @ = Missing THEN 1 ELSE @[2] + 1)]
    [] u[1] = "set_id"  -> [d EXCEPT !.id = u[2]]

\* equalityFields: what an upsert's filter says the document is.
EqualityFields(f) ==
  CASE f[1] = "_id" -> Doc(f[2], Missing)
    [] f[1] = "qty" -> Doc(Missing, f[2])
    [] OTHER        -> NoDoc

----------------------------------------------------------------------------
(* Writes: what a batch leaves of a collection.  w holds the documents, the *)
(* ObjectIds made, the counts of the reply and whether the command failed.  *)

Writing(docs) == [docs |-> docs, made |-> objectIds, n |-> 0, modified |-> 0,
                  errors |-> {}, failed |-> FALSE]
Taken(docs, id) == \E i \in DOMAIN docs : docs[i].id = id

\* insert: an _id where there is none, unless the collection has it already.
Identified(w, d) == IF d.id = Missing THEN [d EXCEPT !.id = <<"made", w.made + 1>>] ELSE d
Insert(w, d) ==
  LET stored == Identified(w, d)
  IN IF Taken(w.docs, stored.id) THEN [w EXCEPT !.failed = TRUE]
     ELSE [w EXCEPT !.docs = Append(@, stored), !.n = @ + 1,
                    !.made = IF d.id = Missing THEN @ + 1 ELSE @]

\* A duplicate is a write error inside a successful command; an ordered batch
\* stops there.
InsertNext(w, d, i, ordered) ==
  LET inserted == Insert(w, d)
  IN CASE ordered /\ w.errors # {} -> w
       [] inserted.failed -> [w EXCEPT !.errors = @ \cup {i}]
       [] OTHER -> inserted
InsertBatch(docs, batch, ordered) ==
  LET after[i \in 0 .. Len(batch)] ==
        IF i = 0 THEN Writing(docs) ELSE InsertNext(after[i - 1], batch[i], i, ordered)
  IN after[Len(batch)]

\* checkIdentifier, rewrite: document by document, up to the first failure.
AnyIdentifier(before, after) == TRUE
KeepsIdentifier(before, after) == before.id = after.id
Rewrite(w, i, u) ==
  LET updated == ApplyUpdate(w.docs[i], u)
  IN IF w.failed \/ UpdateFails(w.docs[i], u) \/ ~KeepsIdentifier(w.docs[i], updated)
     THEN [w EXCEPT !.failed = TRUE]
     ELSE [w EXCEPT !.docs[i] = updated, !.n = @ + 1,
                    !.modified = IF updated = w.docs[i] THEN @ ELSE @ + 1]

RewriteAll(w, places, u) ==
  LET after[i \in 0 .. Len(places)] ==
        IF i = 0 THEN w ELSE Rewrite(after[i - 1], places[i], u)
  IN after[Len(places)]

\* create: the filter's fields, updated, inserted.
Create(w, f, u) ==
  IF UpdateFails(EqualityFields(f), u) THEN [w EXCEPT !.failed = TRUE]
  ELSE Insert(w, ApplyUpdate(EqualityFields(f), u))

UpdateOne(w, e) ==
  IF w.failed \/ Breaks(w.docs, e.q) THEN [w EXCEPT !.failed = TRUE]
  ELSE LET selected == SelectFor(w.docs, e.q, e.multi)
       IN IF selected = <<>> /\ e.upsert THEN Create(w, e.q, e.u)
          ELSE RewriteAll(w, selected, e.u)

\* remove: every match, or the first.
DeleteOne(w, e) ==
  IF w.failed \/ e.limit \notin {0, 1} \/ Breaks(w.docs, e.q)
  THEN [w EXCEPT !.failed = TRUE]
  ELSE LET selected == ToSet(SelectFor(w.docs, e.q, e.limit = 0))
       IN [w EXCEPT !.docs = Picked(@, DOMAIN @ \ selected), !.n = @ + Cardinality(selected)]

UpdateBatch(docs, updates) ==
  LET after[i \in 0 .. Len(updates)] ==
        IF i = 0 THEN Writing(docs) ELSE UpdateOne(after[i - 1], updates[i])
  IN after[Len(updates)]
DeleteBatch(docs, deletes) ==
  LET after[i \in 0 .. Len(deletes)] ==
        IF i = 0 THEN Writing(docs) ELSE DeleteOne(after[i - 1], deletes[i])
  IN after[Len(deletes)]

----------------------------------------------------------------------------
(* Reads: the documents of an answer                                        *)

\* sortDocuments: by the field, stably; a missing field first, words last.
Rank(d) == CASE d.qty = Missing -> 0 [] d.qty = Word -> 100 [] OTHER -> 1 + d.qty[2]
Sorted(docs, direction) ==
  LET Before(i, j) == direction * Rank(docs[i]) < direction * Rank(docs[j])
      order == SortSeq(Places(docs), LAMBDA i, j : Before(i, j) \/ (~Before(j, i) /\ i < j))
  IN [k \in DOMAIN docs |-> docs[order[k]]]

\* The cut of skip and limit, both natural numbers here: a negative skip (find.go:95-105
\* would slice from below zero), singleBatch and a negative limit (85-93) are left out.
Window(docs, skip, limit) ==
  LET rest == SubSeq(docs, skip + 1, Len(docs))
  IN IF limit > 0 THEN Take(rest, limit) ELSE rest

\* find's answer: selected, sorted, cut, copied; skip and limit as normalised.
Found(docs, c) ==
  Window(Sorted(Picked(docs, Matching(docs, c.filter)), c.sort), c.skip, c.limit)

\* runPipeline, over a copy; stages emu does not have fail.
Stage(docs, s) ==
  CASE s[1] = "$match" -> Picked(docs, Matching(docs, s[2]))
    [] s[1] = "$skip"  -> Window(docs, s[2], 0)
    [] s[1] = "$limit" -> Window(docs, 0, s[2])
    [] s[1] \in {"$count", "$group"} -> <<Doc(Missing, Number(Len(docs)))>>
Stages == {"$match", "$skip", "$limit", "$count", "$group"}
RunStage(p, s) ==
  IF p.failed \/ s[1] \notin Stages \/ (s[1] = "$match" /\ Breaks(p.docs, s[2]))
  THEN [p EXCEPT !.failed = TRUE]
  ELSE [p EXCEPT !.docs = Stage(p.docs, s)]
Pipeline(docs, stages) ==
  LET after[i \in 0 .. Len(stages)] ==
        IF i = 0 THEN [docs |-> docs, failed |-> FALSE] ELSE RunStage(after[i - 1], stages[i])
  IN after[Len(stages)]
----------------------------------------------------------------------------
(* The sessions.  phase is "away" before the connection, "connect" while it *)
(* is decided, then "reading", "running" an operation and "closed".         *)

Idle == [kind |-> "none"]
Session(phase) == [phase |-> phase, request |-> 0, silent |-> FALSE, op |-> Idle, gauge |-> 0]
Phase(c, phase) == sessions' = [sessions EXCEPT ![c] = Session(phase)]
Open == {c \in Client : sessions[c].phase \notin {"away", "closed"}}

\* Accept: the gauge is how many were open already.
Accept(c) ==
  /\ sessions[c].phase = "away"
  /\ sessions' = [sessions EXCEPT ![c] = [Session("connect") EXCEPT !.gauge = Cardinality(Open)]]
  /\ UNCHANGED <<store, wires, answered, answers>>

\* A refused connection closes without a word: there is no frame to say it in.
Connect(c) ==
  /\ sessions[c].phase = "connect"
  /\ Phase(c, IF sessions[c].gauge >= MaxOpen THEN "closed" ELSE "reading")
  /\ UNCHANGED <<store, wires, answered, answers>>

\* The client sends a request; one with moreToCome is not waited for.  A
\* cursor is named by the id some earlier answer came with.
Send(c, r) ==
  /\ sessions[c].phase \notin {"away", "closed"} /\ inbox[c] = <<>>
  /\ FoldFunction(+, 0, sent) < MaxRequests
  /\ r.kind \in {"getMore", "killCursors"} => r.handle \in DOMAIN answers
  /\ sent' = [sent EXCEPT ![c] = @ + 1]
  /\ inbox' = [inbox EXCEPT ![c] = Append(@, r)]
  /\ asked' = IF r.silent THEN asked ELSE [asked EXCEPT ![c] = Append(@, sent[c] + 1)]
  /\ UNCHANGED <<store, sessions, answered, answers>>

AnswerRegardless(c, n, silent) == answered' = [answered EXCEPT ![c] = Append(@, n)]

\* send: nothing to a client that is not reading.
Answer(c, n, silent) ==
  answered' = IF silent THEN answered ELSE [answered EXCEPT ![c] = Append(@, n)]

\* Count: the gauge of an operation, read before it is decided.
Held(name) == IF name \in DOMAIN collections THEN collections[name] ELSE <<>>
Count(r) == IF r.kind \in {"listCollections", "dropDatabase"} THEN 0 ELSE Len(Held(r.name))

\* read: what emu answers about itself, and what it does not implement, never
\* becomes an operation; what cannot be decoded ends the connection.
Read(c) ==
  LET r == Head(inbox[c])
      n == sent[c] - Len(inbox[c]) + 1
  IN /\ sessions[c].phase = "reading" /\ inbox[c] # <<>>
     /\ inbox' = [inbox EXCEPT ![c] = Tail(@)]
     /\ \/ r.kind = "undecodable" /\ Phase(c, "closed") /\ UNCHANGED answered
        \/ r.kind \in {"ping", "unknown"} /\ Answer(c, n, r.silent) /\ UNCHANGED sessions
        \/ /\ r.kind \notin {"undecodable", "ping", "unknown"}
           /\ sessions' = [sessions EXCEPT ![c] =
                [phase |-> "running", request |-> n, silent |-> r.silent, op |-> r, gauge |-> Count(r)]]
           /\ UNCHANGED answered
     /\ UNCHANGED <<store, sent, asked, answers>>

EndOfStream(c) ==
  /\ sessions[c].phase = "reading" /\ inbox[c] = <<>> /\ Phase(c, "closed")
  /\ UNCHANGED <<store, wires, answered, answers>>

\* Reply and Fail: the reply names its request; it fails if the client left.
Reply(c) ==
  \/ Answer(c, sessions[c].request, sessions[c].silent) /\ Phase(c, "reading")
  \/ ~sessions[c].silent /\ Phase(c, "closed") /\ UNCHANGED answered

----------------------------------------------------------------------------
(* What each command does to the store                                      *)

Running(c, kind) ==
  /\ sessions[c].phase = "running" /\ sessions[c].op.kind \in kind
  /\ Reply(c) /\ UNCHANGED wires
Faulted(c) == sessions[c].op.kind \in {"insert", "update"} /\ sessions[c].gauge >= Capacity

\* A faulted operation is one the store never saw.
Fault(c) == /\ Running(c, {"insert", "update"}) /\ Faulted(c)
            /\ UNCHANGED <<store, answers>>

\* collect: naming a collection brings it into being.
Collect(name, docs) ==
  collections' = [x \in DOMAIN collections \cup {name} |->
                    IF x = name THEN docs ELSE collections[x]]

\* insert, update, delete: a failed update or delete keeps what it did so far.
Write(c) ==
  LET r == sessions[c].op
      docs == Held(r.name)
      w == CASE r.kind = "insert" -> InsertBatch(docs, r.documents, r.ordered)
             [] r.kind = "update" -> UpdateBatch(docs, r.updates)
             [] r.kind = "delete" -> DeleteBatch(docs, r.deletes)
  IN /\ Running(c, {"insert", "update", "delete"}) /\ ~Faulted(c)
     /\ Collect(r.name, w.docs) /\ objectIds' = w.made
     /\ UNCHANGED <<cursors, lastCursor, answers>>

\* batch: the first page, and a cursor for what is left.
FirstPage(answer, size) == IF size > 0 THEN Take(answer, size) ELSE answer
LowestFreeCursor == Cardinality(DOMAIN cursors) + 1
NextCursor == lastCursor + 1
Rest(answer, page) == SubSeq(answer, Len(page) + 1, Len(answer))
StoreBatch(answer, size) ==
  LET page == FirstPage(answer, size)
      rest == Rest(answer, page)
  IN IF rest = <<>> THEN UNCHANGED <<cursors, lastCursor, answers>>
     ELSE /\ lastCursor' = NextCursor
          /\ cursors' = [i \in DOMAIN cursors \cup {NextCursor} |->
                           IF i = NextCursor THEN rest ELSE cursors[i]]
          /\ answers' = Append(answers,
                [cursor |-> NextCursor, whole |-> answer, given |-> page])

Query(c) ==
  LET r == sessions[c].op
      docs == Held(r.name)
      p == Pipeline(docs, r.pipeline)
  IN /\ Running(c, {"find", "aggregate", "count"})
     /\ Collect(r.name, docs)
     /\ \/ r.kind = "find" /\ Breaks(docs, r.filter) /\ UNCHANGED <<cursors, lastCursor, answers>>
        \/ r.kind = "find" /\ ~Breaks(docs, r.filter) /\ StoreBatch(Found(docs, r), r.size)
        \/ r.kind = "aggregate" /\ p.failed /\ UNCHANGED <<cursors, lastCursor, answers>>
        \/ r.kind = "aggregate" /\ ~p.failed /\ StoreBatch(p.docs, r.size)
        \/ r.kind = "count" /\ UNCHANGED <<cursors, lastCursor, answers>>
     /\ UNCHANGED objectIds

\* getMore: the next page, and the end of a cursor that has run out.  A cursor
\* emu does not know is a failure.
Page(remaining, size) == IF size > 0 THEN Take(remaining, size) ELSE remaining
GetMore(c) ==
  LET r == sessions[c].op
      id == answers[r.handle].cursor
      page == Page(cursors[id], r.size)
      rest == Rest(cursors[id], page)
  IN /\ Running(c, {"getMore"})
     /\ \/ id \notin DOMAIN cursors /\ UNCHANGED <<cursors, answers>>
        \/ /\ id \in DOMAIN cursors
           /\ cursors' = [i \in (IF rest = <<>> THEN DOMAIN cursors \ {id} ELSE DOMAIN cursors) |->
                            IF i = id THEN rest ELSE cursors[i]]
           /\ answers' = [answers EXCEPT ![r.handle].given = @ \o page]
     /\ UNCHANGED <<collections, lastCursor, objectIds>>

KillCursors(c) ==
  /\ Running(c, {"killCursors"})
  /\ cursors' = [i \in DOMAIN cursors \ {answers[sessions[c].op.handle].cursor} |-> cursors[i]]
  /\ UNCHANGED <<collections, lastCursor, objectIds, answers>>

CreateIndexes(c) ==
  /\ Running(c, {"createIndexes"})
  /\ Collect(sessions[c].op.name, Held(sessions[c].op.name))
  /\ UNCHANGED <<cursors, lastCursor, objectIds, answers>>

\* listCollections and listDatabases answer in one page; a command whose
\* fields do not read is refused before it names its collection.
List(c) == Running(c, {"listCollections", "malformed"}) /\ UNCHANGED <<store, answers>>

\* drop: an unknown collection is an error; cursors stay.
Drop(c) ==
  /\ Running(c, {"drop"})
  /\ collections' = [x \in DOMAIN collections \ {sessions[c].op.name} |-> collections[x]]
  /\ UNCHANGED <<cursors, lastCursor, objectIds, answers>>

Emptied == collections' = <<>> /\ cursors' = <<>> /\ UNCHANGED lastCursor
DropDatabase(c) == Running(c, {"dropDatabase"}) /\ Emptied /\ UNCHANGED <<objectIds, answers>>

----------------------------------------------------------------------------
StoreInit ==
  /\ collections = [x \in Name |-> Seed] /\ cursors = <<>> /\ lastCursor = 0 /\ objectIds = 0
  /\ sessions = [c \in Client |-> Session("away")]
  /\ inbox = [c \in Client |-> <<>>] /\ sent = [c \in Client |-> 0]
  /\ asked = [c \in Client |-> <<>>] /\ answered = [c \in Client |-> <<>>] /\ answers = <<>>

Exec(c) == \/ Fault(c) \/ Write(c) \/ Query(c) \/ GetMore(c) \/ KillCursors(c)
           \/ CreateIndexes(c) \/ List(c) \/ Drop(c) \/ DropDatabase(c)
Server(c) == Connect(c) \/ Read(c) \/ Exec(c)
StoreNext ==
  \E c \in Client : Accept(c) \/ EndOfStream(c) \/ Server(c) \/ \E r \in Script : Send(c, r)
StoreSpec == StoreInit /\ [][StoreNext]_storeVars

----------------------------------------------------------------------------
(* Properties *)

\* Documents, cursors and sessions have their shapes; a cursor always has
\* something left, and its id was given out.
StoreTypeOK ==
  /\ DOMAIN collections \subseteq Name /\ objectIds \in Nat
  /\ \A x \in DOMAIN collections : \A i \in DOMAIN collections[x] :
       collections[x][i].id # Missing
  /\ DOMAIN cursors \subseteq 1 .. lastCursor
  /\ \A i \in DOMAIN cursors : cursors[i] # <<>>
  /\ \A c \in Client : sessions[c].phase \in {"away", "connect", "reading", "running", "closed"}

\* insert, checkIdentifier, upsert: whatever batches do, and wherever they
\* fail, no collection holds two documents with one _id.
UniqueIds ==
  \A x \in DOMAIN collections : \A i, j \in DOMAIN collections[x] :
    i # j => collections[x][i].id # collections[x][j].id

\* batch, getMore: what connections are given under a cursor id is one answer,
\* as the find saw it, in order and without a gap; writes, drops, other
\* cursors and other connections paging the same one do not show in it.
PagesTellOneAnswer ==
  \A h \in DOMAIN answers :
    LET a == answers[h]
    IN /\ IsPrefix(a.given, a.whole)
       /\ a.cursor \in DOMAIN cursors => a.given \o cursors[a.cursor] = a.whole

\* operation: the gauge is the count before the operation, read before the
\* verdict, so a capacity rule lets through at most what the connections let
\* in, which the gauge of Accept limits, had decided on by then.
OvershootBounded ==
  \A x \in DOMAIN collections :
    Len(collections[x]) < Capacity + MaxOpen * LargestBatch

\* insert, update, the document gauge: after any mix of batches, whole or cut
\* short, ids are unique and a capacity rule is passed by no more than the
\* connections that read the gauge together.
StoreSound == StoreTypeOK /\ UniqueIds /\ OvershootBounded

\* pending, send: replies name the client's requests one after another; one
\* the client does not wait for has none, so the next is not taken for it;
\* and a session that reads on owes none for what it has read.
RepliesInOrder ==
  \A c \in Client :
    /\ IsPrefix(answered[c], asked[c])
    /\ sessions[c].phase = "reading" =>
         \A n \in ToSet(asked[c]) : n <= sent[c] - Len(inbox[c]) => n \in ToSet(answered[c])

\* The comment on dropDatabase has a cursor over a collection that no longer
\* exists hand out nothing; drop leaves its cursors.  Kept for the record.
DropEndsCursors == \A h \in DOMAIN answers :
  answers[h].cursor \in DOMAIN cursors => DOMAIN collections = Name
=============================================================================
