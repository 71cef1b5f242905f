# Project Hannibal in TLA+

Project Hannibal teaches programming by running a student's code in a sandbox,
beside emulated services (a broker, a database, a cache) that a lesson can make
fail on purpose. This directory holds TLA+ models of the parts whose
correctness is hard to test, the TLC configurations that check them on small
instances, and proofs of what matters most for every value of the constants.

`PROJECT.json` is the index: components and their sources, runs, the lines each
definition translates, a mutant for every property, hazards, findings, theorems.

    tlc -workers 2 -config MCQueues_one.cfg MCQueues     # a run
    tlapm QueuesProofs.tla                               # the proofs of a module

## 1. Inventory

### How the system is put together

    browser -- HTTP/SSE --> backend -- RabbitMQ --> rce-service --> containers
                                                                      |
                       student's program  <-- wire protocols -->  emu-service

- **emu-service** (Go) runs inside the sandbox, starts the student's program as
  its child, and speaks AMQP, the Postgres protocol, RESP and the Mongo protocol
  to it. Every operation of every protocol passes the *control layer*, which
  decides whether a rule of the lesson faults it, and is written to the *op
  log*, which is what the student is graded on.
- **rce-service** (Python, asyncio and threads) consumes jobs, installs the
  packages they import into cache volumes, runs them in containers and streams
  the output back.
- **backend** (FastAPI) keeps users, courses and progress, and is the RPC client
  of rce-service. **frontend** is React; **dsl-service** is a stub.

### Components

| Component | State | Operations | Interacts with | Hard behaviour |
|---|---|---|---|---|
| Broker backend (`internal/queues`) | queues, exchanges, per connection the deliveries that are out, counters, consumers | declare, bind, publish, get, consume, settle, qos, cancel, purge, delete, end of a connection | AMQP sessions (deliveries go into their outboxes), control layer (gauges) | dispatch loops under one mutex; connections that die; names declared again |
| Op log (`internal/oplog`) | ring, oldest slot, ordinals, dropped | Record, Snapshot, Since, Dropped | written by the control layer, read by dashboard and dump | wrapping round |
| Control layer (`internal/control`) | armed rules with their counters, mutex | Before, AddRule, RemoveRule, ResetRules, Fire | called by every emulator; operated over a socket and HTTP | rules compete; they are changed while operations are decided |
| Emulator loop (`internal/emulator`) | one goroutine per connection | handle, step | sessions, control layer, backends | values read at decoding and used at deciding |
| Dashboard (`control/http.go`, `dashboard.html`) | the page's cursor, rows, rules shown | poll, arm, disarm by index, reset | control layer, op log | three locks per answer; overlapping polls |
| Postgres session and SQLite executor (`internal/pgwire`, `internal/sqlitedb`) | transaction (twice), prepared statement, portal, skipping, owed ReadyForQuery | Query, Parse, Bind, Describe, Execute, Close, Sync | emulator loop, SQLite | pipelining, errors in the middle, faults that replace COMMIT |
| AMQP session (`internal/amqp`) | channels, content under way, outbox, confirms | frames and methods | broker backend | closing channels, three-frame publishes |
| Redis emulator (`internal/resp`, `internal/kv`) | keys with values and deadlines | about sixty commands | emulator loop | lazy expiry |
| Mongo emulator (`internal/mongowire`, `internal/docstore`) | collections, cursors | find, getMore, writes | emulator loop | cursors that outlive their documents, batches that fail half way |
| Child runner, supervisor, fleet, command line (`internal/control/child.go`, `supervise`, `fleet`, `cli`) | the child, its output, signals, services | start, stop, reap, dump | the operating system | Stop against start, signals against SIGCHLD, dump against late operations |
| Install queue (`install_queue.py`, `installer.py`, `prewarm.py`) | jobs, lock per language, semaphore, containers | ensure, install, start-up task | Docker, the AMQP client | time-outs, retries, containers that cannot be stopped, handlers cancelled when the connection is lost |
| Run sandbox and worker (`docker.py`, `handlers.py`, `consumer.py`) | run semaphore, containers, deliveries | execute, stream, acknowledge | RabbitMQ, Docker | redelivery after a crash |
| Execution gateway (`backend/.../rce_gateway`) | pending futures, reply queue | request, stream, reconnect | RabbitMQ | late, duplicate and lost replies |
| Progress (`progress_service.py`) | enrolment rows, counters | start, complete | Postgres | read-then-write |
| Values and SQL text, dependency resolution | none | conversions | | unit tests reach them |
| Authentication, feature flags, courses, tutor, frontend, DSL stub | tables or pages | | | nothing that interleaves in a way of interest |

What makes each one correct is listed, for what is modelled, in section 3; for
the rest, in the plan (section 8). The hazards, each at its line, are in
`PROJECT.json`.

## 2. Modules and the code

| Module | Models | State and actions |
|---|---|---|
| `Routing` | `queues/routing.go` | `WordsMatch` is `wordsMatch` on suffixes, `Reaches` the choice by kind of exchange; `CutsTo` says without recursion what a match is |
| `Queues` | `queues/queues.go`, `queues/exec.go`, `mq/mq.go` | one action per operation |
| `OpLog`, `BoundedLog` | `oplog/oplog.go`; the promise it implements | `Record`, `Snapshot`, `Since` |
| `Interceptor` | `control/interceptor.go`, `rules.go`, `op.go` | `Before`, `DecideStep`, `DecideDone`, `AddRule`, `RemoveRule`, `ResetRules`, `RecordMutation` |
| `ServeLoop` | `emulator/emulator.go` and what `queues/exec.go` does to one queue, composed with `Interceptor` and `OpLog` | `Handle`, `Decode`, `Ask`, `Step`, `Hangup` |
| `Dashboard` | `control/http.go`, `dashboard.html` composed with `OpLog` | `Poll`, three reads, `Receive`, `Lose`, `Arm`, `Disarm`, `Reset` |
| `AmqpSession` | `amqp/session.go`, `decode.go`, `outbox.go`, with the broker as far as a session sees it | `Receive` handles one frame, `Serve` carries out a verdict, `Loop` is `Next` step by step, `Push` is another goroutine at the outbox |
| `KeySpace`, `Cache` | `resp/session.go` and `kv/*.go`; the promise they implement | one action per command, `Greet`, `Defer`, `Take`, `Fail` of the session, `Tick` |
| `DocStore` | `docstore/*.go`, `mongowire/session.go` | one action per command family, `Read`, `Reply`, `Fault` of a session |
| `Lifecycle` | `fleet/fleet.go`, `cli/run.go`, `cli/dev.go`, `supervise/supervise.go`, `control/child.go` | `Add`, `Teardown`, `Serve`; `Register`, `Spawn`, `Track`, `Forward`, `Reap`; `Claim`, `Capture`, `Drain`, `Finish`, `StopRead`, `StopKill`; `Handle`, `RunEnds`, `Interrupt` |
| `PgSession` | `pgwire/session.go`, `sqlitedb/executor.go` | `Receive` decodes a message, `Exec` and `Fault` carry out a verdict |
| `Places` | what a loop over a slice keeps of it (`Log.Since`, `collection.selectFor`) | `InOrder`, `Picked`: no state |
| `InstallQueue` | `install_queue.py`, `installer.py`, `cache.py`, `prewarm.py`, `two_phase.py` | `Ensure`, `Begin`, `Submit`, `Finish`, `Gather`, `LoseConnection` on the loop; `Acquire`, `Start`, `Chown`, `Launch`, `Wait`, `TimeOut`, `Release`, `Cleanup` in threads |
| `MC*` | instances for TLC | |
| `QueuesProofs`, `LogAndStoreProofs`, `PgProofs`, `InstallQueueProofs`, `LifecycleProofs`, `KeySpaceProofs`, `ServeLoopProofs`, `AmqpProofs` | theorems and proofs | |

**Queues.** The code holds one mutex for a whole operation, but a delivery is in
its session's outbox, and visible, before the mutex is released. So an operation
is an action that writes down the loop it is going to run (`work`), and each
iteration (append to a queue, give a delivery back, push one, drop a consumer) is
a step; nothing else starts while `work` is not empty. A queue is an object with
an identity: a name deleted and declared again is a new one, and what is still
out points at the old one, as the code's pointers do. `held` is the map of
deliveries that are out; `unacked` and `outstanding` are the counters kept by hand
beside it. The map iteration order of Go is a choice (`Orderings`).

**Interceptor and ServeLoop.** A rule's threshold, matching count, firing count
and its half of the verdict (timing or outcome) are kept, and the walk over the
rules is one step per rule under the mutex. Operators change rules under the
mutex and record it after they have let go. A session reads the gauges when it
decodes (`Decode`), before it asks. The backend of `ServeLoop` is one queue known
by its depth. A publish makes it deeper; so does a nack that requeues, and so do
the deliveries that a connection holds when it ends (`GiveBack`), and these two pass
no rule. `fresh` counts the messages waiting that have never been handed out,
which are the ones a rule let in. What a rule should have done is read off the log alone: it is
`Concerned` with an operation it matches when no earlier rule has taken its half
of the verdict, and `Occurrences` counts those operations. A depth cap is a rule
that fails every publish from some depth on (`FailsWhenFull`).

**Dashboard.** An answer is put together from the rules, the entries and the count
of dropped ones, read under three different locks; each read is a step. Rules
are disarmed by their position. The timer and each click start a poll whether or not
the last one has come back, and answers may overtake each other. The page takes
over rows, cursor and rules in one step when an answer arrives. `told` and `behind`
remember the most it was told was dropped, and whether an answer to a question
asked from an earlier cursor gave it rows; neither influences a step.

**PgSession.** `inBlock` and `aborted` are the session's account of the
transaction, `tx` and `failed` the executor's. A write is a number; `writes` is
what the open transaction did, `db` what is committed. `believed`, `promised` and
`denied` keep what the client can conclude from the answers; they influence
nothing. One prepared statement and one portal stand for the maps of them: a
name that is not there and one that is are both reached.

**AmqpSession.** One connection and every client that keeps the protocol's rules.
`Next` is taken apart where another goroutine can come between: the outbox is
emptied (`Take`), what was in it is written one delivery at a time
(`SendDelivery`), and then the session waits for a frame, a heartbeat or the
outbox's signal. A push appends and signals in two steps, as
`outbox.Deliver` does. `pending` is the one publish whose header and body are
still to come; `staged` are operations decoded and not yet decided, which is how
a closing channel's consumers are cancelled. The broker is a set of consumers, a set
of deliveries that are out and the last delivery tag; `Queues` has the rest.
`view` is what the client holds true of its channels, and `history` remembers the
causes the properties' exceptions name; neither influences a step of emu.

**KeySpace.** A key has a value of one kind and a deadline, and stays in the map
after it until a command passes it (`At`). Integers wrap at a width that is a
constant. The commands of other connections act on the keys directly; one
connection goes through its session, which answers driver commands itself, puts
the first real command aside while CONNECT is decided, and takes it up
again. `Cache` is what a Redis client expects: a key is gone at its deadline and
every command sees it so. A command that looks at several keys, or at one several
times, reads the clock each time, and may count a key in the last moment of its time
or not (`Ending`, `Counts`); the value a command works with it looks up once. `Cache` also lets any command be answered by nil, an error or a
count, since it does not know arguments: what it holds commands to is the effect on
the keys and the values they tell.

**DocStore.** A document is an `_id` and one field that may be missing. A batch
is a function of the number of entries already carried out, and stops, or goes on, where
one entry fails; the documents a filter selects are a set of places, in order.
What a request may hold is spelt out (`Request`), so that nothing but its shape is
assumed of the lesson's script. A cursor holds the rest of
an answer, and any connection may collect it. `answers` keeps, for every cursor
given out, the whole answer and what was given of it.

**Lifecycle.** `emu run` and `emu dev` share the fleet and the supervisor, so one
module has both, chosen in `Init`. Pending signals are one bit per signal
(`bits`), as in the Go runtime, and go from there to every registered channel that
has room. A child may start a process of its own, which keeps the pipes open in
`emu dev` and becomes emu's own child when orphaned in `emu run`. An operation is
taken off the wire, recorded, run and answered in separate steps, so that
`RunEnds` may dump the log at any point of it. A termination signal goes to
the supervisors registered for it, which pass it on (`Kill`, `Deliver`,
`Forward`), and in `emu dev` to the command itself (`Interrupt`), which closes
the services without waiting for a child of the dashboard: that one has a group of
its own and may have had the signal passed on to it by then, or not.

**InstallQueue.** The admission lock is never held across an await, so a request
is admitted in one step and a job wound up in one. Threads and containers
interleave freely. Markers are stamped only when an installer ends well. When the
AMQP connection is lost (`LoseConnection`, external: what aio_pika does to handlers
under way and what RabbitMQ does to messages not acknowledged), handlers are
cancelled, `gather` cancels the install tasks they await, and the runs come again. A
task that has begun leaves lock and table, while its thread and container go on; one
that has not had its first step leaves its cancelled future behind (`stillborn`), for
the loop starts a task (`Begin`) after it has created it. Starting an installer waits
for a container that changes the volume's owner first (`Chown`), without a time limit. The
executor is taken to have a free thread for each job.

## 3. Runs

Several properties are conjunctions of named parts, each with a comment of its own
in its module; the part in front is the module's type invariant.

| Run | Instance | Shows |
|---|---|---|
| `broker_one_queue` | two connections, one of them with two consumers, tags that all differ, one queue, two messages, prefetch 1 | Counters are the deliveries that are out (`Accounting`); what never went out waits in publishing order behind what did (`FreshInOrder`); a copy disappears only by an acknowledgement, a refusal without requeue, a purge, a deletion or a consumer that needs none (`NoLoss`); the dead hold nothing (`DeadHoldNothing`); no message waits for a consumer with room (`NoStall`); lists and maps of consumers agree, whoever cancels, deletes or goes (`ConsumersAgree`); the mutex is released (`MutexReleased`). |
| `broker_routed` | one connection, an exchange of any kind, two overlapping bindings, two queue objects, names and tags made up by the server | One copy per queue, however many bindings reach it (`AtMostOneCopy`), and the recursive topic matcher is a definition by cuts of the key, on words `a b * #`, up to three in pattern and key (`MatchIsCut`). |
| `dead_consumer` | two connections with server-made tags | **Refuted:** the end of a connection removes another one's consumer and leaves its own (see 5). |
| `rules_compete` | two connections that publish, pull and nack, five rules | Replaying the log against the rules gives exactly the faults it shows and a rule fires within its budget (`RulesHonoured`); the log is what the backend ran (`LogTellsWhatRan`); a depth rule is passed, by messages never handed out, at most by the publishers that read the depth together, whatever is pulled, requeued or given back (`OvershootBounded`); every operation is answered (`EveryOpAnswered`). |
| `rules_changed_live` | one connection, two operators | `RulesHonoured` while rules are armed, disarmed, reset and fired. |
| `dashboard_poll` | one page, one poll at a time, ring of 3, 7 records | What a page misses is covered by a count it was given, and rows are in order (`PageTellsTruly`); the ring underneath implements `BoundedLog` (`RefinesBoundedLog`). |
| `pg_session` | five messages, two ahead, every kind of statement | What the client was told is true (`ToldTruly`); the two accounts differ only over a failed block (`TwoAccounts`); one ReadyForQuery per Query and Sync, with the right status byte unless a block got a second BEGIN (`InStep`); a failed block writes nothing and answers only what ends it (`FailedBlockIsDead`); a Sync ends skipping (`SyncEndsSkipping`). |
| `amqp_session` | two channels, three frames ahead, two deliveries | A delivery in the outbox is not slept through (`NoLostWakeUp`); a confirm carries the number its publish has for the client (`ConfirmNamesItsPublish`); no consumer is left in the broker without a channel, and an acknowledgement names its queue (`BooksKept`); the connection ends for named causes only, and what comes on a channel the client holds closed is due to a cancellation that failed too late (`RuleKeeperServed`, with both exceptions); a close is answered (`CloseAnswered`). |
| `key_space` | one key, two databases, every command, three pipelined commands | Lazy expiry cannot be told from expiry (`RefinesCache`); one answer per command, in order, none before the connection is admitted (`AnsweredInTurn`); no empty collection but a seeded one, whose pop does end the process (`KeysSound`); every command is answered (`AllAnswered`). |
| `doc_store` | three clients of which two are admitted, batches that fail half-way | Ids are unique and a capacity rule is passed by a bounded number of documents (`StoreSound`); the pages under a cursor are one answer (`PagesTellOneAnswer`); replies name their requests in order (`RepliesInOrder`). |
| `lifecycle` | two services, two runs, one write per process, three signals to `emu run` or one to `emu dev`, a channel of two | The child has its whole fleet up to its own end, but for one that `emu dev` leaves behind when it ends, and a start that fails leaves nothing (`WholeFleetOrNone`); dump, exit code and output tell what happened (`ReportsTruly`); an exit is noticed and Stop ends a run, unless a SIGCHLD found the channel full (`ChildEnds`). |
| `install_queue` | three runs that share a package, one of which needs another, the start-up task, two jobs, two permits, a lost connection | One job per package, and a dead future only of a job cancelled before it began (`JobsSound`); the installers of jobs that were not cancelled are one at a time, and no more installers than the limit (`WritersBounded`); no run ahead of its packages (`ReadyMeansCached`); every run that waits is let go, told, dropped or given back, provided no chown container runs for ever (`AllAnswered`). |

### Statements kept for the record

These configurations state sentences of the repository's comments or README that
TLC refutes, or a property beyond the bound under which it holds. They document
limits of the code and are not among the runs. `MCDashboard_two` is the one that
passes: it checks `PageTellsTruly` with two polls of a page under way.

| Configuration | Statement | Why it fails |
|---|---|---|
| `MCQueues_settle` | `SettleKeepsOrder`: a nack of several does not turn them round | the latest is given back first and handed out again before the next is given back, so it overtakes the earlier ones |
| `MCQueues_close` | `CloseKeepsOrder`: nor does the end of a connection | `Close` walks the map of held deliveries, in no order |
| `MCQueues_stall` | `NoStall` with two queues on a channel | settling a message of one queue dispatches that queue only, while the room it made is the channel's |
| `MCServeLoop_limit` | `CapLetsLimitThrough`: a cap lets `limit` operations through | it counts operations it matches, also those another rule fails |
| `MCServeLoop_live` | `LiveRulesShow`: a fault by a live rule comes after the entry that arms it | the mutation is recorded after the mutex is released |
| `MCDashboard_overlap` | `RowsInOrder`: the page "gets only what it has not seen" (emu-service README:558) | two polls under way are asked from one cursor, and the page appends the answers of both; answers may also overtake each other |
| `MCDashboard_index` | `DisarmsWhatItShows` | the index a page saw names another rule by then |
| `MCServeLoop_cap` | `DepthCapHolds`: "the queue holds exactly a hundred messages" (emu-service README:352-353) | the depth is read at decoding; two publishers that read it together both pass, and what is requeued or given back meets no rule. `OvershootBounded` bounds the first kind alone; requeues make the depth pass any number |
| `MCInstallQueue_cancelled` | `SingleWriter`: the lock "ensures two installers never write the same volume concurrently" (`install_queue.py:10-11`) | a lost connection cancels a handler, its unshielded `gather` (78) the job, whose `async with writer` (105) lets go while thread and container go on; the run comes again and installs beside it |
| `MCInstallQueue_stillborn` | `NoDeadFuture`: a failure is forgotten "so a later request retries instead of awaiting a dead future" (`install_queue.py:111-112`) | a task cancelled before its first step never enters the `try`, so its cancelled future stays in the table; later runs that import the package await it, and their messages are rejected without a reply (`consumer.py:79-94`) |
| `MCInstallQueue_prewarm` | the same | the start-up task installs past the lock; this shows it with no connection lost (`WritersBounded` says what is left) |
| `MCLifecycle_queued` | `QueuedOnceEach`: "at most one entry per registered signal is ever queued" (`supervise.go:26-28`) | the runtime's bit is cleared when the signal goes into the channel, and the next one is queued behind it, so a channel can fill and a SIGCHLD be dropped |
| `MCPgSession_status` | `StatusTellsTruth` without exception | a second BEGIN in a block that has failed is answered with success and clears the session's `aborted`, while the executor's block stays failed; one that is faulted clears `inBlock` while the executor's block stays open |

Met while modelling, and visible in a property's exception or a comment of its
module:

- `amqp/session.go:226`: `Fail` is meant never to talk over itself; a
  cancellation that fails after its channel was closed sends a `Channel.Close` on a
  channel that is gone (`NeverTalksOver`; `stale` in `NothingAfterClose`).
- `amqp/session.go:301`: the header and body of a publish that was discarded on a
  closing channel end the connection (`discarded` in `EndedForCause`).
- `control/rules`, `queues/exec.go:98-113`: a nack that requeues and the end of a
  connection make a queue deeper without meeting its depth rule (`RunOp`, `GiveBack`).
- `deps/cache.py:50-60`: the chown container is waited for without a time limit, with
  a permit and the writer lock held (`ChownsEnd` in front of `AllAnswered`).
- `cli/dev.go:57-76`: `emu dev` closes its services and ends while a child of the
  dashboard may still run; the child is in a group of its own, and whether it is told
  depends on whether its supervisor has passed the signal on by then
  (`WholeFleetOrNone`).
- `amqp/session.go:530-532`: "The message is still unacknowledged" is not so for a
  consumer that needs no acknowledgement; the delivery is lost.
- `kv/collections.go`: `pop` trusts that "a list is never present and empty"; a
  seeded one can be, and its pop ends the process (`EmptyOnlyAsSeeded`).
- `docstore/find.go:95-105`: a negative skip, as a request may carry it, indexes
  before the first document and ends the process. `Window` takes natural numbers, so
  no property of `DocStore` sees it.
- `docstore/executor.go:219-220`: a drop leaves the cursors of the collection
  (`DropEndsCursors`). Reads bring a collection into being, which
  `docstore.go:130-131` says of the first write. An operator that is not
  supported goes unnoticed on an empty collection. A batch of updates or deletes
  that fails keeps the entries before.
- `control/child.go:167`: the last line of a run may come after the first of the
  next, because the run is over before the line is written.

## 4. Bounds and fairness

Every bound is a constant and appears in a guard (`MaxMessages`, `MaxQueues`,
`MaxTag`, `MaxRecords`, `MaxArms`, `MaxSent`, `MaxAhead`, `MaxPolls`, `MaxJobs`,
`MaxFrames`, `InFlight`, `Unread`, `MaxTime`, `MaxCommands`, `MaxRequests`, `MaxRuns`, `MaxWrites`,
`MaxSignals`, `MaxOps`).

- Two connections and two messages on one queue are enough for every
  pair of operations to interleave around a delivery, including redelivery to
  the other connection; `MaxTag` allows each message to go out again. All the
  broker's safety properties hold for all sizes by proof
  (section 6 says under which use of tags and channels), the topic matcher's for words
  of any length, so the small instance
  only has to find errors early.
- `AtMostOneCopy` and the matcher need no second connection. Deletion and a second
  declaration of a name are in `broker_routed` alone; beside a second connection
  they are covered by the theorems (`CountersRight`, `NothingLost`,
  `ConsumersStayAgreed`).
- A ring of 3 with 7 records wraps twice and ends in the middle; the refinement
  holds for every capacity by proof. The run has one poll under way at a time, which the
  page does not guarantee; `PageTellsTruly` holds for any number by proof.
- Two AMQP channels are what it takes for one to close while the other acts and for
  an acknowledgement of several to cross channels; three frames are a
  whole publish, or a close, an open and one more, but not a publish on a number
  that is closed and opened again, which only the theorem covers
  (`ConfirmNamesItsPublish`); two delivery tags let a
  stale one meet a fresh one.
- One key per database is enough (and any number by proof), because commands on several keys are loops over
  one; the integer width of 1 puts every increment at an edge; two ticks put a
  command before, at and after a deadline.
- Three connections of which a rule admits two have one refused, and two that page,
  write and drop against each other; four documents let a batch start below the
  capacity and end above it. Connections are symmetric.
- Two runs show the second against what the first left; a channel of two is filled by
  three signals, while the code's eight would take nine. One signal ends `emu dev`.
  One write per process and four units of output are enough to drop some. `WholeFleetOrNone` and `ReportsTruly` hold for
  any number of services, runs and signals by proof.
- Five rules cover both halves of the verdict, `after`, `times`, `cap` and `when`;
  five entries let each threshold be reached with another rule in the way. Any rules,
  connections and operators are covered by proof.
- Five Postgres messages reach BEGIN, a failure, a pipelined statement, COMMIT
  and a Sync. `ToldTruly`, `TwoAccounts`, `InStep` and `FailedBlockIsDead`
  hold for any length by proof.
- Two jobs are a package each of one run, which contend for the lock, or a job and its
  retry after a failure or a lost connection, for which a third run is there; with the
  start-up task and a job that was cancelled they contend for two permits. One
  language is enough for the lock, since each has its own, and what languages share
  is the permits. The safety properties hold for any number of runs, packages and jobs by proof.

Deadlock checking is off in every configuration: a client may simply
stop sending, and the bounds end every behaviour.

Fairness is stated only where a liveness property is checked:

- `Queues`: weak fairness of the loop of the operation that holds the mutex. A
  goroutine that can run is scheduled. Clients owe nothing.
- `ServeLoop`: weak fairness of deciding and of carrying out a verdict; strong
  fairness of taking the mutex, because Go's `sync.Mutex` switches to a mode that
  hands over to the waiter after a millisecond.
- `PgSession`: weak fairness of the session's loop. The client owes nothing, not
  even the Sync it has not sent.
- `AmqpSession`, `KeySpace`: weak fairness of the session's loop. In
  `AmqpSession` also of the client reading what was sent to it, and strong
  fairness of taking a frame, because Go's `select` chooses at random among what is
  ready, so deliveries cannot keep frames waiting for ever. Clients owe nothing else.
- `Lifecycle`: weak fairness of emu's goroutines and of the runtime that
  delivers signals; a process that was told to end ends. Nobody has to press Stop,
  and a child need not end by itself.
- `DocStore` states none: no liveness is checked.
- `InstallQueue`: weak fairness of tasks on the loop and of threads. Installer
  containers may hang for ever: the wait for them has a time limit, `TimeOut` and
  `Release` being steps of the thread. The wait for a chown container has none, so
  nothing is assumed of `Chown`, and `AllAnswered` is stated under `ChownsEnd`.
  Weak fairness of `Acquire` is enough because a permit, once there, is taken by
  somebody, and there are finitely many.

## 5. Findings

**`queues.go:232`.** `dropConsumer` searches a queue's consumers by tag alone,
and the server makes up the same tags on every connection. Closing one
connection drops another's consumer and leaves its own in the round robin,
where it takes messages nobody settles. Found by `dead_consumer`. With tags
that differ between connections (`broker_one_queue`) the property holds.

**`install_queue.py:78`.** `asyncio.gather` is not shielded. When the AMQP connection
is lost, the client library cancels the handlers under way, and with a handler the
install tasks it awaits, which other runs may await too. A task that has begun lets go
of the writer lock while its thread and container go on, and the redelivered message
starts a second installer on the volume (`MCInstallQueue_cancelled`). A task that has
not had its first step never reaches its `finally`, and leaves a cancelled future in
`_inflight` for good (`MCInstallQueue_stillborn`). Both rest on what the library does to
handlers, which is outside the repository (`LoseConnection`).

## 6. Proofs

All proofs hold for every value of the constants that the named `ASSUME`s allow.

**`QueuesProofs`** assumes `QueuesAssumption` (finite sets of connections and
channels, natural bounds, the empty name is nobody's name), and for the
theorems about ended connections and stalls something about what clients do, said below:

- `CountersRight`: `Spec => [](TypeOK /\ Accounting)`. `Accounting` is not
  inductive: giving back a delivery decrements counters, which is right only if
  the delivery is still held, and `held` must not contain the tag about to be
  issued. The invariant `Consistent` adds `TagsIssued` (tags out are below the
  next one, and none is out twice) and `GivesAreHeld` (the deliveries the
  operation under way is going to give back are all still held, each once), and
  the types of the loop. `HandOutCounts` and `GiveBackCounts` are the two lemmas
  about cardinalities; each action has a lemma of its own.
- `OneCopy` and `FreshOrder`. The invariant `CopyInv` says that messages are unique
  within a queue (`Unique`), that all are numbered up to `published` (`Known`),
  that what is still to be appended is the latest message and in no queue it is to
  be appended to (`AppendsNew`), and `FreshInOrder`. Without `AppendsNew` a publish
  that reaches a queue by two bindings could append twice; without `Known` an
  append could break the order.
- `NothingLost`: `Spec => NoLoss`, an action property. Only five kinds of steps
  touch what a queue has waiting or out; a hand-out moves the head of a queue to
  `held` unless nobody acknowledges it (`HandOutLoses`), a give moves it back unless it
  is settled (`GiveBackLoses`), and which delivery is given is the one the loop
  names, by `Consistent`.
- `ClosedHoldNothing` and `ConsumersStayAgreed` assume `TagsApart`: no two
  connections ever carry the same consumer tag. That is what the finding in
  section 5 shows to be needed, since `dropConsumer` goes by the tag; in the run that
  refutes `DeadHoldNothing` it is false. `OwnInv` follows a connection through its
  end: who consumes is open and has tags of its own (`SubscribedSound`), is
  listed at its queue (`AllListed`) once (`ListsSound`); who is listed consumes or is
  about to be dropped (`ListedOrLeaving`); the drops are a closed connection's
  and come before anything else (`DropsComeFirst`), so that nothing is handed to
  a connection that is leaving; what is out is with an open connection or about to be
  given back (`HeldOrLeaving`).
- `TopicsMatchByCuts` is about the matcher alone, for patterns and keys of any length
  over any words: that one way of cutting the key exists is shown to obey the very
  recursion of `wordsMatch` (`CutSteps`), and two solutions of it that differed would
  differ on a shortest pair of suffixes. `TopicsRouteByCuts` is what the run checks.
- `NobodyWaits` assumes `TagsApart` and that `ChannelsApart` holds throughout: no
  channel has a delivery of a queue other than those it consumes from, which is so for a
  client with one queue per channel and without which `MCQueues_stall` refutes the
  property. `OneQueueNeverStalls` is the case of one queue, where nothing need be
  assumed of the channels. `OfferInv` has a queue with a message and a consumer with
  room be offered later in the loop under way (`RestedOrOffered`), every append
  and every give be followed by an offer of its queue (`OfferFollows`), and a queue
  that is consumed from have a name (`ConsumedByName`), since `Close` offers what it
  finds by name. `SomeoneTakes` says that the round robin finds somebody exactly
  when a consumer has room, from wherever it starts (`TurnsGoRound`).

**`LogAndStoreProofs`** holds the proofs about the op log, the dashboard and the
document store, which share their lemmas on picking places out of a sequence
(`PickedIs`: what a loop keeps is what stood at those places, in order).

- The log assumes a positive capacity. `OrdinalsPlaced` proves the invariant
  `RingOK` (types and `Placed`), which is inductive. `RingIsBoundedLog` proves that
  the ring implements `BoundedLog` under the mapping `kept <- Snapshot`,
  `lost <- dropped`: with room, a record appends to the snapshot (`SnapshotGrows`);
  when full, it shifts it by one (`SnapshotShifts`), which rests on what the
  snapshot holds at each position (`SnapshotPlaces`).
- The dashboard assumes `DashboardAssumption` (room for the two rules a page starts
  with, and the payloads its own entries have). `GapsAreTold` holds with any number of
  polls under way: `DashInv` keeps of a poll that what it read of the log is later than its
  cursor, in order, and skips only what was gone by then (`PollsOK`); the count
  of dropped ones is read afterwards and only grows. An
  answer that leaves the count unread, the mutant, tells the page nothing.
  `PagesTellTruly` holds with any number of polls under way, too, whose answers may
  overtake each other. `SightInv` says that no poll was asked from beyond its page's
  cursor, that what the cursor has passed is a row or was told to be gone, and that
  rows are in order as long as `behind` is false: an answer asked for from where the
  cursor still is has entries after every row. Without that exception the rows are
  not in order (`MCDashboard_overlap`).
  `DashboardLogIsBounded` carries the refinement over to the composition.
- The document store assumes `ScriptAssumption` (finitely many clients and requests,
  each of the shape of a command), `SeedAssumption` (seeded documents have
  an `_id` each, as `seedCollection` gives them) and `RuleAssumption` (a rule admits
  somebody, and a seed does not exceed the capacity; a rule that a lesson is
  past before it starts faults every write and bounds nothing). `DocInv` has four
  parts. `StoreInv`: documents are documents and no two of a collection have
  one `_id`. Each loop has a run (`RunExists`) on which no entry is the first to
  break that (`RunStays`), by what one entry does to such a collection (an insert refuses an `_id` that is
  taken, a rewrite keeps it, an upsert is an insert and a rewrite of that very
  document). `CountInv` is the strengthening of the overshoot: a collection's length
  plus a batch for each session that read a gauge below the capacity and has not
  written yet stays below the bound (`Room`), and the admitted sessions are at
  most `MaxOpen`. `WireInv`: the requests a client waits for are the answered ones,
  then the one under way, then those in its inbox. `PageInv`: what was given under a cursor
  followed by what is left is the whole answer, and each cursor is of one
  answer, since ids are never used twice (`NextCursor`). `StoreStaysSound`,
  `PagesTell` and `RepliesStayInOrder` follow from these.

**`PgProofs`** assumes natural bounds. `AccountsAgree` and
`ClientsAreToldTruly` rest on `Faithful == Typed /\ TwoAccounts`. `ToldTruly` alone
is not inductive: that a COMMIT answered with success has the client's writes
in it depends on the session never believing in a block the executor has
not got, and a denial being final depends on a write being numbered once.
Steps that only decode or report leave both accounts alone (`QuietStep`).

`SessionInStep` and `FailedBlocksAreDead` need more: `InStepInv` adds `Flagged`
(the shapes of the flags and of what waits), `Introduced` (before the greeting
nothing has been asked or owed) and `OneStory` (`poisoned`, which says that a
statement of the open block has failed, is the executor's `failed`, and the
session's status byte is drawn from the same flags). The status byte alone is
not inductive: a Query of several statements owes its ReadyForQuery across
steps that change the block.

**`InstallQueueProofs`** assumes `InstallAssumption` (each import list is finite,
not empty and of one language; no package is of two). `InstallInv` ties four
records of the same job together. `Listed`: the table of running installs lists
the live job of a package if there is one, and beside that only jobs cancelled before
they began. `InLine`: jobs begin in the order they were created, and nobody of its
language is before the one that installs. `Driven`: a thread works for a job that
installs, or did before it was cancelled, and a container that Docker still stops has
a thread that waits for it. `Stamped`: a thread or a container that ended
well, or a job marked finished, left its packages in the markers. `Covered`: a
waiting request finds each import in the cache or in a job it awaits, and awaits no
others (`DroppedFor` follows). `Counted` balances the semaphore against the threads
that hold it, of cancelled jobs too, which is what `WritersBounded` rests on: a
container is `Held` only while a thread waits for it. `ReadyMeansCached`
needs all of it: a run goes ahead when its jobs are finished, a job is finished
when its thread says so, the thread because its container ended well. `SingleWriter`
and `NoDeadFuture` are false, and nothing is proved of them.

**`LifecycleProofs`** assumes a sequence of services, a channel with room for a
signal and a natural limit on output. `LifeInv` has five parts. `FleetInv`: the
listeners and backends that are open are the ones `Close` knows of, or the one a
start that is failing is about to close by itself. `ChildInv` stands beside it for
`WholeFleetOrNone`: children come once the fleet is up, and the one of `emu run` is
reaped before the fleet goes, however often emu is signalled; in `emu dev` that is not
so, and the property excepts it. `RunsInv`: the phases of a
run, its child and its status belong together (`Sound`), and only the latest
run can be unfinished. `PageInv`: the page's account of its process is the run's
own. `OpsInv`: sent, taken, logged and answered operations are apart by the
phase of the one under way, which makes the dump's claim inductive. `OutputInv`:
pieces held plus pieces dropped are the pieces written, in order.

**`KeySpaceProofs`** assumes `KeySpaceAssumption` (integers of some positive
range, finite keys) and `SeedsAssumption` (a lesson seeds values without a
deadline). `KvInv` keeps every entry of its kind, and one that holds nothing
without a deadline (`Whole`): otherwise a key that was overwritten by nothing
could later be seen to die. `RespInv` says which command is under way or put
aside (`PutAside`) and that the answered and the refused are exactly the ones
before it (`Settled`, `Turn`). `KeySpaceIsACache` shows, command by command, that
what clients can see (`CacheNow`, every key through `At`) makes a step of
`Cache` or none (`SeveralSame`, `SeveralAbsent` and `AllRemoved` for the commands on
several keys). The expired entry that a command throws out of the map was
invisible before and is after; `Tick` is where a key disappears, and no action of
the code takes place there.

**`ServeLoopProofs`** assumes `InterceptorAssumption` (the configuration is a list
of valid rules, callers are finite and distinct from `Nobody`). `LoopInv` is
`Typed /\ RulesInv /\ CapInv /\ RoomInv /\ LogTellsWhatRan`. `FaultsAsDeclared`
speaks about entries of the log; the code decides by counters that move while the
walk is under way. `RulesInv` therefore says that each counter is the number of
occurrences in the log plus, for a rule the walk has passed, the
operation being decided (`CountedWith`, `Extra`), that what the rules passed so
far made of it is what the list prescribes (`Walked`), that firings follow from
matches (`Spent`), and that no entry names a rule that has not been armed yet
(`AllArmed`), so that a new rule begins with no occurrences. `CapInv` counts the
publishes that were decoded below the cap and have not reached the queue
(`InFlight`): the messages never handed out (`fresh`) and those together never pass
the cap by as much as there are connections. A publish read the depth, and `fresh`
is within the depth; what is requeued or given back makes the depth rise and `fresh`
not. `RoomInv` keeps the log from wrapping within the bound,
without which an entry that is counted could be overwritten. Each action is
first reduced to an `Effect` on these, so that the parts are proved about nine
effects and not about the actions themselves.

**`AmqpProofs`** assumes `AmqpAssumption` (finitely many positive channel numbers,
natural bounds). Four of the run's properties, all but the liveness of a close, are
theorems, and all rest on `SessionInv`. Its heart is one channel seen from
both ends (`Protocol`). The session's account of a channel and the client's
differ by the frames on their way, so `Replays` says that the session's account
(`Now`: whether the channel is usable, how many publishes it has counted, which
piece of a message it expects), carried over those frames one by one, ends in
what the client believes, and that each frame is due where it is read. This alone is
not inductive, because a channel may be torn down from both sides at once. `BothEnds`
describes a channel the session is closing (its Close is still to be heard, or
the Close-Ok is on the way back); `CloseOkLast`, `LastWord` and `BegunAnew` say
what may follow a Close-Ok, a Close and a second Open in either stream;
`StaleCloses` and `Teardown` follow the one thing the session sends on a channel that
is gone, the exception of a cancellation that failed too late; `InPieces` and
`StrayHasCause` tie a header or a body to the publish before it, or to one
that was discarded. The lemmas about this are about two arbitrary streams that lose
their head or grow at their end (`PopReplay`, `PushReplay`, and one for each kind
of frame), so that an action has only to say which stream moved. Beside it,
`WorkInPlace` has an operation that is not a cancellation only on a usable channel,
`TagsKept` follows a delivery tag from the broker to the frame that settles it,
`NoneOrphaned` gives each consumer of the broker a list, a cancellation or a
named cause, and `Woken` is `NoLostWakeUp` while the deliveries are still being
written.

**Only model-checked.** The liveness properties (`MutexReleased`,
`EveryOpAnswered`, `SyncEndsSkipping`, `CloseAnswered`, `ChildEnds` and the two
`AllAnswered`) rest on fairness and ENABLED, which are beyond this prover. `NoStall` with several
queues on a channel is false, and the theorem says under which condition it holds. Every other property of the runs
is a theorem.

## 7. What is not modelled

- External parts are modelled by how the code uses them: SQLite (a statement
  succeeds or fails; a failed commit is taken to have ended the transaction
  without its writes), Docker (a container ends when it likes; a call to the
  daemon may fail), and the student's program (any client).
- Broker: seeding, passive declarations, gauges, and the end of the whole backend;
  exchanges are never deleted in the code either. The default exchange is
  `PublishDefault`.
- Install queue: a full thread pool, several processes of rce-service on one
  volume.
- Process: a process that has closed its copies of the pipes may outlive the moment the
  page is told 'exited'; `ExitedMeansDone` is about those that keep them.
- Control: the text of patterns (a pattern matches a name or everything), the line
  protocol of the socket, delays as time.
- Dashboard: the page's cursor over the child's output.
- AMQP: the handshake's frames (accepting is one step that succeeds or not), the
  encoding of methods and tables, more than one connection (`Queues` has them).
- Redis: glob patterns, the two encodings of replies, information commands.
- Mongo: BSON, projections, dotted paths, most query and update operators; of a
  window, negative numbers (a negative limit means one batch, as `singleBatch` does; a
  negative skip ends the process, see section 3) and `singleBatch`.
- Command line: flags, the configuration file, `emu ctl`, reuse of a process id.
- Postgres: start-up, authentication, values and error texts, savepoints.
- The components marked `not_modelled` in `PROJECT.json`, with the reason there.

## 8. Plan

In this order; each is a module, its instance and, where marked, proofs.

1. `RceRpc`: gateway, broker and worker together, against an abstract "each request
   is answered at most once, and by its own reply". Late, duplicate and lost replies,
   reconnects, redelivery of a job after a crash, the run semaphore.
2. `Enrolment`: the counter of a course under concurrent requests.
3. `AmqpSession` over `Queues` itself, with two connections.

Proofs to add: that `AmqpSession` over `Queues`, once composed, still keeps
`BooksKept` and `NoLoss` together.
