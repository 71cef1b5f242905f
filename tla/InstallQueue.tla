---------------------------- MODULE InstallQueue ----------------------------
(***************************************************************************)
(* The cold path of a run (rce_service): the queue of install jobs, the    *)
(* threads that drive the installer containers, and the start-up task that *)
(* fills the caches.                                                       *)
(*                                                                         *)
(* The queue lives on one event loop and takes its admission lock without  *)
(* ever waiting inside it, so a request is admitted, and a job wound up, in*)
(* one step.  Threads and containers run beside the loop and beside each   *)
(* other.  Docker is external: a container ends well or badly whenever it  *)
(* likes, and a call to the daemon may fail.  So is the AMQP client: when  *)
(* its connection is lost it cancels the handlers under way, and what they *)
(* had not acknowledged is delivered again.                                *)
(***************************************************************************)
EXTENDS Naturals, Sequences, FiniteSets

CONSTANTS
  Imports,       \* run -> the packages its code imports, all of one language
  Allowlist,     \* language -> the packages it may import
  Concurrency,   \* INSTALL_LIMITS["concurrency"]
  PrewarmOrder,  \* the languages to fill at start-up: DEPS_PROVIDERS, or none
  DaemonFails,   \* whether a call to the Docker daemon may fail
  MaxLosses,     \* bound: times the AMQP connection is lost
  MaxJobs        \* bound: install jobs ever created

ASSUME InstallAssumption ==
  /\ Concurrency \in Nat \ {0} /\ MaxLosses \in Nat /\ MaxJobs \in Nat
  /\ PrewarmOrder \in Seq(DOMAIN Allowlist)
  /\ \A r \in DOMAIN Imports :
       /\ Imports[r] # {} /\ IsFiniteSet(Imports[r])
       /\ \E l \in DOMAIN Allowlist : Imports[r] \subseteq Allowlist[l]
  /\ \A l, m \in DOMAIN Allowlist : l # m => Allowlist[l] \cap Allowlist[m] = {}

VARIABLES
  request,     \* request -> where it is, and the jobs it awaits
  jobs,        \* the install tasks in the order they were created
  inflight,    \* package -> its job, 0 for none
  known,       \* the packages this process has seen installed
  losses,      \* how often the connection has been lost
  semaphore,   \* how many more installers may start
  thread,      \* thread -> where install_packages is
  container,   \* thread -> its installer container
  prewarm,     \* how many of PrewarmOrder the start-up task is done with
  markers      \* the packages stamped into the cache volumes

queueVars == <<request, jobs, inflight, known, losses>>
threadVars == <<semaphore, thread, container, prewarm, markers>>
vars == <<queueVars, threadVars>>

Requests == DOMAIN Imports
Languages == DOMAIN Allowlist
Packages == UNION {Allowlist[l] : l \in Languages}
LanguageOf(p) == CHOOSE l \in Languages : p \in Allowlist[l]

Prewarmer == 0
Threads == 0..MaxJobs
Idle == [at |-> "idle"]
NoContainer == [at |-> "none"]

Init ==
  /\ request = [r \in Requests |-> [at |-> "new"]]
  /\ jobs = <<>>
  /\ inflight = [p \in Packages |-> 0]
  /\ known = {}
  /\ losses = 0
  /\ semaphore = Concurrency
  /\ thread = [t \in Threads |-> Idle]
  /\ container = [t \in Threads |-> NoContainer]
  /\ prewarm = 0
  /\ markers = {}

---------------------------------------------------------------------------
(* Mutants of the definitions below. *)
MissingForgetsInflight(needs) == [job |-> {p \in needs \ (known \cup markers) : TRUE}, join |-> {}]
HoldsWriterAlways(j) == jobs[j].at = "queued"
FinishRemembersFailed(j) ==
  LET p == jobs[j].package IN
  /\ j \in 1..Len(jobs) /\ jobs[j].at = "installing" /\ thread[j].at = "returned"
  /\ thread' = [thread EXCEPT ![j] = Idle]
  /\ known' = known \cup {p}
  /\ inflight' = [inflight EXCEPT ![p] = 0]
  /\ jobs' = [jobs EXCEPT ![j].at = IF thread[j].ok THEN "finished" ELSE "failed"]
  /\ UNCHANGED <<request, losses, semaphore, container, prewarm, markers>>
ReleaseOnSuccess(t) ==
  /\ thread[t].at = "release"
  /\ semaphore' = IF thread[t].ok THEN semaphore + 1 ELSE semaphore
  /\ thread' = [thread EXCEPT ![t] =
       [at |-> IF thread[t].held THEN "cleanup" ELSE "returned", ok |-> thread[t].ok]]
  /\ UNCHANGED <<queueVars, container, prewarm, markers>>
---------------------------------------------------------------------------
(* The event loop *)

(* What is missing, and of that what somebody is installing already. *)
Missing(needs) ==
  LET missing == needs \ (known \cup markers) IN
  [job |-> {p \in missing : inflight[p] = 0}, join |-> {p \in missing : inflight[p] # 0}]

(* The order a request's new jobs are created in: that of its imports. *)
Orders(S) == {order \in [1..Cardinality(S) -> S] : \A p \in S : \E i \in DOMAIN order : order[i] = p}

(* prepare_dependencies, ensure and _admit.  A run without imports, or with *)
(* one that is off the allowlist, is answered before it comes here.        *)
Ensure(r) ==
  LET needs == Imports[r]
      missing == Missing(needs)
  IN
  /\ request[r].at = "new"
  /\ Len(jobs) + Cardinality(missing.job) <= MaxJobs
  /\ known' = known \cup (needs \cap markers)
  /\ \E order \in Orders(missing.job) :
       LET ids == [i \in DOMAIN order |-> Len(jobs) + i] IN
       /\ jobs' = jobs \o [i \in DOMAIN order |-> [package |-> order[i], at |-> "created"]]
       /\ inflight' = [p \in Packages |->
            IF p \in missing.job THEN ids[CHOOSE i \in DOMAIN order : order[i] = p] ELSE inflight[p]]
       /\ request' = [request EXCEPT ![r] =
            IF missing.job \cup missing.join = {}
            THEN [at |-> "ready"]
            ELSE [at |-> "waiting",
                  jobs |-> {inflight[p] : p \in missing.join} \cup {ids[i] : i \in DOMAIN ids}]]
  /\ UNCHANGED <<losses, threadVars>>

(* The loop starts its tasks in the order they were created, *)
Begin(j) ==
  /\ j \in 1..Len(jobs)
  /\ jobs[j].at = "created"
  /\ \A i \in 1..(j - 1) : jobs[i].at # "created"
  /\ jobs' = [jobs EXCEPT ![j].at = "queued"]
  /\ UNCHANGED <<request, inflight, known, losses, threadVars>>

(* and an asyncio.Lock is granted in the order it was asked for. *)
HoldsWriter(j) ==
  /\ jobs[j].at = "queued"
  /\ \A i \in 1..(j - 1) :
       jobs[i].at \in {"queued", "installing"} => LanguageOf(jobs[i].package) # LanguageOf(jobs[j].package)

Submit(j) ==
  /\ j \in 1..Len(jobs)
  /\ HoldsWriter(j)
  /\ jobs' = [jobs EXCEPT ![j].at = "installing"]
  /\ thread' = [thread EXCEPT ![j] = [at |-> "acquire", packages |-> {jobs[j].package}]]
  /\ UNCHANGED <<request, inflight, known, losses, semaphore, container, prewarm, markers>>

(* The thread is back: the lock is let go, success remembered, failure     *)
(* forgotten.                                                              *)
Finish(j) ==
  LET p == jobs[j].package
      ok == thread[j].ok
  IN
  /\ j \in 1..Len(jobs) /\ jobs[j].at = "installing" /\ thread[j].at = "returned"
  /\ thread' = [thread EXCEPT ![j] = Idle]
  /\ known' = IF ok THEN known \cup {p} ELSE known
  /\ inflight' = [inflight EXCEPT ![p] = 0]
  /\ jobs' = [jobs EXCEPT ![j].at = IF ok THEN "finished" ELSE "failed"]
  /\ UNCHANGED <<request, losses, semaphore, container, prewarm, markers>>

(* gather: the first failure is the request's, the others carry on.  A job *)
(* that was cancelled raises CancelledError, which no handler catches: the *)
(* message is rejected, for good and without a reply.                      *)
Gather(r) ==
  /\ request[r].at = "waiting"
  /\ LET ended(how) == {j \in request[r].jobs : jobs[j].at = how} IN
     \/ /\ ended("failed") # {}
        /\ request' = [request EXCEPT ![r] = [at |-> "failed"]]
     \/ /\ ended("stillborn") # {}
        /\ request' = [request EXCEPT ![r] = [at |-> "dropped"]]
     \/ /\ ended("finished") = request[r].jobs
        /\ request' = [request EXCEPT ![r] = [at |-> "ready"]]
  /\ UNCHANGED <<jobs, inflight, known, losses, threadVars>>

Live == {j \in 1..Len(jobs) : jobs[j].at \in {"created", "queued", "installing"}}

(* The connection is lost.  Cancelling a handler cancels the gather it is  *)
(* in, and gather the jobs it awaits, whoever else awaits them.  A job that*)
(* has begun leaves the lock and the table, and its thread goes on alone; a*)
(* task cancelled before its first step never comes to the finally block.  *)
LoseConnection ==
  LET waiting == {r \in Requests : request[r].at = "waiting"}
      cancelled == Live \cap UNION {request[r].jobs : r \in waiting}
      begun == {j \in cancelled : jobs[j].at # "created"}
  IN
  /\ losses < MaxLosses /\ waiting # {}
  /\ losses' = losses + 1
  /\ request' = [r \in Requests |-> IF r \in waiting THEN [at |-> "new"] ELSE request[r]]
  /\ jobs' = [j \in DOMAIN jobs |->
       IF j \in begun THEN [jobs[j] EXCEPT !.at = "cancelled"]
       ELSE IF j \in cancelled THEN [jobs[j] EXCEPT !.at = "stillborn"] ELSE jobs[j]]
  /\ inflight' = [p \in Packages |-> IF inflight[p] \in begun THEN 0 ELSE inflight[p]]
  /\ UNCHANGED <<known, threadVars>>

---------------------------------------------------------------------------
(* install_packages, on a thread of its own *)

Acquire(t) ==
  /\ thread[t].at = "acquire" /\ semaphore > 0
  /\ semaphore' = semaphore - 1
  /\ thread' = [thread EXCEPT ![t].at = "start"]
  /\ UNCHANGED <<queueVars, container, prewarm, markers>>

Running(t) == [at |-> "running", packages |-> thread[t].packages, lost |-> FALSE]

Refused == [at |-> "release", ok |-> FALSE, held |-> FALSE]

(* ensure_cache_volume, and ensure_cache_writable as far as its container  *)
Start(t) ==
  /\ thread[t].at = "start"
  /\ \/ thread' = [thread EXCEPT ![t].at = "chown"]
     \/ DaemonFails /\ thread' = [thread EXCEPT ![t] = Refused]
  /\ UNCHANGED <<queueVars, semaphore, container, prewarm, markers>>

(* which is waited for without a time limit, and may fail.                 *)
Chown(t) ==
  /\ thread[t].at = "chown"
  /\ \/ thread' = [thread EXCEPT ![t].at = "launch"]
     \/ DaemonFails /\ thread' = [thread EXCEPT ![t] = Refused]
  /\ UNCHANGED <<queueVars, semaphore, container, prewarm, markers>>

(* containers.run.  The daemon refuses, or it does start the container and *)
(* its answer is lost, and with it all hold on the container.              *)
Launch(t) ==
  /\ thread[t].at = "launch"
  /\ \/ /\ container' = [container EXCEPT ![t] = Running(t)]
        /\ thread' = [thread EXCEPT ![t].at = "wait"]
     \/ /\ DaemonFails
        /\ container' \in {container, [container EXCEPT ![t] = [Running(t) EXCEPT !.lost = TRUE]]}
        /\ thread' = [thread EXCEPT ![t] = Refused]
  /\ UNCHANGED <<queueVars, semaphore, prewarm, markers>>

(* The package manager ends; only after a success are the markers stamped. *)
Exited(c, ok) == IF c.lost THEN NoContainer ELSE [at |-> "exited", ok |-> ok]

Exit(t) ==
  /\ container[t].at = "running"
  /\ \/ /\ container' = [container EXCEPT ![t] = Exited(@, TRUE)]
        /\ markers' = markers \cup container[t].packages
     \/ /\ container' = [container EXCEPT ![t] = Exited(@, FALSE)]
        /\ UNCHANGED markers
  /\ UNCHANGED <<queueVars, semaphore, thread, prewarm>>

Released(ok) == [at |-> "release", ok |-> ok, held |-> TRUE]

Wait(t) ==
  /\ thread[t].at = "wait" /\ container[t].at = "exited"
  /\ thread' = [thread EXCEPT ![t] = Released(container[t].ok)]
  /\ UNCHANGED <<queueVars, semaphore, container, prewarm, markers>>

Killed(c) == IF c.at = "running" THEN [at |-> "exited", ok |-> FALSE] ELSE c

Lost(c) == IF c.at = "running" THEN [c EXCEPT !.lost = TRUE] ELSE c

(* The time is up, perhaps just as the container ends; kill may fail, or  *)
(* the wait itself for want of an answer.                                  *)
TimeOut(t) ==
  /\ thread[t].at = "wait"
  /\ \/ container' = [container EXCEPT ![t] = Killed(@)]
     \/ DaemonFails /\ container' = [container EXCEPT ![t] = Lost(@)]
  /\ thread' = [thread EXCEPT ![t] = Released(FALSE)]
  /\ UNCHANGED <<queueVars, semaphore, prewarm, markers>>

(* The finally block: the semaphore first, the container after it. *)
Release(t) ==
  /\ thread[t].at = "release"
  /\ semaphore' = semaphore + 1
  /\ thread' = [thread EXCEPT ![t] =
       [at |-> IF thread[t].held THEN "cleanup" ELSE "returned", ok |-> thread[t].ok]]
  /\ UNCHANGED <<queueVars, container, prewarm, markers>>

(* A container that is left over after it has ended does no more harm. *)
Cleanup(t) ==
  /\ thread[t].at = "cleanup"
  /\ \/ container' = [container EXCEPT ![t] = NoContainer]
     \/ DaemonFails /\ container[t].at = "running" /\ UNCHANGED container
  /\ thread' = [thread EXCEPT ![t].at = "returned"]
  /\ UNCHANGED <<queueVars, semaphore, prewarm, markers>>

Install(t) == Acquire(t) \/ Start(t) \/ Launch(t) \/ Wait(t) \/ TimeOut(t) \/ Release(t) \/ Cleanup(t)

---------------------------------------------------------------------------
(* prewarm_all: the whole allowlist of one language after the other, until *)
(* one fails, straight to install_packages.                                *)

PrewarmNext ==
  /\ thread[Prewarmer].at = "idle"
  /\ prewarm < Len(PrewarmOrder)
  /\ thread' = [thread EXCEPT ![Prewarmer] =
       [at |-> "acquire", packages |-> Allowlist[PrewarmOrder[prewarm + 1]]]]
  /\ UNCHANGED <<queueVars, semaphore, container, prewarm, markers>>

PrewarmDone ==
  /\ thread[Prewarmer].at = "returned"
  /\ thread' = [thread EXCEPT ![Prewarmer] = Idle]
  /\ prewarm' = IF thread[Prewarmer].ok THEN prewarm + 1 ELSE Len(PrewarmOrder)
  /\ UNCHANGED <<queueVars, semaphore, container, markers>>

---------------------------------------------------------------------------

Next ==
  \/ \E r \in Requests : Gather(r) \/ Ensure(r)
  \/ \E j \in 1..MaxJobs : Begin(j) \/ Submit(j) \/ Finish(j)
  \/ LoseConnection
  \/ \E t \in Threads : Install(t) \/ Chown(t) \/ Exit(t)
  \/ PrewarmNext \/ PrewarmDone

Spec == Init /\ [][Next]_vars

(* The loop runs what is ready and threads make progress.  Nothing is      *)
(* assumed of containers: the wait for an installer has a time limit, that *)
(* for a chown has none.                                                   *)
FairSpec ==
  /\ Spec
  /\ \A r \in Requests : WF_vars(Gather(r))
  /\ \A j \in 1..MaxJobs : WF_vars(Begin(j) \/ Submit(j) \/ Finish(j))
  /\ \A t \in Threads : WF_vars(Install(t))
  /\ WF_vars(PrewarmDone)

---------------------------------------------------------------------------

(* Every variable has its type. *)
TypeOK ==
  /\ \A r \in Requests : request[r].at \in {"new", "ready", "waiting", "failed", "dropped"}
  /\ Len(jobs) <= MaxJobs /\ losses <= MaxLosses
  /\ \A p \in Packages : inflight[p] \in 0..Len(jobs)
  /\ known \cup markers \subseteq Packages
  /\ semaphore \in 0..Concurrency
  /\ prewarm \in 0..Len(PrewarmOrder)
  /\ \A t \in Threads : container[t].at \in {"none", "running", "exited"}

Writing == {t \in Threads : container[t].at = "running"}

Volume(t) == LanguageOf(CHOOSE p \in container[t].packages : TRUE)

(***************************************************************************)
(* "a per-language lock ensures two installers never write the same volume *)
(* concurrently" (install_queue.py).                                       *)
(***************************************************************************)
SingleWriter == \A t, u \in Writing : Volume(t) = Volume(u) => t = u

(* The installers Docker can still stop, and of these the queue's own whose*)
(* job has not been cancelled.                                             *)
Held == {t \in Writing : ~container[t].lost}
Kept == {t \in Held \ {Prewarmer} : jobs[t].at # "cancelled"}

(* What is left of that: the queue keeps its own installers apart, through *)
(* time-outs, failures and retries, except from those of cancelled jobs,   *)
(* and there are never more installers than the limit, cancelled ones and  *)
(* the start-up task's included (InstallQueue._install, install_packages). *)
WritersBounded ==
  /\ \A t, u \in Kept : Volume(t) = Volume(u) => t = u
  /\ Cardinality(Held) <= Concurrency

(* "thirty students importing numpy at once produce one install job".      *)
OneJobEach == \A i, j \in Live : jobs[i].package = jobs[j].package => i = j

(* "Block until every package is in the cache": a run that goes ahead      *)
(* finds all it imports stamped in the volume, whoever installed it and    *)
(* whatever failed beside it (ensure, and the && before the markers).      *)
ReadyMeansCached ==
  \A r \in Requests : request[r].at = "ready" => Imports[r] \subseteq markers

(* "failure is forgotten entirely so a later request retries instead of    *)
(* awaiting a dead future" (_install).                                     *)
NoDeadFuture == \A p \in Packages : inflight[p] # 0 => inflight[p] \in Live

(* ensure, _install: a package has one job at a time.  The future that runs*)
(* wait on is that of a live job or of one cancelled before it began, and  *)
(* only for the sake of such a one is a run dropped.                       *)
JobsSound ==
  /\ TypeOK
  /\ OneJobEach
  /\ \A p \in Packages : inflight[p] # 0 /\ inflight[p] \notin Live => jobs[inflight[p]].at = "stillborn"
  /\ \A r \in Requests : request[r].at = "dropped" =>
       \E j \in 1..Len(jobs) : jobs[j].at = "stillborn" /\ jobs[j].package \in Imports[r]

(* No chown container runs for ever. *)
ChownsEnd == \A t \in Threads : []<>(thread[t].at # "chown")

(* As long as that is so, every run that waits for its imports is let go,  *)
(* told of a failure, dropped or given back, however many installs fail,   *)
(* hang, are cancelled or left behind before it (ensure, install_packages).*)
AllAnswered == ChownsEnd => \A r \in Requests : request[r].at = "waiting" ~> request[r].at # "waiting"
=============================================================================
