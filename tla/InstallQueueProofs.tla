------------------------- MODULE InstallQueueProofs -------------------------
(***************************************************************************)
(* The install queue creates one job for a package at a time, keeps the    *)
(* installers of its live jobs apart, and lets no run go ahead before its  *)
(* imports are in the cache: for any number of runs, languages, packages,  *)
(* jobs and lost connections.                                              *)
(***************************************************************************)
EXTENDS InstallQueue, TLAPS, FiniteSetTheorems, SequenceTheorems

----------------------------------------------------------------------------
(* The inductive invariant *)

Job == [package : Packages, at : {"created", "queued", "installing", "finished", "failed",
                            "cancelled", "stillborn"}]
ThreadState ==
       [at : {"idle"}]
  \cup [at : {"acquire", "start", "chown", "launch", "wait"}, packages : SUBSET Packages]
  \cup [at : {"release"}, ok : BOOLEAN, held : BOOLEAN]
  \cup [at : {"cleanup", "returned"}, ok : BOOLEAN]
ContainerState ==
       [at : {"none"}]
  \cup [at : {"running"}, packages : SUBSET Packages, lost : BOOLEAN]
  \cup [at : {"exited"}, ok : BOOLEAN]
RequestState == [at : {"new", "ready", "failed", "dropped"}] \cup [at : {"waiting"}, jobs : SUBSET Nat]

LanguageAt(j) == LanguageOf(jobs[j].package)
Working == {"acquire", "start", "chown", "launch", "wait"}
Ended(t) == thread[t].at \in {"release", "cleanup", "returned"}

\* The shapes of the records, and the queue's bookkeeping within its bounds.
Typed ==
  /\ request \in [Requests -> RequestState]
  /\ jobs \in Seq(Job) /\ Len(jobs) <= MaxJobs
  /\ inflight \in [Packages -> Nat]
  /\ known \subseteq markers /\ markers \subseteq Packages
  /\ losses \in 0..MaxLosses
  /\ thread \in [Threads -> ThreadState]
  /\ container \in [Threads -> ContainerState]
  /\ prewarm \in 0..Len(PrewarmOrder)
  /\ thread[Prewarmer].at # "idle" => prewarm < Len(PrewarmOrder)

\* The table of running installs lists the live jobs, and beside them only
\* such as were cancelled before they began.
Listed ==
  /\ \A p \in Packages : inflight[p] # 0 =>
       /\ inflight[p] \in 1..Len(jobs) /\ jobs[inflight[p]].package = p
       /\ inflight[p] \in Live \/ jobs[inflight[p]].at = "stillborn"
  /\ \A j \in Live : inflight[jobs[j].package] = j

\* Jobs begin in the order they were created, and nobody of its language is
\* before the one that installs.
InLine ==
  \A i, j \in 1..Len(jobs) : i < j =>
    /\ jobs[i].at = "created" => jobs[j].at \in {"created", "stillborn"}
    /\ jobs[i].at \in {"queued", "installing"} /\ jobs[j].at = "installing" => LanguageAt(i) # LanguageAt(j)

\* A thread works for a job that installs, or did before it was cancelled,
\* and a container that nobody has lost hold of has a thread that waits for it.
Driven ==
  /\ \A j \in 1..MaxJobs : thread[j].at # "idle" => j <= Len(jobs) /\ jobs[j].at \in {"installing", "cancelled"}
  /\ \A j \in 1..MaxJobs : thread[j].at \in Working => thread[j].packages = {jobs[j].package}
  /\ \A j \in 1..MaxJobs : container[j].at # "none" => j <= Len(jobs)
  /\ \A j \in 1..MaxJobs : container[j].at = "running" => container[j].packages = {jobs[j].package}
  /\ \A t \in Threads : container[t].at = "running" /\ ~container[t].lost => thread[t].at = "wait"

\* Whoever reports a success has seen the package stamped.
Stamped ==
  /\ \A j \in 1..Len(jobs) : jobs[j].at = "finished" => jobs[j].package \in markers
  /\ \A j \in 1..Len(jobs) : Ended(j) /\ thread[j].ok => jobs[j].package \in markers
  /\ \A j \in 1..Len(jobs) : container[j].at = "exited" /\ container[j].ok => jobs[j].package \in markers

\* A run that waits has a job for all it still lacks, and for nothing else.
Covered ==
  \A r \in Requests : request[r].at = "waiting" =>
    /\ \A j \in request[r].jobs : j \in 1..Len(jobs) /\ jobs[j].package \in Imports[r]
    /\ \A p \in Imports[r] : p \in markers \/ \E j \in request[r].jobs : jobs[j].package = p

\* A run is dropped because of a job that was cancelled before it began.
DroppedFor ==
  \A r \in Requests : request[r].at = "dropped" =>
    \E j \in 1..Len(jobs) : jobs[j].at = "stillborn" /\ jobs[j].package \in Imports[r]

\* The semaphore counts the threads between acquire and release.
Holders == {t \in Threads : thread[t].at \in {"start", "chown", "launch", "wait", "release"}}
Counted == semaphore \in Nat /\ semaphore + Cardinality(Holders) = Concurrency

InstallInv ==
  Typed /\ Listed /\ InLine /\ Driven /\ Stamped /\ Covered /\ DroppedFor /\ ReadyMeansCached /\ Counted

----------------------------------------------------------------------------
(* Facts about the operators the model is built from *)

\* The bounds are numbers, and every job has a thread.
LEMMA Numbers ==
  /\ MaxJobs \in Nat /\ Concurrency \in Nat /\ MaxLosses \in Nat
  /\ Len(PrewarmOrder) \in Nat /\ \A i \in 1..Len(PrewarmOrder) : PrewarmOrder[i] \in Languages
  /\ Prewarmer \in Threads /\ \A j \in 1..MaxJobs : j \in Threads /\ j # Prewarmer
  /\ Typed => Len(jobs) \in Nat /\ \A j \in 1..Len(jobs) : j \in 1..MaxJobs
<1>1. /\ MaxJobs \in Nat /\ Concurrency \in Nat /\ MaxLosses \in Nat /\ PrewarmOrder \in Seq(Languages)
  BY InstallAssumption DEF Languages
<1>2. /\ Len(PrewarmOrder) \in Nat /\ \A i \in 1..Len(PrewarmOrder) : PrewarmOrder[i] \in Languages
  BY <1>1
<1>3. Prewarmer \in Threads /\ \A j \in 1..MaxJobs : j \in Threads /\ j # Prewarmer
  BY <1>1 DEF Prewarmer, Threads
<1>4. Typed => Len(jobs) \in Nat /\ \A j \in 1..Len(jobs) : j \in 1..MaxJobs
  BY <1>1 DEF Typed
<1> QED
  BY <1>1, <1>2, <1>3, <1>4

\* A package has one language, that of the allowlist it is on.
LEMMA LanguageIs ==
  /\ \A p \in Packages : LanguageOf(p) \in Languages /\ p \in Allowlist[LanguageOf(p)]
  /\ \A l \in Languages : \A p \in Allowlist[l] : p \in Packages /\ LanguageOf(p) = l
<1>1. ASSUME NEW p \in Packages PROVE LanguageOf(p) \in Languages /\ p \in Allowlist[LanguageOf(p)]
  <2>1. \E l \in Languages : p \in Allowlist[l]
    BY DEF Packages
  <2> QED
    BY <2>1 DEF LanguageOf
<1>2. \A l \in Languages : \A p \in Allowlist[l] : p \in Packages
  BY DEF Packages
<1>3. \A l, m \in Languages : l # m => Allowlist[l] \cap Allowlist[m] = {}
  BY InstallAssumption DEF Languages
<1> QED
  BY <1>1, <1>2, <1>3

\* The imports of a run are packages of one language.
LEMMA ImportsAre ==
  ASSUME NEW r \in Requests
  PROVE  /\ Imports[r] \subseteq Packages /\ IsFiniteSet(Imports[r]) /\ Imports[r] # {}
         /\ \A p, q \in Imports[r] : LanguageOf(p) = LanguageOf(q)
<1>1. PICK l \in Languages : Imports[r] \subseteq Allowlist[l]
  BY InstallAssumption DEF Requests, Languages
<1> QED
  BY <1>1, LanguageIs, InstallAssumption DEF Requests, Languages

\* A job is for a package of a language.
LEMMA JobsAre ==
  ASSUME Typed
  PROVE  \A j \in 1..Len(jobs) :
           /\ jobs[j] \in Job /\ jobs[j].package \in Packages /\ LanguageAt(j) \in Languages
<1>1. ASSUME NEW j \in 1..Len(jobs) PROVE jobs[j] \in Job /\ jobs[j].package \in Packages
  <2>1. jobs[j] \in Job
    BY DEF Typed
  <2> QED
    BY <2>1 DEF Job
<1> QED
  BY <1>1, LanguageIs DEF LanguageAt

\* An order of a finite set numbers its members from 1, each of them once.
LEMMA OrdersAre ==
  ASSUME NEW S, IsFiniteSet(S), NEW order \in Orders(S)
  PROVE  /\ Cardinality(S) \in Nat /\ order \in [1..Cardinality(S) -> S]
         /\ \A i, k \in 1..Cardinality(S) : order[i] = order[k] => i = k
         /\ \A p \in S : \E i \in 1..Cardinality(S) : order[i] = p
<1> DEFINE n == Cardinality(S)
<1>1. n \in Nat
  BY FS_CardinalityType
<1>2. /\ order \in [1..n -> S]
      /\ \A p \in S : \E i \in DOMAIN order : order[i] = p
  BY DEF Orders
<1>3. IsFiniteSet(1..n) /\ Cardinality(1..n) = n
  BY <1>1, FS_Interval
<1>4. order \in Surjection(1..n, S)
  BY <1>2 DEF Surjection
<1>5. order \in Injection(1..n, S)
  BY <1>3, <1>4, FS_SurjSameCardinalityImpliesInj
<1>6. \A i, k \in 1..n : order[i] = order[k] => i = k
  BY <1>5 DEF Injection, IsInjective
<1> QED
  BY <1>1, <1>2, <1>6

\* The threads that hold the semaphore are finitely many.
LEMMA HoldersFinite == IsFiniteSet(Holders) /\ Cardinality(Holders) \in Nat
<1>1. IsFiniteSet(Threads)
  BY Numbers, FS_Interval DEF Threads
<1>2. IsFiniteSet(Holders)
  BY <1>1, FS_Subset DEF Holders
<1> QED
  BY <1>2, FS_CardinalityType

\* A thread that takes the semaphore, or gives it back, is counted.
LEMMA HoldersChange ==
  ASSUME NEW t \in Threads
  PROVE  /\ t \notin Holders => Cardinality(Holders \cup {t}) = Cardinality(Holders) + 1
         /\ t \in Holders => Cardinality(Holders \ {t}) = Cardinality(Holders) - 1
BY HoldersFinite, FS_AddElement, FS_RemoveElement

----------------------------------------------------------------------------
(* The threads and their containers *)

LEMMA InstallInit == Init => InstallInv
<1> SUFFICES ASSUME Init PROVE InstallInv
  OBVIOUS
<1>1. Typed
  BY Numbers DEF Init, Typed, RequestState, ThreadState, Idle, ContainerState, NoContainer
<1>2. Listed /\ InLine
  BY DEF Init, Listed, InLine, Live
<1>3. Driven /\ Stamped /\ Covered /\ DroppedFor /\ ReadyMeansCached
  BY Numbers DEF Init, Driven, Stamped, Covered, DroppedFor, ReadyMeansCached, Idle, NoContainer, Working
<1>4. Counted
  <2>1. Holders = {}
    BY DEF Init, Holders, Idle
  <2> QED
    BY <2>1, FS_EmptySet, Numbers DEF Init, Counted
<1> QED
  BY <1>1, <1>2, <1>3, <1>4 DEF InstallInv

\* A thread leaves the queue alone, and markers only ever grow.
LEMMA QueueUntouched ==
  ASSUME InstallInv, UNCHANGED queueVars, markers \subseteq markers'
  PROVE  Listed' /\ InLine' /\ Covered' /\ DroppedFor' /\ ReadyMeansCached'
<1> USE DEF InstallInv, queueVars
<1>1. Listed' /\ InLine'
  BY DEF Listed, InLine, Live, LanguageAt
<1>2. Covered' /\ DroppedFor'
  BY DEF Covered, DroppedFor
<1>3. ReadyMeansCached'
  BY DEF ReadyMeansCached
<1> QED
  BY <1>1, <1>2, <1>3

\* What the steps of install_packages and of its container have in common:
\* they change the state of one thread that has something to do, report a
\* success only where there was one, and lose no container silently.
ThreadMove(t) ==
  /\ UNCHANGED <<queueVars, prewarm>>
  /\ thread' \in [Threads -> ThreadState] /\ container' \in [Threads -> ContainerState]
  /\ \A u \in Threads \ {t} : thread'[u] = thread[u] /\ container'[u] = container[u]
  /\ thread'[t].at = "idle" => thread[t].at = "idle"
  /\ thread'[t].at # "idle" => thread[t].at # "idle"
  /\ thread'[t].at \in Working => thread[t].at \in Working /\ thread'[t].packages = thread[t].packages
  /\ container'[t].at # "none" => container[t].at # "none" \/ thread[t].at # "idle"
  /\ container'[t].at = "running" =>
       \/ container[t].at = "running" /\ container'[t].packages = container[t].packages
       \/ thread[t].at \in Working /\ container'[t].packages = thread[t].packages
  /\ container'[t].at = "running" /\ ~container'[t].lost => thread'[t].at = "wait"
  /\ container'[t].at = "exited" /\ container'[t].ok =>
       \/ container[t].at = "exited" /\ container[t].ok
       \/ container[t].at = "running" /\ container[t].packages \subseteq markers'
  /\ Ended(t)' /\ thread'[t].ok =>
       \/ Ended(t) /\ thread[t].ok
       \/ container[t].at = "exited" /\ container[t].ok
  /\ \/ markers' = markers
     \/ container[t].at = "running" /\ markers' = markers \cup container[t].packages

LEMMA ThreadMoveKeeps ==
  ASSUME InstallInv, NEW t \in Threads, ThreadMove(t)
  PROVE  Typed' /\ Listed' /\ InLine' /\ Driven' /\ Stamped' /\ Covered' /\ DroppedFor' /\ ReadyMeansCached'
<1>1. UNCHANGED <<queueVars, prewarm>>
  BY DEF ThreadMove
<1>2. /\ request' = request /\ jobs' = jobs /\ inflight' = inflight /\ known' = known
      /\ losses' = losses /\ prewarm' = prewarm
  BY <1>1 DEF queueVars
<1>3. markers \subseteq markers' /\ markers' \subseteq Packages
  <2>1. container[t].at = "running" => container[t].packages \subseteq Packages
    BY DEF InstallInv, Typed, ContainerState
  <2> QED
    BY <2>1 DEF InstallInv, Typed, ThreadMove
<1>4. Typed'
  <2>1. thread'[Prewarmer].at # "idle" => thread[Prewarmer].at # "idle"
    BY Numbers DEF ThreadMove
  <2> QED
    BY <1>2, <1>3, <2>1 DEF InstallInv, Typed, ThreadMove
<1>5. Driven'
  <2>1. ASSUME NEW j \in 1..MaxJobs
        PROVE  thread'[j].at # "idle" => j <= Len(jobs) /\ jobs[j].at \in {"installing", "cancelled"}
    BY Numbers DEF ThreadMove, InstallInv, Driven
  <2>2. ASSUME NEW j \in 1..MaxJobs, thread'[j].at \in Working
        PROVE  thread'[j].packages = {jobs[j].package}
    BY <2>2, Numbers DEF ThreadMove, InstallInv, Driven, Working
  <2>3. ASSUME NEW j \in 1..MaxJobs, container'[j].at # "none"
        PROVE  j <= Len(jobs)
    BY <2>3, Numbers DEF ThreadMove, InstallInv, Driven
  <2>4. ASSUME NEW j \in 1..MaxJobs, container'[j].at = "running"
        PROVE  container'[j].packages = {jobs[j].package}
    BY <2>4, Numbers DEF ThreadMove, InstallInv, Driven, Working
  <2>5. ASSUME NEW u \in Threads, container'[u].at = "running", ~container'[u].lost
        PROVE  thread'[u].at = "wait"
    BY <2>5 DEF ThreadMove, InstallInv, Driven
  <2> QED
    BY <1>2, <2>1, <2>2, <2>3, <2>4, <2>5 DEF Driven, Working
<1>6. Stamped'
  <2> SUFFICES ASSUME NEW j \in 1..Len(jobs)
               PROVE  /\ jobs[j].at = "finished" => jobs[j].package \in markers'
                      /\ Ended(j)' /\ thread'[j].ok => jobs[j].package \in markers'
                      /\ container'[j].at = "exited" /\ container'[j].ok => jobs[j].package \in markers'
    BY <1>2 DEF Stamped
  <2>1. j \in 1..MaxJobs /\ j \in Threads
    BY Numbers DEF InstallInv
  <2>2. jobs[j].at = "finished" => jobs[j].package \in markers'
    BY <1>3 DEF InstallInv, Stamped
  <2>3. Ended(j)' /\ thread'[j].ok => jobs[j].package \in markers'
    BY <1>3, <2>1 DEF InstallInv, Stamped, ThreadMove, Ended
  <2>4. container'[j].at = "exited" /\ container'[j].ok => jobs[j].package \in markers'
    BY <1>3, <2>1 DEF InstallInv, Stamped, ThreadMove, Driven
  <2> QED
    BY <2>2, <2>3, <2>4
<1>7. Listed' /\ InLine' /\ Covered' /\ DroppedFor' /\ ReadyMeansCached'
  BY <1>1, <1>3, QueueUntouched
<1> QED
  BY <1>4, <1>5, <1>6, <1>7

LEMMA AcquireKeeps ==
  ASSUME InstallInv, NEW t \in Threads, Acquire(t)
  PROVE  InstallInv'
<1>1. thread[t] \in [at : Working, packages : SUBSET Packages]
  BY DEF InstallInv, Typed, ThreadState, Acquire, Working
<1>2. /\ thread'[t] \in [at : {"start"}, packages : SUBSET Packages]
      /\ thread'[t].packages = thread[t].packages
      /\ thread' = [thread EXCEPT ![t] = thread'[t]]
  BY <1>1 DEF Acquire, InstallInv, Typed
<1>3. ThreadMove(t)
  BY <1>1, <1>2 DEF ThreadMove, Acquire, InstallInv, Typed, Driven, Ended, Working, ThreadState
<1>4. Counted'
  <2>1. Holders' = Holders \cup {t} /\ t \notin Holders
    BY <1>2 DEF Holders, Acquire, InstallInv, Typed
  <2> QED
    BY <2>1, HoldersChange, HoldersFinite DEF Counted, Acquire, InstallInv
<1> QED
  BY <1>3, <1>4, ThreadMoveKeeps DEF InstallInv

\* A step that neither takes nor gives back the semaphore.
LEMMA CountedStays ==
  ASSUME InstallInv, NEW t \in Threads, ThreadMove(t), semaphore' = semaphore,
         t \in Holders <=> thread'[t].at \in {"start", "chown", "launch", "wait", "release"}
  PROVE  InstallInv'
<1>1. Holders' = Holders
  BY DEF Holders, ThreadMove
<1>2. Counted'
  BY <1>1 DEF Counted, InstallInv
<1> QED
  BY <1>2, ThreadMoveKeeps DEF InstallInv

LEMMA StartKeeps ==
  ASSUME InstallInv, NEW t \in Threads, Start(t) \/ Chown(t)
  PROVE  InstallInv'
<1>1. thread[t] \in [at : {"start", "chown"}, packages : SUBSET Packages]
  BY DEF InstallInv, Typed, ThreadState, Start, Chown
<1>2. /\ container \in [Threads -> ContainerState] /\ thread \in [Threads -> ThreadState]
      /\ UNCHANGED <<queueVars, semaphore, container, prewarm, markers>>
  BY DEF InstallInv, Typed, Start, Chown
<1>3. container[t].at = "running" => container[t].lost
  BY <1>1, <1>2 DEF InstallInv, Driven
<1>4. PICK next \in {[thread[t] EXCEPT !.at = "chown"], [thread[t] EXCEPT !.at = "launch"], Refused} :
        thread' = [thread EXCEPT ![t] = next]
  BY <1>2 DEF Start, Chown
<1>5. /\ next \in ThreadState /\ next.at \in {"chown", "launch", "release"}
      /\ next.at = "release" => ~next.ok
      /\ next.at \in Working => next.packages = thread[t].packages
  <2>1. CASE next = Refused
    BY <2>1 DEF ThreadState, Refused, Working
  <2>2. CASE next = [thread[t] EXCEPT !.at = "chown"]
    BY <1>1, <2>2 DEF ThreadState, Working
  <2>3. CASE next = [thread[t] EXCEPT !.at = "launch"]
    BY <1>1, <2>3 DEF ThreadState, Working
  <2> QED
    BY <1>4, <2>1, <2>2, <2>3
<1>6. thread'[t] = next /\ \A u \in Threads \ {t} : thread'[u] = thread[u]
  BY <1>2, <1>4
<1>7. ThreadMove(t)
  BY <1>1, <1>2, <1>3, <1>4, <1>5, <1>6 DEF ThreadMove, Ended, Working
<1> QED
  BY <1>1, <1>2, <1>5, <1>6, <1>7, CountedStays DEF Holders

LEMMA LaunchKeeps ==
  ASSUME InstallInv, NEW t \in Threads, Launch(t)
  PROVE  InstallInv'
<1>1. thread[t] \in [at : {"launch"}, packages : SUBSET Packages]
  BY DEF InstallInv, Typed, ThreadState, Launch
<1>2. container \in [Threads -> ContainerState] /\ thread \in [Threads -> ThreadState]
  BY DEF InstallInv, Typed
<1>3. container[t].at = "running" => container[t].lost
  BY <1>1, <1>2 DEF InstallInv, Driven
<1>4. CASE /\ container' = [container EXCEPT ![t] = Running(t)]
           /\ thread' = [thread EXCEPT ![t].at = "wait"]
  <2>1. /\ thread'[t] \in [at : {"wait"}, packages : SUBSET Packages]
        /\ thread'[t].packages = thread[t].packages
        /\ thread' = [thread EXCEPT ![t] = thread'[t]]
    BY <1>1, <1>2, <1>4
  <2>2. Running(t) \in [at : {"running"}, packages : SUBSET Packages, lost : BOOLEAN]
        /\ Running(t).packages = thread[t].packages
    BY <1>1 DEF Running
  <2>3. ThreadMove(t)
    BY <1>1, <1>2, <1>4, <2>1, <2>2
       DEF ThreadMove, Launch, Ended, Working, ThreadState, ContainerState
  <2> QED
    BY <1>1, <2>1, <2>3, CountedStays DEF Holders, Launch
<1>5. CASE /\ thread' = [thread EXCEPT ![t] = Refused]
           /\ container' \in {container, [container EXCEPT ![t] = [Running(t) EXCEPT !.lost = TRUE]]}
  <2> DEFINE lost == [Running(t) EXCEPT !.lost = TRUE]
  <2>1. lost \in [at : {"running"}, packages : SUBSET Packages, lost : {TRUE}]
        /\ lost.packages = thread[t].packages
    BY <1>1 DEF Running
  <2> HIDE DEF lost
  <2>a. PICK c \in {container[t], lost} : container' = [container EXCEPT ![t] = c]
    BY <1>2, <1>5 DEF lost
  <2>b. /\ c \in ContainerState /\ (c.at = "running" => c.lost)
        /\ c.at = "running" => c = container[t] \/ c.packages = thread[t].packages
        /\ c.at = "exited" => c = container[t]
    <3>1. CASE c = lost
      BY <2>1, <3>1 DEF ContainerState
    <3>2. CASE c = container[t]
      BY <1>2, <1>3, <3>2
    <3> QED
      BY <3>1, <3>2
  <2>c. /\ thread'[t] \in ThreadState /\ thread'[t].at = "release" /\ ~thread'[t].ok
        /\ thread' = [thread EXCEPT ![t] = thread'[t]]
    BY <1>2, <1>5 DEF ThreadState, Refused
  <2>2. ThreadMove(t)
    BY <1>1, <1>2, <2>a, <2>b, <2>c DEF ThreadMove, Launch, Ended, Working
  <2>3. thread'[t].at = "release"
    BY <1>2, <1>5 DEF Refused
  <2> QED
    BY <1>1, <2>2, <2>3, CountedStays DEF Holders, Launch
<1> QED
  BY <1>4, <1>5 DEF Launch

LEMMA ExitKeeps ==
  ASSUME InstallInv, NEW t \in Threads, Exit(t)
  PROVE  InstallInv'
<1>1. container[t] \in [at : {"running"}, packages : SUBSET Packages, lost : BOOLEAN]
  BY DEF InstallInv, Typed, ContainerState, Exit
<1>2. \A ok \in BOOLEAN : /\ Exited(container[t], ok) \in ContainerState
                          /\ Exited(container[t], ok).at # "running"
                          /\ Exited(container[t], ok).at = "exited" => Exited(container[t], ok).ok = ok
  BY <1>1 DEF Exited, ContainerState, NoContainer
<1>3. PICK ok \in BOOLEAN :
        /\ container' = [container EXCEPT ![t] = Exited(container[t], ok)]
        /\ markers' = IF ok THEN markers \cup container[t].packages ELSE markers
  <2>1. \/ container' = [container EXCEPT ![t] = Exited(container[t], TRUE)]
           /\ markers' = markers \cup container[t].packages
        \/ container' = [container EXCEPT ![t] = Exited(container[t], FALSE)] /\ markers' = markers
    BY DEF Exit
  <2> QED
    BY <2>1
<1>4. thread' = thread /\ container \in [Threads -> ContainerState] /\ thread \in [Threads -> ThreadState]
  BY DEF InstallInv, Typed, Exit
<1>5. ThreadMove(t)
  BY <1>1, <1>2, <1>3, <1>4 DEF ThreadMove, Exit, Ended, Working
<1> QED
  BY <1>4, <1>5, CountedStays DEF Holders, Exit

LEMMA WaitKeeps ==
  ASSUME InstallInv, NEW t \in Threads, Wait(t)
  PROVE  InstallInv'
<1>1. container[t] \in [at : {"exited"}, ok : BOOLEAN]
  BY DEF InstallInv, Typed, ContainerState, Wait
<1>2. /\ Released(container[t].ok) \in ThreadState
      /\ Released(container[t].ok).at = "release" /\ Released(container[t].ok).ok = container[t].ok
  BY <1>1 DEF Released, ThreadState
<1>3. /\ thread' = [thread EXCEPT ![t] = Released(container[t].ok)] /\ container' = container
      /\ container \in [Threads -> ContainerState] /\ thread \in [Threads -> ThreadState]
      /\ thread[t].at = "wait"
  BY DEF InstallInv, Typed, Wait
<1>4. ThreadMove(t)
  BY <1>1, <1>2, <1>3 DEF ThreadMove, Wait, Ended, Working
<1> QED
  BY <1>2, <1>3, <1>4, CountedStays DEF Holders, Wait

LEMMA TimeOutKeeps ==
  ASSUME InstallInv, NEW t \in Threads, TimeOut(t)
  PROVE  InstallInv'
<1>1. container[t] \in ContainerState /\ container \in [Threads -> ContainerState]
      /\ thread \in [Threads -> ThreadState] /\ thread[t].at = "wait"
  BY DEF InstallInv, Typed, TimeOut
<1>2. /\ Released(FALSE) \in ThreadState /\ Released(FALSE).at = "release" /\ ~Released(FALSE).ok
  BY DEF Released, ThreadState
<1>3. PICK c \in {Killed(container[t]), Lost(container[t])} : container' = [container EXCEPT ![t] = c]
  BY DEF TimeOut
<1>4. /\ c \in ContainerState
      /\ c.at = "running" => c.lost /\ container[t].at = "running" /\ c.packages = container[t].packages
      /\ c.at # "none" => container[t].at # "none"
      /\ c.at = "exited" /\ c.ok => container[t].at = "exited" /\ container[t].ok
  <2>1. CASE c = Killed(container[t])
    BY <1>1, <2>1 DEF Killed, ContainerState
  <2>2. CASE c = Lost(container[t])
    <3>1. CASE container[t].at = "running"
      <4>1. container[t] \in [at : {"running"}, packages : SUBSET Packages, lost : BOOLEAN]
        BY <1>1, <3>1 DEF ContainerState
      <4> QED
        BY <2>2, <3>1, <4>1 DEF Lost, ContainerState
    <3>2. CASE container[t].at # "running"
      BY <1>1, <2>2, <3>2 DEF Lost
    <3> QED
      BY <3>1, <3>2
  <2> QED
    BY <2>1, <2>2
<1>5. ThreadMove(t)
  BY <1>1, <1>2, <1>3, <1>4 DEF ThreadMove, TimeOut, Ended, Working
<1> QED
  BY <1>1, <1>2, <1>5, CountedStays DEF Holders, TimeOut

LEMMA ReleaseKeeps ==
  ASSUME InstallInv, NEW t \in Threads, Release(t)
  PROVE  InstallInv'
<1> DEFINE next == [at |-> IF thread[t].held THEN "cleanup" ELSE "returned", ok |-> thread[t].ok]
<1>1. thread[t] \in [at : {"release"}, ok : BOOLEAN, held : BOOLEAN]
  BY DEF InstallInv, Typed, ThreadState, Release
<1>2. next \in [at : {"cleanup", "returned"}, ok : BOOLEAN] /\ next.ok = thread[t].ok
  BY <1>1
<1>3. thread' = [thread EXCEPT ![t] = next]
  BY DEF Release
<1> HIDE DEF next
<1>4. /\ container \in [Threads -> ContainerState] /\ thread \in [Threads -> ThreadState]
      /\ container[t].at = "running" => container[t].lost
  BY <1>1 DEF InstallInv, Typed, Driven
<1>5. ThreadMove(t)
  BY <1>1, <1>2, <1>3, <1>4 DEF ThreadMove, Release, Ended, Working, ThreadState
<1>6. Counted'
  <2>1. Holders' = Holders \ {t} /\ t \in Holders
    BY <1>1, <1>2, <1>3, <1>4 DEF Holders
  <2> QED
    BY <2>1, HoldersChange, HoldersFinite DEF Counted, Release, InstallInv
<1> QED
  BY <1>5, <1>6, ThreadMoveKeeps DEF InstallInv

LEMMA CleanupKeeps ==
  ASSUME InstallInv, NEW t \in Threads, Cleanup(t)
  PROVE  InstallInv'
<1>1. thread[t] \in [at : {"cleanup"}, ok : BOOLEAN]
  BY DEF InstallInv, Typed, ThreadState, Cleanup
<1>2. /\ container \in [Threads -> ContainerState] /\ thread \in [Threads -> ThreadState]
      /\ container[t].at = "running" => container[t].lost
  BY <1>1 DEF InstallInv, Typed, Driven
<1>3. /\ thread'[t] \in [at : {"returned"}, ok : BOOLEAN]
      /\ thread'[t].ok = thread[t].ok
      /\ thread' = [thread EXCEPT ![t] = thread'[t]]
  BY <1>1, <1>2 DEF Cleanup
<1>4. container' = [container EXCEPT ![t] = NoContainer] \/ container' = container
  BY DEF Cleanup
<1>5. NoContainer \in ContainerState /\ NoContainer.at = "none"
  BY DEF NoContainer, ContainerState
<1>6. ThreadMove(t)
  BY <1>1, <1>2, <1>3, <1>4, <1>5 DEF ThreadMove, Cleanup, Ended, Working, ThreadState
<1> QED
  BY <1>1, <1>3, <1>6, CountedStays DEF Holders, Cleanup

LEMMA PrewarmKeeps ==
  ASSUME InstallInv, PrewarmNext \/ PrewarmDone
  PROVE  InstallInv'
<1>1. /\ UNCHANGED queueVars /\ semaphore' = semaphore /\ container' = container /\ markers' = markers
      /\ thread \in [Threads -> ThreadState] /\ container \in [Threads -> ContainerState]
  BY DEF PrewarmNext, PrewarmDone, InstallInv, Typed
<1>2. PICK next \in ThreadState :
        /\ thread' = [thread EXCEPT ![Prewarmer] = next]
        /\ next.at \in {"idle", "acquire"}
        /\ prewarm' \in 0..Len(PrewarmOrder)
        /\ next.at # "idle" => prewarm' < Len(PrewarmOrder)
  <2>1. CASE PrewarmNext
    <3> DEFINE all == Allowlist[PrewarmOrder[prewarm + 1]]
    <3>1. PrewarmOrder[prewarm + 1] \in Languages
      BY <2>1, Numbers DEF PrewarmNext, InstallInv, Typed
    <3>2. all \subseteq Packages
      BY <3>1, LanguageIs
    <3>3. [at |-> "acquire", packages |-> all] \in ThreadState
      BY <3>2 DEF ThreadState
    <3>4. prewarm' = prewarm /\ prewarm < Len(PrewarmOrder) /\ prewarm \in 0..Len(PrewarmOrder)
      BY <2>1 DEF PrewarmNext, InstallInv, Typed
    <3> QED
      BY <2>1, <3>3, <3>4 DEF PrewarmNext
  <2>2. CASE PrewarmDone
    <3>1. prewarm' \in 0..Len(PrewarmOrder)
      BY <2>2, Numbers DEF PrewarmDone, InstallInv, Typed
    <3>2. Idle \in ThreadState /\ Idle.at = "idle"
      BY DEF Idle, ThreadState
    <3> QED
      BY <2>2, <3>1, <3>2 DEF PrewarmDone
  <2> QED
    BY <2>1, <2>2
<1>3. Prewarmer \in Threads /\ thread[Prewarmer].at \in {"idle", "returned"}
  BY Numbers DEF PrewarmNext, PrewarmDone
<1>4. \A t \in Threads \ {Prewarmer} : thread'[t] = thread[t]
  BY <1>1, <1>2
<1>5. thread'[Prewarmer] = next
  BY <1>1, <1>2, <1>3
<1>6. Typed'
  BY <1>1, <1>2, <1>5 DEF InstallInv, Typed, queueVars
<1>7. Driven'
  BY <1>1, <1>3, <1>4, Numbers DEF InstallInv, Driven, queueVars
<1>8. Stamped'
  BY <1>1, <1>4, Numbers DEF InstallInv, Stamped, Ended, queueVars
<1>9. Counted'
  <2>1. Holders' = Holders
    BY <1>2, <1>3, <1>4, <1>5 DEF Holders
  <2> QED
    BY <1>1, <2>1 DEF InstallInv, Counted
<1> QED
  BY <1>1, <1>6, <1>7, <1>8, <1>9, QueueUntouched DEF InstallInv

----------------------------------------------------------------------------
(* The queue on the event loop *)

LEMMA GatherKeeps ==
  ASSUME InstallInv, NEW r \in Requests, Gather(r)
  PROVE  InstallInv'
<1>1. UNCHANGED <<jobs, inflight, known, losses, semaphore, thread, container, prewarm, markers>>
  BY DEF Gather, threadVars
<1>2. PICK next \in [at : {"ready", "failed", "dropped"}] :
        /\ request' = [request EXCEPT ![r] = next]
        /\ next.at = "ready" => \A j \in request[r].jobs : jobs[j].at = "finished"
        /\ next.at = "dropped" => \E j \in request[r].jobs : jobs[j].at = "stillborn"
  <2>1. \A how \in {"ready", "failed", "dropped"} : [at |-> how] \in [at : {"ready", "failed", "dropped"}]
    OBVIOUS
  <2> QED
    BY <2>1 DEF Gather
<1>3. request[r].at = "waiting" /\ request \in [Requests -> RequestState]
  BY DEF Gather, InstallInv, Typed
<1>4. Typed'
  BY <1>1, <1>2 DEF InstallInv, Typed, RequestState
<1>5. Listed' /\ InLine' /\ Driven' /\ Stamped' /\ Counted'
  BY <1>1 DEF InstallInv, Listed, InLine, Driven, Stamped, Counted, Live, LanguageAt, Ended, Holders
<1>6. Covered'
  BY <1>1, <1>2, <1>3 DEF InstallInv, Covered
<1>7. next.at = "ready" => Imports[r] \subseteq markers
  BY <1>2, <1>3 DEF InstallInv, Covered, Stamped
<1>8. ReadyMeansCached'
  BY <1>1, <1>2, <1>3, <1>7 DEF InstallInv, ReadyMeansCached
<1>9. next.at = "dropped" => \E j \in 1..Len(jobs) : jobs[j].at = "stillborn" /\ jobs[j].package \in Imports[r]
  BY <1>2, <1>3 DEF InstallInv, Covered
<1>10. DroppedFor'
  BY <1>1, <1>2, <1>3, <1>9 DEF InstallInv, DroppedFor
<1> QED
  BY <1>4, <1>5, <1>6, <1>8, <1>10 DEF InstallInv

\* What the steps of one job have in common: it goes to another state, in
\* which nobody drops a run or takes it for live that was not.
JobMove(j, at) ==
  /\ j \in 1..Len(jobs) /\ jobs' = [jobs EXCEPT ![j].at = at]
  /\ jobs[j].at # "stillborn" /\ at \in {"queued", "installing", "finished", "failed"}
  /\ UNCHANGED <<request, losses, semaphore, container, prewarm, markers>>

LEMMA JobMoveIs ==
  ASSUME InstallInv, NEW j, NEW at, JobMove(j, at)
  PROVE  /\ j \in 1..MaxJobs /\ j \in Threads /\ j \in 1..Len(jobs) /\ jobs[j].package \in Packages
         /\ Len(jobs) \in Nat /\ Len(jobs) <= MaxJobs
         /\ jobs' \in Seq(Job) /\ Len(jobs') = Len(jobs) /\ jobs'[j].at = at
         /\ \A i \in 1..Len(jobs) : jobs'[i].package = jobs[i].package
         /\ \A i \in 1..Len(jobs) : i # j => jobs'[i] = jobs[i]
         /\ \A i \in 1..Len(jobs) : LanguageAt(i)' = LanguageAt(i)
<1>1. /\ jobs \in Seq(Job) /\ jobs[j] \in Job /\ jobs[j].package \in Packages
      /\ j \in 1..MaxJobs /\ j \in Threads /\ Len(jobs) \in Nat /\ Len(jobs) <= MaxJobs
  BY Numbers, JobsAre DEF JobMove, InstallInv, Typed
<1>2. /\ jobs' \in Seq(Job) /\ Len(jobs') = Len(jobs) /\ jobs'[j].at = at
      /\ \A i \in 1..Len(jobs) : jobs'[i].package = jobs[i].package
      /\ \A i \in 1..Len(jobs) : i # j => jobs'[i] = jobs[i]
  BY <1>1 DEF JobMove, Job
<1>3. \A i \in 1..Len(jobs) : LanguageAt(i)' = LanguageAt(i)
  BY <1>2 DEF LanguageAt
<1> QED
  BY <1>1, <1>2, <1>3 DEF JobMove

\* A step of one job leaves the runs as they are.
LEMMA RunsUntouched ==
  ASSUME InstallInv, NEW j, NEW at, JobMove(j, at)
  PROVE  Covered' /\ DroppedFor' /\ ReadyMeansCached'
<1>1. UNCHANGED <<request, markers>> /\ jobs[j].at # "stillborn"
  BY DEF JobMove
<1>2. Covered' /\ ReadyMeansCached'
  BY <1>1, JobMoveIs DEF InstallInv, Covered, ReadyMeansCached
<1>3. DroppedFor'
  BY <1>1, JobMoveIs DEF InstallInv, DroppedFor
<1> QED
  BY <1>2, <1>3

LEMMA BeginKeeps ==
  ASSUME InstallInv, NEW j \in 1..MaxJobs, Begin(j)
  PROVE  InstallInv'
<1>1. JobMove(j, "queued") /\ jobs[j].at = "created" /\ UNCHANGED <<inflight, known, thread>>
  BY DEF JobMove, Begin, threadVars
<1>2. UNCHANGED <<request, losses, semaphore, container, prewarm, markers>>
  BY <1>1 DEF JobMove
<1> DEFINE n == Len(jobs)
<1>3. /\ jobs' \in Seq(Job) /\ Len(jobs') = n /\ n \in Nat /\ n <= MaxJobs /\ j \in 1..n
      /\ jobs'[j].at = "queued"
      /\ \A i \in 1..n : jobs'[i].package = jobs[i].package
      /\ \A i \in 1..n : i # j => jobs'[i] = jobs[i]
      /\ \A i \in 1..n : LanguageAt(i)' = LanguageAt(i)
  BY <1>1, JobMoveIs
<1>4. Typed'
  BY <1>1, <1>2, <1>3 DEF InstallInv, Typed
<1>5. Live' = Live
  BY <1>1, <1>3 DEF Live
<1>6. Listed'
  BY <1>1, <1>3, <1>5 DEF InstallInv, Listed, Live
<1>7. InLine'
  <2> SUFFICES ASSUME NEW i \in 1..n, NEW k \in 1..n, i < k
               PROVE  /\ jobs'[i].at = "created" => jobs'[k].at \in {"created", "stillborn"}
                      /\ jobs'[i].at \in {"queued", "installing"} /\ jobs'[k].at = "installing"
                           => LanguageAt(i) # LanguageAt(k)
    BY <1>3 DEF InLine
  <2>1. /\ jobs[i].at = "created" => jobs[k].at \in {"created", "stillborn"}
        /\ jobs[i].at \in {"queued", "installing"} /\ jobs[k].at = "installing" => LanguageAt(i) # LanguageAt(k)
    BY DEF InstallInv, InLine
  <2>2. \A m \in 1..(j - 1) : jobs[m].at # "created"
    BY DEF Begin
  <2>3. k = j => jobs[i].at # "created"
    BY <2>2, <1>3
  <2> QED
    BY <1>1, <1>3, <2>1, <2>3
<1>8. Driven'
  BY <1>1, <1>2, <1>3, Numbers DEF InstallInv, Driven, Working
<1>9. Stamped' /\ Counted'
  BY <1>1, <1>2, <1>3 DEF InstallInv, Stamped, Ended, Counted, Holders
<1> QED
  BY <1>1, <1>4, <1>6, <1>7, <1>8, <1>9, RunsUntouched DEF InstallInv

LEMMA SubmitKeeps ==
  ASSUME InstallInv, NEW j \in 1..MaxJobs, Submit(j)
  PROVE  InstallInv'
<1> DEFINE next == [at |-> "acquire", packages |-> {jobs[j].package}]
           n == Len(jobs)
<1>1. JobMove(j, "installing") /\ jobs[j].at = "queued" /\ UNCHANGED <<inflight, known>>
  BY DEF JobMove, Submit, HoldsWriter
<1>2. UNCHANGED <<request, losses, semaphore, container, prewarm, markers>>
  BY <1>1 DEF JobMove
<1>3. /\ jobs' \in Seq(Job) /\ Len(jobs') = n /\ n \in Nat /\ n <= MaxJobs /\ j \in 1..n
      /\ jobs'[j].at = "installing" /\ jobs[j].package \in Packages /\ j \in Threads
      /\ \A i \in 1..n : jobs'[i].package = jobs[i].package
      /\ \A i \in 1..n : i # j => jobs'[i] = jobs[i]
      /\ \A i \in 1..n : LanguageAt(i)' = LanguageAt(i)
  BY <1>1, JobMoveIs
<1>4. next \in ThreadState /\ next.at = "acquire" /\ next.packages = {jobs[j].package}
  BY <1>3 DEF ThreadState
<1>5. thread' = [thread EXCEPT ![j] = next]
  BY DEF Submit
<1> HIDE DEF next
<1>6. thread \in [Threads -> ThreadState] /\ thread[j].at = "idle"
  BY <1>1 DEF InstallInv, Typed, Driven
<1>7. thread'[j] = next /\ \A t \in Threads \ {j} : thread'[t] = thread[t]
  BY <1>3, <1>5, <1>6
<1>8. Typed'
  BY <1>1, <1>2, <1>3, <1>4, <1>5, <1>7, Numbers DEF InstallInv, Typed
<1>9. Live' = Live
  BY <1>1, <1>3 DEF Live
<1>10. Listed'
  BY <1>1, <1>3, <1>9 DEF InstallInv, Listed, Live
<1>11. InLine'
  <2> SUFFICES ASSUME NEW i \in 1..n, NEW k \in 1..n, i < k
               PROVE  /\ jobs'[i].at = "created" => jobs'[k].at \in {"created", "stillborn"}
                      /\ jobs'[i].at \in {"queued", "installing"} /\ jobs'[k].at = "installing"
                           => LanguageAt(i) # LanguageAt(k)
    BY <1>3 DEF InLine
  <2>1. /\ jobs[i].at = "created" => jobs[k].at \in {"created", "stillborn"}
        /\ jobs[i].at \in {"queued", "installing"} /\ jobs[k].at = "installing" => LanguageAt(i) # LanguageAt(k)
    BY DEF InstallInv, InLine
  <2>2. \A m \in 1..(j - 1) : jobs[m].at \in {"queued", "installing"} => LanguageAt(m) # LanguageAt(j)
    BY DEF Submit, HoldsWriter, LanguageAt
  <2>3. k = j /\ jobs[i].at \in {"queued", "installing"} => LanguageAt(i) # LanguageAt(k)
    BY <2>2, <1>3
  <2> QED
    BY <1>1, <1>3, <2>1, <2>3
<1>12. Driven'
  <2>1. ASSUME NEW k \in 1..MaxJobs
        PROVE  /\ thread'[k].at # "idle" => k <= n /\ jobs'[k].at \in {"installing", "cancelled"}
               /\ thread'[k].at \in Working => thread'[k].packages = {jobs'[k].package}
               /\ container[k].at # "none" => k <= n
               /\ container[k].at = "running" => container[k].packages = {jobs'[k].package}
    <3>1. k \in Threads /\ (k <= n => k \in 1..n)
      BY <1>3, Numbers
    <3>2. /\ thread[k].at # "idle" => k <= n /\ jobs[k].at \in {"installing", "cancelled"}
          /\ thread[k].at \in Working => thread[k].packages = {jobs[k].package}
          /\ container[k].at # "none" => k <= n
          /\ container[k].at = "running" => container[k].packages = {jobs[k].package}
      BY DEF InstallInv, Driven
    <3>3. CASE k = j
      BY <1>3, <1>4, <1>7, <3>1, <3>2, <3>3 DEF Working
    <3>4. CASE k # j
      BY <1>3, <1>7, <3>1, <3>2, <3>4 DEF Working
    <3> QED
      BY <3>3, <3>4
  <2>2. \A t \in Threads : container[t].at = "running" /\ ~container[t].lost => thread'[t].at = "wait"
    BY <1>6, <1>7 DEF InstallInv, Driven
  <2> QED
    BY <1>2, <1>3, <2>1, <2>2 DEF Driven
<1>13. Stamped'
  BY <1>1, <1>2, <1>3, <1>4, <1>7, Numbers DEF InstallInv, Stamped, Ended
<1>14. Counted'
  <2>1. Holders' = Holders
    BY <1>4, <1>6, <1>7 DEF Holders
  <2> QED
    BY <1>2, <2>1 DEF InstallInv, Counted
<1> QED
  BY <1>1, <1>8, <1>10, <1>11, <1>12, <1>13, <1>14, RunsUntouched DEF InstallInv

LEMMA FinishKeeps ==
  ASSUME InstallInv, NEW j \in 1..MaxJobs, Finish(j)
  PROVE  InstallInv'
<1> DEFINE p == jobs[j].package
           ok == thread[j].ok
           n == Len(jobs)
<1>1. PICK at \in {"finished", "failed"} : JobMove(j, at) /\ (at = "finished" <=> ok)
  BY DEF JobMove, Finish
<1>2. /\ UNCHANGED <<request, losses, semaphore, container, prewarm, markers>>
      /\ jobs[j].at = "installing" /\ thread[j].at = "returned"
      /\ thread \in [Threads -> ThreadState] /\ thread' = [thread EXCEPT ![j] = Idle]
  BY DEF Finish, InstallInv, Typed
<1>3. /\ jobs' \in Seq(Job) /\ Len(jobs') = n /\ n \in Nat /\ n <= MaxJobs /\ j \in 1..n
      /\ jobs'[j].at = at /\ p \in Packages /\ j \in Threads
      /\ \A i \in 1..n : jobs'[i].package = jobs[i].package
      /\ \A i \in 1..n : i # j => jobs'[i] = jobs[i]
      /\ \A i \in 1..n : LanguageAt(i)' = LanguageAt(i)
  BY <1>1, JobMoveIs
<1>4. Idle \in ThreadState /\ Idle.at = "idle"
  BY DEF ThreadState, Idle
<1>5. thread'[j] = Idle /\ \A t \in Threads \ {j} : thread'[t] = thread[t]
  BY <1>2, <1>3
<1>6. inflight \in [Packages -> Nat] /\ inflight' = [inflight EXCEPT ![p] = 0]
  BY DEF Finish, InstallInv, Typed
<1>7. ok => p \in markers
  BY <1>2, <1>3 DEF InstallInv, Stamped, Ended
<1>8. known' \subseteq markers
  BY <1>7 DEF Finish, InstallInv, Typed
<1>9. Typed'
  <2>1. thread'[Prewarmer] = thread[Prewarmer]
    BY <1>5, Numbers
  <2> QED
    BY <1>2, <1>3, <1>4, <1>6, <1>8, <2>1 DEF InstallInv, Typed
<1>10. Live' = Live \ {j} /\ j \in Live
  BY <1>2, <1>3, <1>1 DEF Live
<1>11. Listed'
  <2>1. ASSUME NEW q \in Packages, inflight'[q] # 0
        PROVE  /\ inflight'[q] \in 1..n /\ jobs'[inflight'[q]].package = q
               /\ inflight'[q] \in Live' \/ jobs'[inflight'[q]].at = "stillborn"
    <3>1. q # p /\ inflight'[q] = inflight[q]
      BY <1>3, <1>6, <2>1
    <3>2. /\ inflight[q] \in 1..n /\ jobs[inflight[q]].package = q
          /\ inflight[q] \in Live \/ jobs[inflight[q]].at = "stillborn"
      BY <2>1, <3>1 DEF InstallInv, Listed
    <3>3. inflight[q] # j
      BY <3>1, <3>2
    <3>4. jobs'[inflight[q]] = jobs[inflight[q]]
      BY <1>3, <3>2, <3>3
    <3> QED
      BY <1>10, <3>1, <3>2, <3>3, <3>4
  <2>2. ASSUME NEW i \in Live'
        PROVE  inflight'[jobs'[i].package] = i
    <3>1. i # j /\ i \in Live /\ i \in 1..n
      BY <1>10, <2>2 DEF Live
    <3>2. jobs'[i].package = jobs[i].package /\ jobs[i].package \in Packages
      BY <1>3, <3>1, JobsAre DEF InstallInv
    <3>3. inflight[jobs[i].package] = i /\ inflight[p] = j
      BY <1>10, <3>1 DEF InstallInv, Listed
    <3> QED
      BY <1>6, <3>1, <3>2, <3>3
  <2> QED
    BY <1>3, <2>1, <2>2 DEF Listed
<1>12. InLine'
  <2> SUFFICES ASSUME NEW i \in 1..n, NEW k \in 1..n, i < k
               PROVE  /\ jobs'[i].at = "created" => jobs'[k].at \in {"created", "stillborn"}
                      /\ jobs'[i].at \in {"queued", "installing"} /\ jobs'[k].at = "installing"
                           => LanguageAt(i) # LanguageAt(k)
    BY <1>3 DEF InLine
  <2>1. /\ jobs[i].at = "created" => jobs[k].at \in {"created", "stillborn"}
        /\ jobs[i].at \in {"queued", "installing"} /\ jobs[k].at = "installing" => LanguageAt(i) # LanguageAt(k)
    BY DEF InstallInv, InLine
  <2> QED
    BY <1>1, <1>2, <1>3, <2>1
<1>13. Driven'
  <2>1. container[j].at = "running" => container[j].lost
    BY <1>2, <1>3 DEF InstallInv, Driven
  <2> QED
    BY <1>2, <1>3, <1>4, <1>5, <2>1, Numbers DEF InstallInv, Driven, Working
<1>14. Stamped'
  BY <1>1, <1>2, <1>3, <1>4, <1>5, <1>7, Numbers DEF InstallInv, Stamped, Ended
<1>15. Counted'
  <2>1. Holders' = Holders
    BY <1>2, <1>3, <1>4, <1>5 DEF Holders
  <2> QED
    BY <1>2, <2>1 DEF InstallInv, Counted
<1> QED
  BY <1>1, <1>9, <1>11, <1>12, <1>13, <1>14, <1>15, RunsUntouched DEF InstallInv

LEMMA LossKeeps ==
  ASSUME InstallInv, LoseConnection
  PROVE  InstallInv'
<1> DEFINE waiting == {r \in Requests : request[r].at = "waiting"}
           cancelled == Live \cap UNION {request[r].jobs : r \in waiting}
           begun == {j \in cancelled : jobs[j].at # "created"}
           n == Len(jobs)
<1>1. /\ losses < MaxLosses /\ losses' = losses + 1
      /\ request' = [r \in Requests |-> IF r \in waiting THEN [at |-> "new"] ELSE request[r]]
      /\ jobs' = [j \in DOMAIN jobs |->
           IF j \in begun THEN [jobs[j] EXCEPT !.at = "cancelled"]
           ELSE IF j \in cancelled THEN [jobs[j] EXCEPT !.at = "stillborn"] ELSE jobs[j]]
      /\ inflight' = [p \in Packages |-> IF inflight[p] \in begun THEN 0 ELSE inflight[p]]
      /\ UNCHANGED <<known, semaphore, thread, container, prewarm, markers>>
  BY DEF LoseConnection, threadVars
<1>2. /\ jobs \in Seq(Job) /\ n \in Nat /\ n <= MaxJobs /\ DOMAIN jobs = 1..n
      /\ \A j \in 1..n : jobs[j] \in Job
  BY Numbers, JobsAre DEF InstallInv, Typed
<1>3. /\ cancelled \subseteq Live /\ begun \subseteq cancelled /\ cancelled \subseteq 1..n
      /\ \A j \in begun : jobs[j].at \in {"queued", "installing"}
      /\ \A j \in cancelled \ begun : jobs[j].at = "created"
  BY DEF Live
<1> HIDE DEF begun, cancelled
<1>4. ASSUME NEW j \in 1..n
      PROVE  /\ jobs'[j] \in Job /\ jobs'[j].package = jobs[j].package
             /\ jobs'[j].at = IF j \in begun THEN "cancelled"
                             ELSE IF j \in cancelled THEN "stillborn" ELSE jobs[j].at
  <2>1. jobs[j] \in Job
    BY <1>2
  <2> QED
    BY <1>1, <1>2, <2>1 DEF Job
<1>5. jobs' \in Seq(Job) /\ Len(jobs') = n
  <2>1. jobs' \in [1..n -> Job]
    BY <1>1, <1>2, <1>4
  <2> QED
    BY <1>2, <2>1
<1>6. \A j \in 1..n : LanguageAt(j)' = LanguageAt(j)
  BY <1>4 DEF LanguageAt
<1>7. Live' = Live \ cancelled
  BY <1>3, <1>4, <1>5 DEF Live
<1>8. Typed'
  <2>1. request' \in [Requests -> RequestState]
    BY <1>1 DEF InstallInv, Typed, RequestState
  <2>2. losses' \in 0..MaxLosses
    BY <1>1, Numbers DEF InstallInv, Typed
  <2>3. inflight' \in [Packages -> Nat]
    BY <1>1 DEF InstallInv, Typed
  <2> QED
    BY <1>1, <1>2, <1>5, <2>1, <2>2, <2>3 DEF InstallInv, Typed
<1>9. Listed'
  <2>1. ASSUME NEW p \in Packages, inflight'[p] # 0
        PROVE  /\ inflight'[p] \in 1..n /\ jobs'[inflight'[p]].package = p
               /\ inflight'[p] \in Live' \/ jobs'[inflight'[p]].at = "stillborn"
    <3>1. inflight'[p] = inflight[p] /\ inflight[p] \notin begun
      BY <1>1, <2>1
    <3>2. PICK j \in 1..n : j = inflight[p] /\ jobs[j].package = p /\ (j \in Live \/ jobs[j].at = "stillborn")
      BY <2>1, <3>1 DEF InstallInv, Listed
    <3>3. jobs'[j].package = p /\ (j \in Live' \/ jobs'[j].at = "stillborn")
      BY <1>3, <1>4, <1>7, <3>1, <3>2 DEF Live
    <3> QED
      BY <3>1, <3>2, <3>3
  <2>2. ASSUME NEW j \in Live'
        PROVE  inflight'[jobs'[j].package] = j
    <3>1. j \in Live /\ j \notin begun /\ j \in 1..n
      BY <1>3, <1>7, <2>2 DEF Live
    <3>2. jobs'[j].package = jobs[j].package /\ jobs[j].package \in Packages
      BY <1>4, <3>1, JobsAre DEF InstallInv
    <3>3. inflight[jobs[j].package] = j
      BY <3>1 DEF InstallInv, Listed
    <3> QED
      BY <1>1, <3>1, <3>2, <3>3
  <2> QED
    BY <1>5, <2>1, <2>2 DEF Listed
<1>10. InLine'
  <2> SUFFICES ASSUME NEW i \in 1..n, NEW k \in 1..n, i < k
               PROVE  /\ jobs'[i].at = "created" => jobs'[k].at \in {"created", "stillborn"}
                      /\ jobs'[i].at \in {"queued", "installing"} /\ jobs'[k].at = "installing"
                           => LanguageAt(i) # LanguageAt(k)
    BY <1>5, <1>6 DEF InLine
  <2>1. /\ jobs[i].at = "created" => jobs[k].at \in {"created", "stillborn"}
        /\ jobs[i].at \in {"queued", "installing"} /\ jobs[k].at = "installing" => LanguageAt(i) # LanguageAt(k)
    BY DEF InstallInv, InLine
  <2> QED
    BY <1>3, <1>4, <2>1
<1>11. Driven'
  <2>1. ASSUME NEW j \in 1..MaxJobs, j \in 1..n
        PROVE  /\ jobs'[j].package = jobs[j].package
               /\ jobs[j].at \in {"installing", "cancelled"} => jobs'[j].at \in {"installing", "cancelled"}
    BY <1>3, <1>4, <2>1 DEF Live
  <2>2. \A j \in 1..MaxJobs : j <= n => j \in 1..n
    BY <1>2
  <2>3. \A j \in 1..MaxJobs : thread[j].at = "idle" \/ j <= n
    BY DEF InstallInv, Driven
  <2>4. \A j \in 1..MaxJobs : thread[j].at \in Working => thread[j].packages = {jobs'[j].package}
    BY <2>1, <2>2, <2>3 DEF InstallInv, Driven, Working
  <2>5. \A j \in 1..MaxJobs : container[j].at = "running" => container[j].packages = {jobs'[j].package}
    BY <2>1, <2>2 DEF InstallInv, Driven
  <2> QED
    BY <1>1, <1>5, <2>1, <2>2, <2>4, <2>5 DEF InstallInv, Driven
<1>12. Stamped'
  BY <1>1, <1>4, <1>5 DEF InstallInv, Stamped, Ended
<1>13. Covered' /\ ReadyMeansCached'
  <2>1. \A r \in Requests : request'[r].at # "waiting" /\ (request'[r].at = "ready" => request[r].at = "ready")
    BY <1>1
  <2> QED
    BY <1>1, <2>1 DEF InstallInv, Covered, ReadyMeansCached
<1>14. DroppedFor'
  <2>1. ASSUME NEW r \in Requests, request'[r].at = "dropped"
        PROVE  \E j \in 1..n : jobs'[j].at = "stillborn" /\ jobs'[j].package \in Imports[r]
    <3>1. request[r].at = "dropped"
      BY <1>1, <2>1
    <3>2. PICK j \in 1..n : jobs[j].at = "stillborn" /\ jobs[j].package \in Imports[r]
      BY <3>1 DEF InstallInv, DroppedFor
    <3>3. j \notin Live
      BY <3>2 DEF Live
    <3> QED
      BY <1>3, <1>4, <3>2, <3>3
  <2> QED
    BY <1>5, <2>1 DEF DroppedFor
<1>15. Counted'
  BY <1>1 DEF InstallInv, Counted, Holders
<1> QED
  BY <1>8, <1>9, <1>10, <1>11, <1>12, <1>13, <1>14, <1>15 DEF InstallInv

LEMMA EnsureKeeps ==
  ASSUME InstallInv, NEW r \in Requests, Ensure(r)
  PROVE  InstallInv'
<1> DEFINE needs == Imports[r]
           job == Missing(needs).job
           join == Missing(needs).join
           n == Cardinality(job)
           L == Len(jobs)
<1>1. needs \subseteq Packages /\ IsFiniteSet(needs)
  BY ImportsAre
<1>2. /\ job \subseteq needs /\ join \subseteq needs /\ job \cap join = {}
      /\ \A p \in job : inflight[p] = 0
      /\ \A p \in join : inflight[p] # 0
      /\ \A p \in needs : p \in known \cup markers \cup job \cup join
  BY DEF Missing
<1>3. PICK order \in Orders(job) :
        /\ jobs' = jobs \o [i \in DOMAIN order |-> [package |-> order[i], at |-> "created"]]
        /\ inflight' = [p \in Packages |->
             IF p \in job THEN [i \in DOMAIN order |-> L + i][CHOOSE i \in DOMAIN order : order[i] = p]
             ELSE inflight[p]]
        /\ request' = [request EXCEPT ![r] =
             IF job \cup join = {}
             THEN [at |-> "ready"]
             ELSE [at |-> "waiting",
                   jobs |-> {inflight[p] : p \in join}
                     \cup {[i \in DOMAIN order |-> L + i][k] : k \in DOMAIN [i \in DOMAIN order |-> L + i]}]]
  BY DEF Ensure
<1>4. /\ request[r].at = "new" /\ L + n <= MaxJobs
      /\ known' = known \cup (needs \cap markers)
      /\ UNCHANGED <<losses, semaphore, thread, container, prewarm, markers>>
  BY DEF Ensure, threadVars
<1> HIDE DEF needs, job, join
<1>5. /\ n \in Nat /\ order \in [1..n -> job]
      /\ \A i, k \in 1..n : order[i] = order[k] => i = k
      /\ \A p \in job : \E i \in 1..n : order[i] = p
  <2>1. IsFiniteSet(job)
    BY <1>1, <1>2, FS_Subset
  <2> QED
    BY <2>1, OrdersAre
<1> HIDE DEF n
<1>6. L \in Nat /\ jobs \in Seq(Job) /\ L <= MaxJobs /\ MaxJobs \in Nat
  BY Numbers DEF InstallInv, Typed
<1> DEFINE new == [i \in 1..n |-> [package |-> order[i], at |-> "created"]]
<1>7. /\ jobs' \in Seq(Job) /\ Len(jobs') = L + n
      /\ \A i \in 1..L : jobs'[i] = jobs[i]
      /\ \A i \in 1..n : jobs'[L + i].package = order[i] /\ jobs'[L + i].at = "created"
  <2>1. jobs' = jobs \o new
    BY <1>3, <1>5
  <2>2. \A i \in 1..n : new[i] \in Job /\ new[i].package = order[i] /\ new[i].at = "created"
    BY <1>1, <1>2, <1>5 DEF Job
  <2>3. new \in Seq(Job) /\ Len(new) = n
    <3>1. new \in [1..n -> Job]
      BY <2>2
    <3> QED
      BY <1>5, <3>1
  <2> HIDE DEF new
  <2>4. /\ jobs \o new \in Seq(Job) /\ Len(jobs \o new) = L + n
        /\ \A i \in 1..L + n : (jobs \o new)[i] = IF i <= L THEN jobs[i] ELSE new[i - L]
    BY <1>6, <2>3, ConcatProperties
  <2>5. \A i \in 1..n : L + i \in 1..L + n /\ ~(L + i <= L) /\ (L + i) - L = i
    BY <1>5, <1>6
  <2>6. \A i \in 1..L : i \in 1..L + n /\ i <= L
    BY <1>5, <1>6
  <2>7. \A i \in 1..n : (jobs \o new)[L + i] = new[i]
    BY <2>4, <2>5
  <2> HIDE DEF L
  <2> QED
    BY <2>1, <2>2, <2>4, <2>6, <2>7
<1>9. /\ inflight' \in [Packages -> Nat] /\ inflight \in [Packages -> Nat]
      /\ \A p \in Packages \ job : inflight'[p] = inflight[p]
      /\ \A i \in 1..n : inflight'[order[i]] = L + i
  <2>1. inflight \in [Packages -> Nat]
    BY DEF InstallInv, Typed
  <2>2. \A p \in Packages \ job : inflight'[p] = inflight[p]
    BY <1>3
  <2>3. ASSUME NEW i \in 1..n PROVE inflight'[order[i]] = L + i
    <3>1. order[i] \in job /\ order[i] \in Packages
      BY <1>1, <1>2, <1>5
    <3>2. (CHOOSE k \in DOMAIN order : order[k] = order[i]) = i
      BY <1>5
    <3> QED
      BY <1>3, <1>5, <3>1, <3>2
  <2>4. \A p \in Packages : inflight'[p] \in Nat
    <3> SUFFICES ASSUME NEW p \in Packages PROVE inflight'[p] \in Nat
      OBVIOUS
    <3>1. CASE p \in job
      <4>1. PICK i \in 1..n : order[i] = p
        BY <1>5, <3>1
      <4> QED
        BY <1>5, <1>6, <2>3, <4>1
    <3>2. CASE p \notin job
      BY <2>1, <2>2, <3>2
    <3> QED
      BY <3>1, <3>2
  <2>5. inflight' \in [Packages -> Nat]
    BY <1>3, <2>4
  <2> QED
    BY <2>1, <2>2, <2>3, <2>5
<1> DEFINE awaited == {inflight[p] : p \in join} \cup {L + i : i \in 1..n}
<1>10. \/ job \cup join = {} /\ request' = [request EXCEPT ![r] = [at |-> "ready"]]
       \/ request' = [request EXCEPT ![r] = [at |-> "waiting", jobs |-> awaited]]
  <2>1. {[i \in DOMAIN order |-> L + i][k] : k \in DOMAIN [i \in DOMAIN order |-> L + i]} = {L + i : i \in 1..n}
    BY <1>5
  <2> QED
    BY <1>3, <2>1
<1>11. awaited \subseteq 1..L + n /\ awaited \subseteq Nat
  <2>1. \A p \in join : inflight[p] \in 1..L
    BY <1>1, <1>2 DEF InstallInv, Listed
  <2>2. \A p \in join : inflight[p] \in 1..L + n /\ inflight[p] \in Nat
    BY <1>5, <1>6, <2>1
  <2>3. \A i \in 1..n : L + i \in 1..L + n /\ L + i \in Nat
    BY <1>5, <1>6
  <2> QED
    BY <2>2, <2>3
<1>12. \A j \in 1..L + n : j \in 1..L \/ \E i \in 1..n : j = L + i
  <2> SUFFICES ASSUME NEW j \in 1..L + n, j \notin 1..L PROVE \E i \in 1..n : j = L + i
    OBVIOUS
  <2>1. j - L \in 1..n /\ j = L + (j - L)
    BY <1>5, <1>6
  <2> QED
    BY <2>1
<1>13. \A i \in 1..n : L + i \in 1..L + n /\ L + i \notin 1..L /\ L + i \in 1..MaxJobs /\ L + i # 0
  BY <1>4, <1>5, <1>6
<1>14. \A j \in 1..L : j \in 1..L + n
  BY <1>5, <1>6
<1> HIDE DEF L, new, awaited
<1>15. Typed'
  <2>1. request' \in [Requests -> RequestState]
    <3>1. [at |-> "ready"] \in RequestState /\ [at |-> "waiting", jobs |-> awaited] \in RequestState
      BY <1>11 DEF RequestState
    <3> QED
      BY <1>10, <3>1 DEF InstallInv, Typed
  <2>2. known' \subseteq markers' /\ markers' \subseteq Packages
    BY <1>4 DEF InstallInv, Typed
  <2> QED
    BY <1>4, <1>7, <1>9, <2>1, <2>2 DEF InstallInv, Typed
<1>16. ASSUME NEW j \in 1..L + n
       PROVE  /\ j \in 1..L => /\ jobs'[j] = jobs[j] /\ (j \in Live' <=> j \in Live)
                               /\ LanguageAt(j)' = LanguageAt(j)
              /\ j \notin 1..L => /\ jobs'[j].at = "created" /\ j \in Live'
                                  /\ jobs'[j].package \in job /\ inflight'[jobs'[j].package] = j
                                  /\ \E i \in 1..n : j = L + i
  <2>1. CASE j \in 1..L
    BY <1>7, <1>14, <2>1 DEF Live, LanguageAt, L
  <2>2. CASE j \notin 1..L
    <3>1. PICK i \in 1..n : j = L + i
      BY <1>12, <2>2
    <3>2. /\ jobs'[j].package = order[i] /\ jobs'[j].at = "created" /\ order[i] \in job
          /\ inflight'[order[i]] = j
      BY <1>1, <1>2, <1>5, <1>7, <1>9, <3>1
    <3>3. j \in Live'
      BY <1>7, <3>2 DEF Live
    <3> QED
      BY <2>2, <3>1, <3>2, <3>3
  <2> QED
    BY <2>1, <2>2
<1>17. Listed'
  <2>1. ASSUME NEW p \in Packages, inflight'[p] # 0
        PROVE  /\ inflight'[p] \in 1..L + n /\ jobs'[inflight'[p]].package = p
               /\ inflight'[p] \in Live' \/ jobs'[inflight'[p]].at = "stillborn"
    <3>1. CASE p \in job
      <4>1. PICK i \in 1..n : order[i] = p
        BY <1>5, <3>1
      <4>2. inflight'[p] = L + i /\ jobs'[L + i].package = p
        BY <1>7, <1>9, <4>1
      <4>3. L + i \in 1..L + n /\ L + i \in Live'
        BY <1>13, <1>16
      <4> QED
        BY <4>2, <4>3
    <3>2. CASE p \notin job
      <4>1. inflight'[p] = inflight[p]
        BY <1>9, <3>2
      <4>2. PICK j \in 1..L : j = inflight[p] /\ jobs[j].package = p /\ (j \in Live \/ jobs[j].at = "stillborn")
        BY <2>1, <4>1 DEF InstallInv, Listed, L
      <4>3. jobs'[j] = jobs[j] /\ (j \in Live' <=> j \in Live)
        BY <1>14, <1>16, <4>2
      <4> QED
        BY <1>14, <4>1, <4>2, <4>3
    <3> QED
      BY <3>1, <3>2
  <2>2. ASSUME NEW j \in 1..L + n, j \in Live'
        PROVE  inflight'[jobs'[j].package] = j
    <3>1. CASE j \in 1..L
      <4>1. jobs'[j] = jobs[j] /\ j \in Live /\ jobs[j].package \in Packages
        BY <1>16, <2>2, <3>1, JobsAre DEF InstallInv, L
      <4>2. inflight[jobs[j].package] = j /\ j # 0
        BY <1>6, <3>1, <4>1 DEF InstallInv, Listed, L
      <4>3. jobs[j].package \notin job
        BY <1>2, <4>2
      <4> QED
        BY <1>9, <4>1, <4>2, <4>3
    <3>2. CASE j \notin 1..L
      BY <1>16, <3>2
    <3> QED
      BY <3>1, <3>2
  <2>3. \A j \in Live' : j \in 1..L + n
    BY <1>7 DEF Live
  <2> QED
    BY <1>7, <2>1, <2>2, <2>3 DEF Listed
<1>18. InLine'
  <2> SUFFICES ASSUME NEW i \in 1..L + n, NEW k \in 1..L + n, i < k
               PROVE  /\ jobs'[i].at = "created" => jobs'[k].at \in {"created", "stillborn"}
                      /\ jobs'[i].at \in {"queued", "installing"} /\ jobs'[k].at = "installing"
                           => LanguageAt(i)' # LanguageAt(k)'
    BY <1>7 DEF InLine
  <2>1. CASE k \in 1..L
    <3>1. i \in 1..L
      BY <1>6, <2>1
    <3>2. /\ jobs[i].at = "created" => jobs[k].at \in {"created", "stillborn"}
          /\ jobs[i].at \in {"queued", "installing"} /\ jobs[k].at = "installing" => LanguageAt(i) # LanguageAt(k)
      BY <2>1, <3>1 DEF InstallInv, InLine, L
    <3> QED
      BY <1>16, <2>1, <3>1, <3>2
  <2>2. CASE k \notin 1..L
    BY <1>16, <2>2
  <2> QED
    BY <2>1, <2>2
<1>19. Driven'
  <2>1. ASSUME NEW j \in 1..MaxJobs
        PROVE  /\ thread[j].at # "idle" => j <= L + n /\ jobs'[j].at \in {"installing", "cancelled"}
               /\ thread[j].at \in Working => thread[j].packages = {jobs'[j].package}
               /\ container[j].at # "none" => j <= L + n
               /\ container[j].at = "running" => container[j].packages = {jobs'[j].package}
    <3>1. CASE j \in 1..L
      <4>1. jobs'[j] = jobs[j] /\ j <= L /\ j <= L + n
        BY <1>5, <1>6, <1>7, <3>1
      <4> QED
        BY <4>1 DEF InstallInv, Driven, L
    <3>2. CASE j \notin 1..L
      <4>1. ~(j <= L)
        BY <1>6, <3>2
      <4>2. thread[j].at = "idle" /\ container[j].at = "none"
        BY <4>1 DEF InstallInv, Driven, L
      <4> QED
        BY <4>2 DEF Working
    <3> QED
      BY <3>1, <3>2
  <2> QED
    BY <1>4, <1>7, <2>1 DEF InstallInv, Driven
<1>20. Stamped'
  <2>1. ASSUME NEW j \in 1..L + n
        PROVE  /\ jobs'[j].at = "finished" => jobs'[j].package \in markers
               /\ Ended(j) /\ thread[j].ok => jobs'[j].package \in markers
               /\ container[j].at = "exited" /\ container[j].ok => jobs'[j].package \in markers
    <3>1. CASE j \in 1..L
      BY <1>7, <3>1 DEF InstallInv, Stamped, L
    <3>2. CASE j \notin 1..L
      <4>1. j \in 1..MaxJobs /\ ~(j <= L)
        BY <1>4, <1>5, <1>6, <3>2
      <4>2. thread[j].at = "idle" /\ container[j].at = "none"
        BY <4>1 DEF InstallInv, Driven, L
      <4>3. jobs'[j].at = "created"
        BY <1>16, <3>2
      <4> QED
        BY <4>2, <4>3 DEF Ended
    <3> QED
      BY <3>1, <3>2
  <2> QED
    BY <1>4, <1>7, <2>1 DEF Stamped, Ended
<1>21. Covered'
  <2>1. ASSUME NEW x \in Requests, request'[x].at = "waiting"
        PROVE  /\ \A j \in request'[x].jobs : j \in 1..L + n /\ jobs'[j].package \in Imports[x]
               /\ \A p \in Imports[x] : p \in markers \/ \E j \in request'[x].jobs : jobs'[j].package = p
    <3>1. CASE x # r
      <4>1. request'[x] = request[x]
        BY <1>10, <3>1 DEF InstallInv, Typed
      <4>2. /\ \A j \in request[x].jobs : j \in 1..L /\ jobs[j].package \in Imports[x]
            /\ \A p \in Imports[x] : p \in markers \/ \E j \in request[x].jobs : jobs[j].package = p
        BY <2>1, <4>1 DEF InstallInv, Covered, L
      <4> QED
        BY <1>7, <1>14, <4>1, <4>2
    <3>2. CASE x = r
      <4>1. request'[x] = [at |-> "waiting", jobs |-> awaited]
        BY <1>10, <2>1, <3>2 DEF InstallInv, Typed
      <4>2. request'[x].jobs = awaited
        BY <4>1
      <4>3. ASSUME NEW p \in needs, p \notin markers
            PROVE  \E j \in awaited : jobs'[j].package = p
        <5>1. p \in job \/ p \in join
          BY <1>2, <4>3 DEF InstallInv, Typed
        <5>2. CASE p \in job
          <6>1. PICK i \in 1..n : order[i] = p
            BY <1>5, <5>2
          <6>2. L + i \in awaited /\ jobs'[L + i].package = p
            BY <1>7, <6>1 DEF awaited
          <6> QED
            BY <6>2
        <5>3. CASE p \in join
          <6>1. inflight[p] \in awaited /\ inflight[p] # 0 /\ p \in Packages
            BY <1>1, <1>2, <5>3 DEF awaited
          <6>2. inflight[p] \in 1..L /\ jobs[inflight[p]].package = p
            BY <6>1 DEF InstallInv, Listed, L
          <6> QED
            BY <1>7, <6>1, <6>2
        <5> QED
          BY <5>1, <5>2, <5>3
      <4>4. ASSUME NEW j \in awaited
            PROVE  j \in 1..L + n /\ jobs'[j].package \in needs
        <5>1. CASE \E i \in 1..n : j = L + i
          BY <1>2, <1>5, <1>7, <1>13, <5>1
        <5>2. CASE \E p \in join : j = inflight[p]
          <6>1. PICK p \in join : j = inflight[p]
            BY <5>2
          <6>2. j \in 1..L /\ jobs[j].package = p /\ p \in needs
            BY <1>1, <1>2, <6>1 DEF InstallInv, Listed, L
          <6> QED
            BY <1>7, <1>14, <6>2
        <5> QED
          BY <4>4, <5>1, <5>2 DEF awaited
      <4> QED
        BY <3>2, <4>2, <4>3, <4>4 DEF needs
    <3> QED
      BY <3>1, <3>2
  <2> QED
    BY <1>4, <1>7, <2>1 DEF Covered
<1>22. ReadyMeansCached'
  <2>1. ASSUME NEW x \in Requests, request'[x].at = "ready"
        PROVE  Imports[x] \subseteq markers
    <3>1. CASE x # r
      <4>1. request'[x] = request[x]
        BY <1>10, <3>1 DEF InstallInv, Typed
      <4> QED
        BY <2>1, <4>1 DEF InstallInv, ReadyMeansCached
    <3>2. CASE x = r
      <4>1. job \cup join = {}
        BY <1>10, <2>1, <3>2 DEF InstallInv, Typed
      <4> QED
        BY <1>2, <3>2, <4>1 DEF InstallInv, Typed, needs
    <3> QED
      BY <3>1, <3>2
  <2> QED
    BY <1>4, <2>1 DEF ReadyMeansCached
<1>23. DroppedFor'
  <2>1. ASSUME NEW x \in Requests, request'[x].at = "dropped"
        PROVE  \E j \in 1..L + n : jobs'[j].at = "stillborn" /\ jobs'[j].package \in Imports[x]
    <3>1. request[x].at = "dropped"
      BY <1>10, <2>1 DEF InstallInv, Typed
    <3>2. PICK j \in 1..L : jobs[j].at = "stillborn" /\ jobs[j].package \in Imports[x]
      BY <3>1 DEF InstallInv, DroppedFor, L
    <3> QED
      BY <1>7, <1>14, <3>2
  <2> QED
    BY <1>7, <2>1 DEF DroppedFor
<1>24. Counted'
  BY <1>4 DEF InstallInv, Counted, Holders
<1> QED
  BY <1>15, <1>17, <1>18, <1>19, <1>20, <1>21, <1>22, <1>23, <1>24 DEF InstallInv

----------------------------------------------------------------------------
(* The theorems *)

LEMMA InstallStep == InstallInv /\ [Next]_vars => InstallInv'
<1> SUFFICES ASSUME InstallInv, [Next]_vars PROVE InstallInv'
  OBVIOUS
<1>1. ASSUME NEW r \in Requests, Gather(r) \/ Ensure(r) PROVE InstallInv'
  BY <1>1, GatherKeeps, EnsureKeeps
<1>2. ASSUME NEW j \in 1..MaxJobs, Begin(j) \/ Submit(j) \/ Finish(j) PROVE InstallInv'
  BY <1>2, BeginKeeps, SubmitKeeps, FinishKeeps
<1>3. ASSUME NEW t \in Threads, Install(t) \/ Chown(t) \/ Exit(t) PROVE InstallInv'
  BY <1>3, AcquireKeeps, StartKeeps, LaunchKeeps, WaitKeeps, TimeOutKeeps, ReleaseKeeps, CleanupKeeps, ExitKeeps
     DEF Install
<1>4. CASE PrewarmNext \/ PrewarmDone \/ LoseConnection
  BY <1>4, PrewarmKeeps, LossKeeps
<1>5. CASE UNCHANGED vars
  <2>1. UNCHANGED <<request, jobs, inflight, known, losses, semaphore, thread, container, prewarm, markers>>
    BY <1>5 DEF vars, queueVars, threadVars
  <2> QED
    <3>1. Typed' /\ Driven'
      BY <2>1 DEF InstallInv, Typed, Driven
    <3>2. Stamped' /\ Counted'
      BY <2>1 DEF InstallInv, Stamped, Ended, Counted, Holders
    <3>3. Listed' /\ InLine' /\ Covered' /\ DroppedFor' /\ ReadyMeansCached'
      BY <2>1, QueueUntouched DEF queueVars
    <3> QED
      BY <3>1, <3>2, <3>3 DEF InstallInv
<1> QED
  BY <1>1, <1>2, <1>3, <1>4, <1>5 DEF Next

LEMMA InstallAlways == Spec => []InstallInv
BY InstallInit, InstallStep, PTL DEF Spec

\* "thirty students importing numpy at once produce one install job" (ensure
\* and _install of InstallQueue): the table of running installs lists a live
\* job for a package whenever there is one, and beside that only futures that
\* were cancelled before they began; no run is dropped but for one of these.
THEOREM JobsAreSound == Spec => []JobsSound
<1>1. InstallInv => TypeOK
  <2> SUFFICES ASSUME InstallInv PROVE TypeOK
    OBVIOUS
  <2>1. \A r \in Requests : request[r].at \in {"new", "ready", "waiting", "failed", "dropped"}
    BY DEF InstallInv, Typed, RequestState
  <2>2. \A p \in Packages : inflight[p] \in 0..Len(jobs)
    BY Numbers DEF InstallInv, Typed, Listed
  <2>3. semaphore \in 0..Concurrency
    BY HoldersFinite, Numbers DEF InstallInv, Counted
  <2>4. \A t \in Threads : container[t].at \in {"none", "running", "exited"}
    BY DEF InstallInv, Typed, ContainerState
  <2>5. losses <= MaxLosses
    BY Numbers DEF InstallInv, Typed
  <2> QED
    BY <2>1, <2>2, <2>3, <2>4, <2>5 DEF InstallInv, Typed, TypeOK
<1>2. InstallInv => OneJobEach
  BY DEF InstallInv, Listed, OneJobEach
<1>3. InstallInv => \A p \in Packages :
        inflight[p] # 0 /\ inflight[p] \notin Live => jobs[inflight[p]].at = "stillborn"
  BY DEF InstallInv, Listed
<1>4. InstallInv => JobsSound
  BY <1>1, <1>2, <1>3 DEF JobsSound, InstallInv, DroppedFor
<1> QED
  BY <1>4, InstallAlways, PTL

\* "a per-language lock ensures two installers never write the same volume
\* concurrently", of the live jobs and the installers Docker has not lost hold
\* of; and those, with the ones of cancelled jobs and of the start-up task, are
\* never more than INSTALL_LIMITS["concurrency"] (_install, install_packages).
THEOREM WritersAreBounded == Spec => []WritersBounded
<1>1. InstallInv => \A t, u \in Kept : Volume(t) = Volume(u) => t = u
  <2> SUFFICES ASSUME InstallInv, NEW t \in Kept, NEW u \in Kept, Volume(t) = Volume(u)
               PROVE  t = u
    OBVIOUS
  <2>1. ASSUME NEW x \in Kept
        PROVE  x \in 1..Len(jobs) /\ jobs[x].at = "installing" /\ Volume(x) = LanguageAt(x)
    <3>1. /\ x \in 1..MaxJobs /\ container[x].at = "running" /\ ~container[x].lost
          /\ x \in Threads /\ jobs[x].at # "cancelled"
      BY Numbers DEF Kept, Held, Writing, Threads, Prewarmer
    <3>2. x \in 1..Len(jobs) /\ container[x].packages = {jobs[x].package}
      BY <3>1, Numbers DEF InstallInv, Driven
    <3>3. thread[x].at = "wait"
      BY <3>1 DEF InstallInv, Driven
    <3>4. jobs[x].at = "installing"
      BY <3>1, <3>3 DEF InstallInv, Driven
    <3>5. Volume(x) = LanguageAt(x)
      BY <3>2 DEF Volume, LanguageAt
    <3> QED
      BY <3>2, <3>4, <3>5
  <2>2. \A i, j \in 1..Len(jobs) : i < j /\ jobs[i].at = "installing" /\ jobs[j].at = "installing"
          => LanguageAt(i) # LanguageAt(j)
    BY DEF InstallInv, InLine
  <2>3. t \in Int /\ u \in Int /\ ~(t < u) /\ ~(u < t)
    BY <2>1, <2>2
  <2> QED
    BY <2>3
<1>2. InstallInv => Cardinality(Held) <= Concurrency
  <2> SUFFICES ASSUME InstallInv PROVE Cardinality(Held) <= Concurrency
    OBVIOUS
  <2>1. Held \subseteq Holders
    BY DEF Held, Writing, Holders, InstallInv, Driven
  <2>2. IsFiniteSet(Held) /\ Cardinality(Held) <= Cardinality(Holders) /\ Cardinality(Held) \in Nat
    BY <2>1, HoldersFinite, FS_Subset, FS_CardinalityType
  <2> QED
    BY <2>2, HoldersFinite, Numbers DEF InstallInv, Counted
<1>3. InstallInv => WritersBounded
  BY <1>1, <1>2 DEF WritersBounded
<1> QED
  BY <1>3, InstallAlways, PTL

\* "Block until every package is in the cache" (ensure): whoever installed a
\* package, and whatever failed, was cancelled or was lost beside it.
THEOREM ReadyRunsAreCached == Spec => []ReadyMeansCached
BY InstallAlways, PTL DEF InstallInv
=============================================================================
