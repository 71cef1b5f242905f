----------------------------- MODULE Lifecycle -----------------------------
(***************************************************************************)
(* One emu process from its start to its end: the fleet of emulators, the  *)
(* supervisor of a child, and what is told of it.  `emu run` supervises    *)
(* one child and dumps the op log when it has exited; `emu dev` serves a   *)
(* dashboard whose Runner supervises one child at a time and keeps what    *)
(* the child writes.  Both use one supervisor; each child may start a      *)
(* process of its own that outlives it.                                    *)
(***************************************************************************)
EXTENDS Naturals, Sequences, FiniteSets, SequencesExt

CONSTANTS
  Service,      \* the services the lesson declares, in this order
  SignalBuffer, \* how many signals the supervisor's channel holds
  OutputLimit,  \* how much output the dashboard keeps
  MaxRuns,      \* bound: commands the dashboard is asked to run
  MaxWrites,    \* bound: what one child writes
  MaxSignals,   \* bound: SIGTERMs or SIGINTs sent to emu, in each mode
  MaxOps        \* bound: operations the child sends the emulators

ASSUME LifecycleAssumption ==
  /\ Service \in Seq(STRING) /\ SignalBuffer \in Nat \ {0} /\ OutputLimit \in Nat

VARIABLES
  mode,    \* "run" or "dev"
  stage,   \* "starting", "closing", "failed", "serving" or "over"
  fleet,   \* the services added, the backends and listeners Close knows of
  world,   \* the backends and listeners that are open
  runs,    \* one record for each child asked for
  bits,    \* the signals pending in the Go runtime, once each
  signals, \* how many SIGTERMs or SIGINTs emu was sent
  missed,  \* whether a SIGCHLD found a channel full
  pressed, \* whether the channel of waitForInterrupt holds a signal
  runner,  \* the dashboard's account of its child
  output,  \* what the dashboard holds of what children wrote
  notes,   \* the runs whose last line is still to be written
  stop,    \* the run whose group Stop is about to signal, 0 for none
  ops      \* operations on the wire, the log, what the child saw, the dump

vars == <<mode, stage, fleet, world, runs, bits, signals, missed, pressed, runner, output, notes, stop, ops>>
others == <<mode, fleet, world>>
quiet == <<bits, signals, missed, pressed>>

Stream == {"stdout", "stderr"}
NoDump == 1000

----------------------------------------------------------------------------
(* Fleet                                                                    *)

\* Close: whatever was added is given back.
CloseAll == world' = [backends |-> world.backends \ fleet.backends,
                      listeners |-> world.listeners \ fleet.listeners]

\* add: the backend is on the list before it is seeded, the listener once
\* the port is taken.  A failure of any step closes what was started.
ListedOnceBound(service, bound) ==
  IF bound THEN [fleet EXCEPT !.added = @ + 1, !.backends = @ \cup {service},
                              !.listeners = @ \cup {service}]
  ELSE [fleet EXCEPT !.added = @ + 1]
Listed(service, bound) ==
  [fleet EXCEPT !.added = @ + 1, !.backends = @ \cup {service},
                !.listeners = IF bound THEN @ \cup {service} ELSE @]
Add ==
  LET service == Service[fleet.added + 1]
  IN /\ stage = "starting" /\ fleet.added < Len(Service)
     /\ \E step \in {"build", "seed", "bind", "none"} :
          /\ fleet' = IF step = "build" THEN [fleet EXCEPT !.added = @ + 1]
                      ELSE Listed(service, step = "none")
          /\ world' = [backends |-> IF step = "build" THEN world.backends
                                    ELSE world.backends \cup {service},
                       listeners |-> IF step = "none" THEN world.listeners \cup {service}
                                     ELSE world.listeners]
          /\ stage' = IF step = "none" THEN stage ELSE "closing"
     /\ UNCHANGED <<mode, runs, quiet, runner, output, notes, stop, ops>>

Teardown ==
  /\ stage = "closing" /\ stage' = "failed" /\ CloseAll
  /\ UNCHANGED <<mode, fleet, runs, quiet, runner, output, notes, stop, ops>>

----------------------------------------------------------------------------
(* The supervisor.  sup is where the run is: "claimed", "noted" (dev only), *)
(* "ready", "registered", "spawned", "loop", "returned", "finished".          *)

NewRun(sup) ==
  [sup |-> sup, child |-> "none", grand |-> "none", told |-> FALSE, status |-> "none",
   code |-> "none", queue |-> <<>>, unread |-> [s \in Stream |-> 0], written |-> 0]
Run == DOMAIN runs
At(g, sup) == stage = "serving" /\ runs[g].sup = sup
To(g, sup) == runs' = [runs EXCEPT ![g].sup = sup]

\* The main goroutine of `emu run` goes on to its one child.
Serve ==
  /\ stage = "starting" /\ fleet.added = Len(Service) /\ stage' = "serving"
  /\ runs' = IF mode = "run" THEN <<NewRun("ready")>> ELSE runs
  /\ UNCHANGED <<others, quiet, runner, output, notes, stop, ops>>

\* The control socket or the dashboard cannot be had: the deferred Close.
Unserved ==
  /\ stage = "starting" /\ fleet.added = Len(Service) /\ stage' = "closing"
  /\ UNCHANGED <<others, runs, quiet, runner, output, notes, stop, ops>>

\* signal.Notify: before the child exists.
Listening(g) == runs[g].sup \in {"registered", "spawned", "loop"}
Register(g) ==
  /\ At(g, "ready") /\ To(g, "registered")
  /\ UNCHANGED <<stage, others, quiet, runner, output, notes, stop, ops>>

Spawn(g) ==
  /\ At(g, "registered")
  /\ \/ runs' = [runs EXCEPT ![g].sup = "spawned", ![g].child = "running"]
     \/ runs' = [runs EXCEPT ![g].sup = "returned", ![g].code = "unstarted", ![g].status = "unstarted"]
  /\ UNCHANGED <<stage, others, quiet, runner, output, notes, stop, ops>>

\* Started: the dashboard's runner is told of the process.
Track(g) ==
  /\ At(g, "spawned") /\ To(g, "loop")
  /\ runner' = IF mode = "dev" THEN [runner EXCEPT !.process = g] ELSE runner
  /\ UNCHANGED <<stage, others, quiet, output, notes, stop, ops>>

Room(g) == Len(runs[g].queue) < SignalBuffer

\* The runtime hands a pending signal to every channel that has room: those of
\* the supervisors and, for what ends `emu dev`, that of waitForInterrupt.
Deliver(sig) ==
  /\ stage = "serving" /\ sig \in bits /\ bits' = bits \ {sig}
  /\ runs' = [g \in Run |-> IF Listening(g) /\ Room(g)
                            THEN [runs[g] EXCEPT !.queue = Append(@, sig)] ELSE runs[g]]
  /\ missed' = (missed \/ (sig = "CHLD" /\ \E g \in Run : Listening(g) /\ ~Room(g)))
  /\ pressed' = (pressed \/ (mode = "dev" /\ sig = "TERM"))
  /\ UNCHANGED <<stage, others, signals, runner, output, notes, stop, ops>>

\* A signal that is not SIGCHLD goes to the child.
Forward(g) ==
  /\ At(g, "loop") /\ runs[g].queue # <<>> /\ Head(runs[g].queue) # "CHLD"
  /\ runs' = [runs EXCEPT ![g].queue = Tail(@),
                          ![g].told = @ \/ runs[g].child = "running"]
  /\ UNCHANGED <<stage, others, quiet, runner, output, notes, stop, ops>>

\* reap: every status that is pending, whoever's child it was.
Reaped(r) == [r EXCEPT !.child = IF @ = "zombie" THEN "gone" ELSE @,
                       !.grand = IF @ = "zombie" THEN "gone" ELSE @]
Reap(g) ==
  /\ At(g, "loop") /\ runs[g].queue # <<>> /\ Head(runs[g].queue) = "CHLD"
  /\ runs' = [h \in Run |->
                IF h # g THEN Reaped(runs[h])
                ELSE [Reaped(runs[g]) EXCEPT !.queue = Tail(@),
                        !.sup = IF runs[g].child = "zombie" THEN "returned" ELSE @,
                        !.code = IF runs[g].child = "zombie" THEN runs[g].status ELSE @]]
  /\ UNCHANGED <<stage, others, quiet, runner, output, notes, stop, ops>>

----------------------------------------------------------------------------
(* The processes                                                            *)

Alive(p) == p = "running"
Fork(g) ==
  /\ stage = "serving" /\ Alive(runs[g].child) /\ ~runs[g].told /\ runs[g].grand = "none"
  /\ runs' = [runs EXCEPT ![g].grand = "running"]
  /\ UNCHANGED <<stage, others, quiet, runner, output, notes, stop, ops>>

Writes(g) ==
  /\ mode = "dev" /\ stage = "serving" /\ runs[g].written < MaxWrites
  /\ Alive(runs[g].child) \/ Alive(runs[g].grand)
  /\ \E s \in Stream :
       runs' = [runs EXCEPT ![g].unread[s] = @ + 1, ![g].written = @ + 1]
  /\ UNCHANGED <<stage, others, quiet, runner, output, notes, stop, ops>>

\* A child ends by itself, or because it was told to; emu is its parent.
Exit(g, status) ==
  /\ stage = "serving" /\ Alive(runs[g].child) /\ (status = "term") = runs[g].told
  /\ runs' = [runs EXCEPT ![g].child = "zombie", ![g].status = status]
  /\ bits' = bits \cup {"CHLD"}
  /\ UNCHANGED <<stage, others, signals, missed, pressed, runner, output, notes, stop, ops>>

\* What the child started ends when its group is told; and an orphan, whose
\* parent emu is as PID 1, when it likes.
GrandExit(g) ==
  /\ stage = "serving"
  /\ \/ mode = "dev" /\ runs[g].grand = "told" /\ bits' = bits
        /\ runs' = [runs EXCEPT ![g].grand = "gone"]
     \/ /\ mode = "run" /\ Alive(runs[g].grand) /\ ~Alive(runs[g].child)
        /\ bits' = bits \cup {"CHLD"} /\ runs' = [runs EXCEPT ![g].grand = "zombie"]
  /\ UNCHANGED <<stage, others, signals, missed, pressed, runner, output, notes, stop, ops>>

\* emu itself is told to end.  A supervisor passes it on to its child, in both
\* modes; in `emu dev` it is also what waitForInterrupt waits for.
Kill ==
  /\ stage = "serving" /\ (mode = "run" => Listening(1)) /\ signals < MaxSignals[mode]
  /\ signals' = signals + 1 /\ bits' = bits \cup {"TERM"}
  /\ UNCHANGED <<stage, others, runs, missed, pressed, runner, output, notes, stop, ops>>

----------------------------------------------------------------------------
(* The dashboard's runner                                                   *)

\* append: a numbered piece of output; the oldest go until the rest fits.
Weight(chunks) == FoldLeft(LAMBDA sum, c : sum + c[2], 0, chunks)
Fits(chunks) == Weight(chunks) <= OutputLimit \/ Len(chunks) = 1
Trim(o) ==
  LET k == CHOOSE k \in 0 .. Len(o.chunks) - 1 :
             /\ Fits(SubSeq(o.chunks, k + 1, Len(o.chunks)))
             /\ \A j \in 0 .. k - 1 : ~Fits(SubSeq(o.chunks, j + 1, Len(o.chunks)))
  IN [o EXCEPT !.chunks = SubSeq(@, k + 1, Len(@)), !.dropped = @ + k]
Adds(size) ==
  output' = Trim([output EXCEPT !.chunks = Append(@, <<output.next, size>>), !.next = @ + 1])

\* Start: claim, the command's own line, the pipes.
MayClaim == ~runner.running
Claim ==
  /\ mode = "dev" /\ stage = "serving" /\ Len(runs) < MaxRuns /\ MayClaim
  /\ runs' = Append(runs, NewRun("claimed"))
  /\ runner' = [runner EXCEPT !.running = TRUE, !.exited = FALSE, !.command = Len(runs) + 1]
  /\ UNCHANGED <<stage, others, quiet, output, notes, stop, ops>>

NoteStart(g) ==
  /\ At(g, "claimed") /\ To(g, "noted") /\ Adds(1)
  /\ UNCHANGED <<stage, others, quiet, runner, notes, stop, ops>>

\* finish: the run is over as far as the page is told.
Finished(code) == [runner EXCEPT !.running = FALSE, !.exited = TRUE, !.code = code, !.process = 0]

Capture(g) ==
  /\ At(g, "noted")
  /\ \/ To(g, "ready") /\ UNCHANGED <<runner, notes>>
     \/ /\ runs' = [runs EXCEPT ![g].sup = "finished", ![g].status = "unstarted"]
        /\ runner' = Finished("unstarted") /\ notes' = notes \cup {g}
  /\ UNCHANGED <<stage, others, quiet, output, stop, ops>>

\* drain: a pipe has ended when nobody is left to write to it.
Drain(g, s) ==
  /\ stage = "serving" /\ runs[g].unread[s] > 0 /\ Adds(2)
  /\ runs' = [runs EXCEPT ![g].unread[s] = @ - 1]
  /\ UNCHANGED <<stage, others, quiet, runner, notes, stop, ops>>
Drained(g) ==
  /\ \A s \in Stream : runs[g].unread[s] = 0
  /\ runs[g].child \notin {"running"} /\ runs[g].grand \notin {"running", "told"}

\* supervise: the writers are closed once Run is back, and the run finishes
\* once the pipes have ended; its last line comes after that.
Finish(g) ==
  /\ mode = "dev" /\ At(g, "returned") /\ Drained(g) /\ To(g, "finished")
  /\ runner' = Finished(runs[g].code) /\ notes' = notes \cup {g}
  /\ UNCHANGED <<stage, others, quiet, output, stop, ops>>

NoteExit(g) ==
  /\ stage = "serving" /\ g \in notes /\ notes' = notes \ {g} /\ Adds(1)
  /\ UNCHANGED <<stage, others, runs, quiet, runner, stop, ops>>

\* Stop: which process is read under the lock, its group signalled after it.
StopRead ==
  /\ mode = "dev" /\ stage = "serving" /\ stop = 0 /\ runner.process # 0
  /\ stop' = runner.process
  /\ UNCHANGED <<stage, others, runs, quiet, runner, output, notes, ops>>

ToldAlone(r) == [r EXCEPT !.told = @ \/ Alive(r.child)]
Told(r) == [r EXCEPT !.told = @ \/ Alive(r.child),
                     !.grand = IF @ = "running" THEN "told" ELSE @]
StopKill ==
  /\ stage = "serving" /\ stop # 0 /\ stop' = 0
  /\ runs' = [runs EXCEPT ![stop] = Told(@)]
  /\ UNCHANGED <<stage, others, quiet, runner, output, notes, ops>>

\* waitForInterrupt, and the end of `emu dev`: nothing waits for the child of
\* the dashboard, which the signal may or may not have been passed on to.
Interrupt ==
  /\ mode = "dev" /\ stage = "serving" /\ pressed /\ stage' = "over" /\ CloseAll
  /\ ops' = [ops EXCEPT !.dump = ops.log]
  /\ UNCHANGED <<mode, fleet, runs, quiet, runner, output, notes, stop>>

----------------------------------------------------------------------------
(* A lesson's child at work: an operation is recorded, run and answered     *)

Issue ==
  /\ mode = "run" /\ runs # <<>> /\ Alive(runs[1].child) /\ world.listeners # {}
  /\ ops.sent < MaxOps /\ ops.wire = 0
  /\ ops' = [ops EXCEPT !.wire = 1, !.sent = @ + 1]
  /\ UNCHANGED <<stage, others, runs, quiet, runner, output, notes, stop>>

\* Before records an operation ahead of everything else that is done for it.
LoggedAfterwards(o, when) == IF when = "after" THEN [o EXCEPT !.log = @ + 1] ELSE o
Logged(o, when) == IF when = "before" THEN [o EXCEPT !.log = @ + 1] ELSE o
Handle ==
  /\ stage = "serving"
  /\ \/ /\ ops.phase = "next" /\ ops.wire = 1
        /\ ops' = Logged([ops EXCEPT !.phase = "step", !.wire = 0, !.taken = @ + 1], "before")
     \/ /\ ops.phase = "step"
        /\ ops' = [ops EXCEPT !.phase = "done",
                              !.seen = IF Alive(runs[1].child) THEN ops.taken ELSE @]
     \/ ops.phase = "done" /\ ops' = Logged([ops EXCEPT !.phase = "next"], "after")
  /\ UNCHANGED <<stage, others, runs, quiet, runner, output, notes, stop>>

\* runChild: the log as it is when the child has been reaped, then the end.
\* Without a child there is nothing to dump.
RunEnds ==
  /\ mode = "run" /\ stage = "serving" /\ runs[1].sup = "returned"
  /\ stage' = "over" /\ CloseAll
  /\ ops' = IF runs[1].code = "unstarted" THEN ops ELSE [ops EXCEPT !.dump = ops.log]
  /\ UNCHANGED <<mode, fleet, runs, quiet, runner, output, notes, stop>>

----------------------------------------------------------------------------
Init ==
  /\ mode \in {"run", "dev"} /\ stage = "starting"
  /\ fleet = [added |-> 0, backends |-> {}, listeners |-> {}]
  /\ world = [backends |-> {}, listeners |-> {}]
  /\ runs = <<>> /\ bits = {} /\ signals = 0 /\ missed = FALSE
  /\ pressed = FALSE
  /\ runner = [running |-> FALSE, exited |-> FALSE, code |-> "none", process |-> 0, command |-> 0]
  /\ output = [chunks |-> <<>>, next |-> 1, dropped |-> 0]
  /\ notes = {} /\ stop = 0
  /\ ops = [wire |-> 0, phase |-> "next", sent |-> 0, taken |-> 0, log |-> 0,
            seen |-> 0, dump |-> NoDump]

\* What emu does for a run, step by step, and the runtime for emu.
Emu(g) == \/ NoteStart(g) \/ Capture(g) \/ Register(g) \/ Spawn(g) \/ Track(g)
          \/ Forward(g) \/ Reap(g) \/ Finish(g)
Next ==
  \/ Add \/ Teardown \/ Serve \/ Unserved \/ Kill \/ Claim \/ StopRead \/ StopKill \/ Interrupt
  \/ Issue \/ Handle \/ RunEnds
  \/ \E sig \in {"CHLD", "TERM"} : Deliver(sig)
  \/ \E g \in Run : \/ Emu(g) \/ NoteExit(g) \/ Fork(g) \/ Writes(g) \/ GrandExit(g)
                    \/ \E s \in Stream : Drain(g, s)
                    \/ \E status \in {"zero", "term"} : Exit(g, status)
Spec == Init /\ [][Next]_vars

\* Goroutines and the runtime keep going, and what was told to end ends;
\* nobody has to press anything, and a child need not end by itself.
FairSpec ==
  /\ Spec /\ WF_vars(StopKill) /\ WF_vars(RunEnds)
  /\ WF_vars(Deliver("CHLD")) /\ WF_vars(Deliver("TERM"))
  /\ \A g \in 1 .. MaxRuns :
       /\ WF_vars(g \in Run /\ Emu(g))
       /\ WF_vars(g \in Run /\ Exit(g, "term")) /\ WF_vars(g \in Run /\ GrandExit(g))
       /\ \A s \in Stream : WF_vars(g \in Run /\ Drain(g, s))

----------------------------------------------------------------------------
(* Properties *)

\* Every piece of state is in its range, and a run that has not forked has no
\* exit status.
TypeOK ==
  /\ stage \in {"starting", "closing", "failed", "serving", "over"} /\ bits \subseteq {"CHLD", "TERM"}
  /\ \A g \in Run :
       /\ runs[g].sup \in {"claimed", "noted", "ready", "registered", "spawned", "loop",
                           "returned", "finished"}
       /\ runs[g].child = "none" => runs[g].status \in {"none", "unstarted"}
       /\ Len(runs[g].queue) <= SignalBuffer
  /\ notes \subseteq Run /\ stop \in Run \cup {0} /\ runner.process \in Run \cup {0}

\* fleet.Start, runChild: a child runs beside every service the lesson
\* declared, up to its own end and through every signal emu is sent, and a
\* start that failed anywhere leaves nothing behind.  The exception: `emu dev`
\* does not wait for the dashboard's child when it ends, and closes the
\* services it talks to.
WholeFleetOrNone ==
  /\ (\E g \in Run : Alive(runs[g].child)) =>
       \/ world.listeners = {Service[i] : i \in DOMAIN Service}
       \/ mode = "dev" /\ stage = "over"
  /\ stage \in {"failed", "over"} => world.listeners = {} /\ world.backends = {}

\* runChild: every operation the child saw answered is in the dump.
DumpTellsAnswered == ops.dump # NoDump => ops.seen <= ops.dump

\* claim, reap, finish: the code the page shows is that of the command it
\* shows, and one command runs at a time.
CodeIsTheCommands ==
  /\ runner.exited => runner.code = runs[runner.command].status
  /\ \A g, h \in Run : g < h => runs[g].sup = "finished"

\* supervise: once the page is told that the child has exited, neither the
\* child nor what it started is left to write, and all that was written is on
\* the page.  (A process that had closed its copies of the pipes could be left.)
ExitedMeansDone ==
  runner.exited => \A g \in Run :
    /\ ~Alive(runs[g].child) /\ ~Alive(runs[g].grand)
    /\ \A s \in Stream : runs[g].unread[s] = 0

\* append: numbers have no gap but what was dropped, and what is held is
\* within the limit, or one piece.
OutputAccounts ==
  /\ output.dropped + Len(output.chunks) = output.next - 1
  /\ \A i \in DOMAIN output.chunks : output.chunks[i][1] = output.dropped + i
  /\ output.chunks = <<>> \/ Fits(output.chunks)

\* What emu reports at the end is what happened: the dump has every operation
\* the child saw answered, the page the command's own code, once nobody is left
\* to write to its pipes, and all its output but what it counts as dropped.
ReportsTruly ==
  /\ TypeOK /\ DumpTellsAnswered /\ CodeIsTheCommands
  /\ ExitedMeansDone /\ OutputAccounts

Past(g, places) == g \in Run /\ runs[g].sup \in places

\* Run: the child's exit is noticed, unless a SIGCHLD found the channel full.
ExitNoticed ==
  \A g \in 1 .. MaxRuns :
    (g \in Run /\ runs[g].child = "zombie" /\ runs[g].sup \in {"spawned", "loop"})
      ~> (Past(g, {"returned", "finished"}) \/ missed \/ stage = "over")

\* Stop, Group: a run whose group was signalled comes to its end, and with it
\* whatever the child had started.
StopEnds ==
  \A g \in 1 .. MaxRuns :
    (stop = g) ~> (Past(g, {"finished"}) \/ missed \/ stage = "over")

\* Run, Stop: a child that exits is noticed, and one that is stopped exits,
\* whenever the signal falls.
ChildEnds == ExitNoticed /\ StopEnds

\* The comment on signalBuffer has at most one entry per signal queued, so
\* that none is ever dropped.  Kept for the record.
QueuedOnceEach ==
  \A g \in Run : \A i, j \in DOMAIN runs[g].queue :
    i # j => runs[g].queue[i] # runs[g].queue[j]
=============================================================================
