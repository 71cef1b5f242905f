-------------------------- MODULE LifecycleProofs --------------------------
(***************************************************************************)
(* A start that fails leaves nothing behind, and what emu reports of a     *)
(* child is what happened to it: for any list of services, any number of   *)
(* commands one after the other, and signals, output and operations in any *)
(* order.                                                                  *)
(***************************************************************************)
EXTENDS Lifecycle, TLAPS, WellFoundedInduction, SequenceTheorems

----------------------------------------------------------------------------
(* The inductive invariant *)

Early == {"claimed", "noted", "ready", "registered"}
Status == {"none", "unstarted", "zero", "term"}
RunType ==
  [sup : Early \cup {"spawned", "loop", "returned", "finished"},
   child : {"none", "running", "zombie", "gone"},
   grand : {"none", "running", "told", "zombie", "gone"},
   told : BOOLEAN, status : Status, code : Status,
   queue : Seq({"CHLD", "TERM"}), unread : [Stream -> Nat], written : Nat]
RunnerType ==
  [running : BOOLEAN, exited : BOOLEAN, code : Status, process : Nat, command : Nat]
OpsType ==
  [wire : {0, 1}, phase : {"next", "step", "done"}, sent : Nat, taken : Nat, log : Nat,
   seen : Nat, dump : Nat]

Piece == Nat \X Nat
OutputType == [chunks : Seq(Piece), next : Nat, dropped : Nat]

\* A run has no process before it is spawned, none that runs once it has
\* returned, and nobody left to write once it is finished.
Sound(r) ==
  /\ r.sup \in Early => r.child = "none" /\ r.status = "none" /\ \A s \in Stream : r.unread[s] = 0
  /\ r.child = "none" => r.grand = "none" /\ r.status \in {"none", "unstarted"}
  /\ r.sup \in {"returned", "finished"} => r.child \in {"none", "gone"}
  /\ r.sup = "returned" => r.code = r.status
  /\ r.sup = "finished" => r.grand \notin {"running", "told"} /\ \A s \in Stream : r.unread[s] = 0
  /\ Len(r.queue) <= SignalBuffer

AllFinished == \A g \in Run : runs[g].sup = "finished"

\* One run at a time, and the last one is the one the page shows.
RunsInv ==
  /\ runs \in Seq(RunType)
  /\ \A g \in Run : Sound(runs[g])
  /\ \A g, h \in Run : g < h => runs[g].sup = "finished"
  /\ stage = "starting" => runs = <<>>
  /\ mode = "run" => Len(runs) <= 1 /\ \A g \in Run : runs[g].sup \notin {"claimed", "noted"}

PageInv ==
  /\ runner \in RunnerType
  /\ mode = "run" => ~runner.running /\ ~runner.exited
  /\ mode = "dev" => runner.command = Len(runs) /\ (runner.running \/ AllFinished)
  /\ runner.exited => AllFinished /\ runs # <<>> /\ runner.code = runs[Len(runs)].status
  /\ runner.process \in Run \cup {0} /\ stop \in Run \cup {0} /\ notes \subseteq Run

\* What is open is what Close knows of.
FleetInv ==
  LET started == {Service[i] : i \in 1 .. fleet.added}
      all == {Service[i] : i \in DOMAIN Service}
  IN
  /\ mode \in {"run", "dev"} /\ stage \in {"starting", "closing", "failed", "serving", "over"}
  /\ fleet \in [added : 0 .. Len(Service), backends : SUBSET all, listeners : SUBSET all]
  /\ world \in [backends : SUBSET fleet.backends, listeners : SUBSET fleet.listeners]
  /\ stage = "starting" => fleet.listeners = started /\ world.listeners = started
  /\ stage = "serving" => fleet.listeners = all /\ world.listeners = all
  /\ stage \in {"failed", "over"} => world.listeners = {} /\ world.backends = {}

\* The log has what was taken, and is dumped last of all.
OpsInv ==
  /\ ops \in OpsType
  /\ ops.taken = ops.log /\ ops.seen <= ops.log
  /\ stage # "over" => ops.dump = NoDump
  /\ ops.dump \in {NoDump, ops.log}

OutputInv == output \in OutputType /\ OutputAccounts

\* Children come once the fleet is up, and the one of `emu run` is gone before
\* the fleet is.
ChildInv ==
  /\ stage \in {"starting", "closing", "failed"} => runs = <<>>
  /\ mode = "run" /\ stage = "over" => \A g \in Run : ~Alive(runs[g].child)

LifeInv == FleetInv /\ RunsInv /\ PageInv /\ OpsInv /\ OutputInv /\ bits \subseteq {"CHLD", "TERM"}

----------------------------------------------------------------------------
(* What append does to the output *)

\* The end of a sequence, and a sequence with one more element.
LEMMA EndOf ==
  ASSUME NEW S, NEW s \in Seq(S), NEW k \in 0 .. Len(s) - 1
  PROVE  /\ SubSeq(s, k + 1, Len(s)) \in Seq(S)
         /\ Len(SubSeq(s, k + 1, Len(s))) = Len(s) - k
         /\ \A i \in 1 .. Len(s) - k : SubSeq(s, k + 1, Len(s))[i] = s[k + i]
OBVIOUS

LEMMA AppendIs ==
  ASSUME NEW S, NEW s \in Seq(S), NEW e \in S
  PROVE  /\ Append(s, e) \in Seq(S) /\ Append(s, e) # <<>>
         /\ Len(Append(s, e)) = Len(s) + 1 /\ Len(s) \in Nat
         /\ Append(s, e)[Len(s) + 1] = e
         /\ \A i \in 1 .. Len(s) : Append(s, e)[i] = s[i]
OBVIOUS

\* The oldest pieces go until the rest fits, and never all of them.
LEMMA TrimIs ==
  ASSUME NEW o \in OutputType, o.chunks # <<>>
  PROVE  \E k \in 0 .. Len(o.chunks) - 1 :
           /\ Fits(SubSeq(o.chunks, k + 1, Len(o.chunks)))
           /\ Trim(o) \in OutputType
           /\ Trim(o).chunks = SubSeq(o.chunks, k + 1, Len(o.chunks))
           /\ Trim(o).next = o.next /\ Trim(o).dropped = o.dropped + k
<1> DEFINE n == Len(o.chunks)
           Good(k) == Fits(SubSeq(o.chunks, k + 1, n))
           S == {k \in 0 .. n - 1 : Good(k)}
           R == OpToRel(<, Nat)
<1>0. o.chunks \in Seq(Piece) /\ o.dropped \in Nat
  BY DEF OutputType
<1>1. n \in Nat /\ n > 0
  BY <1>0
<1>2. Good(n - 1)
  <2>1. Len(SubSeq(o.chunks, n, n)) = 1
    BY <1>0, <1>1
  <2> QED
    BY <1>1, <2>1 DEF Fits
<1> HIDE DEF Good
<1>3. n - 1 \in S /\ S \subseteq Nat
  BY <1>1, <1>2
<1>4. \A i, j \in Nat : <<i, j>> \in R <=> i < j
  BY DEF OpToRel
<1>5. IsWellFoundedOn(R, Nat)
  BY NatLessThanWellFounded
<1> HIDE DEF R, S
<1>6. PICK m \in S : \A j \in S : <<j, m>> \notin R
  BY <1>3, <1>5, WFMin
<1>7. m \in 0 .. n - 1 /\ Good(m) /\ \A j \in 0 .. m - 1 : ~Good(j)
  <2>1. m \in 0 .. n - 1 /\ Good(m)
    BY <1>6 DEF S
  <2>2. ASSUME NEW j \in 0 .. m - 1, Good(j) PROVE FALSE
    <3>1. j \in S /\ j \in Nat /\ m \in Nat /\ j < m
      BY <1>1, <2>1, <2>2 DEF S
    <3> QED
      BY <1>4, <1>6, <3>1
  <2> QED
    BY <2>1, <2>2
<1> DEFINE k0 == CHOOSE k \in 0 .. n - 1 : Good(k) /\ \A j \in 0 .. k - 1 : ~Good(j)
<1>8. k0 \in 0 .. n - 1 /\ Good(k0)
  BY <1>7
<1>9. Trim(o) = [o EXCEPT !.chunks = SubSeq(o.chunks, k0 + 1, n), !.dropped = @ + k0]
  BY DEF Trim, Good
<1> HIDE DEF k0
<1>10. SubSeq(o.chunks, k0 + 1, n) \in Seq(Piece) /\ o.dropped + k0 \in Nat
  <2>1. k0 \in Nat
    BY <1>1, <1>8
  <2>2. o.dropped + k0 \in Nat
    BY <1>0, <2>1
  <2> QED
    BY <1>0, <1>8, <2>2, EndOf
<1>11. /\ Trim(o) \in OutputType
       /\ Trim(o).chunks = SubSeq(o.chunks, k0 + 1, n)
       /\ Trim(o).next = o.next /\ Trim(o).dropped = o.dropped + k0
  <2> DEFINE c == SubSeq(o.chunks, k0 + 1, n)
             d == o.dropped + k0
             q == [o EXCEPT !.chunks = c]
             p == Trim(o)
  <2>1. c \in Seq(Piece) /\ d \in Nat
    BY <1>10
  <2>2. p = [o EXCEPT !.chunks = c, !.dropped = @ + k0]
    BY <1>9
  <2> HIDE DEF c
  <2>3. q \in OutputType /\ q.chunks = c /\ q.next = o.next /\ q.dropped = o.dropped
    BY <2>1 DEF OutputType
  <2>4. p = [q EXCEPT !.dropped = q.dropped + k0]
    BY <2>2
  <2> HIDE DEF q, p
  <2>5. q.dropped + k0 = d
    BY <2>3
  <2> HIDE DEF d
  <2>6. p = [q EXCEPT !.dropped = d]
    BY <2>4, <2>5
  <2>7. p \in OutputType /\ p.chunks = c /\ p.next = o.next /\ p.dropped = d
    BY <2>1, <2>3, <2>6 DEF OutputType
  <2> QED
    BY <2>7 DEF c, d, p
<1> QED
  BY <1>8, <1>11 DEF Good

OneMore(added, ch, next) ==
  /\ Len(added) = Len(ch) + 1 /\ added[Len(ch) + 1][1] = next
  /\ \A i \in 1 .. Len(ch) : added[i] = ch[i]
EndFrom(kept, added, k) ==
  /\ Len(kept) = Len(added) - k
  /\ \A i \in 1 .. Len(added) - k : kept[i] = added[k + i]
Numbered(ch, d) == \A i \in 1 .. Len(ch) : ch[i][1] = d + i

\* The pieces kept are numbered on from those that were dropped.
LEMMA KeptAre ==
  ASSUME NEW ch \in Seq(Piece), NEW next \in Nat, NEW dropped \in Nat,
         dropped + Len(ch) = next - 1, Numbered(ch, dropped),
         NEW added \in Seq(Piece), OneMore(added, ch, next),
         NEW k \in 0 .. Len(added) - 1, NEW kept \in Seq(Piece), EndFrom(kept, added, k)
  PROVE  /\ dropped + k \in Nat /\ (dropped + k) + Len(kept) = (next + 1) - 1
         /\ Numbered(kept, dropped + k)
<1> DEFINE n == Len(ch)
<1>1. n \in Nat /\ k \in Nat /\ k <= n /\ dropped + n = next - 1
  BY DEF OneMore
<1> HIDE DEF n
<1>2. Len(added) = n + 1 /\ added[n + 1][1] = next /\ \A i \in 1 .. n : added[i] = ch[i]
  BY DEF n, OneMore
<1>3. \A i \in 1 .. (n + 1) - k : kept[i][1] = (dropped + k) + i
  <2> SUFFICES ASSUME NEW i \in 1 .. (n + 1) - k PROVE kept[i][1] = (dropped + k) + i
    OBVIOUS
  <2> DEFINE j == k + i
  <2>1. j \in 1 .. n + 1 /\ dropped + j = (dropped + k) + i /\ (j # n + 1 => j \in 1 .. n)
    BY <1>1
  <2>2. kept[i] = added[j]
    BY <1>2 DEF EndFrom
  <2> HIDE DEF j
  <2>3. CASE j = n + 1
    <3>1. dropped + j = next
      BY <1>1, <2>3
    <3> QED
      BY <1>2, <2>1, <2>2, <2>3, <3>1
  <2>4. CASE j # n + 1
    <3>1. added[j] = ch[j] /\ ch[j][1] = dropped + j
      BY <1>2, <2>1, <2>4 DEF n, Numbered
    <3> QED
      BY <2>1, <2>2, <3>1
  <2> QED
    BY <2>3, <2>4
<1>4. dropped + k \in Nat /\ (dropped + k) + ((n + 1) - k) = (next + 1) - 1
  BY <1>1
<1> QED
  BY <1>2, <1>3, <1>4 DEF Numbered, EndFrom

\* A piece more, and the account still balances.
LEMMA AddsKeeps ==
  ASSUME OutputInv, NEW size \in Nat, Adds(size)
  PROVE  OutputInv'
<1> DEFINE ch == output.chunks
           next == output.next
           dropped == output.dropped
           added == Append(ch, <<next, size>>)
           o == [output EXCEPT !.chunks = added, !.next = next + 1]
<1>1. /\ ch \in Seq(Piece) /\ next \in Nat /\ dropped \in Nat
  BY DEF OutputInv, OutputType
<1>2. dropped + Len(ch) = next - 1 /\ Numbered(ch, dropped)
  BY <1>1 DEF OutputInv, OutputAccounts, Numbered
<1>3. output' = Trim(o)
  BY DEF Adds
<1>4. /\ added # <<>> /\ added \in Seq(Piece) /\ Len(added) = Len(ch) + 1 /\ Len(ch) \in Nat
      /\ added[Len(ch) + 1][1] = next /\ \A i \in 1 .. Len(ch) : added[i] = ch[i]
  <2> DEFINE piece == <<next, size>>
  <2>1. piece \in Piece /\ piece[1] = next
    BY <1>1 DEF Piece
  <2> HIDE DEF piece, ch
  <2>2. added = Append(ch, piece)
    BY DEF piece
  <2> QED
    BY <1>1, <2>1, <2>2, AppendIs
<1>5. output \in OutputType /\ output.dropped = dropped
  BY DEF OutputInv
<1> HIDE DEF ch, next, dropped, added
<1>6. o \in OutputType /\ o.chunks = added /\ o.next = next + 1 /\ o.dropped = dropped
  <2> DEFINE q == [output EXCEPT !.chunks = added]
  <2>1. q \in OutputType /\ q.chunks = added /\ q.dropped = dropped
    BY <1>4, <1>5 DEF OutputType
  <2>2. o = [q EXCEPT !.next = next + 1]
    OBVIOUS
  <2> HIDE DEF o, q
  <2> QED
    BY <1>1, <2>1, <2>2 DEF OutputType
<1> HIDE DEF o
<1>7. PICK k \in 0 .. Len(added) - 1 :
        /\ Fits(SubSeq(added, k + 1, Len(added)))
        /\ output' \in OutputType
        /\ output'.chunks = SubSeq(added, k + 1, Len(added))
        /\ output'.next = next + 1 /\ output'.dropped = dropped + k
  BY <1>3, <1>4, <1>6, TrimIs
<1> DEFINE kept == SubSeq(added, k + 1, Len(added))
<1>8. kept = output'.chunks /\ Fits(kept)
  BY <1>7
<1>9. /\ kept \in Seq(Piece) /\ Len(kept) = Len(added) - k
      /\ \A i \in 1 .. Len(added) - k : kept[i] = added[k + i]
  BY <1>4, EndOf
<1> HIDE DEF kept
<1>10. /\ dropped + k \in Nat /\ (dropped + k) + Len(kept) = (next + 1) - 1
       /\ Numbered(kept, dropped + k)
  <2>1. OneMore(added, ch, next) /\ EndFrom(kept, added, k)
    BY <1>4, <1>9 DEF OneMore, EndFrom
  <2>2. /\ ch \in Seq(Piece) /\ next \in Nat /\ dropped \in Nat
        /\ added \in Seq(Piece) /\ kept \in Seq(Piece)
    BY <1>1, <1>4, <1>9
  <2>3. dropped + Len(ch) = next - 1 /\ Numbered(ch, dropped)
    BY <1>2
  <2> HIDE DEF OutputInv
  <2> QED
    BY <2>1, <2>2, <2>3, KeptAre
<1>11. DOMAIN kept = 1 .. Len(kept)
  BY <1>9
<1>12. OutputAccounts'
  BY <1>7, <1>8, <1>10, <1>11 DEF OutputAccounts, Fits, Numbered
<1> QED
  BY <1>7, <1>12 DEF OutputInv

----------------------------------------------------------------------------
(* What may happen to a run *)

\* It stays sound, is not finished by this step, and keeps what is finished.
RunStep(r, s) ==
  /\ s \in RunType /\ Sound(s)
  /\ r.sup = "finished" <=> s.sup = "finished"
  /\ r.sup = "finished" => s.status = r.status
  /\ r.sup \notin {"claimed", "noted"} => s.sup \notin {"claimed", "noted"}

LEMMA Registered ==
  ASSUME NEW r \in RunType, Sound(r), r.sup = "ready"
  PROVE  RunStep(r, [r EXCEPT !.sup = "registered"])
BY DEF RunStep, RunType, Sound, Early

LEMMA Spawned ==
  ASSUME NEW r \in RunType, Sound(r), r.sup = "registered"
  PROVE  /\ RunStep(r, [r EXCEPT !.sup = "spawned", !.child = "running"])
         /\ RunStep(r, [r EXCEPT !.sup = "returned", !.code = "unstarted", !.status = "unstarted"])
BY DEF RunStep, RunType, Sound, Early, Status

LEMMA Tracked ==
  ASSUME NEW r \in RunType, Sound(r), r.sup = "spawned"
  PROVE  RunStep(r, [r EXCEPT !.sup = "loop"])
BY DEF RunStep, RunType, Sound, Early

LEMMA Queued ==
  ASSUME NEW r \in RunType, Sound(r), NEW sig \in {"CHLD", "TERM"}, Len(r.queue) < SignalBuffer
  PROVE  RunStep(r, [r EXCEPT !.queue = Append(@, sig)])
<1> DEFINE q == Append(r.queue, sig)
<1>1. q \in Seq({"CHLD", "TERM"}) /\ Len(q) <= SignalBuffer
  BY LifecycleAssumption DEF RunType
<1> HIDE DEF q
<1>2. RunStep(r, [r EXCEPT !.queue = q])
  BY <1>1 DEF RunStep, RunType, Sound, Early
<1> QED
  BY <1>2 DEF q

LEMMA Same ==
  ASSUME NEW r \in RunType, Sound(r)
  PROVE  RunStep(r, r)
BY DEF RunStep

\* The first signal of a queue is taken.
LEMMA Shorter ==
  ASSUME NEW r \in RunType, Sound(r), r.queue # <<>>
  PROVE  Tail(r.queue) \in Seq({"CHLD", "TERM"}) /\ Len(Tail(r.queue)) <= SignalBuffer
BY LifecycleAssumption DEF RunType, Sound

LEMMA Forwarded ==
  ASSUME NEW r \in RunType, Sound(r), r.queue # <<>>, NEW told \in BOOLEAN
  PROVE  RunStep(r, [r EXCEPT !.queue = Tail(@), !.told = told])
<1> DEFINE q == Tail(r.queue)
<1>1. q \in Seq({"CHLD", "TERM"}) /\ Len(q) <= SignalBuffer
  BY Shorter
<1> HIDE DEF q
<1>2. RunStep(r, [r EXCEPT !.queue = q, !.told = told])
  BY <1>1 DEF RunStep, RunType, Sound, Early
<1> QED
  BY <1>2 DEF q

LEMMA ReapedOther ==
  ASSUME NEW r \in RunType, Sound(r)
  PROVE  RunStep(r, Reaped(r))
BY DEF RunStep, RunType, Sound, Early, Reaped

LEMMA ReapedOwn ==
  ASSUME NEW r \in RunType, Sound(r), r.queue # <<>>, r.sup = "loop"
  PROVE  RunStep(r, [Reaped(r) EXCEPT !.queue = Tail(@),
                       !.sup = IF r.child = "zombie" THEN "returned" ELSE @,
                       !.code = IF r.child = "zombie" THEN r.status ELSE @])
<1> DEFINE q == Tail(r.queue)
           t == Reaped(r)
           s == [t EXCEPT !.queue = Tail(@),
                       !.sup = IF r.child = "zombie" THEN "returned" ELSE @,
                       !.code = IF r.child = "zombie" THEN r.status ELSE @]
<1>1. q \in Seq({"CHLD", "TERM"}) /\ Len(q) <= SignalBuffer
  BY Shorter
<1>2. /\ t \in RunType /\ Sound(t) /\ t.queue = r.queue /\ t.sup = "loop" /\ t.status = r.status
      /\ r.child = "zombie" => t.child = "gone"
  BY DEF RunType, Sound, Early, Reaped
<1>3. s = [t EXCEPT !.queue = Tail(t.queue),
                       !.sup = IF r.child = "zombie" THEN "returned" ELSE t.sup,
                       !.code = IF r.child = "zombie" THEN r.status ELSE t.code]
  BY <1>2 DEF RunType
<1> HIDE DEF q, t, s
<1>4. s = [t EXCEPT !.queue = q,
                       !.sup = IF r.child = "zombie" THEN "returned" ELSE t.sup,
                       !.code = IF r.child = "zombie" THEN r.status ELSE t.code]
  BY <1>2, <1>3 DEF q
<1>5. RunStep(r, s)
  BY <1>1, <1>2, <1>4 DEF RunStep, RunType, Sound, Early
<1> QED
  BY <1>5 DEF s, t

LEMMA Forked ==
  ASSUME NEW r \in RunType, Sound(r), r.child = "running"
  PROVE  RunStep(r, [r EXCEPT !.grand = "running"])
BY DEF RunStep, RunType, Sound, Early

LEMMA Wrote ==
  ASSUME NEW r \in RunType, Sound(r), r.child = "running" \/ r.grand = "running", NEW s \in Stream
  PROVE  RunStep(r, [r EXCEPT !.unread[s] = @ + 1, !.written = @ + 1])
<1> DEFINE u == [r.unread EXCEPT ![s] = @ + 1]
           w == r.written + 1
<1>1. u \in [Stream -> Nat] /\ w \in Nat
  BY DEF RunType
<1>2. r.sup \notin Early /\ r.sup # "finished"
  BY DEF Sound
<1>3. [r EXCEPT !.unread[s] = @ + 1, !.written = @ + 1] = [r EXCEPT !.unread = u, !.written = w]
  BY DEF RunType
<1> HIDE DEF u, w
<1>4. RunStep(r, [r EXCEPT !.unread = u, !.written = w])
  BY <1>1, <1>2 DEF RunStep, RunType, Sound, Early
<1> QED
  BY <1>3, <1>4

LEMMA Exited ==
  ASSUME NEW r \in RunType, Sound(r), r.child = "running", NEW status \in {"zero", "term"}
  PROVE  RunStep(r, [r EXCEPT !.child = "zombie", !.status = status])
BY DEF RunStep, RunType, Sound, Early, Status

LEMMA GrandExited ==
  ASSUME NEW r \in RunType, Sound(r), r.grand \in {"told", "running"}, NEW grand \in {"gone", "zombie"}
  PROVE  RunStep(r, [r EXCEPT !.grand = grand])
BY DEF RunStep, RunType, Sound, Early

LEMMA Emptied ==
  ASSUME NEW r \in RunType, Sound(r), NEW s \in Stream, r.unread[s] > 0
  PROVE  RunStep(r, [r EXCEPT !.unread[s] = @ - 1])
<1> DEFINE u == [r.unread EXCEPT ![s] = @ - 1]
<1>1. u \in [Stream -> Nat]
  BY DEF RunType
<1>2. r.sup \notin Early /\ r.sup # "finished"
  BY DEF Sound
<1>3. [r EXCEPT !.unread[s] = @ - 1] = [r EXCEPT !.unread = u]
  BY DEF RunType
<1> HIDE DEF u
<1>4. RunStep(r, [r EXCEPT !.unread = u])
  BY <1>1, <1>2 DEF RunStep, RunType, Sound, Early
<1> QED
  BY <1>3, <1>4

LEMMA ToldStep ==
  ASSUME NEW r \in RunType, Sound(r)
  PROVE  RunStep(r, Told(r))
BY DEF RunStep, RunType, Sound, Early, Told, Alive

LEMMA Noted ==
  ASSUME NEW r \in RunType, Sound(r), r.sup = "claimed"
  PROVE  RunStep(r, [r EXCEPT !.sup = "noted"])
BY DEF RunStep, RunType, Sound, Early

LEMMA Captured ==
  ASSUME NEW r \in RunType, Sound(r), r.sup = "noted"
  PROVE  RunStep(r, [r EXCEPT !.sup = "ready"])
BY DEF RunStep, RunType, Sound, Early

----------------------------------------------------------------------------
(* The runs and the page *)

\* What the page is told stays as it is; which process there is may change.
PageSteady ==
  /\ mode' = mode /\ stage' = stage
  /\ runner' \in RunnerType /\ runner'.running = runner.running /\ runner'.exited = runner.exited
  /\ runner'.code = runner.code /\ runner'.command = runner.command
  /\ runner'.process \in Run \cup {0} /\ stop' \in Run \cup {0} /\ notes' \subseteq Run

LEMMA RunsKeep ==
  ASSUME RunsInv, PageInv, PageSteady, runs' \in Seq(RunType), Len(runs') = Len(runs),
         \A g \in Run : RunStep(runs[g], runs'[g])
  PROVE  RunsInv' /\ PageInv'
<1>1. Run' = Run /\ Run = 1 .. Len(runs) /\ Len(runs) \in Nat /\ (runs = <<>> <=> runs' = <<>>)
  BY DEF RunsInv, Run
<1>2. \A g \in Run : Sound(runs'[g]) /\ (runs[g].sup = "finished" <=> runs'[g].sup = "finished")
  BY DEF RunStep
<1>3. \A g \in Run : Sound(runs[g])'
  BY <1>2 DEF Sound
<1>4. RunsInv'
  <2>1. \A g, h \in Run : g < h => runs'[g].sup = "finished"
    BY <1>2 DEF RunsInv
  <2>2. mode = "run" => Len(runs') <= 1 /\ \A g \in Run : runs'[g].sup \notin {"claimed", "noted"}
    BY DEF RunsInv, RunStep
  <2>3. stage = "starting" => runs' = <<>>
    BY <1>1 DEF RunsInv
  <2> QED
    BY <1>1, <1>3, <2>1, <2>2, <2>3 DEF RunsInv, PageSteady
<1>5. AllFinished' <=> AllFinished
  BY <1>1, <1>2 DEF AllFinished
<1>6. runner.exited => runs'[Len(runs)].status = runs[Len(runs)].status
  <2> SUFFICES ASSUME runner.exited PROVE runs'[Len(runs)].status = runs[Len(runs)].status
    OBVIOUS
  <2>1. Len(runs) \in Run /\ AllFinished
    BY <1>1 DEF PageInv, RunsInv
  <2> QED
    BY <2>1 DEF AllFinished, RunStep
<1>7. PageInv'
  <2>1. mode' = "dev" => runner'.command = Len(runs') /\ (runner'.running \/ AllFinished')
    BY <1>5 DEF PageInv, PageSteady
  <2>2. runner'.exited => AllFinished' /\ runs' # <<>> /\ runner'.code = runs'[Len(runs')].status
    BY <1>1, <1>5, <1>6 DEF PageInv, PageSteady
  <2>3. mode' = "run" => ~runner'.running /\ ~runner'.exited
    BY DEF PageInv, PageSteady
  <2> QED
    BY <1>1, <2>1, <2>2, <2>3 DEF PageInv, PageSteady
<1> QED
  BY <1>4, <1>7

\* One run steps.
LEMMA OneSteps ==
  ASSUME RunsInv, PageInv, PageSteady, NEW g \in Run, NEW r, runs' = [runs EXCEPT ![g] = r],
         RunStep(runs[g], r)
  PROVE  RunsInv' /\ PageInv'
<1>1. runs \in Seq(RunType) /\ r \in RunType
  BY DEF RunsInv, RunStep
<1>2. /\ runs' \in Seq(RunType) /\ Len(runs') = Len(runs) /\ runs'[g] = r
      /\ \A h \in Run : h # g => runs'[h] = runs[h]
  BY <1>1 DEF Run
<1>3. \A h \in Run : RunStep(runs[h], runs'[h])
  <2>1. \A h \in Run : runs[h] \in RunType /\ Sound(runs[h])
    BY <1>1 DEF RunsInv, Run
  <2> QED
    BY <1>2, <2>1, Same
<1> QED
  BY <1>2, <1>3, RunsKeep

----------------------------------------------------------------------------
(* Each action keeps the invariant *)

LEMMA FleetSame ==
  ASSUME FleetInv, UNCHANGED <<mode, stage, fleet, world>>
  PROVE  FleetInv'
BY DEF FleetInv

LEMMA OpsSame ==
  ASSUME OpsInv, UNCHANGED <<stage, ops>>
  PROVE  OpsInv'
BY DEF OpsInv

LEMMA OutputSame ==
  ASSUME OutputInv, UNCHANGED output
  PROVE  OutputInv'
BY DEF OutputInv, OutputAccounts, Fits

LEMMA PageStays ==
  ASSUME PageInv, UNCHANGED <<mode, stage, runner, notes, stop>>
  PROVE  PageSteady
BY DEF PageInv, PageSteady

LEMMA RunIs ==
  ASSUME RunsInv, NEW g \in Run
  PROVE  runs[g] \in RunType /\ Sound(runs[g]) /\ g \in Nat /\ g \in 1 .. Len(runs)
BY DEF RunsInv, Run

\* A step of one run, and of nothing else that the page or the fleet has.
LEMMA OnlyRun ==
  ASSUME LifeInv, NEW g \in Run, NEW r, runs' = [runs EXCEPT ![g] = r], RunStep(runs[g], r),
         bits' \subseteq {"CHLD", "TERM"}, UNCHANGED <<mode, stage, fleet, world, runner, notes, stop, ops>>,
         OutputInv'
  PROVE  LifeInv'
BY OneSteps, FleetSame, OpsSame, PageStays DEF LifeInv

LEMMA RegisterKeeps ==
  ASSUME LifeInv, NEW g \in Run, Register(g)
  PROVE  LifeInv'
<1> DEFINE r == [runs[g] EXCEPT !.sup = "registered"]
<1>1. runs' = [runs EXCEPT ![g] = r]
  BY DEF Register, To
<1>2. RunStep(runs[g], r)
  BY RunIs, Registered DEF LifeInv, Register, At
<1>3. UNCHANGED <<mode, stage, fleet, world, bits, runner, output, notes, stop, ops>>
  BY DEF Register, others, quiet
<1> HIDE DEF r
<1> QED
  BY <1>1, <1>2, <1>3, OnlyRun, OutputSame DEF LifeInv

LEMMA SpawnKeeps ==
  ASSUME LifeInv, NEW g \in Run, Spawn(g)
  PROVE  LifeInv'
<1> DEFINE r == [runs[g] EXCEPT !.sup = "spawned", !.child = "running"]
           s == [runs[g] EXCEPT !.sup = "returned", !.code = "unstarted", !.status = "unstarted"]
<1>1. runs' = [runs EXCEPT ![g] = r] \/ runs' = [runs EXCEPT ![g] = s]
  BY DEF Spawn
<1>2. RunStep(runs[g], r) /\ RunStep(runs[g], s)
  BY RunIs, Spawned DEF LifeInv, Spawn, At
<1>3. UNCHANGED <<mode, stage, fleet, world, bits, runner, output, notes, stop, ops>>
  BY DEF Spawn, others, quiet
<1> HIDE DEF r, s
<1> QED
  BY <1>1, <1>2, <1>3, OnlyRun, OutputSame DEF LifeInv

LEMMA TrackKeeps ==
  ASSUME LifeInv, NEW g \in Run, Track(g)
  PROVE  LifeInv'
<1> DEFINE r == [runs[g] EXCEPT !.sup = "loop"]
<1>1. runs' = [runs EXCEPT ![g] = r]
  BY DEF Track, To
<1>2. RunStep(runs[g], r)
  BY RunIs, Tracked DEF LifeInv, Track, At
<1>3. UNCHANGED <<mode, stage, fleet, world, bits, output, notes, stop, ops>>
  BY DEF Track, others, quiet
<1>4. PageSteady
  <2>1. runner \in RunnerType /\ g \in Nat
    BY RunIs DEF LifeInv, PageInv
  <2>2. runner' = runner \/ runner' = [runner EXCEPT !.process = g]
    BY DEF Track
  <2> QED
    BY <1>3, <2>1, <2>2 DEF LifeInv, PageInv, PageSteady, RunnerType
<1> HIDE DEF r
<1> QED
  BY <1>1, <1>2, <1>3, <1>4, OneSteps, OutputSame, FleetSame, OpsSame DEF LifeInv

LEMMA ForwardKeeps ==
  ASSUME LifeInv, NEW g \in Run, Forward(g)
  PROVE  LifeInv'
<1> DEFINE told == runs[g].told \/ runs[g].child = "running"
           r == [runs[g] EXCEPT !.queue = Tail(@), !.told = told]
<1>1. runs' = [runs EXCEPT ![g] = r]
  BY DEF Forward
<1>2. told \in BOOLEAN
  BY RunIs DEF LifeInv, RunType
<1>3. RunStep(runs[g], r)
  <2> HIDE DEF told
  <2> QED
    BY <1>2, RunIs, Forwarded DEF LifeInv, Forward
<1>4. UNCHANGED <<mode, stage, fleet, world, bits, runner, output, notes, stop, ops>>
  BY DEF Forward, others, quiet
<1> HIDE DEF r
<1> QED
  BY <1>1, <1>3, <1>4, OnlyRun, OutputSame DEF LifeInv

LEMMA ForkKeeps ==
  ASSUME LifeInv, NEW g \in Run, Fork(g)
  PROVE  LifeInv'
<1> DEFINE r == [runs[g] EXCEPT !.grand = "running"]
<1>1. runs' = [runs EXCEPT ![g] = r]
  BY DEF Fork
<1>2. RunStep(runs[g], r)
  BY RunIs, Forked DEF LifeInv, Fork, Alive
<1>3. UNCHANGED <<mode, stage, fleet, world, bits, runner, output, notes, stop, ops>>
  BY DEF Fork, others, quiet
<1> HIDE DEF r
<1> QED
  BY <1>1, <1>2, <1>3, OnlyRun, OutputSame DEF LifeInv

LEMMA WritesKeeps ==
  ASSUME LifeInv, NEW g \in Run, Writes(g)
  PROVE  LifeInv'
<1>1. PICK s \in Stream : runs' = [runs EXCEPT ![g].unread[s] = @ + 1, ![g].written = @ + 1]
  BY DEF Writes
<1> DEFINE r == [runs[g] EXCEPT !.unread[s] = @ + 1, !.written = @ + 1]
<1>2. runs' = [runs EXCEPT ![g] = r]
  BY <1>1
<1>3. RunStep(runs[g], r)
  BY RunIs, Wrote DEF LifeInv, Writes, Alive
<1>4. UNCHANGED <<mode, stage, fleet, world, bits, runner, output, notes, stop, ops>>
  BY DEF Writes, others, quiet
<1> HIDE DEF r
<1> QED
  BY <1>2, <1>3, <1>4, OnlyRun, OutputSame DEF LifeInv

LEMMA ExitKeeps ==
  ASSUME LifeInv, NEW g \in Run, NEW status \in {"zero", "term"}, Exit(g, status)
  PROVE  LifeInv'
<1> DEFINE r == [runs[g] EXCEPT !.child = "zombie", !.status = status]
<1>1. runs' = [runs EXCEPT ![g] = r]
  BY DEF Exit
<1>2. RunStep(runs[g], r)
  BY RunIs, Exited DEF LifeInv, Exit, Alive
<1>3. /\ UNCHANGED <<mode, stage, fleet, world, runner, output, notes, stop, ops>>
      /\ bits' \subseteq {"CHLD", "TERM"}
  BY DEF Exit, others, LifeInv
<1> HIDE DEF r
<1> QED
  BY <1>1, <1>2, <1>3, OnlyRun, OutputSame DEF LifeInv

LEMMA GrandExitKeeps ==
  ASSUME LifeInv, NEW g \in Run, GrandExit(g)
  PROVE  LifeInv'
<1>1. PICK grand \in {"gone", "zombie"} : runs' = [runs EXCEPT ![g].grand = grand]
  BY DEF GrandExit
<1> DEFINE r == [runs[g] EXCEPT !.grand = grand]
<1>2. runs' = [runs EXCEPT ![g] = r]
  BY <1>1
<1>3. RunStep(runs[g], r)
  BY RunIs, GrandExited DEF LifeInv, GrandExit, Alive
<1>4. /\ UNCHANGED <<mode, stage, fleet, world, runner, output, notes, stop, ops>>
      /\ bits' \subseteq {"CHLD", "TERM"}
  BY DEF GrandExit, others, LifeInv
<1> HIDE DEF r
<1> QED
  BY <1>2, <1>3, <1>4, OnlyRun, OutputSame DEF LifeInv

LEMMA NoteStartKeeps ==
  ASSUME LifeInv, NEW g \in Run, NoteStart(g)
  PROVE  LifeInv'
<1> DEFINE r == [runs[g] EXCEPT !.sup = "noted"]
<1>1. runs' = [runs EXCEPT ![g] = r]
  BY DEF NoteStart, To
<1>2. RunStep(runs[g], r)
  BY RunIs, Noted DEF LifeInv, NoteStart, At
<1>3. UNCHANGED <<mode, stage, fleet, world, bits, runner, notes, stop, ops>>
  BY DEF NoteStart, others, quiet
<1>4. OutputInv'
  BY AddsKeeps DEF LifeInv, NoteStart
<1> HIDE DEF r
<1> QED
  BY <1>1, <1>2, <1>3, <1>4, OnlyRun DEF LifeInv

LEMMA DrainKeeps ==
  ASSUME LifeInv, NEW g \in Run, NEW s \in Stream, Drain(g, s)
  PROVE  LifeInv'
<1> DEFINE r == [runs[g] EXCEPT !.unread[s] = @ - 1]
<1>1. runs' = [runs EXCEPT ![g] = r]
  BY DEF Drain
<1>2. RunStep(runs[g], r)
  BY RunIs, Emptied DEF LifeInv, Drain
<1>3. UNCHANGED <<mode, stage, fleet, world, bits, runner, notes, stop, ops>>
  BY DEF Drain, others, quiet
<1>4. OutputInv'
  BY AddsKeeps DEF LifeInv, Drain
<1> HIDE DEF r
<1> QED
  BY <1>1, <1>2, <1>3, <1>4, OnlyRun DEF LifeInv

LEMMA StopKillKeeps ==
  ASSUME LifeInv, StopKill
  PROVE  LifeInv'
<1>1. stop \in Run
  BY DEF LifeInv, PageInv, StopKill
<1> DEFINE g == stop
           r == Told(runs[g])
<1>2. runs' = [runs EXCEPT ![g] = r]
  BY DEF StopKill
<1>3. RunStep(runs[g], r)
  BY <1>1, RunIs, ToldStep DEF LifeInv
<1>4. UNCHANGED <<mode, stage, fleet, world, bits, runner, output, notes, ops>> /\ stop' = 0
  BY DEF StopKill, others, quiet
<1>5. PageSteady
  BY <1>4 DEF LifeInv, PageInv, PageSteady
<1> HIDE DEF r
<1> QED
  BY <1>1, <1>2, <1>3, <1>4, <1>5, OneSteps, OutputSame, FleetSame, OpsSame DEF LifeInv

\* The run that is left comes to its end, and the page is told of it.
LEMMA LastFinishes ==
  ASSUME RunsInv, PageInv, NEW g \in Run, runs[g].sup # "finished", mode = "dev", stage = "serving",
         NEW r \in RunType, Sound(r), r.sup = "finished", NEW code \in Status, r.status = code,
         runs' = [runs EXCEPT ![g] = r], runner' = Finished(code), notes' = notes \cup {g},
         UNCHANGED <<mode, stage, stop>>
  PROVE  RunsInv' /\ PageInv'
<1>1. runs \in Seq(RunType) /\ Len(runs) \in Nat /\ Run = 1 .. Len(runs) /\ g \in Nat
  BY DEF RunsInv, Run
<1>2. /\ runs' \in Seq(RunType) /\ Len(runs') = Len(runs) /\ runs'[g] = r /\ Run' = Run
      /\ \A h \in Run : h # g => runs'[h] = runs[h]
  BY <1>1 DEF Run
<1>3. g = Len(runs)
  <2>1. CASE g < Len(runs)
    <3>1. Len(runs) \in Run
      BY <1>1, <2>1
    <3> QED
      BY <2>1, <3>1 DEF RunsInv
  <2> QED
    BY <1>1, <2>1
<1>4. AllFinished'
  <2>1. \A h \in Run : h # g => h < g
    BY <1>1, <1>3
  <2>2. \A h \in Run : runs'[h].sup = "finished"
    BY <1>2, <2>1 DEF RunsInv
  <2> QED
    BY <1>2, <2>2 DEF AllFinished
<1>5. \A h \in Run : Sound(runs[h])'
  <2>1. \A h \in Run : Sound(runs'[h])
    BY <1>2 DEF RunsInv
  <2> QED
    BY <2>1 DEF Sound
<1>6. RunsInv'
  BY <1>2, <1>4, <1>5 DEF RunsInv, AllFinished
<1>7. /\ runner' \in RunnerType /\ ~runner'.running /\ runner'.exited /\ runner'.code = code
      /\ runner'.process = 0 /\ runner'.command = runner.command
  <2>1. runner \in RunnerType
    BY DEF PageInv
  <2> QED
    BY <2>1 DEF Finished, RunnerType
<1>8. runs' # <<>>
  BY <1>1, <1>2
<1>9. runner'.code = runs'[Len(runs')].status
  BY <1>2, <1>3, <1>7
<1>10. runner'.command = Len(runs') /\ stop' \in Run' \cup {0} /\ notes' \subseteq Run'
  BY <1>2, <1>7 DEF PageInv
<1>11. PageInv'
  BY <1>4, <1>7, <1>8, <1>9, <1>10 DEF PageInv
<1> QED
  BY <1>6, <1>11

LEMMA CaptureKeeps ==
  ASSUME LifeInv, NEW g \in Run, Capture(g)
  PROVE  LifeInv'
<1>1. CASE To(g, "ready") /\ UNCHANGED <<runner, notes>>
  <2> DEFINE r == [runs[g] EXCEPT !.sup = "ready"]
  <2>1. runs' = [runs EXCEPT ![g] = r]
    BY <1>1 DEF To
  <2>2. RunStep(runs[g], r)
    BY RunIs, Captured DEF LifeInv, Capture, At
  <2>3. UNCHANGED <<mode, stage, fleet, world, bits, runner, output, notes, stop, ops>>
    BY <1>1 DEF Capture, others, quiet
  <2> HIDE DEF r
  <2> QED
    BY <2>1, <2>2, <2>3, OnlyRun, OutputSame DEF LifeInv
<1>2. CASE /\ runs' = [runs EXCEPT ![g].sup = "finished", ![g].status = "unstarted"]
           /\ runner' = Finished("unstarted") /\ notes' = notes \cup {g}
  <2> DEFINE r == [runs[g] EXCEPT !.sup = "finished", !.status = "unstarted"]
  <2>1. runs' = [runs EXCEPT ![g] = r]
    BY <1>2
  <2>2. runs[g] \in RunType /\ Sound(runs[g]) /\ runs[g].sup = "noted"
    BY RunIs DEF LifeInv, Capture, At
  <2>3. r \in RunType /\ Sound(r) /\ r.sup = "finished" /\ r.status = "unstarted"
    BY <2>2 DEF RunType, Sound, Early, Status
  <2>4. UNCHANGED <<mode, stage, fleet, world, bits, output, stop, ops>> /\ mode = "dev"
        /\ stage = "serving"
    BY <2>2 DEF Capture, others, quiet, LifeInv, RunsInv, FleetInv, At
  <2> HIDE DEF r
  <2>5. RunsInv' /\ PageInv'
    BY <1>2, <2>1, <2>2, <2>3, <2>4, LastFinishes DEF LifeInv, Status
  <2> QED
    BY <2>4, <2>5, FleetSame, OpsSame, OutputSame DEF LifeInv
<1> QED
  BY <1>1, <1>2 DEF Capture

LEMMA FinishKeeps ==
  ASSUME LifeInv, NEW g \in Run, Finish(g)
  PROVE  LifeInv'
<1> DEFINE r == [runs[g] EXCEPT !.sup = "finished"]
           code == runs[g].code
<1>1. runs' = [runs EXCEPT ![g] = r]
  BY DEF Finish, To
<1>2. runs[g] \in RunType /\ Sound(runs[g]) /\ runs[g].sup = "returned" /\ Drained(g)
  BY RunIs DEF LifeInv, Finish, At
<1>3. r \in RunType /\ Sound(r) /\ r.sup = "finished" /\ r.status = code /\ code \in Status
  BY <1>2 DEF RunType, Sound, Early, Drained
<1>4. UNCHANGED <<mode, stage, fleet, world, bits, output, stop, ops>> /\ mode = "dev"
      /\ stage = "serving" /\ runner' = Finished(code) /\ notes' = notes \cup {g}
  BY DEF Finish, others, quiet, At
<1> HIDE DEF r, code
<1>5. RunsInv' /\ PageInv'
  BY <1>1, <1>2, <1>3, <1>4, LastFinishes DEF LifeInv
<1> QED
  BY <1>4, <1>5, FleetSame, OpsSame, OutputSame DEF LifeInv

\* A function on the indices of a sequence is a sequence of the same length.
LEMMA SequenceFrom ==
  ASSUME NEW S, NEW n \in Nat, NEW q, q = [g \in 1 .. n |-> q[g]], \A g \in 1 .. n : q[g] \in S
  PROVE  q \in Seq(S) /\ Len(q) = n
<1>1. q \in [1 .. n -> S]
  OBVIOUS
<1> QED
  BY <1>1

\* The runs and the page do not change, and the stage is not the first one.
LEMMA RunsSame ==
  ASSUME RunsInv, PageInv, UNCHANGED <<mode, runs, runner, notes>>, stop' \in Run \cup {0},
         stage' # "starting" \/ stage' = stage
  PROVE  RunsInv' /\ PageInv'
<1>1. \A g \in Run : Sound(runs[g])'
  BY DEF RunsInv, Sound
<1> QED
  BY <1>1 DEF RunsInv, PageInv, Run, AllFinished

LEMMA DeliverKeeps ==
  ASSUME LifeInv, NEW sig \in {"CHLD", "TERM"}, Deliver(sig)
  PROVE  LifeInv'
<1>1. \A g \in Run : runs[g] \in RunType /\ Sound(runs[g])
  BY RunIs DEF LifeInv
<1>2. /\ UNCHANGED <<mode, stage, fleet, world, runner, output, notes, stop, ops>>
      /\ bits' \subseteq {"CHLD", "TERM"}
  BY DEF Deliver, others, LifeInv
<1>3. runs' = [g \in Run |-> IF Listening(g) /\ Room(g)
                             THEN [runs[g] EXCEPT !.queue = Append(@, sig)] ELSE runs[g]]
  BY DEF Deliver
<1>4. ASSUME NEW g \in Run PROVE RunStep(runs[g], runs'[g])
  <2>1. CASE Listening(g) /\ Room(g)
    <3>1. runs'[g] = [runs[g] EXCEPT !.queue = Append(@, sig)]
      BY <1>3, <2>1
    <3> QED
      BY <1>1, <2>1, <3>1, Queued DEF Room
  <2>2. CASE ~(Listening(g) /\ Room(g))
    <3>1. runs'[g] = runs[g]
      BY <1>3, <2>2
    <3> QED
      BY <1>1, <3>1, Same
  <2> QED
    BY <2>1, <2>2
<1>5. DOMAIN runs' = Run /\ \A g \in Run : runs'[g] \in RunType
  BY <1>3, <1>4 DEF RunStep
<1>6. runs' = [g \in Run |-> runs'[g]]
  BY <1>3
<1>7. runs' \in Seq(RunType) /\ Len(runs') = Len(runs)
  <2>1. Run = 1 .. Len(runs) /\ Len(runs) \in Nat
    BY DEF LifeInv, RunsInv, Run
  <2> QED
    BY <1>5, <1>6, <2>1, SequenceFrom
<1> QED
  BY <1>2, <1>4, <1>7, RunsKeep, PageStays, FleetSame, OpsSame, OutputSame DEF LifeInv

LEMMA ReapKeeps ==
  ASSUME LifeInv, NEW g \in Run, Reap(g)
  PROVE  LifeInv'
<1> DEFINE own == [Reaped(runs[g]) EXCEPT !.queue = Tail(@),
                     !.sup = IF runs[g].child = "zombie" THEN "returned" ELSE @,
                     !.code = IF runs[g].child = "zombie" THEN runs[g].status ELSE @]
<1>1. \A h \in Run : runs[h] \in RunType /\ Sound(runs[h])
  BY RunIs DEF LifeInv
<1>2. /\ UNCHANGED <<mode, stage, fleet, world, bits, runner, output, notes, stop, ops>>
      /\ runs[g].queue # <<>> /\ runs[g].sup = "loop"
  BY DEF Reap, At, others, quiet
<1>3. runs' = [h \in Run |-> IF h # g THEN Reaped(runs[h]) ELSE own]
  BY DEF Reap
<1>4. RunStep(runs[g], own)
  BY <1>1, <1>2, ReapedOwn
<1> HIDE DEF own
<1>5. ASSUME NEW h \in Run PROVE RunStep(runs[h], runs'[h])
  <2>1. CASE h = g
    BY <1>3, <1>4, <2>1
  <2>2. CASE h # g
    <3>1. runs'[h] = Reaped(runs[h])
      BY <1>3, <2>2
    <3> QED
      BY <1>1, <3>1, ReapedOther
  <2> QED
    BY <2>1, <2>2
<1>6. DOMAIN runs' = Run /\ \A h \in Run : runs'[h] \in RunType
  BY <1>3, <1>5 DEF RunStep
<1>7. runs' = [h \in Run |-> runs'[h]]
  BY <1>3
<1>8. runs' \in Seq(RunType) /\ Len(runs') = Len(runs)
  <2>1. Run = 1 .. Len(runs) /\ Len(runs) \in Nat
    BY DEF LifeInv, RunsInv, Run
  <2> QED
    BY <1>6, <1>7, <2>1, SequenceFrom
<1> QED
  BY <1>2, <1>5, <1>8, RunsKeep, PageStays, FleetSame, OpsSame, OutputSame DEF LifeInv

LEMMA ClaimKeeps ==
  ASSUME LifeInv, Claim
  PROVE  LifeInv'
<1> DEFINE r == NewRun("claimed")
           n == Len(runs) + 1
<1>1. r \in RunType /\ Sound(r) /\ r.sup = "claimed"
  BY LifecycleAssumption DEF NewRun, RunType, Sound, Early, Status, Stream
<1>2. /\ UNCHANGED <<mode, stage, fleet, world, bits, output, notes, stop, ops>>
      /\ mode = "dev" /\ stage = "serving" /\ AllFinished
  BY DEF Claim, MayClaim, LifeInv, PageInv, others, quiet
<1>3. runs' = Append(runs, r) /\ runs \in Seq(RunType)
  BY DEF Claim, LifeInv, RunsInv
<1> HIDE DEF r
<1>4. /\ runs' \in Seq(RunType) /\ Len(runs') = n /\ Run = 1 .. Len(runs) /\ Run' = 1 .. n
      /\ runs'[n] = r /\ Len(runs) \in Nat /\ \A g \in Run : runs'[g] = runs[g]
  BY <1>1, <1>3 DEF Run
<1>5. n \in Nat /\ Run' = Run \cup {n} /\ runs' # <<>> /\ \A g \in Run : g < n
  BY <1>4
<1>6. \A g \in Run' : Sound(runs'[g])
  BY <1>1, <1>4, <1>5 DEF LifeInv, RunsInv
<1>7. \A g \in Run' : Sound(runs[g])'
  BY <1>6 DEF Sound
<1>8. \A g, h \in Run' : g < h => runs'[g].sup = "finished"
  <2> SUFFICES ASSUME NEW g \in Run', NEW h \in Run', g < h PROVE runs'[g].sup = "finished"
    OBVIOUS
  <2>1. g \in Run
    BY <1>4
  <2> QED
    BY <1>2, <1>4, <2>1 DEF AllFinished
<1>9. RunsInv'
  BY <1>2, <1>4, <1>7, <1>8 DEF RunsInv
<1>10. /\ runner' \in RunnerType /\ runner'.running /\ ~runner'.exited /\ runner'.command = n
       /\ runner'.process = runner.process
  <2>1. runner' = [runner EXCEPT !.running = TRUE, !.exited = FALSE, !.command = n]
    BY DEF Claim
  <2>2. runner \in RunnerType
    BY DEF LifeInv, PageInv
  <2> HIDE DEF n
  <2> QED
    BY <1>5, <2>1, <2>2 DEF RunnerType
<1>11. PageInv'
  BY <1>2, <1>4, <1>5, <1>10 DEF PageInv, LifeInv
<1> QED
  BY <1>2, <1>9, <1>11, FleetSame, OpsSame, OutputSame DEF LifeInv

LEMMA ServeKeeps ==
  ASSUME LifeInv, Serve
  PROVE  LifeInv'
<1> DEFINE r == NewRun("ready")
<1>1. r \in RunType /\ Sound(r) /\ r.sup = "ready"
  BY LifecycleAssumption DEF NewRun, RunType, Sound, Early, Status, Stream
<1>2. UNCHANGED <<mode, fleet, world, bits, runner, output, notes, stop, ops>> /\ stage = "starting"
      /\ stage' = "serving" /\ runs = <<>> /\ fleet.added = Len(Service)
  BY DEF Serve, LifeInv, RunsInv, others, quiet
<1>3. FleetInv'
  <2>1. DOMAIN Service = 1 .. Len(Service)
    BY LifecycleAssumption
  <2> QED
    BY <1>2, <2>1 DEF LifeInv, FleetInv
<1>4. OpsInv'
  BY <1>2 DEF LifeInv, OpsInv
<1>5. Run = {} /\ runner.process = 0 /\ stop = 0 /\ notes = {} /\ ~runner.exited /\ Len(runs) = 0
  BY <1>2 DEF LifeInv, PageInv, Run
<1>6. CASE mode = "run"
  <2>1. runs' = <<r>>
    BY <1>6 DEF Serve
  <2> HIDE DEF r
  <2>2. runs' \in Seq(RunType) /\ Len(runs') = 1 /\ Run' = {1} /\ runs'[1] = r
    BY <1>1, <2>1 DEF Run
  <2>3. \A g \in Run' : Sound(runs[g])'
    BY <1>1, <2>2 DEF Sound
  <2>4. RunsInv'
    BY <1>1, <1>2, <2>2, <2>3 DEF RunsInv
  <2>5. PageInv'
    BY <1>2, <1>5, <1>6 DEF LifeInv, PageInv
  <2> QED
    BY <1>2, <1>3, <1>4, <2>4, <2>5, OutputSame DEF LifeInv
<1>7. CASE mode = "dev"
  <2>1. runs' = runs
    BY <1>7 DEF Serve
  <2> QED
    BY <1>2, <1>3, <1>4, <1>5, <2>1, RunsSame, OutputSame DEF LifeInv
<1> QED
  BY <1>6, <1>7 DEF LifeInv, FleetInv

LEMMA NoteExitKeeps ==
  ASSUME LifeInv, NEW g \in Run, NoteExit(g)
  PROVE  LifeInv'
<1>1. UNCHANGED <<mode, stage, fleet, world, runs, bits, runner, stop, ops>> /\ notes' \subseteq Run
  BY DEF NoteExit, others, quiet, LifeInv, PageInv
<1>2. RunsInv' /\ PageInv'
  <2>1. \A h \in Run : RunStep(runs[h], runs'[h])
    BY <1>1, RunIs, Same DEF LifeInv
  <2>2. PageSteady
    BY <1>1 DEF LifeInv, PageInv, PageSteady
  <2> QED
    BY <1>1, <2>1, <2>2, RunsKeep DEF LifeInv, RunsInv
<1>3. OutputInv'
  BY AddsKeeps DEF LifeInv, NoteExit
<1> QED
  BY <1>1, <1>2, <1>3, FleetSame, OpsSame DEF LifeInv

LEMMA StopReadKeeps ==
  ASSUME LifeInv, StopRead
  PROVE  LifeInv'
<1>1. UNCHANGED <<mode, stage, fleet, world, runs, bits, runner, output, notes, ops>>
      /\ stop' \in Run \cup {0}
  BY DEF StopRead, others, quiet, LifeInv, PageInv
<1> QED
  BY <1>1, RunsSame, FleetSame, OpsSame, OutputSame DEF LifeInv

LEMMA KillKeeps ==
  ASSUME LifeInv, Kill
  PROVE  LifeInv'
<1>1. /\ UNCHANGED <<mode, stage, fleet, world, runs, runner, output, notes, stop, ops>>
      /\ bits' \subseteq {"CHLD", "TERM"} /\ stop' \in Run \cup {0}
  BY DEF Kill, others, LifeInv, PageInv
<1> QED
  BY <1>1, RunsSame, FleetSame, OpsSame, OutputSame DEF LifeInv

\* What is closed is closed, whatever was open.
LEMMA ClosedAll ==
  ASSUME FleetInv, CloseAll
  PROVE  world' = [backends |-> {}, listeners |-> {}]
<1>1. world.backends \ fleet.backends = {} /\ world.listeners \ fleet.listeners = {}
  BY DEF FleetInv
<1> QED
  BY <1>1 DEF CloseAll

LEMMA FleetClosed ==
  ASSUME FleetInv, CloseAll, UNCHANGED <<mode, fleet>>, stage' \in {"failed", "over"}
  PROVE  FleetInv'
<1>1. world' = [backends |-> {}, listeners |-> {}]
  BY ClosedAll
<1> QED
  BY <1>1 DEF FleetInv

LEMMA AddKeeps ==
  ASSUME LifeInv, Add
  PROVE  LifeInv'
<1> DEFINE n == fleet.added + 1
           service == Service[n]
           all == {Service[i] : i \in DOMAIN Service}
<1>1. /\ UNCHANGED <<mode, runs, bits, runner, output, notes, stop, ops>> /\ stage = "starting"
      /\ stop' \in Run \cup {0}
  BY DEF Add, quiet, LifeInv, PageInv
<1>2. PICK step \in {"build", "seed", "bind", "none"} :
        /\ fleet' = IF step = "build" THEN [fleet EXCEPT !.added = @ + 1]
                    ELSE Listed(service, step = "none")
        /\ world' = [backends |-> IF step = "build" THEN world.backends
                                  ELSE world.backends \cup {service},
                     listeners |-> IF step = "none" THEN world.listeners \cup {service}
                                   ELSE world.listeners]
        /\ stage' = IF step = "none" THEN stage ELSE "closing"
  BY DEF Add
<1>3. /\ n \in 1 .. Len(Service) /\ DOMAIN Service = 1 .. Len(Service) /\ service \in all
      /\ fleet.added \in Nat /\ Len(Service) \in Nat
      /\ {Service[i] : i \in 1 .. n} = {Service[i] : i \in 1 .. fleet.added} \cup {service}
  <2>1. fleet.added \in 0 .. Len(Service) /\ fleet.added < Len(Service)
    BY DEF LifeInv, FleetInv, Add
  <2>2. DOMAIN Service = 1 .. Len(Service) /\ Len(Service) \in Nat
    BY LifecycleAssumption
  <2>3. n \in 1 .. Len(Service) /\ 1 .. n = (1 .. fleet.added) \cup {n}
    BY <2>1, <2>2
  <2> QED
    BY <2>1, <2>2, <2>3
<1>4. /\ fleet \in [added : 0 .. Len(Service), backends : SUBSET all, listeners : SUBSET all]
      /\ world \in [backends : SUBSET fleet.backends, listeners : SUBSET fleet.listeners]
      /\ fleet.listeners = {Service[i] : i \in 1 .. fleet.added}
      /\ world.listeners = fleet.listeners
  BY <1>1 DEF LifeInv, FleetInv
<1> HIDE DEF n, service, all
<1>5. /\ fleet' \in [added : 0 .. Len(Service), backends : SUBSET all, listeners : SUBSET all]
      /\ fleet'.added = n
      /\ fleet'.backends = IF step = "build" THEN fleet.backends ELSE fleet.backends \cup {service}
      /\ fleet'.listeners = IF step = "none" THEN fleet.listeners \cup {service} ELSE fleet.listeners
  <2>1. CASE step = "build"
    <3>1. fleet' = [fleet EXCEPT !.added = n]
      BY <1>2, <2>1 DEF n
    <3> QED
      BY <1>3, <1>4, <2>1, <3>1
  <2>2. CASE step # "build"
    <3> DEFINE p == [fleet EXCEPT !.added = n]
               q == [p EXCEPT !.backends = @ \cup {service}]
    <3>1. fleet' = [q EXCEPT !.listeners = IF step = "none" THEN @ \cup {service} ELSE @]
      BY <1>2, <2>2 DEF Listed, n
    <3>2. /\ p \in [added : 0 .. Len(Service), backends : SUBSET all, listeners : SUBSET all]
          /\ p.added = n /\ p.backends = fleet.backends /\ p.listeners = fleet.listeners
      BY <1>3, <1>4
    <3> HIDE DEF p
    <3>3. /\ q \in [added : 0 .. Len(Service), backends : SUBSET all, listeners : SUBSET all]
          /\ q.added = n /\ q.backends = fleet.backends \cup {service}
          /\ q.listeners = fleet.listeners
      BY <1>3, <3>2
    <3> HIDE DEF q
    <3> QED
      BY <1>3, <2>2, <3>1, <3>3
  <2> QED
    BY <2>1, <2>2
<1>6. world' \in [backends : SUBSET fleet'.backends, listeners : SUBSET fleet'.listeners]
  BY <1>2, <1>4, <1>5
<1>7. step = "none" => /\ fleet'.listeners = {Service[i] : i \in 1 .. n}
                       /\ world'.listeners = fleet'.listeners
  BY <1>2, <1>3, <1>4, <1>5
<1>8. stage' \in {"starting", "closing"} /\ (stage' = "starting" => step = "none")
  BY <1>1, <1>2
<1>9. FleetInv'
  BY <1>1, <1>5, <1>6, <1>7, <1>8 DEF FleetInv, LifeInv, all
<1>10. OpsInv'
  BY <1>1, <1>8 DEF OpsInv, LifeInv
<1>11. RunsInv' /\ PageInv'
  BY <1>1, <1>8, RunsSame DEF LifeInv
<1> QED
  BY <1>1, <1>9, <1>10, <1>11, OutputSame DEF LifeInv

LEMMA TeardownKeeps ==
  ASSUME LifeInv, Teardown
  PROVE  LifeInv'
<1>1. /\ UNCHANGED <<mode, fleet, runs, bits, runner, output, notes, stop, ops>>
      /\ stage = "closing" /\ stage' = "failed" /\ CloseAll /\ stop' \in Run \cup {0}
  BY DEF Teardown, quiet, LifeInv, PageInv
<1>2. OpsInv'
  BY <1>1 DEF LifeInv, OpsInv
<1> QED
  BY <1>1, <1>2, FleetClosed, RunsSame, OutputSame DEF LifeInv

LEMMA UnservedKeeps ==
  ASSUME LifeInv, Unserved
  PROVE  LifeInv'
<1>1. /\ UNCHANGED <<mode, fleet, world, runs, bits, runner, output, notes, stop, ops>>
      /\ stage = "starting" /\ stage' = "closing" /\ stop' \in Run \cup {0}
  BY DEF Unserved, others, quiet, LifeInv, PageInv
<1>2. OpsInv' /\ FleetInv'
  BY <1>1 DEF LifeInv, OpsInv, FleetInv
<1> QED
  BY <1>1, <1>2, RunsSame, OutputSame DEF LifeInv

\* What the dump has is what the log has, once nothing more is recorded.
LEMMA OverKeeps ==
  ASSUME LifeInv, UNCHANGED <<mode, fleet, runs, bits, runner, output, notes, stop>>,
         stage' = "over", CloseAll, ops' = ops \/ ops' = [ops EXCEPT !.dump = ops.log]
  PROVE  LifeInv'
<1>1. OpsInv'
  <2>1. ops \in OpsType
    BY DEF LifeInv, OpsInv
  <2> QED
    BY <2>1 DEF LifeInv, OpsInv, OpsType
<1>2. stop' \in Run \cup {0}
  BY DEF LifeInv, PageInv
<1> QED
  BY <1>1, <1>2, FleetClosed, RunsSame, OutputSame DEF LifeInv

LEMMA EndKeeps ==
  ASSUME LifeInv, Interrupt \/ RunEnds
  PROVE  LifeInv'
<1>1. /\ UNCHANGED <<mode, fleet, runs, bits, runner, output, notes, stop>> /\ stage' = "over" /\ CloseAll
      /\ ops' = ops \/ ops' = [ops EXCEPT !.dump = ops.log]
  BY DEF Interrupt, RunEnds, quiet
<1> QED
  BY <1>1, OverKeeps

\* An operation goes on the wire, is recorded, and is answered.
LEMMA OpsKeep ==
  ASSUME LifeInv, Issue \/ Handle
  PROVE  LifeInv'
<1>1. /\ UNCHANGED <<mode, stage, fleet, world, runs, bits, runner, output, notes, stop>>
      /\ stop' \in Run \cup {0}
  BY DEF Issue, Handle, others, quiet, LifeInv, PageInv
<1>2. ops \in OpsType
  BY DEF LifeInv, OpsInv
<1>3. OpsInv'
  <2>1. CASE Issue
    <3>1. ops' = [ops EXCEPT !.wire = 1, !.sent = @ + 1]
      BY <2>1 DEF Issue
    <3>2. /\ ops' \in OpsType /\ ops'.taken = ops.taken /\ ops'.log = ops.log
          /\ ops'.seen = ops.seen /\ ops'.dump = ops.dump
      <4> DEFINE q == [ops EXCEPT !.wire = 1]
      <4>1. /\ q \in OpsType /\ q.taken = ops.taken /\ q.log = ops.log /\ q.seen = ops.seen
            /\ q.dump = ops.dump
        BY <1>2 DEF OpsType
      <4>2. ops' = [q EXCEPT !.sent = @ + 1]
        BY <3>1
      <4> HIDE DEF q
      <4> QED
        BY <4>1, <4>2 DEF OpsType
    <3> QED
      BY <1>1, <1>2, <3>2 DEF LifeInv, OpsInv, OpsType
  <2>2. CASE Handle
    <3>1. stage = "serving" /\ ops.dump = NoDump
      BY <2>2 DEF Handle, LifeInv, OpsInv
    <3>2. CASE ops' = Logged([ops EXCEPT !.phase = "step", !.wire = 0, !.taken = @ + 1], "before")
      <4>1. /\ ops' \in OpsType /\ ops'.taken = ops.taken + 1 /\ ops'.log = ops.log + 1
            /\ ops'.seen = ops.seen /\ ops'.dump = ops.dump
        <5> DEFINE p == [ops EXCEPT !.phase = "step", !.wire = 0]
                   q == [p EXCEPT !.taken = @ + 1]
        <5>1. /\ p \in OpsType /\ p.taken = ops.taken /\ p.log = ops.log /\ p.seen = ops.seen
              /\ p.dump = ops.dump
          BY <1>2 DEF OpsType
        <5>2. ops' = [q EXCEPT !.log = @ + 1]
          BY <3>2 DEF Logged
        <5> HIDE DEF p
        <5>3. /\ q \in OpsType /\ q.taken = ops.taken + 1 /\ q.log = ops.log /\ q.seen = ops.seen
              /\ q.dump = ops.dump
          BY <5>1 DEF OpsType
        <5> HIDE DEF q
        <5> QED
          BY <5>2, <5>3 DEF OpsType
      <4> QED
        BY <1>1, <1>2, <3>1, <4>1 DEF LifeInv, OpsInv, OpsType
    <3>3. CASE ops' = [ops EXCEPT !.phase = "done", !.seen = IF Alive(runs[1].child) THEN ops.taken ELSE @]
      <4>1. /\ ops' \in OpsType /\ ops'.taken = ops.taken /\ ops'.log = ops.log
            /\ ops'.seen \in {ops.seen, ops.taken} /\ ops'.dump = ops.dump
        BY <1>2, <3>3 DEF OpsType
      <4> QED
        BY <1>1, <1>2, <3>1, <4>1 DEF LifeInv, OpsInv, OpsType
    <3>4. CASE ops' = Logged([ops EXCEPT !.phase = "next"], "after")
      <4>1. /\ ops' \in OpsType /\ ops'.taken = ops.taken /\ ops'.log = ops.log
            /\ ops'.seen = ops.seen /\ ops'.dump = ops.dump
        BY <1>2, <3>4 DEF Logged, OpsType
      <4> QED
        BY <1>1, <1>2, <3>1, <4>1 DEF LifeInv, OpsInv, OpsType
    <3> QED
      BY <2>2, <3>2, <3>3, <3>4 DEF Handle
  <2> QED
    BY <2>1, <2>2
<1> QED
  BY <1>1, <1>3, FleetSame, RunsSame, OutputSame DEF LifeInv

LEMMA StutterKeeps ==
  ASSUME LifeInv, UNCHANGED vars
  PROVE  LifeInv'
<1>1. /\ UNCHANGED <<mode, stage, fleet, world, runs, bits, runner, output, notes, stop, ops>>
      /\ stop' \in Run \cup {0}
  BY DEF vars, LifeInv, PageInv
<1> QED
  BY <1>1, FleetSame, RunsSame, OpsSame, OutputSame DEF LifeInv

----------------------------------------------------------------------------
(* The theorems *)

LEMMA LifeInit ==
  ASSUME Init
  PROVE  LifeInv
<1>1. Len(Service) \in Nat
  BY LifecycleAssumption
<1>2. FleetInv
  BY <1>1 DEF Init, FleetInv
<1>3. RunsInv
  BY DEF Init, RunsInv, Run
<1>4. PageInv
  BY DEF Init, PageInv, RunnerType, Run, AllFinished, Status
<1>5. OpsInv
  BY DEF Init, OpsInv, OpsType, NoDump
<1>6. OutputInv
  BY DEF Init, OutputInv, OutputType, OutputAccounts
<1> QED
  BY <1>2, <1>3, <1>4, <1>5, <1>6 DEF LifeInv, Init

LEMMA LifeNext ==
  ASSUME LifeInv, [Next]_vars
  PROVE  LifeInv'
<1>1. CASE \E sig \in {"CHLD", "TERM"} : Deliver(sig)
  BY <1>1, DeliverKeeps
<1>2. ASSUME NEW g \in Run, Emu(g) PROVE LifeInv'
  BY <1>2, NoteStartKeeps, CaptureKeeps, RegisterKeeps, SpawnKeeps, TrackKeeps, ForwardKeeps,
     ReapKeeps, FinishKeeps DEF Emu
<1>3. ASSUME NEW g \in Run, NoteExit(g) \/ Fork(g) \/ Writes(g) \/ GrandExit(g) PROVE LifeInv'
  BY <1>3, NoteExitKeeps, ForkKeeps, WritesKeeps, GrandExitKeeps
<1>4. ASSUME NEW g \in Run, NEW s \in Stream, Drain(g, s) PROVE LifeInv'
  BY <1>4, DrainKeeps
<1>5. ASSUME NEW g \in Run, NEW status \in {"zero", "term"}, Exit(g, status) PROVE LifeInv'
  BY <1>5, ExitKeeps
<1>6. CASE Add \/ Teardown \/ Serve \/ Unserved \/ Kill \/ Claim
  BY <1>6, AddKeeps, TeardownKeeps, ServeKeeps, UnservedKeeps, KillKeeps, ClaimKeeps
<1>7. CASE StopRead \/ StopKill \/ Interrupt \/ Issue \/ Handle \/ RunEnds
  BY <1>7, StopReadKeeps, StopKillKeeps, EndKeeps, OpsKeep
<1>8. CASE UNCHANGED vars
  BY <1>8, StutterKeeps
<1> QED
  BY <1>1, <1>2, <1>3, <1>4, <1>5, <1>6, <1>7, <1>8 DEF Next

LEMMA LifeAlways == Spec => []LifeInv
<1>1. Init => LifeInv
  BY LifeInit
<1>2. LifeInv /\ [Next]_vars => LifeInv'
  BY LifeNext
<1> QED
  BY <1>1, <1>2, PTL DEF Spec

\* A step of a process that serves, and goes on serving.
LEMMA ServingOn ==
  ASSUME stage' = "serving"
  PROVE  ChildInv'
BY DEF ChildInv

\* A step that leaves the children as they are, and the fleet or the end too.
LEMMA NoNewChild ==
  ASSUME ChildInv, UNCHANGED <<mode, runs>>,
         stage' = stage \/ (stage \in {"starting", "closing"} /\ stage' # "over")
  PROVE  ChildInv'
<1>1. CASE stage' = stage
  BY <1>1 DEF ChildInv, Run
<1>2. CASE stage \in {"starting", "closing"} /\ stage' # "over"
  BY <1>2 DEF ChildInv
<1> QED
  BY <1>1, <1>2

\* The one child of `emu run` has been reaped when RunEnds closes the fleet.
LEMMA ReapedFirst ==
  ASSUME LifeInv, RunEnds
  PROVE  ChildInv'
<1>1. mode' = "run" /\ stage' = "over" /\ runs' = runs /\ runs[1].sup = "returned"
  BY DEF RunEnds
<1>2. \A g \in Run : g = 1
  <2>1. Run = 1 .. Len(runs) /\ Len(runs) \in Nat /\ Len(runs) <= 1
    BY DEF RunEnds, LifeInv, RunsInv, Run
  <2> QED
    BY <2>1
<1>3. \A g \in Run : runs[g].child \in {"none", "gone"}
  BY <1>1, <1>2 DEF LifeInv, RunsInv, Sound
<1> QED
  BY <1>1, <1>3 DEF ChildInv, Alive, Run

LEMMA ChildNext ==
  ASSUME LifeInv, ChildInv, [Next]_vars
  PROVE  ChildInv'
<1>1. CASE \E sig \in {"CHLD", "TERM"} : Deliver(sig)
  BY <1>1, ServingOn DEF Deliver
<1>2. ASSUME NEW g \in Run, Emu(g) PROVE ChildInv'
  BY <1>2, ServingOn DEF Emu, NoteStart, Capture, Register, Spawn, Track, Forward, Reap, Finish, At
<1>3. ASSUME NEW g \in Run, NoteExit(g) \/ Fork(g) \/ Writes(g) \/ GrandExit(g) PROVE ChildInv'
  BY <1>3, ServingOn DEF NoteExit, Fork, Writes, GrandExit
<1>4. ASSUME NEW g \in Run, NEW s \in Stream, Drain(g, s) PROVE ChildInv'
  BY <1>4, ServingOn DEF Drain
<1>5. ASSUME NEW g \in Run, NEW status \in {"zero", "term"}, Exit(g, status) PROVE ChildInv'
  BY <1>5, ServingOn DEF Exit
<1>6. CASE Serve \/ Kill \/ Claim \/ StopRead \/ StopKill \/ Handle
  BY <1>6, ServingOn DEF Serve, Kill, Claim, StopRead, StopKill, Handle
<1>7. CASE Add \/ Teardown \/ Unserved \/ Issue
  <2>1. UNCHANGED <<mode, runs>>
    BY <1>7 DEF Add, Teardown, Unserved, Issue, others
  <2>2. stage' = stage \/ (stage \in {"starting", "closing"} /\ stage' # "over")
    <3>1. CASE Add
      BY <3>1 DEF Add
    <3>2. CASE Teardown \/ Unserved
      BY <3>2 DEF Teardown, Unserved
    <3>3. CASE Issue
      BY <3>3 DEF Issue
    <3> QED
      BY <1>7, <3>1, <3>2, <3>3
  <2> QED
    BY <2>1, <2>2, NoNewChild
<1>8. CASE Interrupt
  BY <1>8 DEF Interrupt, ChildInv
<1>9. CASE RunEnds
  BY <1>9, ReapedFirst
<1>10. CASE UNCHANGED vars
  <2>1. UNCHANGED <<mode, runs>> /\ stage' = stage
    BY <1>10 DEF vars
  <2> QED
    BY <2>1, NoNewChild
<1> QED
  BY <1>1, <1>2, <1>3, <1>4, <1>5, <1>6, <1>7, <1>8, <1>9, <1>10 DEF Next

\* For any services, any number of commands and any number of signals: a child
\* runs beside every service the lesson declared, up to its own end, unless it
\* is one an `emu dev` that is over has left behind; and a start that fails, at
\* whichever service and whichever step of it, leaves no listener and no
\* backend behind.
THEOREM WholeFleetAlways == Spec => []WholeFleetOrNone
<1>1. Init => ChildInv
  BY DEF Init, ChildInv
<1>2. LifeInv /\ ChildInv /\ [Next]_vars => ChildInv'
  BY ChildNext
<1>3. LifeInv /\ ChildInv => WholeFleetOrNone
  <2> SUFFICES ASSUME LifeInv, ChildInv PROVE WholeFleetOrNone
    OBVIOUS
  <2>1. ASSUME NEW g \in Run, Alive(runs[g].child)
        PROVE  stage = "serving" \/ (mode = "dev" /\ stage = "over")
    <3>1. runs # <<>>
      BY DEF Run
    <3>2. mode \in {"run", "dev"} /\ stage \in {"starting", "closing", "failed", "serving", "over"}
      BY DEF LifeInv, FleetInv
    <3>3. stage \notin {"starting", "closing", "failed"}
      BY <3>1 DEF ChildInv
    <3>4. ~(mode = "run" /\ stage = "over")
      BY <2>1 DEF ChildInv
    <3> QED
      BY <3>2, <3>3, <3>4
  <2> QED
    BY <2>1 DEF LifeInv, FleetInv, WholeFleetOrNone
<1> QED
  BY <1>1, <1>2, <1>3, LifeAlways, PTL DEF Spec

\* For any number of commands, signals and pieces of output: the dump has every
\* operation the child saw answered, the page the code of the command it shows,
\* once nobody is left to write to its pipes, and all its output but what it
\* counts as dropped.
THEOREM ReportsAreTrue == Spec => []ReportsTruly
<1> SUFFICES ASSUME LifeInv PROVE ReportsTruly
  BY LifeAlways, PTL
<1>1. \A g \in Run : runs[g] \in RunType /\ Sound(runs[g])
  BY RunIs DEF LifeInv
<1>2. TypeOK
  <2>1. \A g \in Run :
          /\ runs[g].sup \in {"claimed", "noted", "ready", "registered", "spawned", "loop",
                              "returned", "finished"}
          /\ runs[g].child = "none" => runs[g].status \in {"none", "unstarted"}
          /\ Len(runs[g].queue) <= SignalBuffer
    BY <1>1 DEF RunType, Sound, Early
  <2> QED
    BY <2>1 DEF LifeInv, FleetInv, PageInv, TypeOK
<1>3. DumpTellsAnswered
  BY DEF LifeInv, OpsInv, OpsType, DumpTellsAnswered
<1>4. CodeIsTheCommands
  <2>1. runner.exited => runner.command = Len(runs)
    BY DEF LifeInv, PageInv, FleetInv
  <2> QED
    BY <2>1 DEF LifeInv, PageInv, RunsInv, CodeIsTheCommands
<1>5. ExitedMeansDone
  BY <1>1 DEF LifeInv, PageInv, AllFinished, Sound, Alive, ExitedMeansDone
<1>6. OutputAccounts
  BY DEF LifeInv, OutputInv
<1> QED
  BY <1>2, <1>3, <1>4, <1>5, <1>6 DEF ReportsTruly
=============================================================================
