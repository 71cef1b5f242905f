---------------------------- MODULE MCServeLoop -----------------------------
(* Instances of ServeLoop for TLC. *)
EXTENDS ServeLoop

Anything == [emulator |-> Wildcard, kind |-> Wildcard]
Publish == [emulator |-> "queue", kind |-> "publish"]
AtDepth(bound) == {[gauge |-> "depth", comparison |-> "gte", bound |-> bound]}

Plain == [match |-> Publish, action |-> "error", after |-> 0, times |-> 0,
          limit |-> 0, ms |-> 0, when |-> {}]

SlowAll == [Plain EXCEPT !.match = Anything, !.action = "delay", !.ms = 250]
FailSecond == [Plain EXCEPT !.after = 1, !.times = 1]
DropOnce == [Plain EXCEPT !.action = "drop_conn", !.times = 1]
CapOne == [Plain EXCEPT !.match = Anything, !.action = "cap", !.limit = 1]
CapThree == [CapOne EXCEPT !.limit = 3]
FailOnce == [Plain EXCEPT !.times = 1]
FullAt(bound) == [Plain EXCEPT !.when = AtDepth(bound)]
Malformed == [FailSecond EXCEPT !.action = "cap"]

\* Rules that compete for the outcome beside one that decides the timing.
Competing == <<FailSecond, SlowAll, DropOnce, FullAt(1), CapThree>>
FullAtOne == <<FullAt(1)>>
FullAtTwo == <<FullAt(2)>>
CapThenError == <<CapOne, FailOnce>>
FailsSecond == <<FailSecond>>
NoRules == <<>>

LiveRules == {FailOnce, Malformed}
SyntheticPublish == {[emulator |-> "queue", kind |-> "publish", gauges |-> <<>>]}
=============================================================================
