---------------------------- MODULE MCLifecycle ----------------------------
(* Instances of Lifecycle for TLC. *)
EXTENDS Lifecycle

TwoServices == <<"postgres", "queue">>
\* One signal ends emu dev.
SignalsSent == [run |-> 3, dev |-> 1]
=============================================================================
