---------------------------- MODULE MCDashboard -----------------------------
(* An instance of Dashboard, and of the op log it reads, for TLC. *)
EXTENDS Dashboard

\* What an entry of the log is about: a client's operation, or a change of
\* the rules.
Recorded == {"op", "add", "remove", "reset"}
=============================================================================
