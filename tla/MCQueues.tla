------------------------------ MODULE MCQueues ------------------------------
(* Instances of Queues for TLC. *)
EXTENDS Queues, TLC

CONSTANTS c1, c2, q1, q2, e1, t1, t2

\* Each connection asks for a consumer tag of its own ...
OwnTags == [c \in Conn |-> IF c = c1 THEN {t1} ELSE {t2}]
\* ... or leaves the tag to the server.
ServerTags == [c \in Conn |-> {Unnamed}]
\* One of them has two consumers, one of whose tags the server makes up.
MixedTags == [c \in Conn |-> IF c = c1 THEN {t1, Unnamed} ELSE {t2}]
AnyTags == [c \in Conn |-> Tag]

NoKeys == {}
TwoKeys == {<<"a">>, <<"b">>}
============================================================================
