----------------------------- MODULE MCKeySpace -----------------------------
(* An instance of KeySpace for TLC. *)
EXTENDS KeySpace, TLC

CONSTANTS k1, x1, x2

TheSeeds == {Absent, [is |-> <<"number", 0>>, dies |-> 0], [is |-> <<"list", <<>>>>, dies |-> 0]}
TheScript == {"GET", "INCR", "LPOP", "SELECT", "UNKNOWN",
              "HELLO", "QUIT", "EMPTY", "BROKEN"}
=============================================================================
