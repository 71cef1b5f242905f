----------------------------- MODULE BoundedLog -----------------------------
(***************************************************************************)
(* What the op log promises (README, "The op log"): a record that keeps the*)
(* latest entries in the order they were made, numbers them with a counter *)
(* that never skips, and says how many older ones it has given up.         *)
(***************************************************************************)
EXTENDS Naturals, Sequences

CONSTANTS
  Limit,    \* how many entries are kept
  Payloads  \* what an entry says

VARIABLES
  kept,     \* the latest entries, oldest first
  lost      \* how many earlier ones are gone

Init == kept = <<>> /\ lost = 0

(* The new entry has the next number; the oldest gives way when it must. *)
Add(payload) ==
  LET entry == [n |-> lost + Len(kept) + 1, what |-> payload] IN
  IF Len(kept) < Limit
  THEN kept' = Append(kept, entry) /\ lost' = lost
  ELSE kept' = Append(Tail(kept), entry) /\ lost' = lost + 1

Next == \E payload \in Payloads : Add(payload)

Spec == Init /\ [][Next]_<<kept, lost>>
=============================================================================
