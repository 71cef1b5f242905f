------------------------------- MODULE OpLog --------------------------------
(***************************************************************************)
(* The op log (internal/oplog): a ring of entries behind a mutex of its    *)
(* own.  Every method holds that mutex from its first line to its last, so *)
(* each is one step.  Slots are numbered from 1 here, from 0 in the code;  *)
(* oldest keeps the code's numbering.                                      *)
(***************************************************************************)
EXTENDS Naturals, Sequences, Places

CONSTANTS
  Limit,       \* the ring's capacity; New has replaced 0 and less by a default
  Payloads,    \* what an entry says beside its ordinal
  MaxRecords   \* bound: entries ever recorded

ASSUME OpLogAssumption == Limit \in Nat \ {0} /\ MaxRecords \in Nat

VARIABLES
  entries,     \* the slots in use
  oldest,      \* slot of the oldest entry, once the ring is full
  next,        \* the ordinal of the next entry
  dropped      \* how many entries have been overwritten

logVars == <<entries, oldest, next, dropped>>

LogInit ==
  /\ entries = <<>>
  /\ oldest = 0
  /\ next = 1
  /\ dropped = 0

---------------------------------------------------------------------------
(* Mutants of the definitions below. *)
SnapshotUnrotated == entries
---------------------------------------------------------------------------

Record(payload) ==
  LET entry == [n |-> next, what |-> payload] IN
  /\ next' = next + 1
  /\ IF Len(entries) < Limit
     THEN /\ entries' = Append(entries, entry)
          /\ UNCHANGED <<oldest, dropped>>
     ELSE /\ entries' = [entries EXCEPT ![oldest + 1] = entry]
          /\ oldest' = (oldest + 1) % Len(entries)
          /\ dropped' = dropped + 1

(* The ring copied out in order: what Entries returns, and what a dump says. *)
Snapshot == SubSeq(entries, oldest + 1, Len(entries)) \o SubSeq(entries, 1, oldest)

(* The retained entries numbered above an ordinal, oldest first. *)
Since(ordinal) == Picked(Snapshot, {i \in DOMAIN Snapshot : Snapshot[i].n > ordinal})

LogNext == next <= MaxRecords /\ \E payload \in Payloads : Record(payload)

LogSpec == LogInit /\ [][LogNext]_logVars

---------------------------------------------------------------------------

(* Every variable has its type. *)
LogTypeOK ==
  /\ entries \in Seq([n : Nat \ {0}, what : Payloads])
  /\ Len(entries) <= Limit
  /\ oldest \in 0..(Limit - 1)
  /\ next \in Nat \ {0}
  /\ dropped \in Nat

(***************************************************************************)
(* Where each ordinal is: the ring holds the latest entries, the slots     *)
(* before oldest being the newer part.  This is what Record keeps up, and  *)
(* it makes the refinement below go through.                               *)
(***************************************************************************)
OrdinalAt(slot) ==
  IF slot <= oldest THEN dropped + Len(entries) - oldest + slot
                    ELSE dropped + slot - oldest
Placed ==
  /\ next = dropped + Len(entries) + 1
  /\ Len(entries) < Limit => oldest = 0 /\ dropped = 0
  /\ \A slot \in 1..Len(entries) : entries[slot].n = OrdinalAt(slot)

(* The ring, copied out, behaves as a log that keeps its latest entries.   *)
(* That is oplog.go's "truncation is never silent" and README's "Ordinals  *)
(* come from a logical counter" together.                                  *)
Bounded == INSTANCE BoundedLog WITH kept <- Snapshot, lost <- dropped
RefinesBoundedLog == Bounded!Spec
=============================================================================
