----------------------------- MODULE Dashboard ------------------------------
(***************************************************************************)
(* The dev dashboard (control/http.go and dashboard.html): pages that poll *)
(* the op log behind a cursor and change the rules by index, while clients *)
(* keep the log growing.                                                   *)
(*                                                                         *)
(* GET /api/state reads the rules, then the entries after the cursor, then *)
(* the count of dropped entries, each under its own lock.  The page starts *)
(* a poll every 600ms and after every click, whether or not the last one   *)
(* has come back, and answers may overtake each other.                     *)
(***************************************************************************)
EXTENDS OpLog, FiniteSets

CONSTANTS
  Pages,       \* browser tabs
  MaxPolls,    \* bound: polls a page has under way
  MaxRules     \* bound: rules ever armed

\* The page starts with the two rules of Init; a log says what its entries
\* are about.
ASSUME DashboardAssumption ==
  /\ MaxPolls \in Nat \ {0} /\ MaxRules \in Nat /\ MaxRules >= 2
  /\ {"op", "add", "remove", "reset"} \subseteq Payloads

VARIABLES
  rules,       \* the armed rules, by identity, in order
  arms,        \* how many were ever armed
  page,        \* page -> cursor, rows, rules and dropped count it shows; and two
               \* records of its past: the most it was ever told was dropped, and
               \* whether an answer asked for from an earlier cursor gave it rows
  polls,       \* the polls under way
  disarmed     \* page -> what its last click was to disarm, and what it did

vars == <<rules, arms, page, polls, disarmed, entries, oldest, next, dropped>>

Slots == 1..MaxPolls

Largest(S) == CHOOSE n \in S : \A m \in S : m <= n

Init ==
  /\ rules = <<1, 2>>
  /\ arms = 2
  /\ page = [p \in Pages |-> [cursor |-> 0, rows |-> <<>>, drawn |-> <<>>, dropped |-> 0,
                          told |-> 0, behind |-> FALSE]]
  /\ polls = {}
  /\ disarmed = [p \in Pages |-> [meant |-> 0, did |-> 0]]
  /\ LogInit

---------------------------------------------------------------------------
(* Mutants of the definitions below. *)
ReadSinceOnly(q) ==
  /\ q \in polls /\ q.at = "since"
  /\ polls' = (polls \ {q}) \cup {[q EXCEPT !.at = "answered", !.fresh = Since(q.since)]}
  /\ UNCHANGED <<rules, arms, page, disarmed, entries, oldest, next, dropped>>
---------------------------------------------------------------------------

(* A client's operation, as Before records it. *)
RecordOp ==
  /\ next <= MaxRecords
  /\ Record("op")
  /\ UNCHANGED <<rules, arms, page, polls, disarmed>>

(* The timer fires, or a click's answer came: the cursor of this moment.   *)
Poll(p) ==
  /\ \E slot \in Slots :
       /\ \A q \in polls : q.page = p => q.slot # slot
       /\ polls' = polls \cup
            {[page |-> p, slot |-> slot, at |-> "rules", since |-> page[p].cursor,
              rules |-> <<>>, fresh |-> <<>>, dropped |-> 0]}
  /\ UNCHANGED <<rules, arms, page, disarmed, entries, oldest, next, dropped>>

(* The three reads of GET /api/state. *)
ReadRules(q) ==
  /\ q \in polls /\ q.at = "rules"
  /\ polls' = (polls \ {q}) \cup {[q EXCEPT !.at = "since", !.rules = rules]}
  /\ UNCHANGED <<rules, arms, page, disarmed, entries, oldest, next, dropped>>

ReadSince(q) ==
  /\ q \in polls /\ q.at = "since"
  /\ polls' = (polls \ {q}) \cup {[q EXCEPT !.at = "dropped", !.fresh = Since(q.since)]}
  /\ UNCHANGED <<rules, arms, page, disarmed, entries, oldest, next, dropped>>

ReadDropped(q) ==
  /\ q \in polls /\ q.at = "dropped"
  /\ polls' = (polls \ {q}) \cup {[q EXCEPT !.at = "answered", !.dropped = dropped]}
  /\ UNCHANGED <<rules, arms, page, disarmed, entries, oldest, next, dropped>>

(* The page draws the rules and appends a row per entry. *)
Receive(q) ==
  LET ordinals == [i \in 1..Len(q.fresh) |-> q.fresh[i].n] IN
  /\ q \in polls /\ q.at = "answered"
  /\ polls' = polls \ {q}
  /\ page' = [page EXCEPT ![q.page] =
       [cursor |-> Largest({@.cursor} \cup {ordinals[i] : i \in 1..Len(ordinals)}),
        rows |-> @.rows \o ordinals, drawn |-> q.rules, dropped |-> q.dropped,
        told |-> Largest({@.told, q.dropped}),
        behind |-> @.behind \/ (q.fresh # <<>> /\ q.since # @.cursor)]]
  /\ UNCHANGED <<rules, arms, disarmed, entries, oldest, next, dropped>>

(* The request is lost: the page shows "no emu" and polls again later. *)
Lose(q) ==
  /\ q \in polls
  /\ polls' = polls \ {q}
  /\ UNCHANGED <<rules, arms, page, disarmed, entries, oldest, next, dropped>>

(* POST /api/faults.  AddRule's two steps matter to the log alone, and the *)
(* log's other entries stand for its record here.                          *)
Arm ==
  /\ arms < MaxRules /\ next <= MaxRecords
  /\ arms' = arms + 1
  /\ rules' = Append(rules, arms')
  /\ Record("add")
  /\ UNCHANGED <<page, polls, disarmed>>

(* The button beside the i-th rule the page shows: DELETE /api/faults/{i}. *)
(* An index that is out of range is refused.                               *)
Disarm(p, i) ==
  /\ i \in 1..Len(page[p].drawn) /\ i <= Len(rules) /\ next <= MaxRecords
  /\ rules' = SubSeq(rules, 1, i - 1) \o SubSeq(rules, i + 1, Len(rules))
  /\ disarmed' = [disarmed EXCEPT ![p] = [meant |-> page[p].drawn[i], did |-> rules[i]]]
  /\ Record("remove")
  /\ UNCHANGED <<arms, page, polls>>

(* POST /api/faults/reset. *)
Reset ==
  /\ next <= MaxRecords
  /\ rules' = <<>>
  /\ Record("reset")
  /\ UNCHANGED <<arms, page, polls, disarmed>>

Next ==
  \/ RecordOp
  \/ \E p \in Pages : Poll(p)
  \/ \E q \in polls : ReadRules(q) \/ ReadSince(q) \/ ReadDropped(q) \/ Receive(q) \/ Lose(q)
  \/ Arm \/ Reset
  \/ \E p \in Pages, i \in 1..MaxRules : Disarm(p, i)

Spec == Init /\ [][Next]_vars

---------------------------------------------------------------------------

(* Every variable has its type. *)
TypeOK ==
  /\ arms \in 0..MaxRules
  /\ \A i \in 1..Len(rules) : rules[i] \in 1..arms
  /\ \A p \in Pages : page[p].cursor \in 0..MaxRecords /\ page[p].dropped \in Nat
  /\ \A q \in polls : q.at \in {"rules", "since", "dropped", "answered"}

(***************************************************************************)
(* "truncation is never silent", through three locks: when an answer skips *)
(* entries the page has not seen, its count of dropped ones covers them,   *)
(* however the log moved between the reads.                                *)
(***************************************************************************)
NoSilentGap ==
  \A q \in polls :
    q.at = "answered" /\ q.fresh # <<>> /\ q.fresh[1].n > q.since + 1 =>
      q.dropped >= q.fresh[1].n - 1

(***************************************************************************)
(* poll, appendEntries: the cursor only moves up, so what it has passed is *)
(* never asked for again; all of it is on the page, or was counted in some *)
(* answer the page was given, however answers overtook each other.         *)
(***************************************************************************)
NothingMissed ==
  \A p \in Pages : \A n \in 1..page[p].cursor :
    n <= page[p].told \/ \E i \in 1..Len(page[p].rows) : page[p].rows[i] = n

InLogOrder(p) ==
  \A i, j \in 1..Len(page[p].rows) : i < j => page[p].rows[i] < page[p].rows[j]

(* poll, appendEntries over three reads under three locks: no gap is silent*)
(* and nothing is missed, whatever overlaps; and until an answer asked for *)
(* from an earlier cursor comes, the rows are the log's, in order, each    *)
(* once.                                                                   *)
PageTellsTruly ==
  /\ TypeOK /\ LogTypeOK /\ NoSilentGap /\ NothingMissed
  /\ \A p \in Pages : page[p].behind \/ InLogOrder(p)

(* "gets only what it has not seen" (README, The dashboard): no entry is   *)
(* shown twice, and the rows are in the log's order.                       *)
RowsInOrder == \A p \in Pages : InLogOrder(p)

(* The button titled "disarm" with a rule's name disarms that rule. *)
DisarmsWhatItShows == \A p \in Pages : disarmed[p].meant = disarmed[p].did
=============================================================================
