------------------------------- MODULE Cache -------------------------------
(***************************************************************************)
(* What a cache promises its clients: every command takes effect on a key  *)
(* at one instant, and a key with a deadline is gone from that one on.  The   *)
(* numbers a counter can hold are a range, and an increment that would     *)
(* leave it changes nothing.  KeySpace implements this.                    *)
(***************************************************************************)
EXTENDS Integers, Sequences, FiniteSets

CONSTANTS
  Key,        \* the keys clients name
  Db,         \* the numbered databases
  Item,       \* what lists, hashes and sets hold
  HighestInt, \* the largest number a counter can hold
  MaxTime     \* bound: the last instant

VARIABLES
  now,    \* the clock
  cache,  \* database -> key -> what it holds and when that dies, 0 for never
  said    \* the last answer

Number == -HighestInt - 1 .. HighestInt

\* A value is a number, some other text, a list, a hash (its fields) or a set.
None == [is |-> <<"none", 0>>, dies |-> 0]
Text == {<<"number", n>> : n \in Number} \cup {<<"text", 0>>}
Kind(e) == IF e.is[1] \in {"number", "text"} THEN "string" ELSE e.is[1]
Deadlines == now + 1 .. MaxTime

Init ==
  /\ now = 0 /\ said = <<"nothing">>
  /\ \A db \in Db, k \in Key :
       cache[db][k].dies = 0 /\ Kind(cache[db][k]) \in {"none", "string", "list", "hash"}

Tick ==
  /\ now' = now + 1
  /\ cache' = [db \in Db |-> [k \in Key |->
                 IF cache[db][k].dies = now + 1 THEN None ELSE cache[db][k]]]
  /\ UNCHANGED said

\* One key comes to hold something else, and the client is told so.
Becomes(db, k, e, answer) ==
  /\ cache' = [cache EXCEPT ![db][k] = e] /\ said' = answer
  /\ UNCHANGED now

\* What a client may be told without anything changing: that it was refused,
\* what a key holds, a count, or how long a key has to live.
Tell ==
  /\ \/ said' \in {<<"error">>, <<"nil">>, <<"ok">>}
     \/ \E db \in Db, k \in Key :
          LET e == cache[db][k]
          IN \/ e # None /\ said' = e.is
             \/ said' = <<"type", Kind(e)>>
             \/ said' \in {<<"number", n>> : n \in 0 .. 2 * Cardinality(Key)}
             \/ /\ said'[1] = "ttl"
                /\ CASE e = None -> said'[2] = -2
                     [] e # None /\ e.dies = 0 -> said'[2] = -1
                     [] OTHER -> said'[2] \in 0 .. e.dies - now
  /\ UNCHANGED <<now, cache>>

Store(db, k) ==
  \E v \in Text, d \in Deadlines \cup {0, cache[db][k].dies} :
    Becomes(db, k, [is |-> v, dies |-> d], <<"ok">>)

Swap(db, k) ==
  /\ Kind(cache[db][k]) \in {"none", "string"}
  /\ \E v \in Text : Becomes(db, k, [is |-> v, dies |-> 0],
                             IF cache[db][k] = None THEN <<"nil">> ELSE cache[db][k].is)

\* The sum, where it is a number; the deadline stays.
Add(db, k) ==
  LET e == cache[db][k]
  IN /\ e.is[1] \in {"none", "number"}
     /\ \E sum \in Number : Becomes(db, k, [e EXCEPT !.is = <<"number", sum>>],
                                    <<"sum", e.is[2], sum - e.is[2]>>)

Concatenate(db, k) ==
  /\ Kind(cache[db][k]) \in {"none", "string"}
  /\ Becomes(db, k, [cache[db][k] EXCEPT !.is = <<"text", 0>>], <<"length">>)

\* A list grows or shrinks at an end; the key is there while it has items.
Push(db, k) ==
  LET e == cache[db][k]
      old == IF e = None THEN <<>> ELSE e.is[2]
  IN /\ Kind(e) \in {"none", "list"}
     /\ \E x \in Item : \E new \in {<<x>> \o old, Append(old, x)} :
          Becomes(db, k, [e EXCEPT !.is = <<"list", new>>], <<"number", Len(old) + 1>>)

Pop(db, k) ==
  LET e == cache[db][k]
      old == e.is[2]
  IN /\ Kind(e) = "list" /\ old # <<>>
     /\ \E left \in {1, 2} :
          LET new == SubSeq(old, left, Len(old) + left - 2)
          IN Becomes(db, k, IF new = <<>> THEN None ELSE [e EXCEPT !.is = <<"list", new>>],
                     <<"item", old[IF left = 2 THEN 1 ELSE Len(old)]>>)

\* A hash or a set gains or loses members; the key is there while it has any.
Alter(db, k) ==
  \E kind \in {"hash", "set"}, new \in SUBSET Item :
    LET e == cache[db][k]
        old == IF e = None THEN {} ELSE e.is[2]
    IN /\ Kind(e) \in {"none", kind}
       /\ Becomes(db, k, IF new = {} THEN None ELSE [e EXCEPT !.is = <<kind, new>>],
                  <<"number", Cardinality((new \ old) \cup (old \ new))>>)

Remove(db, k) == cache[db][k] # None /\ Becomes(db, k, None, <<"number", 1>>)

Postpone(db, k) ==
  /\ cache[db][k] # None
  /\ \E d \in Deadlines : Becomes(db, k, [cache[db][k] EXCEPT !.dies = d], <<"number", 1>>)

\* Several keys in one go: all of them hold text afterwards, or they are gone.
\* One that dies before it has its turn is not counted.
StoreAll(db) ==
  \E Named \in SUBSET Key, v \in Text :
    /\ cache' = [cache EXCEPT ![db] =
                   [k \in Key |-> IF k \in Named THEN [is |-> v, dies |-> 0] ELSE @[k]]]
    /\ said' = <<"ok">> /\ UNCHANGED now

RemoveAll(db) ==
  \E Named \in SUBSET Key :
    /\ cache' = [cache EXCEPT ![db] = [k \in Key |-> IF k \in Named THEN None ELSE @[k]]]
    /\ \/ said' = <<"ok">>
       \/ \E late \in SUBSET {k \in Named : cache[db][k].dies = now + 1} :
            said' = <<"number", Cardinality({k \in Named \ late : cache[db][k] # None})>>
    /\ UNCHANGED now

Next ==
  \/ Tick \/ Tell
  \/ \E db \in Db : StoreAll(db) \/ RemoveAll(db)
  \/ \E db \in Db, k \in Key :
       \/ Store(db, k) \/ Swap(db, k) \/ Add(db, k) \/ Concatenate(db, k)
       \/ Push(db, k) \/ Pop(db, k) \/ Alter(db, k) \/ Remove(db, k) \/ Postpone(db, k)

Spec == Init /\ [][Next]_<<now, cache, said>>
=============================================================================
