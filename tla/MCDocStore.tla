----------------------------- MODULE MCDocStore -----------------------------
(* An instance of DocStore for TLC. *)
EXTENDS DocStore

CONSTANTS c1, c2, c3, orders

Symmetric == Permutations(Client)

D(i, n) == Doc(Given(i), Number(n))
TheSeed == <<D(1, 1), Doc(Given(2), Word), D(3, 0)>>

Ask(kind) == [kind |-> kind, name |-> orders, silent |-> FALSE]
Insert2(documents, ordered, silent) ==
  [kind |-> "insert", name |-> orders, silent |-> silent, documents |-> documents, ordered |-> ordered]
Update(updates) == [kind |-> "update", name |-> orders, silent |-> FALSE, updates |-> updates]
Change(q, u, multi, upsert) == [q |-> q, u |-> u, multi |-> multi, upsert |-> upsert]
Delete(deletes) == [kind |-> "delete", name |-> orders, silent |-> FALSE, deletes |-> deletes]
Find(filter, sort, skip, limit, size) ==
  [kind |-> "find", name |-> orders, silent |-> FALSE, filter |-> filter,
   sort |-> sort, skip |-> skip, limit |-> limit, size |-> size]
More(kind, handle, size) ==
  [kind |-> kind, name |-> orders, silent |-> FALSE, handle |-> handle, size |-> size]
Aggregate(pipeline) ==
  [kind |-> "aggregate", name |-> orders, silent |-> FALSE, pipeline |-> pipeline, size |-> 1]

Every == <<"every">>
Unsupported == <<"unsupported">>
Empty == Doc(Missing, Missing)

TheScript ==
  {Ask("ping"), Ask("undecodable"), Ask("malformed"), Ask("createIndexes"), Ask("count"),
   Ask("drop"), Ask("dropDatabase"),
   Insert2(<<D(1, 0), Empty>>, TRUE, FALSE), Insert2(<<D(1, 0), Empty>>, FALSE, FALSE),
   Insert2(<<Empty, Empty>>, TRUE, TRUE),
   Update(<<Change(Every, <<"$inc", 0>>, TRUE, FALSE)>>),
   Update(<<Change(<<"_id", Given(4)>>, <<"$set", Word>>, FALSE, TRUE),
            Change(Every, <<"set_id", Given(4)>>, FALSE, FALSE)>>),
   Delete(<<[q |-> <<"qty", Word>>, limit |-> 0], [q |-> Every, limit |-> 2]>>),
   Delete(<<[q |-> Every, limit |-> 1]>>),
   Find(Every, 1, 0, 0, 1), Find(<<"qty", Word>>, 0, 0, 0, 1), Find(Unsupported, 0, 0, 0, 1),
   Aggregate(<<<<"$match", Every>>, <<"$skip", 1>>>>),
   Aggregate(<<<<"$count", 0>>, <<"$lookup", 0>>>>),
   More("getMore", 1, 1), More("getMore", 2, 0), More("killCursors", 1, 0)}
=============================================================================
