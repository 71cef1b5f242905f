---------------------------- MODULE MCPgSession -----------------------------
(* Instances of PgSession for TLC. *)
EXTENDS PgSession

\* Single statements, and queries of several.
AllQueries == {<<"BEGIN">>, <<"COMMIT">>, <<"ROLLBACK">>, <<"WRITE">>,
               <<"WRITE", "READ">>, <<"BEGIN", "WRITE", "COMMIT">>, <<"DEALLOCATE">>, <<>>}
FewQueries == {<<"BEGIN">>, <<"COMMIT">>, <<"WRITE">>}
=============================================================================
