--------------------------- MODULE MCInstallQueue ---------------------------
(* Instances of InstallQueue for TLC. *)
EXTENDS InstallQueue

OneLanguage == [python |-> {"a", "b"}]
\* One run needs both packages, two others one of them.
Shared == [r1 |-> {"a", "b"}, r2 |-> {"a"}, r3 |-> {"a"}]
StartUp == <<"python">>
NoStartUp == <<>>
=============================================================================
