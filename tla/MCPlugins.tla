----------------------------- MODULE MCPlugins ------------------------------
(***************************************************************************)
(* Three threads that load three plugins, two of them of one priority.     *)
(***************************************************************************)
EXTENDS PluginLoading

CONSTANTS t1, t2, t3

MCThreads == {t1, t2, t3}
MCConfigured == <<"expect", "ignore_stateless", "ignore">>
MCPriority == [p \in {"expect", "ignore_stateless", "ignore"} |-> IF p = "expect" THEN 5 ELSE 2]
=============================================================================
