---------------------------- MODULE MCAnalysisLoop ---------------------------
(* AnalysisLoop with every agent spawned, and with some that were not.        *)
EXTENDS AnalysisLoop

Everybody == {Roles}
SomeMissing == {Roles, {"metis", "chronos", "coordinator"}}
=============================================================================
