-------------------------- MODULE MCSourceHandoff --------------------------
(* SourceCheckpoint for TLC: a path of each kind. *)
EXTENDS SourceCheckpoint

MCPlan == <<"edit", "remove", "add">>
=============================================================================
