----------------------------- MODULE MCP1Commit -----------------------------
(* Two events of one task, and two commits a user may put on its ref.      *)
EXTENDS P1Commit
CONSTANTS e1, e2, f1, f2
MCEvent   == {e1, e2}
MCForeign == {f1, f2}
=============================================================================
