---------------------------- MODULE MCStoreLock ----------------------------
(* StoreLock for TLC: every process may run any number of commands; three   *)
(* processes with two deaths, or two with three or with that of a reaper.   *)
EXTENDS StoreLock, TLC

Budget == [p \in Proc |-> 1]
=============================================================================
