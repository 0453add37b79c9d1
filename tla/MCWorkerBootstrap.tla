-------------------------- MODULE MCWorkerBootstrap --------------------------
(* WorkerBootstrap for TLC: the two callers repeat the same operation, or   *)
(* two operations that were planned for the same worktree.                  *)
EXTENDS WorkerBootstrap, TLC

CONSTANTS p1, p2, a, b
Asked == (p1 :> {a}) @@ (p2 :> {a, b})
=============================================================================
