-------------------------- MODULE MCGoalOperations --------------------------
(* GoalOperations for TLC. *)
EXTENDS GoalOperations
=============================================================================
