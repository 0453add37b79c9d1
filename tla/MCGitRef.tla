------------------------------ MODULE MCGitRef ------------------------------
(* GitRef for TLC: a P1 publication creates the ref ('absent'), a handoff  *)
(* checkpoint moves it on ('preserve').                                    *)
EXTENDS GitRef, TLC

CONSTANTS create, move, A, B

OldOf == [t \in Tx |-> IF t = create THEN Zero ELSE A]
NewOf == [t \in Tx |-> IF t = create THEN A ELSE B]
=============================================================================
