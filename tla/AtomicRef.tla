----------------------------- MODULE AtomicRef -----------------------------
(***************************************************************************)
(* What a loose-ref transaction promises about its Git ref: whatever else  *)
(* moves the ref, a transaction moves it by one compare-and-swap from the  *)
(* commit its caller expected to the commit its caller asked for, and is   *)
(* reported as done only while the ref is where it was to be.              *)
(***************************************************************************)
EXTENDS Naturals

CONSTANTS Tx, Oid, Old, New, MaxGit

VARIABLES
    ref,       \* what git rev-parse answers
    reported,  \* transactions whose caller has been told it is done
    gitMoves   \* times git itself has moved the ref

vars == <<ref, reported, gitMoves>>

Init ==
    /\ ref \in Oid
    /\ reported = {}
    /\ gitMoves = 0

CompareAndSwap(t) ==
    /\ ref = Old[t]
    /\ ref' = New[t]
    /\ UNCHANGED <<reported, gitMoves>>

Report(t) ==
    /\ ref = New[t]
    /\ reported' = reported \cup {t}
    /\ UNCHANGED <<ref, gitMoves>>

GitMove ==
    /\ gitMoves < MaxGit
    /\ gitMoves' = gitMoves + 1
    /\ ref' \in Oid
    /\ UNCHANGED reported

Next ==
    \/ \E t \in Tx : CompareAndSwap(t) \/ Report(t)
    \/ GitMove

Spec == Init /\ [][Next]_vars
=============================================================================
