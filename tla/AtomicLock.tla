----------------------------- MODULE AtomicLock -----------------------------
(***************************************************************************)
(* What the writer lock of a control root promises: one holder at a time,  *)
(* and after a holder has died nobody holds it until it has been reaped.   *)
(***************************************************************************)
CONSTANTS Proc, NoProc

VARIABLES
    holder,   \* the live process inside the lock
    stale     \* the lock outlived its holder

vars == <<holder, stale>>

Init ==
    /\ holder = NoProc
    /\ stale = FALSE

Acquire(p) ==
    /\ holder = NoProc /\ ~stale
    /\ holder' = p
    /\ UNCHANGED stale

Release(p) ==
    /\ holder = p
    /\ holder' = NoProc
    /\ UNCHANGED stale

Die(p) ==
    /\ holder = p
    /\ holder' = NoProc
    /\ stale' = TRUE

Reap ==
    /\ stale
    /\ stale' = FALSE
    /\ UNCHANGED holder

Next ==
    \/ \E p \in Proc : Acquire(p) \/ Release(p) \/ Die(p)
    \/ Reap

Spec == Init /\ [][Next]_vars
=============================================================================
