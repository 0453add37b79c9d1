----------------------------- MODULE AtomicStore -----------------------------
(***************************************************************************)
(* What the control store promises: transactions are serial, an operation  *)
(* is installed whole or not at all, it is never undone, and a read is the *)
(* set of installed operations at one moment when no transaction is open.  *)
(***************************************************************************)
CONSTANTS Op, Reader, NoOp

VARIABLES
    done,    \* operations whose payload is installed
    open,    \* the transaction in progress, or the crash marker it left
    answer   \* per reader: nothing, or the one set it is about to return

vars == <<done, open, answer>>

Init ==
    /\ done = {}
    /\ open = NoOp
    /\ answer = [r \in Reader |-> {}]

Open(o) ==
    /\ open = NoOp
    /\ open' = o
    /\ UNCHANGED <<done, answer>>

\* Only the open transaction installs anything.
Install(o) ==
    /\ open = o
    /\ done' = done \cup {o}
    /\ UNCHANGED <<open, answer>>

Close ==
    /\ open # NoOp
    /\ open' = NoOp
    /\ UNCHANGED <<done, answer>>

Snapshot(r) ==
    /\ open = NoOp
    /\ answer' = [answer EXCEPT ![r] = {done}]
    /\ UNCHANGED <<done, open>>

Forget(r) ==
    /\ answer' = [answer EXCEPT ![r] = {}]
    /\ UNCHANGED <<done, open>>

Next ==
    \/ \E o \in Op : Open(o) \/ Install(o)
    \/ Close
    \/ \E r \in Reader : Snapshot(r) \/ Forget(r)

Spec == Init /\ [][Next]_vars
=============================================================================
