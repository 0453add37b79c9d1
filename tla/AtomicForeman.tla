---------------------------- MODULE AtomicForeman ----------------------------
(***************************************************************************)
(* What a goal promises about its FOREMAN: one generation leads at a time. *)
(* A later task joins the generation that leads; a successor takes every   *)
(* open task over in one step, and nobody is ever appointed twice.         *)
(***************************************************************************)
EXTENDS Naturals

CONSTANTS Task

VARIABLES
    lead,    \* the generation that leads each task, 0 for none
    open     \* tasks that are not archived

vars == <<lead, open>>

Holders == {t \in open : lead[t] # 0}
Newest  == CHOOSE g \in {lead[t] : t \in Task} : \A t \in Task : lead[t] <= g

Init ==
    /\ lead = [t \in Task |-> 0]
    /\ open = Task

Found(t) ==
    /\ Newest = 0
    /\ lead' = [lead EXCEPT ![t] = 1]
    /\ UNCHANGED open

Join(t) ==
    /\ t \in open /\ lead[t] = 0 /\ Newest # 0
    /\ lead' = [lead EXCEPT ![t] = Newest]
    /\ UNCHANGED open

Succeed ==
    /\ Holders # {}
    /\ lead' = [t \in Task |-> IF t \in Holders THEN Newest + 1 ELSE lead[t]]
    /\ UNCHANGED open

\* Every holder is archived: an open task inherits.
Inherit(t) ==
    /\ Holders = {} /\ Newest # 0 /\ t \in open
    /\ lead' = [lead EXCEPT ![t] = Newest + 1]
    /\ UNCHANGED open

Archive(t) ==
    /\ t \in Holders
    /\ open' = open \ {t}
    /\ UNCHANGED lead

Next == Succeed \/ \E t \in Task : Found(t) \/ Join(t) \/ Inherit(t) \/ Archive(t)

Spec == Init /\ [][Next]_vars
=============================================================================
