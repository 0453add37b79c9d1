----------------------------- MODULE MCTaskFSM -----------------------------
(* TaskFSM for TLC; the bounds are in the configurations. *)
EXTENDS TaskFSM, TLC

\* How many attempts of which roles were lost.
LostAttempts(r) ==
    {a \in DOMAIN history[r] : history[r][a].status = "lost"}
        \cup {a \in {Attempt(r)} : Registered(r) /\ session[r].status = "lost"}
Losses == Cardinality(UNION {{r} \X LostAttempts(r) : r \in Role})

\* Either the whole life of a task, with a loss or a fault, with both in the first cycle,
\* or there with one hold at a time; or one cycle up to the verdict of the review with
\* one candidate and up to three losses, of a third attempt of the DEV too.
Histories ==
    \/ /\ holds # {} => cycle = 1 /\ faults = 0
       /\ faults = 1 /\ Losses = 1 => cycle = 1
       /\ faults <= 1 /\ Losses <= 1 /\ Cardinality(holds) <= 1
       /\ \A r \in Role : Attempt(r) <= 2
    \/ /\ ~mechanical /\ cycle = 1 /\ head = 0 /\ epoch = 0 /\ holds = {}
       /\ ~Registered("RECEIPT") /\ \A r \in Role \ {"DEV"} : Attempt(r) <= 2
       /\ Losses <= 3 /\ Losses + faults <= 4
=============================================================================
