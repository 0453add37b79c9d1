--------------------------- MODULE GoalOperations ---------------------------
(***************************************************************************)
(* The goal-wide operations of goal.js: register-role for the FOREMAN and  *)
(* the CAPTAIN, recover-expired-foreman and advance-control. Each runs in  *)
(* one root transaction, and an odd root admits nothing but the exact      *)
(* retry of its request (StoreTransaction). An operation that mints a      *)
(* capability seals an intent first: a staging directory is made, sealed,  *)
(* renamed, and only then the events follow, one per task.                 *)
(*                                                                         *)
(* A session is live while its lease runs. The clock never stops, under an *)
(* odd root either. What a task's other events do is in TaskFSM; here are  *)
(* those that the authority of FOREMAN and CAPTAIN depends on.             *)
(***************************************************************************)
EXTENDS Naturals, FiniteSets, FiniteSetsExt

CONSTANTS
    Task,      \* the tasks of the manifest, in the order of their ids
    None,
    Probed,    \* the manifest requires probe observation receipts
    MaxMint,   \* bound on FOREMAN identities
    MaxEpoch,  \* bound on control epochs
    MaxFaults  \* bound on crashes and system errors

ASSUME GoalAssumption ==
    /\ Task \subseteq Nat /\ IsFiniteSet(Task) /\ Task # {}
    /\ Probed \in BOOLEAN
    /\ {MaxMint, MaxEpoch, MaxFaults} \subseteq Nat

VARIABLES
    tasks,      \* per task: is it open, its FOREMAN, its CAPTAIN, its recovery
    epoch,      \* of the goal's control
    bootstrap,  \* the bootstrap capability: its file is there, it is marked consumed
    tx,         \* the transaction an odd root is bound to, None at an even root
    pc,         \* where the process that holds the root lock is
    mints,      \* FOREMAN identities that were accepted
    faults

vars == <<tasks, epoch, bootstrap, tx, pc, mints, faults>>

Even == tx = None /\ pc = "idle"

Blank == [open |-> TRUE, foreman |-> None, captain |-> None, recovery |-> None, seen |-> 0]

Init ==
    /\ tasks = [t \in Task |-> Blank]
    /\ epoch = 0
    /\ bootstrap = [file |-> TRUE, consumed |-> FALSE]
    /\ tx = None /\ pc = "idle"
    /\ mints = 0 /\ faults = 0

-----------------------------------------------------------------------------
(* Sessions and who may act. A FOREMAN session is a replica of the one     *)
(* FOREMAN of the goal: id is its thread, host and capability.             *)

Foreman(t) == tasks[t].foreman
Captain(t) == tasks[t].captain
Recovering(t, r) == tasks[t].recovery # None /\ tasks[t].recovery.role = r
Behind(t) == tasks[t].open /\ tasks[t].seen < epoch    \* reconcile_required

Led == {t \in Task : Foreman(t) # None}
Holders == {t \in Led : tasks[t].open}

\* assertCoherentGoalForemanLineage: the sessions of the highest attempt.
Replicas == {t \in Led : \A s \in Led : Foreman(s).attempt <= Foreman(t).attempt}
Coherent == \A s, t \in Replicas : Foreman(s).id = Foreman(t).id

Usable(s) == s # None /\ s.status = "active" /\ s.live
UsableNow == {t \in Led : Usable(Foreman(t))}

\* authorizeGoalSession: a usable replica of the newest generation.
AuthorizeGoalSession(id) ==
    /\ Coherent /\ Replicas # {}
    /\ \E t \in UsableNow \cap Replicas : Foreman(t).id = id

\* authorizeSession: the task's own session.
AuthorizeSession(t, id) == t \in UsableNow /\ Foreman(t).id = id

\* historicalRegistrationAuthorizer: what was usable when the transaction began;
\* nobody asks which generation it is of.
HistoricalAuthorizer(scope, id) ==
    \E t \in scope \cap tx.usable : Foreman(t).id = id

\* Who submits FOREMAN events of a task: its own replica, neither lost nor in
\* systemError, by the authority of any usable one.
Leads(t) ==
    /\ t \in Led /\ Foreman(t).status = "active"
    /\ AuthorizeGoalSession(Foreman(t).id)

\* captainCanSubmitForemanRoleLost: no replica of the newest generation is usable.
CaptainCanSubmitForemanRoleLost(t) ==
    /\ tasks[t].open /\ ~Behind(t) /\ tasks[t].recovery = None
    /\ t \in Replicas /\ Foreman(t).status # "lost"
    /\ Usable(Captain(t))
    /\ Replicas \cap UsableNow = {}

-----------------------------------------------------------------------------
(* Requests. *)

Minting == {"bootstrap", "succeed", "recover"}   \* a new FOREMAN identity
Prepared == Minting \cup {"captain"}             \* with a sealed intent

Identities == {Foreman(t).id : t \in Led}

\* A FOREMAN is registered by the bootstrap capability, by the recovery
\* capability, or by itself for one more task.
Request ==
    [kind : Minting, task : Task, by : {None}]
    \cup [kind : {"join", "captain"}, task : Task, by : Identities]
    \cup [kind : {"control"}, task : {None}, by : Identities]

\* goalBootstrapForemanLineage: an accepted bootstrap registration, or its mark.
BootstrapSpent == bootstrap.consumed \/ Led # {}

\* applyRegistration: a successor nobody confirmed is replaced only when it has
\* failed.
Replaceable(s, recovery) ==
    recovery.succeeded => s.status = "systemError" \/ ~s.live

\* Mutant: only a single task's successor is registered alone, archived or not.
AdmissibleSuccession_Many(t) ==
    /\ t \in Led /\ Recovering(t, "FOREMAN")
    /\ Replaceable(Foreman(t), tasks[t].recovery)

\* GOAL_RECOVERY registers a successor only where one open task has a FOREMAN.
AdmissibleSuccession(t) ==
    /\ t \in Led /\ Recovering(t, "FOREMAN")
    /\ Cardinality(Holders) <= 1
    /\ Replaceable(Foreman(t), tasks[t].recovery)

AdmissibleCaptain(t) ==
    Captain(t) # None /\ Captain(t).status # "terminal" =>
        Recovering(t, "CAPTAIN") /\ Replaceable(Captain(t), tasks[t].recovery)

\* The tasks whose session is taken over: every open one, or the one that adopts
\* what archived tasks have left.
Targets(t) == IF Holders # {} THEN Holders ELSE {t}
Sources == Replicas
Incumbent == Foreman(CHOOSE t \in Sources : TRUE).attempt

\* goalNormalForemanRecoveryPath
NormalPathStarted == \E t \in Sources : Foreman(t).status = "lost" /\ Recovering(t, "FOREMAN")
CaptainPath == ~NormalPathStarted /\ \E t \in Sources : CaptainCanSubmitForemanRoleLost(t)

\* Mutant: a FOREMAN that reported a system error is not up for recovery.
Eligible_NoError(t) ==
    \/ Foreman(t).status = "active"
    \/ Foreman(t).status = "lost" /\ (tasks[t].open => Recovering(t, "FOREMAN"))

\* foremanRootRecoveryStatusEligible
Eligible(t) ==
    \/ Foreman(t).status \in {"active", "systemError"}
    \/ Foreman(t).status = "lost" /\ (tasks[t].open => Recovering(t, "FOREMAN"))

\* A recovery is asked for at a task that takes part in it.
RecoveryScope(t) ==
    /\ Coherent /\ Sources # {}
    /\ IF Holders # {} THEN t \in Holders /\ Holders \subseteq Replicas ELSE tasks[t].open

Expired(t) == Eligible(t) /\ ~Foreman(t).live

\* exactUnsealedForemanRecoveryPreparedRequest, and the callback of a fresh request.
AdmissibleRecovery(t) == RecoveryScope(t) /\ ~CaptainPath /\ \A s \in Sources : Expired(s)

\* What the preview of a request demands but for the authority of a session.
Admissible(r) ==
    CASE r.kind = "bootstrap" -> tasks[r.task].open /\ Foreman(r.task) = None /\ ~BootstrapSpent
      [] r.kind = "succeed"   -> tasks[r.task].open /\ AdmissibleSuccession(r.task)
      [] r.kind = "join"      -> tasks[r.task].open /\ Foreman(r.task) = None
      [] r.kind = "captain"   -> tasks[r.task].open /\ AdmissibleCaptain(r.task)
      [] r.kind = "recover"   -> AdmissibleRecovery(r.task)
      [] r.kind = "control"   -> epoch < MaxEpoch

AuthorizedNow(r) ==
    CASE r.kind \in Minting -> TRUE
      [] r.kind = "captain" -> AuthorizeSession(r.task, r.by)
      [] OTHER -> AuthorizeGoalSession(r.by)

\* authorizeGoalControlPristineOddRecovery: any task's session of that FOREMAN.
ControlAuthorizedThen(r) == HistoricalAuthorizer(Task, r.by)

AuthorizedThen(r) ==
    CASE r.kind \in Minting -> TRUE
      [] r.kind = "captain" -> HistoricalAuthorizer({r.task}, r.by)
      [] r.kind = "join"    -> HistoricalAuthorizer(Task, r.by)
      [] r.kind = "control" -> ControlAuthorizedThen(r)

-----------------------------------------------------------------------------
(* The transaction. It begins without a look at the authority. A caller    *)
(* asks for what status shows as the next action, no more.                 *)

Begin(r) ==
    /\ Even
    /\ r.kind \in Minting => mints < MaxMint
    /\ Admissible(r)
    /\ tx' = [req |-> r, id |-> mints + 1,
              targets |-> IF r.kind = "recover" THEN Targets(r.task) ELSE {r.task},
              incumbent |-> IF r.kind = "recover" THEN Incumbent ELSE 0,
              before |-> tasks, epoch |-> epoch, usable |-> UsableNow, pristine |-> FALSE,
              staging |-> "none", intent |-> FALSE, evidence |-> FALSE,
              installed |-> {}, committed |-> FALSE]
    /\ pc' = "callback"
    /\ UNCHANGED <<tasks, epoch, bootstrap, mints, faults>>

Req == tx.req

EventAccepted == IF Req.kind = "control" THEN epoch = tx.epoch + 1 ELSE tx.installed = tx.targets

\* The digest a staging directory is named by. With an observation receipt it
\* holds accepted_at of the attempt that wrote it; the boundary of a recovery
\* leaves the observation out.
SameDigest == ~Probed

\* cleanupExactUnsealedPreparedIntent: what this very request has left unsealed.
UnsealedByIt == tx.staging = "unsealed" /\ SameDigest

\* inspectPreparedIntentInventory: the intent and its capability are both there.
SealedByIt == tx.intent \/ tx.staging = "sealed"

\* Mutant: whoever holds the capability may go on.
AuthorizedAtAdmission_Any == TRUE

\* Only a pristine retry has the authority the request had when it began.
AuthorizedAtAdmission == IF tx.pristine THEN AuthorizedThen(Req) ELSE AuthorizedNow(Req)

\* The preview of the callback, in which nothing has been written yet.
Accepts == Admissible(Req) /\ AuthorizedAtAdmission

\* registrationProbeObservationBinding seals a receipt of what was observed.
Observes == Probed /\ Req.kind # "control"

\* The preview passes. What another attempt has left unsealed is removed, and the
\* receipt an observation is proved by is kept.
Admit ==
    /\ pc = "callback"
    /\ Accepts
    /\ tx.staging = "none" \/ UnsealedByIt
    /\ tx' = [tx EXCEPT !.staging = "none", !.evidence = Observes]
    /\ pc' = IF Req.kind \in Prepared THEN "stage" ELSE "events"
    /\ UNCHANGED <<tasks, epoch, bootstrap, mints, faults>>

\* The request is refused. The generation is closed if nothing was written.
Refuse ==
    /\ pc = "callback"
    /\ ~Accepts
    /\ LET seen == Probed /\ Req.kind \in {"join", "captain", "bootstrap", "succeed"} IN
       tx' = IF tx.staging = "none" /\ ~tx.evidence /\ ~seen THEN None
             ELSE [tx EXCEPT !.evidence = tx.evidence \/ seen]
    /\ pc' = "idle"
    /\ UNCHANGED <<tasks, epoch, bootstrap, mints, faults>>

\* publishRegistrationIntent, publishRecoveryBatchIntent
Stage ==
    /\ pc = "stage"
    /\ tx' = [tx EXCEPT !.staging = "unsealed"] /\ pc' = "seal"
    /\ UNCHANGED <<tasks, epoch, bootstrap, mints, faults>>

Seal ==
    /\ pc = "seal"
    /\ tx' = [tx EXCEPT !.staging = "sealed"] /\ pc' = "promote"
    /\ UNCHANGED <<tasks, epoch, bootstrap, mints, faults>>

\* The rename, by the attempt itself or by a retry (recoverPreparedIntent).
Promote ==
    /\ pc = "promote"
    /\ tx' = [tx EXCEPT !.staging = "none", !.intent = TRUE] /\ pc' = "events"
    /\ UNCHANGED <<tasks, epoch, bootstrap, mints, faults>>

-----------------------------------------------------------------------------
(* The events. *)

NewForeman(t) ==
    [id |-> tx.id, status |-> "active", live |-> TRUE,
     attempt |-> IF Req.kind = "bootstrap" THEN 1
                 ELSE IF Req.kind = "succeed" THEN Foreman(t).attempt + 1
                 ELSE tx.incumbent + 1]

\* Whoever was registered for a pending recovery is its successor.
Succeeded(t, r) ==
    IF Recovering(t, r) THEN [tasks[t].recovery EXCEPT !.succeeded = TRUE] ELSE tasks[t].recovery

Registered(t) ==
    CASE Req.kind \in {"bootstrap", "succeed"} ->
            [tasks[t] EXCEPT !.foreman = NewForeman(t), !.recovery = Succeeded(t, "FOREMAN")]
      [] Req.kind = "captain" ->
            [tasks[t] EXCEPT !.captain = [status |-> "active", live |-> TRUE],
                             !.recovery = Succeeded(t, "CAPTAIN")]

\* A replica runs as long as the one it was copied from.
Projection(t, s) == [tasks[t] EXCEPT !.foreman = Foreman(s)]

\* applyExpiredForemanRecovery: the CAPTAIN's recovery stays pending.
Recovered(t) ==
    [tasks[t] EXCEPT !.foreman = NewForeman(t),
                     !.recovery = IF Recovering(t, "CAPTAIN") THEN @ ELSE None]

Pending == tx.targets \ tx.installed

AfterEvents ==
    CASE Req.kind = "bootstrap" -> "mark" [] Req.kind = "recover" -> "commit" [] OTHER -> "close"

\* applyEvent, of a registration or of the recovery.
Successor(t) == IF Req.kind = "recover" THEN Recovered(t) ELSE Registered(t)

\* registerRole, recoverExpiredForeman: one event per task, in the order of tasks. A
\* replica is copied from whoever was let by, of which generation he may be.
Install ==
    /\ pc = "events" /\ Req.kind # "control"
    /\ \E t \in {Min(Pending)} :
        /\ IF Req.kind = "join"
           THEN \E s \in {u \in Led : Foreman(u).id = Req.by /\ Foreman(u).status = "active"} :
                    tasks' = [tasks EXCEPT ![t] = Projection(t, s)]
           ELSE tasks' = [tasks EXCEPT ![t] = Successor(t)]
        /\ tx' = [tx EXCEPT !.installed = @ \cup {t}]
        /\ mints' = IF Req.kind \in Minting THEN tx.id ELSE mints
        /\ pc' = IF Pending = {t} THEN AfterEvents ELSE "events"
    /\ UNCHANGED <<epoch, bootstrap, faults>>

\* advanceControlEpoch
AdvanceControlEpoch ==
    /\ pc = "events" /\ Req.kind = "control"
    /\ epoch' = epoch + 1
    /\ pc' = "close"
    /\ UNCHANGED <<tasks, bootstrap, tx, mints, faults>>

\* commit.json: from here on the batch is over.
CommitBatch ==
    /\ pc = "commit"
    /\ tx' = [tx EXCEPT !.committed = TRUE] /\ pc' = "close"
    /\ UNCHANGED <<tasks, epoch, bootstrap, mints, faults>>

\* reconcileBootstrapConsumption: the mark in the goal's meta, then the file.
MarkConsumed ==
    /\ pc = "mark"
    /\ bootstrap' = [bootstrap EXCEPT !.consumed = TRUE] /\ pc' = "delete"
    /\ UNCHANGED <<tasks, epoch, tx, mints, faults>>

DeleteBootstrap ==
    /\ pc = "delete"
    /\ bootstrap' = [bootstrap EXCEPT !.file = FALSE] /\ pc' = "close"
    /\ UNCHANGED <<tasks, epoch, tx, mints, faults>>

Close ==
    /\ pc = "close"
    /\ tx' = None /\ pc' = "idle"
    /\ UNCHANGED <<tasks, epoch, bootstrap, mints, faults>>

-----------------------------------------------------------------------------
(* A crash, and the exact retry. *)

\* The process dies or its operation fails between two steps.
Stop ==
    /\ pc # "idle" /\ faults < MaxFaults
    /\ faults' = faults + 1 /\ pc' = "idle"
    /\ UNCHANGED <<tasks, epoch, bootstrap, tx, mints>>

\* A session as the binding of a scope has it: lease_until, not whether it is past.
Bound(s) == IF s = None THEN None ELSE [s EXCEPT !.live = TRUE]
Binding(task) == [task EXCEPT !.foreman = Bound(@), !.captain = Bound(@)]

\* Mutant: the whole scope is as it was.
ScopeHolds_Whole == \A t \in Task : Binding(tasks[t]) = Binding(tx.before[t])

\* assertForemanRecoveryIntentRecoveryBoundary: every task is as the intent bound it,
\* or one event of the batch further.
ScopeHolds ==
    /\ \A t \in Task \ tx.installed : Binding(tasks[t]) = Binding(tx.before[t])
    /\ epoch = tx.epoch
    /\ \A t \in tx.installed : Foreman(t).id = tx.id

\* assertRegistrationIntentRecoveryBoundary: the task is as the intent expects it.
TaskHolds ==
    /\ Binding(tasks[Req.task]) = Binding(tx.before[Req.task])
    /\ epoch = tx.epoch

\* Mutant: an accepted registration is done.
RegistrationResumesAt_Done ==
    IF EventAccepted THEN "close"
    ELSE IF tx.intent THEN "events"
    ELSE IF tx.staging = "sealed" THEN "promote"
    ELSE "callback"

\* Where a witness lets the retry go on. A bootstrap that was accepted is still to be
\* marked.
RegistrationResumesAt ==
    IF EventAccepted THEN (IF Req.kind = "bootstrap" THEN "mark" ELSE "close")
    ELSE IF tx.intent THEN "events"
    ELSE IF tx.staging = "sealed" THEN "promote"
    ELSE "callback"

\* completedForemanRecoveryRetryResult: the intent and commit.json are there.
BatchCompleted == tx.committed

RecoveryResumesAt ==
    IF BatchCompleted THEN "close"
    ELSE IF tx.intent THEN (IF EventAccepted THEN "commit" ELSE "events")
    ELSE IF tx.staging = "sealed" THEN "promote"
    ELSE "callback"

ControlResumesAt == IF EventAccepted THEN "close" ELSE "callback"

ResumeAt ==
    CASE Req.kind = "recover" -> RecoveryResumesAt
      [] Req.kind = "control" -> ControlResumesAt
      [] OTHER -> RegistrationResumesAt

\* authorizeRegistrationOddRecovery: an accepted registration is only looked up again.
RegistrationWitness ==
    \/ EventAccepted
    \/ SealedByIt /\ TaskHolds
    \/ UnsealedByIt

\* authorizeForemanRecoveryOddRecovery
RecoveryWitness ==
    \/ BatchCompleted
    \/ SealedByIt /\ ScopeHolds
    \/ UnsealedByIt /\ Admissible(Req)

\* authorizeGoalControlOddRecovery
ControlWitness == EventAccepted

Witnessed ==
    CASE Req.kind = "recover" -> RecoveryWitness
      [] Req.kind = "control" -> ControlWitness
      [] OTHER -> RegistrationWitness

\* authorizeRegistrationPristineOddRecovery, authorizeForemanRecoveryPristineOddRecovery
\* and authorizeGoalControlPristineOddRecovery: nothing was written.
Pristine ==
    /\ tx.staging = "none" /\ ~tx.intent /\ ~tx.evidence /\ ~EventAccepted
    /\ Admissible(Req) /\ AuthorizedThen(Req)

Retry ==
    /\ pc = "idle" /\ tx # None
    /\ \/ Witnessed /\ tx' = [tx EXCEPT !.pristine = FALSE]
       \/ ~Witnessed /\ Pristine /\ tx' = [tx EXCEPT !.pristine = TRUE]
    /\ pc' = ResumeAt
    /\ UNCHANGED <<tasks, epoch, bootstrap, mints, faults>>

-----------------------------------------------------------------------------
(* The clock, and a task's own events at an even root (TaskFSM).           *)

LeaseExpires(t) ==
    /\ t \in Led /\ Foreman(t).live
    /\ tasks' = [tasks EXCEPT ![t].foreman.live = FALSE]
    /\ UNCHANGED <<epoch, bootstrap, tx, pc, mints, faults>>

CaptainExpires(t) ==
    /\ Usable(Captain(t))
    /\ tasks' = [tasks EXCEPT ![t].captain.live = FALSE]
    /\ UNCHANGED <<epoch, bootstrap, tx, pc, mints, faults>>

TaskEvent(t, new) ==
    /\ Even
    /\ tasks' = [tasks EXCEPT ![t] = new]
    /\ UNCHANGED <<epoch, bootstrap, tx, pc, mints>>

\* HEARTBEAT, of an archived task too. A replica whose lease has run out or which
\* has reported a system error is restored while another is usable.
Heartbeat(t) ==
    /\ t \in Led /\ Foreman(t).status # "lost"
    /\ AuthorizeGoalSession(Foreman(t).id)
    /\ TaskEvent(t, [tasks[t] EXCEPT !.foreman.status = "active", !.foreman.live = TRUE])
    /\ UNCHANGED faults

ReportSystemError(t) ==
    /\ Leads(t) /\ faults < MaxFaults
    /\ TaskEvent(t, [tasks[t] EXCEPT !.foreman.status = "systemError", !.foreman.live = TRUE])
    /\ faults' = faults + 1

Lost(r) == [role |-> r, succeeded |-> FALSE]

ForemanLost(t) ==    \* ROLE_LOST(FOREMAN), as status projects it to the CAPTAIN
    /\ CaptainCanSubmitForemanRoleLost(t)
    /\ TaskEvent(t, [tasks[t] EXCEPT !.foreman.status = "lost", !.recovery = Lost("FOREMAN")])
    /\ UNCHANGED faults

CaptainLost(t) ==    \* ROLE_LOST(CAPTAIN)
    /\ tasks[t].open /\ ~Behind(t) /\ tasks[t].recovery = None
    /\ Leads(t)
    /\ Captain(t) # None /\ Captain(t).status = "active" /\ ~Captain(t).live
    /\ TaskEvent(t, [tasks[t] EXCEPT !.captain.status = "lost", !.recovery = Lost("CAPTAIN")])
    /\ UNCHANGED faults

RoleRecovered(t) ==
    /\ tasks[t].recovery # None /\ tasks[t].recovery.succeeded
    /\ IF Recovering(t, "FOREMAN")
       THEN Usable(Captain(t)) /\ Usable(Foreman(t))
       ELSE Leads(t) /\ Usable(Captain(t))
    /\ TaskEvent(t, [tasks[t] EXCEPT !.recovery = None])
    /\ UNCHANGED faults

\* CONTROL_RECONCILED, with or without a new packet.
ControlReconciled(t) ==
    /\ Behind(t) /\ Leads(t)
    /\ TaskEvent(t, [tasks[t] EXCEPT !.seen = epoch, !.recovery = None,
           !.captain = IF @ # None /\ @.status = "active" THEN [@ EXCEPT !.status = "terminal"] ELSE @])
    /\ UNCHANGED faults

\* ARCHIVED: the FOREMAN's session stays.
Archive(t) ==
    /\ tasks[t].open /\ ~Behind(t) /\ tasks[t].recovery = None
    /\ Leads(t)
    /\ TaskEvent(t, [tasks[t] EXCEPT !.open = FALSE,
           !.captain = IF @ # None /\ @.status = "active" THEN [@ EXCEPT !.status = "terminal"] ELSE @])
    /\ UNCHANGED faults

-----------------------------------------------------------------------------
Step ==
    \/ Admit \/ Refuse \/ Stage \/ Seal \/ Promote \/ Install \/ AdvanceControlEpoch
    \/ CommitBatch \/ MarkConsumed \/ DeleteBootstrap \/ Close

Own(t) ==
    \/ Heartbeat(t) \/ ReportSystemError(t) \/ ForemanLost(t) \/ CaptainLost(t)
    \/ RoleRecovered(t) \/ ControlReconciled(t) \/ Archive(t)

Next ==
    \/ Step \/ Stop \/ Retry
    \/ \E r \in Request : Begin(r)
    \/ \E t \in Task : LeaseExpires(t) \/ CaptainExpires(t) \/ Own(t)

\* A process that holds the lock runs on, and the caller repeats its request.
Fairness == WF_vars(Step) /\ WF_vars(Retry)

Spec == Init /\ [][Next]_vars /\ Fairness

-----------------------------------------------------------------------------
(* Properties. *)

PCs == {"idle", "callback", "stage", "seal", "promote", "events", "commit", "mark", "delete", "close"}

Foremen == [id : Nat, status : {"active", "systemError", "lost"}, live : BOOLEAN, attempt : Nat]
Captains == [status : {"active", "lost", "terminal"}, live : BOOLEAN]
Recoveries == [role : {"FOREMAN", "CAPTAIN"}, succeeded : BOOLEAN]
Tasks == [open : BOOLEAN, foreman : Foremen \cup {None}, captain : Captains \cup {None},
          recovery : Recoveries \cup {None}, seen : Nat]
Requests == [kind : Prepared \cup {"join", "control"}, task : Task \cup {None}, by : Nat \cup {None}]
Transactions ==
    [req : Requests, id : Nat, targets : SUBSET (Task \cup {None}), incumbent : Nat,
     before : [Task -> Tasks], epoch : Nat, usable : SUBSET Task, pristine : BOOLEAN,
     staging : {"none", "unsealed", "sealed"}, intent : BOOLEAN, evidence : BOOLEAN,
     installed : SUBSET Task, committed : BOOLEAN]

ASSUME NoneAssumption ==
    None \notin Nat \cup Foremen \cup Captains \cup Recoveries \cup Transactions

TypeOK ==
    /\ tasks \in [Task -> Tasks]
    /\ \A t \in Task : tasks[t].seen <= epoch
    /\ epoch \in 0..MaxEpoch /\ mints \in 0..MaxMint /\ faults \in 0..MaxFaults
    /\ bootstrap \in [file : BOOLEAN, consumed : BOOLEAN]
    /\ tx \in Transactions \cup {None} /\ pc \in PCs
    /\ pc # "idle" => tx # None

\* A generation is one identity, whatever crashed on its way; under an even root
\* every open task that has a FOREMAN has the newest, and under an odd one a task is
\* either where the transaction found it or where it leads.
OneLineage ==
    /\ \A s, t \in Led : Foreman(s).id = Foreman(t).id <=> Foreman(s).attempt = Foreman(t).attempt
    /\ tx = None => Holders \subseteq Replicas
    /\ tx # None => \A t \in Holders \ Replicas : Bound(Foreman(t)) = Bound(tx.before[t].foreman)

BySuperseded ==
    pc = "events" /\ Req.by # None /\ \A t \in Replicas : Foreman(t).id # Req.by

\* A FOREMAN that has been succeeded decides nothing: authorizeGoalSession says so of
\* every request of a FOREMAN (CAPABILITY_SUPERSEDED).
SupersededRefused == ~BySuperseded

\* A new control epoch, a CAPTAIN and a further replica come from the newest
\* generation, whoever was usable when the transaction began. The pristine retry of a
\* request that was begun by a predecessor is the one exception (SupersededRefused).
NewestDecides == BySuperseded => tx.pristine

\* The bootstrap capability makes one FOREMAN: whoever finds the root even finds it
\* consumed and deleted once there is one, and it is never deleted unmarked.
BootstrapOnce ==
    /\ tx = None => (bootstrap.file <=> Led = {}) /\ (bootstrap.consumed <=> Led # {})
    /\ ~bootstrap.file => bootstrap.consumed
    /\ bootstrap.consumed => Led # {}

\* A goal whose FOREMAN is gone for good can get another: through the CAPTAIN, by a
\* registration with the recovery capability or by the recovery of all tasks at once.
\* The three exclude each other, and what one leaves half done another must take up.
SuccessionOpen ==
    tx = None /\ Led # {} /\ (\E t \in Task : tasks[t].open)
        /\ (\A t \in Replicas : ~Foreman(t).live)
    => \E t \in Task :
        \/ CaptainCanSubmitForemanRoleLost(t)
        \/ tasks[t].open /\ AdmissibleSuccession(t)
        \/ AdmissibleRecovery(t)

\* The generations as whoever finds the root even sees them.
Seen(t) == IF tx = None THEN tasks[t] ELSE tx.before[t]

A == INSTANCE AtomicForeman WITH
        lead <- [t \in Task |-> IF Seen(t).foreman = None THEN 0 ELSE Seen(t).foreman.attempt],
        open <- {t \in Task : Seen(t).open}

\* However many events and crashes it takes, a goal changes its FOREMAN in one step.
ImplementsAtomicForeman == A!Spec

\* The authority of a session is asked of a request that has sealed nothing yet; once
\* its lease is over the request can only be refused.
Lapsed ==
    /\ tx # None /\ ~SealedByIt /\ ~EventAccepted
    /\ ~(IF tx.staging = "none" THEN AuthorizedThen(Req) ELSE AuthorizedNow(Req))

\* Repeated, a request of which a crash has left anything comes to its end and opens the
\* root again, unless the authority it rests on is over.
RetryFinishes == tx # None ~> tx = None \/ Lapsed

\* What quickstart.md says of an unsealed staging directory: the same exact request,
\* with fresh authority, cleans it.
Unsealed == tx # None /\ tx.staging = "unsealed"
ExactRetryCleans == Unsealed ~> ~Unsealed \/ Lapsed
=============================================================================
