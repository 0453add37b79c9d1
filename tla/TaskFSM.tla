------------------------------ MODULE TaskFSM ------------------------------
(***************************************************************************)
(* One task of a Goal: the events fsm.js accepts, with the boundary checks *)
(* goal.js makes before it hands an event over. An accepted event is one   *)
(* atomic step (acceptEvent runs under the writer lock on the state that   *)
(* the whole event log folds to), so a step here is an accepted event.     *)
(*                                                                         *)
(* A session is the pair role/attempt: every attempt has a thread of its   *)
(* own (ROLE_IDENTITY_REUSE), so threads, hosts and capabilities are left  *)
(* out. active and idle are one status. The packet changes only with the   *)
(* cycle and is not kept apart from it.                                    *)
(***************************************************************************)
EXTENDS Naturals, Sequences, FiniteSets

CONSTANTS
    Policies,     \* may a task have a mechanical P1 policy? a subset of BOOLEAN
    Hold,         \* hold kinds in play, a subset of {"hard", "soft"}
    None,
    MaxAttempt,   \* bound on the attempts of a role
    MaxCycle,     \* bound on task cycles
    MaxHead,      \* bound on candidate commits
    MaxEpoch,     \* bound on control epochs
    MaxFaults     \* bound on expired leases and system errors

ASSUME TaskAssumption ==
    /\ Policies \subseteq BOOLEAN
    /\ Hold \subseteq {"hard", "soft"}
    /\ {MaxAttempt, MaxCycle} \subseteq Nat \ {0}
    /\ {MaxHead, MaxEpoch, MaxFaults} \subseteq Nat

Worker == {"DEV", "REVIEW", "RECEIPT"}
Subordinate == Worker \cup {"CAPTAIN"}
Role == Subordinate \cup {"FOREMAN"}

VARIABLES
    mechanical,  \* the manifest gives the task a mechanical P1 policy
    phase,       \* state.phase
    cycle,       \* state.task_cycle
    head,        \* state.full_head
    epoch,       \* the Goal's control epoch
    reconciled,  \* state.last_reconciled_epoch
    holds,       \* state.holds
    session,     \* state.sessions
    history,     \* state.session_history
    recovery,    \* state.recovery
    backlog,     \* state.recovery_backlog
    approved,    \* the cycle state.p1's approval was given in
    evidence,    \* state.evidence
    faults

control == <<mechanical, epoch, reconciled, holds>>
people == <<session, history, recovery, backlog>>
work == <<phase, cycle, head, approved, evidence>>
vars == <<work, control, people, faults>>

P1Phases == {"QUEUED", "P1_ACTIVE", "P1_READY", "P1_APPROVED"}
Delivered ==
    {"DEV_READY", "REVIEW_ACTIVE", "REVIEW_PASS", "RECEIPT_ACTIVE",
     "RECEIPT_FAILED", "RECEIPT_PASS", "ACCEPTED_PENDING_MERGE"}
Merged == {"MERGED_TO_MAIN", "ARCHIVED"}
Phase == P1Phases \cup {"P1_COMMITTED", "DEV_ACTIVE"} \cup Delivered \cup Merged

Gate == {"dev", "review", "receipt"}
NoEvidence == [g \in Gate |-> None]

Init ==
    /\ mechanical \in Policies
    /\ phase = "QUEUED" /\ cycle = 1 /\ head = 0
    /\ epoch = 0 /\ reconciled = 0 /\ holds = {}
    /\ session = [r \in Role |-> None]
    /\ history = [r \in Role |-> <<>>]
    /\ recovery = None /\ backlog = <<>>
    /\ approved = None /\ evidence = NoEvidence
    /\ faults = 0

-----------------------------------------------------------------------------
(* Sessions. *)

Attempt(r) == Len(history[r]) + 1

Registered(r) == session[r] # None
Usable(r) == Registered(r) /\ session[r].status = "active" /\ session[r].live
Mechanically(r) ==    \* lost without anybody's judgement
    /\ Registered(r)
    /\ \/ session[r].status = "systemError"
       \/ session[r].status = "active" /\ ~session[r].live

Frozen == Registered("DEV") /\ session["DEV"].scope = "PREFLIGHT_ONLY"

\* What a worker's session is bound to; nobody reads it of the other roles.
Binding(r) ==
    IF r \in Worker THEN [epoch |-> epoch, cycle |-> cycle, head |-> head] ELSE None

Fresh(r, status) ==
    [status |-> status, live |-> TRUE,
     registered |-> Binding(r), activated |-> Binding(r),
     recovered |-> None, scope |-> "FULL", handoff |-> FALSE,
     retarget |-> FALSE, restarted |-> FALSE]

\* What session_history keeps of an attempt.
Past(s, status) == [status |-> status, scope |-> s.scope, handoff |-> s.handoff]

RetiredFrom(statuses, roles) ==
    [r \in Role |->
        IF r \in roles /\ session[r] # None /\ session[r].status \in statuses
        THEN [session[r] EXCEPT !.status = "terminal"] ELSE session[r]]

\* rebuildTask derives the flag from the epochs on every load.
ReconcileRequired == phase \notin Merged /\ reconciled < epoch

\* applyEvent's four gates in front of every transition.
Open ==
    /\ recovery = None /\ backlog = <<>>
    /\ ~ReconcileRequired
    /\ holds = {}

-----------------------------------------------------------------------------
(* Registration. *)

Phases(r) ==    \* registrationPhases
    CASE r = "DEV" -> {"P1_COMMITTED", "DEV_ACTIVE", "RECEIPT_FAILED"}
      [] r = "REVIEW" -> {"DEV_READY", "RECEIPT_FAILED", "REVIEW_ACTIVE"}
      [] r = "RECEIPT" -> {"REVIEW_PASS", "RECEIPT_ACTIVE"}
      [] OTHER -> Phase

OwnPhase(r) ==
    CASE r = "DEV" -> "DEV_ACTIVE" [] r = "REVIEW" -> "REVIEW_ACTIVE"
      [] r = "RECEIPT" -> "RECEIPT_ACTIVE" [] OTHER -> "none"

Recovering(r) == recovery # None /\ recovery.role = r
PendingSuccessor(r) == Recovering(r) /\ recovery.successor = Attempt(r)

\* BOOTSTRAP or GOAL_RECOVERY for the FOREMAN, FOREMAN for the CAPTAIN,
\* CAPTAIN for the workers.
MayAuthorize(r) ==
    CASE r = "FOREMAN" -> Registered(r) => Recovering(r)
      [] r = "CAPTAIN" -> Usable("FOREMAN")
      [] OTHER -> Usable("CAPTAIN")

Replaceable(r) ==
    /\ ~(r = "DEV" /\ Frozen)
    /\ Recovering(r) \/ session[r].status = "terminal"
    /\ PendingSuccessor(r) => session[r].status = "systemError" \/ ~session[r].live

\* A pending successor nobody confirmed goes into the history as lost.
FiledStatus(r) == IF PendingSuccessor(r) THEN "lost" ELSE session[r].status

\* REGISTER_ROLE: the next attempt of a role, active or already in systemError.
Register(r, status) ==
    /\ phase # "ARCHIVED"
    /\ MayAuthorize(r)
    /\ phase \in Phases(r)
    /\ phase = OwnPhase(r) => Recovering(r)
    /\ Registered(r) => Replaceable(r) /\ Attempt(r) < MaxAttempt
    /\ status = "systemError" => faults < MaxFaults
    /\ faults' = IF status = "systemError" THEN faults + 1 ELSE faults
    /\ history' = [history EXCEPT ![r] =
          IF Registered(r) THEN Append(@, Past(session[r], FiledStatus(r))) ELSE @]
    /\ session' = [session EXCEPT ![r] = Fresh(r, status)]
    /\ recovery' = IF Recovering(r)
          THEN [recovery EXCEPT !.successor = Len(history'[r]) + 1] ELSE recovery
    /\ UNCHANGED <<work, control, backlog>>

\* HEARTBEAT: a session reports its own system error (a heartbeat that reports
\* nothing only extends the lease). An ARCHIVED task takes the FOREMAN's alone.
Heartbeat(r) ==
    /\ Usable(r)
    /\ phase = "ARCHIVED" => r = "FOREMAN"
    /\ faults < MaxFaults /\ faults' = faults + 1
    /\ session' = [session EXCEPT ![r].status = "systemError"]
    /\ UNCHANGED <<work, control, history, recovery, backlog>>

\* A lease runs out while its holder is away.
LeaseExpires(r) ==
    /\ Registered(r) /\ session[r].status \in {"active", "systemError"}
    /\ session[r].live
    /\ faults < MaxFaults /\ faults' = faults + 1
    /\ session' = [session EXCEPT ![r].live = FALSE]
    /\ UNCHANGED <<work, control, history, recovery, backlog>>

-----------------------------------------------------------------------------
(* The business transitions. *)

Transition(e) ==    \* TRANSITIONS
    CASE e = "START_P1" -> [from |-> {"QUEUED"}, to |-> "P1_ACTIVE", by |-> "CAPTAIN"]
      [] e = "P1_READY" -> [from |-> {"P1_ACTIVE"}, to |-> "P1_READY", by |-> "CAPTAIN"]
      [] e = "P1_APPROVED" -> [from |-> {"P1_READY"}, to |-> "P1_APPROVED", by |-> "FOREMAN"]
      [] e = "P1_COMMITTED" -> [from |-> {"P1_APPROVED"}, to |-> "P1_COMMITTED", by |-> "CAPTAIN"]
      [] e = "P1_RESTARTED" -> [from |-> P1Phases \ {"QUEUED"}, to |-> "QUEUED", by |-> "FOREMAN"]
      [] e = "LAUNCH_DEV" -> [from |-> {"P1_COMMITTED"}, to |-> "DEV_ACTIVE", by |-> "CAPTAIN"]
      [] e = "DEV_READY" -> [from |-> {"DEV_ACTIVE"}, to |-> "DEV_READY", by |-> "DEV"]
      [] e = "LAUNCH_REVIEW" -> [from |-> {"DEV_READY"}, to |-> "REVIEW_ACTIVE", by |-> "CAPTAIN"]
      [] e = "REVIEW_REWORK" -> [from |-> {"REVIEW_ACTIVE"}, to |-> "DEV_ACTIVE", by |-> "REVIEW"]
      [] e = "REVIEW_PASS" -> [from |-> {"REVIEW_ACTIVE"}, to |-> "REVIEW_PASS", by |-> "REVIEW"]
      [] e = "LAUNCH_RECEIPT" -> [from |-> {"REVIEW_PASS"}, to |-> "RECEIPT_ACTIVE", by |-> "CAPTAIN"]
      [] e = "RECEIPT_FAIL" -> [from |-> {"RECEIPT_ACTIVE"}, to |-> "RECEIPT_FAILED", by |-> "RECEIPT"]
      [] e = "REOPEN_DEV" -> [from |-> {"RECEIPT_FAILED"}, to |-> "DEV_ACTIVE", by |-> "CAPTAIN"]
      [] e = "REOPEN_REVIEW" -> [from |-> {"RECEIPT_FAILED"}, to |-> "REVIEW_ACTIVE", by |-> "CAPTAIN"]
      [] e = "RECEIPT_PASS" -> [from |-> {"RECEIPT_ACTIVE"}, to |-> "RECEIPT_PASS", by |-> "RECEIPT"]
      [] e = "READY_FOR_MERGE" -> [from |-> {"RECEIPT_PASS"}, to |-> "ACCEPTED_PENDING_MERGE", by |-> "CAPTAIN"]
      [] e = "TASK_REOPEN" -> [from |-> {"ACCEPTED_PENDING_MERGE"}, to |-> "DEV_ACTIVE", by |-> "FOREMAN"]
      [] e = "MERGED" -> [from |-> {"ACCEPTED_PENDING_MERGE"}, to |-> "MERGED_TO_MAIN", by |-> "FOREMAN"]
      [] e = "ARCHIVED" -> [from |-> {"MERGED_TO_MAIN"}, to |-> "ARCHIVED", by |-> "FOREMAN"]

Take(e) ==
    /\ Open
    /\ Usable(Transition(e).by)
    /\ phase \in Transition(e).from
    /\ phase' = Transition(e).to

NewHead == {head} \cup {h \in {head + 1} : h <= MaxHead}

\* validateRoleLaunchBoundary: the launched session is of this control epoch.
Launched(r) ==
    Registered(r) /\ session[r].status = "active" /\ session[r].registered.epoch = epoch

\* requireLaunchSession
Launchable(r) ==
    /\ Launched(r)
    /\ session[r].activated = Binding(r)
    /\ r = "DEV" /\ session[r].recovered # None => session[r].scope = "FULL"

\* assertDevLaunchHead and assertDevCandidateLineage, at DEV_READY.
Promoted(s) == s.scope = "FULL" /\ (s.recovered.phase = "DEV_ACTIVE" => s.handoff)

DevDeliverable ==
    /\ Launched("DEV")
    /\ session["DEV"].registered = Binding("DEV")
    /\ session["DEV"].recovered # None => Promoted(session["DEV"])

Ends(r) == session' = [session EXCEPT ![r].status = "terminal"]
Unpeopled == UNCHANGED <<history, recovery, backlog>>    \* transitions move sessions only

StartP1 ==    \* a mechanical P1 starts from the HEAD it is given
    /\ Take("START_P1")
    /\ head' \in IF mechanical THEN NewHead ELSE {head}
    /\ UNCHANGED <<cycle, approved, evidence, control, people, faults>>

P1Ready ==
    /\ Take("P1_READY")
    /\ UNCHANGED <<cycle, head, approved, evidence, control, people, faults>>

P1Approved ==
    /\ Take("P1_APPROVED")
    /\ approved' = cycle
    /\ UNCHANGED <<cycle, head, evidence, control, people, faults>>

P1Committed ==
    /\ Take("P1_COMMITTED")
    /\ approved # None
    /\ head' \in NewHead
    /\ UNCHANGED <<cycle, approved, evidence, control, people, faults>>

\* mechanicalP1RestartEligible: once per recovery of the CAPTAIN, and not
\* before the phase it was lost in has been reached again.
P1Order(p) == CASE p = "P1_ACTIVE" -> 1 [] p = "P1_READY" -> 2 [] p = "P1_APPROVED" -> 3
                [] OTHER -> 4

P1Restarted ==
    /\ mechanical /\ cycle < MaxCycle
    /\ Take("P1_RESTARTED")
    /\ LET c == session["CAPTAIN"] IN
        /\ Registered("CAPTAIN") /\ c.status = "active" /\ c.scope = "FULL"
        /\ c.recovered # None /\ P1Order(c.recovered.phase) <= P1Order(phase)
        /\ ~c.restarted
    /\ session' = [session EXCEPT !["CAPTAIN"].restarted = TRUE]
    /\ cycle' = cycle + 1
    /\ approved' = None /\ evidence' = NoEvidence
    /\ Unpeopled
    /\ UNCHANGED <<head, control, faults>>

Launch(e, r) ==
    /\ Take(e)
    /\ Launchable(r)
    /\ UNCHANGED <<cycle, head, approved, evidence, control, people, faults>>

LaunchDev == Launch("LAUNCH_DEV", "DEV")
LaunchReview == evidence["dev"] # None /\ Launch("LAUNCH_REVIEW", "REVIEW")
LaunchReceipt == evidence["review"] # None /\ Launch("LAUNCH_RECEIPT", "RECEIPT")
ReopenReview == Launch("REOPEN_REVIEW", "REVIEW")

\* Mutant: the evidence is checked against the HEAD before the delivery.
DevReadyOldHead ==
    /\ Take("DEV_READY")
    /\ DevDeliverable
    /\ head' \in NewHead
    /\ evidence' = [evidence EXCEPT !["dev"] = [cycle |-> cycle, head |-> head]]
    /\ UNCHANGED <<cycle, approved, control, people, faults>>

\* The evidence names the candidate; the cycle it was given in is kept for the
\* properties.
DevReady ==
    /\ Take("DEV_READY")
    /\ DevDeliverable
    /\ head' \in NewHead
    /\ evidence' = [evidence EXCEPT !["dev"] = [cycle |-> cycle, head |-> head']]
    /\ UNCHANGED <<cycle, approved, control, people, faults>>

Verdict(r, gate, passed) ==
    /\ Launched(r)
    /\ evidence' = [evidence EXCEPT ![gate] =
          IF passed THEN [cycle |-> cycle, head |-> head] ELSE None]
    /\ Ends(r) /\ Unpeopled
    /\ UNCHANGED <<cycle, head, approved, control, faults>>

ReviewPass == Take("REVIEW_PASS") /\ Verdict("REVIEW", "review", TRUE)
ReceiptPass == Take("RECEIPT_PASS") /\ Verdict("RECEIPT", "receipt", TRUE)
ReceiptFail == Take("RECEIPT_FAIL") /\ Verdict("RECEIPT", "receipt", FALSE)

ReviewRework ==    \* drops the receipt as well
    /\ Take("REVIEW_REWORK")
    /\ Launched("REVIEW")
    /\ evidence' = [evidence EXCEPT !["review"] = None, !["receipt"] = None]
    /\ Ends("REVIEW") /\ Unpeopled
    /\ UNCHANGED <<cycle, head, approved, control, faults>>

ReopenDev ==
    /\ Take("REOPEN_DEV")
    /\ Launched("DEV")
    /\ UNCHANGED <<cycle, head, approved, evidence, control, people, faults>>

ReadyForMerge ==
    /\ Take("READY_FOR_MERGE")
    /\ evidence["review"] # None /\ evidence["receipt"] # None
    /\ UNCHANGED <<cycle, head, approved, evidence, control, people, faults>>

TaskReopen ==
    /\ Take("TASK_REOPEN")
    /\ evidence' = NoEvidence
    /\ UNCHANGED <<cycle, head, approved, control, people, faults>>

Merge ==
    /\ Take("MERGED")
    /\ session' = RetiredFrom({"active"}, {"DEV"})
    /\ Unpeopled
    /\ UNCHANGED <<cycle, head, approved, evidence, control, faults>>

Archive ==
    /\ Take("ARCHIVED")
    /\ \A g \in Gate : evidence[g] # None
    /\ session' = RetiredFrom({"active"}, Subordinate)
    /\ Unpeopled
    /\ UNCHANGED <<cycle, head, approved, evidence, control, faults>>

-----------------------------------------------------------------------------
(* New packets, new control epochs, holds. *)

PacketUpdated ==
    /\ Usable("FOREMAN") /\ ~mechanical /\ cycle < MaxCycle
    /\ phase \notin {"ACCEPTED_PENDING_MERGE"} \cup Merged
    /\ phase' = "P1_ACTIVE" /\ cycle' = cycle + 1 /\ head' \in NewHead
    /\ approved' = None /\ evidence' = NoEvidence
    /\ recovery' = None /\ backlog' = <<>>
    /\ session' = [r \in Role |->
          IF r \in Subordinate /\ Registered(r)
          THEN [session[r] EXCEPT !.status = "terminal"] ELSE session[r]]
    /\ UNCHANGED <<control, history, faults>>

ControlReconciled ==
    /\ Usable("FOREMAN") /\ ReconcileRequired /\ cycle < MaxCycle
    /\ reconciled' = epoch
    /\ phase' = IF mechanical \/ phase = "QUEUED" THEN "QUEUED" ELSE "P1_ACTIVE"
    /\ cycle' = cycle + 1
    /\ approved' = None /\ evidence' = NoEvidence
    /\ recovery' = None /\ backlog' = <<>>
    /\ session' = RetiredFrom({"active"}, Subordinate)
    /\ UNCHANGED <<head, mechanical, epoch, holds, history, faults>>

AdvanceControlEpoch ==
    /\ Usable("FOREMAN") /\ epoch < MaxEpoch
    /\ epoch' = epoch + 1
    /\ UNCHANGED <<work, mechanical, reconciled, holds, people, faults>>

AddHold(r, h) ==
    /\ Usable(r) /\ phase # "ARCHIVED"
    /\ h \notin holds
    /\ holds' = holds \cup {h}
    /\ UNCHANGED <<work, mechanical, epoch, reconciled, people, faults>>

ResolveHold(r, h) ==
    /\ Usable(r) /\ phase # "ARCHIVED"
    /\ h \in holds
    /\ r \in IF h = "hard" THEN {"FOREMAN"} ELSE {"FOREMAN", "CAPTAIN"}
    /\ holds' = holds \ {h}
    /\ UNCHANGED <<work, mechanical, epoch, reconciled, people, faults>>

-----------------------------------------------------------------------------
(* Lost roles and their successors. *)

\* Mutant: the last attempt is its successor's source, whatever it had.
SourceOfLast(r) == 0

\* A DEV lost before it got its source hands its own predecessor on.
SourceOf(r) ==
    IF /\ r = "DEV" /\ phase = "DEV_ACTIVE"
       /\ session[r].scope = "RECOVERY_BLOCKED" /\ session[r].recovered # None
    THEN session[r].recovered.attempt ELSE 0

RoleLost(r) ==
    /\ phase # "ARCHIVED"
    /\ Usable(IF r = "CAPTAIN" THEN "FOREMAN" ELSE "CAPTAIN")
    /\ recovery = None
    /\ Registered(r) /\ session[r].status \in {"active", "systemError"}
    /\ ~(r = "DEV" /\ Frozen)
    /\ session' = [session EXCEPT ![r].status = "lost"]
    /\ recovery' = [role |-> r, lost |-> Attempt(r), phase |-> phase,
                    source |-> SourceOf(r), successor |-> 0]
    /\ UNCHANGED <<work, control, history, backlog, faults>>

\* RECOVERY_PREDECESSOR_MISSING and RECOVERY_LINEAGE_GAP are what happens
\* otherwise.
LineageWhole(rec) ==
    LET past == history[rec.role] IN
    /\ rec.lost <= Len(past)
    /\ past[rec.lost].handoff => past[rec.lost].scope = "FULL"
    /\ \A a \in rec.lost .. Len(past) : past[a].status = "lost"
    /\ rec.source # 0 => past[rec.source].status = "lost"

RecoveredScope(rec) ==
    IF rec.role = "DEV" /\ rec.phase = "DEV_ACTIVE" THEN "RECOVERY_BLOCKED" ELSE "FULL"

RoleRecovered ==
    /\ phase # "ARCHIVED"
    /\ recovery # None
    /\ LET r == recovery.role IN
        /\ Usable(IF r = "CAPTAIN" THEN "FOREMAN" ELSE "CAPTAIN")
        /\ PendingSuccessor(r) /\ Usable(r)
        /\ LineageWhole(recovery)
        /\ session' = [session EXCEPT ![r].activated = Binding(r),
              ![r].scope = RecoveredScope(recovery),
              ![r].recovered =
                  [attempt |-> IF recovery.source = 0 THEN recovery.lost ELSE recovery.source,
                   phase |-> recovery.phase]]
        /\ IF r = "CAPTAIN" /\ backlog # <<>>
           THEN recovery' = Head(backlog) /\ backlog' = Tail(backlog)
           ELSE recovery' = None /\ UNCHANGED backlog
    /\ UNCHANGED <<work, control, history, faults>>

\* The regular way, ROLE_LOST(FOREMAN) by the CAPTAIN, has precedence.
CaptainPath ==
    /\ ~ReconcileRequired /\ recovery = None /\ backlog = <<>>
    /\ Mechanically("FOREMAN") /\ Usable("CAPTAIN")

\* Mutant: only one whose successor is registered is worth parking.
ParkedSucceeded ==
    recovery # None /\ recovery.role \in Worker /\ recovery.successor # 0

\* RECOVER_EXPIRED_FOREMAN: a worker's recovery waits in the backlog until the
\* CAPTAIN has been replaced, a CAPTAIN's is kept.
Parked == recovery # None /\ recovery.role \in Worker

RecoverExpiredForeman ==
    LET f == session["FOREMAN"] IN
    /\ phase # "ARCHIVED"
    /\ Registered("FOREMAN") /\ Attempt("FOREMAN") < MaxAttempt
    /\ ~f.live
    /\ \/ f.status \in {"active", "systemError"}
       \/ f.status = "lost" /\ Recovering("FOREMAN")
    /\ ~CaptainPath
    /\ history' = [history EXCEPT !["FOREMAN"] = Append(@, Past(f, "lost"))]
    /\ session' = [session EXCEPT !["FOREMAN"] = Fresh("FOREMAN", "active")]
    /\ recovery' = IF Recovering("CAPTAIN") THEN recovery ELSE None
    /\ backlog' = IF Parked THEN Append(backlog, recovery) ELSE backlog
    /\ UNCHANGED <<work, control, faults>>

\* A recovered DEV gets its predecessor's source and proves it can build it.
RecoveryHandoffBound ==
    LET d == session["DEV"] IN
    /\ Usable("CAPTAIN") /\ Usable("DEV") /\ phase = "DEV_ACTIVE"
    /\ d.recovered # None /\ d.scope = "RECOVERY_BLOCKED" /\ ~d.retarget
    /\ session' = [session EXCEPT !["DEV"].scope = "PREFLIGHT_ONLY",
                                  !["DEV"].handoff = TRUE]
    /\ UNCHANGED <<work, control, history, recovery, backlog, faults>>

RecoveryPromoted ==
    /\ Usable("CAPTAIN") /\ phase = "DEV_ACTIVE"
    /\ Frozen /\ session["DEV"].live
    /\ session["DEV"].registered.epoch = epoch
    /\ session' = [session EXCEPT !["DEV"].scope = "FULL",
                                  !["DEV"].activated = Binding("DEV")]
    /\ UNCHANGED <<work, control, history, recovery, backlog, faults>>

RecoveryHandoffAbandoned ==
    /\ Usable("CAPTAIN") /\ Usable("FOREMAN") /\ phase = "DEV_ACTIVE"
    /\ Frozen
    /\ session' = [session EXCEPT !["DEV"].scope = "RECOVERY_BLOCKED",
                                  !["DEV"].handoff = FALSE,
                                  !["DEV"].retarget = TRUE]
    /\ UNCHANGED <<work, control, history, recovery, backlog, faults>>

-----------------------------------------------------------------------------
Business ==
    \/ StartP1 \/ P1Ready \/ P1Approved \/ P1Committed \/ P1Restarted
    \/ LaunchDev \/ DevReady \/ LaunchReview \/ ReviewRework \/ ReviewPass
    \/ LaunchReceipt \/ ReceiptFail \/ ReopenDev \/ ReopenReview \/ ReceiptPass
    \/ ReadyForMerge \/ TaskReopen \/ Merge \/ Archive

Control ==
    \/ PacketUpdated \/ ControlReconciled \/ AdvanceControlEpoch
    \/ \E r \in Role, h \in Hold : AddHold(r, h) \/ ResolveHold(r, h)

Staffing ==
    \/ \E r \in Role : \E status \in {"active", "systemError"} : Register(r, status)
    \/ \E r \in Role : Heartbeat(r) \/ LeaseExpires(r) \/ RoleLost(r)
    \/ RoleRecovered \/ RecoverExpiredForeman
    \/ RecoveryHandoffBound \/ RecoveryPromoted \/ RecoveryHandoffAbandoned

Next == Business \/ Control \/ Staffing

Spec == Init /\ [][Next]_vars

-----------------------------------------------------------------------------
(* Properties. *)

Bound == [epoch : 0..MaxEpoch, cycle : 1..MaxCycle, head : 0..MaxHead]
Origin == [attempt : 1..MaxAttempt, phase : Phase]
Scope == {"FULL", "RECOVERY_BLOCKED", "PREFLIGHT_ONLY"}
Sessions ==
    [status : {"active", "systemError", "lost", "terminal"}, live : BOOLEAN,
     registered : Bound \cup {None}, activated : Bound \cup {None},
     recovered : Origin \cup {None}, scope : Scope, handoff : BOOLEAN,
     retarget : BOOLEAN, restarted : BOOLEAN]
Recoveries ==
    [role : Role, lost : 1..MaxAttempt, phase : Phase,
     source : 0..MaxAttempt, successor : 0..MaxAttempt]
Pasts == [status : {"active", "systemError", "lost", "terminal"},
          scope : Scope, handoff : BOOLEAN]
Proofs == [cycle : 1..MaxCycle, head : 0..MaxHead]

\* None is no value of any of these types.
ASSUME NoneAssumption ==
    None \notin Sessions \cup Recoveries \cup Proofs \cup Bound \cup Origin \cup Nat

TypeOK ==
    /\ mechanical \in Policies
    /\ phase \in Phase /\ cycle \in 1..MaxCycle /\ head \in 0..MaxHead
    /\ epoch \in 0..MaxEpoch /\ reconciled \in 0..epoch /\ holds \subseteq Hold
    /\ session \in [Role -> Sessions \cup {None}]
    /\ history \in [Role -> Seq(Pasts)]
    /\ recovery \in Recoveries \cup {None} /\ backlog \in Seq(Recoveries)
    /\ approved \in 1..MaxCycle \cup {None}
    /\ evidence \in [Gate -> Proofs \cup {None}]
    /\ faults \in 0..MaxFaults

\* A task that waits for its merge, or is merged, was approved, built, reviewed
\* and accepted in this cycle, all three verdicts on the candidate it stands
\* for: rework, receipt failures, recoveries, new packets and new control
\* epochs never let a verdict on an older candidate through.
AcceptedOnCurrent ==
    /\ phase \notin P1Phases => approved = cycle
    /\ phase \in {"REVIEW_PASS", "RECEIPT_ACTIVE", "RECEIPT_PASS"}
          \cup {"ACCEPTED_PENDING_MERGE"} \cup Merged =>
        LET g == IF phase \in {"REVIEW_PASS", "RECEIPT_ACTIVE"} THEN {"dev", "review"} ELSE Gate
        IN \A x \in g : evidence[x] = [cycle |-> cycle, head |-> head]

\* Whoever may act in an active phase was registered for this very cycle and,
\* unless a new control epoch waits to be reconciled, in this epoch: a session
\* of an abandoned cycle is never woken up by the task coming back to its phase.
WorkerOfThisCycle ==
    \A r \in Worker :
        phase = OwnPhase(r) /\ Usable(r) =>
            /\ session[r].registered.cycle = cycle
            /\ session[r].registered.epoch = epoch \/ ReconcileRequired

\* No role is reported lost while an earlier recovery of it waits in the backlog.
\* status/actions suggest no such report (goal.js 9200-9323), but ROLE_LOST is
\* accepted without asking them (fsm.js 735-800): it is a habit of the CAPTAIN.
ReportedOnce ==
    recovery # None => \A i \in DOMAIN backlog : backlog[i].role # recovery.role

\* A pending recovery, parked or not, names the last attempt that was lost, and
\* once its successor is registered the lineage ROLE_RECOVERED demands is there.
\* The code keeps this only as long as ReportedOnce holds: after a second report
\* the parked recovery can only answer RECOVERY_LINEAGE_GAP.
RecoveryClosable ==
    \A rec \in ({recovery} \cup {backlog[i] : i \in DOMAIN backlog}) \ {None} :
        \/ /\ rec.successor = 0
           /\ rec.lost = Attempt(rec.role) /\ session[rec.role].status = "lost"
        \/ rec.successor = Attempt(rec.role) /\ LineageWhole(rec)

\* A DEV that took over in mid-development continues the work of an attempt that
\* was lost and had work to continue, over any number of successors lost in
\* between before they got hold of it; and what it delivers is what it was
\* handed and has proved it can build. This asks nothing of who reports which loss
\* when: ROLE_LOST may come for a live session, and for one already being recovered.
RecoveredSourceIsReal ==
    Registered("DEV") /\ session["DEV"].recovered # None
        /\ session["DEV"].recovered.phase = "DEV_ACTIVE" =>
        /\ LET source == history["DEV"][session["DEV"].recovered.attempt]
           IN source.status = "lost" /\ source.scope = "FULL"
        /\ phase \in Delivered => Promoted(session["DEV"])

Orphaned(r) ==    \* lost, and nobody is to replace it
    /\ Registered(r) /\ session[r].status = "lost"
    /\ ~Recovering(r) /\ \A i \in DOMAIN backlog : backlog[i].role # r

\* A lost role is never forgotten: as long as no control epoch has been
\* reconciled (see ReconcileRetires) its recovery is pending or parked, however
\* the recoveries of the FOREMAN, the CAPTAIN and the workers are interleaved.
LostIsPending == reconciled = 0 => \A r \in Role : ~Orphaned(r)

Blocked ==
    \/ recovery # None \/ backlog # <<>> \/ holds # {}
    \/ phase \notin Merged /\ reconciled < epoch

\* While a recovery, a hold or a new control epoch is pending, the task moves
\* only by being sent back to P1 with nothing proved (PACKET_UPDATED,
\* CONTROL_RECONCILED).
BlockedNeverAdvances ==
    [][(Blocked /\ phase' # phase) =>
        /\ phase' \in {"QUEUED", "P1_ACTIVE"}
        /\ cycle' = cycle + 1
        /\ evidence' = NoEvidence]_vars

-----------------------------------------------------------------------------
(* What the documents say and the code does not do. *)

\* goal-control.md: a reconcile ends the old CAPTAIN and every worker attempt,
\* so that successors can be registered. One that was being recovered has lost
\* its recovery by then and is not terminal either: no registration takes it.
ReconcileRetires == reconciled > 0 => \A r \in Subordinate : ~Orphaned(r)

=============================================================================
