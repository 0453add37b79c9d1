--------------------------- MODULE TaskFSMProofs ---------------------------
(***************************************************************************)
(* Theorems about TaskFSM, for any number of cycles, attempts, epochs,     *)
(* candidates and losses.                                                  *)
(***************************************************************************)
EXTENDS TaskFSM, TLAPS

-----------------------------------------------------------------------------
(* The invariant. *)

\* What was approved, and which verdicts stand, by phase.
Approval ==
    /\ approved \in {None, cycle}
    /\ phase \notin P1Phases => approved = cycle

Current(g) == evidence[g] = [cycle |-> cycle, head |-> head]

Verdicts ==
    /\ phase \in Delivered \cup Merged => Current("dev")
    /\ phase \in {"REVIEW_PASS", "RECEIPT_ACTIVE", "RECEIPT_PASS", "ACCEPTED_PENDING_MERGE"} \cup Merged =>
          Current("review")
    /\ phase \in {"RECEIPT_PASS", "ACCEPTED_PENDING_MERGE"} \cup Merged => Current("receipt")

\* Attempts are counted from the first registration on.
Counted ==
    \A r \in Role :
        /\ Attempt(r) <= MaxAttempt
        /\ ~Registered(r) => history[r] = <<>>

\* The attempt a DEV takes over from had work to continue.
Continues(attempt) ==
    /\ attempt \in DOMAIN history["DEV"]
    /\ history["DEV"][attempt].status = "lost"
    /\ history["DEV"][attempt].scope = "FULL"

\* What a session's scope and origin say about each other.
SessionInv(r) ==
    LET s == session[r] IN
    Registered(r) =>
        /\ s.scope = "PREFLIGHT_ONLY" => s.status # "lost"
        /\ s.scope # "FULL" => r = "DEV" /\ s.recovered # None /\ s.recovered.phase = "DEV_ACTIVE"
        /\ r = "DEV" /\ s.recovered # None /\ s.recovered.phase = "DEV_ACTIVE" =>
              /\ Continues(s.recovered.attempt)
              /\ phase \in Delivered => Promoted(s)

\* Work that was handed over is given back before its holder is blocked again.
HandedInv ==
    \A r \in Role : Registered(r) /\ session[r].handoff => session[r].scope # "RECOVERY_BLOCKED"

\* The lost attempt's work goes to the successor: its own, or its predecessor's.
Sourced(rec, lost) ==
    rec.role = "DEV" /\ rec.phase = "DEV_ACTIVE" =>
        IF rec.source = 0 THEN lost.scope = "FULL" ELSE Continues(rec.source)

\* The attempt a recovery names had work for the successor, whether it has been
\* filed yet or not, and whatever became of the role since.
OwedInv(rec) ==
    LET past == history[rec.role] IN
    /\ Registered(rec.role) /\ rec.phase = phase
    /\ \/ rec.lost \in DOMAIN past /\ Sourced(rec, past[rec.lost])
       \/ /\ rec.lost = Attempt(rec.role) /\ session[rec.role].status = "lost"
          /\ Sourced(rec, session[rec.role])

InPlay(rec) == rec = recovery \/ \E i \in DOMAIN backlog : rec = backlog[i]

OwedAll == \A rec \in Recoveries : InPlay(rec) => OwedInv(rec)

\* Nobody has been registered yet in the place of the lost session, ...
Vacant(rec) ==
    /\ rec.successor = 0
    /\ rec.lost = Attempt(rec.role)
    /\ session[rec.role].status = "lost"
    /\ Sourced(rec, session[rec.role])

\* ... or the last of the attempts that followed it is there, new and unconfirmed.
Succeeded(rec) ==
    LET past == history[rec.role] IN
    /\ rec.successor = Attempt(rec.role)
    /\ session[rec.role].status \in {"active", "systemError"}
    /\ session[rec.role].recovered = None
    /\ session[rec.role].scope = "FULL" /\ ~session[rec.role].handoff
    /\ rec.lost \in DOMAIN past
    /\ past[rec.lost].handoff => past[rec.lost].scope = "FULL"
    /\ \A a \in rec.lost .. Len(past) : past[a].status = "lost"
    /\ Sourced(rec, past[rec.lost])

RecoveryInv(rec) ==
    /\ Registered(rec.role)
    /\ rec.phase = phase
    /\ rec.source # 0 => rec.role = "DEV" /\ rec.phase = "DEV_ACTIVE"
    /\ Vacant(rec) \/ Succeeded(rec)

Distinct ==
    /\ \A i \in DOMAIN backlog : backlog[i].role \in Worker
    /\ \A i, j \in DOMAIN backlog : i # j => backlog[i].role # backlog[j].role
    /\ recovery # None => \A i \in DOMAIN backlog : backlog[i].role # recovery.role

PendingInv ==
    /\ recovery # None => RecoveryInv(recovery)
    /\ \A i \in DOMAIN backlog : RecoveryInv(backlog[i])
    /\ Distinct

WorkInv == Approval /\ Verdicts

-----------------------------------------------------------------------------
(* What each group of events leaves alone. *)

Statuses == {"active", "systemError", "lost", "terminal"}

\* Single fields of a session are updated within its type.
LEMMA SessionFields ==
    ASSUME NEW s \in Sessions
    PROVE  /\ \A x \in Statuses : [s EXCEPT !.status = x] \in Sessions
           /\ \A b \in BOOLEAN : [s EXCEPT !.live = b] \in Sessions
           /\ [s EXCEPT !.restarted = TRUE] \in Sessions
  BY DEF Sessions, Statuses

\* What a business transition may do to a session: end it, or mark that it has
\* restarted a mechanical P1.
Same(r)  == session'[r] = session[r]
Ended(r) == Registered(r) /\ session'[r] = [session[r] EXCEPT !.status = "terminal"]
Marked(r) == Registered(r) /\ session'[r] = [session[r] EXCEPT !.restarted = TRUE]

\* A business transition is taken only while nobody is being replaced, and
\* replaces nobody.
LEMMA BusinessFrame ==
    ASSUME TypeOK, Business
    PROVE  /\ recovery = None /\ backlog = <<>>
           /\ UNCHANGED <<history, recovery, backlog, control, faults>>
           /\ session' \in [Role -> Sessions \cup {None}]
           /\ \A r \in Role : Same(r) \/ Ended(r) \/ Marked(r)
  <1> USE DEF Take, Open, Unpeopled, people, control
  <1>1. CASE StartP1 \/ P1Ready \/ P1Approved \/ P1Committed
    BY <1>1 DEF StartP1, P1Ready, P1Approved, P1Committed, TypeOK, Same
  <1>2. CASE P1Restarted
    BY <1>2, SessionFields DEF P1Restarted, TypeOK, Same, Marked, Registered, Role, Subordinate
  <1>3. CASE LaunchDev \/ LaunchReview \/ LaunchReceipt \/ ReopenReview
    BY <1>3 DEF LaunchDev, LaunchReview, LaunchReceipt, ReopenReview, Launch, TypeOK, Same
  <1>4. CASE DevReady \/ ReopenDev \/ ReadyForMerge \/ TaskReopen
    BY <1>4 DEF DevReady, ReopenDev, ReadyForMerge, TaskReopen, TypeOK, Same
  <1>5. CASE ReviewPass \/ ReceiptPass \/ ReceiptFail \/ ReviewRework
    <2>1. PICK r \in {"REVIEW", "RECEIPT"} : Ends(r) /\ Registered(r)
      BY <1>5 DEF ReviewPass, ReceiptPass, ReceiptFail, ReviewRework, Verdict, Launched
    <2>2. UNCHANGED <<history, recovery, backlog, control, faults>> /\ Open
      BY <1>5 DEF ReviewPass, ReceiptPass, ReceiptFail, ReviewRework, Verdict
    <2>3. QED
      BY <2>1, <2>2, SessionFields DEF Statuses, Ends, TypeOK, Same, Ended, Registered, Role, Subordinate, Worker
  <1>6. CASE Merge \/ Archive
    <2>1. PICK roles \in SUBSET Role : session' = RetiredFrom({"active"}, roles)
      BY <1>6 DEF Merge, Archive, Role, Subordinate, Worker
    <2>2. UNCHANGED <<history, recovery, backlog, control, faults>> /\ Open
      BY <1>6 DEF Merge, Archive
    <2>3. QED
      BY <2>1, <2>2, SessionFields DEF Statuses, RetiredFrom, TypeOK, Same, Ended, Registered
  <1>7. QED  BY <1>1, <1>2, <1>3, <1>4, <1>5, <1>6 DEF Business

-----------------------------------------------------------------------------
(* What the task stands for: its phase, cycle, candidate and verdicts. *)

WorkType ==
    /\ phase \in Phase /\ cycle \in 1..MaxCycle /\ head \in 0..MaxHead
    /\ approved \in 1..MaxCycle \cup {None}
    /\ evidence \in [Gate -> Proofs \cup {None}]

\* A new candidate is one of the candidates.
LEMMA NewHeads ==
    ASSUME head \in 0..MaxHead
    PROVE  NewHead \subseteq 0..MaxHead
  BY TaskAssumption DEF NewHead

\* The verdicts of a business transition are given in this cycle, on the
\* candidate the transition leaves, and one that moves the candidate leaves no
\* verdict standing that the new phase needs.
LEMMA BusinessWork ==
    ASSUME TypeOK, WorkInv, Business
    PROVE  WorkType' /\ WorkInv'
  <1>0. /\ WorkType /\ TaskAssumption /\ NewHead \subseteq 0..MaxHead
        /\ None \notin Nat /\ None \notin Proofs
    BY TaskAssumption, NoneAssumption, NewHeads DEF TypeOK, WorkType
  <1>p. Gate = {"dev", "review", "receipt"} /\ [cycle |-> cycle, head |-> head] \in Proofs
    BY <1>0 DEF Gate, Proofs, WorkType
  <1> USE <1>0, <1>p DEF WorkType, WorkInv, Approval, Verdicts, Current, Take, Transition,
                  Phase, P1Phases, Delivered, Merged
  <1>1. CASE StartP1 \/ P1Ready \/ P1Approved \/ P1Committed
    BY <1>1 DEF StartP1, P1Ready, P1Approved, P1Committed
  <1>2. CASE P1Restarted
    BY <1>2 DEF P1Restarted, NoEvidence
  <1>3. CASE LaunchDev \/ LaunchReview \/ LaunchReceipt \/ ReopenReview
    BY <1>3 DEF LaunchDev, LaunchReview, LaunchReceipt, ReopenReview, Launch
  <1>4. CASE DevReady
    BY <1>4 DEF DevReady, Proofs
  <1>5. CASE ReopenDev \/ ReadyForMerge
    BY <1>5 DEF ReopenDev, ReadyForMerge
  <1>6. CASE TaskReopen
    BY <1>6 DEF TaskReopen, NoEvidence
  <1>7. CASE ReviewPass \/ ReceiptPass \/ ReceiptFail
    BY <1>7 DEF ReviewPass, ReceiptPass, ReceiptFail, Verdict
  <1>8. CASE ReviewRework
    BY <1>8 DEF ReviewRework
  <1>9. CASE Merge \/ Archive
    BY <1>9 DEF Merge, Archive
  <1>10. QED
    BY <1>1, <1>2, <1>3, <1>4, <1>5, <1>6, <1>7, <1>8, <1>9 DEF Business

\* A packet, a control epoch or a hold proves nothing: what it changes of the
\* task goes back to P1.
LEMMA ControlWork ==
    ASSUME TypeOK, WorkInv, Control
    PROVE  /\ WorkType' /\ WorkInv'
           /\ UNCHANGED <<history, faults, mechanical>>
           /\ epoch' \in 0..MaxEpoch /\ reconciled' \in 0..epoch' /\ holds' \subseteq Hold
  <1>0. /\ WorkType /\ TaskAssumption /\ NewHead \subseteq 0..MaxHead
    BY TaskAssumption, NewHeads DEF TypeOK, WorkType
  <1>1. CASE PacketUpdated \/ ControlReconciled
    BY <1>0, <1>1 DEF PacketUpdated, ControlReconciled, NoEvidence, WorkType, WorkInv, Approval,
        Verdicts, Current, Phase, P1Phases, Delivered, Merged, TypeOK, control, ReconcileRequired
  <1>2. CASE ~(PacketUpdated \/ ControlReconciled)
    <2>1. UNCHANGED work
      BY <1>2 DEF Control, AdvanceControlEpoch, AddHold, ResolveHold
    <2>2. WorkType' /\ WorkInv'
      BY <1>0, <2>1 DEF work, WorkType, WorkInv, Approval, Verdicts, Current
    <2>3. CASE AdvanceControlEpoch
      BY <2>2, <2>3, TaskAssumption DEF AdvanceControlEpoch, people, TypeOK
    <2>4. CASE \E r \in Role, h \in Hold : AddHold(r, h) \/ ResolveHold(r, h)
      BY <2>2, <2>4 DEF AddHold, ResolveHold, people, TypeOK
    <2>5. QED  BY <1>2, <2>3, <2>4 DEF Control
  <1>3. QED  BY <1>1, <1>2

\* Staff come and go without moving the task.
LEMMA StaffingWork ==
    ASSUME TypeOK, WorkInv, Staffing
    PROVE  /\ UNCHANGED <<work, control>>
           /\ WorkType' /\ WorkInv'
  <1>1. UNCHANGED <<work, control>>
    BY DEF Staffing, Register, Heartbeat, LeaseExpires, RoleLost, RoleRecovered,
        RecoverExpiredForeman, RecoveryHandoffBound, RecoveryPromoted, RecoveryHandoffAbandoned
  <1>2. QED
    BY <1>1 DEF work, control, WorkType, WorkInv, Approval, Verdicts, Current, TypeOK

-----------------------------------------------------------------------------
(* Sessions, attempts and recoveries keep their types. *)

SessionType == session \in [Role -> Sessions \cup {None}]
HistoryType == history \in [Role -> Seq(Pasts)]
RecoveryType == recovery \in Recoveries \cup {None} /\ backlog \in Seq(Recoveries)

\* What the invariant reads of a session besides its status.
SameWork(s, t) == t.scope = s.scope /\ t.handoff = s.handoff /\ t.recovered = s.recovered

\* A session of which only the status changes.
LEMMA StatusOnly ==
    ASSUME NEW s \in Sessions, NEW x \in Statuses
    PROVE  LET t == [s EXCEPT !.status = x]
           IN t \in Sessions /\ t.status = x /\ SameWork(s, t)
  BY DEF Sessions, Statuses, SameWork

\* A session whose lease runs out.
LEMMA LiveOnly ==
    ASSUME NEW s \in Sessions
    PROVE  LET t == [s EXCEPT !.live = FALSE]
           IN t \in Sessions /\ t.status = s.status /\ SameWork(s, t)
  BY DEF Sessions, Statuses, SameWork

\* A session that was restarted.
LEMMA RestartedOnly ==
    ASSUME NEW s \in Sessions
    PROVE  LET t == [s EXCEPT !.restarted = TRUE]
           IN t \in Sessions /\ t.status = s.status /\ SameWork(s, t)
  BY DEF Sessions, Statuses, SameWork

\* What a session is bound to.
LEMMA BindingType ==
    ASSUME TypeOK, NEW r \in Role
    PROVE  Binding(r) \in Bound \cup {None}
  BY DEF TypeOK, Binding, Bound

\* A session that has just been registered.
LEMMA FreshType ==
    ASSUME TypeOK, NEW r \in Role, NEW status \in {"active", "systemError"}
    PROVE  LET s == Fresh(r, status)
           IN /\ s \in Sessions /\ s.status = status /\ s.recovered = None
              /\ s.scope = "FULL" /\ s.handoff = FALSE
  BY BindingType DEF Fresh, Sessions, Scope

\* The role changes one field of its sessions, or one entry of the table.
Only(r, s) ==
    /\ SessionType'
    /\ session'[r] = s
    /\ \A x \in Role \ {r} : session'[x] = session[x]

\* One role's session changes, and no other.
LEMMA OneSession ==
    ASSUME TypeOK, NEW r \in Role, NEW s \in Sessions, session' = [session EXCEPT ![r] = s]
    PROVE  Only(r, s)
  BY DEF TypeOK, Only, SessionType

\* The attempt in place is filed, a fresh one takes its place.
Filed(r, status) ==
    /\ HistoryType'
    /\ \A x \in Role \ {r} : history'[x] = history[x]
    /\ history'[r] = Append(history[r], Past(session[r], status))

\* An attempt that goes into the history.
LEMMA FiledType ==
    ASSUME TypeOK, NEW r \in Role, Registered(r), NEW status \in Statuses,
           history' = [history EXCEPT ![r] = Append(@, Past(session[r], status))]
    PROVE  Filed(r, status)
  <1>1. session[r] \in Sessions
    BY DEF TypeOK, Registered
  <1>2. Past(session[r], status) \in Pasts
    BY <1>1 DEF Sessions, Past, Pasts, Statuses
  <1>3. history \in [Role -> Seq(Pasts)]
    BY DEF TypeOK
  <1>4. Append(history[r], Past(session[r], status)) \in Seq(Pasts)
    BY <1>2, <1>3
  <1>5. QED
    BY <1>3, <1>4 DEF Filed, HistoryType

\* What a registration changes.
LEMMA RegisterEffect ==
    ASSUME TypeOK, Counted, NEW r \in Role, NEW status \in {"active", "systemError"},
           Register(r, status)
    PROVE  /\ Only(r, Fresh(r, status))
           /\ IF Registered(r) THEN Filed(r, FiledStatus(r))
                               ELSE UNCHANGED history /\ history[r] = <<>>
           /\ RecoveryType' /\ UNCHANGED backlog
           /\ recovery' = IF Recovering(r) THEN [recovery EXCEPT !.successor = Attempt(r)']
                                           ELSE recovery
           /\ Attempt(r)' <= MaxAttempt
           /\ faults' \in 0..MaxFaults
  <1>1. Only(r, Fresh(r, status))
    BY OneSession, FreshType DEF Register
  <1>2. ASSUME Registered(r) PROVE Filed(r, FiledStatus(r))
    <2>1. FiledStatus(r) \in Statuses
      BY <1>2 DEF FiledStatus, Statuses, TypeOK, Registered, Sessions
    <2>2. QED
      BY <1>2, <2>1, FiledType DEF Register
  <1>3. ASSUME ~Registered(r) PROVE UNCHANGED history /\ history[r] = <<>>
    BY <1>3 DEF Register, Counted, TypeOK
  <1>4. Attempt(r)' <= MaxAttempt /\ Attempt(r)' \in Nat /\ Attempt(r)' > 0
    <2>1. CASE Registered(r)
      <3>1. history[r] \in Seq(Pasts) /\ Attempt(r) < MaxAttempt
        BY <2>1 DEF TypeOK, Register
      <3>2. history'[r] = Append(history[r], Past(session[r], FiledStatus(r)))
        BY <1>2, <2>1 DEF Filed
      <3>3. QED  BY <3>1, <3>2, TaskAssumption DEF Attempt
    <2>2. QED  BY <1>3, <2>1 DEF Counted, Attempt, TypeOK
  <1>5. recovery' = IF Recovering(r) THEN [recovery EXCEPT !.successor = Attempt(r)'] ELSE recovery
    BY DEF Register, Attempt
  <1>6. RecoveryType' /\ UNCHANGED backlog
    <2>1. UNCHANGED backlog
      BY DEF Register
    <2>2. CASE Recovering(r)
      <3>1. recovery \in Recoveries
        BY <2>2 DEF TypeOK, Recovering
      <3>2. Attempt(r)' \in 0..MaxAttempt
        BY <1>4, TaskAssumption
      <3>3. [recovery EXCEPT !.successor = Attempt(r)'] \in Recoveries
        BY <3>1, <3>2 DEF Recoveries
      <3>4. QED  BY <2>1, <2>2, <3>3, <1>5 DEF RecoveryType, TypeOK
    <2>3. QED  BY <2>1, <2>2, <1>5 DEF RecoveryType, TypeOK
  <1>7. faults' \in 0..MaxFaults
    BY TaskAssumption DEF Register, TypeOK
  <1>8. QED  BY <1>1, <1>2, <1>3, <1>4, <1>5, <1>6, <1>7

Unfiled == UNCHANGED <<history, backlog>>

\* What a heartbeat and the end of a lease change.
LEMMA FaultEffect ==
    ASSUME TypeOK, NEW r \in Role, Heartbeat(r) \/ LeaseExpires(r)
    PROVE  /\ Only(r, session'[r]) /\ Registered(r) /\ session'[r] \in Sessions
           /\ SameWork(session[r], session'[r])
           /\ {session[r].status, session'[r].status} \subseteq {"active", "systemError"}
           /\ Unfiled /\ UNCHANGED recovery /\ faults' \in 0..MaxFaults
  <1>1. session[r] \in Sessions /\ faults' \in 0..MaxFaults
    BY TaskAssumption DEF TypeOK, Heartbeat, LeaseExpires, Usable, Registered
  <1>2. CASE Heartbeat(r)
    <2>1. session' = [session EXCEPT ![r] = [session[r] EXCEPT !.status = "systemError"]]
      BY <1>2 DEF Heartbeat
    <2>2. "systemError" \in Statuses
      BY DEF Statuses
    <2>3. LET u == [session[r] EXCEPT !.status = "systemError"]
          IN u \in Sessions /\ u.status = "systemError" /\ SameWork(session[r], u)
      BY <1>1, <2>2, StatusOnly
    <2>4. Only(r, [session[r] EXCEPT !.status = "systemError"])
      BY <2>1, <2>3, OneSession
    <2>5. QED
      BY <1>1, <1>2, <2>3, <2>4 DEF Heartbeat, Usable, Only, Unfiled
  <1>3. CASE LeaseExpires(r)
    <2>1. session' = [session EXCEPT ![r] = [session[r] EXCEPT !.live = FALSE]]
      BY <1>3 DEF LeaseExpires
    <2>2. QED
      BY <1>1, <1>3, <2>1, LiveOnly, OneSession DEF LeaseExpires, Only, Unfiled
  <1>4. QED  BY <1>2, <1>3

\* What ROLE_LOST changes.
LEMMA RoleLostEffect ==
    ASSUME TypeOK, Counted, NEW r \in Role, RoleLost(r)
    PROVE  /\ Only(r, session'[r]) /\ Registered(r) /\ session'[r] \in Sessions
           /\ SameWork(session[r], session'[r]) /\ session'[r].status = "lost"
           /\ recovery = None
           /\ recovery' = [role |-> r, lost |-> Attempt(r), phase |-> phase,
                           source |-> SourceOf(r), successor |-> 0]
           /\ recovery' \in Recoveries /\ RecoveryType' /\ Unfiled /\ UNCHANGED faults
  <1>1. session[r] \in Sessions
    BY DEF TypeOK, RoleLost, Registered
  <1>2. session' = [session EXCEPT ![r] = [session[r] EXCEPT !.status = "lost"]]
    BY DEF RoleLost
  <1>3. /\ Only(r, session'[r]) /\ session'[r] \in Sessions
        /\ SameWork(session[r], session'[r]) /\ session'[r].status = "lost"
    <2>1. "lost" \in Statuses
      BY DEF Statuses
    <2>2. LET u == [session[r] EXCEPT !.status = "lost"]
          IN u \in Sessions /\ u.status = "lost" /\ SameWork(session[r], u)
      BY <1>1, <2>1, StatusOnly
    <2>3. Only(r, [session[r] EXCEPT !.status = "lost"])
      BY <1>2, <2>2, OneSession
    <2>4. QED  BY <2>2, <2>3 DEF Only
  <1>4. SourceOf(r) \in 0..MaxAttempt
    <2>1. session[r].recovered # None => session[r].recovered.attempt \in 1..MaxAttempt
      BY <1>1 DEF Sessions, Origin
    <2>2. QED  BY <2>1, TaskAssumption DEF SourceOf
  <1>5. Attempt(r) \in 1..MaxAttempt
    BY DEF Counted, Attempt, TypeOK
  <1>6. recovery' \in Recoveries
    BY <1>4, <1>5, TaskAssumption DEF RoleLost, Recoveries, TypeOK
  <1>7. QED
    BY <1>3, <1>6 DEF RoleLost, RecoveryType, Unfiled, TypeOK

\* A pending recovery is over, and the next one parked behind a CAPTAIN's comes up.
LEMMA RoleRecoveredEffect ==
    ASSUME TypeOK, RoleRecovered
    PROVE  LET r == recovery.role
               t == session'[r] IN
           /\ recovery \in Recoveries /\ Only(r, t) /\ Registered(r) /\ t \in Sessions
           /\ t.status = session[r].status /\ t.handoff = session[r].handoff
           /\ t.scope = RecoveredScope(recovery)
           /\ t.recovered =
                 [attempt |-> IF recovery.source = 0 THEN recovery.lost ELSE recovery.source,
                  phase |-> recovery.phase]
           /\ RecoveryType' /\ UNCHANGED <<history, faults>>
           /\ \/ recovery' = None /\ UNCHANGED backlog
              \/ backlog # <<>> /\ recovery' = Head(backlog) /\ backlog' = Tail(backlog)
  <1> DEFINE r == recovery.role
             origin == [attempt |-> IF recovery.source = 0 THEN recovery.lost ELSE recovery.source,
                        phase |-> recovery.phase]
             s == session[r]
             t == [s EXCEPT !.activated = Binding(r), !.scope = RecoveredScope(recovery),
                            !.recovered = origin]
  <1>1. recovery \in Recoveries /\ r \in Role /\ Registered(r) /\ s \in Sessions
    BY DEF RoleRecovered, TypeOK, Recoveries, Usable, Registered
  <1>2. session' = [session EXCEPT ![r] = t]
    BY <1>1 DEF RoleRecovered, TypeOK
  <1>3. origin \in Origin
    BY <1>1, TaskAssumption DEF Recoveries, Origin
  <1>4. RecoveredScope(recovery) \in Scope /\ Binding(r) \in Bound \cup {None}
    BY <1>1, BindingType DEF RecoveredScope, Scope
  <1>5. /\ t \in Sessions /\ t.status = s.status /\ t.handoff = s.handoff
        /\ t.scope = RecoveredScope(recovery) /\ t.recovered = origin
    BY <1>1, <1>3, <1>4 DEF Sessions
  <1>6. Only(r, t) /\ session'[r] = t
    <2> HIDE DEF t
    <2>1. QED  BY <1>1, <1>2, <1>5, OneSession DEF Only
  <1>7. /\ RecoveryType'
        /\ \/ recovery' = None /\ UNCHANGED backlog
           \/ backlog # <<>> /\ recovery' = Head(backlog) /\ backlog' = Tail(backlog)
    <2>1. CASE recovery' = None /\ UNCHANGED backlog
      BY <2>1 DEF RecoveryType, TypeOK
    <2>2. CASE backlog # <<>> /\ recovery' = Head(backlog) /\ backlog' = Tail(backlog)
      <3>1. backlog \in Seq(Recoveries)
        BY DEF TypeOK
      <3>2. Head(backlog) \in Recoveries /\ Tail(backlog) \in Seq(Recoveries)
        BY <2>2, <3>1
      <3>3. QED  BY <2>2, <3>2 DEF RecoveryType
    <2>3. QED  BY <2>1, <2>2 DEF RoleRecovered
  <1>8. UNCHANGED <<history, faults>>
    BY DEF RoleRecovered
  <1>9. QED  BY <1>1, <1>5, <1>6, <1>7, <1>8

\* What the recovery of an expired FOREMAN changes.
LEMMA ForemanEffect ==
    ASSUME TypeOK, Counted, RecoverExpiredForeman
    PROVE  /\ Only("FOREMAN", Fresh("FOREMAN", "active"))
           /\ Registered("FOREMAN") /\ Filed("FOREMAN", "lost")
           /\ Attempt("FOREMAN")' <= MaxAttempt
           /\ RecoveryType' /\ UNCHANGED faults
           /\ recovery' = IF Recovering("CAPTAIN") THEN recovery ELSE None
           /\ backlog' = IF Parked THEN Append(backlog, recovery) ELSE backlog
  <1>1. "FOREMAN" \in Role /\ Registered("FOREMAN")
    BY DEF Role, RecoverExpiredForeman
  <1>2. Only("FOREMAN", Fresh("FOREMAN", "active"))
    BY <1>1, OneSession, FreshType DEF RecoverExpiredForeman
  <1>3. Filed("FOREMAN", "lost")
    <2>1. "lost" \in Statuses
      BY DEF Statuses
    <2>2. QED  BY <1>1, <2>1, FiledType DEF RecoverExpiredForeman
  <1>4. Attempt("FOREMAN")' <= MaxAttempt
    <2>1. history["FOREMAN"] \in Seq(Pasts) /\ Attempt("FOREMAN") < MaxAttempt
      BY <1>1 DEF TypeOK, RecoverExpiredForeman
    <2>2. history'["FOREMAN"] = Append(history["FOREMAN"], Past(session["FOREMAN"], "lost"))
      BY <1>3 DEF Filed
    <2>3. QED  BY <2>1, <2>2, TaskAssumption DEF Attempt
  <1>5. /\ recovery' = IF Recovering("CAPTAIN") THEN recovery ELSE None
        /\ backlog' = IF Parked THEN Append(backlog, recovery) ELSE backlog
        /\ UNCHANGED faults
    BY DEF RecoverExpiredForeman
  <1>6. RecoveryType'
    <2>1. Parked => recovery \in Recoveries
      BY DEF TypeOK, Parked
    <2>2. QED  BY <1>5, <2>1 DEF TypeOK, RecoveryType
  <1>7. QED  BY <1>1, <1>2, <1>3, <1>4, <1>5, <1>6

\* A recovered DEV is handed its predecessor's work, proves it, or gives it back.
LEMMA HandoffEffect ==
    ASSUME TypeOK, RecoveryHandoffBound \/ RecoveryPromoted \/ RecoveryHandoffAbandoned
    PROVE  LET s == session["DEV"]
               t == session'["DEV"] IN
           /\ Only("DEV", t) /\ Registered("DEV") /\ t \in Sessions /\ phase = "DEV_ACTIVE"
           /\ t.status = s.status /\ t.recovered = s.recovered
           /\ \/ /\ s.scope = "RECOVERY_BLOCKED" /\ s.recovered # None /\ s.status = "active"
                 /\ t.scope = "PREFLIGHT_ONLY" /\ t.handoff
              \/ s.scope = "PREFLIGHT_ONLY" /\ t.scope = "FULL" /\ t.handoff = s.handoff
              \/ s.scope = "PREFLIGHT_ONLY" /\ t.scope = "RECOVERY_BLOCKED" /\ ~t.handoff
           /\ Unfiled /\ UNCHANGED <<recovery, faults>>
  <1>1. /\ "DEV" \in Role /\ Registered("DEV") /\ phase = "DEV_ACTIVE"
        /\ Unfiled /\ UNCHANGED <<recovery, faults>>
    BY DEF Role, Subordinate, Worker, RecoveryHandoffBound, RecoveryPromoted,
        RecoveryHandoffAbandoned, Frozen, Usable, Unfiled
  <1>2. session["DEV"] \in Sessions /\ session \in [Role -> Sessions \cup {None}]
    BY <1>1 DEF TypeOK, Registered
  <1> DEFINE s == session["DEV"]
  <1>3. CASE RecoveryHandoffBound
    <2> DEFINE t == [s EXCEPT !.scope = "PREFLIGHT_ONLY", !.handoff = TRUE]
    <2>1. session' = [session EXCEPT !["DEV"] = t]
      BY <1>1, <1>2, <1>3 DEF RecoveryHandoffBound
    <2>2. t \in Sessions /\ t.status = s.status /\ t.recovered = s.recovered
          /\ t.scope = "PREFLIGHT_ONLY" /\ t.handoff
      BY <1>2 DEF Sessions, Scope
    <2> HIDE DEF t
    <2>3. Only("DEV", t) /\ session'["DEV"] = t
      BY <1>1, <2>1, <2>2, OneSession DEF Only
    <2>4. s.scope = "RECOVERY_BLOCKED" /\ s.recovered # None /\ s.status = "active"
      BY <1>3 DEF RecoveryHandoffBound, Usable
    <2>5. QED  BY <1>1, <2>2, <2>3, <2>4
  <1>4. CASE RecoveryPromoted
    <2> DEFINE t == [s EXCEPT !.scope = "FULL", !.activated = Binding("DEV")]
    <2>1. session' = [session EXCEPT !["DEV"] = t]
      BY <1>1, <1>2, <1>4 DEF RecoveryPromoted
    <2>2. Binding("DEV") \in Bound \cup {None}
      BY <1>1, BindingType
    <2>3. t \in Sessions /\ t.status = s.status /\ t.recovered = s.recovered
          /\ t.scope = "FULL" /\ t.handoff = s.handoff
      BY <1>2, <2>2 DEF Sessions, Scope
    <2> HIDE DEF t
    <2>4. Only("DEV", t) /\ session'["DEV"] = t
      BY <1>1, <2>1, <2>3, OneSession DEF Only
    <2>5. s.scope = "PREFLIGHT_ONLY"
      BY <1>4 DEF RecoveryPromoted, Frozen
    <2>6. QED  BY <1>1, <2>3, <2>4, <2>5
  <1>5. CASE RecoveryHandoffAbandoned
    <2> DEFINE t == [s EXCEPT !.scope = "RECOVERY_BLOCKED", !.handoff = FALSE, !.retarget = TRUE]
    <2>1. session' = [session EXCEPT !["DEV"] = t]
      BY <1>1, <1>2, <1>5 DEF RecoveryHandoffAbandoned
    <2>2. t \in Sessions /\ t.status = s.status /\ t.recovered = s.recovered
          /\ t.scope = "RECOVERY_BLOCKED" /\ ~t.handoff
      BY <1>2 DEF Sessions, Scope
    <2> HIDE DEF t
    <2>3. Only("DEV", t) /\ session'["DEV"] = t
      BY <1>1, <2>1, <2>2, OneSession DEF Only
    <2>4. s.scope = "PREFLIGHT_ONLY"
      BY <1>5 DEF RecoveryHandoffAbandoned, Frozen
    <2>5. QED  BY <1>1, <2>2, <2>3, <2>4
  <1>6. QED  BY <1>3, <1>4, <1>5

\* Control events end sessions; those that move the task end every recovery.
LEMMA ControlEffect ==
    ASSUME TypeOK, Control
    PROVE  /\ SessionType' /\ RecoveryType'
           /\ \A r \in Role : Same(r) \/ Ended(r)
           /\ \/ recovery' = None /\ backlog' = <<>>
              \/ UNCHANGED <<work, people>>
  <1>1. CASE PacketUpdated
    <2>1. \A r \in Role : Same(r) \/ Ended(r)
      BY <1>1 DEF PacketUpdated, Same, Ended, Registered
    <2>2. SessionType'
      BY <1>1, SessionFields DEF PacketUpdated, SessionType, TypeOK, Registered, Statuses
    <2>3. QED  BY <1>1, <2>1, <2>2 DEF PacketUpdated, RecoveryType
  <1>2. CASE ControlReconciled
    <2>1. \A r \in Role : Same(r) \/ Ended(r)
      BY <1>2 DEF ControlReconciled, RetiredFrom, Same, Ended, Registered
    <2>2. SessionType'
      BY <1>2, SessionFields DEF ControlReconciled, RetiredFrom, SessionType, TypeOK, Registered, Statuses
    <2>3. QED  BY <1>2, <2>1, <2>2 DEF ControlReconciled, RecoveryType
  <1>3. CASE ~(PacketUpdated \/ ControlReconciled)
    <2>1. UNCHANGED <<work, people>>
      BY <1>3 DEF Control, AdvanceControlEpoch, AddHold, ResolveHold
    <2>2. QED  BY <2>1 DEF people, Same, SessionType, RecoveryType, TypeOK
  <1>4. QED  BY <1>1, <1>2, <1>3

-----------------------------------------------------------------------------
(* The invariant of the task itself, without its recoveries. *)

CoreInv == TypeOK /\ WorkInv /\ Counted

People == SessionType /\ HistoryType /\ RecoveryType /\ faults \in 0..MaxFaults /\ Counted

\* A session that was ended or marked is still there, with the work it had.
LEMMA Touched ==
    ASSUME TypeOK, NEW r \in Role, Same(r) \/ Ended(r) \/ Marked(r)
    PROVE  /\ Registered(r)' <=> Registered(r)
           /\ Registered(r) =>
                 /\ SameWork(session[r], session'[r])
                 /\ session'[r].status \in {session[r].status, "terminal"}
  <1>1. Registered(r) => session[r] \in Sessions
    BY DEF TypeOK, Registered
  <1>2. CASE Same(r)
    BY <1>2 DEF Same, Registered, SameWork
  <1>3. CASE Ended(r)
    <2>1. "terminal" \in Statuses
      BY DEF Statuses
    <2>2. /\ session'[r] \in Sessions /\ session'[r].status = "terminal"
          /\ SameWork(session[r], session'[r])
      BY <1>1, <1>3, <2>1, StatusOnly DEF Ended
    <2>3. QED  BY <1>3, <2>2, NoneAssumption DEF Ended, Registered
  <1>4. CASE Marked(r)
    <2>1. /\ session'[r] \in Sessions /\ session'[r].status = session[r].status
          /\ SameWork(session[r], session'[r])
      BY <1>1, <1>4, RestartedOnly DEF Marked
    <2>2. QED  BY <1>4, <2>1, NoneAssumption DEF Marked, Registered
  <1>5. QED  BY <1>2, <1>3, <1>4

\* Where a session is put, one is registered.
LEMMA OnlyRegistered ==
    ASSUME NEW r \in Role, Only(r, session'[r]), session'[r] \in Sessions
    PROVE  /\ Registered(r)'
           /\ \A x \in Role \ {r} : Registered(x)' <=> Registered(x)
  BY NoneAssumption DEF Only, Registered

\* The invariant holds in a new task.
LEMMA InitCore ==
    Init => CoreInv
  <1> USE DEF Init
  <1>1. Init => TypeOK
    BY TaskAssumption DEF TypeOK, Phase, P1Phases, NoEvidence
  <1>2. Init => WorkInv
    BY DEF WorkInv, Approval, Verdicts, P1Phases, Delivered, Merged
  <1>3. Init => Counted
    BY TaskAssumption DEF Counted, Attempt, Registered
  <1>4. QED  BY <1>1, <1>2, <1>3 DEF CoreInv

\* Types, verdicts and attempts are inductive.
LEMMA CoreStep ==
    ASSUME CoreInv, [Next]_vars
    PROVE  CoreInv'
  <1>0. TypeOK /\ WorkInv /\ Counted
    BY DEF CoreInv
  <1>1. CASE UNCHANGED vars
    BY <1>0, <1>1 DEF vars, work, control, people, CoreInv, TypeOK, WorkInv, Approval, Verdicts,
        Current, Counted, Attempt, Registered
  <1>2. CASE Business \/ Control
    <2>1. WorkType' /\ WorkInv' /\ SessionType' /\ UNCHANGED <<history, faults, mechanical>>
      BY <1>0, <1>2, BusinessWork, BusinessFrame, ControlWork, ControlEffect DEF SessionType, control
    <2>2. epoch' \in 0..MaxEpoch /\ reconciled' \in 0..epoch' /\ holds' \subseteq Hold
      BY <1>0, <1>2, BusinessFrame, ControlWork DEF control, TypeOK
    <2>3. RecoveryType'
      BY <1>0, <1>2, BusinessFrame, ControlEffect DEF RecoveryType, TypeOK
    <2>4. TypeOK'
      BY <1>0, <2>1, <2>2, <2>3 DEF TypeOK, WorkType, SessionType, RecoveryType
    <2>5. \A r \in Role : Registered(r)' <=> Registered(r)
      BY <1>0, <1>2, BusinessFrame, ControlEffect, Touched
    <2>6. Counted'
      BY <1>0, <2>1, <2>5 DEF Counted, Attempt
    <2>7. QED  BY <2>1, <2>4, <2>6 DEF CoreInv
  <1>3. CASE Staffing
    <2>1. UNCHANGED <<work, control>> /\ WorkType' /\ WorkInv'
      BY <1>0, <1>3, StaffingWork
    <2>2. People'
      <3>1. ASSUME NEW r \in Role, NEW status \in {"active", "systemError"}, Register(r, status)
            PROVE  People'
        <4>1. /\ Only(r, Fresh(r, status)) /\ RecoveryType' /\ faults' \in 0..MaxFaults
              /\ Attempt(r)' <= MaxAttempt
              /\ IF Registered(r) THEN Filed(r, FiledStatus(r))
                                  ELSE UNCHANGED history /\ history[r] = <<>>
          BY <1>0, <3>1, RegisterEffect
        <4>2. HistoryType' /\ \A x \in Role \ {r} : history'[x] = history[x]
          BY <1>0, <4>1 DEF Filed, HistoryType, TypeOK
        <4>3. Fresh(r, status) \in Sessions /\ session'[r] = Fresh(r, status)
          BY <1>0, <4>1, FreshType DEF Only
        <4>4. Registered(r)' /\ \A x \in Role \ {r} : Registered(x)' <=> Registered(x)
          BY <4>1, <4>3, OnlyRegistered
        <4>5. Counted'
          BY <1>0, <4>1, <4>2, <4>4 DEF Counted, Attempt
        <4>6. QED  BY <4>1, <4>2, <4>5 DEF People, Only
      <3>2. ASSUME NEW r \in Role, Heartbeat(r) \/ LeaseExpires(r) \/ RoleLost(r)
            PROVE  People'
        <4>1. /\ Only(r, session'[r]) /\ session'[r] \in Sessions /\ Unfiled /\ Registered(r)
              /\ RecoveryType' /\ faults' \in 0..MaxFaults
          BY <1>0, <3>2, FaultEffect, RoleLostEffect DEF TypeOK, RecoveryType, Unfiled
        <4>2. QED
          BY <1>0, <4>1, OnlyRegistered DEF People, Only, Unfiled, HistoryType, TypeOK, Counted, Attempt
      <3>3. ASSUME RoleRecovered \/ RecoveryHandoffBound \/ RecoveryPromoted \/ RecoveryHandoffAbandoned
            PROVE  People'
        <4>1. PICK r \in Role : Only(r, session'[r]) /\ session'[r] \in Sessions /\ Registered(r)
          <5>1. CASE RoleRecovered
            <6>1. recovery.role \in Role
              BY <1>0, <5>1, RoleRecoveredEffect DEF Recoveries
            <6>2. QED  BY <1>0, <5>1, <6>1, RoleRecoveredEffect
          <5>2. CASE ~RoleRecovered
            BY <1>0, <3>3, <5>2, HandoffEffect DEF Role, Subordinate, Worker
          <5>3. QED  BY <5>1, <5>2
        <4>2. UNCHANGED <<history, faults>> /\ RecoveryType'
          BY <1>0, <3>3, RoleRecoveredEffect, HandoffEffect DEF Unfiled, RecoveryType, TypeOK
        <4>3. QED
          BY <1>0, <4>1, <4>2, OnlyRegistered DEF People, Only, HistoryType, TypeOK, Counted, Attempt
      <3>4. ASSUME RecoverExpiredForeman
            PROVE  People'
        <4>1. /\ Only("FOREMAN", Fresh("FOREMAN", "active")) /\ Filed("FOREMAN", "lost")
              /\ Attempt("FOREMAN")' <= MaxAttempt /\ RecoveryType' /\ UNCHANGED faults
          BY <1>0, <3>4, ForemanEffect
        <4>2. "FOREMAN" \in Role
          BY DEF Role
        <4>3. Fresh("FOREMAN", "active") \in Sessions /\ session'["FOREMAN"] = Fresh("FOREMAN", "active")
          BY <1>0, <4>1, <4>2, FreshType DEF Only
        <4>4. Registered("FOREMAN")' /\ \A x \in Role \ {"FOREMAN"} : Registered(x)' <=> Registered(x)
          BY <4>1, <4>2, <4>3, OnlyRegistered
        <4>5. Counted'
          BY <1>0, <4>1, <4>4 DEF Counted, Attempt, Filed
        <4>6. QED  BY <1>0, <4>1, <4>5 DEF People, Only, Filed, TypeOK
      <3>5. QED  BY <1>3, <3>1, <3>2, <3>3, <3>4 DEF Staffing
    <2>3. TypeOK'
      BY <1>0, <2>1, <2>2 DEF People, TypeOK, WorkType, SessionType, HistoryType, RecoveryType, control
    <2>4. QED  BY <2>1, <2>2, <2>3 DEF People, CoreInv
  <1>4. QED  BY <1>1, <1>2, <1>3 DEF Next

-----------------------------------------------------------------------------
(* Sessions and recoveries. *)

\* The attempt a DEV takes over from stays what it is.
LEMMA ContinuesStays ==
    ASSUME NEW a \in Nat, Continues(a),
           \/ history'["DEV"] = history["DEV"]
           \/ /\ history["DEV"] \in Seq(Pasts)
              /\ \E past \in Pasts : history'["DEV"] = Append(history["DEV"], past)
    PROVE  Continues(a)'
  BY DEF Continues

\* A session keeps its lineage where its work stays what it was.
LEMMA SessionStays ==
    ASSUME NEW r \in Role, SessionInv(r), TypeOK, Registered(r)' <=> Registered(r),
           Registered(r) =>
               /\ SameWork(session[r], session'[r])
               /\ session[r].scope = "PREFLIGHT_ONLY" => session'[r].status # "lost",
           history'["DEV"] = history["DEV"],
           \/ phase' = phase \/ phase \in Delivered \/ phase' \notin Delivered
           \/ Registered("DEV") /\ session["DEV"].recovered # None => Promoted(session["DEV"])
    PROVE  SessionInv(r)'
  <1>1. Registered(r) /\ session[r].recovered # None =>
           session[r].recovered.attempt \in Nat
    BY DEF TypeOK, Registered, Sessions, Origin
  <1>2. Registered(r) => (Promoted(session'[r]) <=> Promoted(session[r]))
    BY DEF Promoted, SameWork
  <1>3. QED
    BY <1>1, <1>2, ContinuesStays DEF SessionInv, SameWork

\* Before its first delivery a recovered DEV is promoted; after it no transition
\* but a reopening leaves the delivered phases.
LEMMA DeliveredByPromoted ==
    ASSUME Business
    PROVE  \/ phase' = phase \/ phase \in Delivered \/ phase' \notin Delivered
           \/ Registered("DEV") /\ session["DEV"].recovered # None => Promoted(session["DEV"])
  <1> USE DEF Take, Transition, P1Phases, Delivered, Merged
  <1>1. CASE StartP1 \/ P1Ready \/ P1Approved \/ P1Committed \/ P1Restarted
    BY <1>1 DEF StartP1, P1Ready, P1Approved, P1Committed, P1Restarted
  <1>2. CASE LaunchDev \/ LaunchReview \/ LaunchReceipt \/ ReopenReview
    BY <1>2 DEF LaunchDev, LaunchReview, LaunchReceipt, ReopenReview, Launch
  <1>3. CASE DevReady
    BY <1>3 DEF DevReady, DevDeliverable
  <1>4. CASE ReopenDev \/ ReadyForMerge \/ TaskReopen \/ Merge \/ Archive
    BY <1>4 DEF ReopenDev, ReadyForMerge, TaskReopen, Merge, Archive
  <1>5. CASE ReviewPass \/ ReceiptPass \/ ReceiptFail \/ ReviewRework
    BY <1>5 DEF ReviewPass, ReceiptPass, ReceiptFail, ReviewRework
  <1>6. QED  BY <1>1, <1>2, <1>3, <1>4, <1>5 DEF Business

\* A fresh session satisfies the invariant of its role.
LEMMA FreshInv ==
    ASSUME NEW r \in Role, Only(r, session'[r]),
           session'[r].scope = "FULL", ~session'[r].handoff, session'[r].recovered = None
    PROVE  SessionInv(r)'
  BY DEF SessionInv

\* The other roles' sessions do, when it is no DEV that is filed.
LEMMA OtherSessions ==
    ASSUME TypeOK, NEW r \in Role, Only(r, session'[r]), NEW x \in Role \ {r}, SessionInv(x),
           history'["DEV"] = history["DEV"] \/ r = "DEV", phase' = phase
    PROVE  SessionInv(x)'
  <1>1. session'[x] = session[x]
    BY DEF Only
  <1>2. CASE x = "DEV"
    <2>1. history'["DEV"] = history["DEV"]
      BY <1>2
    <2>2. QED
      BY <1>1, <2>1 DEF SessionInv, Registered, Continues, Promoted
  <1>3. CASE x # "DEV"
    BY <1>1, <1>3 DEF SessionInv, Registered
  <1>4. QED  BY <1>2, <1>3

SessionsInv == \A r \in Role : SessionInv(r)

\* Every event keeps the lineage of every session.
LEMMA SessionStep ==
    ASSUME CoreInv, SessionsInv, OwedAll, Next
    PROVE  SessionsInv'
  <1>0. TypeOK /\ Counted /\ "DEV" \in Role /\ \A r \in Role : SessionInv(r)
    BY DEF CoreInv, SessionsInv, Role, Subordinate, Worker
  <1> SUFFICES ASSUME NEW x \in Role
               PROVE  SessionInv(x)'
    BY DEF SessionsInv
  <1>1. CASE Business
    <2>1. UNCHANGED history /\ (Same(x) \/ Ended(x) \/ Marked(x))
      BY <1>0, <1>1, BusinessFrame
    <2>2. /\ Registered(x)' <=> Registered(x)
          /\ Registered(x) => /\ SameWork(session[x], session'[x])
                              /\ session'[x].status \in {session[x].status, "terminal"}
      BY <1>0, <2>1, Touched
    <2>3. QED
      BY <1>0, <1>1, <2>1, <2>2, SessionStays, DeliveredByPromoted DEF SessionInv
  <1>2. CASE Control
    <2>1. UNCHANGED history /\ (Same(x) \/ Ended(x))
      BY <1>0, <1>2, ControlWork, ControlEffect DEF CoreInv
    <2>2. /\ Registered(x)' <=> Registered(x)
          /\ Registered(x) => /\ SameWork(session[x], session'[x])
                              /\ session'[x].status \in {session[x].status, "terminal"}
      BY <1>0, <2>1, Touched
    <2>3. phase' = phase \/ phase' \notin Delivered
      BY <1>2 DEF Control, PacketUpdated, ControlReconciled, AdvanceControlEpoch, AddHold,
          ResolveHold, work, Delivered
    <2>4. QED
      BY <1>0, <2>1, <2>2, <2>3, SessionStays DEF SessionInv
  <1>3. ASSUME NEW r \in Role, NEW status \in {"active", "systemError"}, Register(r, status)
        PROVE  SessionInv(x)'
    <2>1. /\ Only(r, Fresh(r, status))
          /\ IF Registered(r) THEN Filed(r, FiledStatus(r))
                              ELSE UNCHANGED history /\ history[r] = <<>>
      BY <1>0, <1>3, RegisterEffect
    <2>2. /\ Only(r, session'[r]) /\ session'[r].scope = "FULL" /\ ~session'[r].handoff
          /\ session'[r].recovered = None
      BY <1>0, <2>1, FreshType DEF Only
    <2>3. history'["DEV"] = history["DEV"] \/ r = "DEV"
      BY <1>0, <2>1 DEF Filed
    <2>4. phase' = phase
      BY <1>3 DEF Register, work
    <2>5. QED  BY <1>0, <2>2, <2>3, <2>4, FreshInv, OtherSessions
  <1>4. ASSUME NEW r \in Role, Heartbeat(r) \/ LeaseExpires(r) \/ RoleLost(r)
        PROVE  SessionInv(x)'
    <2>1. /\ Only(r, session'[r]) /\ Registered(r) /\ session'[r] \in Sessions
          /\ SameWork(session[r], session'[r]) /\ Unfiled
      BY <1>0, <1>4, FaultEffect, RoleLostEffect
    <2>2. session[r].scope = "PREFLIGHT_ONLY" => session'[r].status # "lost"
      <3>1. CASE RoleLost(r)
        <4>1. CASE r = "DEV"
          BY <3>1, <4>1 DEF RoleLost, Frozen
        <4>2. CASE r # "DEV"
          BY <1>0, <2>1, <4>2 DEF SessionInv
        <4>3. QED  BY <4>1, <4>2
      <3>2. CASE ~RoleLost(r)
        BY <1>0, <1>4, <3>2, FaultEffect
      <3>3. QED  BY <3>1, <3>2
    <2>3. phase' = phase
      BY <1>4 DEF Heartbeat, LeaseExpires, RoleLost, work
    <2>4. Registered(r)'
      BY <2>1, OnlyRegistered
    <2>5. CASE x = r
      BY <1>0, <2>1, <2>2, <2>3, <2>4, <2>5, SessionStays DEF Unfiled
    <2>6. CASE x # r
      BY <1>0, <2>1, <2>3, <2>6, OtherSessions DEF Unfiled
    <2>7. QED  BY <2>5, <2>6
  <1>5. CASE RoleRecovered
    <2>0. PICK r \in Role : r = recovery.role
      BY <1>0, <1>5, RoleRecoveredEffect DEF Recoveries
    <2> DEFINE s == session'[r]
    <2>1. /\ r \in Role /\ recovery \in Recoveries /\ recovery # None
          /\ Only(r, s) /\ Registered(r) /\ UNCHANGED history /\ phase' = phase
      BY <1>0, <1>5, <2>0, RoleRecoveredEffect, NoneAssumption DEF Recoveries, RoleRecovered, work
    <2>2. /\ s.status = session[r].status /\ s.handoff = session[r].handoff
          /\ s.scope = RecoveredScope(recovery)
          /\ s.recovered =
               [attempt |-> IF recovery.source = 0 THEN recovery.lost ELSE recovery.source,
                phase |-> recovery.phase]
      BY <1>0, <1>5, <2>0, RoleRecoveredEffect
    <2>3. OwedInv(recovery) /\ LineageWhole(recovery) /\ session[r].status = "active"
      BY <1>5, <2>0, <2>1 DEF OwedAll, InPlay, RoleRecovered, Usable
    <2>4. s.recovered # None
      <3>1. s.recovered \in Origin
        BY <2>1, <2>2, TaskAssumption DEF Origin, Recoveries
      <3>2. QED  BY <3>1, NoneAssumption
    <2>5. r = "DEV" /\ recovery.phase = "DEV_ACTIVE" => Continues(s.recovered.attempt)
      <3> SUFFICES ASSUME r = "DEV", recovery.phase = "DEV_ACTIVE"
                   PROVE  Continues(s.recovered.attempt)
        OBVIOUS
      <3>1. s.recovered.attempt = IF recovery.source = 0 THEN recovery.lost ELSE recovery.source
        BY <2>2
      <3>2. /\ recovery.lost \in DOMAIN history["DEV"]
            /\ Sourced(recovery, history["DEV"][recovery.lost])
        <4>1. history["DEV"] \in Seq(Pasts) /\ recovery.lost \in 1..MaxAttempt
          BY <1>0, <2>0, <2>1 DEF TypeOK, Recoveries
        <4>2. recovery.lost <= Len(history["DEV"])
          BY <2>0, <2>3 DEF LineageWhole
        <4>3. recovery.lost \in DOMAIN history["DEV"] /\ recovery.lost # Attempt("DEV")
          BY <4>1, <4>2, TaskAssumption DEF Attempt
        <4>4. QED  BY <2>0, <2>3, <4>3 DEF OwedInv
      <3>3. CASE recovery.source = 0
        <4>1. recovery.lost \in recovery.lost .. Len(history["DEV"])
          BY <1>0, <3>2 DEF TypeOK
        <4>2. history["DEV"][recovery.lost].status = "lost"
          BY <2>0, <2>3, <4>1 DEF LineageWhole
        <4>3. QED  BY <2>0, <3>1, <3>2, <3>3, <4>2 DEF Continues, Sourced
      <3>4. CASE recovery.source # 0
        BY <2>0, <3>1, <3>2, <3>4 DEF Sourced
      <3>5. QED  BY <3>3, <3>4
    <2>6. SessionInv(r)'
      BY <2>0, <2>1, <2>2, <2>3, <2>4, <2>5 DEF SessionInv, OwedInv, RecoveredScope, Continues, Delivered
    <2>7. QED  BY <1>0, <2>1, <2>6, OtherSessions
  <1>6. CASE RecoverExpiredForeman
    <2>1. Only("FOREMAN", Fresh("FOREMAN", "active")) /\ Filed("FOREMAN", "lost") /\ phase' = phase
      BY <1>0, <1>6, ForemanEffect DEF RecoverExpiredForeman, work
    <2>2. "FOREMAN" \in Role
      BY DEF Role
    <2>3. /\ Only("FOREMAN", session'["FOREMAN"]) /\ session'["FOREMAN"].scope = "FULL"
          /\ ~session'["FOREMAN"].handoff /\ session'["FOREMAN"].recovered = None
      BY <1>0, <2>1, <2>2, FreshType DEF Only
    <2>4. history'["DEV"] = history["DEV"]
      BY <1>0, <2>1 DEF Filed
    <2>5. QED  BY <1>0, <2>1, <2>2, <2>3, <2>4, FreshInv, OtherSessions
  <1>7. CASE RecoveryHandoffBound \/ RecoveryPromoted \/ RecoveryHandoffAbandoned
    <2>1. Only("DEV", session'["DEV"]) /\ Registered("DEV") /\ Unfiled /\ phase = "DEV_ACTIVE"
      BY <1>0, <1>7, HandoffEffect
    <2>2. phase' = phase
      BY <1>7 DEF RecoveryHandoffBound, RecoveryPromoted, RecoveryHandoffAbandoned, work
    <2>3. SessionInv("DEV")'
      BY <1>0, <1>7, <2>1, <2>2, HandoffEffect DEF SessionInv, Continues, Delivered, Unfiled
    <2>4. QED  BY <1>0, <2>1, <2>2, <2>3, OtherSessions DEF Unfiled
  <1>8. QED  BY <1>1, <1>2, <1>3, <1>4, <1>5, <1>6, <1>7 DEF Next, Staffing

\* The work of a DEV that is lost is its own, or what it was to take over.
LEMMA LostSource ==
    ASSUME TypeOK, NEW r \in Role, SessionInv(r), RoleLost(r)
    PROVE  /\ SourceOf(r) # 0 => r = "DEV" /\ phase = "DEV_ACTIVE"
           /\ r = "DEV" /\ phase = "DEV_ACTIVE" =>
                 IF SourceOf(r) = 0 THEN session[r].scope = "FULL" ELSE Continues(SourceOf(r))
  <1>1. CASE r = "DEV" /\ phase = "DEV_ACTIVE"
    <2>1. Registered(r) /\ session[r].scope # "PREFLIGHT_ONLY" /\ session[r] \in Sessions
      BY <1>1 DEF RoleLost, Frozen, TypeOK, Registered
    <2>2. session[r].scope # "FULL" =>
             /\ session[r].scope = "RECOVERY_BLOCKED" /\ session[r].recovered # None
             /\ Continues(session[r].recovered.attempt) /\ session[r].recovered.attempt # 0
      BY <1>1, <2>1 DEF SessionInv, Sessions, Scope, Origin
    <2>3. QED  BY <1>1, <2>1, <2>2 DEF SourceOf
  <1>2. CASE ~(r = "DEV" /\ phase = "DEV_ACTIVE")
    BY <1>2 DEF SourceOf
  <1>3. QED  BY <1>1, <1>2

\* A recovery is owed as before where its role's attempts and losses stay what they
\* were, or its session is filed.
LEMMA OwedStays ==
    ASSUME TypeOK, NEW rec \in Recoveries, OwedInv(rec), phase' = phase, Registered(rec.role)',
           \/ /\ history'[rec.role] = history[rec.role]
              /\ session[rec.role].status = "lost" =>
                    /\ session'[rec.role].status = "lost"
                    /\ session'[rec.role].scope = session[rec.role].scope
           \/ \E past \in Pasts :
                 /\ history'[rec.role] = Append(history[rec.role], past)
                 /\ past.scope = session[rec.role].scope
    PROVE  OwedInv(rec)'
  <1>1. rec.role \in Role /\ history[rec.role] \in Seq(Pasts) /\ rec.source \in Nat /\ rec.lost \in Nat
    BY TaskAssumption DEF Recoveries, TypeOK
  <1>2. rec.role = "DEV" => \A a \in Nat : Continues(a) => Continues(a)'
    BY <1>1, ContinuesStays
  <1>3. CASE history'[rec.role] = history[rec.role]
    <2>1. CASE rec.lost \in DOMAIN history[rec.role] /\ Sourced(rec, history[rec.role][rec.lost])
      BY <1>1, <1>2, <1>3, <2>1 DEF OwedInv, Sourced
    <2>2. CASE /\ rec.lost = Attempt(rec.role) /\ session[rec.role].status = "lost"
               /\ Sourced(rec, session[rec.role])
      <3>1. CASE session'[rec.role].status = "lost" /\ session'[rec.role].scope = session[rec.role].scope
        BY <1>1, <1>2, <1>3, <2>2, <3>1 DEF OwedInv, Sourced, Attempt
      <3>2. CASE \E past \in Pasts : history'[rec.role] = Append(history[rec.role], past)
        <4>1. PICK past \in Pasts : history'[rec.role] = Append(history[rec.role], past)
          BY <3>2
        <4>2. Len(Append(history[rec.role], past)) = Len(history[rec.role]) + 1
          BY <1>1
        <4>3. QED  BY <1>1, <1>3, <4>1, <4>2
      <3>3. QED  BY <2>2, <3>1, <3>2
    <2>3. QED  BY <2>1, <2>2 DEF OwedInv
  <1>4. ASSUME NEW past \in Pasts, history'[rec.role] = Append(history[rec.role], past),
               past.scope = session[rec.role].scope
        PROVE  OwedInv(rec)'
    <2>1. rec.lost \in DOMAIN history'[rec.role]
      BY <1>1, <1>4 DEF OwedInv, Attempt
    <2>2. Sourced(rec, history[rec.role][rec.lost])'
      <3>1. CASE rec.lost \in DOMAIN history[rec.role] /\ Sourced(rec, history[rec.role][rec.lost])
        <4>1. history'[rec.role][rec.lost] = history[rec.role][rec.lost]
          BY <1>1, <1>4, <3>1
        <4>2. QED  BY <1>1, <1>2, <3>1, <4>1 DEF Sourced
      <3>2. CASE rec.lost = Attempt(rec.role) /\ Sourced(rec, session[rec.role])
        <4>1. history'[rec.role][rec.lost] = past
          BY <1>1, <1>4, <3>2 DEF Attempt
        <4>2. QED  BY <1>1, <1>2, <1>4, <3>2, <4>1 DEF Sourced
      <3>3. QED  BY <3>1, <3>2 DEF OwedInv
    <2>3. QED  BY <2>1, <2>2 DEF OwedInv
  <1>5. QED  BY <1>3, <1>4

\* The recoveries of the roles a step does not touch are owed as before.
LEMMA OthersOwed ==
    ASSUME TypeOK, NEW r \in Role, Only(r, session'[r]), phase' = phase,
           \A x \in Role \ {r} : history'[x] = history[x],
           NEW rec \in Recoveries, rec.role # r, OwedInv(rec)
    PROVE  OwedInv(rec)'
  <1>1. rec.role \in Role \ {r}
    BY DEF Recoveries
  <1>2. session'[rec.role] = session[rec.role] /\ history'[rec.role] = history[rec.role]
    BY <1>1 DEF Only
  <1>3. Registered(rec.role)'
    BY <1>2 DEF OwedInv, Registered
  <1>4. QED  BY <1>2, <1>3, OwedStays

\* A session that takes the place of the one that is filed.
LEMMA FiledOwed ==
    ASSUME TypeOK, NEW r \in Role, NEW status, Only(r, session'[r]), session'[r] \in Sessions,
           Registered(r), Filed(r, status), phase' = phase,
           NEW rec \in Recoveries, OwedInv(rec)
    PROVE  OwedInv(rec)'
  <1>1. CASE rec.role # r
    BY <1>1, OthersOwed DEF Filed
  <1>2. CASE rec.role = r
    <2>1. session[r] \in Sessions /\ history[r] \in Seq(Pasts) /\ history'[r] \in Seq(Pasts)
      BY DEF TypeOK, Registered, Filed, HistoryType
    <2>2. PICK past : past = Past(session[r], status)
      OBVIOUS
    <2>3. history'[r] = Append(history[r], past) /\ past.scope = session[r].scope
      BY <2>2 DEF Filed, Past
    <2>4. past \in Pasts
      <3>1. history'[r][Len(history[r]) + 1] = past /\ Len(history[r]) + 1 \in DOMAIN history'[r]
        BY <2>1, <2>3
      <3>2. QED  BY <2>1, <3>1
    <2>5. Registered(r)'
      BY OnlyRegistered
    <2>6. QED  BY <1>2, <2>3, <2>4, <2>5, OwedStays
  <1>3. QED  BY <1>1, <1>2

\* A session that is not lost may change as it will: what it owes is in the history.
LEMMA LivingOwed ==
    ASSUME TypeOK, NEW r \in Role, Only(r, session'[r]), session'[r] \in Sessions,
           session[r].status # "lost", UNCHANGED history, phase' = phase,
           NEW rec \in Recoveries, OwedInv(rec)
    PROVE  OwedInv(rec)'
  <1>1. CASE rec.role # r
    BY <1>1, OthersOwed
  <1>2. CASE rec.role = r
    BY <1>2, OnlyRegistered, OwedStays
  <1>3. QED  BY <1>1, <1>2

\* Every event keeps what is owed, whoever is reported lost.
LEMMA OwedStep ==
    ASSUME CoreInv, SessionsInv, OwedAll, Next
    PROVE  OwedAll'
  <1>0. TypeOK /\ Counted
    BY DEF CoreInv
  <1>1. CASE Business
    <2>1. recovery' = None /\ backlog' = <<>>
      BY <1>1, BusinessFrame DEF CoreInv
    <2>2. QED  BY <2>1, NoneAssumption DEF OwedAll, InPlay
  <1>2. CASE Control
    <2>1. CASE recovery' = None /\ backlog' = <<>>
      BY <2>1, NoneAssumption DEF OwedAll, InPlay
    <2>2. CASE UNCHANGED <<work, people>>
      BY <2>2 DEF work, people, OwedAll, InPlay, OwedInv, Registered, Sourced, Continues, Attempt
    <2>3. QED  BY <1>0, <1>2, <2>1, <2>2, ControlEffect
  <1>3. ASSUME NEW r \in Role, NEW status \in {"active", "systemError"}, Register(r, status)
        PROVE  OwedAll'
    <2>1. /\ Only(r, Fresh(r, status)) /\ UNCHANGED backlog /\ RecoveryType'
          /\ IF Registered(r) THEN Filed(r, FiledStatus(r)) ELSE UNCHANGED history
          /\ recovery' = IF Recovering(r) THEN [recovery EXCEPT !.successor = Attempt(r)'] ELSE recovery
      BY <1>0, <1>3, RegisterEffect
    <2>2. phase' = phase /\ Only(r, session'[r]) /\ session'[r] \in Sessions
      BY <1>0, <1>3, <2>1, FreshType DEF Register, work, Only
    <2>3. ASSUME NEW rec \in Recoveries, OwedInv(rec) PROVE OwedInv(rec)'
      <3>1. CASE Registered(r)
        <4>1. PICK filed : filed = FiledStatus(r)
          OBVIOUS
        <4>2. Filed(r, filed)
          BY <2>1, <3>1, <4>1
        <4>3. QED  BY <1>0, <2>2, <2>3, <3>1, <4>2, FiledOwed
      <3>2. CASE ~Registered(r)
        <4>1. rec.role # r /\ UNCHANGED history
          BY <2>1, <2>3, <3>2 DEF OwedInv
        <4>2. QED  BY <1>0, <2>2, <2>3, <4>1, OthersOwed
      <3>3. QED  BY <3>1, <3>2
    <2>4. ASSUME NEW rec \in Recoveries, InPlay(rec)' PROVE OwedInv(rec)'
      <3>1. CASE rec = recovery' /\ Recovering(r)
        <4>1. PICK old \in Recoveries : old = recovery
          BY <1>0, <3>1 DEF Recovering, TypeOK
        <4>2. OwedInv(old)'
          BY <2>3, <4>1 DEF OwedAll, InPlay
        <4>3. rec.role = old.role /\ rec.phase = old.phase /\ rec.lost = old.lost /\ rec.source = old.source
          BY <2>1, <3>1, <4>1 DEF Recoveries
        <4>4. QED  BY <4>2, <4>3 DEF OwedInv, Sourced
      <3>2. CASE rec = recovery' /\ ~Recovering(r)
        BY <2>1, <2>3, <3>2 DEF OwedAll, InPlay
      <3>3. CASE \E i \in DOMAIN backlog' : rec = backlog'[i]
        BY <2>1, <2>3, <3>3 DEF OwedAll, InPlay
      <3>4. QED  BY <2>4, <3>1, <3>2, <3>3 DEF InPlay
    <2>5. QED  BY <2>4 DEF OwedAll
  <1>4. ASSUME NEW r \in Role, Heartbeat(r) \/ LeaseExpires(r)
        PROVE  OwedAll'
    <2>1. /\ Only(r, session'[r]) /\ session'[r] \in Sessions /\ session[r].status # "lost"
          /\ UNCHANGED <<history, recovery, backlog>>
      BY <1>0, <1>4, FaultEffect DEF Unfiled
    <2>2. phase' = phase
      BY <1>4 DEF Heartbeat, LeaseExpires, work
    <2>3. QED  BY <1>0, <2>1, <2>2, LivingOwed DEF OwedAll, InPlay
  <1>5. ASSUME NEW r \in Role, RoleLost(r)
        PROVE  OwedAll'
    <2>1. /\ Only(r, session'[r]) /\ Registered(r) /\ session'[r] \in Sessions
          /\ SameWork(session[r], session'[r]) /\ session'[r].status = "lost"
          /\ recovery' = [role |-> r, lost |-> Attempt(r), phase |-> phase,
                          source |-> SourceOf(r), successor |-> 0]
          /\ UNCHANGED <<history, backlog>>
      BY <1>0, <1>5, RoleLostEffect DEF Unfiled
    <2>2. phase' = phase /\ session[r].status # "lost"
      BY <1>5 DEF RoleLost, work
    <2>3. r = "DEV" /\ phase = "DEV_ACTIVE" =>
              IF SourceOf(r) = 0 THEN session[r].scope = "FULL" ELSE Continues(SourceOf(r))
      BY <1>0, <1>5, <2>1, LostSource DEF SessionsInv
    <2>4. ASSUME NEW rec \in Recoveries, InPlay(rec)' PROVE OwedInv(rec)'
      <3>1. CASE rec = recovery'
        <4>1. /\ rec.role = r /\ rec.lost = Attempt(r) /\ rec.phase = phase
              /\ rec.source = SourceOf(r)
          BY <2>1, <3>1
        <4>2. Registered(r)'
          BY <2>1, OnlyRegistered
        <4>3. QED
          BY <2>1, <2>2, <2>3, <4>1, <4>2 DEF OwedInv, Sourced, Continues, Attempt, SameWork
      <3>2. CASE \E i \in DOMAIN backlog' : rec = backlog'[i]
        BY <1>0, <2>1, <2>2, <3>2, LivingOwed DEF OwedAll, InPlay
      <3>3. QED  BY <2>4, <3>1, <3>2 DEF InPlay
    <2>5. QED  BY <2>4 DEF OwedAll
  <1>6. CASE RoleRecovered
    <2>1. PICK r \in Role : r = recovery.role
      BY <1>0, <1>6, RoleRecoveredEffect DEF Recoveries
    <2>2. /\ Only(r, session'[r]) /\ session'[r] \in Sessions /\ UNCHANGED history
          /\ phase' = phase /\ session[r].status # "lost" /\ recovery \in Recoveries
          /\ \/ recovery' = None /\ UNCHANGED backlog
             \/ backlog # <<>> /\ recovery' = Head(backlog) /\ backlog' = Tail(backlog)
      BY <1>0, <1>6, <2>1, RoleRecoveredEffect DEF RoleRecovered, work, Usable
    <2>3. ASSUME NEW rec \in Recoveries, InPlay(rec)' PROVE InPlay(rec)
      <3>1. CASE recovery' = None /\ UNCHANGED backlog
        BY <2>3, <3>1, NoneAssumption DEF InPlay
      <3>2. CASE backlog # <<>> /\ recovery' = Head(backlog) /\ backlog' = Tail(backlog)
        <4>1. /\ backlog \in Seq(Recoveries) /\ recovery' = backlog[1] /\ 1 \in DOMAIN backlog
              /\ \A i \in DOMAIN backlog' : i + 1 \in DOMAIN backlog /\ backlog'[i] = backlog[i + 1]
          BY <1>0, <3>2 DEF TypeOK
        <4>2. QED  BY <2>3, <4>1 DEF InPlay
      <3>3. QED  BY <2>2, <3>1, <3>2
    <2>4. QED  BY <1>0, <2>2, <2>3, LivingOwed DEF OwedAll
  <1>7. CASE RecoverExpiredForeman
    <2>1. /\ Only("FOREMAN", session'["FOREMAN"]) /\ session'["FOREMAN"] \in Sessions
          /\ Registered("FOREMAN") /\ Filed("FOREMAN", "lost") /\ "FOREMAN" \in Role
          /\ recovery' = IF Recovering("CAPTAIN") THEN recovery ELSE None
          /\ backlog' = IF Parked THEN Append(backlog, recovery) ELSE backlog
      BY <1>0, <1>7, ForemanEffect, FreshType DEF Only, Role
    <2>2. phase' = phase
      BY <1>7 DEF RecoverExpiredForeman, work
    <2>3. ASSUME NEW rec \in Recoveries, InPlay(rec)' PROVE InPlay(rec)
      <3>1. CASE rec = recovery'
        BY <2>1, <3>1, NoneAssumption DEF InPlay
      <3>2. CASE \E i \in DOMAIN backlog' : rec = backlog'[i]
        <4>1. CASE Parked
          <5>1. backlog \in Seq(Recoveries) /\ recovery \in Recoveries
            BY <1>0, <4>1 DEF TypeOK, Parked
          <5>2. \A i \in DOMAIN backlog' :
                   (i \in DOMAIN backlog /\ backlog'[i] = backlog[i]) \/ backlog'[i] = recovery
            BY <2>1, <4>1, <5>1
          <5>3. QED  BY <3>2, <5>2 DEF InPlay
        <4>2. CASE ~Parked
          BY <2>1, <3>2, <4>2 DEF InPlay
        <4>3. QED  BY <4>1, <4>2
      <3>3. QED  BY <2>3, <3>1, <3>2 DEF InPlay
    <2>4. QED  BY <1>0, <2>1, <2>2, <2>3, FiledOwed DEF OwedAll
  <1>8. CASE RecoveryHandoffBound \/ RecoveryPromoted \/ RecoveryHandoffAbandoned
    <2>1. /\ Only("DEV", session'["DEV"]) /\ session'["DEV"] \in Sessions /\ "DEV" \in Role
          /\ Registered("DEV") /\ UNCHANGED <<history, recovery, backlog>>
      BY <1>0, <1>8, HandoffEffect DEF Unfiled, Role, Subordinate, Worker
    <2>2. phase' = phase /\ session["DEV"].status # "lost"
      <3>1. RecoveryHandoffBound => session["DEV"].status = "active"
        BY DEF RecoveryHandoffBound, Usable
      <3>2. session["DEV"].scope = "PREFLIGHT_ONLY" => session["DEV"].status # "lost"
        BY <2>1 DEF SessionsInv, SessionInv
      <3>3. QED
        BY <1>8, <3>1, <3>2 DEF RecoveryHandoffBound, RecoveryPromoted, RecoveryHandoffAbandoned,
            Frozen, work
    <2>3. QED  BY <1>0, <2>1, <2>2, LivingOwed DEF OwedAll, InPlay
  <1>9. QED  BY <1>1, <1>2, <1>3, <1>4, <1>5, <1>6, <1>7, <1>8 DEF Next, Staffing

\* A recovery goes on as long as nothing but the liveness of its role is touched.
LEMMA RecoveryStays ==
    ASSUME NEW rec \in Recoveries, RecoveryInv(rec), phase' = phase, Registered(rec.role)',
           history'[rec.role] = history[rec.role],
           SameWork(session[rec.role], session'[rec.role]),
           \/ session'[rec.role].status = session[rec.role].status
           \/ {session[rec.role].status, session'[rec.role].status} \subseteq {"active", "systemError"}
    PROVE  RecoveryInv(rec)'
  <1>2. Vacant(rec) => Vacant(rec)'
    BY DEF Vacant, Attempt, SameWork, Sourced, Continues
  <1>3. Succeeded(rec) => Succeeded(rec)'
    BY DEF Succeeded, Attempt, SameWork, Sourced, Continues
  <1>4. QED  BY <1>2, <1>3 DEF RecoveryInv

\* The recoveries of the other roles go on.
LEMMA OtherRecoveries ==
    ASSUME NEW r \in Role, Only(r, session'[r]),
           \A x \in Role \ {r} : history'[x] = history[x], phase' = phase,
           NEW rec \in Recoveries, rec.role # r, RecoveryInv(rec)
    PROVE  RecoveryInv(rec)'
  <1>1. rec.role \in Role \ {r}
    BY DEF Recoveries
  <1>2. session'[rec.role] = session[rec.role] /\ history'[rec.role] = history[rec.role]
    BY <1>1 DEF Only
  <1>3. QED
    BY <1>2, RecoveryStays DEF RecoveryInv, Registered, SameWork

\* The recoveries in play are recoveries, of roles that somebody holds.
LEMMA Pending ==
    ASSUME TypeOK, Counted, PendingInv
    PROVE  /\ recovery # None => recovery \in Recoveries /\ RecoveryInv(recovery)
           /\ \A i \in DOMAIN backlog : backlog[i] \in Recoveries /\ RecoveryInv(backlog[i])
           /\ \A rec \in Recoveries : RecoveryInv(rec) =>
                 /\ Registered(rec.role)
                 /\ session[rec.role].status \in {"lost", "active", "systemError"}
  BY DEF TypeOK, PendingInv, RecoveryInv, Vacant, Succeeded

\* The lost attempt is filed, a successor registered: so is a successor that was
\* lost before anybody confirmed it.
LEMMA SuccessorFiled ==
    ASSUME CoreInv, SessionsInv, HandedInv, NEW r \in Role, NEW status \in {"active", "systemError"},
           Register(r, status), recovery \in Recoveries, RecoveryInv(recovery),
           recovery.role = r, recovery # None
    PROVE  RecoveryInv(recovery)'
  <1>0. TypeOK /\ Counted /\ SessionInv(r)
    BY DEF CoreInv, SessionsInv
  <1> DEFINE s == session[r]
             past == history[r]
             last == Past(s, "lost")
  <1>1. Registered(r) /\ Recovering(r) /\ s \in Sessions
    BY <1>0 DEF RecoveryInv, Recovering, TypeOK, Registered
  <1>2. FiledStatus(r) = "lost"
    <2>1. Attempt(r) # 0
      BY <1>0 DEF Attempt, TypeOK
    <2>2. CASE Vacant(recovery)
      BY <1>1, <2>1, <2>2 DEF Vacant, FiledStatus, PendingSuccessor
    <2>3. CASE Succeeded(recovery)
      BY <1>1, <2>3 DEF Succeeded, FiledStatus, PendingSuccessor
    <2>4. QED  BY <2>2, <2>3 DEF RecoveryInv
  <1>3. /\ Only(r, Fresh(r, status)) /\ Filed(r, "lost")
    BY <1>0, <1>1, <1>2, RegisterEffect
  <1>4. PICK past2 \in Seq(Pasts) :
           past2 = history'[r] /\ past2 = Append(past, last) /\ past \in Seq(Pasts)
    BY <1>0, <1>3 DEF Filed, TypeOK, HistoryType
  <1>5. /\ Len(past2) = Len(past) + 1 /\ Len(past) \in Nat /\ past2[Len(past) + 1] = last
        /\ \A a \in 1..Len(past) : past2[a] = past[a]
    BY <1>4
  <1>6. last.status = "lost" /\ last.scope = s.scope /\ last.handoff = s.handoff
    BY DEF Past
  <1> HIDE DEF last
  <1>7. \A a \in Nat : Continues(a) => Continues(a)'
    <2>1. CASE r = "DEV"
      <3>1. last \in Pasts
        BY <1>1 DEF last, Past, Pasts, Sessions
      <3>2. QED  BY <1>4, <2>1, <3>1, ContinuesStays
    <2>2. CASE r # "DEV"
      BY <1>3, <2>2 DEF Filed, Continues, Role, Subordinate, Worker
    <2>3. QED  BY <2>1, <2>2
  <1>8. PICK rec \in Recoveries : rec = recovery
    OBVIOUS
  <1>9. PICK new \in Nat : new = Attempt(r)'
    BY <1>4 DEF Attempt
  <1> DEFINE rec2 == [rec EXCEPT !.successor = new]
  <1>10. /\ rec2.role = r /\ rec2.lost = rec.lost /\ rec2.phase = rec.phase
         /\ rec2.source = rec.source /\ rec2.successor = new
         /\ rec.lost \in Nat /\ rec.source \in Nat
    BY <1>8 DEF Recoveries
  <1> HIDE DEF rec2
  <1>11. /\ rec.lost \in DOMAIN past2
         /\ past2[rec.lost].handoff => past2[rec.lost].scope = "FULL"
         /\ \A a \in rec.lost .. Len(past2) : past2[a].status = "lost"
         /\ Sourced(rec2, past2[rec.lost])'
    <2>1. CASE Vacant(rec)
      <3>1. rec.lost = Len(past) + 1 /\ s.status = "lost" /\ Sourced(rec, s)
        BY <1>8, <2>1 DEF Vacant, Attempt
      <3>2. past2[rec.lost] = last
        BY <1>5, <3>1
      <3>3. s.handoff => s.scope = "FULL"
        BY <1>0, <1>1, <3>1 DEF HandedInv, SessionInv, Sessions, Scope
      <3>4. Sourced(rec2, past2[rec.lost])'
        BY <1>6, <3>2, <1>7, <1>8, <1>10, <3>1 DEF Sourced
      <3>5. QED  BY <1>4, <1>5, <1>6, <3>1, <3>2, <3>3, <3>4
    <2>2. CASE Succeeded(rec)
      <3>1. /\ rec.lost \in 1..Len(past)
            /\ past[rec.lost].handoff => past[rec.lost].scope = "FULL"
            /\ \A a \in rec.lost .. Len(past) : past[a].status = "lost"
            /\ Sourced(rec, past[rec.lost])
        BY <1>4, <1>8, <2>2 DEF Succeeded
      <3>2. past2[rec.lost] = past[rec.lost]
        BY <1>5, <3>1
      <3>3. \A a \in rec.lost .. Len(past2) : past2[a].status = "lost"
        BY <1>5, <1>6, <3>1
      <3>4. Sourced(rec2, past2[rec.lost])'
        BY <1>7, <1>8, <1>10, <3>1, <3>2 DEF Sourced
      <3>5. QED  BY <1>4, <1>5, <3>1, <3>2, <3>3, <3>4
    <2>3. QED  BY <1>8, <2>1, <2>2 DEF RecoveryInv
  <1>12. /\ session'[r].status \in {"active", "systemError"} /\ session'[r].recovered = None
         /\ session'[r].scope = "FULL" /\ ~session'[r].handoff /\ Registered(r)'
    <2>1. session'[r] = Fresh(r, status) /\ Fresh(r, status) \in Sessions
      BY <1>0, <1>3, FreshType DEF Only
    <2>2. Only(r, session'[r]) /\ session'[r] \in Sessions
      BY <1>3, <2>1
    <2>3. Registered(r)'
      BY <2>2, OnlyRegistered
    <2>4. /\ Fresh(r, status).status = status /\ Fresh(r, status).recovered = None
          /\ Fresh(r, status).scope = "FULL" /\ Fresh(r, status).handoff = FALSE
      BY <1>0, FreshType
    <2>5. QED  BY <2>1, <2>3, <2>4
  <1>13. Succeeded(rec2)'
    BY <1>4, <1>9, <1>10, <1>11, <1>12 DEF Succeeded, Sourced, Attempt
  <1>14. phase' = phase
    BY DEF Register, work
  <1>15. RecoveryInv(rec2)'
    BY <1>8, <1>10, <1>12, <1>13, <1>14 DEF RecoveryInv
  <1>16. recovery' = rec2
    BY <1>0, <1>1, <1>8, <1>9, RegisterEffect DEF rec2
  <1>17. QED
    BY <1>15, <1>16 DEF RecoveryInv, Vacant, Succeeded, Sourced, Continues, Registered, Attempt

\* All that is in play after a step is in order.
Kept ==
    \A rec \in Recoveries :
        rec = recovery' \/ (\E i \in DOMAIN backlog' : rec = backlog'[i]) => RecoveryInv(rec)'

\* Recoveries that are kept one by one are kept together.
LEMMA KeptSuffices ==
    ASSUME RecoveryType', Kept, Distinct'
    PROVE  PendingInv'
  <1>1. recovery' # None => RecoveryInv(recovery)'
    <2>1. SUFFICES ASSUME recovery' # None PROVE RecoveryInv(recovery)'
      OBVIOUS
    <2>2. PICK rec \in Recoveries : rec = recovery'
      BY <2>1 DEF RecoveryType
    <2>3. RecoveryInv(rec)'
      BY <2>2 DEF Kept
    <2>4. QED
      BY <2>2, <2>3 DEF RecoveryInv, Vacant, Succeeded, Sourced, Continues, Registered, Attempt
  <1>2. ASSUME NEW i \in DOMAIN backlog' PROVE RecoveryInv(backlog[i])'
    <2>1. PICK rec \in Recoveries : rec = backlog'[i]
      BY DEF RecoveryType
    <2>2. RecoveryInv(rec)'
      BY <2>1 DEF Kept
    <2>3. QED
      BY <2>1, <2>2 DEF RecoveryInv, Vacant, Succeeded, Sourced, Continues, Registered, Attempt
  <1>3. QED  BY <1>1, <1>2 DEF PendingInv

\* A step that touches one session and keeps the recoveries in play: it keeps
\* the invariant, if no recovery of that role stays.
LEMMA OneRole ==
    ASSUME CoreInv, PendingInv, RecoveryType', NEW r \in Role, Only(r, session'[r]),
           \A x \in Role \ {r} : history'[x] = history[x], phase' = phase,
           recovery' = recovery \/ recovery' = None, UNCHANGED backlog,
           recovery' # None => recovery.role # r,
           \A i \in DOMAIN backlog : backlog[i].role # r
    PROVE  PendingInv'
  <1>0. /\ TypeOK /\ Counted /\ Distinct
        /\ recovery # None => recovery \in Recoveries /\ RecoveryInv(recovery)
        /\ \A i \in DOMAIN backlog : backlog[i] \in Recoveries /\ RecoveryInv(backlog[i])
    BY Pending DEF CoreInv, PendingInv
  <1>1. ASSUME NEW rec \in Recoveries,
               rec = recovery' \/ \E i \in DOMAIN backlog' : rec = backlog'[i]
        PROVE  RecoveryInv(rec)'
    <2>1. rec # None
      BY NoneAssumption
    <2>2. rec.role # r /\ RecoveryInv(rec)
      BY <1>0, <1>1, <2>1
    <2>3. QED  BY <2>2, OtherRecoveries
  <1>2. Distinct'
    BY <1>0 DEF Distinct
  <1>3. QED  BY <1>1, <1>2, KeptSuffices DEF Kept

\* A registration keeps the pending recoveries.
LEMMA RegisterPending ==
    ASSUME CoreInv, SessionsInv, HandedInv, PendingInv,
           NEW r \in Role, NEW status \in {"active", "systemError"}, Register(r, status)
    PROVE  PendingInv'
  <1>0. /\ TypeOK /\ Counted /\ Distinct
        /\ recovery # None => recovery \in Recoveries /\ RecoveryInv(recovery)
        /\ \A i \in DOMAIN backlog : backlog[i] \in Recoveries /\ RecoveryInv(backlog[i])
    BY Pending DEF CoreInv, PendingInv
  <1>1. /\ Only(r, Fresh(r, status)) /\ UNCHANGED backlog /\ RecoveryType'
        /\ ~Recovering(r) => recovery' = recovery
        /\ \A x \in Role \ {r} : history'[x] = history[x]
    BY <1>0, RegisterEffect DEF Filed
  <1>2. phase' = phase /\ Only(r, session'[r])
    BY <1>1 DEF Register, work, Only
  <1>3. \A i \in DOMAIN backlog : backlog[i].role # r
    <2>1. CASE Recovering(r)
      BY <1>0, <2>1 DEF Recovering, Distinct
    <2>2. CASE ~Recovering(r)
      <3>1. Registered(r) => session[r].status = "terminal"
        BY <2>2 DEF Register, Replaceable
      <3>2. ASSUME NEW i \in DOMAIN backlog, backlog[i].role = r PROVE FALSE
        <4>1. Registered(r) /\ session[r].status \in {"lost", "active", "systemError"}
          BY <1>0, <3>2 DEF RecoveryInv, Vacant, Succeeded
        <4>2. QED  BY <3>1, <4>1
      <3>3. QED  BY <3>2
    <2>3. QED  BY <2>1, <2>2
  <1>4. CASE ~Recovering(r)
    BY <1>1, <1>2, <1>3, <1>4, OneRole DEF Recovering
  <1>5. CASE Recovering(r)
    <2>1. recovery # None /\ recovery.role = r /\ recovery \in Recoveries /\ RecoveryInv(recovery)
      BY <1>0, <1>5 DEF Recovering
    <2>2. RecoveryInv(recovery)'
      BY <2>1, SuccessorFiled
    <2>3. ASSUME NEW rec \in Recoveries,
                 rec = recovery' \/ \E i \in DOMAIN backlog' : rec = backlog'[i]
          PROVE  RecoveryInv(rec)'
      <3>1. CASE rec = recovery'
        BY <2>2, <3>1
        DEF RecoveryInv, Vacant, Succeeded, Sourced, Continues, Registered, Attempt
      <3>2. CASE \E i \in DOMAIN backlog : rec = backlog[i]
        BY <1>0, <1>1, <1>2, <1>3, <3>2, OtherRecoveries
      <3>3. QED  BY <1>1, <2>3, <3>1, <3>2
    <2>4. recovery'.role = r
      <3>1. recovery' = [recovery EXCEPT !.successor = Attempt(r)']
        BY <1>0, <1>5, RegisterEffect
      <3>2. QED  BY <2>1, <3>1 DEF Recoveries
    <2>5. Distinct'
      BY <1>0, <1>1, <1>3, <2>4 DEF Distinct
    <2>6. QED  BY <1>1, <2>3, <2>5, KeptSuffices DEF Kept
  <1>6. QED  BY <1>4, <1>5

\* A heartbeat and the end of a lease keep the pending recoveries.
LEMMA FaultPending ==
    ASSUME CoreInv, PendingInv, NEW r \in Role, Heartbeat(r) \/ LeaseExpires(r)
    PROVE  PendingInv'
  <1>0. /\ TypeOK /\ Counted /\ Distinct
        /\ recovery # None => recovery \in Recoveries /\ RecoveryInv(recovery)
        /\ \A i \in DOMAIN backlog : backlog[i] \in Recoveries /\ RecoveryInv(backlog[i])
    BY Pending DEF CoreInv, PendingInv
  <1>1. /\ Only(r, session'[r]) /\ session'[r] \in Sessions /\ SameWork(session[r], session'[r])
        /\ {session[r].status, session'[r].status} \subseteq {"active", "systemError"}
        /\ UNCHANGED <<history, recovery, backlog>>
    BY <1>0, FaultEffect DEF Unfiled
  <1>2. phase' = phase
    BY DEF Heartbeat, LeaseExpires, work
  <1>3. ASSUME NEW rec \in Recoveries, rec = recovery' \/ \E i \in DOMAIN backlog' : rec = backlog'[i]
        PROVE  RecoveryInv(rec)'
    <2>1. rec # None
      BY NoneAssumption
    <2>2. RecoveryInv(rec)
      BY <1>0, <1>1, <1>3, <2>1
    <2>3. CASE rec.role = r
      <3>1. Registered(r)'
        BY <1>1, OnlyRegistered
      <3>2. QED  BY <1>1, <1>2, <2>2, <2>3, <3>1, RecoveryStays
    <2>4. CASE rec.role # r
      BY <1>1, <1>2, <2>2, <2>4, OtherRecoveries
    <2>5. QED  BY <2>3, <2>4
  <1>4. Distinct' /\ RecoveryType'
    BY <1>0, <1>1 DEF Distinct, RecoveryType, TypeOK
  <1>5. QED  BY <1>3, <1>4, KeptSuffices DEF Kept

\* The work of a role that is lost is its own, or what it was to take over.
LEMMA LostPending ==
    ASSUME CoreInv, SessionsInv, PendingInv, ReportedOnce', NEW r \in Role, RoleLost(r)
    PROVE  PendingInv'
  <1>0. /\ TypeOK /\ Counted /\ Distinct /\ SessionInv(r)
        /\ \A i \in DOMAIN backlog : backlog[i] \in Recoveries /\ RecoveryInv(backlog[i])
    BY Pending DEF CoreInv, SessionsInv, PendingInv
  <1>1. /\ Only(r, session'[r]) /\ Registered(r) /\ session'[r] \in Sessions
        /\ SameWork(session[r], session'[r]) /\ session'[r].status = "lost"
        /\ recovery' = [role |-> r, lost |-> Attempt(r), phase |-> phase,
                        source |-> SourceOf(r), successor |-> 0]
        /\ recovery' \in Recoveries /\ RecoveryType' /\ UNCHANGED <<history, backlog>>
    BY <1>0, RoleLostEffect DEF Unfiled
  <1>2. phase' = phase
    BY DEF RoleLost, work
  <1>3. \A i \in DOMAIN backlog : backlog[i].role # r
    BY <1>1, NoneAssumption DEF ReportedOnce
  <1>4. /\ SourceOf(r) # 0 => r = "DEV" /\ phase = "DEV_ACTIVE"
        /\ r = "DEV" /\ phase = "DEV_ACTIVE" =>
              IF SourceOf(r) = 0 THEN session[r].scope = "FULL" ELSE Continues(SourceOf(r))
    BY <1>0, LostSource
  <1>5. PICK new \in Recoveries : new = recovery'
    BY <1>1
  <1>6. ASSUME NEW rec \in Recoveries, rec = recovery' \/ \E i \in DOMAIN backlog' : rec = backlog'[i]
        PROVE  RecoveryInv(rec)'
    <2>1. CASE rec = new
      <3>1. /\ rec.role = r /\ rec.lost = Attempt(r) /\ rec.phase = phase
            /\ rec.source = SourceOf(r) /\ rec.successor = 0
        BY <1>1, <1>5, <2>1
      <3>2. Registered(r)' /\ history' = history
        BY <1>1, OnlyRegistered
      <3>3. Vacant(rec)'
        BY <1>1, <1>2, <1>4, <3>1, <3>2 DEF Vacant, Attempt, Sourced, Continues, SameWork
      <3>4. QED  BY <1>2, <1>4, <3>1, <3>2, <3>3 DEF RecoveryInv
    <2>2. CASE \E i \in DOMAIN backlog : rec = backlog[i]
      BY <1>0, <1>1, <1>2, <1>3, <2>2, OtherRecoveries
    <2>3. QED  BY <1>1, <1>5, <1>6, <2>1, <2>2
  <1>7. Distinct'
    BY <1>0, <1>1, <1>3 DEF Distinct
  <1>8. QED  BY <1>1, <1>6, <1>7, KeptSuffices DEF Kept

\* The recovery that is over makes way for the one that waited for it.
LEMMA RecoveredPending ==
    ASSUME CoreInv, PendingInv, RoleRecovered
    PROVE  PendingInv'
  <1>0. /\ TypeOK /\ Counted /\ Distinct
        /\ \A i \in DOMAIN backlog : backlog[i] \in Recoveries /\ RecoveryInv(backlog[i])
    BY Pending DEF CoreInv, PendingInv
  <1>1. PICK r \in Role : r = recovery.role
    BY <1>0, RoleRecoveredEffect DEF Recoveries
  <1>2. /\ recovery # None /\ Only(r, session'[r]) /\ RecoveryType' /\ UNCHANGED history
        /\ phase' = phase
    BY <1>0, <1>1, RoleRecoveredEffect DEF RoleRecovered, work
  <1>3. \A i \in DOMAIN backlog : backlog[i].role # r
    BY <1>0, <1>1, <1>2 DEF Distinct
  <1>4. CASE recovery' = None /\ UNCHANGED backlog
    BY <1>2, <1>3, <1>4, OneRole
  <1>5. CASE backlog # <<>> /\ recovery' = Head(backlog) /\ backlog' = Tail(backlog)
    <2>1. /\ backlog \in Seq(Recoveries) /\ recovery' = backlog[1]
          /\ DOMAIN backlog = 1..Len(backlog) /\ 1 \in DOMAIN backlog
          /\ DOMAIN backlog' = 1..(Len(backlog) - 1)
          /\ \A i \in DOMAIN backlog' : i + 1 \in DOMAIN backlog /\ backlog'[i] = backlog[i + 1]
      BY <1>0, <1>5 DEF TypeOK
    <2>2. ASSUME NEW rec \in Recoveries,
                 rec = recovery' \/ \E i \in DOMAIN backlog' : rec = backlog'[i]
          PROVE  RecoveryInv(rec)'
      <3>1. PICK j \in DOMAIN backlog : rec = backlog[j]
        BY <2>1, <2>2
      <3>2. QED  BY <1>0, <1>2, <1>3, <3>1, OtherRecoveries
    <2>3. Distinct'
      <3>1. \A i \in DOMAIN backlog' : backlog'[i].role \in Worker
        BY <1>0, <2>1 DEF Distinct
      <3>2. ASSUME NEW i \in DOMAIN backlog', NEW j \in DOMAIN backlog', i # j
            PROVE  backlog'[i].role # backlog'[j].role
        <4>1. i + 1 # j + 1 /\ i + 1 \in DOMAIN backlog /\ j + 1 \in DOMAIN backlog
          BY <2>1, <3>2
        <4>2. QED  BY <1>0, <2>1, <4>1 DEF Distinct
      <3>3. ASSUME NEW i \in DOMAIN backlog'
            PROVE  backlog'[i].role # recovery'.role
        <4>1. i + 1 # 1 /\ i + 1 \in DOMAIN backlog
          BY <2>1, <3>3
        <4>2. QED  BY <1>0, <2>1, <4>1 DEF Distinct
      <3>4. QED  BY <3>1, <3>2, <3>3 DEF Distinct
    <2>4. QED  BY <1>2, <2>2, <2>3, KeptSuffices DEF Kept
  <1>6. QED  BY <1>0, <1>4, <1>5, RoleRecoveredEffect

\* The worker's recovery that is parked was of none of the parked roles.
LEMMA ForemanPending ==
    ASSUME CoreInv, PendingInv, RecoverExpiredForeman
    PROVE  PendingInv'
  <1>0. /\ TypeOK /\ Counted /\ Distinct /\ "FOREMAN" \in Role
        /\ recovery # None => recovery \in Recoveries /\ RecoveryInv(recovery)
        /\ \A i \in DOMAIN backlog : backlog[i] \in Recoveries /\ RecoveryInv(backlog[i])
    BY Pending DEF CoreInv, PendingInv, Role
  <1>1. /\ Only("FOREMAN", session'["FOREMAN"])
        /\ \A x \in Role \ {"FOREMAN"} : history'[x] = history[x]
        /\ RecoveryType' /\ phase' = phase
        /\ recovery' = IF Recovering("CAPTAIN") THEN recovery ELSE None
        /\ backlog' = IF Parked THEN Append(backlog, recovery) ELSE backlog
    BY <1>0, ForemanEffect DEF Filed, Only, RecoverExpiredForeman, work
  <1>2. \A i \in DOMAIN backlog : backlog[i].role # "FOREMAN"
    BY <1>0 DEF Distinct, Worker
  <1>3. CASE ~Parked
    BY <1>0, <1>1, <1>2, <1>3, OneRole DEF Recovering
  <1>4. CASE Parked
    <2>1. /\ recovery # None /\ recovery.role \in Worker /\ recovery.role # "FOREMAN"
          /\ recovery' = None /\ recovery \in Recoveries /\ RecoveryInv(recovery)
      BY <1>0, <1>1, <1>4 DEF Parked, Worker, Recovering
    <2>2. /\ backlog \in Seq(Recoveries) /\ backlog' = Append(backlog, recovery)
          /\ DOMAIN backlog = 1..Len(backlog) /\ DOMAIN backlog' = 1..(Len(backlog) + 1)
          /\ \A i \in DOMAIN backlog : backlog'[i] = backlog[i]
          /\ backlog'[Len(backlog) + 1] = recovery
      BY <1>0, <1>1, <1>4, <2>1 DEF TypeOK
    <2>3. \A i \in DOMAIN backlog' : i \in DOMAIN backlog \/ i = Len(backlog) + 1
      BY <2>2
    <2>4. ASSUME NEW rec \in Recoveries,
                 rec = recovery' \/ \E i \in DOMAIN backlog' : rec = backlog'[i]
          PROVE  RecoveryInv(rec)'
      <3>1. rec # None
        BY NoneAssumption
      <3>2. RecoveryInv(rec) /\ rec.role # "FOREMAN"
        BY <1>0, <1>2, <2>1, <2>2, <2>3, <2>4, <3>1
      <3>3. QED  BY <1>0, <1>1, <3>2, OtherRecoveries
    <2>5. Distinct'
      BY <1>0, <2>1, <2>2, <2>3 DEF Distinct
    <2>6. QED  BY <1>1, <2>4, <2>5, KeptSuffices DEF Kept
  <1>5. QED  BY <1>3, <1>4

\* A DEV that is handed work is neither lost nor waiting to be confirmed.
LEMMA HandoffPending ==
    ASSUME CoreInv, SessionsInv, PendingInv,
           RecoveryHandoffBound \/ RecoveryPromoted \/ RecoveryHandoffAbandoned
    PROVE  PendingInv'
  <1>0. /\ TypeOK /\ Counted /\ Distinct /\ "DEV" \in Role /\ SessionInv("DEV")
        /\ recovery # None => recovery \in Recoveries /\ RecoveryInv(recovery)
        /\ \A i \in DOMAIN backlog : backlog[i] \in Recoveries /\ RecoveryInv(backlog[i])
    BY Pending DEF CoreInv, SessionsInv, PendingInv, Role, Subordinate, Worker
  <1>1. /\ Only("DEV", session'["DEV"]) /\ Registered("DEV")
        /\ UNCHANGED <<history, recovery, backlog>> /\ phase' = phase
        /\ session["DEV"].scope # "FULL" /\ session["DEV"].status # "lost"
    BY <1>0, HandoffEffect DEF Unfiled, RecoveryHandoffBound, RecoveryPromoted,
        RecoveryHandoffAbandoned, work, SessionInv
  <1>2. \A rec \in Recoveries : RecoveryInv(rec) => rec.role # "DEV"
    BY <1>1 DEF RecoveryInv, Vacant, Succeeded
  <1>3. QED
    BY <1>0, <1>1, <1>2, OneRole DEF RecoveryType, TypeOK

\* Every event keeps the pending recoveries.
LEMMA PendingStep ==
    ASSUME CoreInv, SessionsInv, HandedInv, PendingInv, ReportedOnce', Next
    PROVE  PendingInv'
  <1>1. CASE Business
    <2>1. recovery' = None /\ backlog' = <<>>
      BY <1>1, BusinessFrame DEF CoreInv
    <2>2. QED  BY <2>1 DEF PendingInv, Distinct
  <1>2. CASE Control
    <2>1. CASE recovery' = None /\ backlog' = <<>>
      BY <2>1 DEF PendingInv, Distinct
    <2>2. CASE UNCHANGED <<work, people>>
      BY <2>2 DEF work, people, PendingInv, Distinct, RecoveryInv, Registered, Vacant, Succeeded,
          Sourced, Continues, Attempt
    <2>3. QED  BY <1>2, <2>1, <2>2, ControlEffect DEF CoreInv
  <1>3. CASE Staffing
    BY <1>3, RegisterPending, FaultPending, LostPending, RecoveredPending, ForemanPending,
        HandoffPending DEF Staffing
  <1>4. QED  BY <1>1, <1>2, <1>3 DEF Next

\* A DEV is recovered before it is handed anything, and is blocked again only when
\* it has given its hand-off back.
LEMMA HandedStep ==
    ASSUME CoreInv, HandedInv, PendingInv, Next
    PROVE  HandedInv'
  <1>0. TypeOK /\ Counted
    BY DEF CoreInv
  <1> SUFFICES ASSUME NEW x \in Role, Registered(x)', session'[x].handoff
               PROVE  session'[x].scope # "RECOVERY_BLOCKED"
    BY DEF HandedInv, Registered
  <1>1. CASE Business \/ Control
    <2>1. Same(x) \/ Ended(x) \/ Marked(x)
      BY <1>0, <1>1, BusinessFrame, ControlEffect
    <2>2. QED  BY <1>0, <2>1, Touched DEF HandedInv, SameWork
  <1>2. ASSUME NEW r \in Role, Only(r, session'[r]),
               x = r /\ session'[r].handoff => session'[r].scope # "RECOVERY_BLOCKED"
        PROVE  session'[x].scope # "RECOVERY_BLOCKED"
    BY <1>2 DEF HandedInv, Only, Registered
  <1>3. ASSUME NEW r \in Role, NEW status \in {"active", "systemError"}, Register(r, status)
        PROVE  session'[x].scope # "RECOVERY_BLOCKED"
    BY <1>0, <1>2, <1>3, RegisterEffect, FreshType DEF Only
  <1>4. ASSUME NEW r \in Role, Heartbeat(r) \/ LeaseExpires(r) \/ RoleLost(r)
        PROVE  session'[x].scope # "RECOVERY_BLOCKED"
    BY <1>0, <1>2, <1>4, FaultEffect, RoleLostEffect DEF SameWork, HandedInv
  <1>5. CASE RoleRecovered
    <2>1. PICK r \in Role : r = recovery.role
      BY <1>0, <1>5, RoleRecoveredEffect DEF Recoveries
    <2>2. recovery # None /\ recovery.successor = Attempt(r) /\ Attempt(r) # 0
      BY <1>0, <1>5, <2>1 DEF RoleRecovered, PendingSuccessor, Attempt, TypeOK
    <2>3. ~session[r].handoff
      BY <2>1, <2>2 DEF PendingInv, RecoveryInv, Vacant, Succeeded
    <2>4. QED  BY <1>0, <1>2, <1>5, <2>1, <2>3, RoleRecoveredEffect
  <1>6. CASE RecoverExpiredForeman
    <2>1. "FOREMAN" \in Role
      BY DEF Role
    <2>2. QED  BY <1>0, <1>2, <1>6, <2>1, ForemanEffect, FreshType DEF Only
  <1>7. CASE RecoveryHandoffBound \/ RecoveryPromoted \/ RecoveryHandoffAbandoned
    <2>1. "DEV" \in Role
      BY DEF Role, Subordinate, Worker
    <2>2. QED  BY <1>0, <1>2, <1>7, <2>1, HandoffEffect
  <1>8. QED  BY <1>1, <1>3, <1>4, <1>5, <1>6, <1>7 DEF Next, Staffing

-----------------------------------------------------------------------------
(* Theorems. *)

\* Types, verdicts and attempt counts hold whatever losses are reported.
THEOREM CoreInvariance == Spec => []CoreInv
  <1>1. CoreInv /\ [Next]_vars => CoreInv'
    BY CoreStep
  <1>2. QED  BY InitCore, <1>1, PTL DEF Spec

\* The state machine keeps every variable within its type: no attempt, cycle,
\* candidate or epoch passes its bound, and 0..epoch holds the reconciled one.
THEOREM TypeCorrect == Spec => []TypeOK
  <1>1. CoreInv => TypeOK
    BY DEF CoreInv
  <1>2. QED  BY CoreInvariance, <1>1, PTL

\* Nothing is merged, or waits for its merge, on a verdict about an older
\* candidate or an older cycle.
THEOREM AcceptedIsCurrent == Spec => []AcceptedOnCurrent
  <1>1. CoreInv => AcceptedOnCurrent
    <2> SUFFICES ASSUME CoreInv PROVE AcceptedOnCurrent
      OBVIOUS
    <2> USE DEF CoreInv, WorkInv
    <2>1. phase \notin P1Phases => approved = cycle
      BY DEF Approval
    <2>2. CASE phase \in {"REVIEW_PASS", "RECEIPT_ACTIVE"}
      BY <2>1, <2>2 DEF AcceptedOnCurrent, Verdicts, Current, Delivered, Merged
    <2>3. CASE phase \in {"RECEIPT_PASS", "ACCEPTED_PENDING_MERGE"} \cup Merged
      BY <2>1, <2>3 DEF AcceptedOnCurrent, Verdicts, Current, Delivered, Merged, Gate
    <2>4. QED  BY <2>1, <2>2, <2>3 DEF AcceptedOnCurrent
  <1>2. QED  BY CoreInvariance, <1>1, PTL

\* A task that is blocked (a recovery, a hold, a new control epoch) moves only
\* back to P1, in a new cycle with nothing proved.
THEOREM BlockedStays == Spec => BlockedNeverAdvances
  <1>1. ASSUME CoreInv, [Next]_vars, Blocked, phase' # phase
        PROVE  phase' \in {"QUEUED", "P1_ACTIVE"} /\ cycle' = cycle + 1 /\ evidence' = NoEvidence
    <2>1. ~Open
      BY <1>1 DEF Blocked, Open, ReconcileRequired
    <2>2. ~Business
      BY <2>1 DEF Business, Take, StartP1, P1Ready, P1Approved, P1Committed, P1Restarted, LaunchDev,
          DevReady, LaunchReview, ReviewRework, ReviewPass, LaunchReceipt, ReceiptFail, ReopenDev,
          ReopenReview, ReceiptPass, ReadyForMerge, TaskReopen, Merge, Archive, Launch
    <2>3. ~Staffing
      BY <1>1, StaffingWork DEF CoreInv, work
    <2>4. PacketUpdated \/ ControlReconciled
      BY <1>1, <2>2, <2>3 DEF Next, Control, AdvanceControlEpoch, AddHold, ResolveHold, vars, work
    <2>5. QED  BY <2>4 DEF PacketUpdated, ControlReconciled
  <1>2. CoreInv /\ [Next]_vars =>
          [(Blocked /\ phase' # phase) =>
              /\ phase' \in {"QUEUED", "P1_ACTIVE"}
              /\ cycle' = cycle + 1
              /\ evidence' = NoEvidence]_vars
    BY <1>1
  <1>3. QED  BY CoreInvariance, <1>2, PTL DEF Spec, BlockedNeverAdvances

\* What the sessions and the recoveries owe each other holds whatever is reported.
LineageInv == CoreInv /\ SessionsInv /\ OwedAll

\* The lineage of every session is inductive.
LEMMA LineageInvariance == Spec => []LineageInv
  <1>1. Init => SessionsInv /\ OwedAll
    BY NoneAssumption DEF Init, SessionsInv, SessionInv, Registered, OwedAll, InPlay
  <1>2. LineageInv /\ [Next]_vars => LineageInv'
    <2> SUFFICES ASSUME LineageInv, [Next]_vars PROVE LineageInv'
      OBVIOUS
    <2>1. CASE Next
      BY <2>1, CoreStep, SessionStep, OwedStep DEF LineageInv
    <2>2. CASE UNCHANGED vars
      BY <2>2, CoreStep DEF LineageInv, vars, work, control, people, SessionsInv, SessionInv,
          OwedAll, InPlay, OwedInv, Registered, Sourced, Continues, Attempt, Promoted
    <2>3. QED  BY <2>1, <2>2
  <1>3. QED  BY InitCore, <1>1, <1>2, PTL DEF Spec, LineageInv

\* A DEV that takes over in mid-development continues the work of an attempt that
\* was lost and had work, and delivers only what it was handed and has proved:
\* whoever reports which loss when, parked recoveries and reports for live sessions
\* included.
THEOREM SourcesAreReal == Spec => []RecoveredSourceIsReal
  <1>1. LineageInv => RecoveredSourceIsReal
    BY DEF LineageInv, SessionsInv, SessionInv, RecoveredSourceIsReal, Continues, Role,
        Subordinate, Worker
  <1>2. QED  BY LineageInvariance, <1>1, PTL

\* Pending recoveries stay closable as long as no role is reported lost a second
\* time while its recovery is parked.
ClosableInv == HandedInv /\ PendingInv

\* The lineage of every recovery, up to the first such report.
LEMMA ClosableInvariance == Spec => ([]ReportedOnce => []ClosableInv)
  <1>1. Init => ClosableInv
    BY DEF Init, ClosableInv, HandedInv, Registered, PendingInv, Distinct
  <1>2. LineageInv /\ ClosableInv /\ ReportedOnce' /\ [Next]_vars => ClosableInv'
    <2> SUFFICES ASSUME LineageInv, ClosableInv, ReportedOnce', [Next]_vars PROVE ClosableInv'
      OBVIOUS
    <2>1. CASE Next
      BY <2>1, HandedStep, PendingStep DEF ClosableInv, LineageInv
    <2>2. CASE UNCHANGED vars
      BY <2>2 DEF ClosableInv, vars, work, control, people, HandedInv,
          PendingInv, Distinct, RecoveryInv, Registered, Vacant, Succeeded, Sourced, Continues,
          Attempt
    <2>3. QED  BY <2>1, <2>2
  <1>3. QED  BY LineageInvariance, <1>1, <1>2, PTL DEF Spec

\* A pending or parked recovery names the last attempt that was lost, and once its
\* successor is registered ROLE_RECOVERED finds the lineage it demands, until a role
\* is reported lost again while its recovery is parked.
THEOREM RecoveriesClose == Spec => ([]ReportedOnce => []RecoveryClosable)
  <1>1. CoreInv /\ ClosableInv => RecoveryClosable
    <2> SUFFICES ASSUME CoreInv, ClosableInv,
                        NEW rec \in ({recovery} \cup {backlog[i] : i \in DOMAIN backlog}) \ {None}
                 PROVE  \/ /\ rec.successor = 0
                           /\ rec.lost = Attempt(rec.role) /\ session[rec.role].status = "lost"
                        \/ rec.successor = Attempt(rec.role) /\ LineageWhole(rec)
      BY DEF RecoveryClosable
    <2>1. RecoveryInv(rec) /\ rec \in Recoveries
      BY DEF ClosableInv, PendingInv, CoreInv, TypeOK
    <2>2. CASE Vacant(rec)
      BY <2>2 DEF Vacant
    <2>3. CASE Succeeded(rec)
      <3>1. history[rec.role] \in Seq(Pasts)
        BY <2>1 DEF CoreInv, TypeOK, Recoveries
      <3>2. rec.source # 0 => history[rec.role][rec.source].status = "lost"
        BY <2>1, <2>3 DEF RecoveryInv, Succeeded, Sourced, Continues
      <3>3. rec.lost <= Len(history[rec.role])
        BY <2>3, <3>1 DEF Succeeded
      <3>4. QED  BY <2>3, <3>2, <3>3 DEF Succeeded, LineageWhole
    <2>4. QED  BY <2>1, <2>2, <2>3 DEF RecoveryInv
  <1>2. QED  BY ClosableInvariance, CoreInvariance, <1>1, PTL

-----------------------------------------------------------------------------
(* Who works, and who is to be replaced. *)

\* A worker that is active was registered in this cycle, and in this epoch unless a
\* newer one waits to be reconciled; while P1 is on nobody is.
WorkerInv ==
    \A r \in Worker : Registered(r) /\ session[r].status = "active" =>
        /\ phase \notin P1Phases
        /\ session[r].registered.cycle = cycle
        /\ session[r].registered.epoch = epoch \/ reconciled < epoch

\* What is left of a worker that is active after a step it had no part in.
Remains(r) ==
    Registered(r)' /\ session'[r].status = "active" =>
        /\ Registered(r) /\ session[r].status = "active"
        /\ session'[r].registered = session[r].registered

\* Updates that leave alone what a session was registered with.
LEMMA RegisteredStays ==
    ASSUME TypeOK, NEW r \in Role, Registered(r)
    PROVE  /\ \A x \in Statuses : [session[r] EXCEPT !.status = x].registered = session[r].registered
           /\ [session[r] EXCEPT !.live = FALSE].registered = session[r].registered
           /\ [session[r] EXCEPT !.restarted = TRUE].registered = session[r].registered
  <1>1. session[r] \in Sessions
    BY DEF TypeOK, Registered
  <1>2. QED  BY <1>1 DEF Sessions

\* A session that is ended or marked brings nobody back.
LEMMA TouchedRemains ==
    ASSUME TypeOK, NEW r \in Role, Same(r) \/ Ended(r) \/ Marked(r)
    PROVE  Remains(r)
  <1>1. CASE Same(r)
    BY <1>1 DEF Same, Remains, Registered
  <1>2. CASE Ended(r)
    <2>1. session[r] \in Sessions /\ "terminal" \in Statuses
      BY <1>2 DEF Ended, TypeOK, Registered, Statuses
    <2>2. session'[r].status = "terminal"
      BY <1>2, <2>1, StatusOnly DEF Ended
    <2>3. QED  BY <2>2 DEF Remains
  <1>3. CASE Marked(r)
    <2>1. Registered(r) /\ session[r] \in Sessions
      BY <1>3 DEF Marked, TypeOK, Registered
    <2>2. session'[r].status = session[r].status
      BY <1>3, <2>1, RestartedOnly DEF Marked
    <2>3. QED  BY <1>3, <2>1, <2>2, RegisteredStays DEF Remains, Marked
  <1>4. QED  BY <1>1, <1>2, <1>3

\* A step that keeps cycle, epochs and workers, and does not go back to P1.
LEMMA WorkersRemain ==
    ASSUME WorkerInv, \A r \in Worker : Remains(r), cycle' = cycle,
           UNCHANGED <<epoch, reconciled>>, phase' \in P1Phases => phase \in P1Phases
    PROVE  WorkerInv'
  <1>1. SUFFICES ASSUME NEW r \in Worker, Registered(r)', session'[r].status = "active"
                 PROVE  /\ phase' \notin P1Phases
                        /\ session'[r].registered.cycle = cycle'
                        /\ session'[r].registered.epoch = epoch' \/ reconciled' < epoch'
    BY DEF WorkerInv, Registered
  <1>2. /\ Registered(r) /\ session[r].status = "active"
        /\ session'[r].registered = session[r].registered
    BY <1>1 DEF Remains
  <1>3. QED  BY <1>1, <1>2 DEF WorkerInv

\* A business transition keeps the workers of the cycle: one that begins a new
\* cycle is P1's, when there is none.
LEMMA BusinessWorkers ==
    ASSUME TypeOK, WorkerInv, Business
    PROVE  WorkerInv'
  <1>1. \A r \in Worker : Remains(r)
    BY BusinessFrame, TouchedRemains DEF Role, Subordinate
  <1>2. UNCHANGED <<epoch, reconciled>>
    BY BusinessFrame DEF control
  <1>3. CASE P1Restarted
    <2>1. phase \in P1Phases
      BY <1>3 DEF P1Restarted, Take, Transition, P1Phases
    <2>2. \A r \in Worker : ~(Registered(r)' /\ session'[r].status = "active")
      BY <1>1, <2>1 DEF WorkerInv, Remains
    <2>3. QED  BY <2>2 DEF WorkerInv, Registered
  <1>4. CASE ~P1Restarted
    <2>1. cycle' = cycle
      BY <1>4 DEF Business, StartP1, P1Ready, P1Approved, P1Committed, LaunchDev, LaunchReview,
          LaunchReceipt, ReopenReview, Launch, DevReady, ReopenDev, ReadyForMerge, TaskReopen,
          ReviewPass, ReceiptPass, ReceiptFail, ReviewRework, Verdict, Merge, Archive
    <2>2. phase' \in P1Phases => phase \in P1Phases
      BY <1>4 DEF Business, StartP1, P1Ready, P1Approved, P1Committed, LaunchDev, LaunchReview,
          LaunchReceipt, ReopenReview, Launch, DevReady, ReopenDev, ReadyForMerge, TaskReopen,
          ReviewPass, ReceiptPass, ReceiptFail, ReviewRework, Verdict, Merge, Archive, Take,
          Transition, P1Phases
    <2>3. QED  BY <1>1, <1>2, <2>1, <2>2, WorkersRemain
  <1>5. QED  BY <1>3, <1>4

\* A new packet or a reconciled epoch leaves no worker active; an epoch that is
\* only announced waits to be reconciled.
LEMMA ControlWorkers ==
    ASSUME TypeOK, WorkerInv, Control
    PROVE  WorkerInv'
  <1>0. Worker \subseteq Subordinate /\ Subordinate \subseteq Role
    BY DEF Role, Subordinate
  <1>1. CASE PacketUpdated \/ ControlReconciled
    <2>1. ASSUME NEW r \in Worker, Registered(r)', session'[r].status = "active" PROVE FALSE
      <3>1. Registered(r) /\ (Same(r) \/ Ended(r))
        BY <1>0, <2>1, ControlEffect, Touched
      <3>2. session[r] \in Sessions /\ "terminal" \in Statuses
        BY <1>0, <3>1 DEF TypeOK, Registered, Statuses
      <3>3. session'[r] # [session[r] EXCEPT !.status = "terminal"]
        BY <2>1, <3>2, StatusOnly
      <3>4. CASE PacketUpdated
        BY <1>0, <3>1, <3>3, <3>4 DEF PacketUpdated
      <3>5. CASE ControlReconciled
        BY <1>0, <2>1, <3>1, <3>3, <3>5 DEF ControlReconciled, RetiredFrom, Registered
      <3>6. QED  BY <1>1, <3>4, <3>5
    <2>2. QED  BY <2>1 DEF WorkerInv, Registered
  <1>2. CASE ~(PacketUpdated \/ ControlReconciled)
    <2>1. UNCHANGED <<work, people, reconciled>> /\ epoch' \in {epoch, epoch + 1}
      BY <1>2 DEF Control, AdvanceControlEpoch, AddHold, ResolveHold
    <2>2. reconciled \in Nat /\ epoch \in Nat /\ reconciled <= epoch
      BY TaskAssumption DEF TypeOK
    <2>3. reconciled < epoch \/ epoch' # epoch => reconciled' < epoch'
      BY <2>1, <2>2
    <2>4. QED  BY <2>1, <2>3 DEF WorkerInv, work, people, Registered
  <1>3. QED  BY <1>1, <1>2

\* Staff come and go without moving the task or its epochs.
LEMMA StaffingUnmoved ==
    ASSUME Staffing
    PROVE  UNCHANGED <<work, control>>
  BY DEF Staffing, Register, Heartbeat, LeaseExpires, RoleLost, RoleRecovered,
      RecoverExpiredForeman, RecoveryHandoffBound, RecoveryPromoted, RecoveryHandoffAbandoned

\* Staff: a worker that is registered is bound to the task as it stands.
LEMMA StaffingWorkers ==
    ASSUME TypeOK, Counted, WorkerInv, Staffing
    PROVE  WorkerInv'
  <1>0. /\ UNCHANGED <<phase, cycle, epoch, reconciled>>
        /\ Worker \subseteq Role /\ None \notin Sessions
    BY NoneAssumption, StaffingUnmoved DEF work, control, Role, Subordinate
  <1>1. ASSUME NEW r \in Role, Only(r, session'[r]), r \in Worker => Remains(r)
        PROVE  WorkerInv'
    <2>1. \A x \in Worker : Remains(x)
      BY <1>0, <1>1 DEF Only, Remains, Registered
    <2>2. QED  BY <1>0, <2>1, WorkersRemain
  <1>2. ASSUME NEW r \in Role, NEW status \in {"active", "systemError"}, Register(r, status)
        PROVE  WorkerInv'
    <2>1. Only(r, Fresh(r, status))
      BY <1>2, RegisterEffect
    <2>2. ASSUME NEW x \in Worker, Registered(x)', session'[x].status = "active"
          PROVE  /\ phase' \notin P1Phases
                 /\ session'[x].registered.cycle = cycle'
                 /\ session'[x].registered.epoch = epoch' \/ reconciled' < epoch'
      <3>1. CASE x = r
        <4>1. phase \notin P1Phases
          BY <1>2, <2>2, <3>1 DEF Register, Phases, P1Phases, Worker
        <4>2. session'[x].registered = [epoch |-> epoch, cycle |-> cycle, head |-> head]
          BY <2>1, <2>2, <3>1 DEF Only, Fresh, Binding
        <4>3. QED  BY <1>0, <4>1, <4>2
      <3>2. CASE x # r
        <4>1. session'[x] = session[x] /\ Registered(x)
          BY <1>0, <2>1, <2>2, <3>2 DEF Only, Registered
        <4>2. QED  BY <1>0, <2>2, <4>1 DEF WorkerInv
      <3>3. QED  BY <3>1, <3>2
    <2>3. QED  BY <2>2 DEF WorkerInv, Registered
  <1>3. ASSUME NEW r \in Role, Heartbeat(r) \/ LeaseExpires(r) PROVE WorkerInv'
    <2>1. Only(r, session'[r]) /\ Registered(r) /\ session[r] \in Sessions
      BY <1>3, FaultEffect DEF TypeOK, Registered
    <2>2. CASE Heartbeat(r)
      <3>1. session'[r].status = "systemError"
        BY <2>1, <2>2 DEF Heartbeat, TypeOK, Sessions
      <3>2. QED  BY <1>1, <2>1, <3>1 DEF Remains
    <2>3. CASE LeaseExpires(r)
      <3>1. session'[r] = [session[r] EXCEPT !.live = FALSE]
        BY <2>3 DEF LeaseExpires, TypeOK
      <3>2. session'[r].registered = session[r].registered /\ session'[r].status = session[r].status
        BY <2>1, <3>1, LiveOnly, RegisteredStays
      <3>3. QED  BY <1>1, <2>1, <3>2 DEF Remains
    <2>4. QED  BY <1>3, <2>2, <2>3
  <1>4. ASSUME NEW r \in Role, RoleLost(r) PROVE WorkerInv'
    BY <1>1, <1>4, RoleLostEffect DEF Remains
  <1>5. CASE RoleRecovered
    <2>1. LET r == recovery.role IN
          /\ r \in Role /\ Only(r, session'[r]) /\ Registered(r)
          /\ session'[r].status = session[r].status
      BY <1>5, RoleRecoveredEffect DEF Recoveries
    <2>2. LET r == recovery.role IN session'[r].registered = session[r].registered
      BY <1>5, <2>1 DEF RoleRecovered, TypeOK, Registered, Sessions
    <2>3. QED  BY <1>1, <2>1, <2>2 DEF Remains
  <1>6. CASE RecoverExpiredForeman
    <2>1. Only("FOREMAN", session'["FOREMAN"]) /\ "FOREMAN" \in Role \ Worker
      BY <1>6, ForemanEffect DEF Only, Role, Subordinate, Worker
    <2>2. QED  BY <1>1, <2>1
  <1>7. CASE RecoveryHandoffBound \/ RecoveryPromoted \/ RecoveryHandoffAbandoned
    <2>1. /\ Only("DEV", session'["DEV"]) /\ Registered("DEV") /\ "DEV" \in Role
          /\ session'["DEV"].status = session["DEV"].status
      BY <1>7, HandoffEffect DEF Role, Subordinate, Worker
    <2>2. session'["DEV"].registered = session["DEV"].registered
      BY <1>7, <2>1 DEF RecoveryHandoffBound, RecoveryPromoted, RecoveryHandoffAbandoned, TypeOK,
          Registered, Sessions
    <2>3. QED  BY <1>1, <2>1, <2>2 DEF Remains
  <1>8. QED  BY <1>2, <1>3, <1>4, <1>5, <1>6, <1>7 DEF Staffing

\* A recovery of the role is pending or parked.
Awaited(r) == Recovering(r) \/ \E i \in DOMAIN backlog : backlog[i].role = r

\* Before the first reconciliation no role is lost that nobody is to replace.
LostInv == reconciled = 0 => \A r \in Role : Registered(r) /\ session[r].status = "lost" => Awaited(r)

\* A step that reports no loss, and ends no recovery, but of roles it touches
\* itself.
LEMMA LostStays ==
    ASSUME LostInv, reconciled' = reconciled,
           \A r \in Role : Registered(r)' /\ session'[r].status = "lost" =>
               \/ Awaited(r)'
               \/ /\ Registered(r) /\ session[r].status = "lost"
                  /\ Awaited(r) => Awaited(r)'
    PROVE  LostInv'
  <1>1. SUFFICES ASSUME reconciled = 0, NEW r \in Role, Registered(r)', session'[r].status = "lost"
                 PROVE  Awaited(r)'
    BY DEF LostInv, Registered, Awaited, Recovering
  <1>2. QED  BY <1>1 DEF LostInv

\* Transitions are taken when no recovery is pending: nobody is lost then.
LEMMA BusinessLost ==
    ASSUME TypeOK, LostInv, Business
    PROVE  LostInv'
  <1>1. UNCHANGED <<recovery, backlog, reconciled>>
    BY BusinessFrame DEF control
  <1>2. \A r \in Role : Registered(r)' /\ session'[r].status = "lost" =>
                          Registered(r) /\ session[r].status = "lost"
    BY BusinessFrame, Touched
  <1>3. QED  BY <1>1, <1>2, LostStays DEF Awaited, Recovering

\* A new packet ends every subordinate, lost or not, and its FOREMAN is not lost.
LEMMA ControlLost ==
    ASSUME TypeOK, LostInv, Control
    PROVE  LostInv'
  <1>1. CASE PacketUpdated
    <2>1. ASSUME NEW r \in Role, Registered(r)', session'[r].status = "lost" PROVE FALSE
      <3>1. CASE r \in Subordinate
        <4>1. session'[r] = IF Registered(r) THEN [session[r] EXCEPT !.status = "terminal"]
                                             ELSE session[r]
          BY <1>1, <3>1 DEF PacketUpdated
        <4>2. Registered(r) => session[r] \in Sessions
          BY DEF TypeOK, Registered
        <4>3. "terminal" \in Statuses
          BY DEF Statuses
        <4>4. QED  BY <2>1, <4>1, <4>2, <4>3, StatusOnly DEF Registered
      <3>2. CASE r = "FOREMAN"
        BY <1>1, <2>1, <3>2 DEF PacketUpdated, Usable, Role, Subordinate, Worker
      <3>3. QED  BY <3>1, <3>2 DEF Role
    <2>2. QED  BY <2>1 DEF LostInv, Registered
  <1>2. CASE ControlReconciled
    <2>1. reconciled' # 0
      BY <1>2, TaskAssumption DEF ControlReconciled, ReconcileRequired, TypeOK
    <2>2. QED  BY <2>1 DEF LostInv
  <1>3. CASE ~(PacketUpdated \/ ControlReconciled)
    <2>1. UNCHANGED <<people, reconciled>>
      BY <1>3 DEF Control, AdvanceControlEpoch, AddHold, ResolveHold
    <2>2. QED  BY <2>1, LostStays DEF people, Registered, Awaited, Recovering
  <1>4. QED  BY <1>1, <1>2, <1>3

\* Staff: a loss opens a recovery, and a recovery that ends has found a successor
\* for its role, or is parked.
LEMMA StaffingLost ==
    ASSUME TypeOK, Counted, LostInv, Staffing
    PROVE  LostInv'
  <1>0. reconciled' = reconciled /\ None \notin Sessions
    BY NoneAssumption, StaffingUnmoved DEF control
  <1>1. ASSUME NEW r \in Role, Only(r, session'[r]),
               Registered(r)' /\ session'[r].status = "lost" =>
                   \/ Awaited(r)'
                   \/ Registered(r) /\ session[r].status = "lost" /\ (Awaited(r) => Awaited(r)'),
               \A x \in Role \ {r} : Awaited(x) => Awaited(x)'
        PROVE  LostInv'
    <2>1. \A x \in Role \ {r} : session'[x] = session[x] /\ (Registered(x)' => Registered(x))
      BY <1>1 DEF Only, Registered
    <2>2. QED  BY <1>0, <1>1, <2>1, LostStays
  <1>2. ASSUME NEW r \in Role, NEW status \in {"active", "systemError"}, Register(r, status)
        PROVE  LostInv'
    <2>1. /\ Only(r, Fresh(r, status)) /\ UNCHANGED backlog
          /\ recovery' = IF Recovering(r) THEN [recovery EXCEPT !.successor = Attempt(r)']
                                          ELSE recovery
      BY <1>2, RegisterEffect
    <2>2. session'[r].status # "lost" /\ Only(r, session'[r])
      BY <1>2, <2>1, FreshType DEF Only
    <2>3. \A x \in Role \ {r} : Awaited(x) => Awaited(x)'
      <3>1. CASE Recovering(r)
        BY <2>1, <3>1 DEF Awaited, Recovering
      <3>2. CASE ~Recovering(r)
        BY <2>1, <3>2 DEF Awaited, Recovering
      <3>3. QED  BY <3>1, <3>2
    <2>4. QED  BY <1>1, <2>2, <2>3
  <1>3. ASSUME NEW r \in Role, Heartbeat(r) \/ LeaseExpires(r) PROVE LostInv'
    <2>1. /\ Only(r, session'[r]) /\ session'[r].status # "lost"
          /\ UNCHANGED <<recovery, backlog>>
      BY <1>3, FaultEffect DEF Unfiled
    <2>2. QED  BY <1>1, <2>1 DEF Awaited, Recovering
  <1>4. ASSUME NEW r \in Role, RoleLost(r) PROVE LostInv'
    <2>1. /\ Only(r, session'[r]) /\ UNCHANGED backlog /\ recovery = None
          /\ recovery' \in Recoveries /\ recovery'.role = r
      BY <1>4, RoleLostEffect DEF Unfiled
    <2>2. Awaited(r)'
      BY <2>1, NoneAssumption DEF Awaited, Recovering
    <2>3. QED  BY <1>1, <2>1, <2>2 DEF Awaited, Recovering
  <1>5. CASE RoleRecovered
    <2> DEFINE r == recovery.role
    <2>1. /\ r \in Role /\ Only(r, session'[r]) /\ session'[r].status = session[r].status
          /\ \/ recovery' = None /\ UNCHANGED backlog
             \/ backlog # <<>> /\ recovery' = Head(backlog) /\ backlog' = Tail(backlog)
      BY <1>5, RoleRecoveredEffect DEF Recoveries
    <2>2. session[r].status # "lost"
      BY <1>5 DEF RoleRecovered, Usable
    <2>3. ASSUME NEW x \in Role \ {r}, Awaited(x) PROVE Awaited(x)'
      <3>1. PICK i \in DOMAIN backlog : backlog[i].role = x
        BY <2>3 DEF Awaited, Recovering
      <3>2. CASE UNCHANGED backlog
        BY <3>1, <3>2 DEF Awaited
      <3>3. CASE recovery' = Head(backlog) /\ backlog' = Tail(backlog)
        <4>1. backlog \in Seq(Recoveries) /\ i \in 1..Len(backlog)
          BY <3>1 DEF TypeOK
        <4>2. CASE i = 1
          <5>1. recovery' = backlog[1] /\ backlog[1] \in Recoveries
            BY <3>3, <4>1, <4>2
          <5>2. QED  BY <3>1, <4>2, <5>1, NoneAssumption DEF Awaited, Recovering
        <4>3. CASE i # 1
          <5>1. i - 1 \in DOMAIN backlog' /\ backlog'[i - 1] = backlog[i]
            BY <3>3, <4>1, <4>3
          <5>2. QED  BY <3>1, <5>1 DEF Awaited
        <4>4. QED  BY <4>2, <4>3
      <3>4. QED  BY <2>1, <3>2, <3>3
    <2>4. QED  BY <1>1, <2>1, <2>2, <2>3
  <1>6. CASE RecoverExpiredForeman
    <2>1. /\ Only("FOREMAN", Fresh("FOREMAN", "active")) /\ "FOREMAN" \in Role
          /\ recovery' = IF Recovering("CAPTAIN") THEN recovery ELSE None
          /\ backlog' = IF Parked THEN Append(backlog, recovery) ELSE backlog
      BY <1>6, ForemanEffect DEF Role
    <2>2. Only("FOREMAN", session'["FOREMAN"]) /\ session'["FOREMAN"].status # "lost"
      BY <2>1, FreshType DEF Only
    <2>3. ASSUME NEW x \in Role \ {"FOREMAN"}, Awaited(x) PROVE Awaited(x)'
      <3>1. backlog \in Seq(Recoveries)
        BY DEF TypeOK
      <3>2. CASE \E i \in DOMAIN backlog : backlog[i].role = x
        <4>1. PICK i \in DOMAIN backlog : backlog[i].role = x
          BY <3>2
        <4>2. i \in DOMAIN backlog' /\ backlog'[i] = backlog[i]
          <5>1. CASE Parked
            <6>1. recovery \in Recoveries
              BY <5>1 DEF Parked, TypeOK
            <6>2. QED  BY <2>1, <3>1, <5>1, <6>1
          <5>2. QED  BY <2>1, <5>1
        <4>3. QED  BY <4>1, <4>2 DEF Awaited
      <3>3. CASE Recovering(x)
        <4>1. CASE x = "CAPTAIN"
          BY <2>1, <3>3, <4>1 DEF Recovering, Awaited
        <4>2. CASE x # "CAPTAIN"
          <5>1. Parked /\ recovery \in Recoveries
            BY <2>3, <3>3, <4>2 DEF Recovering, Parked, Role, Subordinate, TypeOK
          <5>2. backlog' = Append(backlog, recovery)
            BY <2>1, <5>1
          <5>3. Len(backlog) + 1 \in DOMAIN backlog' /\ backlog'[Len(backlog) + 1] = recovery
            BY <3>1, <5>1, <5>2
          <5>4. QED  BY <3>3, <5>3 DEF Recovering, Awaited
        <4>3. QED  BY <4>1, <4>2
      <3>4. QED  BY <2>3, <3>2, <3>3 DEF Awaited
    <2>4. QED  BY <1>1, <2>1, <2>2, <2>3
  <1>7. CASE RecoveryHandoffBound \/ RecoveryPromoted \/ RecoveryHandoffAbandoned
    <2>1. /\ Only("DEV", session'["DEV"]) /\ Registered("DEV") /\ "DEV" \in Role
          /\ session'["DEV"].status = session["DEV"].status /\ UNCHANGED <<recovery, backlog>>
      BY <1>7, HandoffEffect DEF Role, Subordinate, Worker, Unfiled
    <2>2. QED  BY <1>1, <2>1 DEF Awaited, Recovering
  <1>8. QED  BY <1>2, <1>3, <1>4, <1>5, <1>6, <1>7 DEF Staffing

\* Both are inductive beside the types.
LEMMA StaffInvariance == Spec => [](WorkerInv /\ LostInv)
  <1>1. Init => WorkerInv /\ LostInv
    BY DEF Init, WorkerInv, LostInv, Registered, Role, Subordinate
  <1>2. CoreInv /\ WorkerInv /\ LostInv /\ [Next]_vars => WorkerInv' /\ LostInv'
    <2> SUFFICES ASSUME CoreInv, WorkerInv, LostInv, [Next]_vars PROVE WorkerInv' /\ LostInv'
      OBVIOUS
    <2>1. CASE Business
      BY <2>1, BusinessWorkers, BusinessLost DEF CoreInv
    <2>2. CASE Control
      BY <2>2, ControlWorkers, ControlLost DEF CoreInv
    <2>3. CASE Staffing
      BY <2>3, StaffingWorkers, StaffingLost DEF CoreInv
    <2>4. CASE UNCHANGED vars
      BY <2>4 DEF vars, work, control, people, WorkerInv, LostInv, Awaited, Recovering, Registered
    <2>5. QED  BY <2>1, <2>2, <2>3, <2>4 DEF Next
  <1>3. QED  BY CoreInvariance, <1>1, <1>2, PTL DEF Spec

\* Whoever may act in an active phase was registered for this very cycle, and for
\* this control epoch unless a newer one waits: no session of an abandoned cycle is
\* woken up when the task comes back to its phase.
THEOREM WorkersAreOfThisCycle == Spec => []WorkerOfThisCycle
  <1>1. WorkerInv => WorkerOfThisCycle
    <2> SUFFICES ASSUME WorkerInv, NEW r \in Worker, phase = OwnPhase(r), Usable(r)
                 PROVE  /\ session[r].registered.cycle = cycle
                        /\ session[r].registered.epoch = epoch \/ ReconcileRequired
      BY DEF WorkerOfThisCycle
    <2>1. phase \notin Merged
      BY DEF OwnPhase, Merged, Worker
    <2>2. QED  BY <2>1 DEF WorkerInv, Usable, ReconcileRequired
  <1>2. QED  BY StaffInvariance, <1>1, PTL

\* A lost role is never forgotten: until a control epoch is reconciled its recovery
\* is pending or parked, however the recoveries of the roles are interleaved, and
\* whether or not its loss was projected.
THEOREM LostAreAwaited == Spec => []LostIsPending
  <1>1. LostInv => LostIsPending
    BY DEF LostInv, LostIsPending, Orphaned, Awaited
  <1>2. QED  BY StaffInvariance, <1>1, PTL

=============================================================================
