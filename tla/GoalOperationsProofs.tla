------------------------ MODULE GoalOperationsProofs ------------------------
(***************************************************************************)
(* Theorems about GoalOperations, for any tasks, and any number of FOREMAN *)
(* identities, control epochs and crashes.                                 *)
(***************************************************************************)
EXTENDS GoalOperations, FiniteSetTheorems, WellFoundedInduction, TLAPS

-----------------------------------------------------------------------------
(* The invariant. *)

\* What an even root holds, in terms of its tasks and of how many identities
\* there have been: a generation is numbered by its identity, the newest one is
\* there, and every open task that is led is led by it.
LineageOf(ts, n) ==
    /\ \A t \in Task : ts[t].foreman # None =>
           /\ ts[t].foreman.attempt = ts[t].foreman.id /\ ts[t].foreman.id \in 1..n
           /\ ts[t].open => ts[t].foreman.id = n
    /\ n # 0 => \E t \in Task : ts[t].foreman # None /\ ts[t].foreman.id = n

EvenLineage == tx = None => LineageOf(tasks, mints)
BeginLineage == tx # None => LineageOf(tx.before, tx.id - 1)

HeldBefore == {t \in Task : tx.before[t].open /\ tx.before[t].foreman # None}

\* The tasks a transaction is about.
Aimed ==
    tx # None =>
        /\ tx.installed \subseteq tx.targets
        /\ Req.kind = "control" => tx.installed = {} /\ Req.task = None
        /\ Req.kind # "control" => Req.task \in tx.targets /\ tx.targets \subseteq Task
        /\ Req.kind # "recover" => tx.targets = {Req.task}

\* What a transaction has been begun for.
Planned ==
    /\ Aimed
    /\ tx # None =>
        /\ Req.kind = "bootstrap" => tx.id = 1
        /\ Req.kind = "join" => tx.before[Req.task].foreman = None
        /\ Req.kind \in {"join", "captain", "bootstrap", "succeed"} => tx.before[Req.task].open
        /\ Req.kind = "succeed" => HeldBefore = {Req.task}
        /\ Req.kind = "recover" =>
              /\ tx.id # 1 /\ tx.incumbent = tx.id - 1
              /\ \/ tx.targets = HeldBefore
                 \/ HeldBefore = {} /\ tx.targets = {Req.task} /\ tx.before[Req.task].open
        /\ Req.by = None <=> Req.kind \in Minting
        /\ \A t \in tx.usable : t \in Task /\ tx.before[t].foreman # None

\* Identities and epochs are accepted by the first event.
Counted ==
    tx # None =>
        /\ mints = IF Req.kind \in Minting /\ tx.installed # {} THEN tx.id ELSE tx.id - 1
        /\ Req.kind \in Minting => tx.id <= MaxMint
        /\ epoch = tx.epoch \/ (Req.kind = "control" /\ epoch = tx.epoch + 1)
        /\ Req.kind = "control" =>
              tx.epoch < MaxEpoch /\ (pc \in {"callback", "events"} => epoch = tx.epoch)

\* While the root is odd a task is where the transaction found it, but for the
\* clock, or where it leads.
Standing ==
    tx # None =>
        /\ \A t \in Task : tasks[t].open = tx.before[t].open
        /\ \A t \in Task : t \notin tx.installed \/ Req.kind = "captain" =>
               Bound(Foreman(t)) = Bound(tx.before[t].foreman)
        /\ \A t \in tx.installed : Req.kind # "captain" =>
               /\ Foreman(t) # None /\ Foreman(t).attempt = Foreman(t).id
               /\ Foreman(t).id = mints /\ mints # 0

\* What is there when a process is where it is.
Progress ==
    tx # None =>
        /\ Req.kind \in Prepared /\ tx.installed # {} => tx.intent
        /\ Req.kind \notin Prepared => ~tx.intent /\ tx.staging = "none"
        /\ Req.kind = "control" => pc \in {"idle", "callback", "events", "close"}
        /\ pc \in {"mark", "delete"} => Req.kind = "bootstrap"
        /\ tx.committed \/ pc \in {"commit", "mark", "delete"} => tx.installed = tx.targets
        /\ pc = "close" /\ Req.kind # "control" => tx.installed = tx.targets
        /\ pc \in {"callback", "stage", "seal", "promote"} => tx.installed = {}
        /\ pc \in {"stage", "seal", "promote"} => Req.kind \in Prepared
        /\ pc = "events" => tx.installed # tx.targets
        /\ pc = "events" /\ Req.kind \in Prepared => tx.intent

\* The bootstrap capability follows the first FOREMAN.
Consumed ==
    /\ (tx = None \/ Req.kind # "bootstrap" \/ tx.installed = {}) =>
          (bootstrap.file <=> Led = {}) /\ (bootstrap.consumed <=> Led # {})
    /\ tx # None /\ Req.kind = "bootstrap" /\ tx.installed # {} =>
          /\ pc \in {"idle", "mark", "delete", "close"}
          /\ ~bootstrap.file \/ pc = "delete" => bootstrap.consumed
          /\ pc = "close" => bootstrap.consumed /\ ~bootstrap.file

\* Who lets a request by.
Decided ==
    tx # None =>
        /\ Req.kind \in {"join", "control"} /\ pc = "events" /\ ~tx.pristine =>
               \E t \in Replicas : Foreman(t).id = Req.by
        /\ Req.kind = "captain"
              /\ (tx.staging # "none" \/ tx.intent \/ pc \in {"stage", "seal", "promote", "events"}) =>
               Foreman(Req.task) # None /\ Foreman(Req.task).id = Req.by

\* A FOREMAN that was lost is waited for by a recovery, in a task that is open.
LostIsPending ==
    \A t \in Task : tasks[t].open /\ Foreman(t) # None /\ Foreman(t).status = "lost" =>
        Recovering(t, "FOREMAN")

\* The pristine retry of a join lets a FOREMAN that has been succeeded lead one more
\* task. It takes three: one the predecessor has kept, one the successor leads and one
\* that nobody does.
SupersededJoins ==
    /\ pc = "events" /\ tx # None /\ Req.kind = "join"
    /\ \E t \in Led \ Replicas : Foreman(t).id = Req.by

\* Someone leads where a transaction has him succeeded, and where it has been.
SomeoneLed ==
    tx # None =>
        /\ Req.kind = "succeed" => Req.task \in Led
        /\ Req.kind = "recover" => Led # {}
        /\ Req.kind # "captain" => tx.installed \subseteq Led

\* What holds whoever joins.
Core == TypeOK /\ Aimed /\ SomeoneLed /\ Counted /\ Progress /\ Consumed /\ LostIsPending

\* What holds as long as nobody joins who has been succeeded.
IInv == Core /\ EvenLineage /\ BeginLineage /\ Planned /\ Standing /\ Decided

-----------------------------------------------------------------------------
(* Helpers of the model. *)

\* The first task of a batch is one of it.
LEMMA MinIsThere ==
    ASSUME NEW S \in SUBSET Nat, S # {}
    PROVE  Min(S) \in S
  <1>1. PICK x \in S : \A y \in S : ~(<<y, x>> \in OpToRel(<, Nat))
    BY NatLessThanWellFounded, WFMin
  <1>2. ASSUME NEW y \in S PROVE x <= y
    <2>1. ~(y < x)
      BY <1>1 DEF OpToRel
    <2>2. QED  BY <2>1
  <1>3. QED  BY <1>2 DEF Min

\* A task whose FOREMAN is lost is waited for by a recovery while it is open.
LostOk(y) ==
    y.open /\ y.foreman # None /\ y.foreman.status = "lost" =>
        y.recovery # None /\ y.recovery.role = "FOREMAN"

\* A task that goes on under the same FOREMAN.
Follows(x, y) ==
    /\ y \in Tasks /\ y.seen <= epoch /\ LostOk(y)
    /\ y.open => x.open
    /\ y.foreman = None <=> x.foreman = None
    /\ x.foreman # None =>
           y.foreman.id = x.foreman.id /\ y.foreman.attempt = x.foreman.attempt

\* The fields of a task.
LEMMA TaskType ==
    ASSUME TypeOK, NEW t \in Task
    PROVE  /\ tasks[t] \in Tasks /\ tasks[t].seen <= epoch /\ tasks[t].seen \in Nat
           /\ tasks[t].open \in BOOLEAN
           /\ Foreman(t) \in Foremen \cup {None} /\ Captain(t) \in Captains \cup {None}
           /\ tasks[t].recovery \in Recoveries \cup {None}
  BY DEF TypeOK, Tasks, Foreman, Captain

\* The new value of one field, and all others as they were.
LEMMA TaskFields ==
    ASSUME NEW x \in Tasks
    PROVE  /\ \A f \in Foremen \cup {None} :
                 /\ [x EXCEPT !.foreman = f] \in Tasks
                 /\ [x EXCEPT !.foreman = f].foreman = f
                 /\ [x EXCEPT !.foreman = f].open = x.open
                 /\ [x EXCEPT !.foreman = f].captain = x.captain
                 /\ [x EXCEPT !.foreman = f].recovery = x.recovery
                 /\ [x EXCEPT !.foreman = f].seen = x.seen
           /\ \A c \in Captains \cup {None} :
                 /\ [x EXCEPT !.captain = c] \in Tasks
                 /\ [x EXCEPT !.captain = c].foreman = x.foreman
                 /\ [x EXCEPT !.captain = c].open = x.open
                 /\ [x EXCEPT !.captain = c].captain = c
                 /\ [x EXCEPT !.captain = c].recovery = x.recovery
                 /\ [x EXCEPT !.captain = c].seen = x.seen
           /\ \A r \in Recoveries \cup {None} :
                 /\ [x EXCEPT !.recovery = r] \in Tasks
                 /\ [x EXCEPT !.recovery = r].foreman = x.foreman
                 /\ [x EXCEPT !.recovery = r].open = x.open
                 /\ [x EXCEPT !.recovery = r].captain = x.captain
                 /\ [x EXCEPT !.recovery = r].recovery = r
                 /\ [x EXCEPT !.recovery = r].seen = x.seen
  BY DEF Tasks

-----------------------------------------------------------------------------
(* A task's own events, and the clock. *)

Changed(t, y) == tasks' = [tasks EXCEPT ![t] = y]

\* A heartbeat, and a report of a system error.
LEMMA HeartbeatFollows ==
    ASSUME TypeOK, NEW t \in Task, Heartbeat(t) \/ ReportSystemError(t)
    PROVE  \E y : Follows(tasks[t], y) /\ Changed(t, y)
  <1>1. Foreman(t) \in Foremen /\ tasks[t] \in Tasks
    BY TaskType DEF Heartbeat, ReportSystemError, Leads, Led
  <1>2. PICK s \in {"active", "systemError"} :
           Changed(t, [tasks[t] EXCEPT !.foreman.status = s, !.foreman.live = TRUE])
    BY DEF Heartbeat, ReportSystemError, TaskEvent, Changed
  <1> DEFINE f == [[Foreman(t) EXCEPT !.status = s] EXCEPT !.live = TRUE]
             y == [tasks[t] EXCEPT !.foreman = f]
  <1>3. f \in Foremen /\ f.id = Foreman(t).id /\ f.attempt = Foreman(t).attempt /\ f.status = s
    BY <1>1 DEF Foremen
  <1>4. [tasks[t] EXCEPT !.foreman.status = s, !.foreman.live = TRUE] = y
    BY <1>1 DEF Tasks, Foreman
  <1> HIDE DEF f
  <1>5. /\ y \in Tasks /\ y.foreman = f /\ y.open = tasks[t].open /\ y.seen = tasks[t].seen
    BY <1>1, <1>3, TaskFields
  <1>6. y.foreman # None /\ Foreman(t) # None
    BY <1>1, <1>3, <1>5, NoneAssumption
  <1> HIDE DEF y
  <1>7. Follows(tasks[t], y)
    BY <1>3, <1>5, <1>6, TaskType DEF Follows, LostOk, Foreman
  <1>8. QED  BY <1>2, <1>4, <1>7

\* ROLE_RECOVERED.
LEMMA RecoveryFollows ==
    ASSUME TypeOK, LostIsPending, NEW t \in Task, RoleRecovered(t)
    PROVE  \E y : Follows(tasks[t], y) /\ Changed(t, y)
  <1> DEFINE y == [tasks[t] EXCEPT !.recovery = None]
  <1>1. /\ y \in Tasks /\ y.foreman = Foreman(t) /\ y.open = tasks[t].open
        /\ y.seen = tasks[t].seen
    BY TaskType, TaskFields DEF Foreman
  <1>2. Foreman(t).status = "active"
    BY DEF RoleRecovered, Usable, Leads
  <1>3. Changed(t, y)
    BY DEF RoleRecovered, TaskEvent, Changed
  <1> HIDE DEF y
  <1>4. Follows(tasks[t], y)
    BY <1>1, <1>2, TaskType DEF Follows, LostOk, Foreman
  <1>5. QED  BY <1>3, <1>4

\* ROLE_LOST, of either role.
LEMMA LossFollows ==
    ASSUME TypeOK, LostIsPending, NEW t \in Task, ForemanLost(t) \/ CaptainLost(t)
    PROVE  \E y : Follows(tasks[t], y) /\ Changed(t, y)
  <1>1. tasks[t] \in Tasks
    BY TaskType
  <1>2. ASSUME NEW r \in {"FOREMAN", "CAPTAIN"}
        PROVE  Lost(r) \in Recoveries /\ Lost(r) # None /\ Lost(r).role = r
    <2>1. Lost(r) \in Recoveries /\ Lost(r).role = r
      BY DEF Lost, Recoveries
    <2>2. QED  BY <2>1, NoneAssumption
  <1>3. CASE ForemanLost(t)
    <2>1. Foreman(t) \in Foremen
      BY <1>3, TaskType DEF ForemanLost, CaptainCanSubmitForemanRoleLost, Replicas, Led
    <2> DEFINE f == [Foreman(t) EXCEPT !.status = "lost"]
               y == [[tasks[t] EXCEPT !.foreman = f] EXCEPT !.recovery = Lost("FOREMAN")]
    <2>2. f \in Foremen /\ f.id = Foreman(t).id /\ f.attempt = Foreman(t).attempt
      BY <2>1 DEF Foremen
    <2>3. [tasks[t] EXCEPT !.foreman.status = "lost", !.recovery = Lost("FOREMAN")] = y
      BY <1>1, <2>1 DEF Tasks, Foreman
    <2> HIDE DEF f
    <2>4. /\ y \in Tasks /\ y.foreman = f /\ y.open = tasks[t].open /\ y.seen = tasks[t].seen
          /\ y.recovery = Lost("FOREMAN")
      <3> DEFINE z == [tasks[t] EXCEPT !.foreman = f]
      <3>1. /\ z \in Tasks /\ z.foreman = f /\ z.open = tasks[t].open /\ z.seen = tasks[t].seen
        BY <1>1, <2>2, TaskFields
      <3>2. y = [z EXCEPT !.recovery = Lost("FOREMAN")]
        OBVIOUS
      <3> HIDE DEF z, y
      <3>3. QED  BY <1>2, <3>1, <3>2, TaskFields
    <2>5. y.foreman # None /\ Foreman(t) # None
      BY <2>1, <2>2, <2>4, NoneAssumption
    <2>6. Changed(t, y)
      BY <1>3, <2>3 DEF ForemanLost, TaskEvent, Changed
    <2> HIDE DEF y
    <2>7. Follows(tasks[t], y)
      BY <1>2, <2>2, <2>4, <2>5, TaskType DEF Follows, LostOk, Foreman
    <2>8. QED  BY <2>6, <2>7
  <1>4. CASE CaptainLost(t)
    <2>1. Captain(t) \in Captains /\ Foreman(t).status = "active"
      BY <1>4, TaskType DEF CaptainLost, Leads
    <2> DEFINE c == [Captain(t) EXCEPT !.status = "lost"]
               y == [[tasks[t] EXCEPT !.captain = c] EXCEPT !.recovery = Lost("CAPTAIN")]
    <2>2. c \in Captains
      BY <2>1 DEF Captains
    <2>3. [tasks[t] EXCEPT !.captain.status = "lost", !.recovery = Lost("CAPTAIN")] = y
      BY <1>1, <2>1 DEF Tasks, Captain
    <2> HIDE DEF c
    <2>4. /\ y \in Tasks /\ y.foreman = Foreman(t) /\ y.open = tasks[t].open
          /\ y.seen = tasks[t].seen
      <3> DEFINE z == [tasks[t] EXCEPT !.captain = c]
      <3>1. /\ z \in Tasks /\ z.foreman = Foreman(t) /\ z.open = tasks[t].open
            /\ z.seen = tasks[t].seen
        BY <1>1, <2>2, TaskFields DEF Foreman
      <3>2. y = [z EXCEPT !.recovery = Lost("CAPTAIN")]
        OBVIOUS
      <3> HIDE DEF z, y
      <3>3. QED  BY <1>2, <3>1, <3>2, TaskFields
    <2>5. Changed(t, y)
      BY <1>4, <2>3 DEF CaptainLost, TaskEvent, Changed
    <2> HIDE DEF y
    <2>6. Follows(tasks[t], y)
      BY <2>1, <2>4, TaskType DEF Follows, LostOk, Foreman
    <2>7. QED  BY <2>5, <2>6
  <1>5. QED  BY <1>3, <1>4

\* CONTROL_RECONCILED and ARCHIVED.
LEMMA ReconcileFollows ==
    ASSUME TypeOK, LostIsPending, NEW t \in Task, ControlReconciled(t) \/ Archive(t)
    PROVE  \E y : Follows(tasks[t], y) /\ Changed(t, y)
  <1> DEFINE c == IF Captain(t) # None /\ Captain(t).status = "active"
                  THEN [Captain(t) EXCEPT !.status = "terminal"] ELSE Captain(t)
  <1>1. c \in Captains \cup {None}
    BY TaskType DEF Captains
  <1>2. Foreman(t).status = "active"
    BY DEF ControlReconciled, Archive, Leads
  <1>3. tasks[t] \in Tasks /\ epoch \in Nat
    BY TaskType DEF TypeOK
  <1>4. CASE ControlReconciled(t)
    <2> DEFINE y == [tasks[t] EXCEPT !.seen = epoch, !.recovery = None, !.captain = c]
    <2>1. Changed(t, y)
      BY <1>3, <1>4 DEF ControlReconciled, TaskEvent, Changed, Captain, Tasks
    <2> HIDE DEF c
    <2>2. /\ y \in Tasks /\ y.foreman = Foreman(t) /\ y.open = tasks[t].open /\ y.seen = epoch
      BY <1>1, <1>3 DEF Foreman, Tasks
    <2> HIDE DEF y
    <2>3. Follows(tasks[t], y)
      BY <1>2, <1>3, <2>2, TaskType DEF Follows, LostOk, Foreman
    <2>4. QED  BY <2>1, <2>3
  <1>5. CASE Archive(t)
    <2> DEFINE y == [tasks[t] EXCEPT !.open = FALSE, !.captain = c]
    <2>1. Changed(t, y)
      BY <1>3, <1>5 DEF Archive, TaskEvent, Changed, Captain, Tasks
    <2> HIDE DEF c
    <2>2. /\ y \in Tasks /\ y.foreman = Foreman(t) /\ ~y.open /\ y.seen = tasks[t].seen
      BY <1>1, <1>3 DEF Foreman, Tasks
    <2> HIDE DEF y
    <2>3. Follows(tasks[t], y)
      BY <1>2, <2>2, TaskType DEF Follows, LostOk, Foreman
    <2>4. QED  BY <2>1, <2>3
  <1>6. QED  BY <1>4, <1>5

\* An event of a task: at an even root, and under the same FOREMAN.
LEMMA OwnEffect ==
    ASSUME TypeOK, LostIsPending, NEW t \in Task, Own(t)
    PROVE  /\ Even /\ UNCHANGED <<epoch, bootstrap, tx, pc, mints>> /\ faults' \in 0..MaxFaults
           /\ \E y : Follows(tasks[t], y) /\ Changed(t, y)
  <1>1. Even /\ UNCHANGED <<epoch, bootstrap, tx, pc, mints>>
    BY DEF Own, Heartbeat, ReportSystemError, ForemanLost, CaptainLost, RoleRecovered,
        ControlReconciled, Archive, TaskEvent
  <1>2. faults' \in 0..MaxFaults
    BY GoalAssumption DEF Own, Heartbeat, ReportSystemError, ForemanLost, CaptainLost,
        RoleRecovered, ControlReconciled, Archive, TypeOK
  <1>3. QED
    BY <1>1, <1>2, HeartbeatFollows, RecoveryFollows, LossFollows, ReconcileFollows DEF Own

\* A lease that runs out.
LEMMA ClockEffect ==
    ASSUME TypeOK, LostIsPending, NEW t \in Task, LeaseExpires(t) \/ CaptainExpires(t)
    PROVE  /\ UNCHANGED <<epoch, bootstrap, tx, pc, mints, faults>>
           /\ \E y : /\ Follows(tasks[t], y) /\ Changed(t, y) /\ y.open = tasks[t].open
                     /\ Bound(y.foreman) = Bound(Foreman(t))
  <1>1. UNCHANGED <<epoch, bootstrap, tx, pc, mints, faults>>
    BY DEF LeaseExpires, CaptainExpires
  <1>2. tasks[t] \in Tasks
    BY TaskType
  <1>3. CASE LeaseExpires(t)
    <2>1. Foreman(t) \in Foremen
      BY <1>3, TaskType DEF LeaseExpires, Led
    <2> DEFINE f == [Foreman(t) EXCEPT !.live = FALSE]
               y == [tasks[t] EXCEPT !.foreman = f]
    <2>2. /\ f \in Foremen /\ f.id = Foreman(t).id /\ f.attempt = Foreman(t).attempt
          /\ f.status = Foreman(t).status
          /\ [f EXCEPT !.live = TRUE] = [Foreman(t) EXCEPT !.live = TRUE]
      BY <2>1 DEF Foremen
    <2>3. [tasks EXCEPT ![t].foreman.live = FALSE] = [tasks EXCEPT ![t] = y]
      BY <1>2, <2>1 DEF Tasks, Foreman, TypeOK
    <2> HIDE DEF f
    <2>4. /\ y \in Tasks /\ y.foreman = f /\ y.open = tasks[t].open /\ y.seen = tasks[t].seen
          /\ y.recovery = tasks[t].recovery
      BY <1>2, <2>2, TaskFields
    <2>5. y.foreman # None /\ Foreman(t) # None
      BY <2>1, <2>2, <2>4, NoneAssumption
    <2>6. Changed(t, y)
      BY <1>3, <2>3 DEF LeaseExpires, Changed
    <2> HIDE DEF y
    <2>7. Follows(tasks[t], y)
      BY <2>2, <2>4, <2>5, TaskType DEF Follows, LostOk, Foreman, LostIsPending, Recovering
    <2>8. Bound(y.foreman) = Bound(Foreman(t))
      BY <2>2, <2>4, <2>5 DEF Bound
    <2>9. QED  BY <1>1, <2>4, <2>6, <2>7, <2>8
  <1>4. CASE CaptainExpires(t)
    <2>1. Captain(t) \in Captains
      BY <1>4, TaskType DEF CaptainExpires, Usable
    <2> DEFINE c == [Captain(t) EXCEPT !.live = FALSE]
               y == [tasks[t] EXCEPT !.captain = c]
    <2>2. c \in Captains
      BY <2>1 DEF Captains
    <2>3. [tasks EXCEPT ![t].captain.live = FALSE] = [tasks EXCEPT ![t] = y]
      BY <1>2, <2>1 DEF Tasks, Captain, TypeOK
    <2> HIDE DEF c
    <2>4. /\ y \in Tasks /\ y.foreman = Foreman(t) /\ y.open = tasks[t].open
          /\ y.seen = tasks[t].seen /\ y.recovery = tasks[t].recovery
      BY <1>2, <2>2, TaskFields DEF Foreman
    <2>5. Changed(t, y)
      BY <1>4, <2>3 DEF CaptainExpires, Changed
    <2> HIDE DEF y
    <2>6. Follows(tasks[t], y)
      BY <2>4, TaskType DEF Follows, LostOk, Foreman, LostIsPending, Recovering
    <2>7. QED  BY <1>1, <2>4, <2>5, <2>6
  <1>5. QED  BY <1>3, <1>4

-----------------------------------------------------------------------------
(* What the invariant says of the generations. *)

\* Sessions that are the same but for the clock.
LEMMA BoundSame ==
    ASSUME NEW f \in Foremen \cup {None}, NEW g \in Foremen \cup {None}, Bound(f) = Bound(g)
    PROVE  /\ f = None <=> g = None
           /\ f # None => f.id = g.id /\ f.attempt = g.attempt /\ f.status = g.status
  <1>1. \A h \in Foremen : [h EXCEPT !.live = TRUE] \in Foremen
    BY DEF Foremen
  <1>2. \A h \in Foremen : [h EXCEPT !.live = TRUE] # None
    BY <1>1, NoneAssumption
  <1>3. f = None <=> g = None
    BY <1>2 DEF Bound
  <1>4. \A h \in Foremen : /\ [h EXCEPT !.live = TRUE].id = h.id
                           /\ [h EXCEPT !.live = TRUE].attempt = h.attempt
                           /\ [h EXCEPT !.live = TRUE].status = h.status
    BY DEF Foremen
  <1>5. f # None =>
            [f EXCEPT !.live = TRUE] = [g EXCEPT !.live = TRUE] /\ f \in Foremen /\ g \in Foremen
    BY <1>3 DEF Bound
  <1>6. QED  BY <1>3, <1>4, <1>5

\* The fields of a transaction.
LEMMA TxType ==
    ASSUME TypeOK, tx # None
    PROVE  /\ tx \in Transactions /\ Req \in Requests /\ tx.id \in Nat /\ tx.incumbent \in Nat
           /\ tx.targets \subseteq Task \cup {None} /\ tx.installed \subseteq Task
           /\ tx.before \in [Task -> Tasks] /\ mints \in Nat
           /\ Req.kind \in Prepared \cup {"join", "control"}
           /\ Req.task \in Task \cup {None} /\ tx.epoch \in Nat /\ epoch \in Nat
           /\ \A t \in Task : tx.before[t].foreman \in Foremen \cup {None}
  <1>1. tx \in Transactions
    BY DEF TypeOK
  <1>2. /\ Req \in Requests /\ tx.id \in Nat /\ tx.incumbent \in Nat
        /\ tx.targets \subseteq Task \cup {None} /\ tx.installed \subseteq Task
        /\ tx.before \in [Task -> Tasks] /\ tx.epoch \in Nat
    BY <1>1 DEF Transactions, Req
  <1>3. Req.kind \in Prepared \cup {"join", "control"} /\ Req.task \in Task \cup {None}
    BY <1>2 DEF Requests
  <1>4. \A t \in Task : tx.before[t].foreman \in Foremen \cup {None}
    BY <1>2 DEF Tasks
  <1>5. mints \in Nat /\ epoch \in Nat
    BY GoalAssumption DEF TypeOK
  <1>6. QED  BY <1>1, <1>2, <1>3, <1>4, <1>5

\* A task that no event of the transaction has reached.
LEMMA Untouched ==
    ASSUME TypeOK, BeginLineage, Standing, tx # None, NEW t \in Task,
           t \notin tx.installed \/ Req.kind = "captain", Foreman(t) # None
    PROVE  /\ tx.before[t].foreman # None /\ tx.before[t].foreman.id = Foreman(t).id
           /\ Foreman(t).attempt = Foreman(t).id /\ Foreman(t).id \in 1..(tx.id - 1)
           /\ tasks[t].open => Foreman(t).id = tx.id - 1
  <1>1. Bound(Foreman(t)) = Bound(tx.before[t].foreman) /\ tasks[t].open = tx.before[t].open
    BY DEF Standing
  <1>2. /\ tx.before[t].foreman # None /\ tx.before[t].foreman.id = Foreman(t).id
        /\ tx.before[t].foreman.attempt = Foreman(t).attempt
    BY <1>1, TaskType, TxType, BoundSame
  <1>3. QED  BY <1>1, <1>2, TaskType DEF BeginLineage, LineageOf

\* The newest generation, of those that a transaction has not reached.
LEMMA NewestUntouched ==
    ASSUME TypeOK, BeginLineage, Planned, Standing, tx # None, tx.id # 1,
           tx.installed = {} \/ Req.kind \in {"captain", "join"}
    PROVE  \E t \in Task : Foreman(t) # None /\ Foreman(t).id = tx.id - 1
  <1>1. tx.id - 1 # 0
    BY TxType
  <1>2. PICK t \in Task : tx.before[t].foreman # None /\ tx.before[t].foreman.id = tx.id - 1
    BY <1>1 DEF BeginLineage, LineageOf
  <1>3. t \notin tx.installed \/ Req.kind = "captain"
    BY <1>2 DEF Planned, Aimed
  <1>4. Bound(Foreman(t)) = Bound(tx.before[t].foreman)
    BY <1>3 DEF Standing
  <1>5. QED  BY <1>2, <1>4, TaskType, TxType, BoundSame

\* At any time the generations are numbered by their identities, and the
\* newest of them is there.
LEMMA Numbered ==
    ASSUME TypeOK, EvenLineage, BeginLineage, Planned, Counted, Standing
    PROVE  /\ \A t \in Led : Foreman(t).attempt = Foreman(t).id /\ Foreman(t).id \in 1..mints
           /\ mints # 0 => \E t \in Led : Foreman(t).id = mints
  <1>1. CASE tx = None
    BY <1>1 DEF EvenLineage, LineageOf, Led, Foreman
  <1>2. CASE tx # None
    <2>1. tx.id \in Nat /\ mints \in Nat /\ tx.installed \subseteq Task
      BY <1>2, TxType
    <2>2. mints = tx.id - 1 \/ mints = tx.id
      BY <1>2 DEF Counted
    <2>3. ASSUME NEW t \in Led
          PROVE  Foreman(t).attempt = Foreman(t).id /\ Foreman(t).id \in 1..mints
      <3>1. t \in Task /\ Foreman(t) # None
        BY DEF Led
      <3>2. CASE t \notin tx.installed \/ Req.kind = "captain"
        <4>1. Foreman(t).attempt = Foreman(t).id /\ Foreman(t).id \in 1..(tx.id - 1)
          BY <1>2, <3>1, <3>2, Untouched
        <4>2. QED  BY <2>1, <2>2, <4>1
      <3>3. CASE t \in tx.installed /\ Req.kind # "captain"
        BY <1>2, <2>1, <3>3 DEF Standing
      <3>4. QED  BY <3>2, <3>3
    <2>4. ASSUME mints # 0 PROVE \E t \in Led : Foreman(t).id = mints
      <3>1. CASE tx.installed = {} \/ Req.kind \in {"captain", "join"}
        <4>1. mints = tx.id - 1
          BY <1>2, <3>1 DEF Counted, Minting
        <4>2. \E t \in Task : Foreman(t) # None /\ Foreman(t).id = tx.id - 1
          BY <1>2, <2>1, <2>4, <3>1, <4>1, NewestUntouched
        <4>3. QED  BY <4>1, <4>2 DEF Led
      <3>2. CASE tx.installed # {} /\ Req.kind \notin {"captain", "join"}
        <4>1. PICK t \in tx.installed : TRUE
          BY <3>2
        <4>2. Foreman(t) # None /\ Foreman(t).id = mints /\ t \in Task
          BY <1>2, <2>1, <3>2, <4>1 DEF Standing
        <4>3. QED  BY <4>2 DEF Led
      <3>3. QED  BY <3>1, <3>2
    <2>5. QED  BY <2>3, <2>4
  <1>3. QED  BY <1>1, <1>2

Lineage == EvenLineage /\ BeginLineage /\ Planned /\ Counted /\ Standing

\* The sessions of the highest attempt are those of the newest identity.
LEMMA ReplicasAre ==
    ASSUME TypeOK, Lineage
    PROVE  /\ Replicas = {t \in Led : Foreman(t).id = mints}
           /\ Led # {} <=> Replicas # {}
           /\ Led # {} <=> mints # 0
           /\ Coherent
  <1>1. /\ \A t \in Led : Foreman(t).attempt = Foreman(t).id /\ Foreman(t).id \in 1..mints
        /\ mints # 0 => \E t \in Led : Foreman(t).id = mints
    BY Numbered DEF Lineage
  <1>2. mints \in Nat
    BY GoalAssumption DEF TypeOK
  <1>3. ASSUME NEW t \in Led PROVE t \in Replicas <=> Foreman(t).id = mints
    BY <1>1, <1>2 DEF Replicas
  <1>4. Replicas = {t \in Led : Foreman(t).id = mints}
    BY <1>3 DEF Replicas
  <1>5. Led # {} <=> mints # 0
    BY <1>1, <1>2
  <1>6. QED  BY <1>1, <1>4, <1>5 DEF Coherent

\* With none or all of its events a transaction may end.
LEMMA Lands ==
    ASSUME TypeOK, Lineage, tx # None, tx.installed = {} \/ tx.installed = tx.targets
    PROVE  LineageOf(tasks, mints)
  <1>1. /\ tx.id \in Nat /\ mints \in Nat /\ tx.installed \subseteq Task
        /\ Req.kind \in Prepared \cup {"join", "control"}
    BY TxType
  <1>2. /\ \A t \in Led : Foreman(t).attempt = Foreman(t).id /\ Foreman(t).id \in 1..mints
        /\ mints # 0 => \E t \in Led : Foreman(t).id = mints
    BY Numbered DEF Lineage
  <1>3. ASSUME NEW t \in Task, tasks[t].open, Foreman(t) # None PROVE Foreman(t).id = mints
    <2>1. CASE t \in tx.installed /\ Req.kind # "captain"
      BY <2>1 DEF Lineage, Standing
    <2>2. CASE t \notin tx.installed \/ Req.kind = "captain"
      <3>1. Foreman(t).id = tx.id - 1 /\ tx.before[t].foreman # None /\ tx.id - 1 # 0
        BY <1>1, <1>3, <2>2, Untouched DEF Lineage
      <3>2. tx.before[t].open
        BY <1>3 DEF Lineage, Standing
      <3>3. mints = tx.id - 1
        <4>1. SUFFICES ASSUME Req.kind \in Minting, tx.installed # {} PROVE FALSE
          BY DEF Lineage, Counted
        <4>2. t \in HeldBefore /\ t \notin tx.targets
          BY <2>2, <3>1, <3>2, <4>1 DEF HeldBefore, Minting
        <4>3. QED  BY <1>1, <3>1, <4>1, <4>2 DEF Lineage, Planned, Aimed, Minting
      <3>4. QED  BY <3>1, <3>3
    <2>3. QED  BY <2>1, <2>2
  <1>4. QED  BY <1>2, <1>3 DEF LineageOf, Led, Foreman

-----------------------------------------------------------------------------
(* What the steps of a transaction leave. *)

\* What it was begun with stays.
Same ==
    /\ tx # None /\ tx' \in Transactions /\ tx' # None
    /\ tx'.req = tx.req /\ tx'.id = tx.id /\ tx'.targets = tx.targets
    /\ tx'.incumbent = tx.incumbent /\ tx'.before = tx.before /\ tx'.epoch = tx.epoch
    /\ tx'.usable = tx.usable

\* A step that only takes the transaction further.
Furthers ==
    /\ Same /\ tx'.installed = tx.installed
    /\ UNCHANGED <<tasks, epoch, bootstrap, mints>>

Sealing == Stage \/ Seal \/ Promote

\* What the preview that passes leaves.
LEMMA AdmitEffect ==
    ASSUME TypeOK, Admit
    PROVE  /\ Furthers /\ UNCHANGED faults /\ pc = "callback" /\ Accepts
           /\ tx'.committed = tx.committed /\ tx'.intent = tx.intent
           /\ tx'.staging = "none" /\ tx'.pristine = tx.pristine
           /\ pc' = IF Req.kind \in Prepared THEN "stage" ELSE "events"
  <1>1. tx \in Transactions /\ tx # None
    BY DEF Admit, TypeOK
  <1>2. Observes \in BOOLEAN
    BY GoalAssumption DEF Observes
  <1> DEFINE y == [tx EXCEPT !.staging = "none", !.evidence = Observes]
  <1>3. /\ y \in Transactions /\ y.installed = tx.installed /\ y.committed = tx.committed
        /\ y.intent = tx.intent /\ y.staging = "none" /\ y.pristine = tx.pristine
        /\ y.req = tx.req /\ y.id = tx.id /\ y.targets = tx.targets
        /\ y.incumbent = tx.incumbent /\ y.before = tx.before /\ y.epoch = tx.epoch
        /\ y.usable = tx.usable
    BY <1>1, <1>2 DEF Transactions
  <1>4. tx' = y
    BY DEF Admit
  <1> HIDE DEF y
  <1>5. QED  BY <1>1, <1>3, <1>4, NoneAssumption DEF Admit, Furthers, Same

\* What the three steps to a sealed intent leave.
LEMMA SealingEffect ==
    ASSUME TypeOK, Sealing
    PROVE  /\ Furthers /\ UNCHANGED faults
           /\ tx'.committed = tx.committed /\ tx'.pristine = tx.pristine
           /\ Stage \/ Seal => tx'.intent = tx.intent
           /\ Promote => tx'.intent
           /\ \/ pc = "stage" /\ pc' = "seal" /\ ~Promote
              \/ pc = "seal" /\ pc' = "promote" /\ ~Promote
              \/ pc = "promote" /\ pc' = "events" /\ Promote
  <1>1. tx \in Transactions /\ tx # None
    BY DEF Sealing, Stage, Seal, Promote, TypeOK
  <1>2. \A s \in {"unsealed", "sealed"} :
           LET y == [tx EXCEPT !.staging = s]
           IN  /\ y \in Transactions /\ y.installed = tx.installed /\ y.committed = tx.committed
               /\ y.intent = tx.intent /\ y.pristine = tx.pristine
               /\ y.req = tx.req /\ y.id = tx.id /\ y.targets = tx.targets
               /\ y.incumbent = tx.incumbent /\ y.before = tx.before /\ y.epoch = tx.epoch
               /\ y.usable = tx.usable
    BY <1>1 DEF Transactions
  <1>3. LET y == [tx EXCEPT !.staging = "none", !.intent = TRUE]
        IN  /\ y \in Transactions /\ y.installed = tx.installed /\ y.committed = tx.committed
            /\ y.intent /\ y.pristine = tx.pristine
            /\ y.req = tx.req /\ y.id = tx.id /\ y.targets = tx.targets
            /\ y.incumbent = tx.incumbent /\ y.before = tx.before /\ y.epoch = tx.epoch
            /\ y.usable = tx.usable
    BY <1>1 DEF Transactions
  <1>4. CASE Promote
    BY <1>1, <1>3, <1>4, NoneAssumption DEF Promote, Stage, Seal, Furthers, Same
  <1>5. CASE Stage
    BY <1>1, <1>2, <1>5, NoneAssumption DEF Promote, Stage, Seal, Furthers, Same
  <1>6. CASE Seal
    BY <1>1, <1>2, <1>6, NoneAssumption DEF Promote, Stage, Seal, Furthers, Same
  <1>7. QED  BY <1>4, <1>5, <1>6 DEF Sealing

\* What commit.json leaves.
LEMMA CommitEffect ==
    ASSUME TypeOK, CommitBatch
    PROVE  /\ Furthers /\ UNCHANGED faults /\ pc = "commit" /\ pc' = "close"
           /\ tx'.intent = tx.intent /\ tx'.staging = tx.staging /\ tx'.pristine = tx.pristine
  <1>1. tx \in Transactions /\ tx # None
    BY DEF CommitBatch, TypeOK
  <1> DEFINE y == [tx EXCEPT !.committed = TRUE]
  <1>2. /\ y \in Transactions /\ y.installed = tx.installed
        /\ y.intent = tx.intent /\ y.staging = tx.staging /\ y.pristine = tx.pristine
        /\ y.req = tx.req /\ y.id = tx.id /\ y.targets = tx.targets
        /\ y.incumbent = tx.incumbent /\ y.before = tx.before /\ y.epoch = tx.epoch
        /\ y.usable = tx.usable
    BY <1>1 DEF Transactions
  <1>3. tx' = y
    BY DEF CommitBatch
  <1> HIDE DEF y
  <1>4. QED  BY <1>1, <1>2, <1>3, NoneAssumption DEF CommitBatch, Furthers, Same

\* What a retry leaves before it goes on.
LEMMA RetryEffect ==
    ASSUME TypeOK, Retry
    PROVE  /\ Furthers /\ UNCHANGED faults /\ pc = "idle" /\ pc' = ResumeAt
           /\ tx'.committed = tx.committed /\ tx'.intent = tx.intent
           /\ tx'.staging = tx.staging /\ (Witnessed \/ Pristine)
  <1>1. tx \in Transactions /\ tx # None
    BY DEF Retry, TypeOK
  <1>2. \A b \in BOOLEAN :
           LET y == [tx EXCEPT !.pristine = b]
           IN  /\ y \in Transactions /\ y.installed = tx.installed /\ y.committed = tx.committed
               /\ y.intent = tx.intent /\ y.staging = tx.staging
               /\ y.req = tx.req /\ y.id = tx.id /\ y.targets = tx.targets
               /\ y.incumbent = tx.incumbent /\ y.before = tx.before /\ y.epoch = tx.epoch
               /\ y.usable = tx.usable
    BY <1>1 DEF Transactions
  <1>3. PICK b \in BOOLEAN : tx' = [tx EXCEPT !.pristine = b]
    BY DEF Retry
  <1>4. QED  BY <1>1, <1>2, <1>3, NoneAssumption DEF Retry, Furthers, Same

\* A refusal that leaves something behind.
LEMMA RefuseEffect ==
    ASSUME TypeOK, Refuse
    PROVE  /\ pc = "callback" /\ pc' = "idle" /\ UNCHANGED <<tasks, epoch, bootstrap, mints, faults>>
           /\ tx # None
           /\ tx' # None => /\ Furthers /\ tx'.committed = tx.committed /\ tx'.intent = tx.intent
                            /\ tx'.staging = tx.staging /\ tx'.pristine = tx.pristine
  <1>1. tx \in Transactions /\ tx # None
    BY DEF Refuse, TypeOK
  <1>2. tx.evidence \in BOOLEAN
    BY <1>1 DEF Transactions
  <1>3. \A b \in BOOLEAN :
           LET y == [tx EXCEPT !.evidence = b]
           IN  /\ y \in Transactions /\ y.installed = tx.installed /\ y.committed = tx.committed
               /\ y.intent = tx.intent /\ y.staging = tx.staging /\ y.pristine = tx.pristine
               /\ y.req = tx.req /\ y.id = tx.id /\ y.targets = tx.targets
               /\ y.incumbent = tx.incumbent /\ y.before = tx.before /\ y.epoch = tx.epoch
               /\ y.usable = tx.usable
    BY <1>1 DEF Transactions
  <1>4. tx' = None \/ \E b \in BOOLEAN : tx' = [tx EXCEPT !.evidence = b]
    BY <1>2, GoalAssumption DEF Refuse
  <1>5. QED  BY <1>1, <1>3, <1>4, NoneAssumption DEF Refuse, Furthers, Same

\* How a transaction begins.
LEMMA BeginEffect ==
    ASSUME TypeOK, NEW r \in Request, Begin(r)
    PROVE  /\ Even /\ UNCHANGED <<tasks, epoch, bootstrap, mints, faults>> /\ pc' = "callback"
           /\ r \in Requests /\ tx' \in Transactions /\ tx' # None /\ tx'.req = r /\ tx'.id = mints + 1
           /\ tx'.targets = IF r.kind = "recover" THEN Targets(r.task) ELSE {r.task}
           /\ tx'.incumbent = IF r.kind = "recover" THEN Incumbent ELSE 0
           /\ tx'.before = tasks /\ tx'.epoch = epoch /\ tx'.usable = UsableNow
           /\ tx'.staging = "none" /\ ~tx'.intent /\ ~tx'.committed /\ ~tx'.pristine /\ tx'.installed = {}
           /\ Admissible(r) /\ (r.kind \in Minting => mints < MaxMint)
           /\ r.kind = "control" <=> r.task = None
           /\ r.by = None <=> r.kind \in Minting
  <1>1. Identities \subseteq Nat
    BY TaskType DEF Identities, Led, Foremen
  <1>2. /\ r \in Requests
        /\ r.kind = "control" <=> r.task = None
        /\ r.by = None <=> r.kind \in Minting
    BY <1>1, GoalAssumption, NoneAssumption DEF Request, Requests, Prepared, Minting
  <1>3. Admissible(r) /\ Even /\ (r.kind \in Minting => mints < MaxMint)
    BY DEF Begin
  <1>4. r.kind = "recover" => Incumbent \in Nat
    <2>1. SUFFICES ASSUME r.kind = "recover" PROVE Sources # {}
      BY TaskType DEF Incumbent, Sources, Replicas, Led, Foremen
    <2>2. QED  BY <1>3, <2>1 DEF Admissible, AdmissibleRecovery, RecoveryScope
  <1> DEFINE ts == IF r.kind = "recover" THEN Targets(r.task) ELSE {r.task}
             inc == IF r.kind = "recover" THEN Incumbent ELSE 0
  <1>5. ts \subseteq Task \cup {None} /\ inc \in Nat
    BY <1>2, <1>4 DEF Targets, Holders, Led, Requests
  <1>6. UsableNow \subseteq Task /\ mints \in Nat /\ epoch \in Nat /\ tasks \in [Task -> Tasks]
    BY GoalAssumption DEF UsableNow, Led, TypeOK
  <1> HIDE DEF ts, inc
  <1> DEFINE y == [req |-> r, id |-> mints + 1, targets |-> ts, incumbent |-> inc,
                   before |-> tasks, epoch |-> epoch, usable |-> UsableNow, pristine |-> FALSE,
                   staging |-> "none", intent |-> FALSE, evidence |-> FALSE,
                   installed |-> {}, committed |-> FALSE]
  <1>7. y \in Transactions
    BY <1>2, <1>5, <1>6 DEF Transactions
  <1>8. tx' = y
    BY DEF Begin, ts, inc
  <1>9. /\ y.req = r /\ y.id = mints + 1 /\ y.targets = ts /\ y.incumbent = inc
        /\ y.before = tasks /\ y.epoch = epoch /\ y.staging = "none" /\ ~y.intent /\ ~y.committed
        /\ ~y.pristine /\ y.installed = {} /\ y.usable = UsableNow
    OBVIOUS
  <1> HIDE DEF y
  <1>10. UNCHANGED <<tasks, epoch, bootstrap, mints, faults>> /\ pc' = "callback"
    BY DEF Begin
  <1>11. QED  BY <1>2, <1>3, <1>7, <1>8, <1>9, <1>10, NoneAssumption DEF ts, inc

-----------------------------------------------------------------------------
(* The events. *)

\* What the event of a transaction makes of a task.
LedBy(y, n) ==
    /\ y.foreman # None /\ y.foreman.attempt = y.foreman.id /\ y.foreman.id = n /\ n # 0
    /\ y.foreman.status = "active"

Installs(t, y) ==
    /\ y \in Tasks /\ y.open = tasks[t].open /\ y.seen = tasks[t].seen
    /\ IF Req.kind = "captain"
       THEN y.foreman = Foreman(t) /\ LostOk(y)
       ELSE LedBy(y, IF Req.kind \in Minting THEN tx.id ELSE mints)

\* The same, but for the generation it is led by.
Leaves(t, y) ==
    /\ y \in Tasks /\ y.open = tasks[t].open /\ y.seen = tasks[t].seen /\ LostOk(y)
    /\ IF Req.kind = "captain" THEN y.foreman = Foreman(t) ELSE y.foreman # None

\* A new FOREMAN is of a generation, whichever.
LEMMA NewForemanType ==
    ASSUME TypeOK, Aimed, SomeoneLed, tx # None, Req.kind \in Minting, NEW t \in Task, t \in tx.targets
    PROVE  /\ NewForeman(t) \in Foremen /\ NewForeman(t).id = tx.id
           /\ NewForeman(t).status = "active"
  <1>1. tx.id \in Nat /\ tx.incumbent \in Nat
    BY TxType
  <1>2. PICK n \in Nat :
            NewForeman(t) = [id |-> tx.id, status |-> "active", live |-> TRUE, attempt |-> n]
    <2>1. CASE Req.kind = "bootstrap"
      BY <2>1 DEF NewForeman
    <2>2. CASE Req.kind = "succeed"
      <3>1. t \in Led
        BY <2>2 DEF Aimed, SomeoneLed
      <3>2. Foreman(t).attempt + 1 \in Nat
        BY <3>1, TaskType DEF Led, Foremen
      <3>3. NewForeman(t) =
                [id |-> tx.id, status |-> "active", live |-> TRUE, attempt |-> Foreman(t).attempt + 1]
        BY <2>2 DEF NewForeman
      <3>4. QED  BY <3>2, <3>3
    <2>3. CASE Req.kind = "recover"
      <3>1. NewForeman(t) =
                [id |-> tx.id, status |-> "active", live |-> TRUE, attempt |-> tx.incumbent + 1]
        BY <2>3 DEF NewForeman
      <3>2. tx.incumbent + 1 \in Nat
        BY <1>1
      <3>3. QED  BY <3>1, <3>2
    <2>4. QED  BY <2>1, <2>2, <2>3 DEF Minting
  <1>3. QED  BY <1>1, <1>2 DEF Foremen

\* A new FOREMAN is of the next generation.
LEMMA NewForemanIs ==
    ASSUME TypeOK, Lineage, tx # None, Req.kind \in Minting,
           NEW t \in Task, t \in tx.targets, t \notin tx.installed
    PROVE  /\ NewForeman(t) \in Foremen /\ NewForeman(t).id = tx.id
           /\ NewForeman(t).attempt = tx.id /\ NewForeman(t).status = "active"
           /\ tx.id # 0
  <1>1. tx.id \in Nat /\ tx.incumbent \in Nat /\ mints \in Nat
    BY TxType
  <1>2. tx.id # 0
    <2>1. mints = tx.id \/ mints = tx.id - 1
      BY DEF Lineage, Counted
    <2>2. tx.installed # {} => mints # 0
      BY TxType DEF Lineage, Standing, Minting
    <2>3. tx.installed = {} => mints = tx.id - 1
      BY DEF Lineage, Counted
    <2>4. tx.installed # {} => mints = tx.id
      BY DEF Lineage, Counted
    <2>5. QED  BY <1>1, <2>2, <2>3, <2>4
  <1>3. CASE Req.kind = "bootstrap"
    <2>1. tx.id = 1
      BY <1>3 DEF Lineage, Planned, Aimed
    <2>2. NewForeman(t) = [id |-> tx.id, status |-> "active", live |-> TRUE, attempt |-> 1]
      BY <1>3 DEF NewForeman
    <2>3. QED  BY <1>1, <2>1, <2>2 DEF Foremen
  <1>4. CASE Req.kind = "succeed"
    <2>1. HeldBefore = {Req.task} /\ tx.targets = {Req.task}
      BY <1>4 DEF Lineage, Planned, Aimed
    <2>2. tx.before[t].foreman # None /\ tx.before[t].open
      BY <2>1 DEF HeldBefore
    <2>3. Foreman(t) # None
      BY <2>2, TaskType, TxType, BoundSame DEF Lineage, Standing
    <2>4. tasks[t].open
      BY <2>2 DEF Lineage, Standing
    <2>5. Foreman(t).attempt = tx.id - 1
      BY <2>3, <2>4, Untouched DEF Lineage
    <2>6. Foreman(t).attempt + 1 = tx.id
      BY <1>1, <2>5
    <2>7. NewForeman(t) =
              [id |-> tx.id, status |-> "active", live |-> TRUE, attempt |-> Foreman(t).attempt + 1]
      BY <1>4 DEF NewForeman
    <2>8. QED  BY <1>1, <1>2, <2>6, <2>7 DEF Foremen
  <1>5. CASE Req.kind = "recover"
    <2>1. tx.incumbent + 1 = tx.id
      BY <1>1, <1>5 DEF Lineage, Planned, Aimed
    <2>2. NewForeman(t) =
              [id |-> tx.id, status |-> "active", live |-> TRUE, attempt |-> tx.incumbent + 1]
      BY <1>5 DEF NewForeman
    <2>3. QED  BY <1>1, <1>2, <2>1, <2>2 DEF Foremen
  <1>6. QED  BY <1>3, <1>4, <1>5 DEF Minting

\* A recovery stays of its role when its successor is registered.
LEMMA SucceededType ==
    ASSUME TypeOK, NEW t \in Task, NEW r \in {"FOREMAN", "CAPTAIN"}
    PROVE  /\ Succeeded(t, r) \in Recoveries \cup {None}
           /\ Succeeded(t, r) = None <=> tasks[t].recovery = None
           /\ tasks[t].recovery # None => Succeeded(t, r).role = tasks[t].recovery.role
  <1>1. tasks[t].recovery \in Recoveries \cup {None}
    BY TaskType
  <1>2. CASE Recovering(t, r)
    <2>1. tasks[t].recovery \in Recoveries
      BY <1>1, <1>2 DEF Recovering
    <2>2. /\ [tasks[t].recovery EXCEPT !.succeeded = TRUE] \in Recoveries
          /\ [tasks[t].recovery EXCEPT !.succeeded = TRUE].role = tasks[t].recovery.role
      BY <2>1 DEF Recoveries
    <2>3. QED  BY <1>2, <2>1, <2>2, NoneAssumption DEF Succeeded
  <1>3. CASE ~Recovering(t, r)
    BY <1>1, <1>3 DEF Succeeded
  <1>4. QED  BY <1>2, <1>3

\* What a registration and the recovery make of a task.
LEMMA SuccessorLeaves ==
    ASSUME TypeOK, Aimed, SomeoneLed, LostIsPending, tx # None, Req.kind \in Minting \cup {"captain"},
           NEW t \in Task, t \in tx.targets
    PROVE  /\ Leaves(t, Successor(t))
           /\ Req.kind \in Minting => Successor(t).foreman = NewForeman(t)
  <1>1. tasks[t] \in Tasks
    BY TaskType
  <1>2. CASE Req.kind \in Minting
    <2>1. NewForeman(t) \in Foremen /\ NewForeman(t).status = "active"
      BY <1>2, NewForemanType
    <2>2. PICK r \in Recoveries \cup {None} :
              Successor(t) = [[tasks[t] EXCEPT !.foreman = NewForeman(t)] EXCEPT !.recovery = r]
      <3>1. CASE Req.kind = "recover"
        <4>1. tasks[t].recovery \in Recoveries \cup {None}
          BY TaskType
        <4>2. CASE Recovering(t, "CAPTAIN")
          <5>1. Successor(t) = [tasks[t] EXCEPT !.foreman = NewForeman(t), !.recovery = tasks[t].recovery]
            BY <1>1, <3>1, <4>2 DEF Successor, Recovered, Tasks
          <5>2. QED  BY <4>1, <5>1
        <4>3. CASE ~Recovering(t, "CAPTAIN")
          <5>1. Successor(t) = [tasks[t] EXCEPT !.foreman = NewForeman(t), !.recovery = None]
            BY <1>1, <3>1, <4>3 DEF Successor, Recovered, Tasks
          <5>2. QED  BY <5>1
        <4>4. QED  BY <4>2, <4>3
      <3>2. CASE Req.kind \in {"bootstrap", "succeed"}
        <4>1. Succeeded(t, "FOREMAN") \in Recoveries \cup {None}
          BY SucceededType
        <4>2. Successor(t) =
                [tasks[t] EXCEPT !.foreman = NewForeman(t), !.recovery = Succeeded(t, "FOREMAN")]
          BY <3>2 DEF Successor, Registered
        <4>3. QED  BY <4>1, <4>2
      <3>3. QED  BY <1>2, <3>1, <3>2 DEF Minting
    <2> DEFINE z == [tasks[t] EXCEPT !.foreman = NewForeman(t)]
    <2>3. /\ z \in Tasks /\ z.foreman = NewForeman(t) /\ z.open = tasks[t].open
          /\ z.seen = tasks[t].seen
      BY <1>1, <2>1, TaskFields
    <2>4. Successor(t) = [z EXCEPT !.recovery = r]
      BY <2>2
    <2> HIDE DEF z
    <2>5. /\ Successor(t) \in Tasks /\ Successor(t).foreman = NewForeman(t)
          /\ Successor(t).open = tasks[t].open /\ Successor(t).seen = tasks[t].seen
      BY <2>3, <2>4, TaskFields
    <2>6. NewForeman(t) # None
      BY <2>1, NoneAssumption
    <2>7. QED  BY <1>2, <2>1, <2>5, <2>6 DEF Leaves, LostOk, Minting
  <1>3. CASE Req.kind = "captain"
    <2> DEFINE c == [status |-> "active", live |-> TRUE]
               z == [tasks[t] EXCEPT !.captain = c]
               r == Succeeded(t, "CAPTAIN")
    <2>1. c \in Captains
      BY DEF Captains
    <2>2. /\ r \in Recoveries \cup {None} /\ (r = None <=> tasks[t].recovery = None)
          /\ tasks[t].recovery # None => r.role = tasks[t].recovery.role
      BY SucceededType
    <2>3. Successor(t) = [z EXCEPT !.recovery = r]
      BY <1>3 DEF Successor, Registered
    <2> HIDE DEF c, r
    <2>4. /\ z \in Tasks /\ z.foreman = Foreman(t) /\ z.open = tasks[t].open
          /\ z.seen = tasks[t].seen
      BY <1>1, <2>1, TaskFields DEF Foreman
    <2> HIDE DEF z
    <2>5. /\ Successor(t) \in Tasks /\ Successor(t).foreman = Foreman(t)
          /\ Successor(t).open = tasks[t].open /\ Successor(t).seen = tasks[t].seen
          /\ Successor(t).recovery = r
      BY <2>2, <2>3, <2>4, TaskFields
    <2>6. LostOk(Successor(t))
      BY <2>2, <2>5 DEF LostOk, LostIsPending, Recovering
    <2>7. QED  BY <1>3, <2>5, <2>6 DEF Leaves, Minting
  <1>4. QED  BY <1>2, <1>3

\* It is led by the next generation.
LEMMA SuccessorIs ==
    ASSUME TypeOK, Lineage, SomeoneLed, LostIsPending, tx # None, Req.kind \in Minting \cup {"captain"},
           NEW t \in Task, t \in tx.targets, t \notin tx.installed
    PROVE  Installs(t, Successor(t))
  <1>1. /\ Leaves(t, Successor(t))
        /\ Req.kind \in Minting => Successor(t).foreman = NewForeman(t)
    BY SuccessorLeaves DEF Lineage, Planned
  <1>2. CASE Req.kind \in Minting
    BY <1>1, <1>2, NewForemanIs DEF Leaves, Installs, LedBy, Minting
  <1>3. CASE Req.kind = "captain"
    BY <1>1, <1>3 DEF Leaves, Installs
  <1>4. QED  BY <1>2, <1>3

\* A replica is copied, anyone else is registered or takes over.
Becomes(t, y) ==
    IF Req.kind = "join"
    THEN \E s \in Led : /\ Foreman(s).id = Req.by /\ Foreman(s).status = "active"
                        /\ y = Projection(t, s)
    ELSE y = Successor(t)

\* What one event of a transaction changes.
LEMMA InstallFrame ==
    ASSUME TypeOK, Aimed, Progress, Install
    PROVE  \E t \in tx.targets \ tx.installed :
              /\ t \in Task /\ pc = "events" /\ tx # None /\ Req.kind # "control"
              /\ Same /\ tx'.installed = tx.installed \cup {t} /\ UNCHANGED <<epoch, bootstrap, faults>>
              /\ tx'.intent = tx.intent /\ tx'.staging = tx.staging
              /\ tx'.committed = tx.committed /\ tx'.pristine = tx.pristine
              /\ mints' = IF Req.kind \in Minting THEN tx.id ELSE mints
              /\ pc' = IF tx.targets \ tx.installed = {t} THEN AfterEvents ELSE "events"
              /\ \E y : Becomes(t, y) /\ Changed(t, y)
  <1>1. pc = "events" /\ Req.kind # "control" /\ tx # None
    BY DEF Install, TypeOK
  <1>2. /\ tx \in Transactions /\ tx.installed \subseteq Task /\ mints \in Nat
        /\ Req.kind \in Prepared \cup {"join", "control"}
    BY <1>1, TxType
  <1>3. tx.targets \subseteq Task
    BY <1>1 DEF Aimed
  <1>4. Pending # {} /\ Pending \subseteq Nat
    BY <1>1, <1>3, GoalAssumption DEF Progress, Aimed, Pending
  <1>5. Min(Pending) \in Pending
    BY <1>4, MinIsThere
  <1>6. PICK t \in Pending : t = Min(Pending)
    BY <1>5
  <1>7. t \in Task /\ t \in tx.targets /\ t \notin tx.installed
    BY <1>3, <1>6 DEF Pending
  <1> DEFINE x == [tx EXCEPT !.installed = @ \cup {t}]
  <1>8. /\ x \in Transactions /\ x.installed = tx.installed \cup {t}
        /\ x.intent = tx.intent /\ x.staging = tx.staging /\ x.committed = tx.committed
        /\ x.pristine = tx.pristine
        /\ x.req = tx.req /\ x.id = tx.id /\ x.targets = tx.targets
        /\ x.incumbent = tx.incumbent /\ x.before = tx.before /\ x.epoch = tx.epoch
        /\ x.usable = tx.usable
    BY <1>2, <1>7 DEF Transactions
  <1>9. tx' = x
    BY <1>6 DEF Install
  <1> HIDE DEF x
  <1>10. Same
    BY <1>1, <1>8, <1>9, NoneAssumption DEF Same
  <1>11. /\ mints' = IF Req.kind \in Minting THEN tx.id ELSE mints
         /\ pc' = IF tx.targets \ tx.installed = {t} THEN AfterEvents ELSE "events"
         /\ UNCHANGED <<epoch, bootstrap, faults>>
    BY <1>6 DEF Install, Pending
  <1>12. \E y : Becomes(t, y) /\ Changed(t, y)
    <2>1. CASE Req.kind = "join"
      <3>1. PICK s \in Led : /\ Foreman(s).id = Req.by /\ Foreman(s).status = "active"
                             /\ Changed(t, Projection(t, s))
        BY <1>6, <2>1 DEF Install, Changed
      <3>2. QED  BY <2>1, <3>1 DEF Becomes
    <2>2. CASE Req.kind # "join"
      <3>1. Changed(t, Successor(t))
        BY <1>6, <2>2 DEF Install, Changed
      <3>2. QED  BY <2>2, <3>1 DEF Becomes
    <2>3. QED  BY <2>1, <2>2
  <1>13. QED  BY <1>1, <1>6, <1>7, <1>8, <1>9, <1>10, <1>11, <1>12

\* What it makes of a task, whoever leads.
LEMMA BecomesLeaves ==
    ASSUME TypeOK, Aimed, SomeoneLed, LostIsPending, tx # None, Req.kind # "control",
           NEW t \in Task, t \in tx.targets, NEW y, Becomes(t, y)
    PROVE  Leaves(t, y) /\ (Req.kind = "join" => Led # {})
  <1>1. CASE Req.kind = "join"
    <2>1. PICK s \in Led : Foreman(s).status = "active" /\ y = Projection(t, s)
      BY <1>1 DEF Becomes
    <2>2. Foreman(s) \in Foremen /\ Foreman(s) # None /\ tasks[t] \in Tasks
      BY TaskType DEF Led
    <2>3. y = [tasks[t] EXCEPT !.foreman = Foreman(s)]
      BY <2>1 DEF Projection
    <2>4. /\ y \in Tasks /\ y.foreman = Foreman(s) /\ y.open = tasks[t].open
          /\ y.seen = tasks[t].seen
      BY <2>2, <2>3, TaskFields
    <2>5. QED  BY <1>1, <2>1, <2>2, <2>4 DEF Leaves, LostOk
  <1>2. CASE Req.kind # "join"
    <2>1. Req.kind \in Minting \cup {"captain"}
      BY <1>2, TxType DEF Prepared
    <2>2. y = Successor(t)
      BY <1>2 DEF Becomes
    <2>3. QED  BY <1>2, <2>1, <2>2, SuccessorLeaves
  <1>3. QED  BY <1>1, <1>2

\* What it makes of a task as long as only the newest generation joins.
LEMMA BecomesInstalls ==
    ASSUME TypeOK, Lineage, SomeoneLed, LostIsPending, ~SupersededJoins,
           pc = "events", tx # None, Req.kind # "control",
           NEW t \in Task, t \in tx.targets, t \notin tx.installed, NEW y, Becomes(t, y)
    PROVE  Installs(t, y)
  <1>1. CASE Req.kind = "join"
    <2>1. PICK s \in Led : /\ Foreman(s).id = Req.by /\ Foreman(s).status = "active"
                           /\ y = Projection(t, s)
      BY <1>1 DEF Becomes
    <2>2. s \in Replicas
      BY <1>1, <2>1 DEF SupersededJoins
    <2>3. /\ s \in Led /\ s \in Task /\ Foreman(s).id = mints /\ mints # 0
          /\ Foreman(s).attempt = mints
      BY <2>2, ReplicasAre, Numbered DEF Lineage, Led
    <2>4. Foreman(s) \in Foremen /\ Foreman(s) # None /\ tasks[t] \in Tasks
      BY <2>3, TaskType DEF Led
    <2>5. y = [tasks[t] EXCEPT !.foreman = Foreman(s)]
      BY <2>1 DEF Projection
    <2>6. /\ y \in Tasks /\ y.foreman = Foreman(s) /\ y.open = tasks[t].open
          /\ y.seen = tasks[t].seen
      BY <2>4, <2>5, TaskFields
    <2>7. QED  BY <1>1, <2>1, <2>3, <2>4, <2>6 DEF Installs, LedBy, Minting
  <1>2. CASE Req.kind # "join"
    <2>1. Req.kind \in Minting \cup {"captain"}
      BY <1>2, TxType DEF Prepared
    <2>2. y = Successor(t)
      BY <1>2 DEF Becomes
    <2>3. QED  BY <2>1, <2>2, SuccessorIs
  <1>3. QED  BY <1>1, <1>2

\* What one event changes then.
LEMMA InstallEffect ==
    ASSUME TypeOK, Lineage, SomeoneLed, Progress, LostIsPending, ~SupersededJoins, Install
    PROVE  \E t \in tx.targets \ tx.installed :
              /\ t \in Task /\ pc = "events" /\ tx # None /\ Req.kind # "control"
              /\ Same /\ tx'.installed = tx.installed \cup {t} /\ UNCHANGED <<epoch, bootstrap, faults>>
              /\ tx'.intent = tx.intent /\ tx'.staging = tx.staging
              /\ tx'.committed = tx.committed /\ tx'.pristine = tx.pristine
              /\ mints' = IF Req.kind \in Minting THEN tx.id ELSE mints
              /\ pc' = IF tx.targets \ tx.installed = {t} THEN AfterEvents ELSE "events"
              /\ \E y : Installs(t, y) /\ Changed(t, y)
  <1>1. PICK t \in tx.targets \ tx.installed :
              /\ t \in Task /\ pc = "events" /\ tx # None /\ Req.kind # "control"
              /\ Same /\ tx'.installed = tx.installed \cup {t} /\ UNCHANGED <<epoch, bootstrap, faults>>
              /\ tx'.intent = tx.intent /\ tx'.staging = tx.staging
              /\ tx'.committed = tx.committed /\ tx'.pristine = tx.pristine
              /\ mints' = IF Req.kind \in Minting THEN tx.id ELSE mints
              /\ pc' = IF tx.targets \ tx.installed = {t} THEN AfterEvents ELSE "events"
              /\ \E y : Becomes(t, y) /\ Changed(t, y)
    BY InstallFrame DEF Lineage, Planned
  <1>2. PICK y : Becomes(t, y) /\ Changed(t, y)
    BY <1>1
  <1>3. Installs(t, y)
    BY <1>1, <1>2, BecomesInstalls
  <1>4. QED  BY <1>1, <1>2, <1>3

-----------------------------------------------------------------------------
(* What holds whoever joins. *)

\* A step that only takes a transaction further keeps the types.
LEMMA FurthersType ==
    ASSUME TypeOK, Furthers, faults' \in 0..MaxFaults, pc' \in PCs
    PROVE  TypeOK'
  BY DEF TypeOK, Furthers, Same

\* What Consumed asks of the place a process goes to.
LEMMA FurthersRest ==
    ASSUME Consumed, LostIsPending, Furthers,
           Req.kind = "bootstrap" /\ tx.installed # {} =>
               /\ pc' \in {"idle", "mark", "delete", "close"}
               /\ pc' = "delete" => pc = "delete"
               /\ pc' = "close" => pc = "close"
    PROVE  Consumed' /\ LostIsPending'
  <1>1. /\ tx # None /\ tx' # None /\ tx'.installed = tx.installed /\ tx'.req = tx.req
        /\ UNCHANGED <<tasks, epoch, bootstrap, mints>>
    BY DEF Furthers, Same
  <1>2. Led' = Led /\ Req' = Req
    BY <1>1 DEF Led, Foreman, Req
  <1>3. Consumed'
    BY <1>1, <1>2 DEF Consumed
  <1>4. LostIsPending'
    BY <1>1 DEF LostIsPending, Foreman, Recovering
  <1>5. QED  BY <1>3, <1>4

\* A request with one target has none of its events or all.
LEMMA OneEvent ==
    ASSUME Aimed, tx # None, Req.kind # "recover"
    PROVE  /\ tx.targets = {Req.task} /\ (tx.installed = {} \/ tx.installed = tx.targets)
           /\ tx.installed # tx.targets => tx.installed = {}
  BY DEF Aimed

\* Where a retry goes on, and what is there when it does.
LEMMA ResumesWhere ==
    ASSUME TypeOK, Aimed, Counted, Progress, tx # None
    PROVE  /\ ResumeAt \in {"callback", "promote", "events", "commit", "mark", "close"}
           /\ ResumeAt \in {"mark", "commit"} => tx.installed = tx.targets
           /\ ResumeAt = "mark" => Req.kind = "bootstrap"
           /\ ResumeAt = "close" =>
                  Req.kind # "bootstrap" /\ (Req.kind # "control" => tx.installed = tx.targets)
           /\ ResumeAt = "events" =>
                  tx.intent /\ Req.kind \in Prepared /\ tx.installed # tx.targets
           /\ ResumeAt = "promote" => tx.staging = "sealed" /\ Req.kind \in Prepared
           /\ ResumeAt \in {"callback", "promote"} => tx.installed = {}
           /\ Req.kind = "control" => ResumeAt \in {"callback", "close"}
           /\ Req.kind = "control" /\ ResumeAt = "callback" => epoch = tx.epoch
           /\ Req.kind = "bootstrap" /\ tx.installed # {} => ResumeAt = "mark"
  <1>1. /\ Req.kind \in Prepared \cup {"join", "control"}
        /\ Req.kind \in Prepared /\ tx.installed # {} => tx.intent
        /\ Req.kind \notin Prepared => ~tx.intent /\ tx.staging = "none"
        /\ tx.committed => tx.installed = tx.targets
    BY TxType DEF Progress
  <1>2. CASE Req.kind = "recover"
    <2>1. ResumeAt = RecoveryResumesAt
      BY <1>2 DEF ResumeAt
    <2>2. EventAccepted <=> tx.installed = tx.targets
      BY <1>2 DEF EventAccepted
    <2>3. Req.kind \in Prepared
      BY <1>2 DEF Prepared, Minting
    <2>4. QED
      BY <1>1, <1>2, <2>1, <2>2, <2>3 DEF RecoveryResumesAt, BatchCompleted
  <1>3. CASE Req.kind = "control"
    <2>1. ResumeAt = ControlResumesAt
      BY <1>3 DEF ResumeAt
    <2>2. EventAccepted <=> epoch = tx.epoch + 1
      BY <1>3 DEF EventAccepted
    <2>3. tx.installed = {} /\ (epoch = tx.epoch \/ epoch = tx.epoch + 1)
      BY <1>3 DEF Aimed, Counted
    <2>4. QED
      BY <1>3, <2>1, <2>2, <2>3 DEF ControlResumesAt
  <1>4. CASE Req.kind \notin {"recover", "control"}
    <2>1. ResumeAt = RegistrationResumesAt
      BY <1>4 DEF ResumeAt
    <2>2. EventAccepted <=> tx.installed = tx.targets
      BY <1>4 DEF EventAccepted
    <2>3. tx.installed # tx.targets <=> tx.installed = {}
      BY <1>4, OneEvent
    <2>4. QED
      BY <1>1, <1>4, <2>1, <2>2, <2>3 DEF RegistrationResumesAt
  <1>5. QED  BY <1>2, <1>3, <1>4

\* A task that goes on under its FOREMAN leaves everyone where he was.
LEMMA FollowsFrame ==
    ASSUME TypeOK, LostIsPending, NEW t \in Task, NEW y, Follows(tasks[t], y), Changed(t, y),
           UNCHANGED epoch
    PROVE  /\ tasks' \in [Task -> Tasks] /\ \A u \in Task : tasks'[u].seen <= epoch
           /\ \A u \in Task : tasks'[u].open => tasks[u].open
           /\ \A u \in Task : /\ tasks'[u].foreman = None <=> tasks[u].foreman = None
                              /\ tasks[u].foreman # None =>
                                     /\ tasks'[u].foreman.id = tasks[u].foreman.id
                                     /\ tasks'[u].foreman.attempt = tasks[u].foreman.attempt
           /\ Led' = Led /\ Replicas' = Replicas /\ LostIsPending'
  <1>1. /\ tasks' \in [Task -> Tasks] /\ tasks'[t] = y
        /\ \A u \in Task : u # t => tasks'[u] = tasks[u]
    BY DEF Changed, Follows, TypeOK
  <1>2. \A u \in Task : /\ tasks'[u].seen <= epoch
                        /\ tasks'[u].open => tasks[u].open
    BY <1>1, TaskType DEF Follows
  <1>3. \A u \in Task : /\ tasks'[u].foreman = None <=> tasks[u].foreman = None
                        /\ tasks[u].foreman # None =>
                               /\ tasks'[u].foreman.id = tasks[u].foreman.id
                               /\ tasks'[u].foreman.attempt = tasks[u].foreman.attempt
    BY <1>1 DEF Follows, Foreman
  <1>4. Led' = Led
    BY <1>3 DEF Led, Foreman
  <1>5. Replicas' = Replicas
    BY <1>3, <1>4 DEF Replicas, Led, Foreman
  <1>6. LostIsPending'
    <2>1. \A u \in Task : LostOk(tasks'[u])
      BY <1>1 DEF Follows, LostOk, LostIsPending, Foreman, Recovering
    <2>2. QED  BY <2>1 DEF LostOk, LostIsPending, Foreman, Recovering
  <1>7. QED  BY <1>1, <1>2, <1>3, <1>4, <1>5, <1>6

\* A step that only takes a transaction further, to a place where it may be.
LEMMA FurthersCore ==
    ASSUME Core, Furthers, Progress', faults' \in 0..MaxFaults, pc' \in PCs,
           Req.kind = "control" /\ pc' \in {"callback", "events"} => epoch = tx.epoch,
           Req.kind = "bootstrap" /\ tx.installed # {} =>
               /\ pc' \in {"idle", "mark", "delete", "close"}
               /\ pc' = "delete" => pc = "delete"
               /\ pc' = "close" => pc = "close"
    PROVE  Core'
  <1>1. /\ tx # None /\ tx' # None /\ tx'.installed = tx.installed
        /\ tx'.req = tx.req /\ tx'.id = tx.id /\ tx'.targets = tx.targets /\ tx'.epoch = tx.epoch
        /\ UNCHANGED <<tasks, epoch, bootstrap, mints>>
    BY DEF Furthers, Same
  <1>2. Req' = Req /\ Led' = Led
    BY <1>1 DEF Req, Led, Foreman
  <1>3. TypeOK'
    BY FurthersType DEF Core
  <1>4. Aimed' /\ SomeoneLed'
    BY <1>1, <1>2 DEF Core, Aimed, SomeoneLed
  <1>5. Counted'
    BY <1>1, <1>2 DEF Core, Counted
  <1>6. Consumed' /\ LostIsPending'
    BY FurthersRest DEF Core
  <1>7. QED  BY <1>3, <1>4, <1>5, <1>6 DEF Core

\* The preview that passes.
LEMMA AdmitCore ==
    ASSUME Core, Admit
    PROVE  Core'
  <1>1. TypeOK /\ Aimed /\ Counted /\ Progress
    BY DEF Core
  <1>2. /\ Furthers /\ UNCHANGED faults /\ pc = "callback"
        /\ tx'.committed = tx.committed /\ tx'.intent = tx.intent /\ tx'.staging = "none"
        /\ pc' = IF Req.kind \in Prepared THEN "stage" ELSE "events"
    BY <1>1, AdmitEffect
  <1>3. /\ tx # None /\ tx' # None /\ tx'.installed = tx.installed /\ Req' = Req
        /\ tx'.targets = tx.targets /\ tx.installed = {}
    BY <1>1, <1>2 DEF Furthers, Same, Req, Progress
  <1>4. tx.targets # {}
    BY <1>1, <1>3, OneEvent DEF Aimed
  <1>5. Progress'
    BY <1>1, <1>2, <1>3, <1>4 DEF Progress, Prepared, Minting
  <1>6. Req.kind = "control" => epoch = tx.epoch
    BY <1>1, <1>2, <1>3 DEF Counted
  <1>7. pc' \in PCs /\ faults' \in 0..MaxFaults
    BY <1>1, <1>2 DEF PCs, TypeOK
  <1>8. QED  BY <1>2, <1>3, <1>5, <1>6, <1>7, FurthersCore

\* The three steps to a sealed intent.
LEMMA SealingCore ==
    ASSUME Core, Sealing
    PROVE  Core'
  <1>1. TypeOK /\ Aimed /\ Progress
    BY DEF Core
  <1>2. /\ Furthers /\ UNCHANGED faults /\ tx'.committed = tx.committed
        /\ Stage \/ Seal => tx'.intent = tx.intent
        /\ Promote => tx'.intent
        /\ \/ pc = "stage" /\ pc' = "seal" /\ ~Promote
           \/ pc = "seal" /\ pc' = "promote" /\ ~Promote
           \/ pc = "promote" /\ pc' = "events" /\ Promote
    BY <1>1, SealingEffect
  <1>3. /\ tx # None /\ tx' # None /\ tx'.installed = tx.installed /\ Req' = Req
        /\ tx'.targets = tx.targets /\ tx.installed = {}
        /\ Req.kind \in Prepared
    BY <1>1, <1>2 DEF Furthers, Same, Req, Progress
  <1>4. Req.kind \notin {"control", "join"} /\ tx.targets # {}
    BY <1>1, <1>3 DEF Prepared, Minting, Aimed
  <1>5. ~tx.committed
    BY <1>1, <1>3, <1>4 DEF Progress
  <1>6. Progress'
    BY <1>1, <1>2, <1>3, <1>4, <1>5 DEF Progress
  <1>7. pc' \in PCs /\ faults' \in 0..MaxFaults
    BY <1>1, <1>2 DEF PCs, TypeOK
  <1>8. QED  BY <1>2, <1>3, <1>4, <1>6, <1>7, FurthersCore

\* commit.json.
LEMMA CommitCore ==
    ASSUME Core, CommitBatch
    PROVE  Core'
  <1>1. TypeOK /\ Aimed /\ Progress /\ Consumed
    BY DEF Core
  <1>2. /\ Furthers /\ UNCHANGED faults /\ pc = "commit" /\ pc' = "close"
        /\ tx'.intent = tx.intent /\ tx'.staging = tx.staging
    BY <1>1, CommitEffect
  <1>3. /\ tx # None /\ tx' # None /\ tx'.installed = tx.installed /\ Req' = Req
        /\ tx'.targets = tx.targets /\ tx.installed = tx.targets
    BY <1>1, <1>2 DEF Furthers, Same, Req, Progress
  <1>4. Req.kind # "bootstrap" \/ tx.installed = {}
    BY <1>1, <1>2, <1>3 DEF Consumed
  <1>5. Progress'
    BY <1>1, <1>2, <1>3 DEF Progress
  <1>6. pc' \in PCs /\ faults' \in 0..MaxFaults
    BY <1>1, <1>2 DEF PCs, TypeOK
  <1>7. QED  BY <1>2, <1>3, <1>4, <1>5, <1>6, FurthersCore

\* A retry.
LEMMA RetryCore ==
    ASSUME Core, Retry
    PROVE  Core'
  <1>1. TypeOK /\ Aimed /\ Counted /\ Progress
    BY DEF Core
  <1>2. /\ Furthers /\ UNCHANGED faults /\ pc = "idle" /\ pc' = ResumeAt
        /\ tx'.committed = tx.committed /\ tx'.intent = tx.intent
        /\ tx'.staging = tx.staging
    BY <1>1, RetryEffect
  <1>3. /\ tx # None /\ tx' # None /\ tx'.installed = tx.installed /\ Req' = Req
        /\ tx'.targets = tx.targets
    BY <1>2 DEF Furthers, Same, Req
  <1> DEFINE at == ResumeAt
  <1>4. /\ at \in {"callback", "promote", "events", "commit", "mark", "close"}
        /\ at \in {"mark", "commit"} => tx.installed = tx.targets
        /\ at = "mark" => Req.kind = "bootstrap"
        /\ at = "close" =>
               Req.kind # "bootstrap" /\ (Req.kind # "control" => tx.installed = tx.targets)
        /\ at = "events" =>
               tx.intent /\ Req.kind \in Prepared /\ tx.installed # tx.targets
        /\ at = "promote" => tx.staging = "sealed" /\ Req.kind \in Prepared
        /\ at \in {"callback", "promote"} => tx.installed = {}
        /\ Req.kind = "control" => at \in {"callback", "close"}
        /\ Req.kind = "control" /\ at = "callback" => epoch = tx.epoch
        /\ Req.kind = "bootstrap" /\ tx.installed # {} => at = "mark"
    BY <1>1, <1>3, ResumesWhere
  <1>5. pc' = at
    BY <1>2
  <1> HIDE DEF at
  <1>6. Progress'
    BY <1>1, <1>2, <1>3, <1>4, <1>5 DEF Progress
  <1>7. pc' \in PCs /\ faults' \in 0..MaxFaults
    BY <1>1, <1>2, <1>4, <1>5 DEF PCs, TypeOK
  <1>8. QED  BY <1>2, <1>4, <1>5, <1>6, <1>7, FurthersCore

\* A root that opens again: the request had nothing done or everything.
LEMMA OpensCore ==
    ASSUME Core, tx # None, tx' = None, pc' = "idle",
           UNCHANGED <<tasks, epoch, bootstrap, mints, faults>>,
           tx.installed = {} \/ (tx.installed = tx.targets /\ pc = "close")
    PROVE  Core'
  <1>1. TypeOK /\ SomeoneLed /\ Consumed
    BY DEF Core
  <1>2. TypeOK'
    BY <1>1 DEF TypeOK, PCs
  <1>3. Consumed'
    <2>1. (bootstrap.file <=> Led = {}) /\ (bootstrap.consumed <=> Led # {})
      <3>1. CASE Req.kind # "bootstrap" \/ tx.installed = {}
        BY <1>1, <3>1 DEF Consumed
      <3>2. CASE Req.kind = "bootstrap" /\ tx.installed # {}
        <4>1. bootstrap.consumed /\ ~bootstrap.file
          BY <1>1, <3>2 DEF Consumed
        <4>2. Led # {}
          BY <1>1, <3>2 DEF SomeoneLed
        <4>3. bootstrap.file = FALSE /\ bootstrap.consumed = TRUE
          BY <1>1, <4>1 DEF TypeOK
        <4>4. QED  BY <4>2, <4>3
      <3>3. QED  BY <3>1, <3>2
    <2>2. Led' = Led
      BY DEF Led, Foreman
    <2>3. QED  BY <2>1, <2>2 DEF Consumed
  <1>4. LostIsPending'
    BY DEF Core, LostIsPending, Foreman, Recovering
  <1>5. QED
    BY <1>2, <1>3, <1>4 DEF Core, Aimed, SomeoneLed, Counted, Progress

\* The end of a transaction, and a refusal, whether the root opens or not.
LEMMA EndCore ==
    ASSUME Core, Close \/ Refuse
    PROVE  Core'
  <1>1. TypeOK /\ Aimed /\ Progress
    BY DEF Core
  <1>2. CASE Close
    <2>1. /\ pc = "close" /\ pc' = "idle" /\ tx # None /\ tx' = None
          /\ UNCHANGED <<tasks, epoch, bootstrap, mints, faults>>
      BY <1>1, <1>2 DEF Close, TypeOK
    <2>2. tx.installed = {} \/ tx.installed = tx.targets
      BY <1>1, <2>1 DEF Aimed, Progress
    <2>3. QED  BY <2>1, <2>2, OpensCore
  <1>3. CASE Refuse
    <2>1. /\ pc = "callback" /\ pc' = "idle"
          /\ UNCHANGED <<tasks, epoch, bootstrap, mints, faults>> /\ tx # None
          /\ tx' # None => /\ Furthers /\ tx'.committed = tx.committed /\ tx'.intent = tx.intent
                           /\ tx'.staging = tx.staging
      BY <1>1, <1>3, RefuseEffect
    <2>2. tx.installed = {}
      BY <1>1, <2>1 DEF Progress
    <2>3. CASE tx' = None
      BY <2>1, <2>2, <2>3, OpensCore
    <2>4. CASE tx' # None
      <3>1. /\ tx'.installed = tx.installed /\ Req' = Req /\ tx'.targets = tx.targets
        BY <2>1, <2>4 DEF Furthers, Same, Req
      <3>2. Progress'
        BY <1>1, <2>1, <2>4, <3>1 DEF Progress
      <3>3. pc' \in PCs /\ faults' \in 0..MaxFaults
        BY <1>1, <2>1 DEF PCs, TypeOK
      <3>4. QED  BY <2>1, <2>2, <2>4, <3>2, <3>3, FurthersCore
    <2>5. QED  BY <2>3, <2>4
  <1>4. QED  BY <1>2, <1>3

\* A new control epoch.
LEMMA AdvanceCore ==
    ASSUME Core, AdvanceControlEpoch
    PROVE  Core'
  <1>1. /\ pc = "events" /\ Req.kind = "control" /\ epoch' = epoch + 1 /\ pc' = "close"
        /\ UNCHANGED <<tasks, bootstrap, tx, mints, faults>> /\ tx # None
    BY DEF AdvanceControlEpoch, Core, TypeOK
  <1>2. epoch = tx.epoch /\ tx.epoch < MaxEpoch /\ epoch \in Nat /\ tx.epoch \in Nat
    BY <1>1, TxType DEF Core, Counted
  <1>3. TypeOK'
    <2>1. \A t \in Task : tasks[t].seen <= epoch + 1
      BY <1>2, TaskType DEF Core
    <2>2. QED  BY <1>1, <1>2, <2>1, GoalAssumption DEF Core, TypeOK, PCs
  <1>4. Aimed' /\ SomeoneLed'
    BY <1>1 DEF Core, Aimed, SomeoneLed, Req, Led, Foreman
  <1>5. Counted'
    BY <1>1, <1>2 DEF Core, Counted, Req
  <1>6. Progress'
    BY <1>1 DEF Core, Progress, Req
  <1>7. Consumed'
    BY <1>1 DEF Core, Consumed, Req, Led, Foreman
  <1>8. LostIsPending'
    BY <1>1 DEF Core, LostIsPending, Foreman, Recovering
  <1>9. QED
    BY <1>3, <1>4, <1>5, <1>6, <1>7, <1>8 DEF Core

\* The mark of the bootstrap capability and its removal.
LEMMA MarkingCore ==
    ASSUME Core, MarkConsumed \/ DeleteBootstrap
    PROVE  Core'
  <1>1. /\ pc \in {"mark", "delete"} /\ pc' \in {"delete", "close"}
        /\ UNCHANGED <<tasks, epoch, tx, mints, faults>> /\ tx # None
    BY DEF MarkConsumed, DeleteBootstrap, Core, TypeOK
  <1>2. Req.kind = "bootstrap" /\ tx.installed = tx.targets /\ tx.installed # {}
    BY <1>1 DEF Core, Progress, Aimed
  <1>3. /\ bootstrap' \in [file : BOOLEAN, consumed : BOOLEAN]
        /\ bootstrap'.consumed
        /\ pc' = "close" => ~bootstrap'.file
    <2>1. bootstrap \in [file : BOOLEAN, consumed : BOOLEAN]
      BY DEF Core, TypeOK
    <2>2. CASE MarkConsumed
      BY <2>1, <2>2 DEF MarkConsumed
    <2>3. CASE DeleteBootstrap
      <3>1. bootstrap.consumed
        BY <1>1, <1>2, <2>3 DEF Core, Consumed, DeleteBootstrap
      <3>2. QED  BY <2>1, <2>3, <3>1 DEF DeleteBootstrap
    <2>4. QED  BY <2>2, <2>3
  <1>4. TypeOK'
    BY <1>1, <1>3 DEF Core, TypeOK, PCs
  <1>5. Aimed' /\ SomeoneLed' /\ Counted'
    BY <1>1, <1>2 DEF Core, Aimed, SomeoneLed, Counted, Req, Led, Foreman
  <1>6. Progress'
    BY <1>1, <1>2 DEF Core, Progress, Req
  <1>7. Consumed'
    BY <1>1, <1>2, <1>3 DEF Consumed, Req
  <1>8. LostIsPending'
    BY <1>1 DEF Core, LostIsPending, Foreman, Recovering
  <1>9. QED
    BY <1>4, <1>5, <1>6, <1>7, <1>8 DEF Core

\* A crash.
LEMMA StopCore ==
    ASSUME Core, Stop
    PROVE  Core'
  <1>1. pc' = "idle" /\ faults' = faults + 1 /\ faults < MaxFaults
        /\ UNCHANGED <<tasks, epoch, bootstrap, tx, mints>>
    BY DEF Stop
  <1>2. TypeOK'
    BY <1>1, GoalAssumption DEF Core, TypeOK, PCs
  <1>3. Aimed' /\ SomeoneLed' /\ Counted'
    BY <1>1 DEF Core, Aimed, SomeoneLed, Counted, Req, Led, Foreman
  <1>4. Progress'
    BY <1>1 DEF Core, Progress, Req
  <1>5. Consumed'
    BY <1>1 DEF Core, Consumed, Req, Led, Foreman
  <1>6. LostIsPending'
    BY <1>1 DEF Core, LostIsPending, Foreman, Recovering
  <1>7. QED
    BY <1>2, <1>3, <1>4, <1>5, <1>6 DEF Core

\* One event of a transaction.
LEMMA InstallCore ==
    ASSUME Core, Install
    PROVE  Core'
  <1>1. TypeOK /\ Aimed /\ SomeoneLed /\ Counted /\ Progress /\ LostIsPending
    BY DEF Core
  <1>2. PICK t \in tx.targets \ tx.installed :
              /\ t \in Task /\ pc = "events" /\ tx # None /\ Req.kind # "control"
              /\ Same /\ tx'.installed = tx.installed \cup {t} /\ UNCHANGED <<epoch, bootstrap, faults>>
              /\ tx'.intent = tx.intent /\ tx'.staging = tx.staging
              /\ tx'.committed = tx.committed /\ tx'.pristine = tx.pristine
              /\ mints' = IF Req.kind \in Minting THEN tx.id ELSE mints
              /\ pc' = IF tx.targets \ tx.installed = {t} THEN AfterEvents ELSE "events"
              /\ \E y : Becomes(t, y) /\ Changed(t, y)
    BY <1>1, InstallFrame
  <1>3. PICK y : Becomes(t, y) /\ Changed(t, y)
    BY <1>2
  <1>4. Leaves(t, y) /\ (Req.kind = "join" => Led # {})
    BY <1>1, <1>2, <1>3, BecomesLeaves
  <1>5. /\ tx' \in Transactions /\ tx' # None /\ Req' = Req /\ tx'.id = tx.id
        /\ tx'.targets = tx.targets /\ tx'.epoch = tx.epoch
    BY <1>2 DEF Same, Req
  <1>6. /\ tx.id \in Nat /\ mints \in Nat /\ tx.installed \subseteq Task
        /\ tasks \in [Task -> Tasks] /\ Req.kind \in Prepared \cup {"join", "control"}
    BY <1>1, <1>2, TxType DEF TypeOK
  <1>7. /\ tasks' \in [Task -> Tasks] /\ tasks'[t] = y
        /\ \A u \in Task : u # t => tasks'[u] = tasks[u]
    BY <1>2, <1>3, <1>4, <1>6 DEF Changed, Leaves
  <1>8. /\ pc' \in {"events", "mark", "commit", "close"}
        /\ pc' = "events" <=> tx'.installed # tx.targets
        /\ pc' = "mark" <=> Req.kind = "bootstrap"
        /\ Req.kind # "recover" => pc' # "events" /\ tx.installed = {}
    <2>1. tx.installed \subseteq tx.targets /\ (Req.kind # "recover" => tx.targets = {t})
      BY <1>1, <1>2 DEF Aimed
    <2>2. Req.kind # "recover" => tx.installed = {} /\ tx.targets \ tx.installed = {t}
      BY <1>2, <2>1
    <2>3. tx'.installed = tx.targets <=> tx.targets \ tx.installed = {t}
      BY <1>2, <2>1
    <2>4. QED  BY <1>2, <2>2, <2>3 DEF AfterEvents
  <1>9. TypeOK'
    <2>1. mints' \in 0..MaxMint
      BY <1>1, <1>2, <1>6, GoalAssumption DEF Counted, TypeOK
    <2>2. pc' \in PCs
      BY <1>8 DEF PCs
    <2>3. \A u \in Task : tasks'[u].seen <= epoch
      BY <1>1, <1>2, <1>4, <1>7, TaskType DEF Leaves
    <2>4. QED  BY <1>1, <1>2, <1>5, <1>7, <2>1, <2>2, <2>3 DEF TypeOK
  <1>10. Aimed'
    BY <1>1, <1>2, <1>5 DEF Aimed
  <1>11. Led \subseteq Led' /\ (Req.kind = "captain" => Led' = Led) /\ (Req.kind # "captain" => t \in Led')
    <2>1. /\ Req.kind = "captain" => y.foreman = tasks[t].foreman
          /\ Req.kind # "captain" => y.foreman # None
      BY <1>4 DEF Leaves, Foreman
    <2>2. QED  BY <1>2, <1>7, <2>1 DEF Led, Foreman
  <1>12. SomeoneLed'
    BY <1>1, <1>2, <1>5, <1>11 DEF SomeoneLed
  <1>13. Counted'
    BY <1>1, <1>2, <1>5, <1>6 DEF Counted
  <1>14. Progress'
    BY <1>1, <1>2, <1>5, <1>8 DEF Progress
  <1>15. Consumed'
    <2>1. CASE Req.kind = "bootstrap"
      <3>1. tx.installed = {} /\ pc' = "mark" /\ tx'.installed # {}
        BY <1>2, <1>8, <2>1
      <3>2. ~bootstrap.file => bootstrap.consumed
        BY <1>2, <3>1 DEF Core, Consumed
      <3>3. QED  BY <1>2, <1>5, <2>1, <3>1, <3>2 DEF Consumed
    <2>2. CASE Req.kind # "bootstrap"
      <3>1. (bootstrap.file <=> Led = {}) /\ (bootstrap.consumed <=> Led # {})
        BY <2>2 DEF Core, Consumed
      <3>2. Req.kind # "captain" => Led # {}
        BY <1>1, <1>2, <1>4, <1>6, <2>2 DEF SomeoneLed, Prepared, Minting
      <3>3. Led' = {} <=> Led = {}
        BY <1>11, <3>2
      <3>4. QED  BY <1>2, <1>5, <2>2, <3>1, <3>3 DEF Consumed
    <2>3. QED  BY <2>1, <2>2
  <1>16. LostIsPending'
    <2>1. ASSUME NEW u \in Task PROVE LostOk(tasks'[u])
      <3>1. CASE u = t
        BY <1>4, <1>7, <3>1 DEF Leaves
      <3>2. CASE u # t
        BY <1>1, <1>7, <3>2 DEF LostOk, LostIsPending, Foreman, Recovering
      <3>3. QED  BY <3>1, <3>2
    <2>2. QED  BY <2>1 DEF LostOk, LostIsPending, Foreman, Recovering
  <1>17. QED
    BY <1>9, <1>10, <1>12, <1>13, <1>14, <1>15, <1>16 DEF Core

\* A transaction that begins.
LEMMA BeginCore ==
    ASSUME Core, NEW r \in Request, Begin(r)
    PROVE  Core'
  <1>1. TypeOK /\ Consumed /\ LostIsPending
    BY DEF Core
  <1>2. /\ Even /\ UNCHANGED <<tasks, epoch, bootstrap, mints, faults>> /\ pc' = "callback"
        /\ r \in Requests /\ tx' \in Transactions /\ tx' # None /\ tx'.req = r /\ tx'.id = mints + 1
        /\ tx'.targets = IF r.kind = "recover" THEN Targets(r.task) ELSE {r.task}
        /\ tx'.epoch = epoch
        /\ tx'.staging = "none" /\ ~tx'.intent /\ ~tx'.committed /\ tx'.installed = {}
        /\ Admissible(r) /\ (r.kind \in Minting => mints < MaxMint)
        /\ r.kind = "control" <=> r.task = None
    BY <1>1, BeginEffect
  <1>3. Req' = r /\ tx = None /\ mints \in Nat /\ epoch \in Nat /\ tx'.id - 1 = mints /\ Led' = Led
    BY <1>1, <1>2, GoalAssumption DEF Req, Even, TypeOK, Led, Foreman
  <1>4. TypeOK'
    BY <1>1, <1>2 DEF TypeOK, PCs
  <1>5. Aimed' /\ SomeoneLed'
    <2>1. /\ r.kind # "control" => r.task \in Task
          /\ r.kind \in Prepared \cup {"join", "control"}
      BY <1>2 DEF Requests
    <2>2. r.kind = "recover" => r.task \in Targets(r.task) /\ Targets(r.task) \subseteq Task /\ Led # {}
      <3>1. SUFFICES ASSUME r.kind = "recover"
                     PROVE  r.task \in Targets(r.task) /\ Targets(r.task) \subseteq Task /\ Led # {}
        OBVIOUS
      <3>2. RecoveryScope(r.task) /\ Sources # {}
        BY <1>2, <3>1 DEF Admissible, AdmissibleRecovery, RecoveryScope
      <3>3. QED
        BY <2>1, <3>1, <3>2 DEF Targets, RecoveryScope, Holders, Led, Sources, Replicas
    <2>3. r.kind = "succeed" => r.task \in Led
      BY <1>2 DEF Admissible, AdmissibleSuccession
    <2>4. Aimed'
      BY <1>2, <1>3, <2>1, <2>2 DEF Aimed
    <2>5. SomeoneLed'
      BY <1>2, <1>3, <2>2, <2>3 DEF SomeoneLed
    <2>6. QED  BY <2>4, <2>5
  <1>6. Counted'
    <2>1. r.kind = "control" => epoch < MaxEpoch
      BY <1>2 DEF Admissible
    <2>2. r.kind \in Minting => mints + 1 <= MaxMint
      BY <1>2, <1>3, GoalAssumption
    <2>3. QED  BY <1>2, <1>3, <2>1, <2>2 DEF Counted
  <1>7. Progress'
    BY <1>2, <1>3 DEF Progress
  <1>8. Consumed' /\ LostIsPending'
    BY <1>1, <1>2, <1>3 DEF Consumed, LostIsPending, Foreman, Recovering
  <1>9. QED  BY <1>4, <1>5, <1>6, <1>7, <1>8 DEF Core

\* An event of a task, and the end of a lease, under an odd root too.
LEMMA TaskCore ==
    ASSUME Core, NEW t \in Task, LeaseExpires(t) \/ CaptainExpires(t) \/ Own(t)
    PROVE  Core'
  <1>1. TypeOK /\ LostIsPending
    BY DEF Core
  <1>2. /\ UNCHANGED <<epoch, bootstrap, tx, pc, mints>> /\ faults' \in 0..MaxFaults
        /\ \E y : Follows(tasks[t], y) /\ Changed(t, y)
    <2>1. CASE LeaseExpires(t) \/ CaptainExpires(t)
      BY <1>1, <2>1, ClockEffect DEF TypeOK
    <2>2. CASE Own(t)
      BY <1>1, <2>2, OwnEffect
    <2>3. QED  BY <2>1, <2>2
  <1>3. PICK y : Follows(tasks[t], y) /\ Changed(t, y)
    BY <1>2
  <1>4. /\ tasks' \in [Task -> Tasks] /\ \A u \in Task : tasks'[u].seen <= epoch
        /\ Led' = Led /\ LostIsPending'
    BY <1>1, <1>2, <1>3, FollowsFrame
  <1>5. TypeOK'
    BY <1>1, <1>2, <1>4 DEF TypeOK
  <1>6. Aimed' /\ SomeoneLed' /\ Counted' /\ Progress' /\ Consumed'
    BY <1>2, <1>4 DEF Core, Aimed, SomeoneLed, Counted, Progress, Consumed, Req
  <1>7. QED  BY <1>4, <1>5, <1>6 DEF Core

\* Every step.
LEMMA NextCore == Core /\ [Next]_vars => Core'
  <1> SUFFICES ASSUME Core, [Next]_vars PROVE Core'
    OBVIOUS
  <1>1. CASE Step
    BY <1>1, AdmitCore, EndCore, SealingCore, InstallCore, AdvanceCore, CommitCore, MarkingCore
       DEF Step, Sealing
  <1>2. CASE Stop
    BY <1>2, StopCore
  <1>3. CASE Retry
    BY <1>3, RetryCore
  <1>4. CASE \E r \in Request : Begin(r)
    BY <1>4, BeginCore
  <1>5. CASE \E t \in Task : LeaseExpires(t) \/ CaptainExpires(t) \/ Own(t)
    BY <1>5, TaskCore
  <1>6. CASE UNCHANGED vars
    BY <1>6
       DEF vars, Core, TypeOK, Aimed, SomeoneLed, Counted, Progress, Consumed, LostIsPending, Led,
           Foreman, Recovering, Req
  <1>7. QED  BY <1>1, <1>2, <1>3, <1>4, <1>5, <1>6 DEF Next

-----------------------------------------------------------------------------
(* The invariant holds at first and when a transaction begins. *)

\* The invariant holds in a new goal.
LEMMA InitIInv == Init => IInv
  <1> SUFFICES ASSUME Init PROVE IInv
    OBVIOUS
  <1>1. Blank \in Tasks /\ Blank.foreman = None /\ Blank.seen = 0
    BY DEF Blank, Tasks
  <1>2. \A t \in Task : tasks[t] = Blank
    BY DEF Init
  <1>3. TypeOK
    BY <1>1, GoalAssumption DEF Init, TypeOK, PCs
  <1>4. tx = None /\ Led = {} /\ mints = 0 /\ bootstrap.file /\ ~bootstrap.consumed
    BY <1>1, <1>2 DEF Init, Led, Foreman
  <1>5. EvenLineage /\ LostIsPending /\ Consumed
    BY <1>1, <1>2, <1>4 DEF EvenLineage, LineageOf, LostIsPending, Consumed, Foreman
  <1>6. QED
    BY <1>3, <1>4, <1>5
       DEF IInv, Core, BeginLineage, Planned, Aimed, SomeoneLed, Counted, Standing, Progress, Decided

\* GOAL_RECOVERY takes one task to hold the FOREMAN.
LEMMA OnlyHolder ==
    ASSUME NEW t \in Holders, Cardinality(Holders) <= 1
    PROVE  Holders = {t}
  <1>1. IsFiniteSet(Holders) /\ Cardinality(Holders) \in Nat
    BY GoalAssumption, FS_Subset, FS_CardinalityType DEF Holders, Led
  <1>2. Cardinality(Holders) # 0
    BY <1>1, FS_EmptySet
  <1>3. Cardinality(Holders) = 1
    BY <1>1, <1>2
  <1>4. QED  BY <1>1, <1>3, FS_Singleton

\* At an even root what is led is led by the newest generation.
LEMMA EvenIs ==
    ASSUME TypeOK, Lineage, tx = None
    PROVE  /\ LineageOf(tasks, mints) /\ mints \in Nat
           /\ Led # {} <=> mints # 0
           /\ \A t \in Replicas : Foreman(t).attempt = mints /\ t \in Led
  <1>1. LineageOf(tasks, mints) /\ mints \in Nat
    BY GoalAssumption DEF Lineage, EvenLineage, TypeOK
  <1>2. Replicas = {t \in Led : Foreman(t).id = mints} /\ (Led # {} <=> mints # 0)
    BY ReplicasAre
  <1>3. \A t \in Led : Foreman(t).attempt = Foreman(t).id
    BY <1>1 DEF LineageOf, Led, Foreman
  <1>4. QED  BY <1>1, <1>2, <1>3

\* What a request was admitted for is what its transaction is planned for.
LEMMA BeginPlans ==
    ASSUME TypeOK, Lineage, NEW r \in Request, Begin(r)
    PROVE  Planned'
  <1>1. /\ tx = None /\ r \in Requests /\ tx' # None /\ tx'.req = r /\ tx'.id = mints + 1
        /\ tx'.targets = IF r.kind = "recover" THEN Targets(r.task) ELSE {r.task}
        /\ tx'.incumbent = IF r.kind = "recover" THEN Incumbent ELSE 0
        /\ tx'.before = tasks /\ tx'.installed = {} /\ tx'.usable = UsableNow
        /\ Admissible(r)
        /\ r.kind = "control" <=> r.task = None
        /\ r.by = None <=> r.kind \in Minting
    BY BeginEffect DEF Even
  <1>2. Req' = r /\ HeldBefore' = Holders
    BY <1>1 DEF Req, HeldBefore, Holders, Led, Foreman
  <1>3. /\ r.kind \in Prepared \cup {"join", "control"}
        /\ r.kind # "control" => r.task \in Task
    BY <1>1 DEF Requests
  <1>4. /\ mints \in Nat /\ (Led # {} <=> mints # 0)
        /\ \A t \in Replicas : Foreman(t).attempt = mints /\ t \in Led
    BY <1>1, EvenIs
  <1>5. CASE r.kind = "recover"
    <2>1. RecoveryScope(r.task) /\ Sources # {}
      BY <1>1, <1>5 DEF Admissible, AdmissibleRecovery, RecoveryScope
    <2>2. Incumbent = mints /\ mints # 0
      BY <1>4, <2>1 DEF Incumbent, Sources
    <2>3. /\ r.task \in Targets(r.task) /\ Targets(r.task) \subseteq Task
          /\ \/ Targets(r.task) = Holders
             \/ Holders = {} /\ Targets(r.task) = {r.task} /\ tasks[r.task].open
      BY <1>3, <1>5, <2>1 DEF Targets, RecoveryScope, Holders, Led
    <2>4. \A t \in UsableNow : t \in Task /\ tasks[t].foreman # None
      BY DEF UsableNow, Led, Foreman
    <2>5. QED  BY <1>1, <1>2, <1>4, <1>5, <2>2, <2>3, <2>4 DEF Planned, Aimed, Minting
  <1>6. CASE r.kind # "recover"
    <2>1. tx'.targets = {r.task}
      BY <1>1, <1>6
    <2>2. r.kind = "bootstrap" => mints = 0
      BY <1>1, <1>4 DEF Admissible, BootstrapSpent
    <2>3. r.kind = "join" => tasks[r.task].foreman = None
      BY <1>1 DEF Admissible, Foreman
    <2>4. r.kind \in {"join", "captain", "bootstrap", "succeed"} => tasks[r.task].open
      BY <1>1 DEF Admissible
    <2>5. r.kind = "succeed" => Holders = {r.task}
      <3>1. SUFFICES ASSUME r.kind = "succeed" PROVE Holders = {r.task}
        OBVIOUS
      <3>2. r.task \in Holders /\ Cardinality(Holders) <= 1
        BY <1>1, <3>1 DEF Admissible, AdmissibleSuccession, Holders
      <3>3. QED  BY <3>2, OnlyHolder
    <2>6. \A t \in UsableNow : t \in Task /\ tasks[t].foreman # None
      BY DEF UsableNow, Led, Foreman
    <2>7. tx'.id = 1 <=> mints = 0
      BY <1>1, <1>4
    <2>8. QED
      BY <1>1, <1>2, <1>3, <1>6, <2>1, <2>2, <2>3, <2>4, <2>5, <2>6, <2>7 DEF Planned, Aimed
  <1>7. QED  BY <1>5, <1>6

\* A transaction that begins keeps the invariant.
LEMMA BeginKeeps ==
    ASSUME IInv, NEW r \in Request, Begin(r)
    PROVE  IInv'
  <1>1. TypeOK /\ Lineage /\ Core'
    BY BeginCore DEF IInv, Core, Lineage
  <1>2. /\ Even /\ UNCHANGED <<tasks, mints>> /\ pc' = "callback"
        /\ tx' # None /\ tx'.req = r /\ tx'.id = mints + 1 /\ tx'.before = tasks
        /\ tx'.staging = "none" /\ ~tx'.intent /\ tx'.installed = {}
    BY <1>1, BeginEffect
  <1>3. Req' = r /\ tx = None /\ mints \in Nat /\ tx'.id - 1 = mints
    BY <1>1, <1>2, GoalAssumption DEF Req, Even, TypeOK
  <1>4. EvenLineage' /\ BeginLineage'
    BY <1>1, <1>2, <1>3 DEF Lineage, EvenLineage, BeginLineage
  <1>5. Planned'
    BY <1>1, BeginPlans
  <1>6. Standing' /\ Decided'
    BY <1>2, <1>3 DEF Standing, Decided, Foreman
  <1>7. QED  BY <1>1, <1>4, <1>5, <1>6 DEF IInv

-----------------------------------------------------------------------------
(* It is kept by what only takes a transaction further. *)

\* Such a step keeps what is said of the generations.
LEMMA FurthersLineage ==
    ASSUME Lineage, Furthers
    PROVE  EvenLineage' /\ BeginLineage' /\ Planned' /\ Standing'
  <1>1. /\ tx # None /\ tx' # None /\ tx'.installed = tx.installed
        /\ tx'.req = tx.req /\ tx'.id = tx.id /\ tx'.targets = tx.targets
        /\ tx'.incumbent = tx.incumbent /\ tx'.before = tx.before /\ tx'.usable = tx.usable
        /\ UNCHANGED <<tasks, mints>>
    BY DEF Furthers, Same
  <1>2. EvenLineage' /\ BeginLineage'
    BY <1>1 DEF Lineage, EvenLineage, BeginLineage
  <1>3. Planned'
    BY <1>1 DEF Lineage, Planned, Aimed, HeldBefore, Req
  <1>4. Standing'
    BY <1>1 DEF Lineage, Standing, Req, Foreman
  <1>5. QED  BY <1>2, <1>3, <1>4

\* The preview decides who may go on.
LEMMA AdmitKeeps ==
    ASSUME IInv, Admit
    PROVE  IInv'
  <1>1. TypeOK /\ Lineage /\ Planned /\ Progress /\ Decided /\ Core'
    BY AdmitCore DEF IInv, Core, Lineage
  <1>2. /\ Furthers /\ Accepts /\ pc = "callback"
        /\ tx'.intent = tx.intent /\ tx'.staging = "none" /\ tx'.pristine = tx.pristine
        /\ pc' = IF Req.kind \in Prepared THEN "stage" ELSE "events"
    BY <1>1, AdmitEffect
  <1>3. /\ tx # None /\ tx' # None /\ tx'.installed = tx.installed /\ Req' = Req
        /\ tx.installed = {} /\ tasks' = tasks
    BY <1>1, <1>2 DEF Furthers, Same, Req, Progress
  <1>4. EvenLineage' /\ BeginLineage' /\ Planned' /\ Standing'
    BY <1>1, <1>2, FurthersLineage
  <1>5. Decided'
    <2>1. ASSUME Req.kind \in {"join", "control"}, ~tx.pristine
          PROVE  \E t \in Replicas : Foreman(t).id = Req.by
      <3>1. AuthorizedNow(Req)
        BY <1>2, <2>1 DEF Accepts, AuthorizedAtAdmission
      <3>2. AuthorizeGoalSession(Req.by)
        BY <2>1, <3>1 DEF AuthorizedNow, Minting
      <3>3. QED  BY <3>2 DEF AuthorizeGoalSession
    <2>2. ASSUME Req.kind = "captain"
          PROVE  Foreman(Req.task) # None /\ Foreman(Req.task).id = Req.by
      <3>1. CASE tx.pristine
        <4>1. AuthorizedThen(Req)
          BY <1>2, <3>1 DEF Accepts, AuthorizedAtAdmission
        <4>2. Req.task \in tx.usable /\ Foreman(Req.task).id = Req.by
          BY <2>2, <4>1 DEF AuthorizedThen, HistoricalAuthorizer, Minting
        <4>3. Req.task \in Task /\ tx.before[Req.task].foreman # None
          BY <1>1, <1>3, <4>2 DEF Planned, Aimed
        <4>4. Bound(Foreman(Req.task)) = Bound(tx.before[Req.task].foreman)
          BY <1>1, <1>3, <2>2, <4>3 DEF Lineage, Standing
        <4>5. Foreman(Req.task) # None
          BY <1>1, <1>3, <4>3, <4>4, TaskType, TxType, BoundSame
        <4>6. QED  BY <4>2, <4>5
      <3>2. CASE ~tx.pristine
        <4>1. AuthorizedNow(Req)
          BY <1>2, <3>2 DEF Accepts, AuthorizedAtAdmission
        <4>2. AuthorizeSession(Req.task, Req.by)
          BY <2>2, <4>1 DEF AuthorizedNow, Minting
        <4>3. QED  BY <4>2 DEF AuthorizeSession, UsableNow, Led
      <3>3. QED  BY <3>1, <3>2
    <2>3. Replicas' = Replicas /\ (\A t : Foreman(t)' = Foreman(t))
      BY <1>3 DEF Replicas, Led, Foreman
    <2>4. Foreman(Req.task)' = Foreman(Req.task)
      BY <1>3 DEF Foreman
    <2>5. QED  BY <1>2, <1>3, <2>1, <2>2, <2>3, <2>4 DEF Decided
  <1>6. QED  BY <1>1, <1>4, <1>5 DEF IInv

\* The three steps to a sealed intent keep the invariant.
LEMMA SealingKeeps ==
    ASSUME IInv, Sealing
    PROVE  IInv'
  <1>1. TypeOK /\ Lineage /\ Progress /\ Decided /\ Core'
    BY SealingCore DEF IInv, Core, Lineage
  <1>2. Furthers /\ pc \in {"stage", "seal", "promote"}
    BY <1>1, SealingEffect
  <1>3. tx # None /\ tx' # None /\ Req' = Req /\ tasks' = tasks /\ Req.kind \in Prepared
    BY <1>1, <1>2 DEF Furthers, Same, Req, Progress
  <1>4. Req.kind \notin {"control", "join"}
    BY <1>3 DEF Prepared, Minting
  <1>5. EvenLineage' /\ BeginLineage' /\ Planned' /\ Standing'
    BY <1>1, <1>2, FurthersLineage
  <1>6. Decided'
    <2>1. Foreman(Req.task)' = Foreman(Req.task)
      BY <1>3 DEF Foreman
    <2>2. QED  BY <1>1, <1>2, <1>3, <1>4, <2>1 DEF Decided
  <1>7. QED  BY <1>1, <1>5, <1>6 DEF IInv

\* So does commit.json.
LEMMA CommitKeeps ==
    ASSUME IInv, CommitBatch
    PROVE  IInv'
  <1>1. TypeOK /\ Lineage /\ Decided /\ Core'
    BY CommitCore DEF IInv, Core, Lineage
  <1>2. /\ Furthers /\ pc = "commit" /\ pc' = "close"
        /\ tx'.intent = tx.intent /\ tx'.staging = tx.staging /\ tx'.pristine = tx.pristine
    BY <1>1, CommitEffect
  <1>3. tx # None /\ tx' # None /\ Req' = Req /\ tasks' = tasks
    BY <1>2 DEF Furthers, Same, Req
  <1>4. EvenLineage' /\ BeginLineage' /\ Planned' /\ Standing'
    BY <1>1, <1>2, FurthersLineage
  <1>5. Decided'
    <2>1. Foreman(Req.task)' = Foreman(Req.task)
      BY <1>3 DEF Foreman
    <2>2. QED  BY <1>1, <1>2, <1>3, <2>1 DEF Decided
  <1>6. QED  BY <1>1, <1>4, <1>5 DEF IInv

\* A retry goes on where the invariant expects it.
LEMMA RetryKeeps ==
    ASSUME IInv, Retry
    PROVE  IInv'
  <1>1. TypeOK /\ Aimed /\ Lineage /\ Counted /\ Progress /\ Decided /\ Core'
    BY RetryCore DEF IInv, Core, Lineage
  <1>2. Furthers /\ pc' = ResumeAt /\ tx'.intent = tx.intent /\ tx'.staging = tx.staging
    BY <1>1, RetryEffect
  <1>3. tx # None /\ tx' # None /\ Req' = Req /\ tasks' = tasks
    BY <1>2 DEF Furthers, Same, Req
  <1> DEFINE at == ResumeAt
  <1>4. /\ at \in {"callback", "promote", "events", "commit", "mark", "close"}
        /\ at = "events" => tx.intent /\ Req.kind \in Prepared
        /\ at = "promote" => tx.staging = "sealed"
    BY <1>1, <1>3, ResumesWhere
  <1>5. pc' = at
    BY <1>2
  <1> HIDE DEF at
  <1>6. EvenLineage' /\ BeginLineage' /\ Planned' /\ Standing'
    BY <1>1, <1>2, FurthersLineage
  <1>7. Decided'
    <2>1. Foreman(Req.task)' = Foreman(Req.task)
      BY <1>3 DEF Foreman
    <2>2. Req.kind \in {"join", "control"} => at # "events"
      BY <1>4 DEF Prepared, Minting
    <2>3. QED  BY <1>1, <1>2, <1>3, <1>4, <1>5, <2>1, <2>2 DEF Decided
  <1>8. QED  BY <1>1, <1>6, <1>7 DEF IInv

-----------------------------------------------------------------------------
(* The end of a transaction. *)

\* A root that opens again: the request had nothing done or everything.
LEMMA Opens ==
    ASSUME IInv, Core', tx # None, tx' = None, UNCHANGED <<tasks, mints>>,
           tx.installed = {} \/ tx.installed = tx.targets
    PROVE  IInv'
  <1>1. TypeOK /\ Lineage
    BY DEF IInv, Core, Lineage
  <1>2. EvenLineage'
    BY <1>1, Lands DEF EvenLineage
  <1>3. Planned'
    BY DEF Core, Planned
  <1>4. QED
    BY <1>2, <1>3 DEF IInv, BeginLineage, Standing, Decided

\* The end of a transaction keeps the invariant.
LEMMA CloseKeeps ==
    ASSUME IInv, Close
    PROVE  IInv'
  <1>1. pc = "close" /\ tx # None /\ tx' = None /\ UNCHANGED <<tasks, mints>> /\ Core'
    BY EndCore DEF Close, IInv, Core, TypeOK
  <1>2. tx.installed = {} \/ tx.installed = tx.targets
    BY <1>1 DEF IInv, Core, Aimed, Progress
  <1>3. QED  BY <1>1, <1>2, Opens

\* A refusal keeps it, whether the root opens or not.
LEMMA RefuseKeeps ==
    ASSUME IInv, Refuse
    PROVE  IInv'
  <1>1. TypeOK /\ Lineage /\ Progress /\ Decided /\ Core'
    BY EndCore DEF IInv, Core, Lineage
  <1>2. /\ pc = "callback" /\ pc' = "idle" /\ UNCHANGED <<tasks, mints>> /\ tx # None
        /\ tx' # None => /\ Furthers /\ tx'.intent = tx.intent /\ tx'.staging = tx.staging
                         /\ tx'.pristine = tx.pristine
    BY <1>1, RefuseEffect
  <1>3. tx.installed = {}
    BY <1>1, <1>2 DEF Progress
  <1>4. CASE tx' = None
    BY <1>1, <1>2, <1>3, <1>4, Opens
  <1>5. CASE tx' # None
    <2>1. EvenLineage' /\ BeginLineage' /\ Planned' /\ Standing'
      BY <1>1, <1>2, <1>5, FurthersLineage
    <2>2. Decided'
      <3>1. Foreman(Req.task)' = Foreman(Req.task) /\ Req' = Req
        BY <1>2, <1>5 DEF Foreman, Furthers, Same, Req
      <3>2. QED  BY <1>1, <1>2, <1>5, <3>1 DEF Decided
    <2>3. QED  BY <1>1, <2>1, <2>2 DEF IInv
  <1>6. QED  BY <1>4, <1>5

-----------------------------------------------------------------------------
(* The other steps. *)

\* A new control epoch keeps the invariant.
LEMMA AdvanceKeeps ==
    ASSUME IInv, AdvanceControlEpoch
    PROVE  IInv'
  <1>1. /\ Req.kind = "control" /\ pc' = "close" /\ UNCHANGED <<tasks, tx, mints>> /\ Core'
    BY AdvanceCore DEF AdvanceControlEpoch, IInv
  <1>2. EvenLineage' /\ BeginLineage' /\ Planned'
    BY <1>1 DEF IInv, EvenLineage, BeginLineage, Planned, Aimed, Req, HeldBefore
  <1>3. Standing'
    BY <1>1 DEF IInv, Standing, Req, Foreman
  <1>4. Decided'
    BY <1>1 DEF Decided, Req
  <1>5. QED
    BY <1>1, <1>2, <1>3, <1>4 DEF IInv

\* The mark of the bootstrap capability and its removal keep the invariant.
LEMMA MarkingKeeps ==
    ASSUME IInv, MarkConsumed \/ DeleteBootstrap
    PROVE  IInv'
  <1>1. /\ pc \in {"mark", "delete"} /\ pc' \in {"delete", "close"}
        /\ UNCHANGED <<tasks, tx, mints>> /\ tx # None /\ Core'
    BY MarkingCore DEF MarkConsumed, DeleteBootstrap, IInv, Core, TypeOK
  <1>2. Req.kind = "bootstrap"
    BY <1>1 DEF IInv, Core, Progress
  <1>3. EvenLineage' /\ BeginLineage' /\ Planned' /\ Standing'
    BY <1>1 DEF IInv, EvenLineage, BeginLineage, Planned, Aimed, Standing, Req, HeldBefore, Foreman
  <1>4. Decided'
    BY <1>1, <1>2 DEF Decided, Req
  <1>5. QED
    BY <1>1, <1>3, <1>4 DEF IInv

\* A crash keeps the invariant.
LEMMA StopKeeps ==
    ASSUME IInv, Stop
    PROVE  IInv'
  <1>1. pc' = "idle" /\ UNCHANGED <<tasks, tx, mints>> /\ Core'
    BY StopCore DEF Stop, IInv
  <1>2. EvenLineage' /\ BeginLineage' /\ Planned'
    BY <1>1 DEF IInv, EvenLineage, BeginLineage, Planned, Aimed, Req, HeldBefore
  <1>3. Standing'
    BY <1>1 DEF IInv, Standing, Req, Foreman
  <1>4. Decided'
    BY <1>1 DEF IInv, Decided, Req, Foreman
  <1>5. QED
    BY <1>1, <1>2, <1>3, <1>4 DEF IInv

-----------------------------------------------------------------------------
(* An event of a transaction. *)

\* One event of a transaction keeps the invariant.
LEMMA InstallKeeps ==
    ASSUME IInv, ~SupersededJoins, Install
    PROVE  IInv'
  <1>1. /\ TypeOK /\ Lineage /\ SomeoneLed /\ Planned /\ Counted /\ Standing /\ Progress
        /\ Decided /\ LostIsPending /\ Core'
    BY InstallCore DEF IInv, Core, Lineage
  <1>2. PICK t \in tx.targets \ tx.installed :
              /\ t \in Task /\ pc = "events" /\ tx # None /\ Req.kind # "control"
              /\ Same /\ tx'.installed = tx.installed \cup {t} /\ UNCHANGED <<epoch, bootstrap, faults>>
              /\ tx'.intent = tx.intent /\ tx'.staging = tx.staging
              /\ tx'.committed = tx.committed /\ tx'.pristine = tx.pristine
              /\ mints' = IF Req.kind \in Minting THEN tx.id ELSE mints
              /\ pc' = IF tx.targets \ tx.installed = {t} THEN AfterEvents ELSE "events"
              /\ \E y : Installs(t, y) /\ Changed(t, y)
    BY <1>1, InstallEffect
  <1>3. PICK y : Installs(t, y) /\ Changed(t, y)
    BY <1>2
  <1>4. /\ tx' \in Transactions /\ tx' # None /\ Req' = Req /\ tx'.id = tx.id
        /\ tx'.targets = tx.targets /\ tx'.incumbent = tx.incumbent
        /\ tx'.before = tx.before /\ tx'.epoch = tx.epoch /\ tx'.usable = tx.usable
    BY <1>2 DEF Same, Req
  <1>5. /\ tx.id \in Nat /\ mints \in Nat /\ tx.installed \subseteq Task
        /\ tasks \in [Task -> Tasks] /\ Req.kind \in Prepared \cup {"join", "control"}
    BY <1>1, <1>2, TxType DEF TypeOK
  <1>6. /\ tasks' \in [Task -> Tasks] /\ tasks'[t] = y
        /\ \A u \in Task : u # t => tasks'[u] = tasks[u]
    BY <1>2, <1>3, <1>5 DEF Changed, Installs
  <1>7. /\ y.open = tasks[t].open /\ y.seen = tasks[t].seen
        /\ Req.kind = "captain" => y.foreman = Foreman(t) /\ LostOk(y)
        /\ Req.kind # "captain" => LedBy(y, mints')
    BY <1>2, <1>3 DEF Installs
  <1>8. /\ pc' \in {"events", "mark", "commit", "close"}
        /\ pc' = "events" <=> tx'.installed # tx.targets
        /\ pc' = "mark" <=> Req.kind = "bootstrap"
        /\ Req.kind # "recover" => pc' # "events" /\ tx.installed = {}
    <2>1. tx.installed \subseteq tx.targets /\ (Req.kind # "recover" => tx.targets = {t})
      BY <1>1, <1>2 DEF Planned, Aimed
    <2>2. Req.kind # "recover" => tx.installed = {} /\ tx.targets \ tx.installed = {t}
      BY <1>2, <2>1
    <2>3. tx'.installed = tx.targets <=> tx.targets \ tx.installed = {t}
      BY <1>2, <2>1
    <2>4. QED  BY <1>2, <2>2, <2>3 DEF AfterEvents
  <1>9. EvenLineage' /\ BeginLineage'
    BY <1>1, <1>2, <1>4 DEF Lineage, EvenLineage, BeginLineage
  <1>10. Planned'
    <2>1. HeldBefore' = HeldBefore
      BY <1>4 DEF HeldBefore
    <2>2. QED  BY <1>1, <1>2, <1>4, <2>1 DEF Planned, Aimed
  <1>11. Standing'
    <2>1. \A u \in Task : tasks'[u].open = tx.before[u].open
      BY <1>1, <1>2, <1>6, <1>7 DEF Standing
    <2>2. ASSUME NEW u \in Task, u \notin tx'.installed \/ Req.kind = "captain"
          PROVE  Bound(Foreman(u)') = Bound(tx.before[u].foreman)
      <3>1. Bound(Foreman(u)) = Bound(tx.before[u].foreman)
        BY <1>1, <1>2, <2>2 DEF Standing
      <3>2. Foreman(u)' = Foreman(u)
        BY <1>2, <1>6, <1>7, <2>2 DEF Foreman
      <3>3. QED  BY <3>1, <3>2
    <2>3. ASSUME NEW u \in tx'.installed, Req.kind # "captain"
          PROVE  /\ Foreman(u)' # None /\ Foreman(u)'.attempt = Foreman(u)'.id
                 /\ Foreman(u)'.id = mints' /\ mints' # 0
      <3>1. CASE u = t
        BY <1>6, <1>7, <2>3, <3>1 DEF LedBy, Foreman
      <3>2. CASE u # t
        <4>1. u \in tx.installed /\ u \in Task
          BY <1>2, <1>5, <2>3, <3>2
        <4>2. /\ Foreman(u) # None /\ Foreman(u).attempt = Foreman(u).id
              /\ Foreman(u).id = mints /\ mints # 0
          BY <1>1, <1>2, <2>3, <4>1 DEF Standing
        <4>3. mints' = mints
          BY <1>1, <1>2, <4>1 DEF Counted
        <4>4. Foreman(u)' = Foreman(u)
          BY <1>6, <3>2, <4>1 DEF Foreman
        <4>5. QED  BY <4>2, <4>3, <4>4
      <3>3. QED  BY <3>1, <3>2
    <2>4. \A u : Bound(Foreman(u))' = Bound(Foreman(u)')
      BY DEF Bound
    <2>5. QED  BY <1>4, <2>1, <2>2, <2>3, <2>4 DEF Standing
  <1>12. Decided'
    <2>1. Req.kind \in {"join", "control"} => pc' # "events"
      BY <1>8
    <2>2. ASSUME Req.kind = "captain"
          PROVE  Foreman(Req.task)' # None /\ Foreman(Req.task)'.id = Req.by
      <3>1. Foreman(Req.task) # None /\ Foreman(Req.task).id = Req.by
        BY <1>1, <1>2, <2>2 DEF Decided
      <3>2. Foreman(Req.task)' = Foreman(Req.task) /\ Req.task = t
        BY <1>1, <1>2, <1>4, <1>6, <1>7, <2>2 DEF Foreman, Planned, Aimed
      <3>3. QED  BY <3>1, <3>2
    <2>3. QED  BY <1>4, <2>1, <2>2 DEF Decided
  <1>13. QED
    BY <1>1, <1>9, <1>10, <1>11, <1>12 DEF IInv

-----------------------------------------------------------------------------
(* The clock and the events of a task. *)

\* An event of a task keeps the invariant.
LEMMA OwnKeeps ==
    ASSUME IInv, NEW t \in Task, Own(t)
    PROVE  IInv'
  <1>1. TypeOK /\ LostIsPending /\ EvenLineage /\ Core'
    BY TaskCore DEF IInv, Core
  <1>2. /\ Even /\ UNCHANGED <<epoch, bootstrap, tx, pc, mints>> /\ faults' \in 0..MaxFaults
        /\ \E y : Follows(tasks[t], y) /\ Changed(t, y)
    BY <1>1, OwnEffect
  <1>3. PICK y : Follows(tasks[t], y) /\ Changed(t, y)
    BY <1>2
  <1>4. /\ tasks' \in [Task -> Tasks] /\ \A u \in Task : tasks'[u].seen <= epoch
        /\ \A u \in Task : tasks'[u].open => tasks[u].open
        /\ \A u \in Task : /\ tasks'[u].foreman = None <=> tasks[u].foreman = None
                           /\ tasks[u].foreman # None =>
                                  /\ tasks'[u].foreman.id = tasks[u].foreman.id
                                  /\ tasks'[u].foreman.attempt = tasks[u].foreman.attempt
        /\ Led' = Led /\ LostIsPending'
    BY <1>1, <1>2, <1>3, FollowsFrame
  <1>5. tx = None /\ tx' = None
    BY <1>2 DEF Even
  <1>6. EvenLineage'
    BY <1>1, <1>2, <1>4, <1>5 DEF EvenLineage, LineageOf
  <1>7. Planned'
    BY <1>1, <1>5 DEF Core, Planned
  <1>8. QED
    BY <1>1, <1>5, <1>6, <1>7 DEF IInv, BeginLineage, Standing, Decided

\* The end of a lease keeps it, under an odd root too.
LEMMA ClockKeeps ==
    ASSUME IInv, NEW t \in Task, LeaseExpires(t) \/ CaptainExpires(t)
    PROVE  IInv'
  <1>1. TypeOK /\ LostIsPending /\ EvenLineage /\ Core'
    BY TaskCore DEF IInv, Core
  <1>2. /\ UNCHANGED <<epoch, bootstrap, tx, pc, mints, faults>>
        /\ \E y : /\ Follows(tasks[t], y) /\ Changed(t, y) /\ y.open = tasks[t].open
                  /\ Bound(y.foreman) = Bound(Foreman(t))
    BY <1>1, ClockEffect
  <1>3. PICK y : /\ Follows(tasks[t], y) /\ Changed(t, y) /\ y.open = tasks[t].open
                 /\ Bound(y.foreman) = Bound(Foreman(t))
    BY <1>2
  <1>4. /\ tasks' \in [Task -> Tasks] /\ \A u \in Task : tasks'[u].seen <= epoch
        /\ \A u \in Task : tasks'[u].open => tasks[u].open
        /\ \A u \in Task : /\ tasks'[u].foreman = None <=> tasks[u].foreman = None
                           /\ tasks[u].foreman # None =>
                                  /\ tasks'[u].foreman.id = tasks[u].foreman.id
                                  /\ tasks'[u].foreman.attempt = tasks[u].foreman.attempt
        /\ Led' = Led /\ Replicas' = Replicas /\ LostIsPending'
    BY <1>1, <1>2, <1>3, FollowsFrame
  <1>5. Req' = Req
    BY <1>2 DEF Req
  <1>6. EvenLineage'
    BY <1>1, <1>2, <1>4 DEF EvenLineage, LineageOf
  <1>7. BeginLineage' /\ Planned'
    BY <1>2, <1>5 DEF IInv, BeginLineage, Planned, Aimed, HeldBefore
  <1>8. Standing'
    <2>1. /\ \A u \in Task : tasks'[u].open = tasks[u].open
          /\ \A u \in Task : Bound(Foreman(u)') = Bound(Foreman(u))
      BY <1>1, <1>3 DEF Changed, TypeOK, Foreman
    <2>2. \A u \in Task : Bound(Foreman(u))' = Bound(Foreman(u)')
      BY DEF Bound
    <2>3. tx # None => tx.installed \subseteq Task
      BY <1>1, TxType
    <2>4. SUFFICES ASSUME tx # None PROVE Standing'
      BY <1>2 DEF Standing
    <2>5. Standing
      BY DEF IInv, Core
    <2>6. ASSUME NEW u \in Task, u \notin tx.installed \/ Req.kind = "captain"
          PROVE  Bound(Foreman(u))' = Bound(tx.before[u].foreman)
      BY <2>1, <2>2, <2>4, <2>5, <2>6 DEF Standing
    <2>7. ASSUME NEW u \in tx.installed, Req.kind # "captain"
          PROVE  /\ tasks'[u].foreman # None
                 /\ tasks'[u].foreman.attempt = tasks'[u].foreman.id
                 /\ tasks'[u].foreman.id = mints /\ mints # 0
      <3>1. u \in Task
        BY <2>3, <2>4, <2>7
      <3>2. /\ tasks[u].foreman # None /\ tasks[u].foreman.attempt = tasks[u].foreman.id
            /\ tasks[u].foreman.id = mints /\ mints # 0
        BY <2>4, <2>5, <2>7 DEF Standing, Foreman
      <3>3. QED  BY <1>4, <3>1, <3>2
    <2>8. \A u : Foreman(u)' = tasks'[u].foreman
      BY DEF Foreman
    <2>9. \A u \in Task : tasks'[u].open = tx.before[u].open
      BY <2>1, <2>4, <2>5 DEF Standing
    <2>10. QED  BY <1>2, <1>5, <2>4, <2>6, <2>7, <2>8, <2>9 DEF Standing
  <1>9. Decided'
    <2>1. tx # None /\ Req.kind = "captain" => Req.task \in Task
      BY DEF IInv, Core, Planned, Aimed
    <2>2. Req.task \in Task /\ Foreman(Req.task) # None =>
              /\ Foreman(Req.task)' # None
              /\ Foreman(Req.task)'.id = Foreman(Req.task).id
      BY <1>4, <1>5 DEF Foreman
    <2>3. \A u \in Replicas : tasks'[u].foreman.id = tasks[u].foreman.id
      BY <1>4 DEF Replicas, Led, Foreman
    <2>4. ASSUME tx # None, Req.kind \in {"join", "control"}, pc = "events", ~tx.pristine
          PROVE  \E u \in Replicas' : tasks'[u].foreman.id = Req.by
      <3>1. \E u \in Replicas : tasks[u].foreman.id = Req.by
        BY <2>4 DEF IInv, Core, Decided, Foreman
      <3>2. QED  BY <1>4, <2>3, <3>1
    <2>5. tx # None /\ Req.kind = "captain"
              /\ (tx.staging # "none" \/ tx.intent \/ pc \in {"stage", "seal", "promote", "events"})
          => Foreman(Req.task)' # None /\ Foreman(Req.task)'.id = Req.by
      BY <2>1, <2>2 DEF IInv, Core, Decided
    <2>6. \A u : Foreman(u)' = tasks'[u].foreman
      BY DEF Foreman
    <2>7. QED  BY <1>2, <1>5, <2>4, <2>5, <2>6 DEF Decided
  <1>10. QED
    BY <1>1, <1>6, <1>7, <1>8, <1>9 DEF IInv

-----------------------------------------------------------------------------
(* Theorems. *)

\* Every step keeps the invariant.
LEMMA NextIInv == IInv /\ ~SupersededJoins /\ [Next]_vars => IInv'
  <1> SUFFICES ASSUME IInv, ~SupersededJoins, [Next]_vars PROVE IInv'
    OBVIOUS
  <1>1. CASE Step
    BY <1>1, AdmitKeeps, RefuseKeeps, SealingKeeps, InstallKeeps, AdvanceKeeps, CommitKeeps,
        MarkingKeeps, CloseKeeps
       DEF Step, Sealing
  <1>2. CASE Stop
    BY <1>2, StopKeeps
  <1>3. CASE Retry
    BY <1>3, RetryKeeps
  <1>4. CASE \E r \in Request : Begin(r)
    BY <1>4, BeginKeeps
  <1>5. CASE \E t \in Task : LeaseExpires(t) \/ CaptainExpires(t) \/ Own(t)
    BY <1>5, ClockKeeps, OwnKeeps
  <1>6. CASE UNCHANGED vars
    <2>1. Core'
      BY NextCore DEF IInv
    <2>2. QED
      BY <1>6, <2>1
         DEF vars, IInv, EvenLineage, BeginLineage, Planned, Aimed, HeldBefore, Standing, Decided,
             Replicas, Led, Foreman, Req
  <1>7. QED  BY <1>1, <1>2, <1>3, <1>4, <1>5, <1>6 DEF Next

\* Whoever joins, the parts of the invariant hold that do not speak of generations.
THEOREM CoreInvariance == Spec => []Core
  <1>1. Init => Core
    BY InitIInv DEF IInv
  <1>2. QED  BY <1>1, NextCore, PTL DEF Spec

\* The invariant the other theorems rest on: who leads is numbered by how many have
\* led, and a transaction, at any step of it, has its tasks where it found them or
\* where it leads.
THEOREM Invariance == Spec /\ []~SupersededJoins => []IInv
  BY InitIInv, NextIInv, PTL DEF Spec

\* Where there are at most two tasks nothing that has been succeeded can join: the task
\* that has no FOREMAN leaves one, and whoever leads that one is the newest.
THEOREM TwoTasksAreSafe ==
    ASSUME \A s, t, u \in Task : s = t \/ t = u \/ s = u
    PROVE  Spec => []~SupersededJoins
  <1>1. ASSUME IInv PROVE ~SupersededJoins
    <2>1. SUFFICES ASSUME SupersededJoins PROVE FALSE
      OBVIOUS
    <2>2. TypeOK /\ Lineage /\ Planned /\ Progress
      BY <1>1 DEF IInv, Core, Lineage
    <2>3. PICK s \in Led \ Replicas : TRUE
      BY <2>1 DEF SupersededJoins
    <2>4. /\ tx # None /\ pc = "events" /\ Req.kind = "join" /\ Req.task \in Task
          /\ tx.installed # tx.targets /\ tx.targets = {Req.task} /\ tx.installed \subseteq tx.targets
          /\ tx.before[Req.task].foreman = None
      BY <2>1, <2>2 DEF SupersededJoins, Progress, Planned, Aimed
    <2>5. Req.task \notin Led
      <3>1. Bound(Foreman(Req.task)) = Bound(tx.before[Req.task].foreman)
        BY <2>2, <2>4 DEF Lineage, Standing
      <3>2. QED  BY <2>2, <2>4, <3>1, BoundSame, TaskType DEF Led
    <2>6. \A u \in Led : u = s
      BY <2>3, <2>4, <2>5 DEF Led
    <2>7. Foreman(s).attempt <= Foreman(s).attempt
      BY <2>2, <2>3, TaskType DEF Led, Foremen
    <2>8. s \in Replicas
      BY <2>3, <2>6, <2>7 DEF Replicas
    <2>9. QED  BY <2>3, <2>8
  <1>2. IInv /\ [Next]_vars => IInv'
    BY <1>1, NextIInv
  <1>3. QED  BY <1>1, <1>2, InitIInv, PTL DEF Spec

\* The state is what it is declared to be; identities, epochs and faults keep to
\* their bounds.
THEOREM TypeCorrect == Spec => []TypeOK
  <1>1. Core => TypeOK
    BY DEF Core
  <1>2. QED  BY <1>1, CoreInvariance, PTL

\* A generation is one identity; an even root has no open task behind the newest
\* one, and an odd root has moved no task but to where it leads.
THEOREM GenerationsAreOne == Spec /\ []~SupersededJoins => []OneLineage
  <1>1. ASSUME IInv PROVE OneLineage
    <2>1. TypeOK /\ Lineage
      BY <1>1 DEF IInv, Core, Lineage
    <2>2. /\ \A t \in Led : Foreman(t).attempt = Foreman(t).id
          /\ Replicas = {t \in Led : Foreman(t).id = mints}
      BY <2>1, Numbered, ReplicasAre DEF Lineage
    <2>3. tx = None => Holders \subseteq Replicas
      BY <2>1, <2>2 DEF Lineage, EvenLineage, LineageOf, Holders, Led, Foreman
    <2>4. ASSUME tx # None, NEW t \in Holders \ Replicas
          PROVE  Bound(Foreman(t)) = Bound(tx.before[t].foreman)
      <3>1. t \in Task /\ Foreman(t).id # mints
        BY <2>2, <2>4 DEF Holders, Led
      <3>2. t \notin tx.installed \/ Req.kind = "captain"
        BY <2>1, <2>4, <3>1 DEF Lineage, Standing
      <3>3. QED  BY <2>1, <2>4, <3>1, <3>2 DEF Lineage, Standing
    <2>5. QED  BY <2>2, <2>3, <2>4 DEF OneLineage
  <1>2. QED  BY <1>1, Invariance, PTL

\* Whoever decides is of the newest generation, but for the pristine retry of a
\* request that was begun by its predecessor.
THEOREM DecidedByNewest == Spec /\ []~SupersededJoins => []NewestDecides
  <1>1. ASSUME IInv, BySuperseded PROVE tx.pristine
    <2>1. TypeOK /\ Lineage /\ Progress /\ Decided
      BY <1>1 DEF IInv, Core, Lineage
    <2>2. /\ pc = "events" /\ tx # None /\ Req.by # None
          /\ \A t \in Replicas : Foreman(t).id # Req.by
      BY <1>1, <2>1 DEF BySuperseded, TypeOK
    <2>3. Req.kind \in {"join", "control", "captain"}
      BY <2>1, <2>2, TxType DEF Lineage, Planned, Aimed, Prepared
    <2>4. Req.kind # "captain"
      <3>1. SUFFICES ASSUME Req.kind = "captain" PROVE FALSE
        OBVIOUS
      <3>2. Foreman(Req.task) # None /\ Foreman(Req.task).id = Req.by
        BY <2>1, <2>2, <3>1 DEF Decided
      <3>3. Req.task \in Task /\ tx.before[Req.task].open
        BY <2>1, <2>2, <3>1 DEF Lineage, Planned, Aimed
      <3>4. Foreman(Req.task).id = tx.id - 1
        BY <2>1, <2>2, <3>1, <3>2, <3>3, Untouched DEF Lineage, Standing
      <3>5. mints = tx.id - 1
        BY <2>1, <2>2, <3>1 DEF Lineage, Counted, Minting
      <3>6. Req.task \in Replicas
        BY <2>1, <3>2, <3>3, <3>4, <3>5, ReplicasAre DEF Led
      <3>7. QED  BY <2>2, <3>2, <3>6
    <2>5. ~tx.pristine => \E t \in Replicas : Foreman(t).id = Req.by
      BY <2>1, <2>2, <2>3, <2>4 DEF Decided
    <2>6. QED  BY <2>2, <2>5
  <1>2. IInv => NewestDecides
    BY <1>1 DEF NewestDecides
  <1>3. QED  BY <1>2, Invariance, PTL

\* The bootstrap capability is marked and gone whenever the root is even and the
\* goal has a FOREMAN, and it is never gone without its mark.
THEOREM BootstrapIsOnce == Spec => []BootstrapOnce
  <1>1. ASSUME Core PROVE BootstrapOnce
    <2>1. SomeoneLed /\ Consumed /\ TypeOK
      BY <1>1 DEF Core
    <2>2. tx = None => (bootstrap.file <=> Led = {}) /\ (bootstrap.consumed <=> Led # {})
      BY <2>1 DEF Consumed
    <2>3. bootstrap.file \in BOOLEAN /\ bootstrap.consumed \in BOOLEAN
      BY <2>1 DEF TypeOK
    <2>4. (~bootstrap.file => bootstrap.consumed) /\ (bootstrap.consumed => Led # {})
      <3>1. CASE tx = None \/ Req.kind # "bootstrap" \/ tx.installed = {}
        BY <2>1, <2>3, <3>1 DEF Consumed
      <3>2. CASE tx # None /\ Req.kind = "bootstrap" /\ tx.installed # {}
        <4>1. ~bootstrap.file => bootstrap.consumed
          BY <2>1, <3>2 DEF Consumed
        <4>2. Led # {}
          BY <2>1, <3>2 DEF SomeoneLed
        <4>3. QED  BY <4>1, <4>2
      <3>3. QED  BY <3>1, <3>2
    <2>5. QED  BY <2>2, <2>4 DEF BootstrapOnce
  <1>2. QED  BY <1>1, CoreInvariance, PTL

\* When no FOREMAN of the newest generation is live, one of the three ways to a
\* successor is open.
THEOREM SuccessorCanCome == Spec /\ []~SupersededJoins => []SuccessionOpen
  <1>1. ASSUME IInv, tx = None, Led # {}, NEW o \in Task, tasks[o].open,
               \A t \in Replicas : ~Foreman(t).live
        PROVE  \E t \in Task :
                  \/ CaptainCanSubmitForemanRoleLost(t)
                  \/ tasks[t].open /\ AdmissibleSuccession(t)
                  \/ AdmissibleRecovery(t)
    <2>1. TypeOK /\ Lineage /\ LostIsPending
      BY <1>1 DEF IInv, Core, Lineage
    <2>2. /\ Coherent /\ Replicas # {} /\ Replicas \subseteq Task
          /\ Replicas = {t \in Led : Foreman(t).id = mints}
      BY <1>1, <2>1, ReplicasAre DEF Led
    <2>3. CASE CaptainPath
      BY <2>2, <2>3 DEF CaptainPath, Sources
    <2>4. CASE ~CaptainPath
      <3>1. Holders \subseteq Replicas
        BY <1>1, <2>1, <2>2 DEF Lineage, EvenLineage, LineageOf, Holders, Led, Foreman
      <3>2. ASSUME NEW s \in Sources PROVE Expired(s)
        <4>1. s \in Task /\ s \in Led /\ ~Foreman(s).live
          BY <1>1, <2>2, <3>2 DEF Sources, Replicas
        <4>2. Foreman(s).status \in {"active", "systemError", "lost"}
          BY <2>1, <4>1, TaskType DEF Led, Foremen
        <4>3. Foreman(s).status = "lost" /\ tasks[s].open => Recovering(s, "FOREMAN")
          BY <2>1, <4>1 DEF LostIsPending, Led
        <4>4. QED  BY <4>1, <4>2, <4>3 DEF Expired, Eligible
      <3>3. CASE Holders # {}
        <4>1. PICK t \in Holders : t \in Task
          BY <3>3 DEF Holders, Led
        <4>2. AdmissibleRecovery(t)
          BY <2>2, <2>4, <3>1, <3>2, <3>3, <4>1 DEF AdmissibleRecovery, RecoveryScope, Sources
        <4>3. QED  BY <4>1, <4>2
      <3>4. CASE Holders = {}
        <4>1. AdmissibleRecovery(o)
          BY <1>1, <2>2, <2>4, <3>2, <3>4 DEF AdmissibleRecovery, RecoveryScope, Sources
        <4>2. QED  BY <4>1
      <3>5. QED  BY <3>3, <3>4
    <2>5. QED  BY <2>3, <2>4
  <1>2. IInv => SuccessionOpen
    BY <1>1 DEF SuccessionOpen
  <1>3. QED  BY <1>2, Invariance, PTL

-----------------------------------------------------------------------------
(* Refinement: a goal changes its FOREMAN in one step, when the root opens. *)

LeadSeen == [t \in Task |-> IF Seen(t).foreman = None THEN 0 ELSE Seen(t).foreman.attempt]
OpenSeen == {t \in Task : Seen(t).open}
Number == IF tx = None THEN mints ELSE tx.id - 1

\* The generations that are seen: the newest is the one that is counted.
LEMMA SeenLineage ==
    ASSUME IInv
    PROVE  /\ Number \in Nat /\ LeadSeen \in [Task -> 0..Number]
           /\ \A t \in OpenSeen : LeadSeen[t] # 0 => LeadSeen[t] = Number
           /\ \E t \in Task : LeadSeen[t] = Number
           /\ \A t \in Task : LeadSeen[t] = 0 <=> Seen(t).foreman = None
  <1>1. PICK b \in [Task -> Tasks] : LineageOf(b, Number) /\ \A t \in Task : Seen(t) = b[t]
    <2>1. CASE tx = None
      BY <2>1 DEF IInv, Core, TypeOK, EvenLineage, Number, Seen
    <2>2. CASE tx # None
      BY <2>2, TxType DEF IInv, Core, BeginLineage, Number, Seen
    <2>3. QED  BY <2>1, <2>2
  <1>2. Number \in Nat
    <2>1. CASE tx = None
      BY <2>1, GoalAssumption DEF IInv, Core, TypeOK, Number
    <2>2. CASE tx # None
      <3>1. tx.id \in Nat /\ mints \in Nat
        BY <2>2, TxType DEF IInv, Core
      <3>2. tx.id # 0
        <4>1. SUFFICES ASSUME tx.id = 0 PROVE FALSE
          OBVIOUS
        <4>2. mints = tx.id /\ tx.installed # {} /\ Req.kind \in Minting
          BY <2>2, <3>1, <4>1 DEF IInv, Core, Counted
        <4>3. mints # 0
          <5>1. PICK t \in tx.installed : TRUE
            BY <4>2
          <5>2. QED  BY <2>2, <4>2, <5>1 DEF IInv, Core, Standing, Minting
        <4>4. QED  BY <4>1, <4>2, <4>3
      <3>3. QED  BY <2>2, <3>1, <3>2 DEF Number
    <2>3. QED  BY <2>1, <2>2
  <1>3. \A t \in Task : LeadSeen[t] = IF b[t].foreman = None THEN 0 ELSE b[t].foreman.attempt
    BY <1>1 DEF LeadSeen
  <1>4. \A t \in Task : b[t].foreman # None =>
           /\ b[t].foreman.attempt = b[t].foreman.id /\ b[t].foreman.id \in 1..Number
           /\ b[t].open => b[t].foreman.id = Number
    BY <1>1 DEF LineageOf
  <1>5. \A t \in Task : LeadSeen[t] \in 0..Number /\ (LeadSeen[t] = 0 <=> b[t].foreman = None)
    BY <1>2, <1>3, <1>4
  <1>6. LeadSeen \in [Task -> 0..Number]
    BY <1>5 DEF LeadSeen
  <1>7. \A t \in OpenSeen : LeadSeen[t] # 0 => LeadSeen[t] = Number
    BY <1>1, <1>3, <1>4 DEF OpenSeen
  <1>8. \E t \in Task : LeadSeen[t] = Number
    <2>1. CASE Number = 0
      <3>1. PICK t \in Task : TRUE
        BY GoalAssumption
      <3>2. QED  BY <1>5, <2>1, <3>1
    <2>2. CASE Number # 0
      BY <1>1, <1>3, <1>4, <2>2 DEF LineageOf
    <2>3. QED  BY <2>1, <2>2
  <1>9. QED  BY <1>1, <1>2, <1>5, <1>6, <1>7, <1>8

\* The promise reads the same newest generation and the same holders.
LEMMA NewestIs ==
    ASSUME IInv
    PROVE  /\ A!Newest = Number
           /\ A!Holders = {t \in Task : Seen(t).open /\ Seen(t).foreman # None}
  <1>1. /\ Number \in Nat /\ LeadSeen \in [Task -> 0..Number]
        /\ \E t \in Task : LeadSeen[t] = Number
        /\ \A t \in Task : LeadSeen[t] = 0 <=> Seen(t).foreman = None
    BY SeenLineage
  <1> DEFINE S == {LeadSeen[t] : t \in Task}
             Top(g) == \A t \in Task : LeadSeen[t] <= g
  <1>2. Number \in S /\ Top(Number) /\ \A g \in S : Top(g) => g = Number
    BY <1>1
  <1>3. (CHOOSE g \in S : Top(g)) = Number
    <2> HIDE DEF S, Top
    <2>1. QED  BY <1>2
  <1>4. A!Newest = CHOOSE g \in S : Top(g)
    BY DEF A!Newest, LeadSeen
  <1>5. A!Holders = {t \in OpenSeen : LeadSeen[t] # 0}
    BY DEF A!Holders, LeadSeen, OpenSeen
  <1>6. QED  BY <1>1, <1>3, <1>4, <1>5 DEF OpenSeen

\* Nothing that is seen has changed.
LEMMA Stutters ==
    ASSUME LeadSeen' = LeadSeen, OpenSeen' = OpenSeen
    PROVE  UNCHANGED A!vars
  BY DEF A!vars, LeadSeen, OpenSeen

\* Until the root opens nothing is seen.
LEMMA OddStutters ==
    ASSUME tx # None, tx' # None, tx'.before = tx.before
    PROVE  UNCHANGED A!vars
  <1>1. \A t : Seen(t)' = Seen(t)
    BY DEF Seen
  <1>2. LeadSeen' = LeadSeen /\ OpenSeen' = OpenSeen
    BY <1>1 DEF LeadSeen, OpenSeen
  <1>3. QED  BY <1>2, Stutters

\* What is seen when it does.
LEMMA SeenAtLast ==
    ASSUME IInv, tx # None, tx' = None, UNCHANGED <<tasks, mints>>
    PROVE  /\ OpenSeen' = OpenSeen
           /\ LeadSeen' = [t \in Task |->
                  IF t \in tx.installed /\ Req.kind # "captain" THEN mints ELSE LeadSeen[t]]
  <1>1. TypeOK /\ Standing
    BY DEF IInv, Core
  <1>2. \A t \in Task : Seen(t) = tx.before[t] /\ Seen(t)' = tasks[t]
    BY DEF Seen
  <1>3. OpenSeen' = OpenSeen
    BY <1>1, <1>2 DEF OpenSeen, Standing
  <1>4. ASSUME NEW t \in Task
        PROVE  LeadSeen'[t] =
                  IF t \in tx.installed /\ Req.kind # "captain" THEN mints ELSE LeadSeen[t]
    <2>1. LeadSeen'[t] = IF Foreman(t) = None THEN 0 ELSE Foreman(t).attempt
      BY <1>2 DEF LeadSeen, Foreman
    <2>2. LeadSeen[t] =
              IF tx.before[t].foreman = None THEN 0 ELSE tx.before[t].foreman.attempt
      BY <1>2 DEF LeadSeen
    <2>3. CASE t \in tx.installed /\ Req.kind # "captain"
      BY <1>1, <2>1, <2>3 DEF Standing
    <2>4. CASE t \notin tx.installed \/ Req.kind = "captain"
      <3>1. Bound(Foreman(t)) = Bound(tx.before[t].foreman)
        BY <1>1, <2>4 DEF Standing
      <3>2. /\ Foreman(t) = None <=> tx.before[t].foreman = None
            /\ Foreman(t) # None => Foreman(t).attempt = tx.before[t].foreman.attempt
        BY <1>1, <3>1, TaskType, TxType, BoundSame
      <3>3. QED  BY <2>1, <2>2, <2>4, <3>2
    <2>5. QED  BY <2>3, <2>4
  <1>5. LeadSeen' = [t \in Task |-> LeadSeen'[t]]
    BY DEF LeadSeen
  <1>6. QED  BY <1>3, <1>4, <1>5

\* Nothing is decided by a request that did nothing, by a CAPTAIN or by an epoch.
LEMMA OpensUnmoved ==
    ASSUME IInv, tx # None, tx' = None, UNCHANGED <<tasks, mints>>,
           tx.installed = {} \/ Req.kind = "captain"
    PROVE  UNCHANGED A!vars
  <1>1. LeadSeen' = [t \in Task |-> LeadSeen[t]] /\ OpenSeen' = OpenSeen
    BY SeenAtLast
  <1>2. LeadSeen' = LeadSeen
    BY <1>1 DEF LeadSeen
  <1>3. QED  BY <1>1, <1>2, Stutters

\* A bootstrap founds, a registration joins or succeeds, a recovery succeeds or lets
\* an open task inherit.
LEMMA OpensMoved ==
    ASSUME IInv, tx # None, tx' = None, UNCHANGED <<tasks, mints>>,
           tx.installed = tx.targets, tx.installed # {}, Req.kind # "captain"
    PROVE  A!Next
  <1>1. TypeOK /\ Lineage /\ Planned /\ Counted /\ Standing
    BY DEF IInv, Core, Lineage
  <1>2. /\ OpenSeen' = OpenSeen
        /\ LeadSeen' = [t \in Task |-> IF t \in tx.targets THEN mints ELSE LeadSeen[t]]
    BY SeenAtLast
  <1>3. Number = tx.id - 1 /\ tx.id \in Nat /\ Number \in Nat /\ mints \in Nat
    BY <1>1, TxType, SeenLineage DEF Number
  <1>4. /\ A!Newest = Number /\ A!Holders = HeldBefore
        /\ \A t \in Task : LeadSeen[t] = 0 <=> tx.before[t].foreman = None
        /\ OpenSeen = {t \in Task : tx.before[t].open}
    BY NewestIs, SeenLineage DEF HeldBefore, Seen, OpenSeen
  <1>5. Req.kind \in {"bootstrap", "succeed", "recover", "join"} /\ Req.kind # "control"
    BY <1>1, TxType DEF Prepared, Minting, Planned, Aimed
  <1>6. /\ Req.kind \in Minting => mints = Number + 1
        /\ Req.kind = "join" => mints = Number
        /\ mints # 0
    <2>1. PICK t \in tx.installed : mints # 0
      BY DEF IInv, Core, Standing
    <2>2. QED  BY <1>1, <1>3, <2>1 DEF Counted, Minting
  <1>7. ASSUME NEW t \in Task, tx.targets = {t}
        PROVE  LeadSeen' = [LeadSeen EXCEPT ![t] = mints]
    BY <1>2, <1>7 DEF LeadSeen
  <1>8. CASE Req.kind = "bootstrap"
    <2>1. PICK t \in Task : tx.targets = {t}
      BY <1>1, <1>8 DEF Planned, Aimed
    <2>2. mints = 1 /\ A!Newest = 0
      BY <1>1, <1>3, <1>4, <1>6, <1>8 DEF Planned, Aimed, Minting
    <2>3. LeadSeen' = [LeadSeen EXCEPT ![t] = 1]
      BY <1>7, <2>1, <2>2
    <2>4. A!Found(t)
      BY <1>2, <2>2, <2>3 DEF A!Found, LeadSeen, OpenSeen
    <2>5. QED  BY <2>4 DEF A!Next
  <1>9. CASE Req.kind = "join"
    <2>1. PICK t \in Task : tx.targets = {t} /\ tx.before[t].foreman = None /\ tx.before[t].open
      BY <1>1, <1>9 DEF Planned, Aimed
    <2>2. mints = A!Newest /\ A!Newest # 0
      BY <1>4, <1>6, <1>9
    <2>3. LeadSeen' = [LeadSeen EXCEPT ![t] = A!Newest]
      BY <1>7, <2>1, <2>2
    <2>4. t \in OpenSeen /\ LeadSeen[t] = 0
      BY <1>4, <2>1
    <2>5. A!Join(t)
      BY <1>2, <2>2, <2>3, <2>4 DEF A!Join, LeadSeen, OpenSeen
    <2>6. QED  BY <2>5 DEF A!Next
  <1>10. CASE Req.kind \in {"succeed", "recover"} /\ tx.targets = HeldBefore
    <2>1. A!Newest + 1 = mints /\ A!Holders # {} /\ A!Holders = tx.targets
      BY <1>4, <1>6, <1>10 DEF Minting
    <2>2. LeadSeen' = [t \in Task |-> IF t \in A!Holders THEN A!Newest + 1 ELSE LeadSeen[t]]
      BY <1>2, <2>1
    <2>3. A!Succeed
      BY <1>2, <2>1, <2>2 DEF A!Succeed, LeadSeen, OpenSeen
    <2>4. QED  BY <2>3 DEF A!Next
  <1>11. CASE Req.kind = "recover" /\ tx.targets # HeldBefore
    <2>1. PICK t \in Task : HeldBefore = {} /\ tx.targets = {t} /\ tx.before[t].open
      BY <1>1, <1>11 DEF Planned, Aimed
    <2>2. A!Newest + 1 = mints /\ A!Newest # 0
      BY <1>1, <1>3, <1>4, <1>6, <1>11 DEF Planned, Aimed, Minting
    <2>3. LeadSeen' = [LeadSeen EXCEPT ![t] = A!Newest + 1]
      BY <1>7, <2>1, <2>2
    <2>4. t \in OpenSeen /\ A!Holders = {}
      BY <1>4, <2>1
    <2>5. A!Inherit(t)
      BY <1>2, <2>2, <2>3, <2>4 DEF A!Inherit, LeadSeen, OpenSeen
    <2>6. QED  BY <2>5 DEF A!Next
  <1>12. QED
    BY <1>1, <1>5, <1>8, <1>9, <1>10, <1>11 DEF Planned, Aimed

\* No event of a task but its last one closes it.
LEMMA OwnOpens ==
    ASSUME TypeOK, NEW t \in Task, Own(t), ~Archive(t)
    PROVE  \A u \in Task : tasks'[u].open = tasks[u].open
  <1>1. tasks[t] \in Tasks /\ tasks \in [Task -> Tasks]
    BY TaskType DEF TypeOK
  <1>2. tasks'[t].open = tasks[t].open /\ \A u \in Task : u # t => tasks'[u] = tasks[u]
    <2>1. CASE Heartbeat(t)
      BY <1>1, <2>1 DEF Heartbeat, TaskEvent, Tasks
    <2>2. CASE ReportSystemError(t)
      BY <1>1, <2>2 DEF ReportSystemError, TaskEvent, Tasks
    <2>3. CASE ForemanLost(t)
      BY <1>1, <2>3 DEF ForemanLost, TaskEvent, Tasks
    <2>4. CASE CaptainLost(t)
      BY <1>1, <2>4 DEF CaptainLost, TaskEvent, Tasks
    <2>5. CASE RoleRecovered(t)
      BY <1>1, <2>5 DEF RoleRecovered, TaskEvent, Tasks
    <2>6. CASE ControlReconciled(t)
      BY <1>1, <2>6 DEF ControlReconciled, TaskEvent, Tasks
    <2>7. QED  BY <2>1, <2>2, <2>3, <2>4, <2>5, <2>6 DEF Own
  <1>3. QED  BY <1>1, <1>2

\* At an even root a task goes on under who leads it, or is archived.
LEMMA TaskRefines ==
    ASSUME IInv, NEW t \in Task, LeaseExpires(t) \/ CaptainExpires(t) \/ Own(t)
    PROVE  [A!Next]_(A!vars)
  <1>1. TypeOK /\ LostIsPending
    BY DEF IInv, Core
  <1>2. UNCHANGED <<epoch, tx>> /\ \E y : Follows(tasks[t], y) /\ Changed(t, y)
    BY <1>1, OwnEffect, ClockEffect
  <1>3. CASE tx # None
    BY <1>2, <1>3, OddStutters
  <1>4. CASE tx = None
    <2>1. PICK y : Follows(tasks[t], y) /\ Changed(t, y)
      BY <1>2
    <2>2. \A u \in Task : /\ tasks'[u].foreman = None <=> tasks[u].foreman = None
                          /\ tasks[u].foreman # None =>
                               tasks'[u].foreman.attempt = tasks[u].foreman.attempt
      BY <1>1, <1>2, <2>1, FollowsFrame
    <2>3. \A u \in Task : Seen(u) = tasks[u] /\ Seen(u)' = tasks'[u]
      BY <1>2, <1>4 DEF Seen
    <2>4. LeadSeen' = LeadSeen
      BY <2>2, <2>3 DEF LeadSeen
    <2>5. CASE \A u \in Task : tasks'[u].open = tasks[u].open
      <3>1. OpenSeen' = OpenSeen
        BY <2>3, <2>5 DEF OpenSeen
      <3>2. QED  BY <2>4, <3>1, Stutters
    <2>6. CASE Archive(t)
      <3>1. tasks[t].open /\ Foreman(t) # None
        BY <2>6 DEF Archive, Leads, Led
      <3>2. t \in A!Holders
        BY <2>3, <3>1, NewestIs DEF Foreman
      <3>3. ~tasks'[t].open /\ \A u \in Task : u # t => tasks'[u] = tasks[u]
        BY <1>1, <2>6, TaskType DEF Archive, TaskEvent, TypeOK, Tasks
      <3>4. OpenSeen' = OpenSeen \ {t}
        BY <2>3, <3>3 DEF OpenSeen
      <3>5. A!Archive(t)
        BY <2>4, <3>2, <3>4 DEF A!Archive, LeadSeen, OpenSeen
      <3>6. QED  BY <3>5 DEF A!Next
    <2>7. CASE LeaseExpires(t) \/ CaptainExpires(t)
      <3>1. PICK z : Changed(t, z) /\ z.open = tasks[t].open
        BY <1>1, <2>7, ClockEffect
      <3>2. \A u \in Task : tasks'[u].open = tasks[u].open
        BY <1>1, <3>1 DEF Changed, TypeOK
      <3>3. QED  BY <2>5, <3>2
    <2>8. CASE Own(t) /\ ~Archive(t)
      BY <1>1, <2>5, <2>8, OwnOpens
    <2>9. QED  BY <2>6, <2>7, <2>8
  <1>5. QED  BY <1>3, <1>4

\* A step of the process that holds the root lock is one of the promise, or none.
LEMMA StepRefines ==
    ASSUME IInv, ~SupersededJoins, Step
    PROVE  [A!Next]_(A!vars)
  <1>1. TypeOK /\ Lineage /\ Planned /\ Progress /\ LostIsPending
    BY DEF IInv, Core, Lineage
  <1>2. ASSUME Furthers PROVE UNCHANGED A!vars
    BY <1>2, OddStutters DEF Furthers, Same
  <1>3. CASE Admit \/ Sealing \/ CommitBatch
    BY <1>1, <1>2, <1>3, AdmitEffect, SealingEffect, CommitEffect
  <1>4. CASE Install
    <2>1. Same
      BY <1>1, <1>4, InstallFrame DEF Planned
    <2>2. QED  BY <2>1, OddStutters DEF Same
  <1>5. CASE AdvanceControlEpoch \/ MarkConsumed \/ DeleteBootstrap
    <2>1. tx # None /\ tx' = tx
      BY <1>1, <1>5 DEF AdvanceControlEpoch, MarkConsumed, DeleteBootstrap, TypeOK
    <2>2. QED  BY <2>1, OddStutters
  <1>6. CASE Refuse
    <2>1. /\ pc = "callback" /\ UNCHANGED <<tasks, mints>> /\ tx # None
          /\ tx' # None => Furthers
      BY <1>1, <1>6, RefuseEffect
    <2>2. tx.installed = {}
      BY <1>1, <2>1 DEF Progress
    <2>3. QED  BY <1>2, <2>1, <2>2, OpensUnmoved
  <1>7. CASE Close
    <2>1. pc = "close" /\ tx # None /\ tx' = None /\ UNCHANGED <<tasks, mints>>
      BY <1>1, <1>7 DEF Close, TypeOK
    <2>2. tx.installed = {} \/ tx.installed = tx.targets
      BY <1>1, <2>1 DEF Progress, Planned, Aimed
    <2>3. QED  BY <2>1, <2>2, OpensUnmoved, OpensMoved
  <1>8. QED  BY <1>3, <1>4, <1>5, <1>6, <1>7 DEF Step, Sealing

\* However many events and crashes it takes, a goal changes its FOREMAN in one step:
\* the one in which the root opens again.
THEOREM Refinement == Spec /\ []~SupersededJoins => ImplementsAtomicForeman
  <1>1. Init => A!Init
    <2>1. SUFFICES ASSUME Init PROVE LeadSeen = [t \in Task |-> 0] /\ OpenSeen = Task
      BY DEF A!Init, LeadSeen, OpenSeen
    <2>2. \A t \in Task : Seen(t).foreman = None /\ Seen(t).open
      BY <2>1 DEF Init, Seen, Blank
    <2>3. QED  BY <2>2 DEF LeadSeen, OpenSeen
  <1>2. IInv /\ ~SupersededJoins /\ [Next]_vars => [A!Next]_(A!vars)
    <2> SUFFICES ASSUME IInv, ~SupersededJoins, [Next]_vars PROVE [A!Next]_(A!vars)
      OBVIOUS
    <2>1. CASE Step
      BY <2>1, StepRefines
    <2>2. CASE Retry
      <3>1. Furthers
        BY <2>2, RetryEffect DEF IInv, Core
      <3>2. QED  BY <3>1, OddStutters DEF Furthers, Same
    <2>3. CASE Stop
      <3>1. tx # None /\ tx' = tx
        BY <2>3 DEF Stop, IInv, Core, TypeOK
      <3>2. QED  BY <3>1, OddStutters
    <2>4. CASE \E r \in Request : Begin(r)
      <3>1. tx = None /\ tx' # None /\ tx'.before = tasks
        BY <2>4, BeginEffect DEF IInv, Core, Lineage, Even
      <3>2. \A t : Seen(t)' = Seen(t)
        BY <3>1 DEF Seen
      <3>3. LeadSeen' = LeadSeen /\ OpenSeen' = OpenSeen
        BY <3>2 DEF LeadSeen, OpenSeen
      <3>4. QED  BY <3>3, Stutters
    <2>5. CASE \E t \in Task : LeaseExpires(t) \/ CaptainExpires(t) \/ Own(t)
      BY <2>5, TaskRefines
    <2>6. CASE UNCHANGED vars
      <3>1. \A t : Seen(t)' = Seen(t)
        BY <2>6 DEF vars, Seen
      <3>2. LeadSeen' = LeadSeen /\ OpenSeen' = OpenSeen
        BY <3>1 DEF LeadSeen, OpenSeen
      <3>3. QED  BY <3>2, Stutters
    <2>7. QED  BY <2>1, <2>2, <2>3, <2>4, <2>5, <2>6 DEF Next
  <1>3. QED  BY <1>1, <1>2, Invariance, PTL DEF Spec, ImplementsAtomicForeman, A!Spec
=============================================================================
