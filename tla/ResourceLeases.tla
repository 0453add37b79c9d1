--------------------------- MODULE ResourceLeases ---------------------------
(***************************************************************************)
(* The resource leases of one task (resources.js): acquire, renew and      *)
(* release, each a transaction of withLock whose callback installs several *)
(* files, over a clock, sessions that end and holds that come and go.      *)
(*                                                                         *)
(* The ledger is kept as what it folds to: the set of accepted event ids,  *)
(* the leases and the fencing tokens. The writer lock is not modelled (one *)
(* command at a time, a dead one is reaped), nor the installation of the   *)
(* two seals: StoreTransaction is about both. A crash leaves the odd seal, *)
(* bound to its request, and the residual of one file.                     *)
(***************************************************************************)
EXTENDS Naturals, FiniteSets

CONSTANTS
    Lease,        \* acquire requests, and the leases they ask for
    Session,      \* exact worker sessions: role, thread, host, attempt
    Resource,
    Owner,        \* who asks for a lease, and for which resource
    On,
    Ttl,          \* ttl_ms of every request
    Term,         \* lease_ms of every heartbeat
    None,
    MaxTime,      \* bound on the clock
    MaxRevision,  \* bound on the revision of an ACTIVE lease
    MaxFaults     \* bound on crashes

ASSUME LeaseAssumption ==
    /\ Owner \in [Lease -> Session] /\ On \in [Lease -> Resource]
    /\ {Ttl, Term} \subseteq Nat \ {0}
    /\ {MaxTime, MaxRevision, MaxFaults} \subseteq Nat

VARIABLES
    exclusive, \* the acquires with EXCLUSIVE access
    now,
    until,     \* lease_until of each session; 0 when its work is done
    hold,      \* the task's hard hold
    archived,
    seal,      \* the odd generation: its request and transaction_started_at
    residual,  \* the file the transport was installing
    intent,    \* acquire-intents/<event>/intent.json
    secret,    \* the owner capability file there
    receipt,   \* capability-receipt.json
    events,    \* accepted resource events
    lease,     \* state.leases
    tokens,    \* state.fencing_tokens
    head,      \* head.json's event_count
    pc, req, kind, abort, preserve, at,   \* the command inside withLock
    faults

goal == <<until, hold, archived>>
ledger == <<events, lease, tokens>>
acquiring == <<intent, secret, receipt>>
files == <<ledger, head, acquiring>>
locals == <<req, kind, abort, preserve, at>>
vars == <<exclusive, now, goal, seal, residual, files, pc, locals, faults>>

Operation == {"acquire", "renew", "release"}
Request == [op : Operation, lease : Lease, rev : 0..MaxRevision]

\* The files a callback installs; in "repair" it installs a lagging head.
File == {"intent", "secret", "receipt", "event", "head", "projection"}
Writing == File \cup {"repair"}
PCs == Writing \cup
    {"idle", "rebuild", "decide", "promote", "purge", "grant", "cleanup",
     "erase", "close"}

Init ==
    /\ exclusive \in SUBSET Lease /\ now = 0
    /\ until = [s \in Session |-> Term]
    /\ hold = "none" /\ archived = FALSE
    /\ seal = None /\ residual = None
    /\ intent = [l \in Lease |-> None]
    /\ secret = [l \in Lease |-> 0] /\ receipt = [l \in Lease |-> 0]
    /\ events = {} /\ lease = [l \in Lease |-> None]
    /\ tokens = [r \in Resource |-> 0] /\ head = 0
    /\ pc = "idle" /\ req = None /\ kind = None
    /\ abort = FALSE /\ preserve = FALSE /\ at = 0
    /\ faults = 0

-----------------------------------------------------------------------------
(* Sessions, leases, tokens. *)

Count == Cardinality(events)
Acquire(l) == [op |-> "acquire", lease |-> l, rev |-> 0]
Done == req \in events
Subject == req.lease

\* acquireAuthorityUsableAt
UsableAt(s, t) == until[s] > t

Active(l) == lease[l] # None /\ lease[l].status = "ACTIVE"
GrantedAt(l) == lease[l].expires - Ttl    \* when it was acquired or last renewed
Expired(l, t) == lease[l].expires <= t
Aborted(l) == Acquire(l) \in events /\ lease[l] = None
Pending(l) == intent[l] # None /\ Acquire(l) \notin events

\* Mutant: an expired lease frees its resource.
OccupantsUnexpired(r) ==
    {l \in Lease : On[l] = r /\ Active(l) /\ ~Expired(l, now)}

\* The leases that are not terminal: an expired one still occupies.
Occupants(r) == {l \in Lease : On[l] = r /\ Active(l)}

\* RESOURCE_STALE_REQUIRES_REAP, RESOURCE_CONFLICT
Free(l) ==
    \A m \in Occupants(On[l]) :
        /\ ~Expired(m, now)
        /\ l \notin exclusive /\ m \notin exclusive

\* resourceRenewalPolicy: a quarter of the term, at least one tick.
Lead == IF Ttl \div 4 > 1 THEN Ttl \div 4 ELSE 1
InWindow(l, t) == ~Expired(l, t) /\ lease[l].expires - t <= Lead

\* assertRuntimeRotationLeaseCurrent: nobody got the resource since.
Current(l, t) ==
    /\ tokens[On[l]] = lease[l].token
    /\ \A m \in Occupants(On[l]) \ {l} : Expired(m, t)

\* runtimeRotationExpiredRenewalBoundary: an expired lease may be kept only
\* under an ENV identity hold, by its live owner.
Preservable(l, t) == hold = "env" /\ UsableAt(Owner[l], t) /\ Current(l, t)

\* assertOwnerCapabilityDisclosureBoundary
Disclosable(l, t) ==
    hold # "none" =>
        /\ hold = "env" /\ Active(l) /\ UsableAt(Owner[l], t) /\ Current(l, t)
        /\ Expired(l, t) \/ InWindow(l, t)

-----------------------------------------------------------------------------
(* Time, and the Goal events that matter to leases. They are transactions  *)
(* of their own, which no odd seal lets through.                           *)

GoalEvent ==
    /\ seal = None /\ ~archived
    /\ UNCHANGED <<exclusive, now, seal, residual, files, pc, locals, faults>>

Tick ==
    /\ now < MaxTime
    /\ now' = now + 1
    /\ UNCHANGED <<exclusive, goal, seal, residual, files, pc, locals, faults>>

\* HEARTBEAT renews the session of a live actor.
Heartbeat(s) ==
    /\ UsableAt(s, now)
    /\ until' = [until EXCEPT ![s] = now + Term]
    /\ GoalEvent /\ UNCHANGED <<hold, archived>>

\* The role's work is done; a session merely lost is one that stops beating.
EndSession(s) ==
    /\ until[s] # 0
    /\ until' = [until EXCEPT ![s] = 0]
    /\ GoalEvent /\ UNCHANGED <<hold, archived>>

AddHold(h) ==
    /\ hold = "none"
    /\ hold' = h
    /\ GoalEvent /\ UNCHANGED <<until, archived>>

ClearHold ==
    /\ hold # "none"
    /\ hold' = "none"
    /\ GoalEvent /\ UNCHANGED <<until, archived>>

\* ARCHIVE_RESOURCE_LEASES_ACTIVE
Archive ==
    /\ \A l \in Lease : ~Active(l)
    /\ archived' = TRUE
    /\ GoalEvent /\ UNCHANGED <<until, hold>>

-----------------------------------------------------------------------------
(* Entry: beforeGeneration, and the kind of recovery withLock grants.      *)

\* Mutant: a renewal is authorized whatever hold there is, and however late.
AuthorizedLate(r) ==
    LET l == r.lease
        usable == UsableAt(Owner[l], now) IN
    \/ r \in events
    \/ r.op = "acquire" /\ intent[l] = None /\ usable /\ hold = "none" /\ ~archived
    \/ r.op = "renew" /\ Active(l) /\ lease[l].revision = r.rev /\ usable
    \/ /\ r.op = "release" /\ Active(l) /\ lease[l].revision = r.rev
       /\ until[Owner[l]] = 0 \/ usable

\* A session that has ended may still release what it holds (allowTerminal).
ReleaseAuthorized(r) ==
    /\ Active(r.lease) /\ lease[r.lease].revision = r.rev
    /\ until[Owner[r.lease]] = 0 \/ UsableAt(Owner[r.lease], now)
    /\ hold = "none" /\ ~archived

\* What a fresh command has to show before anything is written.
Authorized(r) ==
    LET l == r.lease
        s == Owner[l] IN
    \/ r \in events
    \/ /\ r.op = "acquire"
       /\ intent[l] = None
       /\ UsableAt(s, now) /\ hold = "none" /\ ~archived
    \/ /\ r.op = "renew"
       /\ Active(l) /\ lease[l].revision = r.rev
       /\ UsableAt(s, now) /\ hold # "hard" /\ ~archived
       /\ InWindow(l, now) \/ (Expired(l, now) /\ Preservable(l, now))
    \/ r.op = "release" /\ ReleaseAuthorized(r)

Keeping(r) == r \notin events /\ r.op = "renew" /\ Expired(r.lease, now)

\* A fresh transaction: its key and start are sealed before the callback.
Start(r) ==
    /\ pc = "idle" /\ seal = None
    /\ r.op = "acquire" <=> r.rev = 0
    /\ r.op = "renew" => r.rev < MaxRevision
    /\ Authorized(r)
    /\ seal' = [key |-> r, started |-> now]
    /\ pc' = "rebuild" /\ req' = r /\ kind' = "FRESH"
    /\ abort' = FALSE /\ preserve' = Keeping(r)
    /\ UNCHANGED <<exclusive, now, goal, residual, files, at, faults>>

\* authorizeOddRecovery: the event, or the sealed intent of an acquire.
Witnessed(r) == r \in events \/ (r.op = "acquire" /\ intent[r.lease] # None)

\* An acquire that left nothing in the transport, and every renewal, is
\* closed as it stands and run afresh (ABORT_THEN_FRESH).
Aborts(r) ==
    /\ ~Witnessed(r)
    /\ r.op = "renew" \/ (r.op = "acquire" /\ residual = None)

Recovery(r) ==
    IF Witnessed(r) THEN "WITNESS"
    ELSE IF residual # None /\ residual.stage # "open" THEN "TRANSPORT"
    ELSE IF Aborts(r) \/ r.op = "release" THEN "PRISTINE"
    ELSE None    \* STORE_REPAIR_REQUIRED

\* assertHistoricalAuthorityUsableAt with allowTerminal.
ReleaseRetryAuthorized(r) == r.op = "release" /\ until[Owner[r.lease]] = 0

\* A session that was usable when the transaction began may finish it; the
\* hold's boundary of a renewal is looked at again, on today's clock.
RetryAuthorized(r) ==
    \/ Witnessed(r)
    \/ ReleaseRetryAuthorized(r)
    \/ /\ UsableAt(Owner[r.lease], seal.started)
       /\ r.op = "renew" /\ hold = "env" /\ Expired(r.lease, now)
              => Preservable(r.lease, now)

\* The exact request again, on the odd seal a crash left.
Retry ==
    /\ pc = "idle" /\ seal # None
    /\ RetryAuthorized(seal.key)
    /\ Recovery(seal.key) # None
    /\ pc' = "rebuild" /\ req' = seal.key /\ kind' = Recovery(seal.key)
    /\ abort' = Aborts(seal.key) /\ preserve' = Keeping(seal.key)
    /\ UNCHANGED <<exclusive, now, goal, seal, residual, files, at, faults>>

-----------------------------------------------------------------------------
(* The way out of withLock.                                                *)

Forget ==
    /\ pc' = "idle" /\ req' = None /\ kind' = None
    /\ abort' = FALSE /\ preserve' = FALSE /\ at' = 0

\* Mutant: a retry that refuses closes what it was to recover.
FailClosing ==
    /\ IF residual = None THEN pc' = "close" /\ UNCHANGED locals ELSE Forget
    /\ UNCHANGED <<exclusive, now, goal, seal, residual, files, faults>>

\* A callback that threw: only a transaction that recovered nothing and left
\* nothing in the transport is closed.
Fail ==
    /\ IF kind \in {"FRESH", "PRISTINE"} /\ residual = None
       THEN pc' = "close" /\ UNCHANGED locals
       ELSE Forget
    /\ UNCHANGED <<exclusive, now, goal, seal, residual, files, faults>>

\* STORE_ATOMIC_RESIDUAL_UNCONSUMED keeps the odd seal, too.
Close ==
    /\ pc = "close"
    /\ seal' = IF residual = None THEN None ELSE seal
    /\ Forget
    /\ UNCHANGED <<exclusive, now, goal, residual, files, faults>>

-----------------------------------------------------------------------------
(* Installing one file. A residual is resumed only with the same bytes.    *)

Installed == IF pc = "repair" THEN "head" ELSE pc

\* What makes the bytes of a file differ between two attempts: events and
\* projections carry the time of the attempt, a capability is random and its
\* receipt names it; intents carry transaction_started_at, heads a position.
Stamp ==
    CASE pc \in {"event", "projection"} -> at
      [] pc = "secret" -> faults + 1
      [] pc = "receipt" -> secret[Subject]
      [] pc \in {"head", "repair"} -> Count
      [] OTHER -> 0

Mine == residual # None /\ residual.file = Installed /\ residual.stamp = Stamp
Ready == residual = None \/ (Mine /\ residual.stage # "published")

\* Reservation and payload go before the file, and are removed after it.
Kept(stage) == residual' = [file |-> Installed, stamp |-> Stamp, stage |-> stage]

\* The process dies, perhaps while it makes the reservation of a file: what is
\* on disk stays.
Crash ==
    /\ pc # "idle"
    /\ faults < MaxFaults
    /\ faults' = faults + 1
    /\ \/ UNCHANGED residual
       \/ /\ pc \in Writing /\ residual = None
          /\ Kept("open") \/ Kept("ready")
    /\ Forget
    /\ UNCHANGED <<exclusive, now, goal, seal, files>>

\* STORE_ATOMIC_RESIDUAL_CONFLICT
Conflict ==
    /\ pc \in Writing
    /\ residual # None /\ ~Mine
    /\ Fail

Published == Kept("published")

\* writeAcquireIntent: the template binds the next token and the ledger's tail.
InstallIntent ==
    /\ pc = "intent" /\ Ready
    /\ intent' = [intent EXCEPT ![Subject] =
           [staged |-> TRUE, token |-> tokens[On[Subject]] + 1, count |-> Count]]
    /\ Published
    /\ UNCHANGED <<exclusive, now, goal, seal, ledger, head, secret, receipt, pc, locals, faults>>

InstallSecret ==
    /\ pc = "secret" /\ Ready
    /\ secret' = [secret EXCEPT ![Subject] = Stamp]
    /\ Published
    /\ UNCHANGED <<exclusive, now, goal, seal, ledger, head, intent, receipt, pc, locals, faults>>

InstallReceipt ==
    /\ pc = "receipt" /\ Ready
    /\ receipt' = [receipt EXCEPT ![Subject] = secret[Subject]]
    /\ Published
    /\ UNCHANGED <<exclusive, now, goal, seal, ledger, head, intent, secret, pc, locals, faults>>

InstallHead ==
    /\ pc \in {"head", "repair"} /\ Ready
    /\ head' = Count
    /\ Published
    /\ UNCHANGED <<exclusive, now, goal, seal, ledger, acquiring, pc, locals, faults>>

InstallProjection ==
    /\ pc = "projection" /\ Ready
    /\ Published
    /\ UNCHANGED <<exclusive, now, goal, seal, files, pc, locals, faults>>

\* applyResourceEvent. An acquire whose actor is no longer usable when its
\* event is made (LEASE_ACQUIRE_ABORTED) consumes its token all the same.
ApplyAcquire(l) ==
    /\ lease' = IF UsableAt(Owner[l], at)
                THEN [lease EXCEPT ![l] =
                        [status |-> "ACTIVE", revision |-> 1,
                         token |-> intent[l].token, expires |-> at + Ttl, secret |-> receipt[l]]]
                ELSE lease
    /\ tokens' = [tokens EXCEPT ![On[l]] = intent[l].token]

ApplyRenew(l) ==
    /\ lease' = [lease EXCEPT ![l].revision = @ + 1, ![l].expires = at + Ttl]
    /\ UNCHANGED tokens

ApplyRelease(l) ==
    /\ lease' = [lease EXCEPT ![l].revision = @ + 1, ![l].status = "RELEASED"]
    /\ UNCHANGED tokens

InstallEvent ==
    /\ pc = "event" /\ Ready
    /\ \/ req.op = "acquire" /\ ApplyAcquire(Subject)
       \/ req.op = "renew" /\ ApplyRenew(Subject)
       \/ req.op = "release" /\ ApplyRelease(Subject)
    /\ events' = events \cup {req}
    /\ Published
    /\ UNCHANGED <<exclusive, now, goal, seal, head, acquiring, pc, locals, faults>>

\* Where a callback goes when a file is installed and its residual removed.
After ==
    CASE pc = "intent" -> "promote"
      [] pc = "secret" -> "receipt"
      [] pc = "receipt" -> "grant"
      [] pc = "event" -> "head"
      [] pc = "head" -> "projection"
      [] pc = "repair" -> "decide"
      [] OTHER ->    \* the projection
            IF req.op = "release" THEN "erase"
            ELSE IF req.op = "acquire" /\ Aborted(Subject) THEN "cleanup"
            ELSE "close"

Clean ==
    /\ pc \in Writing /\ Mine /\ residual.stage = "published"
    /\ residual' = None
    /\ pc' = After
    /\ at' = IF After = "projection" THEN now ELSE 0    \* its generated_at
    /\ UNCHANGED <<exclusive, now, goal, seal, files, req, kind, abort, preserve, faults>>

-----------------------------------------------------------------------------
(* The callbacks.                                                          *)

\* STORE_PRISTINE_ABORT_RETRY, before anything else.
ThrowAbort ==
    /\ pc = "rebuild" /\ abort
    /\ Fail

Goto(label) ==
    /\ pc' = label
    /\ UNCHANGED <<exclusive, now, goal, seal, residual, files, locals, faults>>

\* rebuildUnlocked installs the head a dead command left behind its event.
Rebuild ==
    /\ pc = "rebuild" /\ ~abort
    /\ Goto(IF head < Count THEN "repair" ELSE "decide")

\* The event is there: answer what it says, and clean up after an abort.
Replay ==
    /\ pc = "decide" /\ Done
    /\ IF req.op = "acquire" /\ Aborted(Subject) THEN Goto("cleanup")
       ELSE IF req.op = "acquire" /\ ~Disclosable(Subject, now) THEN Fail
       ELSE Goto("close")

\* promoteAcquireIntent: the staging directory is renamed.
Promote ==
    /\ \/ pc = "promote"
       \/ pc = "decide" /\ ~Done /\ req.op = "acquire" /\ intent[Subject] # None
    /\ intent[Subject].staged
    /\ intent' = [intent EXCEPT ![Subject].staged = FALSE]
    /\ UNCHANGED <<exclusive, now, goal, seal, residual, ledger, head, secret, receipt, pc, locals, faults>>

\* RESOURCE_PENDING_OPERATION_CONFLICT otherwise.
IntentCurrent(l) ==
    intent[l].count = Count /\ intent[l].token = tokens[On[l]] + 1

\* A request with an intent has a decision to record, whatever it is.
DecideAcquire ==
    LET l == Subject
        usable == UsableAt(Owner[l], now) IN
    /\ pc = "decide" /\ ~Done /\ req.op = "acquire"
    /\ intent[l] # None => ~intent[l].staged
    /\ IF intent[l] # None /\ ~IntentCurrent(l) THEN Fail
       ELSE IF intent[l] # None /\ ~usable
       THEN /\ pc' = "event" /\ at' = now
            /\ UNCHANGED <<exclusive, now, goal, seal, residual, files, req, kind, abort, preserve, faults>>
       ELSE IF ~usable \/ ~Free(l) THEN Fail
       ELSE IF intent[l] = None THEN Goto("intent")
       ELSE Goto("purge")

Promoted ==
    /\ pc = "promote" /\ ~intent[Subject].staged
    /\ Goto("purge")

\* acquireOwnerCapability: a sealed receipt is taken as it is, a capability
\* without one is thrown away and minted again.
Purge ==
    /\ pc = "purge"
    /\ IF receipt[Subject] # 0
       THEN pc' = "grant" /\ UNCHANGED secret
       ELSE pc' = "secret" /\ secret' = [secret EXCEPT ![Subject] = 0]
    /\ UNCHANGED <<exclusive, now, goal, seal, residual, ledger, head, intent, receipt, locals, faults>>

\* finalNow: granted or aborted, by the actor's lease at this moment.
Grant ==
    /\ pc = "grant"
    /\ pc' = "event" /\ at' = now
    /\ UNCHANGED <<exclusive, now, goal, seal, residual, files, req, kind, abort, preserve, faults>>

\* A renewal's last look: the clock has moved since it was authorized.
StillRenewable(l) ==
    /\ UsableAt(Owner[l], now)
    /\ Active(l) /\ lease[l].revision = req.rev
    /\ IF preserve THEN Expired(l, now) /\ Preservable(l, now) ELSE InWindow(l, now)

\* assertLeaseMutable, of a release: an expired lease may be released.
Releasable(l) == Active(l) /\ lease[l].revision = req.rev

DecideOther ==
    /\ pc = "decide" /\ ~Done
    /\ \/ req.op = "renew" /\ StillRenewable(Subject)
       \/ req.op = "release" /\ Releasable(Subject)
    /\ pc' = "event" /\ at' = now
    /\ UNCHANGED <<exclusive, now, goal, seal, residual, files, req, kind, abort, preserve, faults>>

RefuseOther ==
    /\ pc = "decide" /\ ~Done
    /\ req.op = "renew" /\ ~StillRenewable(Subject)
    /\ Fail

\* cleanupAbortedAcquireIntent
Cleanup ==
    /\ pc = "cleanup"
    /\ secret' = [secret EXCEPT ![Subject] = 0]
    /\ receipt' = [receipt EXCEPT ![Subject] = 0]
    /\ pc' = "close"
    /\ UNCHANGED <<exclusive, now, goal, seal, residual, ledger, head, intent, locals, faults>>

\* A release removes the capability; failing to is not an error.
Erase ==
    /\ pc = "erase"
    /\ \E s \in {0, secret[Subject]} : secret' = [secret EXCEPT ![Subject] = s]
    /\ pc' = "close"
    /\ UNCHANGED <<exclusive, now, goal, seal, residual, ledger, head, intent, receipt, locals, faults>>

-----------------------------------------------------------------------------

Installing ==
    \/ Conflict \/ Clean
    \/ InstallIntent \/ InstallSecret \/ InstallReceipt
    \/ InstallEvent \/ InstallHead \/ InstallProjection

Callback ==
    \/ ThrowAbort \/ Rebuild \/ Replay
    \/ Promote \/ DecideAcquire \/ Promoted \/ Purge \/ Grant
    \/ DecideOther \/ RefuseOther
    \/ Cleanup \/ Erase

Next ==
    \/ Tick
    \/ \E s \in Session : Heartbeat(s) \/ EndSession(s)
    \/ \E h \in {"env", "hard"} : AddHold(h)
    \/ ClearHold \/ Archive
    \/ \E r \in Request : Start(r)
    \/ Retry \/ Close \/ Crash
    \/ Installing \/ Callback

Spec == Init /\ [][Next]_vars

-----------------------------------------------------------------------------
(* Properties.                                                             *)

Moment == 0..MaxTime
Secret == 0..MaxFaults + 1

Seals == [key : Request, started : Moment]
Residuals == [file : File, stamp : Nat, stage : {"open", "ready", "published"}]
Intents == [staged : BOOLEAN, token : Nat, count : Nat]
Granted ==
    [status : {"ACTIVE", "RELEASED"}, revision : Nat, token : Nat,
     expires : 0..MaxTime + Ttl, secret : Secret]

\* None is no value of any of these types.
ASSUME NoneAssumption ==
    None \notin Request \cup Seals \cup Residuals \cup Intents \cup Granted

\* Every variable has its type.
TypeOK ==
    /\ exclusive \subseteq Lease /\ now \in Moment
    /\ until \in [Session -> 0..MaxTime + Term]
    /\ hold \in {"none", "env", "hard"} /\ archived \in BOOLEAN
    /\ seal \in Seals \cup {None} /\ residual \in Residuals \cup {None}
    /\ intent \in [Lease -> Intents \cup {None}]
    /\ secret \in [Lease -> Secret] /\ receipt \in [Lease -> Secret]
    /\ events \subseteq Request /\ IsFiniteSet(events)
    /\ lease \in [Lease -> Granted \cup {None}]
    /\ tokens \in [Resource -> Nat] /\ head \in Nat
    /\ pc \in PCs /\ req \in Request \cup {None}
    /\ kind \in {None, "FRESH", "WITNESS", "TRANSPORT", "PRISTINE"}
    /\ abort \in BOOLEAN /\ preserve \in BOOLEAN
    /\ at \in Moment /\ faults \in 0..MaxFaults

\* Two leases are ACTIVE on one resource only if both share it, whether or not
\* either has expired (RESOURCE_CONFLICT, resources.js acquireLeaseOnce).
ExclusiveUse ==
    \A l, m \in Lease :
        l # m /\ On[l] = On[m] /\ Active(l) /\ Active(m) =>
            l \notin exclusive /\ m \notin exclusive

\* An undecided intent belongs to the transaction whose seal is odd, and is
\* still bound to the end of the ledger: RESOURCE_PENDING_OPERATION_CONFLICT
\* is never met, whatever the order of crashes, retries and other commands.
PendingOwnsTheTail ==
    \A l \in Lease : Pending(l) =>
        /\ seal # None /\ seal.key = Acquire(l)
        /\ IntentCurrent(l)

\* A lease begins or is prolonged only by a session that was usable at the
\* time the event records, and that time is in the transaction; a lease taken
\* needs a task without hard holds, one renewed a task without hard ones other
\* than the identity holds (acquireAuthorityUsableAt at finalNow).
AcceptedFromLive ==
    [][\A l \in Lease :
         lease'[l] # lease[l] /\ lease'[l].status = "ACTIVE" =>
             /\ UsableAt(Owner[l], GrantedAt(l)')
             /\ GrantedAt(l)' >= seal.started
             /\ ~archived
             /\ hold = "none" \/ (lease[l] # None /\ hold = "env")]_vars

\* A lease that had expired is prolonged only under an identity hold, and only
\* if no later acquire of its resource was decided: an owner who was overtaken
\* never gets its lease back (assertRuntimeRotationLeaseCurrent).
NoUnheldRevival ==
    [][\A l \in Lease :
         Active(l) /\ lease'[l].expires > lease[l].expires
             /\ Expired(l, GrantedAt(l)') =>
                 hold = "env" /\ tokens[On[l]] = lease[l].token]_vars

=============================================================================
