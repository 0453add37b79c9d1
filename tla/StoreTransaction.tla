-------------------------- MODULE StoreTransaction --------------------------
(***************************************************************************)
(* The control store's write transaction (withLock in store.js) and its    *)
(* zero-write reader (withStableRead), on one control root.                *)
(*                                                                         *)
(* A root carries a generation seal (.generation.json).  Even means the    *)
(* payload is whole.  A writer makes it odd before its first payload       *)
(* write, binding the seal to the key of its transaction and to a vector   *)
(* of the payload it found; it makes it even again when its callback has   *)
(* finished.  An odd seal with no live writer is a crash marker, and only  *)
(* an exact retry of the bound transaction may resume under it.            *)
(*                                                                         *)
(* Every file, the seal included, is installed through a transport: a      *)
(* reservation, a staged payload, an atomic publication, a cleanup.  A     *)
(* process may die between any two of those steps.                         *)
(*                                                                         *)
(* An operation's payload is Steps files written in a fixed order;         *)
(* files[o] is how many of them are installed.  The lock is one variable   *)
(* here; StoreLock has the protocol behind it.                             *)
(***************************************************************************)
EXTENDS Integers, FiniteSets

CONSTANTS
    Proc,        \* writing processes
    Reader,      \* processes inside withStableRead
    Op,          \* stable transaction keys
    Steps,       \* payload files an operation installs
    WitnessAt,   \* the file whose presence authorizeOddRecovery looks for
    Resumable,   \* operations whose caller passes authorizePristineOddRecovery
    Audited,     \* writers that declared no key: kind AUDITED_REPAIR_ONLY
    NoProc, NoOp, NoVector,
    MaxGen,      \* Number.MAX_SAFE_INTEGER of the code
    MaxFaults    \* bound: crashes and callback errors together

ASSUME ConstantAssumption ==
    /\ Steps \in Nat \ {0}
    /\ WitnessAt \in 1..Steps
    /\ Resumable \subseteq Op
    /\ Audited \subseteq Op
    /\ Resumable \cap Audited = {}
    /\ NoProc \notin Proc
    /\ NoOp \notin Op
    /\ NoVector \notin [Op -> 0..Steps]
    /\ MaxGen \in Nat
    /\ MaxFaults \in Nat

VARIABLES
    gen, active, preVec,   \* .generation.json
    files,                 \* the payload
    transport,             \* the one residual of the atomic transport
    lineage,               \* retained publication-lineage claims?
    lock, lockDead,        \* .lock: its owner, and the crash that orphaned it
    pc, req, started, kind, startVec,          \* withLock, per writer
    rpc, rleft, rgen, rvec, rview, rsnap, rdead, rmode,  \* per reader
    faults

store   == <<gen, active, preVec, files, transport, lineage>>
locks   == <<lock, lockDead>>
writers == <<pc, req, started, kind, startVec>>
readers == <<rpc, rleft, rgen, rvec, rview, rsnap, rdead, rmode>>
vars    == <<store, locks, writers, readers, faults>>

Vectors == [Op -> 0..Steps]
Stages  == {"OPEN", "RESERVED", "STAGED", "PUBLISHED"}
Targets == {"BEGIN", "PAYLOAD", "COMPLETE"}
NoTransport == [op |-> NoOp, target |-> "NONE", stage |-> "NONE"]
Transports  == [op : Op, target : Targets, stage : Stages]

PCs == {"idle", "acquire", "entry", "authorize", "begin", "callback",
        "throw", "complete", "release", "stuck"}
Kinds == {"FRESH", "WITNESS", "TRANSPORT", "PRISTINE"}
RPCs == {"idle", "wait", "before", "vector", "view", "after", "seal", "lock", "answer"}

\* Every payload is either absent or fully installed.
Whole(v) == \A o \in Op : v[o] \in {0, Steps}

Odd(n) == n % 2 = 1

StoreType ==
    /\ gen \in Nat
    /\ active \in Op \cup {NoOp}
    /\ preVec \in Vectors \cup {NoVector}
    /\ files \in Vectors
    /\ transport \in Transports \cup {NoTransport}
    /\ lineage \in BOOLEAN
    /\ lock \in Proc \cup {NoProc}
    /\ lockDead \in Nat
    /\ faults \in Nat

WriterType ==
    /\ pc \in [Proc -> PCs]
    /\ req \in [Proc -> Op \cup {NoOp}]
    /\ started \in [Proc -> Nat]
    /\ kind \in [Proc -> Kinds]
    /\ startVec \in [Proc -> Vectors]

ReaderType ==
    /\ rpc \in [Reader -> RPCs]
    /\ rleft \in [Reader -> SUBSET Op]
    /\ rgen \in [Reader -> Nat]
    /\ rvec \in [Reader -> Vectors]
    /\ rview \in [Reader -> Vectors]
    /\ rsnap \in [Reader -> Vectors]   \* the payload when rgen was read
    /\ rdead \in [Reader -> Nat]
    /\ rmode \in [Reader -> {"strict", "inspect"}]

TypeOK == StoreType /\ WriterType /\ ReaderType

NothingDone == [o \in Op |-> 0]

Init ==
    /\ gen = 0 /\ active = NoOp /\ preVec = NoVector
    /\ files = NothingDone
    /\ transport = NoTransport /\ lineage = FALSE
    /\ lock = NoProc /\ lockDead = 0
    /\ pc = [p \in Proc |-> "idle"]
    /\ req = [p \in Proc |-> NoOp]
    /\ started = [p \in Proc |-> 0]
    /\ kind = [p \in Proc |-> "FRESH"]
    /\ startVec = [p \in Proc |-> NothingDone]
    /\ rpc = [r \in Reader |-> "idle"]
    /\ rleft = [r \in Reader |-> {}]
    /\ rgen = [r \in Reader |-> 0]
    /\ rvec = [r \in Reader |-> NothingDone]
    /\ rview = [r \in Reader |-> NothingDone]
    /\ rsnap = [r \in Reader |-> NothingDone]
    /\ rdead = [r \in Reader |-> 0]
    /\ rmode = [r \in Reader |-> "strict"]
    /\ faults = 0

Goto(p, label) == pc' = [pc EXCEPT ![p] = label]
HoldsLock(p)   == lock = p /\ lockDead = 0
Residual(t)    == transport.target = t
Mine(p)        == req[p] \notin Audited /\ transport.op = req[p]

\* The local variables of withLock go with its frame.
Forget(p) ==
    /\ Goto(p, "idle")
    /\ req' = [req EXCEPT ![p] = NoOp]
    /\ started' = [started EXCEPT ![p] = 0]
    /\ kind' = [kind EXCEPT ![p] = "FRESH"]
    /\ startVec' = [startVec EXCEPT ![p] = NothingDone]

-----------------------------------------------------------------------------
(* The writer lock, as withLock sees it. *)

\* A caller asks for a transaction; retries ask for the same key again.
Request(p, o) ==
    /\ pc[p] = "idle"
    /\ req' = [req EXCEPT ![p] = o]
    /\ Goto(p, "acquire")
    /\ UNCHANGED <<store, locks, started, kind, startVec, readers, faults>>

Acquire(p) ==
    /\ pc[p] = "acquire"
    /\ lock = NoProc
    /\ lock' = p
    /\ Goto(p, "entry")
    /\ UNCHANGED <<store, lockDead, req, started, kind, startVec, readers, faults>>

\* A dead owner is reaped: neither the seal nor the transport is touched.
Reap(p) ==
    /\ pc[p] = "acquire"
    /\ lockDead # 0
    /\ lock' = NoProc /\ lockDead' = 0
    /\ UNCHANGED <<store, writers, readers, faults>>

\* LOCK_TIMEOUT on a live owner.
GiveUp(p) ==
    /\ pc[p] = "acquire"
    /\ lock # NoProc /\ lockDead = 0
    /\ Forget(p)
    /\ UNCHANGED <<store, locks, readers, faults>>

Release(p) ==
    /\ pc[p] = "release"
    /\ lock' = NoProc
    /\ Forget(p)
    /\ UNCHANGED <<store, lockDead, readers, faults>>

-----------------------------------------------------------------------------
(* Entry: what withLock decides before it writes anything. *)

\* What a completed transaction may leave on an even seal.
EvenLeftover == ~Odd(gen) /\ (lineage \/ Residual("COMPLETE"))

CleanupCompletedEven(p) ==
    /\ pc[p] \in {"entry", "authorize"}
    /\ EvenLeftover
    /\ transport' = NoTransport /\ lineage' = FALSE
    /\ UNCHANGED <<gen, active, preVec, files, locks, writers, readers, faults>>

\* The seal and the transport both name this request, or name nobody.
RequestMatches(p) ==
    /\ Odd(gen) => req[p] \notin Audited /\ active = req[p]
    /\ transport # NoTransport => Mine(p)

EntryPass(p) ==
    /\ pc[p] = "entry"
    /\ ~EvenLeftover
    /\ RequestMatches(p)
    /\ Goto(p, "authorize")
    /\ UNCHANGED <<store, locks, req, started, kind, startVec, readers, faults>>

\* STORE_TRANSACTION_MISMATCH, TRANSACTION_KEY_REQUIRED, AUDITED_REPAIR_ONLY,
\* STORE_ATOMIC_RESIDUAL_CONFLICT: nothing was written, so the lock goes back.
EntryReject(p) ==
    /\ pc[p] = "entry"
    /\ ~EvenLeftover
    /\ ~RequestMatches(p)
    /\ Goto(p, "release")
    /\ UNCHANGED <<store, locks, req, started, kind, startVec, readers, faults>>

\* readOnlyResultBeforeGeneration: the operation is already durable.
EntryReadOnly(p) ==
    /\ pc[p] = "entry"
    /\ ~EvenLeftover
    /\ RequestMatches(p)
    /\ ~Odd(gen) /\ files[req[p]] = Steps
    /\ Goto(p, "release")
    /\ UNCHANGED <<store, locks, req, started, kind, startVec, readers, faults>>

-----------------------------------------------------------------------------
(* The transport of one atomic file write, up to its publication. *)

NextStage == [OPEN |-> "RESERVED", RESERVED |-> "STAGED"]

\* createOrRepairAtomicReservation and ...Payload: open, or resume what is there.
Prepare(p, t) ==
    \/ /\ transport = NoTransport
       /\ transport' = [op |-> req[p], target |-> t, stage |-> "OPEN"]
    \/ /\ Residual(t)
       /\ transport.stage \in DOMAIN NextStage
       /\ transport' = [transport EXCEPT !.stage = NextStage[transport.stage]]

CanPublish(t) == Residual(t) /\ transport.stage = "STAGED"
Publish       == transport' = [transport EXCEPT !.stage = "PUBLISHED"]
Published(t)  == Residual(t) /\ transport.stage = "PUBLISHED"

\* Mutant: the even seal still names the transaction.
SealEvenBound ==
    /\ gen' = gen + 1
    /\ preVec' = NoVector
    /\ Publish
    /\ UNCHANGED <<active, files, lineage>>

\* Publishing the even seal closes the transaction.
SealEven ==
    /\ gen' = gen + 1
    /\ active' = NoOp
    /\ preVec' = NoVector
    /\ Publish
    /\ UNCHANGED <<files, lineage>>

-----------------------------------------------------------------------------
(* Odd seal: finish a half-written seal, then look for authority to resume. *)

\* normalizeOddGenerationAtomicTransport: the begin seal is installed, only
\* its residual is left; or the even seal was staged and is published now.
NormalizeBegin(p) ==
    /\ pc[p] = "authorize"
    /\ Odd(gen) /\ Published("BEGIN")
    /\ transport' = NoTransport
    /\ UNCHANGED <<gen, active, preVec, files, lineage, locks, writers, readers, faults>>

NormalizeCompleteUnpublished(p) ==   \* mutant: repairs the stage, never publishes it
    /\ pc[p] = "authorize"
    /\ Odd(gen) /\ Residual("COMPLETE")
    /\ Prepare(p, "COMPLETE")
    /\ UNCHANGED <<gen, active, preVec, files, lineage, locks, writers, readers, faults>>

NormalizeComplete(p) ==
    /\ pc[p] = "authorize"
    /\ Odd(gen) /\ Residual("COMPLETE")
    /\ \/ /\ Prepare(p, "COMPLETE")
          /\ UNCHANGED <<gen, active, preVec, files, lineage>>
       \/ CanPublish("COMPLETE") /\ SealEven
    /\ UNCHANGED <<locks, writers, readers, faults>>

GenerationSettled == ~Residual("COMPLETE") /\ (Odd(gen) => ~Residual("BEGIN"))

Witnessed(o) == files[o] >= WitnessAt

PublishedTransport == lineage \/ Published("PAYLOAD")
PristineTransport ==
    /\ Residual("PAYLOAD")
    /\ transport.stage \in {"RESERVED", "STAGED"}
    /\ files = preVec

\* The pristine hook refuses as soon as the payload moved, whatever the
\* transport would have allowed.
PristineRefuses(o) == o \in Resumable /\ ~Witnessed(o) /\ files # preVec

RecoveryKinds(o) ==
    IF PristineRefuses(o) THEN {}
    ELSE IF Witnessed(o) THEN {"WITNESS"}
    ELSE IF PublishedTransport \/ PristineTransport THEN {"TRANSPORT"}
    ELSE IF o \in Resumable THEN {"PRISTINE"}
    ELSE {}

\* The retry runs the callback again under the generation it found.
Resume(p) ==
    /\ pc[p] = "authorize"
    /\ Odd(gen) /\ GenerationSettled
    /\ \E k \in RecoveryKinds(req[p]) : kind' = [kind EXCEPT ![p] = k]
    /\ started' = [started EXCEPT ![p] = gen]
    /\ startVec' = [startVec EXCEPT ![p] = files]
    /\ Goto(p, "callback")
    /\ UNCHANGED <<store, locks, req, readers, faults>>

\* STORE_REPAIR_REQUIRED, STORE_PRISTINE_RECOVERY_VECTOR_MISMATCH.
ResumeRefused(p) ==
    /\ pc[p] = "authorize"
    /\ Odd(gen) /\ GenerationSettled
    /\ RecoveryKinds(req[p]) = {}
    /\ Goto(p, "release")
    /\ UNCHANGED <<store, locks, req, started, kind, startVec, readers, faults>>

-----------------------------------------------------------------------------
(* Even seal: begin a transaction. *)

BeginExhausted(p) ==
    /\ pc[p] = "authorize"
    /\ ~Odd(gen) /\ ~EvenLeftover
    /\ gen > MaxGen - 3
    /\ Goto(p, "release")
    /\ UNCHANGED <<store, locks, req, started, kind, startVec, readers, faults>>

Begin(p) ==
    /\ pc[p] = "authorize"
    /\ ~Odd(gen) /\ ~EvenLeftover
    /\ gen <= MaxGen - 3
    /\ Goto(p, "begin")
    /\ UNCHANGED <<store, locks, req, started, kind, startVec, readers, faults>>

BeginPrepare(p) ==
    /\ pc[p] = "begin"
    /\ ~Odd(gen)
    /\ Prepare(p, "BEGIN")
    /\ UNCHANGED <<gen, active, preVec, files, lineage, locks, writers, readers, faults>>

\* The odd seal binds the transaction and the vector read at entry.
BeginPublish(p) ==
    /\ pc[p] = "begin"
    /\ CanPublish("BEGIN")
    /\ gen' = gen + 1
    /\ active' = req[p]
    /\ preVec' = files
    /\ Publish
    /\ UNCHANGED <<files, lineage, locks, writers, readers, faults>>

BeginClean(p) ==
    /\ pc[p] = "begin"
    /\ Published("BEGIN")
    /\ transport' = NoTransport
    /\ started' = [started EXCEPT ![p] = gen]
    /\ kind' = [kind EXCEPT ![p] = "FRESH"]
    /\ startVec' = [startVec EXCEPT ![p] = files]
    /\ Goto(p, "callback")
    /\ UNCHANGED <<gen, active, preVec, files, lineage, locks, req, readers, faults>>

-----------------------------------------------------------------------------
(* The callback: the operation's files, one atomic write after the other. *)

WritePrepare(p) ==
    /\ pc[p] = "callback"
    /\ files[req[p]] < Steps
    /\ Prepare(p, "PAYLOAD")
    /\ UNCHANGED <<gen, active, preVec, files, lineage, locks, writers, readers, faults>>

WritePublish(p) ==
    /\ pc[p] = "callback"
    /\ CanPublish("PAYLOAD")
    /\ files' = [files EXCEPT ![req[p]] = @ + 1]
    /\ Publish
    /\ UNCHANGED <<gen, active, preVec, lineage, locks, writers, readers, faults>>

WriteClean(p) ==
    /\ pc[p] = "callback"
    /\ Published("PAYLOAD")
    /\ transport' = NoTransport /\ lineage' = TRUE
    /\ UNCHANGED <<gen, active, preVec, files, locks, writers, readers, faults>>

\* Mutant: the witness alone counts as the whole payload.
CallbackReturnEarly(p) ==
    /\ pc[p] = "callback"
    /\ transport = NoTransport
    /\ Witnessed(req[p])
    /\ Goto(p, "complete")
    /\ UNCHANGED <<store, locks, req, started, kind, startVec, readers, faults>>

\* Every file is there: a retry of a done operation gets here without a write.
CallbackReturn(p) ==
    /\ pc[p] = "callback"
    /\ transport = NoTransport
    /\ files[req[p]] = Steps
    /\ Goto(p, "complete")
    /\ UNCHANGED <<store, locks, req, started, kind, startVec, readers, faults>>

\* A validation error, an I/O error, or STORE_PRISTINE_ABORT_RETRY.
CallbackThrow(p) ==
    /\ pc[p] = "callback"
    /\ faults < MaxFaults
    /\ faults' = faults + 1
    /\ Goto(p, "throw")
    /\ UNCHANGED <<store, locks, req, started, kind, startVec, readers>>

-----------------------------------------------------------------------------
(* A thrown callback: which throws may close the transaction. *)

Mutated(p) == files # startVec[p]

\* A recovery that failed again, or a half-written payload: the odd seal stays.
ThrowKeepOdd(p) ==
    /\ pc[p] = "throw"
    /\ \/ kind[p] \in {"WITNESS", "TRANSPORT"}
       \/ Mutated(p) /\ transport = NoTransport
    /\ Goto(p, "release")
    /\ UNCHANGED <<store, locks, req, started, kind, startVec, readers, faults>>

\* cleanupExactUnpublishedCallbackTransport: only a bare reservation, and only
\* for a fresh writer (a pristine retry compares vectors of two schemas).
Removable(p) ==
    /\ kind[p] = "FRESH" /\ ~Mutated(p)
    /\ Residual("PAYLOAD") /\ transport.stage = "RESERVED"

ThrowClean(p) ==
    /\ pc[p] = "throw"
    /\ Removable(p)
    /\ transport' = NoTransport
    /\ UNCHANGED <<gen, active, preVec, files, lineage, locks, writers, readers, faults>>

\* Mutant: the thrown callback's payload is not looked at.
ThrowCompleteBlind(p) ==
    /\ pc[p] = "throw"
    /\ kind[p] \in {"FRESH", "PRISTINE"}
    /\ transport = NoTransport
    /\ Goto(p, "complete")
    /\ UNCHANGED <<store, locks, req, started, kind, startVec, readers, faults>>

\* Nothing was written: the transaction is closed, then the error rethrown.
ThrowComplete(p) ==
    /\ pc[p] = "throw"
    /\ kind[p] \in {"FRESH", "PRISTINE"}
    /\ ~Mutated(p) /\ transport = NoTransport
    /\ Goto(p, "complete")
    /\ UNCHANGED <<store, locks, req, started, kind, startVec, readers, faults>>

\* STORE_ATOMIC_RESIDUAL_UNCONSUMED: completion is refused, the lock is kept.
ThrowStuck(p) ==
    /\ pc[p] = "throw"
    /\ kind[p] \in {"FRESH", "PRISTINE"}
    /\ transport # NoTransport /\ ~Removable(p)
    /\ Goto(p, "stuck")
    /\ UNCHANGED <<store, locks, req, started, kind, startVec, readers, faults>>

-----------------------------------------------------------------------------
(* Completion. *)

CompletePrepare(p) ==
    /\ pc[p] = "complete"
    /\ Odd(gen)
    /\ Prepare(p, "COMPLETE")
    /\ UNCHANGED <<gen, active, preVec, files, lineage, locks, writers, readers, faults>>

CompletePublish(p) ==
    /\ pc[p] = "complete"
    /\ CanPublish("COMPLETE")
    /\ gen = started[p] /\ active = req[p]
    /\ SealEven
    /\ UNCHANGED <<locks, writers, readers, faults>>

CompleteClean(p) ==
    /\ pc[p] = "complete"
    /\ Published("COMPLETE")
    /\ transport' = NoTransport /\ lineage' = FALSE
    /\ Goto(p, "release")
    /\ UNCHANGED <<gen, active, preVec, files, locks, req, started, kind, startVec,
                   readers, faults>>

-----------------------------------------------------------------------------
(* A process dies; what it had installed stays, and so does its lock. *)

Dies(p) ==
    /\ faults' = faults + 1
    /\ Forget(p)
    /\ lockDead' = IF HoldsLock(p) THEN faults' ELSE lockDead
    /\ UNCHANGED <<store, lock, readers>>

Crash(p) == pc[p] # "idle" /\ faults < MaxFaults /\ Dies(p)

\* The process that kept its lock has thrown out of withLock: it ends.
Exit(p) == pc[p] = "stuck" /\ Dies(p)

-----------------------------------------------------------------------------
(* withStableRead. *)

RGoto(r, label) == rpc' = [rpc EXCEPT ![r] = label]

\* One turn of the read loop is over: back to its head, or out of it.
Drop(r, label) ==
    /\ RGoto(r, label)
    /\ rleft' = [rleft EXCEPT ![r] = {}]
    /\ rgen' = [rgen EXCEPT ![r] = 0]
    /\ rvec' = [rvec EXCEPT ![r] = NothingDone]
    /\ rview' = [rview EXCEPT ![r] = NothingDone]
    /\ rsnap' = [rsnap EXCEPT ![r] = NothingDone]
    /\ rdead' = [rdead EXCEPT ![r] = 0]

ReadStart(r, m) ==
    /\ rpc[r] = "idle"
    /\ rmode' = [rmode EXCEPT ![r] = m]
    /\ RGoto(r, "wait")
    /\ UNCHANGED <<store, locks, writers, rleft, rgen, rvec, rview, rsnap, rdead, faults>>

\* No lock, or (allowOddCrashInspection) the lock of a dead writer.
ReadEnter(r) ==
    /\ rpc[r] = "wait"
    /\ lock = NoProc \/ (lockDead # 0 /\ rmode[r] = "inspect")
    /\ rdead' = [rdead EXCEPT ![r] = lockDead]
    /\ RGoto(r, "before")
    /\ UNCHANGED <<store, locks, writers, rleft, rgen, rvec, rview, rsnap, rmode, faults>>

\* LOCK_TIMEOUT on a live writer, STORE_REPAIR_REQUIRED on a dead one.
ReadGiveUp(r) ==
    /\ rpc[r] = "wait"
    /\ lock # NoProc /\ (lockDead = 0 \/ rmode[r] = "strict")
    /\ Drop(r, "idle")
    /\ UNCHANGED <<store, locks, writers, rmode, faults>>

ReadSeal(r) ==
    /\ rpc[r] = "before"
    /\ rmode[r] = "inspect" \/ ~Odd(gen)
    /\ rgen' = [rgen EXCEPT ![r] = gen]
    /\ rsnap' = [rsnap EXCEPT ![r] = files]
    /\ rleft' = [rleft EXCEPT ![r] = Op]
    /\ RGoto(r, "vector")
    /\ UNCHANGED <<store, locks, writers, rvec, rview, rdead, rmode, faults>>

ReadRefused(r) ==
    /\ rpc[r] = "before"
    /\ rmode[r] = "strict" /\ Odd(gen)
    /\ Drop(r, "idle")
    /\ UNCHANGED <<store, locks, writers, rmode, faults>>

\* The three scans of the payload are not atomic: one operation at a time.
ReadVector(r, o) ==
    /\ rpc[r] = "vector" /\ o \in rleft[r]
    /\ rvec' = [rvec EXCEPT ![r][o] = files[o]]
    /\ rleft' = [rleft EXCEPT ![r] = @ \ {o}]
    /\ UNCHANGED <<store, locks, writers, rpc, rgen, rview, rsnap, rdead, rmode, faults>>

ReadView(r, o) ==
    /\ rpc[r] = "view" /\ o \in rleft[r]
    /\ rview' = [rview EXCEPT ![r][o] = files[o]]
    /\ rleft' = [rleft EXCEPT ![r] = @ \ {o}]
    /\ UNCHANGED <<store, locks, writers, rpc, rgen, rvec, rsnap, rdead, rmode, faults>>

ReadAfterBlind(r, o) ==   \* mutant: the second vector is not compared
    /\ rpc[r] = "after" /\ o \in rleft[r]
    /\ rleft' = [rleft EXCEPT ![r] = @ \ {o}]
    /\ UNCHANGED <<store, locks, writers, rpc, rgen, rvec, rview, rsnap, rdead, rmode, faults>>

ReadAfter(r, o) ==
    /\ rpc[r] = "after" /\ o \in rleft[r]
    /\ \/ /\ files[o] = rvec[r][o]
          /\ rleft' = [rleft EXCEPT ![r] = @ \ {o}]
          /\ UNCHANGED <<rpc, rgen, rvec, rview, rsnap, rdead>>
       \/ files[o] # rvec[r][o] /\ Drop(r, "wait")
    /\ UNCHANGED <<store, locks, writers, rmode, faults>>

NextScan == [vector |-> "view", view |-> "after", after |-> "seal"]

ReadScanned(r) ==
    /\ rpc[r] \in DOMAIN NextScan
    /\ rleft[r] = {}
    /\ rleft' = [rleft EXCEPT ![r] = IF rpc[r] = "after" THEN {} ELSE Op]
    /\ RGoto(r, NextScan[rpc[r]])
    /\ UNCHANGED <<store, locks, writers, rgen, rvec, rview, rsnap, rdead, rmode, faults>>

ReadCheckSealBlind(r) ==   \* mutant: the seal is not read again
    /\ rpc[r] = "seal"
    /\ RGoto(r, "lock")
    /\ UNCHANGED <<store, locks, writers, rleft, rgen, rvec, rview, rsnap, rdead, rmode, faults>>

ReadCheckSeal(r) ==
    /\ rpc[r] = "seal"
    /\ \/ /\ gen = rgen[r]
          /\ RGoto(r, "lock")
          /\ UNCHANGED <<rleft, rgen, rvec, rview, rsnap, rdead>>
       \/ gen # rgen[r] /\ Drop(r, "wait")
    /\ UNCHANGED <<store, locks, writers, rmode, faults>>

\* Still no lock, or still the same dead writer's.
LockAsFound(r) == IF rdead[r] = 0 THEN lock = NoProc ELSE lockDead = rdead[r]

ReadCheckLock(r) ==
    /\ rpc[r] = "lock"
    /\ \/ /\ LockAsFound(r)
          /\ RGoto(r, "answer")
          /\ UNCHANGED <<rleft, rgen, rvec, rview, rsnap, rdead>>
       \/ ~LockAsFound(r) /\ Drop(r, "wait")
    /\ UNCHANGED <<store, locks, writers, rmode, faults>>

ReadReturn(r) ==
    /\ rpc[r] = "answer"
    /\ Drop(r, "idle")
    /\ UNCHANGED <<store, locks, writers, rmode, faults>>

-----------------------------------------------------------------------------
Run(p) ==
    \/ Release(p)
    \/ CleanupCompletedEven(p) \/ EntryPass(p) \/ EntryReject(p) \/ EntryReadOnly(p)
    \/ NormalizeBegin(p) \/ NormalizeComplete(p) \/ Resume(p) \/ ResumeRefused(p)
    \/ BeginExhausted(p) \/ Begin(p)
    \/ BeginPrepare(p) \/ BeginPublish(p) \/ BeginClean(p)
    \/ WritePrepare(p) \/ WritePublish(p) \/ WriteClean(p) \/ CallbackReturn(p)
    \/ ThrowKeepOdd(p) \/ ThrowClean(p) \/ ThrowComplete(p) \/ ThrowStuck(p)
    \/ CompletePrepare(p) \/ CompletePublish(p) \/ CompleteClean(p)

Contend(p) ==
    \/ \E o \in Op : Request(p, o)
    \/ Acquire(p) \/ Reap(p) \/ GiveUp(p)

Fail(p) == CallbackThrow(p) \/ Crash(p)

Read(r) ==
    \/ \E m \in {"strict", "inspect"} : ReadStart(r, m)
    \/ ReadEnter(r) \/ ReadGiveUp(r) \/ ReadSeal(r) \/ ReadRefused(r)
    \/ \E o \in Op : ReadVector(r, o) \/ ReadView(r, o) \/ ReadAfter(r, o)
    \/ ReadScanned(r) \/ ReadCheckSeal(r) \/ ReadCheckLock(r) \/ ReadReturn(r)

Next ==
    \/ \E p \in Proc : Run(p) \/ Contend(p) \/ Fail(p) \/ Exit(p)
    \/ \E r \in Reader : Read(r)

Spec == Init /\ [][Next]_vars

\* A process inside withLock is synchronous code: it keeps running, or it
\* dies.  Nothing is assumed of callers, of contenders, or of readers.
Fairness == \A p \in Proc : WF_vars(Run(p)) /\ WF_vars(Exit(p))
FairSpec == Spec /\ Fairness

-----------------------------------------------------------------------------
(* Safety. *)

\* A half-installed operation is always the one the odd seal is bound to: no
\* crash, throw or retry leaves another operation torn, and an even seal
\* never covers a torn payload (withLock, beginRootWrite, completeRootWrite).
PartialIsBound ==
    /\ \A o \in Op : files[o] \notin {0, Steps} => active = o
    /\ Odd(gen) <=> active # NoOp

\* A read that withStableRead returns as complete is the payload that was
\* there when the even seal was read, although its scans were not atomic.
ReadIsCommitted ==
    \A r \in Reader : rpc[r] = "answer" /\ ~Odd(rgen[r]) =>
        rview[r] = rsnap[r] /\ Whole(rview[r])

\* A read returned with a crash marker still is one state of the payload, and
\* not a mixture of two retries that ran under the same odd seal.
CrashReadIsOneState ==
    \A r \in Reader : rpc[r] = "answer" => rview[r] = rvec[r]

\* Whatever died where, a retry whose caller passes the pristine hook is refused in one
\* case and no other: some files of the operation are there, and the file its caller looks
\* for is not. A caller that looks for the first file it writes is never refused.
RefusedHalfway ==
    Odd(gen) /\ active \in Resumable =>
        (RecoveryKinds(active) = {} <=> files[active] \in 1..(WitnessAt - 1))

\* A residual of the transport under an odd seal is the bound transaction's.
ResidualIsBound ==
    transport # NoTransport /\ Odd(gen) => transport.op = active

\* A transaction is begun only if its completion still fits in the counter.
MarkerCanClose == Odd(gen) => gen < MaxGen

\* Closing an odd seal means the operation is whole, or was never begun: the
\* payload is the one sealed before the first write (completeRootWrite).
ClosesWholeOrPristine ==
    [][Odd(gen) /\ gen' # gen => files[active] = Steps \/ files = preVec]_vars

\* Under an odd seal only an exact retry holding the lock writes the store.
OnlyBoundRetryWrites ==
    [][store' # store /\ Odd(gen) => \E p \in Proc : HoldsLock(p) /\ req[p] = active]_vars

-----------------------------------------------------------------------------
(* Liveness. *)

\* A writer that got the lock gives it back, or dies and leaves it reapable.
LockReleased == \A p \in Proc : HoldsLock(p) ~> ~HoldsLock(p)

\* An exact retry that gets in closes the crash marker unless it fails again.
RetryHeals ==
    \A p \in Proc : \A n \in 0..MaxFaults :
        pc[p] = "entry" /\ Odd(gen) /\ active = req[p] /\ active \in Resumable
            /\ faults = n
        ~> ~Odd(gen) \/ faults > n

-----------------------------------------------------------------------------
(* The inductive invariant behind the safety properties. *)

\* Whoever is past the lock holds it, and holds it alive.
LockInv ==
    /\ lock = NoProc => lockDead = 0
    /\ \A p \in Proc : pc[p] \notin {"idle", "acquire"} => HoldsLock(p)
    /\ \A p \in Proc : pc[p] # "idle" => req[p] \in Op

\* Since the odd seal the payload has grown, and only by the bound operation.
Grown == \A o \in Op : IF o = active THEN preVec[o] <= files[o] ELSE preVec[o] = files[o]

SealInv ==
    /\ Odd(gen) <=> active # NoOp
    /\ Odd(gen) => preVec \in Vectors /\ Whole(preVec) /\ Grown /\ gen <= MaxGen - 2
    /\ \A o \in Op : files[o] \notin {0, Steps} => active = o

\* The bound operation is whole, or the payload is as it was before the write.
Closable == files[active] = Steps \/ files = preVec

TransportInv ==
    transport # NoTransport =>
        IF Odd(gen)
        THEN /\ transport.op = active
             /\ Residual("BEGIN") => transport.stage = "PUBLISHED"
             /\ Residual("PAYLOAD") =>
                    transport.stage = "PUBLISHED" \/ files[active] < Steps
             /\ Residual("COMPLETE") => transport.stage # "PUBLISHED" /\ Closable
        ELSE \/ Residual("BEGIN") /\ transport.stage # "PUBLISHED"
             \/ Published("COMPLETE")

\* The writer works under the seal it began or found.
Owns(p) == Odd(gen) /\ started[p] = gen /\ active = req[p]

WriterInv(p) ==
    /\ pc[p] = "authorize" =>
           /\ Odd(gen) => active = req[p]
           /\ transport # NoTransport => transport.op = req[p]
    /\ pc[p] = "begin" =>
           /\ transport # NoTransport => Residual("BEGIN") /\ transport.op = req[p]
           /\ IF Odd(gen) THEN active = req[p] /\ Published("BEGIN") /\ files = preVec
                          ELSE gen <= MaxGen - 3
    /\ pc[p] \in {"callback", "throw"} =>
           /\ Owns(p)
           /\ transport # NoTransport => Residual("PAYLOAD")
           /\ kind[p] \in {"FRESH", "PRISTINE"} => startVec[p] = preVec
    /\ pc[p] = "complete" =>
           /\ transport # NoTransport => Residual("COMPLETE")
           /\ IF Odd(gen) THEN Owns(p) /\ Closable ELSE Published("COMPLETE")

\* Under an even seal nothing moves beneath a reader that has seen that seal.
ReaderInv(r) ==
    /\ rgen[r] <= gen
    /\ rpc[r] \in {"vector", "view", "after", "seal"} /\ gen = rgen[r] /\ ~Odd(gen) =>
           /\ files = rsnap[r]
           /\ rpc[r] = "view" => \A o \in Op \ rleft[r] : rview[r][o] = files[o]
           /\ rpc[r] \in {"after", "seal"} => rview[r] = files
    /\ rpc[r] \in {"lock", "answer"} /\ ~Odd(rgen[r]) =>
           rview[r] = rsnap[r] /\ Whole(rview[r])

\* The payload only grows, so what lies between two equal scans equals both.
ScanInv(r) ==
    LET Seen(o)   == o \in Op \ rleft[r]
        Early(o)  == rvec[r][o] <= files[o]
        Middle(o) == rvec[r][o] <= rview[r][o] /\ rview[r][o] <= files[o]
    IN  /\ rpc[r] = "vector" => \A o \in Op : Seen(o) => Early(o)
        /\ rpc[r] = "view" => \A o \in Op : Early(o) /\ (Seen(o) => Middle(o))
        /\ rpc[r] = "after" =>
               \A o \in Op : Middle(o) /\ (Seen(o) => rview[r][o] = rvec[r][o])
        /\ rpc[r] \in {"seal", "lock", "answer"} => rview[r] = rvec[r]

IInv ==
    /\ TypeOK
    /\ LockInv /\ SealInv /\ TransportInv
    /\ \A p \in Proc : WriterInv(p)
    /\ \A r \in Reader : ReaderInv(r) /\ ScanInv(r)

-----------------------------------------------------------------------------
(* Refinement: what the protocol above promises its callers. *)

\* A reader holds its answer from the moment the even seal is read again.
Answered(r) == rpc[r] \in {"lock", "answer"} /\ ~Odd(rgen[r])

Abstract == INSTANCE AtomicStore WITH
    Reader <- Reader,
    done   <- {o \in Op : files[o] = Steps},
    open   <- active,
    answer <- [r \in Reader |->
                 IF Answered(r) THEN {{o \in Op : rview[r][o] = Steps}} ELSE {}]

\* Crashes, retries and non-atomic scans included, the store behaves as one
\* whose transactions run one at a time and whose reads are instantaneous.
ImplementsAtomicStore == Abstract!Spec

\* The lock these writers rely on is the one StoreLock implements.
WriterLock == INSTANCE AtomicLock WITH
    holder <- IF lockDead = 0 THEN lock ELSE NoProc,
    stale  <- lockDead # 0

UsesAtomicLock == WriterLock!Spec
=============================================================================
