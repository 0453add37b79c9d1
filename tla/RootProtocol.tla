---------------------------- MODULE RootProtocol ----------------------------
(***************************************************************************)
(* The protocol seal of a control root (store.js, migration.js): ordinary  *)
(* commands of several controller versions, the adoption of an unsealed    *)
(* root, and the rotation of a sealed one to another version, all behind   *)
(* one writer lock.                                                        *)
(*                                                                         *)
(* A command observes the lock, reads the seal, publishes its lock and     *)
(* reads the seal again: between two of these steps other commands run,    *)
(* and a rotation may finish.  A lock names the version it belongs to; a   *)
(* rotation takes its lock in the name of the PREDECESSOR, under a nonce   *)
(* bound to its exact request, and reaps no dead lock but its own.         *)
(*                                                                         *)
(* The lock is one step here (StoreLock has its system calls), so are the  *)
(* atomic write of a file (StoreTransaction) and the replay of a root by   *)
(* both decoders.  The content of the root is the sequence of versions     *)
(* that wrote to it.                                                       *)
(***************************************************************************)
EXTENDS RootSeal, SequencesExt

CONSTANTS
    Proc,
    None,
    MaxWrites,     \* bound on ordinary writes
    MaxFaults      \* bound on crashes and failed validations

\* A request names its predecessor's seal by a hash that covers the rotations
\* before it, and so never finds it again: versions are numbered in that order.
\* A root rotated back to a build it had before is not modelled.
ASSUME ProtocolAssumption ==
    /\ Version \subseteq Nat \ {0}
    /\ \A r \in Rotation : r.from \in Version /\ r.to \in Version /\ r.from < r.to
    /\ MaxWrites \in Nat /\ MaxFaults \in Nat

VARIABLES
    receipts,    \* files of the rotation directory
    anchored,    \* are the migration artifacts of the adoption in place?
    gen, active,     \* .generation.json
    lock,        \* .lock and the state of its owner
    pc, job, seen,   \* per process: its command, the content it has validated
    faults

root  == <<seal, receipts, anchored, gen, active, source>>
procs == <<pc, job, seen>>
vars  == <<root, lock, procs, faults>>

Ordinary == [kind : {"write", "adopt"}, ver : Version, rot : {None}]
Jobs == Ordinary \cup {[kind |-> "rotate", ver |-> r.to, rot |-> r] : r \in Rotation}
PCs  == {"idle", "look", "publish", "check", "held", "valid", "begun",
         "installed", "sealed", "done"}
Receipts == [rot : Rotation, src : Seq(Version), entry : Nat]
Transactions == [job : Jobs, src : Seq(Version)]
Locks == [by : Proc, job : Jobs, dead : BOOLEAN]

ASSUME NoneAssumption == None \notin Rotation \cup Jobs \cup Transactions \cup Locks

Compatibility(j) == IF j.kind = "rotate" THEN j.rot.from ELSE j.ver

TypeOK ==
    /\ seal \in [ver : Version \cup {0}, src : Seq(Version), rotations : Seq(Rotation)]
    /\ receipts \subseteq Receipts
    /\ anchored \in BOOLEAN /\ gen \in Nat
    /\ active \in Transactions \cup {None}
    /\ source \in Seq(Version)
    /\ lock \in Locks \cup {None}
    /\ pc \in [Proc -> PCs]
    /\ job \in [Proc -> Jobs \cup {None}]
    /\ seen \in [Proc -> Seq(Version)]
    /\ faults \in Nat

Init ==
    /\ seal = [ver |-> 0, src |-> <<>>, rotations |-> <<>>]
    /\ receipts = {} /\ anchored = FALSE
    /\ gen = 0 /\ active = None
    /\ source = <<>>
    /\ lock = None
    /\ pc = [p \in Proc |-> "idle"]
    /\ job = [p \in Proc |-> None]
    /\ seen = [p \in Proc |-> <<>>]
    /\ faults = 0

Goto(p, label) == pc' = [pc EXCEPT ![p] = label]
Mine(p) == lock # None /\ ~lock.dead /\ lock.by = p

\* The process is gone; a lock it leaves behind is a dead one.
Leave(p) ==
    /\ Goto(p, "idle")
    /\ job' = [job EXCEPT ![p] = None]
    /\ seen' = [seen EXCEPT ![p] = <<>>]

-----------------------------------------------------------------------------
(* Reading the seal. *)

\* Receipts in the rotation directory that the seal does not list.
Unsealed == {x \in receipts : x.rot \notin ToSet(seal.rotations)}
AllSealed == Unsealed = {}
ReceiptsOf(r) == {x \in receipts : x.rot = r}

\* exactPendingProtocolRotationInventory: the receipt is this request's own.
PendingRotation(r) ==
    \E x \in ReceiptsOf(r) :
        /\ Unsealed = {x}
        /\ active # None /\ active.job.rot = r
        /\ gen = x.entry + 1
        /\ seal.ver = r.from
        /\ source = x.src

\* exactSealedProtocolRotationRecovery: the last rotation is this request's own,
\* and an odd root is still in it.
SealedRotation(r) == seal.rotations # <<>> /\ Last(seal.rotations) = r
InRotation(r) == \E x \in ReceiptsOf(r) : gen = x.entry + 1 /\ source = x.src

\* readRootProtocol for a command, the rotation's own reader for a rotation.
CommandReads(v) == AllSealed /\ seal.ver \in {0, v}
RotationReads(r) ==
    /\ AllSealed \/ PendingRotation(r)
    /\ SealedRotation(r) => gen % 2 = 0 \/ InRotation(r)
CanRead(j) == IF j.kind = "rotate" THEN RotationReads(j.rot) ELSE CommandReads(j.ver)

ExpectedPredecessor(r) == seal.ver = r.from \/ SealedRotation(r)

-----------------------------------------------------------------------------
(* Taking the lock. *)

Enter(p, j) ==
    /\ pc[p] = "idle"
    /\ Goto(p, "look")
    /\ job' = [job EXCEPT ![p] = j]
    /\ UNCHANGED <<root, lock, seen, faults>>

StartCommand(p, j) == j.kind = "write" /\ Enter(p, j)

StartAdoption(p, j) == j.kind = "adopt" /\ Enter(p, j)

\* The root must be where the request expects it; the predecessor's own reader
\* and the probe of its controller agree.
StartRotation(p, j) ==
    /\ j.kind = "rotate"
    /\ CanRead(j) /\ ExpectedPredecessor(j.rot)
    /\ Enter(p, j)

Start(p, j) == StartCommand(p, j) \/ StartAdoption(p, j) \/ StartRotation(p, j)

SameCompatibility(p) == Compatibility(lock.job) = Compatibility(job[p])

\* Mutant: a rotation reaps no lock, not even its own.
MayReap_Nothing(p) == job[p].kind # "rotate"

\* canReapObserved: a rotation reaps the locks of its own exact request.
MayReap(p) == job[p].kind = "rotate" => lock.job = job[p]

\* A dead lock of the same compatibility is taken away, and the loop goes on.
Reap(p) ==
    /\ pc[p] = "look"
    /\ lock # None /\ lock.dead /\ SameCompatibility(p)
    /\ CanRead(job[p]) /\ MayReap(p)
    /\ lock' = None
    /\ UNCHANGED <<root, procs, faults>>

ReadProtocol(p) ==
    /\ pc[p] = "look" /\ lock = None /\ CanRead(job[p])
    /\ Goto(p, "publish")
    /\ UNCHANGED <<root, lock, job, seen, faults>>

\* LOCK_PROTOCOL_MISMATCH, STORE_PROTOCOL_UNSUPPORTED, or LOCK_TIMEOUT.
TurnedAway(p) ==
    /\ pc[p] = "look"
    /\ \/ lock # None /\ ~(lock.dead /\ SameCompatibility(p) /\ MayReap(p))
       \/ ~CanRead(job[p])
    /\ Leave(p)
    /\ UNCHANGED <<root, lock, faults>>

Publish(p) ==
    /\ pc[p] = "publish"
    /\ IF lock = None
       THEN /\ lock' = [by |-> p, job |-> job[p], dead |-> FALSE]
            /\ Goto(p, "check")
       ELSE /\ Goto(p, "look")
            /\ UNCHANGED lock
    /\ UNCHANGED <<root, job, seen, faults>>

\* Mutant: what was read before the lock was taken still counts.
Check_Trusting(p) ==
    /\ pc[p] = "check"
    /\ Goto(p, "held")
    /\ UNCHANGED <<root, lock, job, seen, faults>>

\* The seal is read again under the lock.  When it has changed the command
\* throws, and so does every release of the lock: the lock stays behind.
Check(p) ==
    /\ pc[p] = "check"
    /\ IF CanRead(job[p])
       THEN Goto(p, "held") /\ UNCHANGED <<lock, job, seen>>
       ELSE Leave(p) /\ lock' = [lock EXCEPT !.dead = TRUE]
    /\ UNCHANGED <<root, faults>>

Release(p) ==
    /\ pc[p] = "done"
    /\ Leave(p)
    /\ lock' = IF CanRead(job[p]) THEN None ELSE [lock EXCEPT !.dead = TRUE]
    /\ UNCHANGED <<root, faults>>

-----------------------------------------------------------------------------
(* Under the lock. *)

Even == gen % 2 = 0
Transaction(p) == [job |-> job[p], src |-> seen[p]]

\* STORE_PROTOCOL_MIGRATION_REQUIRED, STORE_TRANSACTION_MISMATCH, or no write.
DeclineCommand(p) ==
    /\ pc[p] = "held" /\ job[p].kind = "write"
    /\ \/ seal.ver = 0
       \/ ~Even /\ active.job # job[p]
       \/ Even /\ Len(source) = MaxWrites
    /\ Goto(p, "done")
    /\ UNCHANGED <<root, lock, job, seen, faults>>

EnterCommand(p) ==
    /\ pc[p] = "held" /\ job[p].kind = "write"
    /\ seal.ver # 0
    /\ IF Even THEN Len(source) < MaxWrites ELSE active.job = job[p]
    /\ seen' = [seen EXCEPT ![p] = IF Even THEN source ELSE active.src]
    /\ Goto(p, "valid")
    /\ UNCHANGED <<root, lock, job, faults>>

\* PREDECESSOR_MISMATCH, EVEN_REQUIRED, or completed before: idempotent.
DeclineRotation(p) ==
    /\ pc[p] = "held" /\ job[p].kind = "rotate"
    /\ \/ ~ExpectedPredecessor(job[p].rot)
       \/ ~Even /\ active.job.kind # "rotate"
       \/ Even /\ SealedRotation(job[p].rot)
    /\ Goto(p, "done")
    /\ UNCHANGED <<root, lock, job, seen, faults>>

Rotates(p) ==
    /\ pc[p] = "held" /\ job[p].kind = "rotate"
    /\ ExpectedPredecessor(job[p].rot)
    /\ Even => ~SealedRotation(job[p].rot)
    /\ ~Even => active.job.kind = "rotate"

\* A receipt that is there already says what was validated.
Reported(p) == PendingRotation(job[p].rot) \/ SealedRotation(job[p].rot)

ReuseReceipt(p) ==
    /\ Rotates(p) /\ Reported(p)
    /\ \E x \in ReceiptsOf(job[p].rot) : seen' = [seen EXCEPT ![p] = x.src]
    /\ Goto(p, "valid")
    /\ UNCHANGED <<root, lock, job, faults>>

\* The whole root is replayed: what the validation reports is all of it.
Replay(p) ==
    /\ seen' = [seen EXCEPT ![p] = source]
    /\ Goto(p, "valid")
    /\ UNCHANGED <<root, lock, job, faults>>

\* Both decoders replay it, and their reports agree.
ValidateRotation(p) ==
    /\ Rotates(p) /\ ~Reported(p)
    /\ Replay(p)

ValidateAdoption(p) ==
    /\ pc[p] = "held" /\ job[p].kind = "adopt"
    /\ Replay(p)

\* A validator that throws has changed nothing, and the lock is released.
Throw(p) ==
    /\ faults < MaxFaults
    /\ faults' = faults + 1
    /\ Goto(p, "done")
    /\ UNCHANGED <<root, lock, job, seen>>

InvalidRotation(p) == Rotates(p) /\ ~Reported(p) /\ Throw(p)

InvalidAdoption(p) == pc[p] = "held" /\ job[p].kind = "adopt" /\ Throw(p)

\* beginRootWrite for a fresh transaction; an odd root goes on with its own.
BeginRootWrite(p) ==
    /\ pc[p] = "valid" /\ Even
    /\ gen' = gen + 1
    /\ active' = Transaction(p)
    /\ Goto(p, "begun")
    /\ UNCHANGED <<seal, receipts, anchored, source, lock, job, seen, faults>>

BeginCommand(p) == BeginRootWrite(p) /\ job[p].kind = "write"
BeginRotation(p) == BeginRootWrite(p) /\ job[p].kind = "rotate"
BeginAdoption(p) == BeginRootWrite(p) /\ job[p].kind = "adopt" /\ seal.ver = 0

Resume(p) ==
    /\ pc[p] = "valid" /\ ~Even
    /\ Goto(p, IF active = Transaction(p) THEN "begun" ELSE "done")
    /\ UNCHANGED <<root, lock, job, seen, faults>>

\* Adoption of a root that is sealed already.
AlreadyAdopted(p) ==
    /\ pc[p] = "valid" /\ Even
    /\ job[p].kind = "adopt" /\ seal.ver # 0
    /\ Goto(p, "done")
    /\ UNCHANGED <<root, lock, job, seen, faults>>

\* The callback of an ordinary command, or what its retry finds to be there.
WritePayload(p) ==
    /\ pc[p] = "begun" /\ job[p].kind = "write"
    /\ source' = IF source = active.src THEN Append(source, job[p].ver) ELSE source
    /\ Goto(p, "sealed")
    /\ UNCHANGED <<seal, receipts, anchored, gen, active, lock, job, seen, faults>>

Receipt(p) == [rot |-> job[p].rot, src |-> seen[p], entry |-> gen - 1]

InstallReceipt(p) ==
    /\ pc[p] = "begun" /\ job[p].kind = "rotate"
    /\ receipts' = receipts \cup {Receipt(p)}
    /\ Goto(p, "installed")
    /\ UNCHANGED <<seal, anchored, gen, active, source, lock, job, seen, faults>>

Successor(p) == [ver |-> job[p].ver, src |-> seen[p],
                 rotations |-> Append(seal.rotations, job[p].rot)]

InstallSuccessor(p) ==
    /\ pc[p] = "installed" /\ job[p].kind = "rotate"
    /\ seal' = IF SealedRotation(job[p].rot) THEN seal ELSE Successor(p)
    /\ Goto(p, "sealed")
    /\ UNCHANGED <<receipts, anchored, gen, active, source, lock, job, seen, faults>>

\* Sources before the indexes that name them, all of them before the seal.
InstallArtifacts(p) ==
    /\ pc[p] = "begun" /\ job[p].kind = "adopt"
    /\ anchored' = TRUE
    /\ Goto(p, "installed")
    /\ UNCHANGED <<seal, receipts, gen, active, source, lock, job, seen, faults>>

EnsureProtocol(p) ==
    /\ pc[p] = "installed" /\ job[p].kind = "adopt"
    /\ seal' = IF seal.ver = 0
               THEN [ver |-> job[p].ver, src |-> seen[p], rotations |-> <<>>] ELSE seal
    /\ Goto(p, "sealed")
    /\ UNCHANGED <<receipts, anchored, gen, active, source, lock, job, seen, faults>>

Complete(p) ==
    /\ pc[p] = "sealed"
    /\ gen' = gen + 1
    /\ active' = None
    /\ Goto(p, "done")
    /\ UNCHANGED <<seal, receipts, anchored, source, lock, job, seen, faults>>

Crash(p) ==
    /\ pc[p] # "idle" /\ faults < MaxFaults
    /\ faults' = faults + 1
    /\ Leave(p)
    /\ lock' = IF Mine(p) THEN [lock EXCEPT !.dead = TRUE] ELSE lock
    /\ UNCHANGED root

Step(p) ==
    \/ Reap(p) \/ ReadProtocol(p) \/ TurnedAway(p) \/ Publish(p) \/ Check(p)
    \/ DeclineCommand(p) \/ EnterCommand(p) \/ DeclineRotation(p) \/ ReuseReceipt(p)
    \/ ValidateRotation(p) \/ ValidateAdoption(p)
    \/ BeginCommand(p) \/ BeginRotation(p) \/ BeginAdoption(p) \/ Resume(p)
    \/ AlreadyAdopted(p) \/ WritePayload(p)
    \/ InstallReceipt(p) \/ InstallSuccessor(p) \/ InstallArtifacts(p)
    \/ EnsureProtocol(p) \/ Complete(p) \/ Release(p)

Next ==
    \E p \in Proc :
        \/ Step(p) \/ InvalidRotation(p) \/ InvalidAdoption(p) \/ Crash(p)
        \/ \E j \in Jobs : Start(p, j)

-----------------------------------------------------------------------------
(* Properties. *)

\* The command that the root waits for: the owner of the dead lock, else the
\* one whose transaction is open.  Its operator repeats it.
Owed == IF lock # None /\ lock.dead THEN lock.job
        ELSE IF active # None THEN active.job ELSE None
Repeat == \E p \in Proc : Owed # None /\ Start(p, Owed)

Spec ==
    /\ Init /\ [][Next]_vars
    /\ \A p \in Proc : WF_vars(Step(p))
    /\ SF_vars(Repeat)

\* ALL_OLD_CONTROLLERS_DRAINED_AND_ISOLATED: while a rotation or an adoption runs,
\* nothing else does but that request again.
Drained ==
    \A p, q \in Proc :
        pc[p] # "idle" /\ pc[q] # "idle" /\ job[p].kind # "write" =>
            job[q] = job[p]

\* Only the owed command runs.
Alone == \A p \in Proc : pc[p] # "idle" => job[p] = Owed

\* The machine states of a rotation: predecessor-even, predecessor-odd with or
\* without the receipt, successor-odd with it, successor-even.  A receipt that is
\* not sealed, or an open rotation, always leaves the request that can finish it; a
\* seal never comes before the artifacts it lists.
MachineStates ==
    /\ Even <=> active = None
    /\ Unsealed # {} => \E r \in Rotation : PendingRotation(r)
    /\ active # None /\ active.job.kind = "rotate" =>
         LET r == active.job.rot
         IN  seal.ver = r.from \/ (SealedRotation(r) /\ InRotation(r))
    /\ active = None => Unsealed = {}
    /\ seal.ver # 0 => anchored

\* With the old controllers drained, a rotation or a command that crashed is
\* finished by repeating it and nothing else: the root becomes even and its lock
\* comes free, also when only the answer of a finished rotation was lost.
RotationRecovers ==
    []Drained /\ <>[]Alone =>
        ((~Even \/ (lock # None /\ lock.dead)) ~> (Even /\ lock = None))
=============================================================================
