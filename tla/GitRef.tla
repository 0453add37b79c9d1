------------------------------- MODULE GitRef -------------------------------
(***************************************************************************)
(* executeLooseRefTransaction (git-loose-ref-transaction.js): a compare-   *)
(* and-swap on one Git ref, made of links, a rename and unlinks beside a   *)
(* Git that takes the same two lock files.                                 *)
(*                                                                         *)
(* A transaction writes its new object id into a private fence file, hard- *)
(* links that file as packed-refs.lock and as <ref>.lock, validates the    *)
(* ref under both, and renames <ref>.lock over the loose ref.  So the      *)
(* fence, the locks and the new ref are names of one inode, and after a    *)
(* crash the names that are left say how far the transaction came.  The    *)
(* caller (P1 commit, handoff checkpoint, canary branch) runs a            *)
(* transaction again until it is done.                                     *)
(*                                                                         *)
(* allowedFinalRefs is empty in every call and left out, and no caller     *)
(* asks for a deletion; file modes, owners and parents are taken to be     *)
(* right.                                                                  *)
(***************************************************************************)
EXTENDS Naturals, Sequences, SequencesExt

CONSTANTS
    Tx,           \* transactions on the ref, each with a fence of its own
    Oid,          \* commits
    Zero,         \* the object id that stands for "no ref"
    Git,          \* owner of what git wrote
    None,
    Old, New,     \* expectedOld and expectedNew of a transaction
    Preserve,     \* transactions of reflogPolicy 'preserve', the others 'absent'
    MaxGit, MaxCrash    \* bounds on git's own updates and on crashes

ASSUME GitRefAssumption ==
    /\ Zero \in Oid
    /\ Old \in [Tx -> Oid] /\ New \in [Tx -> Oid]
    /\ \A t \in Tx : New[t] \notin {Zero, Old[t]}
    /\ Preserve \subseteq Tx
    /\ Git \notin Tx /\ None \notin Tx /\ Git # None
    /\ MaxGit \in Nat /\ MaxCrash \in Nat

VARIABLES
    loose,        \* the loose ref: its commit, and whose inode it is
    packed,       \* the ref's entry in packed-refs, Zero if it has none
    refLock, packedLock,    \* whose inode <ref>.lock and packed-refs.lock are
    fence,        \* per transaction: its fence file
    reflog,       \* the ref's log: one <<old, new>> per line
    kept,         \* per transaction: lines of the log when it was prepared
    pc,           \* per transaction: where its process is
    oldStat,      \* ... and the loose inode it validated under the locks
    mutated,      \* ... and whether this call itself moved the ref
    reported,     \* transactions reported as done
    gitPc,        \* what git is doing to the ref
    gitMoves, crashes

files == <<loose, packed, refLock, packedLock, fence>>
memo  == <<oldStat, mutated, reported>>
local == <<pc, memo>>
git   == <<reflog, gitPc, gitMoves>>
rest  == <<git, kept, crashes>>
vars  == <<files, local, rest>>

\* What the module never writes: a missing loose ref.
NoLoose == [oid |-> Zero, ino |-> None]

\* What git rev-parse answers: a loose ref hides the packed one.
CurrentRef == IF loose = NoLoose THEN packed ELSE loose.oid

PCs == {"idle", "fence", "repair", "classify", "linkPacked", "linkRef", "preimage", "recheck",
        "mutate", "close", "freePacked", "dropFence", "final",
        "relock", "undoRef", "undoPacked", "failed", "done"}

TypeOK ==
    /\ loose \in [oid : Oid \ {Zero}, ino : Tx \cup {Git}] \cup {NoLoose}
    /\ packed \in Oid
    /\ refLock \in Tx \cup {Git, None} /\ packedLock \in Tx \cup {Git, None}
    /\ fence \in [Tx -> {"none", "partial", "full"}]
    /\ reflog \in Seq(Oid \X Oid)
    /\ kept \in [Tx -> Nat]
    /\ pc \in [Tx -> PCs]
    /\ oldStat \in [Tx -> Tx \cup {Git, None}]
    /\ mutated \in [Tx -> BOOLEAN]
    /\ reported \subseteq Tx
    /\ gitPc \in {"idle", "update", "pack", "prune"}
    /\ gitMoves \in 0..MaxGit /\ crashes \in 0..MaxCrash

\* The ref starts as the expected old commit of somebody, loose or packed.
Init ==
    /\ \E o \in {Old[t] : t \in Tx} :
          \/ o = Zero /\ loose = NoLoose /\ packed = Zero
          \/ o # Zero /\ loose = [oid |-> o, ino |-> Git] /\ packed \in {Zero, o}
          \/ o # Zero /\ loose = NoLoose /\ packed = o
    /\ refLock = None /\ packedLock = None
    /\ fence = [t \in Tx |-> "none"]
    /\ reflog = <<>>
    /\ kept = [t \in Tx |-> 0]
    /\ pc = [t \in Tx |-> "idle"]
    /\ oldStat = [t \in Tx |-> None]
    /\ mutated = [t \in Tx |-> FALSE]
    /\ reported = {}
    /\ gitPc = "idle" /\ gitMoves = 0 /\ crashes = 0

-----------------------------------------------------------------------------
(* What a transaction reads.                                               *)

\* classifyRef: the ref is neither where the caller left it nor where it wants it.
Foreign(t) == CurrentRef \notin {Old[t], New[t]}

\* Both lock names are free, or hard links of the transaction's fence.
NoForeignLock(t) == refLock \in {t, None} /\ packedLock \in {t, None}

NoLock == refLock = None /\ packedLock = None

CanonicalOwned(t) == loose.ino = t

\* assertCanonicalLooseOid: the loose ref has the commit and one name only.
LooseIs(oid) ==
    /\ loose.oid = oid
    /\ loose.ino \in Tx => fence[loose.ino] = "none"

\* The expected old commit is stored in the one loose ref, or packed only.
OldStorage(t) ==
    \/ LooseIs(Old[t])
    \/ Old[t] # Zero /\ loose = NoLoose /\ packed = Old[t]

\* assertPackedRefPolicy: a packed entry can only be that of the old commit.
PackedPolicy(t) == packed \in {Zero, Old[t]}

\* describeReflogFile: what identifies the log's contents.
LogDescriptor == Len(reflog)

\* assertReflogExpectation: no log at all ('absent'), or the log as it was
\* prepared, extended only by lines that take the new commit back to the old
\* (what git itself writes when a fenced checkpoint is undone).
ReflogExpected(t) ==
    IF t \in Preserve
    THEN /\ LogDescriptor >= kept[t]
         /\ \A i \in kept[t] + 1..Len(reflog) : reflog[i] = <<New[t], Old[t]>>
    ELSE reflog = <<>>

\* inspectOwnedTopology: the locks are ours, so the fence's link count is one
\* more than the names found; which names those are is what the steps test.
Topology(t) == NoForeignLock(t) /\ fence[t] = "full"

-----------------------------------------------------------------------------
Go(t, where) == pc' = [pc EXCEPT ![t] = where]

\* Mutant: the locks are left to the next attempt.
Fail_KeepsLocks(t) == Go(t, "failed") /\ UNCHANGED <<files, memo, rest>>

\* An operation that throws before the mutation unlinks its locks first.
Fail(t) == Go(t, "undoRef") /\ UNCHANGED <<files, memo, rest>>

Throw(t) == Go(t, "failed") /\ UNCHANGED <<files, memo, rest>>

\* A step that only reads and goes on.
Pass(t, where) == Go(t, where) /\ UNCHANGED <<files, memo, rest>>

\* The durable descriptor of the log is taken when the transaction is prepared
\* (describeLooseRefReflog), while no fence is installed.
Prepare(t) ==
    /\ pc[t] = "idle" /\ fence[t] = "none" /\ t \in Preserve
    /\ kept' = [kept EXCEPT ![t] = LogDescriptor]
    /\ kept[t] # LogDescriptor
    /\ UNCHANGED <<files, local, git, crashes>>

\* The answer to the caller.
Report(t) ==
    /\ reported' = reported \cup {t}
    /\ Go(t, "done")
    /\ UNCHANGED <<files, oldStat, mutated, rest>>

\* assertNoFenceExpectedNew: somebody has brought the ref there, or an earlier
\* attempt came to its very end; nothing of it is about any more.
AlreadyThere(t) ==
    /\ CurrentRef = New[t] /\ NoLock
    /\ loose = NoLoose \/ LooseIs(New[t])
    /\ ReflogExpected(t)

\* A call that finds no fence: what it sees decides between done, a refusal
\* and installing the fence.
EnterUnfenced(t) ==
    /\ pc[t] = "idle" /\ fence[t] = "none"
    /\ IF Foreign(t) \/ ~NoLock THEN Throw(t)
       ELSE IF CurrentRef = New[t] THEN IF AlreadyThere(t) THEN Report(t) ELSE Throw(t)
       ELSE IF (Old[t] # Zero /\ loose = NoLoose) \/ LooseIs(Old[t]) THEN Pass(t, "fence")
       ELSE Throw(t)

\* A call that finds its fence, whole or cut short by a crash.
EnterFenced(t) ==
    /\ pc[t] = "idle" /\ fence[t] # "none"
    /\ IF Foreign(t) THEN Throw(t)
       ELSE Pass(t, IF fence[t] = "full" THEN "classify" ELSE "repair")

\* The fence is written in two halves, ...
InstallFence(t) ==
    /\ pc[t] = "fence"
    /\ fence' = [fence EXCEPT ![t] = IF @ = "none" THEN "partial" ELSE "full"]
    /\ Go(t, IF fence[t] = "none" THEN "fence" ELSE "classify")
    /\ UNCHANGED <<loose, packed, refLock, packedLock, memo, rest>>

\* ... and one that a crash cut short is completed in place.
RepairFence(t) ==
    /\ pc[t] = "repair"
    /\ fence' = [fence EXCEPT ![t] = "full"]
    /\ Go(t, "classify")
    /\ UNCHANGED <<loose, packed, refLock, packedLock, memo, rest>>

\* With the fence durable the ref and the locks are looked at again.
Classify(t) ==
    /\ pc[t] = "classify"
    /\ IF Foreign(t) \/ ~Topology(t) THEN Throw(t)
       ELSE IF CurrentRef = New[t] THEN Pass(t, "close")
       ELSE IF packedLock = t /\ refLock = None THEN Pass(t, "relock")
       ELSE IF packedLock = None /\ refLock = None THEN Pass(t, "linkPacked")
       ELSE Pass(t, "preimage")

LinkPacked(t) ==
    /\ pc[t] = "linkPacked"
    /\ IF NoLock /\ ~CanonicalOwned(t)
       THEN packedLock' = t /\ Go(t, "linkRef")
            /\ UNCHANGED <<loose, packed, refLock, fence, memo, rest>>
       ELSE Fail(t)

\* Mutant: the link replaces a lock that is there.
LinkRef_Replaces(t) ==
    /\ pc[t] = "linkRef"
    /\ refLock' = t /\ Go(t, "preimage")
    /\ UNCHANGED <<loose, packed, packedLock, fence, memo, rest>>

LinkRef(t) ==
    /\ pc[t] = "linkRef"
    /\ IF refLock = None
       THEN refLock' = t /\ Go(t, "preimage")
            /\ UNCHANGED <<loose, packed, packedLock, fence, memo, rest>>
       ELSE Fail(t)

\* Mutant: what was read before the locks is not read again under them.
Preimage_Stale(t) ==
    /\ pc[t] = "preimage"
    /\ oldStat' = [oldStat EXCEPT ![t] = loose.ino]
    /\ Go(t, "mutate")
    /\ UNCHANGED <<files, mutated, reported, rest>>

\* assertPreimageWithBothLocks.
Preimage(t) ==
    /\ pc[t] = "preimage"
    /\ IF /\ refLock = t /\ packedLock = t /\ ~CanonicalOwned(t)
          /\ PackedPolicy(t) /\ ReflogExpected(t)
          /\ CurrentRef = Old[t] /\ OldStorage(t)
       THEN /\ oldStat' = [oldStat EXCEPT ![t] = loose.ino]
            /\ Go(t, "recheck")
            /\ UNCHANGED <<files, mutated, reported, rest>>
       ELSE Fail(t)

\* The storage of the old commit is read once more and is the same inode.
Recheck(t) ==
    /\ pc[t] = "recheck"
    /\ IF OldStorage(t) /\ (Old[t] # Zero => oldStat[t] = loose.ino)
       THEN Pass(t, "mutate") ELSE Fail(t)

\* The mutation: <ref>.lock is renamed over the ref.
Mutate(t) ==
    /\ pc[t] = "mutate"
    /\ loose' = [oid |-> New[t], ino |-> t]
    /\ refLock' = None
    /\ mutated' = [mutated EXCEPT ![t] = TRUE]
    /\ Go(t, "close")
    /\ UNCHANGED <<packed, packedLock, fence, oldStat, reported, rest>>

-----------------------------------------------------------------------------
(* closeExpectedNew.                                                       *)

\* An error unlinks the locks in a call that did not move the ref itself and
\* does not find the loose ref to be its own; otherwise all is kept.
CloseFail(t) ==
    IF ~mutated[t] /\ ~CanonicalOwned(t) THEN Fail(t) ELSE Throw(t)

\* packed-refs.lock is taken again if the crash was before or after it.
CloseLock(t) ==
    /\ pc[t] = "close" /\ packedLock # t
    /\ IF packedLock = None /\ NoForeignLock(t)
       THEN packedLock' = t
            /\ UNCHANGED <<loose, packed, refLock, fence, local, git, kept, crashes>>
       ELSE CloseFail(t)

CloseValidate(t) ==
    /\ pc[t] = "close" /\ packedLock = t
    /\ IF /\ NoForeignLock(t) /\ PackedPolicy(t) /\ ReflogExpected(t)
          /\ CurrentRef = New[t] /\ CanonicalOwned(t) /\ refLock = None
       THEN Pass(t, "freePacked")
       ELSE CloseFail(t)

\* On the way out of a failure its own <ref>.lock is unlinked, ...
FreeRef(t) ==
    /\ pc[t] = "undoRef"
    /\ refLock' = IF refLock = t THEN None ELSE refLock
    /\ Go(t, "undoPacked")
    /\ UNCHANGED <<loose, packed, packedLock, fence, memo, rest>>

\* ... and its own packed-refs.lock: when the ref has moved, ...
FreePacked(t) ==
    /\ pc[t] = "freePacked"
    /\ IF NoForeignLock(t)
       THEN packedLock' = None /\ Go(t, "dropFence")
            /\ UNCHANGED <<loose, packed, refLock, fence, memo, rest>>
       ELSE CloseFail(t)

\* ... on the way out of a failure, and when it alone was left by an earlier
\* attempt: then both locks are taken afresh.
ReleasePacked(t) ==
    /\ pc[t] \in {"undoPacked", "relock"}
    /\ packedLock' = IF packedLock = t THEN None ELSE packedLock
    /\ Go(t, IF pc[t] = "relock" THEN "linkPacked" ELSE "failed")
    /\ UNCHANGED <<loose, packed, refLock, fence, memo, rest>>

\* cleanupFence: only while the ref is the fence's one other name.
DropFence(t) ==
    /\ pc[t] = "dropFence"
    /\ IF /\ ReflogExpected(t) /\ refLock # t /\ packedLock # t
          /\ CanonicalOwned(t)
       THEN /\ fence' = [fence EXCEPT ![t] = "none"]
            /\ Go(t, "final")
            /\ UNCHANGED <<loose, packed, refLock, packedLock, memo, rest>>
       ELSE CloseFail(t)

\* The last look.
Final(t) ==
    /\ pc[t] = "final"
    /\ IF LooseIs(New[t]) /\ CurrentRef = New[t] /\ NoLock /\ ReflogExpected(t)
       THEN Report(t) ELSE Throw(t)

\* The caller's next attempt.
Retry(t) ==
    /\ pc[t] = "failed"
    /\ Go(t, "idle")
    /\ mutated' = [mutated EXCEPT ![t] = FALSE]
    /\ UNCHANGED <<files, oldStat, reported, rest>>

Crash(t) ==
    /\ crashes < MaxCrash
    /\ pc[t] \notin {"idle", "failed", "done"}
    /\ crashes' = crashes + 1
    /\ Go(t, "idle")
    /\ mutated' = [mutated EXCEPT ![t] = FALSE]
    /\ UNCHANGED <<files, oldStat, reported, git, kept>>

-----------------------------------------------------------------------------
(* Git itself, which takes the lock files by O_EXCL.                       *)

\* git update-ref and everything built on it.
GitLockRef ==
    /\ gitPc = "idle" /\ gitMoves < MaxGit /\ refLock = None
    /\ refLock' = Git /\ gitPc' = "update"
    /\ UNCHANGED <<loose, packed, packedLock, fence, local, reflog, gitMoves, kept, crashes>>

GitUpdate ==
    /\ gitPc = "update"
    /\ \E o \in Oid \ {Zero, CurrentRef} :
          /\ loose' = [oid |-> o, ino |-> Git]
          /\ reflog' = Append(reflog, <<CurrentRef, o>>)
    /\ refLock' = None /\ gitPc' = "idle" /\ gitMoves' = gitMoves + 1
    /\ UNCHANGED <<packed, packedLock, fence, local, kept, crashes>>

\* git pack-refs writes packed-refs under its lock, then prunes the loose ref
\* under <ref>.lock if it still has the packed value.
GitPack ==
    /\ gitPc = "idle" /\ packedLock = None /\ loose # NoLoose /\ packed # loose.oid
    /\ packedLock' = Git /\ gitPc' = "pack"
    /\ UNCHANGED <<loose, packed, refLock, fence, local, reflog, gitMoves, kept, crashes>>

GitPacked ==
    /\ gitPc = "pack"
    /\ packed' = loose.oid
    /\ packedLock' = None /\ gitPc' = "prune"
    /\ UNCHANGED <<loose, refLock, fence, local, reflog, gitMoves, kept, crashes>>

GitPrune ==
    /\ gitPc = "prune"
    /\ gitPc' = "idle"
    /\ loose' = IF refLock = None /\ loose.oid = packed THEN NoLoose ELSE loose
    /\ UNCHANGED <<packed, refLock, packedLock, fence, local, reflog, gitMoves, kept, crashes>>

-----------------------------------------------------------------------------
TxStep(t) ==
    \/ EnterUnfenced(t) \/ EnterFenced(t) \/ InstallFence(t) \/ RepairFence(t) \/ Classify(t)
    \/ LinkPacked(t) \/ LinkRef(t) \/ Preimage(t) \/ Recheck(t) \/ Mutate(t)
    \/ CloseLock(t) \/ CloseValidate(t) \/ FreeRef(t) \/ FreePacked(t) \/ ReleasePacked(t)
    \/ DropFence(t) \/ Final(t) \/ Retry(t)

GitStep == GitLockRef \/ GitUpdate \/ GitPack \/ GitPacked \/ GitPrune

Next == GitStep \/ \E t \in Tx : TxStep(t) \/ Prepare(t) \/ Crash(t)

\* Git finishes what it locked; the control commands are run again.
Fairness ==
    /\ WF_vars(GitUpdate \/ GitPacked \/ GitPrune)
    /\ \A t \in Tx : WF_vars(TxStep(t))

Spec == Init /\ [][Next]_vars /\ Fairness

-----------------------------------------------------------------------------
ARef == INSTANCE AtomicRef WITH ref <- CurrentRef

(* The transaction is a compare-and-swap: no step of it, whatever git and  *)
(* the crashes do, moves the ref but from the expected old commit to the   *)
(* new one, and "done" is answered only with the ref in place.             *)
ImplementsAtomicRef == ARef!Spec

(* A transaction never takes away a lock file that git holds (linkFence is *)
(* exclusive, unlinkOwned compares inodes), and git never loses an update  *)
(* it began under one.                                                     *)
GitKeepsItsLocks ==
    [][\A t \in Tx : pc'[t] # pc[t] =>
          /\ refLock = Git => refLock' = Git
          /\ packedLock = Git => packedLock' = Git]_vars

(* A transaction reported as done has left nothing of its own behind that  *)
(* would stop git or the next transaction: no lock and no fence, and the   *)
(* inode of its ref has no second name.                                    *)
DoneIsClean ==
    \A t \in Tx : pc[t] = "done" => fence[t] = "none" /\ refLock # t /\ packedLock # t

(* Locks do not outlive the transaction: whatever crash left a lock file,  *)
(* the retries give it back to git.  Two moves of git itself stand in the  *)
(* way: the ref is at a third commit, and every retry refuses before it    *)
(* touches a lock; or the new commit has been packed, which the packed     *)
(* policy of a retry that closes the transaction does not accept.          *)
LocksFreed ==
    \A t \in Tx :
        (t \in {refLock, packedLock}) ~>
            \/ t \notin {refLock, packedLock}
            \/ Foreign(t)
            \/ packed = New[t]
=============================================================================
