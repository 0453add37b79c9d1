---------------------------- MODULE GitRefProofs ----------------------------
(***************************************************************************)
(* Theorems about GitRef, for any number of transactions on a ref, any     *)
(* commits, and any number of moves of git and of crashes.                 *)
(*                                                                         *)
(* Then, from the section "The bootstrap of a worktree" on, about an       *)
(* instance of WorkerBootstrap.                                            *)
(***************************************************************************)
EXTENDS GitRef, Worktree, TLAPS

\* The lock of a transaction is a name of its fence, which is still there.
LocksAreFences ==
    \A t \in Tx : t \in {refLock, packedLock} => fence[t] = "full"

\* Steps that are taken only with the fence installed, and those without it.
Fenced   == {"classify", "linkPacked", "linkRef", "preimage", "recheck", "mutate", "close",
             "freePacked", "dropFence", "relock", "undoRef", "undoPacked"}
Unfenced == {"final", "done"}

FenceInv(t) ==
    /\ pc[t] \in Fenced => fence[t] = "full"
    /\ pc[t] \in Unfenced => fence[t] = "none"

\* From the validation on, a transaction holds both locks; until it has moved
\* the ref, nobody else has.
Guarded(t) ==
    pc[t] \in {"recheck", "mutate"} =>
        /\ refLock = t /\ packedLock = t
        /\ CurrentRef = Old[t]

\* What git is in the middle of.
GitInv ==
    /\ gitPc = "update" <=> refLock = Git
    /\ gitPc = "update" => gitMoves < MaxGit
    /\ gitPc = "pack" <=> packedLock = Git
    /\ gitPc = "pack" => loose # NoLoose

IInv ==
    /\ TypeOK
    /\ LocksAreFences
    /\ \A t \in Tx : FenceInv(t) /\ Guarded(t)
    /\ GitInv

\* The invariant holds before anything has run.
LEMMA InitIInv == Init => IInv
  BY GitRefAssumption
     DEF Init, IInv, TypeOK, LocksAreFences, FenceInv, Fenced, Unfenced, Guarded, GitInv, PCs, NoLoose


\* A step that decides on what it reads moves on and changes nothing else,
\* or reports.
LEMMA Decisions ==
    ASSUME NEW t \in Tx
    PROVE  /\ EnterUnfenced(t) => \/ Throw(t) \/ Pass(t, "fence")
                                  \/ Report(t) /\ CurrentRef = New[t] /\ NoLock
           /\ EnterFenced(t) => Throw(t) \/ (fence[t] = "full" /\ Pass(t, "classify"))
                                         \/ (fence[t] # "full" /\ Pass(t, "repair"))
           /\ Classify(t) => \/ Throw(t) \/ Pass(t, "close") \/ Pass(t, "relock")
                             \/ Pass(t, "linkPacked") \/ Pass(t, "preimage")
           /\ Preimage(t) => \/ Fail(t)
                             \/ /\ refLock = t /\ packedLock = t /\ CurrentRef = Old[t]
                                /\ oldStat' = [oldStat EXCEPT ![t] = loose.ino]
                                /\ Go(t, "recheck")
                                /\ UNCHANGED <<files, mutated, reported, rest>>
           /\ Recheck(t) => Pass(t, "mutate") \/ Fail(t)
           /\ CloseValidate(t) => Pass(t, "freePacked") \/ Fail(t) \/ Throw(t)
           /\ DropFence(t) => \/ Fail(t) \/ Throw(t)
                              \/ /\ refLock # t /\ packedLock # t
                                 /\ fence' = [fence EXCEPT ![t] = "none"]
                                 /\ Go(t, "final")
                                 /\ UNCHANGED <<loose, packed, refLock, packedLock, memo, rest>>
           /\ Final(t) => Throw(t) \/ (Report(t) /\ CurrentRef = New[t] /\ NoLock)
  BY DEF EnterUnfenced, AlreadyThere, EnterFenced, Classify, Preimage, Recheck, CloseValidate,
         CloseFail, DropFence, Final

\* A process that only moves on.
LEMMA MovesOn ==
    ASSUME TypeOK, NEW t \in Tx, NEW x \in PCs, Go(t, x), UNCHANGED <<files, memo, rest>>
    PROVE  TypeOK'
  BY DEF TypeOK, Go, files, memo, git, rest

\* A step of a transaction keeps the variables in their types.
LEMMA TxType ==
    ASSUME IInv, NEW t \in Tx, TxStep(t) \/ Prepare(t) \/ Crash(t)
    PROVE  TypeOK'
  <1> USE GitRefAssumption DEF IInv, TypeOK, PCs, NoLoose, Go, files, memo, local, git, rest, LogDescriptor
  <1>1. CASE EnterUnfenced(t)
    <2>1. pc[t] = "idle" /\ fence[t] = "none"
      BY <1>1 DEF EnterUnfenced
    <2>2. Throw(t) \/ Pass(t, "fence") \/ (Report(t) /\ CurrentRef = New[t] /\ NoLock)
      BY <1>1, Decisions
    <2>3. QED  BY <2>1, <2>2, MovesOn DEF Throw, Pass, Report
  <1>2. CASE EnterFenced(t)
    <2>1. pc[t] = "idle" /\ fence[t] # "none"
      BY <1>2 DEF EnterFenced
    <2>2. Throw(t) \/ (fence[t] = "full" /\ Pass(t, "classify")) \/ (fence[t] # "full" /\ Pass(t, "repair"))
      BY <1>2, Decisions
    <2>3. QED  BY <2>1, <2>2, MovesOn DEF Throw, Pass
  <1>3. CASE InstallFence(t)
    BY <1>3 DEF InstallFence
  <1>4. CASE RepairFence(t)
    BY <1>4 DEF RepairFence
  <1>5. CASE Classify(t)
    <2>1. pc[t] = "classify"
      BY <1>5 DEF Classify
    <2>2. Throw(t) \/ Pass(t, "close") \/ Pass(t, "relock") \/ Pass(t, "linkPacked") \/ Pass(t, "preimage")
      BY <1>5, Decisions
    <2>3. QED  BY <2>1, <2>2, MovesOn DEF Throw, Pass
  <1>6. CASE LinkPacked(t)
    BY <1>6 DEF LinkPacked, CanonicalOwned, NoLock, Fail
  <1>7. CASE LinkRef(t)
    BY <1>7 DEF LinkRef, Fail
  <1>8. CASE Preimage(t)
    <2>1. pc[t] = "preimage"
      BY <1>8 DEF Preimage
    <2>2. \/ Fail(t)
           \/ /\ refLock = t /\ packedLock = t /\ CurrentRef = Old[t]
              /\ oldStat' = [oldStat EXCEPT ![t] = loose.ino]
              /\ Go(t, "recheck")
              /\ UNCHANGED <<files, mutated, reported, rest>>
      BY <1>8, Decisions
    <2>3. CASE Fail(t)
      BY <2>3, MovesOn DEF Fail
    <2>4. CASE ~Fail(t)
      <3>1. loose.ino \in Tx \cup {Git, None} /\ pc[t] \in PCs
        OBVIOUS
      <3>2. oldStat' = [oldStat EXCEPT ![t] = loose.ino] /\ pc' = [pc EXCEPT ![t] = "recheck"]
        BY <2>2, <2>4
      <3>3. UNCHANGED <<files, mutated, reported, rest>>
        BY <2>2, <2>4
      <3>4. QED  BY <3>1, <3>2, <3>3
    <2>5. QED  BY <2>3, <2>4
  <1>9. CASE Recheck(t)
    <2>1. pc[t] = "recheck"
      BY <1>9 DEF Recheck
    <2>2. Pass(t, "mutate") \/ Fail(t)
      BY <1>9, Decisions
    <2>3. QED  BY <2>1, <2>2, MovesOn DEF Pass, Fail
  <1>10. CASE Mutate(t)
    BY <1>10 DEF Mutate
  <1>11. CASE CloseLock(t)
    BY <1>11 DEF CloseLock, CloseFail, Fail, Throw, NoForeignLock, CanonicalOwned
  <1>12. CASE CloseValidate(t)
    <2>1. pc[t] = "close"
      BY <1>12 DEF CloseValidate
    <2>2. Pass(t, "freePacked") \/ Fail(t) \/ Throw(t)
      BY <1>12, Decisions
    <2>3. QED  BY <2>1, <2>2, MovesOn DEF Pass, Fail, Throw
  <1>13. CASE FreeRef(t)
    BY <1>13 DEF FreeRef
  <1>14. CASE FreePacked(t)
    BY <1>14 DEF FreePacked, CloseFail, Fail, Throw, NoForeignLock, CanonicalOwned
  <1>15. CASE ReleasePacked(t)
    BY <1>15 DEF ReleasePacked
  <1>16. CASE DropFence(t)
    <2>1. pc[t] = "dropFence"
      BY <1>16 DEF DropFence
    <2>2. \/ Fail(t) \/ Throw(t)
           \/ /\ refLock # t /\ packedLock # t
              /\ fence' = [fence EXCEPT ![t] = "none"]
              /\ Go(t, "final")
              /\ UNCHANGED <<loose, packed, refLock, packedLock, memo, rest>>
      BY <1>16, Decisions
    <2>3. CASE Fail(t) \/ Throw(t)
      BY <2>3, MovesOn DEF Fail, Throw
    <2>4. CASE ~Fail(t) /\ ~Throw(t)
      <3>1. fence' = [fence EXCEPT ![t] = "none"] /\ pc' = [pc EXCEPT ![t] = "final"]
        BY <2>2, <2>4
      <3>2. UNCHANGED <<loose, packed, refLock, packedLock, memo, rest>>
        BY <2>2, <2>4
      <3>3. QED  BY <3>1, <3>2
    <2>5. QED  BY <2>3, <2>4
  <1>17. CASE Final(t)
    <2>1. pc[t] = "final"
      BY <1>17 DEF Final
    <2>2. Throw(t) \/ (Report(t) /\ CurrentRef = New[t] /\ NoLock)
      BY <1>17, Decisions
    <2>3. CASE Throw(t)
      BY <2>3, MovesOn DEF Throw
    <2>4. CASE Report(t)
      BY <2>4 DEF Report
    <2>5. QED  BY <2>2, <2>3, <2>4
  <1>18. CASE Retry(t)
    BY <1>18 DEF Retry
  <1>19. CASE Prepare(t)
    BY <1>19 DEF Prepare
  <1>20. CASE Crash(t)
    BY <1>20 DEF Crash
  <1>21. QED
    BY <1>1, <1>2, <1>3, <1>4, <1>5, <1>6, <1>7, <1>8, <1>9, <1>10, <1>11, <1>12, <1>13, <1>14, <1>15, <1>16, <1>17, <1>18, <1>19, <1>20 DEF TxStep

\* A step of git keeps the variables in their types.
LEMMA GitType ==
    ASSUME IInv, GitStep
    PROVE  TypeOK'
  <1> USE GitRefAssumption DEF IInv, GitInv, TypeOK, PCs, NoLoose, Go, files, memo, local, git, rest, CurrentRef
  <1>1. CASE GitLockRef
    BY <1>1 DEF GitLockRef
  <1>2. CASE GitUpdate
    BY <1>2 DEF GitUpdate
  <1>3. CASE GitPack
    BY <1>3 DEF GitPack
  <1>4. CASE GitPacked
    BY <1>4 DEF GitPacked
  <1>5. CASE GitPrune
    BY <1>5 DEF GitPrune
  <1>6. QED
    BY <1>1, <1>2, <1>3, <1>4, <1>5 DEF GitStep

\* A transaction links its fence only while it is there, and drops it only
\* without locks.
LEMMA TxFences ==
    ASSUME IInv, NEW t \in Tx, TxStep(t) \/ Prepare(t) \/ Crash(t)
    PROVE  LocksAreFences' /\ \A u \in Tx : FenceInv(u)'
  <1> USE GitRefAssumption DEF IInv, LocksAreFences, FenceInv, Fenced, Unfenced, TypeOK, PCs, NoLoose, Go, files, memo, local, git, rest
  <1>1. CASE EnterUnfenced(t)
    <2>1. pc[t] = "idle" /\ fence[t] = "none"
      BY <1>1 DEF EnterUnfenced
    <2>2. Throw(t) \/ Pass(t, "fence") \/ (Report(t) /\ CurrentRef = New[t] /\ NoLock)
      BY <1>1, Decisions
    <2>3. QED  BY <2>1, <2>2 DEF Throw, Pass, Report
  <1>2. CASE EnterFenced(t)
    <2>1. pc[t] = "idle" /\ fence[t] # "none"
      BY <1>2 DEF EnterFenced
    <2>2. Throw(t) \/ (fence[t] = "full" /\ Pass(t, "classify")) \/ (fence[t] # "full" /\ Pass(t, "repair"))
      BY <1>2, Decisions
    <2>3. QED  BY <2>1, <2>2 DEF Throw, Pass
  <1>3. CASE InstallFence(t)
    BY <1>3 DEF InstallFence
  <1>4. CASE RepairFence(t)
    BY <1>4 DEF RepairFence
  <1>5. CASE Classify(t)
    <2>1. pc[t] = "classify"
      BY <1>5 DEF Classify
    <2>2. Throw(t) \/ Pass(t, "close") \/ Pass(t, "relock") \/ Pass(t, "linkPacked") \/ Pass(t, "preimage")
      BY <1>5, Decisions
    <2>3. QED  BY <2>1, <2>2 DEF Throw, Pass
  <1>6. CASE LinkPacked(t)
    BY <1>6 DEF LinkPacked, CanonicalOwned, NoLock, Fail
  <1>7. CASE LinkRef(t)
    BY <1>7 DEF LinkRef, Fail
  <1>8. CASE Preimage(t)
    <2>1. pc[t] = "preimage"
      BY <1>8 DEF Preimage
    <2>2. \/ Fail(t)
           \/ /\ refLock = t /\ packedLock = t /\ CurrentRef = Old[t]
              /\ oldStat' = [oldStat EXCEPT ![t] = loose.ino]
              /\ Go(t, "recheck")
              /\ UNCHANGED <<files, mutated, reported, rest>>
      BY <1>8, Decisions
    <2>3. QED  BY <2>1, <2>2 DEF Fail
  <1>9. CASE Recheck(t)
    <2>1. pc[t] = "recheck"
      BY <1>9 DEF Recheck
    <2>2. Pass(t, "mutate") \/ Fail(t)
      BY <1>9, Decisions
    <2>3. QED  BY <2>1, <2>2 DEF Pass, Fail
  <1>10. CASE Mutate(t)
    BY <1>10 DEF Mutate
  <1>11. CASE CloseLock(t)
    BY <1>11 DEF CloseLock, CloseFail, Fail, Throw, NoForeignLock, CanonicalOwned
  <1>12. CASE CloseValidate(t)
    <2>1. pc[t] = "close"
      BY <1>12 DEF CloseValidate
    <2>2. Pass(t, "freePacked") \/ Fail(t) \/ Throw(t)
      BY <1>12, Decisions
    <2>3. QED  BY <2>1, <2>2 DEF Pass, Fail, Throw
  <1>13. CASE FreeRef(t)
    BY <1>13 DEF FreeRef
  <1>14. CASE FreePacked(t)
    BY <1>14 DEF FreePacked, CloseFail, Fail, Throw, NoForeignLock, CanonicalOwned
  <1>15. CASE ReleasePacked(t)
    BY <1>15 DEF ReleasePacked
  <1>16. CASE DropFence(t)
    <2>1. pc[t] = "dropFence"
      BY <1>16 DEF DropFence
    <2>2. \/ Fail(t) \/ Throw(t)
           \/ /\ refLock # t /\ packedLock # t
              /\ fence' = [fence EXCEPT ![t] = "none"]
              /\ Go(t, "final")
              /\ UNCHANGED <<loose, packed, refLock, packedLock, memo, rest>>
      BY <1>16, Decisions
    <2>3. QED  BY <2>1, <2>2 DEF Fail, Throw
  <1>17. CASE Final(t)
    <2>1. pc[t] = "final"
      BY <1>17 DEF Final
    <2>2. Throw(t) \/ (Report(t) /\ CurrentRef = New[t] /\ NoLock)
      BY <1>17, Decisions
    <2>3. QED  BY <2>1, <2>2 DEF Throw, Report
  <1>18. CASE Retry(t)
    BY <1>18 DEF Retry
  <1>19. CASE Prepare(t)
    BY <1>19 DEF Prepare
  <1>20. CASE Crash(t)
    BY <1>20 DEF Crash
  <1>21. QED
    BY <1>1, <1>2, <1>3, <1>4, <1>5, <1>6, <1>7, <1>8, <1>9, <1>10, <1>11, <1>12, <1>13, <1>14, <1>15, <1>16, <1>17, <1>18, <1>19, <1>20 DEF TxStep

\* Git leaves fences and the locks of transactions alone.
LEMMA GitFences ==
    ASSUME IInv, GitStep
    PROVE  LocksAreFences' /\ \A u \in Tx : FenceInv(u)'
  <1> USE GitRefAssumption DEF IInv, LocksAreFences, FenceInv, GitInv, TypeOK, PCs, NoLoose, Go, files, memo, local, git, rest
  <1>1. CASE GitLockRef
    BY <1>1 DEF GitLockRef
  <1>2. CASE GitUpdate
    BY <1>2 DEF GitUpdate
  <1>3. CASE GitPack
    BY <1>3 DEF GitPack
  <1>4. CASE GitPacked
    BY <1>4 DEF GitPacked
  <1>5. CASE GitPrune
    BY <1>5 DEF GitPrune
  <1>6. QED
    BY <1>1, <1>2, <1>3, <1>4, <1>5 DEF GitStep

\* No transaction takes a lock that another one validated under, and none moves
\* the ref without both.
LEMMA TxGuards ==
    ASSUME IInv, NEW t \in Tx, TxStep(t) \/ Prepare(t) \/ Crash(t)
    PROVE  GitInv' /\ \A u \in Tx : Guarded(u)'
  <1> USE GitRefAssumption DEF IInv, Guarded, GitInv, CurrentRef, TypeOK, PCs, NoLoose, Go, files, memo, local, git, rest
  <1>1. CASE EnterUnfenced(t)
    <2>1. pc[t] = "idle" /\ fence[t] = "none"
      BY <1>1 DEF EnterUnfenced
    <2>2. Throw(t) \/ Pass(t, "fence") \/ (Report(t) /\ CurrentRef = New[t] /\ NoLock)
      BY <1>1, Decisions
    <2>3. QED  BY <2>1, <2>2 DEF Throw, Pass, Report
  <1>2. CASE EnterFenced(t)
    <2>1. pc[t] = "idle" /\ fence[t] # "none"
      BY <1>2 DEF EnterFenced
    <2>2. Throw(t) \/ (fence[t] = "full" /\ Pass(t, "classify")) \/ (fence[t] # "full" /\ Pass(t, "repair"))
      BY <1>2, Decisions
    <2>3. QED  BY <2>1, <2>2 DEF Throw, Pass
  <1>3. CASE InstallFence(t)
    BY <1>3 DEF InstallFence
  <1>4. CASE RepairFence(t)
    BY <1>4 DEF RepairFence
  <1>5. CASE Classify(t)
    <2>1. pc[t] = "classify"
      BY <1>5 DEF Classify
    <2>2. Throw(t) \/ Pass(t, "close") \/ Pass(t, "relock") \/ Pass(t, "linkPacked") \/ Pass(t, "preimage")
      BY <1>5, Decisions
    <2>3. QED  BY <2>1, <2>2 DEF Throw, Pass
  <1>6. CASE LinkPacked(t)
    BY <1>6 DEF LinkPacked, CanonicalOwned, NoLock, Fail
  <1>7. CASE LinkRef(t)
    BY <1>7 DEF LinkRef, Fail
  <1>8. CASE Preimage(t)
    <2>1. pc[t] = "preimage"
      BY <1>8 DEF Preimage
    <2>2. \/ Fail(t)
           \/ /\ refLock = t /\ packedLock = t /\ CurrentRef = Old[t]
              /\ oldStat' = [oldStat EXCEPT ![t] = loose.ino]
              /\ Go(t, "recheck")
              /\ UNCHANGED <<files, mutated, reported, rest>>
      BY <1>8, Decisions
    <2>3. QED  BY <2>1, <2>2 DEF Fail
  <1>9. CASE Recheck(t)
    <2>1. pc[t] = "recheck"
      BY <1>9 DEF Recheck
    <2>2. Pass(t, "mutate") \/ Fail(t)
      BY <1>9, Decisions
    <2>3. QED  BY <2>1, <2>2 DEF Pass, Fail
  <1>10. CASE Mutate(t)
    BY <1>10 DEF Mutate
  <1>11. CASE CloseLock(t)
    BY <1>11 DEF CloseLock, CloseFail, Fail, Throw, NoForeignLock, CanonicalOwned
  <1>12. CASE CloseValidate(t)
    <2>1. pc[t] = "close"
      BY <1>12 DEF CloseValidate
    <2>2. Pass(t, "freePacked") \/ Fail(t) \/ Throw(t)
      BY <1>12, Decisions
    <2>3. QED  BY <2>1, <2>2 DEF Pass, Fail, Throw
  <1>13. CASE FreeRef(t)
    BY <1>13 DEF FreeRef
  <1>14. CASE FreePacked(t)
    BY <1>14 DEF FreePacked, CloseFail, Fail, Throw, NoForeignLock, CanonicalOwned
  <1>15. CASE ReleasePacked(t)
    BY <1>15 DEF ReleasePacked
  <1>16. CASE DropFence(t)
    <2>1. pc[t] = "dropFence"
      BY <1>16 DEF DropFence
    <2>2. \/ Fail(t) \/ Throw(t)
           \/ /\ refLock # t /\ packedLock # t
              /\ fence' = [fence EXCEPT ![t] = "none"]
              /\ Go(t, "final")
              /\ UNCHANGED <<loose, packed, refLock, packedLock, memo, rest>>
      BY <1>16, Decisions
    <2>3. QED  BY <2>1, <2>2 DEF Fail, Throw
  <1>17. CASE Final(t)
    <2>1. pc[t] = "final"
      BY <1>17 DEF Final
    <2>2. Throw(t) \/ (Report(t) /\ CurrentRef = New[t] /\ NoLock)
      BY <1>17, Decisions
    <2>3. QED  BY <2>1, <2>2 DEF Throw, Report
  <1>18. CASE Retry(t)
    BY <1>18 DEF Retry
  <1>19. CASE Prepare(t)
    BY <1>19 DEF Prepare
  <1>20. CASE Crash(t)
    BY <1>20 DEF Crash
  <1>21. QED
    BY <1>1, <1>2, <1>3, <1>4, <1>5, <1>6, <1>7, <1>8, <1>9, <1>10, <1>11, <1>12, <1>13, <1>14, <1>15, <1>16, <1>17, <1>18, <1>19, <1>20 DEF TxStep

\* Git moves the ref under <ref>.lock, and packs it under packed-refs.lock.
LEMMA GitGuards ==
    ASSUME IInv, GitStep
    PROVE  GitInv' /\ \A u \in Tx : Guarded(u)'
  <1> USE GitRefAssumption DEF IInv, Guarded, GitInv, CurrentRef, TypeOK, PCs, NoLoose, Go, files, memo, local, git, rest
  <1>1. CASE GitLockRef
    BY <1>1 DEF GitLockRef
  <1>2. CASE GitUpdate
    BY <1>2 DEF GitUpdate
  <1>3. CASE GitPack
    BY <1>3 DEF GitPack
  <1>4. CASE GitPacked
    BY <1>4 DEF GitPacked
  <1>5. CASE GitPrune
    BY <1>5 DEF GitPrune
  <1>6. QED
    BY <1>1, <1>2, <1>3, <1>4, <1>5 DEF GitStep

\* Every step keeps the invariant.
LEMMA StepIInv == IInv /\ [Next]_vars => IInv'
  <1> SUFFICES ASSUME IInv, [Next]_vars PROVE IInv'
    OBVIOUS
  <1>1. CASE GitStep
    BY <1>1, GitType, GitFences, GitGuards DEF IInv
  <1>2. ASSUME NEW t \in Tx, TxStep(t) \/ Prepare(t) \/ Crash(t)
        PROVE  IInv'
    BY <1>2, TxType, TxFences, TxGuards DEF IInv
  <1>3. CASE UNCHANGED vars
    BY <1>3 DEF IInv, TypeOK, LocksAreFences, FenceInv, Guarded, GitInv, CurrentRef,
                vars, files, local, memo, rest, git
  <1>4. QED  BY <1>1, <1>2, <1>3 DEF Next

\* A transaction never acts for git.
LEMMA TxLeavesGit ==
    ASSUME NEW t \in Tx, TxStep(t) \/ Prepare(t) \/ Crash(t)
    PROVE  UNCHANGED git
  BY DEF TxStep, EnterUnfenced, EnterFenced, InstallFence, RepairFence, Classify, LinkPacked,
         LinkRef, Preimage, Recheck, Mutate, CloseLock, CloseValidate, FreeRef, FreePacked,
         ReleasePacked, DropFence, Final, Retry, Prepare, Crash, Fail, Throw, Pass, Report,
         CloseFail, rest, git

-----------------------------------------------------------------------------
(* What follows. *)

\* The invariant of the loose-ref transaction, beside git and through crashes.
THEOREM Invariance == Spec => []IInv
  BY InitIInv, StepIInv, PTL DEF Spec

\* Type correctness of the loose-ref transaction.
THEOREM TypeCorrect == Spec => []TypeOK
  <1>1. IInv => TypeOK
    BY DEF IInv
  <1>2. QED  BY <1>1, Invariance, PTL

\* A transaction that answered "done" has no lock and no fence left.
THEOREM DoneLeavesNothing == Spec => []DoneIsClean
  <1>1. IInv => DoneIsClean
    BY GitRefAssumption DEF IInv, DoneIsClean, LocksAreFences, FenceInv, Unfenced
  <1>2. QED  BY <1>1, Invariance, PTL

\* Any step of a transaction leaves a lock of git where it is.
THEOREM GitsLocksStay == Spec => GitKeepsItsLocks
  <1>1. ASSUME IInv, IInv', [Next]_vars, NEW t \in Tx, pc'[t] # pc[t]
        PROVE  /\ refLock = Git => refLock' = Git
               /\ packedLock = Git => packedLock' = Git
    <2>1. ~GitStep /\ ~UNCHANGED vars
      BY <1>1 DEF GitStep, GitLockRef, GitUpdate, GitPack, GitPacked, GitPrune, vars, local
    <2>2. PICK u \in Tx : TxStep(u) \/ Prepare(u) \/ Crash(u)
      BY <1>1, <2>1 DEF Next
    <2>3. UNCHANGED gitPc
      BY <2>2, TxLeavesGit DEF git
    <2>4. QED  BY <1>1, <2>3 DEF IInv, GitInv
  <1>2. IInv /\ IInv' /\ [Next]_vars =>
           [\A t \in Tx : pc'[t] # pc[t] =>
                /\ refLock = Git => refLock' = Git
                /\ packedLock = Git => packedLock' = Git]_vars
    BY <1>1
  <1>3. QED  BY <1>2, Invariance, PTL DEF Spec, GitKeepsItsLocks

-----------------------------------------------------------------------------
(* Refinement. *)

\* The ref a transaction starts from is a commit.
LEMMA InitRefines == Init => ARef!Init
  BY GitRefAssumption DEF Init, ARef!Init, CurrentRef, NoLoose

\* A step that leaves the ref and the answers alone.
Stutters == UNCHANGED <<loose, packed, reported, gitMoves>>

\* A step that leaves the ref and the answers alone is no step of the promise.
LEMMA StuttersRefine == Stutters => [ARef!Next]_(ARef!vars)
  BY DEF Stutters, ARef!vars, CurrentRef

\* A transaction moves the ref by a compare-and-swap, or reports it in place.
LEMMA TxRefines ==
    ASSUME IInv, NEW t \in Tx, TxStep(t) \/ Prepare(t) \/ Crash(t)
    PROVE  [ARef!Next]_(ARef!vars)
  <1> USE DEF files, memo, local, git, rest
  <1>1. CASE Mutate(t)
    <2>1. CurrentRef = Old[t]
      BY <1>1 DEF Mutate, IInv, Guarded
    <2>2. CurrentRef' = New[t]
      BY <1>1, GitRefAssumption DEF Mutate, CurrentRef, NoLoose
    <2>3. UNCHANGED <<reported, gitMoves>>
      BY <1>1 DEF Mutate
    <2>4. ARef!CompareAndSwap(t)
      BY <2>1, <2>2, <2>3 DEF ARef!CompareAndSwap
    <2>5. QED  BY <2>4 DEF ARef!Next
  <1>2. ASSUME Report(t), CurrentRef = New[t]
        PROVE  [ARef!Next]_(ARef!vars)
    <2>1. UNCHANGED <<loose, packed, gitMoves>> /\ reported' = reported \cup {t}
      BY <1>2 DEF Report
    <2>2. ARef!Report(t)
      BY <1>2, <2>1 DEF ARef!Report, CurrentRef
    <2>3. QED  BY <2>2 DEF ARef!Next
  <1>3. CASE EnterUnfenced(t) \/ Final(t)
    <2>1. Throw(t) \/ Pass(t, "fence") \/ (Report(t) /\ CurrentRef = New[t])
      BY <1>3, Decisions
    <2>2. CASE Throw(t) \/ Pass(t, "fence")
      BY <2>2, StuttersRefine DEF Throw, Pass, Stutters
    <2>3. QED  BY <1>2, <2>1, <2>2
  <1>4. CASE \/ EnterFenced(t) \/ Classify(t) \/ Preimage(t) \/ Recheck(t) \/ CloseValidate(t)
             \/ DropFence(t)
    <2>1. Stutters
      BY <1>4 DEF EnterFenced, Classify, Preimage, Recheck, CloseValidate, DropFence, CloseFail,
                  Throw, Fail, Pass, Stutters
    <2>2. QED  BY <2>1, StuttersRefine
  <1>5. CASE \/ InstallFence(t) \/ RepairFence(t) \/ LinkPacked(t) \/ LinkRef(t) \/ CloseLock(t)
             \/ FreeRef(t) \/ FreePacked(t) \/ ReleasePacked(t) \/ Retry(t) \/ Prepare(t)
             \/ Crash(t)
    <2>1. Stutters
      BY <1>5 DEF InstallFence, RepairFence, LinkPacked, LinkRef, CloseLock, FreeRef, FreePacked,
                  ReleasePacked, Retry, Prepare, Crash, CloseFail, Throw, Fail, Stutters
    <2>2. QED  BY <2>1, StuttersRefine
  <1>6. QED  BY <1>1, <1>3, <1>4, <1>5 DEF TxStep

\* Git moves the ref on its own account, or does not move it: packing and
\* pruning change only where the commit is stored.
LEMMA GitRefines ==
    ASSUME IInv, GitStep
    PROVE  [ARef!Next]_(ARef!vars)
  <1> USE DEF local, memo
  <1>1. CASE GitUpdate
    <2>1. gitMoves < MaxGit
      BY <1>1 DEF GitUpdate, IInv, GitInv
    <2>2. CurrentRef' \in Oid /\ gitMoves' = gitMoves + 1 /\ UNCHANGED reported
      BY <1>1, GitRefAssumption DEF GitUpdate, CurrentRef, NoLoose
    <2>3. ARef!GitMove
      BY <2>1, <2>2 DEF ARef!GitMove
    <2>4. QED  BY <2>3 DEF ARef!Next
  <1>2. CASE GitPacked
    <2>1. loose # NoLoose
      BY <1>2 DEF GitPacked, IInv, GitInv
    <2>2. CurrentRef' = CurrentRef /\ UNCHANGED <<reported, gitMoves>>
      BY <1>2, <2>1 DEF GitPacked, CurrentRef
    <2>3. QED  BY <2>2 DEF ARef!vars
  <1>3. CASE GitPrune
    <2>1. CurrentRef' = CurrentRef
      BY <1>3 DEF GitPrune, CurrentRef, NoLoose
    <2>2. UNCHANGED <<reported, gitMoves>>
      BY <1>3 DEF GitPrune
    <2>3. QED  BY <2>1, <2>2 DEF ARef!vars
  <1>4. CASE GitLockRef \/ GitPack
    BY <1>4, StuttersRefine DEF GitLockRef, GitPack, Stutters
  <1>5. QED  BY <1>1, <1>2, <1>3, <1>4 DEF GitStep

\* Whatever git does beside it and wherever it dies, the transaction is one
\* compare-and-swap on the ref.
THEOREM Refinement == Spec => ImplementsAtomicRef
  <1>1. IInv /\ [Next]_vars => [ARef!Next]_(ARef!vars)
    <2> SUFFICES ASSUME IInv, [Next]_vars PROVE [ARef!Next]_(ARef!vars)
      OBVIOUS
    <2>1. CASE UNCHANGED vars
      BY <2>1, StuttersRefine DEF vars, files, local, memo, rest, git, Stutters
    <2>2. QED  BY <2>1, TxRefines, GitRefines DEF Next
  <1>2. QED  BY <1>1, InitRefines, Invariance, PTL DEF Spec, ImplementsAtomicRef, ARef!Spec

-----------------------------------------------------------------------------
(***************************************************************************)
(* The bootstrap of a worktree, which leaves its branch to a transaction   *)
(* like this one: theorems about WorkerBootstrap, for any operations,      *)
(* callers and faults, and any bound on the inodes told apart.             *)
(***************************************************************************)
CONSTANTS Proc, MaxInode, Caller, Serves, MaxFaults
VARIABLES headFence, modern, callPc, op, item, mine, faults

Boot == INSTANCE WorkerBootstrap WITH fence <- headFence, pc <- callPc

\* HeadAttachAssumption and WorkerBootstrapAssumption.
BootConstants ==
    /\ MaxInode \in Nat \ {0}
    /\ Op \cap {"packed", "index", "head", "detached", "elsewhere"} = {}
    /\ Op \cap Boot!Inode = {}
    /\ Git \notin Boot!Inode \cup Op
    /\ Nil \notin Boot!Inode \cup Op \cup {Git} \cup Boot!Claim
                      \cup [ino : Boot!Inode, whole : BOOLEAN]
                      \cup [head : Boot!Inode, branch : {"absent", "loose", "packed"},
                            packedRefs : Nat]
    /\ Caller \in Proc /\ Serves \in [Proc -> SUBSET Op]
    /\ MaxFaults \in Nat

\* The steps at which a process publishes the document it has in hand.
Publishes == {"publish", "stage", "write", "link", "linkTarget", "linked", "unlink"}

\* What a process has in hand at the steps that say so.
InHand(p) ==
    /\ callPc[p] \in Publishes =>
         item[p] \in {Boot!Mine(p, "intent"), ClaimDoc, Boot!Mine(p, "completion"), Boot!Mine(p, "receipt")}
    /\ callPc[p] \in {"lock", "locked"} => item[p] \in Boot!FourLocks(op[p])

\* A staging file is written by the process that has created it.
Writers ==
    /\ \A p \in Proc : callPc[p] = "write" => doc[item[p]] = "torn"
    /\ \A p, q \in Proc : callPc[p] = "write" /\ callPc[q] = "write" /\ item[p] = item[q] => p = q

AfterClaim ==
    {"attach", "symref", "settle", "topology", "fence", "fill", "lock", "locked", "recheck",
     "rename", "renamed", "release", "releaseBranch", "releasePacked", "releaseFence", "finalHead",
     "final"}

\* A process beyond the claim has it, and the claim is there to stay.
Claims(p) ==
    /\ callPc[p] = "own" => mine[p] \in Boot!Claim /\ mine[p].op = op[p]
    /\ callPc[p] \in Publishes /\ item[p] = ClaimDoc => mine[p] \in Boot!Claim
        /\ mine[p].op = op[p] /\ owner = mine[p]
    /\ callPc[p] \in AfterClaim
        \/ (callPc[p] \in Publishes /\ item[p] \in {Boot!Mine(p, "completion"), Boot!Mine(p, "receipt")}) =>
          mine[p] \in Boot!Claim /\ mine[p].op = op[p] /\ owner = mine[p] /\ Exists(ClaimDoc)
    /\ callPc[p] \in {"symref", "settle"} => mine[p].protocol = "native"

\* The transaction of the operation moved HEAD, and the completion says how.
Completed(o) == o \in moved /\ named[o] # Nil
Earned(o) ==
    /\ owner # Nil /\ owner.op = o
    /\ owner.protocol = "files" => Completed(o)

Released(p) ==
    /\ \/ callPc[p] \in {"release", "releaseBranch", "releasePacked", "releaseFence", "finalHead"}
       \/ callPc[p] \in Publishes /\ item[p] = Boot!Mine(p, "completion")
       => Completed(op[p])
    /\ callPc[p] = "final" \/ (callPc[p] \in Publishes /\ item[p] = Boot!Mine(p, "receipt")) =>
         Earned(op[p])

\* Fences are of the operation that has the claim, and only its own transaction
\* brings one over HEAD.
Fences ==
    \A o \in Op : headFence[o] # Nil =>
        /\ owner \in Boot!Claim /\ owner.op = o
        /\ head.ino = headFence[o].ino => o \in moved

\* All is as the claim says, and everything is locked with the fence.
Armed(o) ==
    /\ headFence[o] # Nil /\ \A l \in Boot!FourLocks(o) : lock[l] = headFence[o].ino
    /\ DetachedPreimages(o)

\* The worktree and its locks.
TreeOK ==
    /\ head \in [at : Op \cup {"detached", "elsewhere"}, ino : Boot!Inode]
    /\ branch \in [Op -> {"absent", "loose", "packed"}]
    /\ packedRefs \in Nat /\ indexSeen \in BOOLEAN
    /\ lock \in [Boot!Lock -> Boot!Inode \cup Op \cup {Git, Nil}]
    /\ headFence \in [Op -> [ino : Boot!Inode, whole : BOOLEAN] \cup {Nil}]
    /\ lock["index"] \notin Op /\ lock["head"] \notin Op

ArmedInv == \A p \in Proc : callPc[p] = "rename" /\ op[p] \notin moved => Armed(op[p])

BootIInv ==
    /\ Boot!TypeOK /\ TreeOK
    /\ Writers /\ Fences /\ ArmedInv
    /\ \A p \in Proc : InHand(p) /\ Claims(p) /\ Released(p)
    /\ \A o \in Op : doc[<<"completion", o>>] # "absent" => Completed(o)
    /\ \A o \in Op : doc[<<"receipt", o>>] # "absent" => Earned(o)

\* Kinds of documents.
LEMMA Kinds ==
    /\ \A x, y : <<"completion", x>> # ClaimDoc /\ <<"receipt", x>> # ClaimDoc
        /\ <<"intent", x>> # ClaimDoc
    /\ \A x, y : <<"completion", x>> # <<"receipt", y>> /\ <<"completion", x>> # <<"intent", y>>
    /\ \A x, y : <<"receipt", x>> # <<"intent", y>>
    /\ \A x, y : <<"completion", x>> = <<"completion", y>> => x = y
    /\ \A x, y : <<"receipt", x>> = <<"receipt", y>> => x = y
    /\ ClaimDoc \in Boot!Doc
        /\ \A o \in Op : {<<"intent", o>>, <<"completion", o>>, <<"receipt", o>>} \subseteq Boot!Doc
  BY DEF ClaimDoc, Boot!Doc

\* The documents of the operation a process repeats are documents.
LEMMA Mines ==
    ASSUME NEW p
    PROVE  /\ Boot!Mine(p, "intent") = <<"intent", op[p]>>
             /\ Boot!Mine(p, "completion") = <<"completion", op[p]>>
           /\ Boot!Mine(p, "receipt") = <<"receipt", op[p]>> /\ Boot!Mine(p, "claim") = ClaimDoc
  BY DEF Boot!Mine, ClaimDoc

\* The invariant holds before anything has run.
LEMMA BootInitIInv ==
    ASSUME BootConstants
    PROVE  Boot!Init => BootIInv
  <1> SUFFICES ASSUME Boot!Init PROVE BootIInv  OBVIOUS
  <1> USE DEF Boot!Init
  <1>a. 1 \in Boot!Inode /\ Nil \in Boot!Inode \cup Op \cup {Git, Nil} /\ Nil \notin Op
    BY DEF BootConstants, Boot!Inode
  <1>1. Boot!TypeOK
    <2>1. op \in [Proc -> Op]
      BY DEF BootConstants
    <2>2. callPc \in [Proc -> Boot!Steps]
      BY DEF Boot!Steps
    <2>3. QED  BY <1>a, <2>1, <2>2 DEF BootConstants, Boot!TypeOK
  <1>2. TreeOK
    BY <1>a DEF TreeOK, Boot!Lock
  <1>3. Writers /\ Fences /\ ArmedInv
    BY DEF Writers, Fences, ArmedInv
  <1>4. \A p \in Proc : callPc[p] \in {"idle", "unasked"}
    OBVIOUS
  <1>5. \A p \in Proc : InHand(p) /\ Claims(p) /\ Released(p)
    BY <1>4 DEF InHand, Claims, Released, Publishes, AfterClaim
  <1>6. \A o \in Op : doc[<<"completion", o>>] = "absent" /\ doc[<<"receipt", o>>] = "absent"
    BY Kinds
  <1>7. QED  BY <1>1, <1>2, <1>3, <1>5, <1>6 DEF BootIInv

\* A process goes on, with a document or lock in hand, and a claim.
Moves(p) ==
    /\ callPc' = [callPc EXCEPT ![p] = callPc'[p]] /\ callPc'[p] \in Boot!Steps
    /\ item' = [item EXCEPT ![p] = item'[p]] /\ item'[p] \in Boot!Doc \cup Boot!Lock \cup {Nil}
    /\ mine' = [mine EXCEPT ![p] = mine'[p]] /\ mine'[p] \in Boot!Claim \cup {Nil}
    /\ op' = op

\* What a step may do to the papers: a document that is there stays there, a
\* torn one is made whole by its writer, one comes up from whoever has it in
\* hand; the claim is taken once.
Papers(p) ==
    /\ doc' \in [Boot!Doc -> {"absent", "torn", "staged", "linked", "split", "stable"}]
    /\ \A d \in Boot!Doc : Exists(d) => Exists(d)'
    /\ \A d \in Boot!Doc : doc[d] = "torn" => doc'[d] = "torn"
        \/ (callPc[p] = "write" /\ item[p] = d)
    /\ \A d \in Boot!Doc : doc[d] = "absent" => doc'[d] = "absent"
        \/ (callPc[p] \in Publishes /\ item[p] = d)
    /\ named' = named \/ \E n \in Boot!Inode : named' = [named EXCEPT ![op[p]] = n]
    /\ owner' = owner \/ (owner = Nil /\ owner' = mine[p] /\ callPc[p] = "own")

\* What the invariant asks of the process after its step.
Fine(p) ==
    /\ InHand(p)' /\ Claims(p)' /\ Released(p)'
    /\ callPc'[p] = "write" =>
          callPc[p] = "stage" /\ item'[p] = item[p] /\ doc[item[p]] = "absent"
              /\ doc'[item[p]] = "torn"
    /\ callPc'[p] = "rename" => Armed(op[p])

\* What has been reached stays.
LEMMA Stays ==
    ASSUME BootConstants, BootIInv, NEW p \in Proc, Papers(p), moved \subseteq moved'
    PROVE  /\ owner # Nil => owner' = owner
           /\ \A o \in Op : Completed(o) => Completed(o)'
           /\ \A o \in Op : Earned(o) => Earned(o)'
           /\ Exists(ClaimDoc) => Exists(ClaimDoc)'
           /\ owner' \in Boot!Claim \cup {Nil} /\ named' \in [Op -> Boot!Inode \cup {Nil}]
  <1>a. Boot!TypeOK /\ Nil \notin Boot!Inode
    BY DEF BootConstants, BootIInv
  <1>1. owner # Nil => owner' = owner
    BY DEF Papers
  <1>2. \A o \in Op : Completed(o) => Completed(o)'
    BY <1>a DEF Papers, Completed, Boot!TypeOK
  <1>3. \A o \in Op : Earned(o) => Earned(o)'
    BY <1>1, <1>2 DEF Earned
  <1>4. Exists(ClaimDoc) => Exists(ClaimDoc)'
    BY Kinds DEF Papers
  <1>5. owner' \in Boot!Claim \cup {Nil}
    BY <1>a DEF Papers, Boot!TypeOK
  <1>6. named' \in [Op -> Boot!Inode \cup {Nil}]
    BY <1>a DEF Papers, Boot!TypeOK
  <1>7. QED  BY <1>1, <1>2, <1>3, <1>4, <1>5, <1>6

\* A process that did not move still meets what is asked of it.
LEMMA OthersFine ==
    ASSUME BootConstants, BootIInv, NEW p \in Proc, NEW q \in Proc, q # p, Moves(p), Papers(p),
           moved \subseteq moved'
    PROVE  InHand(q)' /\ Claims(q)' /\ Released(q)'
  <1>1. callPc'[q] = callPc[q] /\ item'[q] = item[q] /\ mine'[q] = mine[q] /\ op' = op
    BY DEF Moves, BootIInv, Boot!TypeOK
  <1>2. op[q] \in Op
    BY DEF BootIInv, Boot!TypeOK
  <1>3. \A k : Boot!Mine(q, k)' = Boot!Mine(q, k)
    BY <1>1 DEF Boot!Mine
  <1>4. InHand(q)'
    BY <1>1, <1>3 DEF BootIInv, InHand, Boot!FourLocks, ClaimDoc
  <1>5. Claims(q)'
    <2>1. Nil \notin Boot!Claim
      BY DEF BootConstants
    <2>2. QED  BY <1>1, <1>3, <2>1, Stays DEF BootIInv, Claims
  <1>6. Released(q)'
    BY <1>1, <1>2, <1>3, Stays DEF BootIInv, Released
  <1>7. QED  BY <1>4, <1>5, <1>6

\* The part of the invariant that is about processes and papers.
LEMMA ProcessPart ==
    ASSUME BootConstants, BootIInv, NEW p \in Proc, Moves(p), Papers(p), Fine(p),
           moved \subseteq moved', moved' \subseteq Op,
           TreeOK', modern' \in BOOLEAN, faults' \in 0..MaxFaults
    PROVE  /\ Boot!TypeOK' /\ Writers'
           /\ \A q \in Proc : InHand(q)' /\ Claims(q)' /\ Released(q)'
           /\ \A o \in Op : doc'[<<"completion", o>>] # "absent" => Completed(o)'
           /\ \A o \in Op : doc'[<<"receipt", o>>] # "absent" => Earned(o)'
  <1>a. Boot!TypeOK
    BY DEF BootIInv
  <1>1. Boot!TypeOK'
    <2>1. callPc' \in [Proc -> Boot!Steps] /\ op' \in [Proc -> Op]
      BY <1>a DEF Moves, Boot!TypeOK
    <2>2. item' \in [Proc -> Boot!Doc \cup Boot!Lock \cup {Nil}]
            /\ mine' \in [Proc -> Boot!Claim \cup {Nil}]
      BY <1>a DEF Moves, Boot!TypeOK
    <2>3. doc' \in [Boot!Doc -> {"absent", "torn", "staged", "linked", "split", "stable"}]
      BY DEF Papers
    <2>4. QED  BY <2>1, <2>2, <2>3, Stays DEF Boot!TypeOK, TreeOK
  <1>2. Writers'
    <2>1. \A q \in Proc : callPc'[q] = "write" => item[q] \in Boot!Doc
      <3>1. ASSUME NEW q \in Proc, callPc'[q] = "write" PROVE item[q] \in Boot!Doc
        <4>1. callPc[q] = "write" \/ (q = p /\ callPc[q] = "stage")
          BY <1>a, <3>1 DEF Moves, Fine, Boot!TypeOK
        <4>2. item[q] \in {Boot!Mine(q, "intent"), ClaimDoc, Boot!Mine(q, "completion"), Boot!Mine(q, "receipt")}
          BY <4>1 DEF BootIInv, InHand, Publishes
        <4>3. op[q] \in Op
          BY <1>a DEF Boot!TypeOK
        <4>4. QED  BY <4>2, <4>3, Kinds, Mines
      <3>2. QED  BY <3>1
    <2>2. \A q \in Proc : q # p => callPc'[q] = callPc[q] /\ item'[q] = item[q]
      BY <1>a DEF Moves, Boot!TypeOK
    <2>3. ASSUME NEW q \in Proc, q # p,
                 callPc[q] = "write" PROVE doc'[item[q]] = "torn" /\ doc[item[q]] = "torn"
      <3>1. doc[item[q]] = "torn" /\ ~(callPc[p] = "write" /\ item[p] = item[q])
        BY <2>3 DEF BootIInv, Writers
      <3>2. item[q] \in Boot!Doc
        BY <2>1, <2>2, <2>3
      <3>3. QED  BY <3>1, <3>2 DEF Papers
    <2>4. callPc'[p] = "write" => doc'[item'[p]] = "torn" /\ item'[p] = item[p]
            /\ doc[item[p]] = "absent"
      BY DEF Fine
    <2>5. \A q \in Proc : callPc'[q] = "write" => doc'[item'[q]] = "torn"
      BY <2>2, <2>3, <2>4
    <2>6. \A q, r \in Proc : callPc'[q] = "write" /\ callPc'[r] = "write" /\ item'[q] = item'[r] =>
            q = r
      <3>1. ASSUME NEW q \in Proc, NEW r \in Proc, callPc'[q] = "write", callPc'[r] = "write",
                   item'[q] = item'[r], q # r
            PROVE  FALSE
        <4>1. CASE q # p /\ r # p
          BY <2>2, <3>1, <4>1 DEF BootIInv, Writers
        <4>2. CASE q = p
          BY <2>2, <2>3, <2>4, <3>1, <4>2
        <4>3. CASE r = p
          BY <2>2, <2>3, <2>4, <3>1, <4>3
        <4>4. QED  BY <4>1, <4>2, <4>3
      <3>2. QED  BY <3>1
    <2>7. QED  BY <2>5, <2>6 DEF Writers
  <1>3. \A q \in Proc : InHand(q)' /\ Claims(q)' /\ Released(q)'
    BY OthersFine DEF Fine
  <1>4. ASSUME NEW o \in Op, doc'[<<"completion", o>>] # "absent" PROVE Completed(o)'
    <2>1. CASE doc[<<"completion", o>>] # "absent"
      BY <2>1, Stays DEF BootIInv
    <2>2. CASE doc[<<"completion", o>>] = "absent"
      <3>1. callPc[p] \in Publishes /\ item[p] = <<"completion", o>>
        BY <1>4, <2>2, Kinds DEF Papers
      <3>2. op[p] = o /\ item[p] = Boot!Mine(p, "completion")
        BY <3>1, Kinds, Mines DEF BootIInv, InHand
      <3>3. QED  BY <3>1, <3>2, Stays DEF BootIInv, Released
    <2>3. QED  BY <2>1, <2>2
  <1>5. ASSUME NEW o \in Op, doc'[<<"receipt", o>>] # "absent" PROVE Earned(o)'
    <2>1. CASE doc[<<"receipt", o>>] # "absent"
      BY <2>1, Stays DEF BootIInv
    <2>2. CASE doc[<<"receipt", o>>] = "absent"
      <3>1. callPc[p] \in Publishes /\ item[p] = <<"receipt", o>>
        BY <1>5, <2>2, Kinds DEF Papers
      <3>2. op[p] = o /\ item[p] = Boot!Mine(p, "receipt")
        BY <3>1, Kinds, Mines DEF BootIInv, InHand
      <3>3. QED  BY <3>1, <3>2, Stays DEF BootIInv, Released
    <2>3. QED  BY <2>1, <2>2
  <1>6. QED  BY <1>1, <1>2, <1>3, <1>4, <1>5

\* A step that leaves the worktree, its locks and the fences as they are.
Still(p) ==
    /\ Moves(p) /\ Papers(p) /\ Fine(p)
    /\ UNCHANGED <<head, branch, packedRefs, indexSeen, lock, headFence>>

Onto(p, l, x) ==
    /\ Moves(p) /\ callPc'[p] = l /\ item'[p] = x /\ mine'[p] = mine[p]

\* The ways of going on.
LEMMA GotoMoves ==
    ASSUME Boot!TypeOK, NEW p \in Proc, NEW l \in Boot!Steps, Boot!Goto(p, l),
           UNCHANGED <<Boot!local, item>>
    PROVE  Onto(p, l, item[p])
  BY DEF Boot!Goto, Boot!local, Moves, Onto, Boot!TypeOK

\* Going on with something else in hand.
LEMMA AtMoves ==
    ASSUME Boot!TypeOK, NEW p \in Proc, NEW l \in Boot!Steps,
           NEW x \in Boot!Doc \cup Boot!Lock \cup {Nil}, Boot!At(p, l, x), UNCHANGED Boot!local
    PROVE  Onto(p, l, x)
  BY DEF Boot!At, Boot!Goto, Boot!local, Moves, Onto, Boot!TypeOK

\* A step may leave the papers as they are.
LEMMA SamePapers ==
    ASSUME Boot!TypeOK, NEW p \in Proc, UNCHANGED Boot!papers
    PROVE  Papers(p)
  BY DEF Boot!papers, Papers, Boot!TypeOK, Exists

Plain == {"unasked", "idle", "prepare", "first", "inspect", "branch", "branchMade", "router", "answer"}

\* Before the claim, and when the answer is given, nothing is asked.
LEMMA PlainFine ==
    ASSUME NEW p \in Proc, callPc'[p] \in Plain
    PROVE  Fine(p)
  BY DEF Fine, InHand, Claims, Released, Plain, Publishes, AfterClaim

\* To refuse leaves the worktree as it is.
LEMMA Refusing ==
    ASSUME BootIInv, NEW p \in Proc, Boot!Refuse(p)
    PROVE  Still(p)
  <1>a. Boot!TypeOK
    BY DEF BootIInv
  <1>1. Moves(p) /\ callPc'[p] = "idle"
    BY <1>a DEF Boot!Refuse, Boot!End, Boot!At, Boot!Goto, Moves, Boot!TypeOK, Boot!Steps
  <1>2. Papers(p) /\ UNCHANGED <<head, branch, packedRefs, indexSeen, lock, headFence>>
    BY <1>a, SamePapers DEF Boot!Refuse, Boot!tree, Boot!locks
  <1>3. QED  BY <1>1, <1>2, PlainFine DEF Still, Plain

\* So does going on before the claim.
LEMMA Passing ==
    ASSUME BootIInv, NEW p \in Proc, NEW l \in Plain, Boot!Pass(p, l)
    PROVE  Still(p)
  <1>a. Boot!TypeOK /\ l \in Boot!Steps
    BY DEF BootIInv, Plain, Boot!Steps
  <1>1. Onto(p, l, item[p])
    BY <1>a, GotoMoves DEF Boot!Pass
  <1>2. Papers(p) /\ UNCHANGED <<head, branch, packedRefs, indexSeen, lock, headFence>>
    BY <1>a, SamePapers DEF Boot!Pass, Boot!tree, Boot!locks
  <1>3. QED  BY <1>1, <1>2, PlainFine DEF Still, Onto

\* A process that has the claim goes on behind it.
LEMMA Onward ==
    ASSUME BootConstants, BootIInv, NEW p \in Proc, NEW l \in AfterClaim, NEW x, Onto(p, l, x),
           Papers(p), moved \subseteq moved',
           callPc[p] \in AfterClaim,
           l \in {"symref", "settle"} => mine[p].protocol = "native",
           l \in {"release", "releaseBranch", "releasePacked", "releaseFence", "finalHead"} =>
               Completed(op[p]),
           l = "final" => Earned(op[p]),
           l \in {"lock", "locked"} => x \in Boot!FourLocks(op[p]),
           l = "rename" => Armed(op[p])
    PROVE  Fine(p)
  <1>1. callPc'[p] = l /\ item'[p] = x /\ mine'[p] = mine[p] /\ op'[p] = op[p]
    BY DEF Onto, Moves
  <1>2. op[p] \in Op
    BY DEF BootIInv, Boot!TypeOK
  <1>3. l \notin Publishes /\ l \notin {"own", "write"}
    BY DEF AfterClaim, Publishes
  <1>4. InHand(p)'
    BY <1>1, <1>3 DEF InHand, Boot!FourLocks
  <1>5. Claims(p)'
    <2>1. mine[p] \in Boot!Claim /\ mine[p].op = op[p] /\ owner = mine[p] /\ Exists(ClaimDoc)
            /\ Nil \notin Boot!Claim
      BY DEF BootConstants, BootIInv, Claims
    <2>2. owner' = mine[p] /\ Exists(ClaimDoc)'
      BY <2>1, Stays
    <2>3. QED  BY <1>1, <1>3, <2>1, <2>2 DEF Claims
  <1>6. Released(p)'
    BY <1>1, <1>2, <1>3, Stays DEF Released
  <1>7. QED  BY <1>1, <1>3, <1>4, <1>5, <1>6 DEF Fine

\* It takes a document in hand.
LEMMA Takes ==
    ASSUME BootConstants, BootIInv, NEW p \in Proc, NEW k \in {"completion", "receipt"},
           Onto(p, "publish", Boot!Mine(p, k)), Papers(p),
           moved \subseteq moved', callPc[p] \in AfterClaim,
           k = "completion" => Completed(op[p])',
           k = "receipt" => Earned(op[p])
    PROVE  Fine(p)
  <1>1. callPc'[p] = "publish" /\ item'[p] = Boot!Mine(p, k) /\ mine'[p] = mine[p] /\ op' = op
          /\ Boot!Mine(p, k)' = Boot!Mine(p, k)
    BY DEF Onto, Moves, Boot!Mine
  <1>2. op[p] \in Op
    BY DEF BootIInv, Boot!TypeOK
  <1>3. InHand(p)'
    BY <1>1 DEF InHand
  <1>4. mine[p] \in Boot!Claim /\ mine[p].op = op[p] /\ owner = mine[p] /\ Exists(ClaimDoc)
          /\ Nil \notin Boot!Claim
    BY DEF BootConstants, BootIInv, Claims
  <1>5. owner' = mine[p] /\ Exists(ClaimDoc)'
    BY <1>4, Stays
  <1>6. Claims(p)'
    BY <1>1, <1>4, <1>5 DEF Claims, AfterClaim
  <1>7. Released(p)'
    <2>1. k = "receipt" => Earned(op[p])'
      BY <1>1, <1>2, Stays
    <2>2. \A j \in {"completion", "receipt"} : j # k => item'[p] # Boot!Mine(p, j)'
      BY <1>1, Kinds, Mines DEF Boot!Mine
    <2>3. QED  BY <1>1, <2>1, <2>2 DEF Released
  <1>8. QED  BY <1>1, <1>3, <1>6, <1>7 DEF Fine

\* A publication goes on with the document it has, or has sealed it.
LEMMA PublishOn ==
    ASSUME BootConstants, BootIInv, NEW p \in Proc, NEW l \in Publishes, Onto(p, l, item[p]),
           Papers(p), UNCHANGED moved,
           callPc[p] \in Publishes,
           l = "write" => callPc[p] = "stage" /\ doc[item[p]] = "absent" /\ doc'[item[p]] = "torn"
    PROVE  Fine(p)
  <1>1. callPc'[p] = l /\ item'[p] = item[p] /\ mine'[p] = mine[p] /\ op' = op
          /\ \A k : Boot!Mine(p, k)' = Boot!Mine(p, k)
    BY DEF Onto, Moves, Boot!Mine
  <1>2. op[p] \in Op /\ l \notin AfterClaim /\ l \notin {"own", "lock", "locked", "rename"}
          /\ Nil \notin Boot!Claim
    BY DEF BootConstants, BootIInv, Boot!TypeOK, Publishes, AfterClaim
  <1>3. InHand(p)'
    BY <1>1, <1>2 DEF BootIInv, InHand, ClaimDoc
  <1>4. Claims(p)'
    BY <1>1, <1>2, Stays DEF BootIInv, Claims, AfterClaim, ClaimDoc
  <1>5. Released(p)'
    BY <1>1, <1>2, Stays DEF BootIInv, Released, AfterClaim
  <1>6. QED  BY <1>1, <1>2, <1>3, <1>4, <1>5 DEF Fine

\* When the document in hand is in place, the process may do what comes after it.
LEMMA PublishDone ==
    ASSUME BootConstants, BootIInv, NEW p \in Proc, Onto(p, Boot!After(item[p]), item[p]),
           Papers(p), UNCHANGED moved,
           callPc[p] \in Publishes, doc'[item[p]] = "stable"
    PROVE  Fine(p)
  <1>1. /\ callPc'[p] = Boot!After(item[p]) /\ item'[p] = item[p] /\ mine'[p] = mine[p] /\ op' = op
        /\ \A k : Boot!Mine(p, k)' = Boot!Mine(p, k)
    BY DEF Onto, Moves, Boot!Mine
  <1>2. op[p] \in Op /\ Nil \notin Boot!Claim
    BY DEF BootConstants, BootIInv, Boot!TypeOK
  <1>3. item[p] \in {Boot!Mine(p, "intent"), ClaimDoc, Boot!Mine(p, "completion"), Boot!Mine(p, "receipt")}
    BY DEF BootIInv, InHand
  <1>4. CASE item[p] = Boot!Mine(p, "intent") \/ item[p] = Boot!Mine(p, "receipt")
    <2>1. Boot!After(item[p]) \in Plain
      BY <1>4, Mines DEF Boot!After, Plain
    <2>2. QED  BY <1>1, <2>1, PlainFine
  <1>5. CASE item[p] = ClaimDoc
    <2>1. Boot!After(item[p]) = "attach"
      BY <1>5 DEF Boot!After, ClaimDoc
    <2>2. mine[p] \in Boot!Claim /\ mine[p].op = op[p] /\ owner = mine[p]
      BY <1>5 DEF BootIInv, Claims
    <2>3. owner' = mine[p]
      BY <1>2, <2>2, Stays
    <2>4. Exists(ClaimDoc)'
      BY <1>5 DEF Exists, ClaimDoc
    <2>5. QED
      BY <1>1, <2>1, <2>2, <2>3, <2>4 DEF Fine, InHand, Claims, Released, Publishes, AfterClaim
  <1>6. CASE item[p] = Boot!Mine(p, "completion")
    <2>1. Boot!After(item[p]) = "release"
      BY <1>6, Mines DEF Boot!After
    <2>2. mine[p] \in Boot!Claim /\ mine[p].op = op[p] /\ owner = mine[p] /\ Exists(ClaimDoc)
            /\ Completed(op[p])
      BY <1>6 DEF BootIInv, Claims, Released
    <2>3. owner' = mine[p] /\ Exists(ClaimDoc)' /\ Completed(op[p])'
      BY <1>1, <1>2, <2>2, Stays
    <2>4. QED
      BY <1>1, <2>1, <2>2, <2>3 DEF Fine, InHand, Claims, Released, Publishes, AfterClaim
  <1>7. QED  BY <1>3, <1>4, <1>5, <1>6

\* What a step makes of one document.
LEMMA DocPapers ==
    ASSUME BootIInv, NEW p \in Proc, NEW d \in Boot!Doc,
           NEW state \in {"torn", "staged", "linked", "split", "stable"},
           doc' = [doc EXCEPT ![d] = state], UNCHANGED <<named, owner>>,
           Exists(d) => state \in {"linked", "split", "stable"},
           doc[d] = "torn" => callPc[p] = "write" /\ item[p] = d,
           doc[d] = "absent" => callPc[p] \in Publishes /\ item[p] = d
    PROVE  Papers(p)
  <1>1. doc \in [Boot!Doc -> {"absent", "torn", "staged", "linked", "split", "stable"}]
    BY DEF BootIInv, Boot!TypeOK
  <1>2. QED  BY <1>1 DEF Papers, Exists

\* Recovering a document that was linked and not settled loses nothing.
LEMMA RecoveredPapers ==
    ASSUME BootIInv, NEW p \in Proc, NEW d \in Boot!Doc, doc' = Boot!Recovered(d),
           UNCHANGED <<named, owner>>
    PROVE  Papers(p)
  <1>1. doc \in [Boot!Doc -> {"absent", "torn", "staged", "linked", "split", "stable"}]
    BY DEF BootIInv, Boot!TypeOK
  <1>2. QED  BY <1>1 DEF Papers, Exists, Boot!Recovered

\* The steps of a publication leave the worktree as it is.
LEMMA PublishingStill ==
    ASSUME BootConstants, BootIInv, NEW p \in Proc, Boot!Publishing(p), UNCHANGED moved
    PROVE  Still(p)
  <1>a. Boot!TypeOK /\ Publishes \subseteq Boot!Steps /\ \A l \in Publishes : l \in Boot!Steps
    BY DEF BootIInv, Publishes, Boot!Steps
  <1>b. callPc[p] \in Publishes
    BY
       DEF Boot!Publishing, Boot!Publish, Boot!Stage, Boot!Write, Boot!Staged, Boot!LinkTarget,
           Boot!Linked, Boot!Unlink, Publishes
  <1>c. item[p] \in Boot!Doc /\ Boot!After(item[p]) \in Boot!Steps
    <2>1. op[p] \in Op
            /\ item[p] \in {Boot!Mine(p, "intent"), ClaimDoc, Boot!Mine(p, "completion"), Boot!Mine(p, "receipt")}
      BY <1>b DEF BootIInv, InHand, Boot!TypeOK
    <2>2. item[p] \in Boot!Doc
      BY <2>1, Kinds, Mines
    <2>3. Boot!After(item[p]) \in {"inspect", "attach", "release", "answer"}
      BY <2>1, Mines DEF Boot!After, ClaimDoc
    <2>4. QED  BY <2>2, <2>3 DEF Boot!Steps
  <1>d. ASSUME NEW l \in Publishes, Boot!Pass(p, l), l # "write" PROVE Still(p)
    <2>1. Onto(p, l, item[p])
      BY <1>a, <1>d, GotoMoves DEF Boot!Pass
    <2>2. Papers(p) /\ UNCHANGED <<head, branch, packedRefs, indexSeen, lock, headFence>>
      BY <1>a, <1>d, SamePapers DEF Boot!Pass, Boot!tree, Boot!locks
    <2>3. QED  BY <1>b, <1>d, <2>1, <2>2, PublishOn DEF Still, Onto
  <1>e. ASSUME NEW l \in Publishes, Boot!Goto(p, l),
               NEW s \in {"torn", "staged", "linked", "split", "stable"}, Boot!SetDoc(item[p], s),
               Exists(item[p]) => s \in {"linked", "split", "stable"},
               doc[item[p]] = "torn" => callPc[p] = "write",
               l = "write" => callPc[p] = "stage" /\ doc[item[p]] = "absent" /\ s = "torn"
        PROVE  Still(p)
    <2>1. Onto(p, l, item[p])
      BY <1>a, <1>e, GotoMoves DEF Boot!SetDoc
    <2>2. doc' = [doc EXCEPT ![item[p]] = s] /\ UNCHANGED <<named, owner>>
      BY <1>e DEF Boot!SetDoc
    <2>3. Papers(p)
      BY <1>b, <1>c, <1>e, <2>2, DocPapers
    <2>4. doc'[item[p]] = s
      BY <1>a, <1>c, <2>2 DEF Boot!TypeOK
    <2>5. Fine(p)
      BY <1>b, <1>e, <2>1, <2>3, <2>4, PublishOn
    <2>6. QED  BY <1>e, <2>1, <2>3, <2>5 DEF Still, Onto, Boot!SetDoc, Boot!tree, Boot!locks
  <1>f. ASSUME Boot!Goto(p, Boot!After(item[p])), Boot!SetDoc(item[p], "stable"),
               doc[item[p]] \notin {"torn", "absent"}
        PROVE  Still(p)
    <2>1. Onto(p, Boot!After(item[p]), item[p])
      BY <1>a, <1>c, <1>f, GotoMoves DEF Boot!SetDoc
    <2>2. doc' = [doc EXCEPT ![item[p]] = "stable"] /\ UNCHANGED <<named, owner>>
      BY <1>f DEF Boot!SetDoc
    <2>3. Papers(p)
      BY <1>c, <1>f, <2>2, DocPapers
    <2>4. doc'[item[p]] = "stable"
      BY <1>a, <1>c, <2>2 DEF Boot!TypeOK
    <2>5. Fine(p)
      BY <1>b, <2>1, <2>3, <2>4, PublishDone
    <2>6. QED  BY <1>f, <2>1, <2>3, <2>5 DEF Still, Onto, Boot!SetDoc, Boot!tree, Boot!locks
  <1>1. CASE Boot!Publish(p)
    BY <1>1, <1>d, <1>f, Refusing DEF Boot!Publish, Publishes
  <1>2. CASE Boot!Stage(p)
    BY <1>2, <1>d, <1>e DEF Boot!Stage, Publishes, Exists
  <1>3. CASE Boot!Write(p)
    <2>1. doc[item[p]] = "torn"
      BY <1>3 DEF Boot!Write, BootIInv, Writers
    <2>2. QED  BY <1>3, <2>1, <1>e DEF Boot!Write, Publishes, Exists
  <1>4. CASE Boot!Staged(p)
    BY <1>4, <1>d, Refusing DEF Boot!Staged, Publishes
  <1>5. CASE Boot!LinkTarget(p)
    BY <1>5, <1>d, <1>e, Refusing DEF Boot!LinkTarget, Publishes, Exists
  <1>6. CASE Boot!Linked(p)
    BY <1>6, <1>d, Refusing DEF Boot!Linked, Publishes
  <1>7. CASE Boot!Unlink(p)
    BY <1>7, <1>f, Refusing DEF Boot!Unlink
  <1>8. QED  BY <1>1, <1>2, <1>3, <1>4, <1>5, <1>6, <1>7 DEF Boot!Publishing

\* The steps that touch neither the worktree nor locks and fences.
Stills(p) ==
    \/ Boot!Start(p) \/ Boot!Prepare(p) \/ Boot!First(p) \/ Boot!Inspect(p) \/ Boot!Final(p)
    \/ Boot!Answer(p) \/ Boot!Publishing(p)
    \/ Boot!Router(p) \/ Boot!Own(p) \/ Boot!NativeAttach(p) \/ Boot!Settle(p)
    \/ Boot!InspectDetached(p) \/ Boot!Locked(p)
    \/ Boot!Recheck(p) \/ Boot!Seal(p) \/ Boot!Validate(p) \/ Boot!FinalHead(p)

\* A step beyond the claim that passes leaves the worktree as it is.
LEMMA PassOnward ==
    ASSUME BootConstants, BootIInv, NEW p \in Proc, NEW l \in AfterClaim, Boot!Pass(p, l),
           UNCHANGED moved, callPc[p] \in AfterClaim,
           l \in {"symref", "settle"} => mine[p].protocol = "native",
           l \in {"release", "releaseBranch", "releasePacked", "releaseFence", "finalHead"} =>
               Completed(op[p]),
           l = "final" => Earned(op[p]),
           l \in {"lock", "locked"} => item[p] \in Boot!FourLocks(op[p]),
           l = "rename" => Armed(op[p])
    PROVE  Still(p)
  <1>a. Boot!TypeOK /\ l \in Boot!Steps
    BY DEF BootIInv, AfterClaim, Boot!Steps
  <1>1. Onto(p, l, item[p])
    BY <1>a, GotoMoves DEF Boot!Pass
  <1>2. Papers(p) /\ UNCHANGED <<head, branch, packedRefs, indexSeen, lock, headFence>>
    BY <1>a, SamePapers DEF Boot!Pass, Boot!tree, Boot!locks
  <1>3. Fine(p)
    BY <1>1, <1>2, Onward
  <1>4. QED  BY <1>1, <1>2, <1>3 DEF Still, Onto

\* So does one that takes the next lock in hand.
LEMMA AtOnward ==
    ASSUME BootConstants, BootIInv, NEW p \in Proc, NEW l \in AfterClaim,
           NEW x \in Boot!Lock \cup {Nil}, Boot!At(p, l, x),
           UNCHANGED <<Boot!papers, Boot!tree, Boot!locks, Boot!local, moved>>,
             callPc[p] \in AfterClaim,
           l \in {"fence", "lock", "recheck"},
           l = "lock" => x \in Boot!FourLocks(op[p])
    PROVE  Still(p)
  <1>a. Boot!TypeOK /\ l \in Boot!Steps
    BY DEF BootIInv, AfterClaim, Boot!Steps
  <1>1. Onto(p, l, x)
    BY <1>a, AtMoves
  <1>2. Papers(p) /\ UNCHANGED <<head, branch, packedRefs, indexSeen, lock, headFence>>
    BY <1>a, SamePapers DEF Boot!tree, Boot!locks
  <1>3. Fine(p)
    BY <1>1, <1>2, Onward
  <1>4. QED  BY <1>1, <1>2, <1>3 DEF Still, Onto

\* Whoever is beyond the claim is of the operation that has it.
LEMMA HasClaim ==
    ASSUME BootConstants, BootIInv, NEW p \in Proc, callPc[p] \in AfterClaim
    PROVE  /\ mine[p] \in Boot!Claim /\ owner = mine[p] /\ owner # Nil /\ owner.op = op[p]
             /\ Exists(ClaimDoc)
           /\ op[p] \in Op
  BY DEF BootConstants, BootIInv, Claims, Boot!TypeOK

\* The steps before the claim, and the last ones, leave the worktree as it is.
LEMMA PreparingStill ==
    ASSUME BootConstants, BootIInv, NEW p \in Proc,
           Boot!Start(p) \/ Boot!Prepare(p) \/ Boot!First(p) \/ Boot!Inspect(p) \/ Boot!Final(p)
             \/ Boot!Answer(p),
           UNCHANGED moved
    PROVE  Still(p)
  <1>a. Boot!TypeOK /\ op[p] \in Op /\ Plain \subseteq Boot!Steps
    BY DEF BootIInv, Boot!TypeOK, Plain, Boot!Steps
  <1>b. Boot!Mine(p, "intent") \in Boot!Doc /\ Boot!Mine(p, "receipt") \in Boot!Doc
    BY <1>a, Kinds, Mines
  <1>1. CASE Boot!Start(p)
    BY <1>1, Passing DEF Boot!Start, Plain
  <1>2. CASE Boot!Prepare(p)
    <2>1. CASE Boot!Refuse(p)
      BY <2>1, Refusing
    <2>2. CASE ~Boot!Refuse(p)
      <3>1. /\ doc' = Boot!Recovered(Boot!Mine(p, "intent"))
            /\ UNCHANGED <<named, owner, Boot!tree, Boot!locks, Boot!local, item>>
            /\ Boot!Goto(p, "inspect") \/ Boot!Goto(p, "first")
        BY <1>2, <2>2 DEF Boot!Prepare
      <3>2. Papers(p)
        BY <1>b, <3>1, RecoveredPapers
      <3>3. Onto(p, "inspect", item[p]) \/ Onto(p, "first", item[p])
        BY <1>a, <3>1, GotoMoves DEF Plain
      <3>4. Moves(p) /\ Fine(p)
        BY <3>3, PlainFine DEF Onto, Plain
      <3>5. QED  BY <3>1, <3>2, <3>4 DEF Still, Boot!tree, Boot!locks
    <2>3. QED  BY <2>1, <2>2
  <1>3. CASE Boot!First(p)
    <2>1. CASE Boot!Refuse(p)
      BY <2>1, Refusing
    <2>2. CASE ~Boot!Refuse(p)
      <3>1. Boot!At(p, "publish", Boot!Mine(p, "intent"))
              /\ UNCHANGED <<Boot!papers, Boot!tree, Boot!locks, Boot!local>>
        BY <1>3, <2>2 DEF Boot!First
      <3>2. Onto(p, "publish", Boot!Mine(p, "intent"))
        BY <1>a, <1>b, <3>1, AtMoves DEF Boot!Steps
      <3>3. Papers(p)
        BY <1>a, <3>1, SamePapers
      <3>4. /\ callPc'[p] = "publish" /\ item'[p] = Boot!Mine(p, "intent")
              /\ Boot!Mine(p, "intent")' = Boot!Mine(p, "intent")
            /\ Boot!Mine(p, "completion")' = Boot!Mine(p, "completion")
            /\ Boot!Mine(p, "receipt")' = Boot!Mine(p, "receipt")
        BY <3>2 DEF Onto, Moves, Boot!Mine
      <3>5. item'[p] \notin {ClaimDoc, Boot!Mine(p, "completion"), Boot!Mine(p, "receipt")}
        BY <3>4, Kinds, Mines
      <3>6. Fine(p)
        BY <3>4, <3>5 DEF Fine, InHand, Claims, Released, Publishes, AfterClaim, ClaimDoc
      <3>7. QED  BY <3>1, <3>2, <3>3, <3>6 DEF Still, Onto, Boot!tree, Boot!locks
    <2>3. QED  BY <2>1, <2>2
  <1>4. CASE Boot!Inspect(p)
    BY <1>4, Passing, Refusing DEF Boot!Inspect, Plain
  <1>5. CASE Boot!Final(p)
    <2>1. CASE Boot!Refuse(p)
      BY <2>1, Refusing
    <2>2. CASE ~Boot!Refuse(p)
      <3>1. Boot!At(p, "publish", Boot!Mine(p, "receipt"))
              /\ UNCHANGED <<Boot!papers, Boot!tree, Boot!locks, Boot!local>> /\ callPc[p] = "final"
        BY <1>5, <2>2 DEF Boot!Final
      <3>2. Onto(p, "publish", Boot!Mine(p, "receipt"))
        BY <1>a, <1>b, <3>1, AtMoves DEF Boot!Steps
      <3>3. Papers(p)
        BY <1>a, <3>1, SamePapers
      <3>4. Earned(op[p])
        BY <3>1 DEF BootIInv, Released
      <3>5. Fine(p)
        BY <3>1, <3>2, <3>3, <3>4, Takes DEF AfterClaim
      <3>6. QED  BY <3>1, <3>2, <3>3, <3>5 DEF Still, Onto, Boot!tree, Boot!locks
    <2>3. QED  BY <2>1, <2>2
  <1>6. CASE Boot!Answer(p)
    BY <1>6, Refusing DEF Boot!Answer
  <1>7. QED  BY <1>1, <1>2, <1>3, <1>4, <1>5, <1>6

\* The claim a process may make is one of its operation, and the one that was
\* taken if there is one.
LEMMA RouterStill ==
    ASSUME BootConstants, BootIInv, NEW p \in Proc, Boot!Router(p), UNCHANGED moved
    PROVE  Still(p)
  <1>a. Boot!TypeOK /\ TreeOK /\ op[p] \in Op /\ Nil \notin Boot!Claim /\ ClaimDoc \in Boot!Doc
    BY Kinds DEF BootConstants, BootIInv, Boot!TypeOK
  <1>1. CASE Boot!Refuse(p)
    BY <1>1, Refusing
  <1>2. CASE ~Boot!Refuse(p)
    <2>1. PICK c \in Boot!Resolved(op[p]) :
             /\ doc' = Boot!Recovered(ClaimDoc)
             /\ mine' = [mine EXCEPT ![p] = c]
             /\ IF owner = Nil THEN Boot!At(p, "own", Nil) ELSE Boot!At(p, "publish", ClaimDoc)
             /\ UNCHANGED <<named, owner, Boot!tree, Boot!locks, op>>
      BY <1>2 DEF Boot!Router, Boot!ClaimDoc, ClaimDoc
    <2>2. c \in Boot!Claim /\ c.op = op[p] /\ (owner # Nil => c = owner)
      <3>1. CASE owner # Nil
        BY <1>a, <2>1, <3>1 DEF Boot!Resolved, Boot!TypeOK
      <3>2. CASE owner = Nil /\ modern
        <4>1. c = Boot!NativeClaim(op[p])
          BY <2>1, <3>2 DEF Boot!Resolved
        <4>2. QED  BY <1>a, <3>2, <4>1 DEF Boot!NativeClaim, Boot!Claim
      <3>3. CASE owner = Nil /\ ~modern
        <4>1. c = Boot!FilesClaim(op[p]) /\ branch[op[p]] = "loose"
          BY <2>1, <3>3 DEF Boot!Resolved, Boot!Bindable
        <4>2. Witness(op[p]) \in Boot!Binding
          BY <1>a, <4>1 DEF TreeOK, Witness, Boot!Binding
        <4>3. QED  BY <1>a, <3>3, <4>1, <4>2
                      DEF Boot!FilesClaim, Boot!Claim, Boot!Witness, Witness
      <3>4. QED  BY <3>1, <3>2, <3>3
    <2>3. Papers(p)
      BY <1>a, <2>1, RecoveredPapers
    <2>4. Moves(p) /\ mine'[p] = c
      BY <1>a, <2>1, <2>2 DEF Boot!At, Boot!Goto, Moves, Boot!TypeOK, Boot!Steps
    <2>5. \/ owner = Nil /\ callPc'[p] = "own"
          \/ owner = c /\ callPc'[p] = "publish" /\ item'[p] = ClaimDoc
      BY <1>a, <2>1, <2>2 DEF Boot!At, Boot!Goto, Boot!TypeOK
    <2>6. CASE owner = Nil /\ callPc'[p] = "own"
      <3>1. Fine(p)
        BY <2>1, <2>2, <2>4, <2>6 DEF Fine, InHand, Claims, Released, Publishes, AfterClaim
      <3>2. QED  BY <2>1, <2>3, <2>4, <3>1 DEF Still, Boot!tree, Boot!locks
    <2>7. CASE owner = c /\ callPc'[p] = "publish" /\ item'[p] = ClaimDoc
      <3>1. item'[p] # Boot!Mine(p, "completion")' /\ item'[p] # Boot!Mine(p, "receipt")'
        BY <2>7, Kinds DEF Boot!Mine
      <3>2. Fine(p)
        BY <2>1, <2>2, <2>4, <2>7, <3>1
           DEF Fine, InHand, Claims, Released, Publishes, AfterClaim, ClaimDoc
      <3>3. QED  BY <2>1, <2>3, <2>4, <3>2 DEF Still, Boot!tree, Boot!locks
    <2>8. QED  BY <2>5, <2>6, <2>7
  <1>3. QED  BY <1>1, <1>2

\* The claim is taken by the process that names its own operation in it.
LEMMA OwnStill ==
    ASSUME BootIInv, NEW p \in Proc, Boot!Own(p), UNCHANGED moved
    PROVE  Still(p)
  <1>a. Boot!TypeOK /\ ClaimDoc \in Boot!Doc
    BY Kinds DEF BootIInv
  <1>1. CASE Boot!Refuse(p)
    BY <1>1, Refusing
  <1>2. CASE ~Boot!Refuse(p)
    <2>1. /\ callPc[p] = "own" /\ owner \in {Nil, mine[p]} /\ owner' = mine[p]
            /\ Boot!At(p, "publish", ClaimDoc)
          /\ UNCHANGED <<doc, named, Boot!tree, Boot!locks, Boot!local>>
      BY <1>2 DEF Boot!Own, Boot!ClaimDoc, ClaimDoc
    <2>2. mine[p] \in Boot!Claim /\ mine[p].op = op[p]
      BY <2>1 DEF BootIInv, Claims
    <2>3. Onto(p, "publish", ClaimDoc)
      BY <1>a, <2>1, AtMoves DEF Boot!Steps
    <2>4. Papers(p)
      BY <1>a, <2>1 DEF Papers, Boot!TypeOK, Exists
    <2>5. callPc'[p] = "publish" /\ item'[p] = ClaimDoc /\ mine'[p] = mine[p] /\ op' = op
      BY <2>3 DEF Onto, Moves
    <2>6. item'[p] # Boot!Mine(p, "completion")' /\ item'[p] # Boot!Mine(p, "receipt")'
      BY <2>5, Kinds DEF Boot!Mine
    <2>7. Fine(p)
      BY <2>1, <2>2, <2>5, <2>6
         DEF Fine, InHand, Claims, Released, Publishes, AfterClaim, ClaimDoc
    <2>8. QED  BY <2>1, <2>3, <2>4, <2>7 DEF Still, Onto, Boot!tree, Boot!locks
  <1>3. QED  BY <1>1, <1>2

\* The looks of the attachment leave the worktree as it is.
LEMMA AttachingStill ==
    ASSUME BootConstants, BootIInv, NEW p \in Proc, UNCHANGED moved,
           Boot!NativeAttach(p) \/ Boot!Settle(p) \/ Boot!InspectDetached(p) \/ Boot!Locked(p)
               \/ Boot!Recheck(p) \/ Boot!Seal(p)
              \/ Boot!Validate(p) \/ Boot!FinalHead(p)
    PROVE  Still(p)
  <1>a. Boot!TypeOK /\ TreeOK /\ Fences /\ op[p] \in Op /\ Nil \notin Boot!Inode
    BY DEF BootConstants, BootIInv, Boot!TypeOK
  <1>b. callPc[p] \in AfterClaim
    BY
       DEF Boot!NativeAttach, Boot!Settle, Boot!InspectDetached, Boot!Locked, Boot!Recheck,
           Boot!Seal, Boot!Unsealed, Boot!Validate, Boot!FinalHead,
           AfterClaim
  <1>c. /\ mine[p] \in Boot!Claim /\ owner = mine[p] /\ owner # Nil /\ owner.op = op[p]
          /\ Exists(ClaimDoc)
    BY <1>b, HasClaim
  <1>1. CASE Boot!NativeAttach(p)
    BY <1>1, <1>b, PassOnward, Refusing DEF Boot!NativeAttach, AfterClaim
  <1>2. CASE Boot!Settle(p)
    <2>1. Earned(op[p])
      BY <1>2, <1>c DEF Boot!Settle, BootIInv, Claims, Earned
    <2>2. QED  BY <1>2, <1>b, <2>1, PassOnward, Refusing DEF Boot!Settle, AfterClaim
  <1>3. CASE Boot!InspectDetached(p)
    BY <1>3, <1>b, AtOnward, Refusing
       DEF Boot!InspectDetached, AfterClaim, Boot!Lock, Boot!FourLocks
  <1>4. CASE Boot!Locked(p)
    <2>1. CASE Boot!Refuse(p)
      BY <2>1, Refusing
    <2>2. CASE ~Boot!Refuse(p)
      <3>1. /\ UNCHANGED <<Boot!papers, Boot!tree, Boot!locks, Boot!local>> /\ callPc[p] = "locked"
            /\ IF item[p] = "head" THEN Boot!At(p, "recheck", Nil)
               ELSE Boot!At(p, "lock", Boot!NextLock(op[p], item[p]))
        BY <1>4, <2>2 DEF Boot!Locked
      <3>2. item[p] \in Boot!FourLocks(op[p])
        BY <3>1 DEF BootIInv, InHand
      <3>3. CASE item[p] = "head"
        BY <1>b, <3>1, <3>3, AtOnward DEF AfterClaim
      <3>4. CASE item[p] # "head"
        <4>1. Boot!NextLock(op[p], item[p]) \in Boot!FourLocks(op[p])
          BY <1>a, <3>2, <3>4 DEF BootConstants, Boot!NextLock, Boot!FourLocks
        <4>2. Boot!NextLock(op[p], item[p]) \in Boot!Lock
          BY <1>a, <4>1 DEF Boot!FourLocks, Boot!Lock
        <4>3. QED  BY <1>b, <3>1, <3>4, <4>1, <4>2, AtOnward DEF AfterClaim
      <3>5. QED  BY <3>3, <3>4
    <2>3. QED  BY <2>1, <2>2
  <1>5. CASE Boot!Recheck(p)
    <2>1. CASE Boot!Refuse(p)
      BY <2>1, Refusing
    <2>2. CASE ~Boot!Refuse(p)
      <3>1. /\ Boot!Pass(p, "rename") /\ Boot!Topology(op[p]) /\ headFence[op[p]] # Nil
            /\ Boot!AllButHead(op[p]) /\ lock["head"] # Nil /\ DetachedPreimages(op[p])
        BY <1>5, <2>2
           DEF Boot!Recheck, Boot!DetachedPreimages, DetachedPreimages, Boot!BranchSettled,
               BranchSettled, Boot!Detached, Detached, Boot!Witness, Witness
      <3>2. \A l \in Boot!FourLocks(op[p]) : lock[l] = headFence[op[p]].ino
        BY <3>1 DEF Boot!Topology, Boot!AllButHead, Boot!FourLocks
      <3>3. Armed(op[p])
        BY <3>1, <3>2 DEF Armed
      <3>4. QED  BY <1>b, <3>1, <3>3, PassOnward DEF AfterClaim
    <2>3. QED  BY <2>1, <2>2
  <1>6. CASE Boot!Seal(p)
    <2>1. CASE Boot!Refuse(p)
      BY <2>1, Refusing
    <2>2. CASE ~Boot!Refuse(p)
      <3>1. /\ Boot!Topology(op[p]) /\ Boot!AttachedState(op[p]) /\ headFence[op[p]] # Nil
            /\ named' = [named EXCEPT ![op[p]] = headFence[op[p]].ino]
            /\ Boot!At(p, "publish", Boot!Mine(p, "completion"))
            /\ UNCHANGED <<doc, owner, Boot!tree, Boot!locks, Boot!local>>
        BY <1>6, <2>2 DEF Boot!Seal
      <3>2. head.ino = headFence[op[p]].ino /\ headFence[op[p]].ino \in Boot!Inode
        BY <1>a, <3>1 DEF Boot!Topology, Boot!AttachedState, TreeOK
      <3>3. op[p] \in moved
        BY <1>a, <3>1, <3>2 DEF Fences
      <3>4. Papers(p)
        BY <1>a, <3>1, <3>2 DEF Papers, Boot!TypeOK, Exists
      <3>5. Boot!Mine(p, "completion") \in Boot!Doc
        BY <1>a, Kinds, Mines
      <3>6. Onto(p, "publish", Boot!Mine(p, "completion"))
        BY <1>a, <3>1, <3>5, AtMoves DEF Boot!Steps
      <3>7. op' = op /\ named'[op[p]] = headFence[op[p]].ino
        BY <1>a, <3>1, <3>6 DEF Onto, Moves, Boot!TypeOK
      <3>8. Completed(op[p])'
        BY <1>a, <3>2, <3>3, <3>7 DEF Completed
      <3>9. Fine(p)
        BY <1>b, <3>4, <3>6, <3>8, Takes
      <3>10. QED  BY <3>1, <3>4, <3>6, <3>9 DEF Still, Onto, Boot!tree, Boot!locks
    <2>3. QED  BY <2>1, <2>2
  <1>7. CASE Boot!Validate(p)
    <2>1. CASE Boot!Refuse(p)
      BY <2>1, Refusing
    <2>2. CASE ~Boot!Refuse(p)
      <3>1. Boot!Pass(p, "release") /\ Exists(Boot!Mine(p, "completion"))
        BY <1>7, <2>2 DEF Boot!Validate, Boot!Exists, Exists
      <3>2. Completed(op[p])
        BY <1>a, <3>1, Mines DEF BootIInv, Exists
      <3>3. QED  BY <1>b, <3>1, <3>2, PassOnward DEF AfterClaim
    <2>3. QED  BY <2>1, <2>2
  <1>8. CASE Boot!FinalHead(p)
    <2>1. Earned(op[p])
      BY <1>8, <1>c DEF Boot!FinalHead, BootIInv, Released, Earned
    <2>2. QED  BY <1>8, <1>b, <2>1, PassOnward, Refusing DEF Boot!FinalHead, AfterClaim
  <1>9. QED  BY <1>1, <1>2, <1>3, <1>4, <1>5, <1>6, <1>7, <1>8

\* All the steps that leave the worktree as it is.
LEMMA StillSteps ==
    ASSUME BootConstants, BootIInv, NEW p \in Proc, Stills(p), UNCHANGED moved
    PROVE  Still(p)
  BY PreparingStill, PublishingStill, RouterStill, OwnStill, AttachingStill DEF Stills

\* A step that leaves the worktree as it is keeps what is said of it.
LEMMA StillInv ==
    ASSUME BootConstants, BootIInv, NEW p \in Proc, Still(p), UNCHANGED moved, modern' \in BOOLEAN,
           faults' \in 0..MaxFaults
    PROVE  BootIInv'
  <1>a. /\ Moves(p) /\ Papers(p) /\ Fine(p) /\ Boot!TypeOK /\ moved \subseteq Op
        /\ UNCHANGED <<head, branch, packedRefs, indexSeen, lock, headFence>>
    BY DEF Still, BootIInv, Boot!TypeOK
  <1>1. TreeOK'
    BY <1>a DEF BootIInv, TreeOK
  <1>2. Fences'
    <2>1. Nil \notin Boot!Claim
      BY DEF BootConstants
    <2>2. QED  BY <1>a, <2>1, Stays DEF BootIInv, Fences
  <1>3. ASSUME NEW q \in Proc, callPc'[q] = "rename",
               op'[q] \notin moved' PROVE Armed(op[q]) /\ op'[q] = op[q]
    <2>1. op' = op
      BY <1>a DEF Moves
    <2>2. CASE q = p
      BY <1>a, <1>3, <2>1, <2>2 DEF Fine
    <2>3. CASE q # p
      <3>1. callPc[q] = "rename"
        BY <1>a, <1>3, <2>3 DEF Moves, Boot!TypeOK
      <3>2. QED  BY <1>3, <2>1, <3>1 DEF BootIInv, ArmedInv
    <2>4. QED  BY <2>2, <2>3
  <1>4. ArmedInv'
    <2>1. ASSUME NEW q \in Proc, callPc'[q] = "rename", op'[q] \notin moved' PROVE Armed(op[q])'
      <3>1. Armed(op[q]) /\ op'[q] = op[q]
        BY <1>3, <2>1
      <3>2. owner \in Boot!Claim /\ Nil \notin Boot!Claim
        BY <3>1 DEF BootConstants, Armed, BootIInv, Fences, Boot!TypeOK
      <3>3. owner' = owner
        BY <1>a, <3>2, Stays
      <3>4. QED
        BY <1>a, <3>1, <3>3
           DEF Armed, DetachedPreimages, BranchSettled, Detached, Witness, Boot!FourLocks
    <2>2. QED  BY <2>1 DEF ArmedInv
  <1>5. QED
    BY <1>a, <1>1, <1>2, <1>4, ProcessPart DEF BootIInv

\* Under the locks of an armed operation nothing gives way.
KeepsArmed ==
    \A o \in Op : Armed(o) /\ o \notin moved' => Armed(o)'

\* What being armed says of claim, fence and locks.
LEMMA ArmedFacts ==
    ASSUME BootConstants, BootIInv, NEW o \in Op, Armed(o)
    PROVE  /\ owner \in Boot!Claim /\ owner # Nil /\ owner.op = o
           /\ headFence[o] # Nil /\ headFence[o].ino \in Boot!Inode
           /\ \A l \in {"packed", "index", "head", o} :
                 lock[l] = headFence[o].ino /\ lock[l] # Nil /\ lock[l] # Git /\ lock[l] \notin Op
           /\ head.at = "detached" /\ "detached" \notin Op
  <1>1. TreeOK /\ Fences
    BY DEF BootIInv
  <1>2. headFence[o] # Nil /\ headFence[o].ino \in Boot!Inode
    BY <1>1 DEF Armed, TreeOK
  <1>3. owner \in Boot!Claim /\ owner.op = o
    BY <1>1, <1>2 DEF Fences
  <1>4. QED
    BY <1>2, <1>3 DEF BootConstants, Armed, Boot!FourLocks, DetachedPreimages, Detached

\* A step on the worktree, its locks or the fences.
LEMMA LoudInv ==
    ASSUME BootConstants, BootIInv, NEW p \in Proc, Moves(p), Papers(p), Fine(p),
           callPc'[p] # "rename", moved \subseteq moved',
           moved' \subseteq Op, TreeOK', Fences', KeepsArmed, modern' \in BOOLEAN,
             faults' \in 0..MaxFaults
    PROVE  BootIInv'
  <1>1. ArmedInv'
    <2>1. ASSUME NEW q \in Proc, callPc'[q] = "rename", op'[q] \notin moved' PROVE Armed(op[q])'
      <3>1. q # p /\ callPc[q] = "rename" /\ op' = op /\ op[q] \in Op /\ op[q] \notin moved
        BY <2>1 DEF Moves, BootIInv, Boot!TypeOK
      <3>2. Armed(op[q])
        BY <3>1 DEF BootIInv, ArmedInv
      <3>3. QED  BY <2>1, <3>1, <3>2 DEF KeepsArmed
    <2>2. QED  BY <2>1 DEF ArmedInv
  <1>2. QED  BY <1>1, ProcessPart DEF BootIInv

\* If no lock of an armed operation changes, and neither HEAD, nor its branch,
\* nor what the claim names, it stays armed.
LEMMA Rearmed ==
    ASSUME BootConstants, BootIInv, NEW p \in Proc, Papers(p), moved \subseteq moved',
           NEW o \in Op, Armed(o),
           headFence'[o] # Nil, headFence'[o].ino = headFence[o].ino,
           \A l \in Boot!FourLocks(o) : lock'[l] = lock[l],
           head' = head, branch'[o] = branch[o], packedRefs' = packedRefs, indexSeen' = indexSeen
    PROVE  Armed(o)'
  <1>1. owner' = owner
    BY ArmedFacts, Stays
  <1>2. QED  BY <1>1
                DEF Armed, DetachedPreimages, BranchSettled, Detached, Witness, Boot!FourLocks

\* Fences stay what they are while HEAD and they do.
LEMMA SameFences ==
    ASSUME BootConstants, BootIInv, NEW p \in Proc, Papers(p), moved \subseteq moved', head' = head,
           \A o \in Op : headFence'[o] # Nil => headFence[o] # Nil
               /\ headFence'[o].ino = headFence[o].ino
    PROVE  Fences'
  <1>1. Nil \notin Boot!Claim
    BY DEF BootConstants
  <1>2. QED  BY <1>1, Stays DEF BootIInv, Fences

\* The branch transaction takes and leaves its fence, and makes the branch.
LEMMA BranchSteps ==
    ASSUME BootConstants, BootIInv, NEW p \in Proc, Boot!BranchLock(p) \/ Boot!BranchMade(p),
           UNCHANGED <<moved, modern, faults>>
    PROVE  BootIInv'
  <1>a. Boot!TypeOK /\ TreeOK /\ op[p] \in Op /\ moved \subseteq Op /\ modern \in BOOLEAN
          /\ faults \in 0..MaxFaults
    BY DEF BootIInv, Boot!TypeOK
  <1>1. CASE Boot!Refuse(p) \/ Boot!Pass(p, "branchMade") \/ Boot!Pass(p, "router")
    <2>1. Still(p)
      BY <1>1, Passing, Refusing DEF Plain
    <2>2. QED  BY <1>a, <2>1, StillInv
  <1>2. CASE ~(Boot!Refuse(p) \/ Boot!Pass(p, "branchMade") \/ Boot!Pass(p, "router"))
    <2> DEFINE o == op[p]
    <2>1. PICK b \in {"absent", "loose"}, l \in Op \cup {Nil} :
             /\ branch' = [branch EXCEPT ![o] = b]
             /\ lock' = [lock EXCEPT !["packed"] = l, ![o] = l]
             /\ lock["packed"] \in Op \cup {Nil}
             /\ UNCHANGED <<Boot!papers, head, packedRefs, indexSeen, headFence, Boot!local, item>>
             /\ Boot!Goto(p, "branchMade") \/ Boot!Goto(p, "router")
      BY <1>a, <1>2 DEF Boot!BranchLock, Boot!BranchMade, Boot!SetBranch, Boot!NoLocks
    <2>2. Papers(p)
      BY <1>a, <2>1, SamePapers
    <2>3. Moves(p) /\ callPc'[p] \in {"branchMade", "router"}
      BY <1>a, <2>1, GotoMoves DEF Onto, Boot!Steps
    <2>4. Fine(p)
      BY <2>3, PlainFine DEF Plain
    <2>5. TreeOK'
      BY <1>a, <2>1 DEF BootConstants, TreeOK, Boot!Lock
    <2>6. Fences'
      BY <2>1, <2>2, SameFences
    <2>7. KeepsArmed
      BY <1>a, <2>1, ArmedFacts DEF KeepsArmed
    <2>8. QED  BY <1>a, <2>2, <2>3, <2>4, <2>5, <2>6, <2>7, LoudInv
  <1>3. QED  BY <1>1, <1>2

\* A fresh inode is no fence, and no lock.
LEMMA FreshIsNew ==
    ASSUME NEW n \in Boot!Fresh
    PROVE  /\ n \in Boot!Inode /\ n # head.ino
           /\ \A o \in Op : headFence[o] # Nil => n # headFence[o].ino
  BY DEF Boot!Fresh, Boot!Used

\* The native protocol points HEAD at the branch, with an inode of its own.
LEMMA SymrefStep ==
    ASSUME BootConstants, BootIInv, NEW p \in Proc, Boot!Symref(p),
           UNCHANGED <<moved, modern, faults>>
    PROVE  BootIInv'
  <1>a. Boot!TypeOK /\ TreeOK /\ op[p] \in Op /\ moved \subseteq Op /\ modern \in BOOLEAN
          /\ faults \in 0..MaxFaults
    BY DEF BootIInv, Boot!TypeOK
  <1>1. CASE Boot!Refuse(p)
    BY <1>1, <1>a, Refusing, StillInv
  <1>2. CASE ~Boot!Refuse(p)
    <2>1. PICK n \in Boot!Fresh :
             /\ head' = [at |-> op[p], ino |-> n] /\ callPc[p] = "symref" /\ lock["head"] = Nil
             /\ Boot!Goto(p, "settle")
             /\ UNCHANGED <<Boot!papers, branch, packedRefs, indexSeen, Boot!locks, Boot!local, item>>
      BY <1>2 DEF Boot!Symref, Boot!NoLocks
    <2>2. Papers(p)
      BY <1>a, <2>1, SamePapers
    <2>3. Onto(p, "settle", item[p])
      BY <1>a, <2>1, GotoMoves DEF Boot!Steps
    <2>4. Fine(p)
      BY <2>1, <2>2, <2>3, Onward DEF AfterClaim, BootIInv, Claims
    <2>5. TreeOK'
      BY <1>a, <2>1, FreshIsNew DEF TreeOK, Boot!locks
    <2>6. Fences'
      <3>1. headFence' = headFence /\ head'.ino = n /\ \A o \in Op : headFence[o] # Nil =>
              n # headFence[o].ino
        BY <2>1, FreshIsNew DEF Boot!locks
      <3>2. owner' = owner
        BY <2>1 DEF Boot!papers
      <3>3. QED  BY <3>1, <3>2 DEF BootIInv, Fences
    <2>7. KeepsArmed
      BY <2>1, ArmedFacts DEF KeepsArmed
    <2>8. QED  BY <1>a, <2>2, <2>3, <2>4, <2>5, <2>6, <2>7, LoudInv DEF Onto
  <1>3. QED  BY <1>1, <1>2

\* A fence is made, filled and removed by the operation that has the claim.
LEMMA FenceSteps ==
    ASSUME BootConstants, BootIInv, NEW p \in Proc,
           Boot!FilesAttach(p) \/ Boot!CreateFence(p) \/ Boot!FillFence(p) \/ Boot!ReleaseFence(p),
           UNCHANGED <<moved, modern, faults>>
    PROVE  BootIInv'
  <1>a. Boot!TypeOK /\ TreeOK /\ Fences /\ op[p] \in Op /\ moved \subseteq Op /\ modern \in BOOLEAN
        /\ faults \in 0..MaxFaults
    BY DEF BootIInv, Boot!TypeOK
  <1>b. callPc[p] \in AfterClaim
    BY DEF Boot!FilesAttach, Boot!CreateFence, Boot!FillFence, Boot!ReleaseFence, AfterClaim
  <1>c. owner \in Boot!Claim /\ owner # Nil /\ owner.op = op[p]
    BY <1>b, HasClaim
  <1>1. CASE Boot!Refuse(p)
    BY <1>1, <1>a, Refusing, StillInv
  <1>d. \A o \in Op : Armed(o) => o = op[p]
    BY <1>c, ArmedFacts
  <1>2. CASE Boot!FilesAttach(p) /\ ~Boot!Refuse(p)
    <2>1. /\ doc' = Boot!Recovered(Boot!Mine(p, "completion")) /\ Boot!Goto(p, "topology")
          /\ UNCHANGED <<named, owner, Boot!tree, lock, Boot!local, item>>
          /\ \/ headFence' = headFence
             \/ /\ headFence[op[p]] # Nil /\ headFence' = [headFence EXCEPT ![op[p]].whole = TRUE]
                /\ Boot!NoLocks(Boot!FourLocks(op[p]))
      BY <1>2 DEF Boot!FilesAttach, Boot!Writable
    <2>2. Papers(p)
      <3>1. Boot!Mine(p, "completion") \in Boot!Doc
        BY <1>a, Kinds, Mines
      <3>2. QED  BY <2>1, <3>1, RecoveredPapers
    <2>3. Onto(p, "topology", item[p])
      BY <1>a, <2>1, GotoMoves DEF Boot!Steps
    <2>4. Fine(p)
      BY <1>b, <2>2, <2>3, Onward DEF AfterClaim
    <2>5. TreeOK'
      <3>1. UNCHANGED <<head, branch, packedRefs, indexSeen, lock>>
        BY <2>1 DEF Boot!tree
      <3>2. CASE headFence' = headFence
        BY <1>a, <3>1, <3>2 DEF TreeOK
      <3>3. CASE headFence' # headFence
        <4>1. headFence[op[p]] \in [ino : Boot!Inode, whole : BOOLEAN]
          BY <1>a, <2>1, <3>3 DEF TreeOK
        <4>2. [headFence[op[p]] EXCEPT !.whole = TRUE] \in [ino : Boot!Inode, whole : BOOLEAN]
          BY <4>1
        <4>3. headFence' = [headFence EXCEPT ![op[p]] = [headFence[op[p]] EXCEPT !.whole = TRUE]]
          BY <2>1, <3>3
        <4>4. headFence' \in [Op -> [ino : Boot!Inode, whole : BOOLEAN] \cup {Nil}]
          BY <1>a, <4>2, <4>3 DEF TreeOK
        <4>5. QED  BY <1>a, <3>1, <4>4 DEF TreeOK
      <3>4. QED  BY <3>2, <3>3
    <2>6. \A o \in Op : (headFence'[o] # Nil => headFence[o] # Nil /\ headFence'[o].ino = headFence[o].ino)
      BY <1>a, <2>1 DEF TreeOK
    <2>7. Fences'
      BY <2>1, <2>2, <2>6, SameFences DEF Boot!tree
    <2>8. ASSUME NEW o \in Op, Armed(o) PROVE Armed(o)'
      <3>1. headFence' = headFence
        BY <1>d, <2>1, <2>8, ArmedFacts DEF Boot!NoLocks, Boot!FourLocks
      <3>2. QED  BY <2>1, <2>2, <2>8, <3>1, ArmedFacts, Rearmed DEF Boot!tree
    <2>9. QED
      BY <1>a, <2>2, <2>3, <2>4, <2>5, <2>7, <2>8, LoudInv DEF Onto, KeepsArmed
  <1>3. CASE Boot!CreateFence(p) /\ ~Boot!Refuse(p)
    <2>1. PICK n \in Boot!Fresh :
             /\ Boot!SetFence(op[p], [ino |-> n, whole |-> FALSE])
             /\ headFence[op[p]] = Nil /\ Boot!Goto(p, "fill") /\ UNCHANGED item
      BY <1>3 DEF Boot!CreateFence
    <2>2. Papers(p)
      BY <1>a, <2>1, SamePapers DEF Boot!SetFence
    <2>3. Onto(p, "fill", item[p])
      BY <1>a, <2>1, GotoMoves DEF Boot!SetFence, Boot!Steps
    <2>4. Fine(p)
      BY <1>b, <2>2, <2>3, Onward DEF AfterClaim
    <2>5. /\ UNCHANGED <<head, branch, packedRefs, indexSeen, lock, owner>>
          /\ headFence' = [headFence EXCEPT ![op[p]] = [ino |-> n, whole |-> FALSE]]
      BY <2>1 DEF Boot!SetFence, Boot!tree, Boot!papers
    <2>6. TreeOK'
      BY <1>a, <2>5, FreshIsNew DEF TreeOK
    <2>7. Fences'
      <3>1. ASSUME NEW o \in Op, headFence'[o] # Nil
            PROVE  owner \in Boot!Claim /\ owner.op = o
                     /\ (head.ino = headFence'[o].ino => o \in moved)
        <4>1. CASE o = op[p]
          <5>1. headFence'[o].ino = n /\ n # head.ino
            BY <1>a, <2>5, <4>1, FreshIsNew DEF TreeOK
          <5>2. QED  BY <1>c, <4>1, <5>1
        <4>2. CASE o # op[p]
          <5>1. headFence'[o] = headFence[o]
            BY <1>a, <2>5, <4>2 DEF TreeOK
          <5>2. QED  BY <1>a, <3>1, <5>1 DEF Fences
        <4>3. QED  BY <4>1, <4>2
      <3>2. QED  BY <2>5, <3>1 DEF Fences
    <2>8. KeepsArmed
      BY <1>d, <2>1, ArmedFacts DEF KeepsArmed
    <2>9. QED  BY <1>a, <2>2, <2>3, <2>4, <2>6, <2>7, <2>8, LoudInv DEF Onto
  <1>4. CASE Boot!FillFence(p) /\ ~Boot!Refuse(p)
    <2>1. /\ headFence[op[p]] # Nil
            /\ Boot!SetFence(op[p], [headFence[op[p]] EXCEPT !.whole = TRUE])
          /\ Boot!At(p, "lock", "packed")
      BY <1>4 DEF Boot!FillFence
    <2>2. Papers(p)
      BY <1>a, <2>1, SamePapers DEF Boot!SetFence
    <2>3. Onto(p, "lock", "packed")
      BY <1>a, <2>1, AtMoves DEF Boot!SetFence, Boot!Steps, Boot!Lock
    <2>4. Fine(p)
      BY <1>b, <2>2, <2>3, Onward DEF AfterClaim, Boot!FourLocks
    <2>5. /\ UNCHANGED <<head, branch, packedRefs, indexSeen, lock, owner>>
          /\ headFence' = [headFence EXCEPT ![op[p]] = [headFence[op[p]] EXCEPT !.whole = TRUE]]
      BY <2>1 DEF Boot!SetFence, Boot!tree, Boot!papers
    <2>6. /\ headFence' \in [Op -> [ino : Boot!Inode, whole : BOOLEAN] \cup {Nil}]
          /\ \A o \in Op : (headFence'[o] # Nil <=> headFence[o] # Nil)
                              /\ (headFence[o] # Nil => headFence'[o].ino = headFence[o].ino)
      <3>1. headFence[op[p]] \in [ino : Boot!Inode, whole : BOOLEAN]
        BY <1>a, <2>1 DEF TreeOK
      <3>2. /\ [headFence[op[p]] EXCEPT !.whole = TRUE] \in [ino : Boot!Inode, whole : BOOLEAN]
            /\ [headFence[op[p]] EXCEPT !.whole = TRUE].ino = headFence[op[p]].ino
        BY <3>1
      <3>3. Nil \notin [ino : Boot!Inode, whole : BOOLEAN]
        BY DEF BootConstants
      <3>4. QED  BY <1>a, <2>1, <2>5, <3>2, <3>3 DEF TreeOK
    <2>7. TreeOK'
      BY <1>a, <2>5, <2>6 DEF TreeOK
    <2>8. Fences'
      BY <2>2, <2>5, <2>6, SameFences
    <2>9. ASSUME NEW o \in Op, Armed(o) PROVE Armed(o)'
      BY <2>2, <2>5, <2>6, <2>9, ArmedFacts, Rearmed
    <2>10. QED
      BY <1>a, <2>2, <2>3, <2>4, <2>7, <2>8, <2>9, LoudInv DEF Onto, KeepsArmed
  <1>5. CASE Boot!ReleaseFence(p) /\ ~Boot!Refuse(p)
    <2>1. callPc[p] = "releaseFence" /\ Boot!Goto(p, "finalHead") /\ Boot!SetFence(op[p], Nil)
            /\ UNCHANGED item
      BY <1>5 DEF Boot!ReleaseFence
    <2>2. Papers(p)
      BY <1>a, <2>1, SamePapers DEF Boot!SetFence
    <2>3. Onto(p, "finalHead", item[p])
      BY <1>a, <2>1, GotoMoves DEF Boot!SetFence, Boot!Steps
    <2>4. Completed(op[p])
      BY <2>1 DEF BootIInv, Released
    <2>5. Fine(p)
      BY <1>b, <2>2, <2>3, <2>4, Onward DEF AfterClaim
    <2>6. /\ UNCHANGED <<head, branch, packedRefs, indexSeen, lock, owner>>
          /\ headFence' = [headFence EXCEPT ![op[p]] = Nil]
      BY <2>1 DEF Boot!SetFence, Boot!tree, Boot!papers
    <2>7. TreeOK'
      BY <1>a, <2>6 DEF TreeOK
    <2>8. Fences'
      BY <1>a, <2>6 DEF TreeOK, Fences
    <2>9. KeepsArmed
      BY <1>d, <2>4 DEF KeepsArmed, Completed
    <2>10. QED  BY <1>a, <2>2, <2>3, <2>5, <2>7, <2>8, <2>9, LoudInv DEF Onto
  <1>6. QED  BY <1>1, <1>2, <1>3, <1>4, <1>5

Releases(p) ==
    \/ Boot!ReleaseLock(p, "release", "index", "releaseBranch")
    \/ Boot!ReleaseLock(p, "releaseBranch", op[p], "releasePacked")
    \/ Boot!ReleaseLock(p, "releasePacked", "packed", "releaseFence")

\* Locks are links of the fence, taken and let go by its own operation.
LEMMA LockSteps ==
    ASSUME BootConstants, BootIInv, NEW p \in Proc, Boot!TakeLock(p) \/ Releases(p),
           UNCHANGED <<moved, modern, faults>>
    PROVE  BootIInv'
  <1>a. Boot!TypeOK /\ TreeOK /\ Fences /\ op[p] \in Op /\ moved \subseteq Op /\ modern \in BOOLEAN
        /\ faults \in 0..MaxFaults /\ Nil \notin Op
    BY DEF BootConstants, BootIInv, Boot!TypeOK
  <1>b. callPc[p] \in AfterClaim
    BY DEF Boot!TakeLock, Releases, Boot!ReleaseLock, AfterClaim
  <1>c. owner \in Boot!Claim /\ owner # Nil /\ owner.op = op[p]
    BY <1>b, HasClaim
  <1>d. \A o \in Op : Armed(o) => o = op[p]
    BY <1>c, ArmedFacts
  <1>1. CASE Boot!Refuse(p)
    BY <1>1, <1>a, Refusing, StillInv
  <1>2. CASE Boot!TakeLock(p) /\ ~Boot!Refuse(p)
    <2>1. /\ callPc[p] = "lock" /\ headFence[op[p]] # Nil
          /\ lock' = [lock EXCEPT ![item[p]] = IF @ = Nil THEN headFence[op[p]].ino ELSE @]
          /\ Boot!Goto(p, "locked")
          /\ UNCHANGED <<Boot!papers, Boot!tree, headFence, Boot!local, item>>
      BY <1>2 DEF Boot!TakeLock
    <2>2. Papers(p)
      BY <1>a, <2>1, SamePapers
    <2>3. Onto(p, "locked", item[p])
      BY <1>a, <2>1, GotoMoves DEF Boot!Steps
    <2>4. item[p] \in Boot!FourLocks(op[p]) /\ item[p] \in Boot!Lock
      BY <1>a, <2>1 DEF BootIInv, InHand, Boot!FourLocks, Boot!Lock
    <2>5. Fine(p)
      BY <1>b, <2>2, <2>3, <2>4, Onward DEF AfterClaim
    <2>6. UNCHANGED <<head, branch, packedRefs, indexSeen, headFence>>
      BY <2>1 DEF Boot!tree
    <2>7. TreeOK'
      <3>1. headFence[op[p]].ino \in Boot!Inode /\ headFence[op[p]].ino \notin Op
        BY <1>a, <2>1 DEF BootConstants, TreeOK
      <3>2. lock' \in [Boot!Lock -> Boot!Inode \cup Op \cup {Git, Nil}]
        BY <1>a, <2>1, <2>4, <3>1 DEF TreeOK
      <3>3. \A l \in {"index", "head"} : lock'[l] \notin Op
        BY <1>a, <2>1, <3>1 DEF TreeOK, Boot!Lock
      <3>4. QED  BY <1>a, <2>6, <3>2, <3>3 DEF TreeOK
    <2>8. Fences'
      BY <2>2, <2>6, SameFences
    <2>9. ASSUME NEW o \in Op, Armed(o) PROVE Armed(o)'
      <3>1. \A l \in Boot!FourLocks(o) : lock'[l] = lock[l]
        <4>1. \A l \in Boot!FourLocks(o) : lock[l] # Nil /\ l \in Boot!Lock
          BY <2>9, ArmedFacts DEF Boot!FourLocks, Boot!Lock
        <4>2. QED  BY <1>a, <2>1, <4>1 DEF TreeOK
      <3>2. QED  BY <2>2, <2>6, <2>9, <3>1, ArmedFacts, Rearmed
    <2>10. QED
      BY <1>a, <2>2, <2>3, <2>5, <2>7, <2>8, <2>9, LoudInv DEF Onto, KeepsArmed
  <1>3. CASE Releases(p) /\ ~Boot!Refuse(p)
    <2>1. PICK l \in Boot!Lock, s \in {"releaseBranch", "releasePacked", "releaseFence"} :
             /\ lock' = [lock EXCEPT ![l] = Nil] /\ Boot!Goto(p, s)
             /\ UNCHANGED <<Boot!papers, Boot!tree, headFence, Boot!local, item>>
             /\ callPc[p] \in {"release", "releaseBranch", "releasePacked"}
      BY <1>3, <1>a DEF Releases, Boot!ReleaseLock, Boot!Lock
    <2>2. Papers(p)
      BY <1>a, <2>1, SamePapers
    <2>3. Onto(p, s, item[p])
      BY <1>a, <2>1, GotoMoves DEF Boot!Steps
    <2>4. Completed(op[p])
      BY <2>1 DEF BootIInv, Released
    <2>5. Fine(p)
      BY <1>b, <2>1, <2>2, <2>3, <2>4, Onward DEF AfterClaim
    <2>6. UNCHANGED <<head, branch, packedRefs, indexSeen, headFence>>
      BY <2>1 DEF Boot!tree
    <2>7. TreeOK'
      <3>1. \A k \in Boot!Lock : lock'[k] = Nil \/ lock'[k] = lock[k]
        BY <1>a, <2>1 DEF TreeOK
      <3>2. lock' \in [Boot!Lock -> Boot!Inode \cup Op \cup {Git, Nil}]
        BY <1>a, <2>1 DEF TreeOK
      <3>3. \A k \in {"index", "head"} : lock'[k] \notin Op
        BY <1>a, <3>1 DEF TreeOK, Boot!Lock
      <3>4. QED  BY <1>a, <2>6, <3>2, <3>3 DEF TreeOK
    <2>8. Fences'
      BY <2>2, <2>6, SameFences
    <2>9. KeepsArmed
      BY <1>d, <2>4 DEF KeepsArmed, Completed
    <2>10. QED  BY <1>a, <2>1, <2>2, <2>3, <2>5, <2>7, <2>8, <2>9, LoudInv DEF Onto
  <1>4. QED  BY <1>1, <1>2, <1>3

\* rename(2): the fence comes over HEAD, and the operation has moved it; only an
\* operation that has moved HEAD already may move another lock.
LEMMA RenameStep ==
    ASSUME BootConstants, BootIInv, NEW p \in Proc, Boot!Rename(p), UNCHANGED <<modern, faults>>,
           moved' = IF head' # head THEN moved \cup {op[p]} ELSE moved
    PROVE  BootIInv'
  <1>a. Boot!TypeOK /\ TreeOK /\ Fences /\ op[p] \in Op /\ moved \subseteq Op /\ modern \in BOOLEAN
        /\ faults \in 0..MaxFaults
    BY DEF BootIInv, Boot!TypeOK
  <1>b. callPc[p] = "rename"
    BY DEF Boot!Rename
  <1>c. owner \in Boot!Claim /\ owner # Nil /\ owner.op = op[p]
    BY <1>b, HasClaim DEF AfterClaim
  <1>1. CASE Boot!Refuse(p)
    <2>1. UNCHANGED moved
      BY <1>1 DEF Boot!Refuse, Boot!tree
    <2>2. QED  BY <1>1, <1>a, <2>1, Refusing, StillInv
  <1>2. CASE ~Boot!Refuse(p)
    <2>1. /\ lock["head"] # Nil
          /\ head' = IF lock["head"] = Git THEN [head EXCEPT !.at = "elsewhere"]
                     ELSE [at |-> op[p], ino |-> lock["head"]]
          /\ lock' = [lock EXCEPT !["head"] = Nil]
          /\ Boot!Goto(p, "renamed")
          /\ UNCHANGED <<Boot!papers, branch, packedRefs, indexSeen, headFence, Boot!local, item>>
      BY <1>2 DEF Boot!Rename
    <2>2. moved \subseteq moved' /\ moved' \subseteq Op
      BY <1>a
    <2>3. Papers(p)
      BY <1>a, <2>1, SamePapers
    <2>4. Onto(p, "renamed", item[p])
      BY <1>a, <2>1, GotoMoves DEF Boot!Steps
    <2>5. Fine(p)
      BY <1>b, <2>2, <2>3, <2>4, Onward DEF AfterClaim
    <2>6. TreeOK'
      <3>1. lock["head"] \in Boot!Inode \cup {Git, Nil}
        BY <1>a DEF TreeOK, Boot!Lock
      <3>2. head' \in [at : Op \cup {"detached", "elsewhere"}, ino : Boot!Inode]
        BY <1>a, <2>1, <3>1 DEF TreeOK
      <3>3. lock' \in [Boot!Lock -> Boot!Inode \cup Op \cup {Git, Nil}]
        BY <1>a, <2>1 DEF TreeOK
      <3>4. lock'["index"] \notin Op /\ lock'["head"] \notin Op
        BY <1>a, <2>1 DEF BootConstants, TreeOK, Boot!Lock
      <3>5. QED  BY <1>a, <2>1, <3>2, <3>3, <3>4 DEF TreeOK
    <2>7. Fences'
      <3>1. \A o \in Op : headFence[o] # Nil => o = op[p]
        BY <1>a, <1>c DEF Fences
      <3>2. CASE head' = head
        BY <1>a, <2>1, <3>2 DEF Fences, Boot!papers
      <3>3. CASE head' # head
        BY <1>c, <2>1, <3>1, <3>3 DEF Fences, Boot!papers
      <3>4. QED  BY <3>2, <3>3
    <2>8. KeepsArmed
      <3>1. ASSUME NEW o \in Op, Armed(o) PROVE o \in moved'
        <4>1. o = op[p] /\ head.at = "detached" /\ "detached" \notin Op /\ lock["head"] # Git
          BY <1>c, <3>1, ArmedFacts
        <4>2. head' # head
          BY <1>a, <2>1, <4>1
        <4>3. QED  BY <4>1, <4>2
      <3>2. QED  BY <3>1 DEF KeepsArmed
    <2>9. QED  BY <1>a, <2>2, <2>3, <2>4, <2>5, <2>6, <2>7, <2>8, LoudInv DEF Onto
  <1>3. QED  BY <1>1, <1>2

\* Git, beside the operations.
LEMMA GitSteps ==
    ASSUME BootConstants, BootIInv, NEW l \in {"index", "head", "packed"},
           Boot!GitLock(l) \/ Boot!GitReplace(l)
    PROVE  BootIInv'
  <1>a. Boot!TypeOK /\ TreeOK /\ Fences /\ Nil \notin Op /\ Git \notin Op /\ l \in Boot!Lock
    BY DEF BootConstants, BootIInv, Boot!Lock
  <1>1. /\ UNCHANGED <<Boot!papers, headFence, Boot!local, callPc, item, moved, modern>>
          /\ faults' \in 0..MaxFaults
        /\ lock[l] \in {Nil, Git} /\ lock' = [lock EXCEPT ![l] = lock'[l]]
        /\ lock'[l] \in {Nil, Git}
    BY <1>a DEF BootConstants, Boot!GitLock, Boot!GitReplace, Boot!Fault, Boot!TypeOK, TreeOK
  <1>2. UNCHANGED <<doc, named, owner, op, mine>>
    BY <1>1 DEF Boot!papers, Boot!local
  <1>3. \/ UNCHANGED <<head, branch, packedRefs, indexSeen>>
        \/ /\ lock[l] = Git
           /\ branch' \in [Op -> {"absent", "loose", "packed"}] /\ packedRefs' \in Nat
           /\ indexSeen' \in BOOLEAN
           /\ \/ head' = head
              \/ /\ head' \in [at : Op \cup {"detached", "elsewhere"}, ino : Boot!Inode]
                 /\ \A o \in Op : headFence[o] # Nil => head'.ino # headFence[o].ino
    <2>1. CASE Boot!GitLock(l)
      BY <2>1 DEF Boot!GitLock, Boot!tree
    <2>2. CASE Boot!GitReplace(l) /\ l = "index"
      BY <1>a, <2>2 DEF Boot!GitReplace, TreeOK
    <2>3. CASE Boot!GitReplace(l) /\ l = "head"
      <3>1. PICK n \in Boot!Fresh,
            a \in {"detached", "elsewhere"} \cup {o \in Op : branch[o] # "absent"} :
               head' = [at |-> a, ino |-> n]
        BY <2>3 DEF Boot!GitReplace
      <3>2. QED  BY <1>a, <2>3, <3>1, FreshIsNew DEF Boot!GitReplace, TreeOK
    <2>4. CASE Boot!GitReplace(l) /\ l = "packed"
      <3>1. PICK os \in SUBSET Op : branch' = [o \in Op |-> IF o \in os THEN "packed" ELSE branch[o]]
        BY <2>4 DEF Boot!GitReplace
      <3>2. branch' \in [Op -> {"absent", "loose", "packed"}]
        BY <1>a, <3>1 DEF TreeOK
      <3>3. QED  BY <1>a, <2>4, <3>2 DEF Boot!GitReplace, TreeOK
    <2>5. QED  BY <2>1, <2>2, <2>3, <2>4
  <1>4. TreeOK'
    <2>1. lock' \in [Boot!Lock -> Boot!Inode \cup Op \cup {Git, Nil}]
      BY <1>a, <1>1 DEF TreeOK
    <2>2. \A k \in {"index", "head"} : lock'[k] \notin Op
      BY <1>a, <1>1 DEF TreeOK, Boot!Lock
    <2>3. QED  BY <1>a, <1>1, <1>3, <2>1, <2>2 DEF TreeOK
  <1>5. Fences'
    BY <1>1, <1>2, <1>3 DEF BootIInv, Fences
  <1>6. \A o \in Op : ~Armed(o)
    <2>1. ASSUME NEW o \in Op, Armed(o) PROVE FALSE
      BY <1>1, <2>1, ArmedFacts
    <2>2. QED  BY <2>1
  <1>7. ArmedInv'
    BY <1>1, <1>2, <1>6 DEF BootIInv, ArmedInv, Boot!TypeOK
  <1>8. Boot!TypeOK'
    BY <1>a, <1>1, <1>2, <1>4 DEF Boot!TypeOK, TreeOK
  <1>9. Writers' /\ \A q \in Proc : InHand(q)' /\ Claims(q)' /\ Released(q)'
    BY <1>1, <1>2
       DEF BootIInv, Writers, InHand, Claims, Released, Boot!Mine, Boot!FourLocks, ClaimDoc,
           Exists, Earned, Completed
  <1>10. /\ \A o \in Op : doc'[<<"completion", o>>] # "absent" => Completed(o)'
         /\ \A o \in Op : doc'[<<"receipt", o>>] # "absent" => Earned(o)'
    BY <1>1, <1>2 DEF BootIInv, Earned, Completed
  <1>11. QED  BY <1>4, <1>5, <1>7, <1>8, <1>9, <1>10 DEF BootIInv

\* Every step keeps the invariant.
LEMMA NextIInv ==
    ASSUME BootConstants
    PROVE  BootIInv /\ [Boot!Next]_(Boot!vars) => BootIInv'
  <1> SUFFICES ASSUME BootIInv, [Boot!Next]_(Boot!vars) PROVE BootIInv'
    OBVIOUS
  <1>a. Boot!TypeOK /\ modern \in BOOLEAN /\ faults \in 0..MaxFaults
    BY DEF BootIInv, Boot!TypeOK
  <1>1. ASSUME NEW p \in Proc, Boot!Step(p) PROVE BootIInv'
    <2>1. /\ Boot!Preparing(p) \/ Boot!Publishing(p) \/ Boot!Attaching(p)
          /\ moved' = IF callPc[p] = "rename" /\ head' # head THEN moved \cup {op[p]} ELSE moved
          /\ UNCHANGED <<modern, faults>>
      BY <1>1 DEF Boot!Step
    <2>2. \/ Stills(p) \/ Boot!BranchLock(p) \/ Boot!BranchMade(p) \/ Boot!Symref(p)
            \/ Boot!TakeLock(p) \/ Boot!Rename(p) \/ Releases(p)
          \/ Boot!FilesAttach(p) \/ Boot!CreateFence(p) \/ Boot!FillFence(p) \/ Boot!ReleaseFence(p)
      BY <2>1 DEF Boot!Preparing, Boot!Attaching, Boot!Releasing, Stills, Releases
    <2>3. CASE Stills(p)
      <3>1. UNCHANGED head \/ callPc[p] # "rename"
        BY <2>3
           DEF Stills, Boot!Start, Boot!Prepare, Boot!First, Boot!Inspect, Boot!Final,
               Boot!Answer, Boot!Publishing, Boot!Publish, Boot!Stage, Boot!Write,
           Boot!Staged, Boot!LinkTarget, Boot!Linked, Boot!Unlink, Boot!Router, Boot!Own,
           Boot!NativeAttach, Boot!Settle, Boot!InspectDetached, Boot!Locked,
           Boot!Recheck, Boot!Seal, Boot!Unsealed, Boot!Validate, Boot!FinalHead
      <3>2. UNCHANGED moved
        BY <2>1, <3>1
      <3>3. QED  BY <1>a, <2>1, <2>3, <3>2, StillSteps, StillInv
    <2>4. CASE Boot!BranchLock(p) \/ Boot!BranchMade(p)
      <3>1. callPc[p] # "rename"
        BY <2>4 DEF Boot!BranchLock, Boot!BranchMade
      <3>2. QED  BY <2>1, <2>4, <3>1, BranchSteps
    <2>5. CASE Boot!Symref(p)
      <3>1. callPc[p] # "rename"
        BY <2>5 DEF Boot!Symref
      <3>2. QED  BY <2>1, <2>5, <3>1, SymrefStep
    <2>6. CASE Boot!TakeLock(p) \/ Releases(p)
      <3>1. callPc[p] # "rename"
        BY <2>6 DEF Boot!TakeLock, Releases, Boot!ReleaseLock
      <3>2. QED  BY <2>1, <2>6, <3>1, LockSteps
    <2>7. CASE Boot!Rename(p)
      <3>1. callPc[p] = "rename"
        BY <2>7 DEF Boot!Rename
      <3>2. QED  BY <2>1, <2>7, <3>1, RenameStep
    <2>8. CASE Boot!FilesAttach(p) \/ Boot!CreateFence(p) \/ Boot!FillFence(p)
                 \/ Boot!ReleaseFence(p)
      <3>1. callPc[p] # "rename"
        BY <2>8 DEF Boot!FilesAttach, Boot!CreateFence, Boot!FillFence, Boot!ReleaseFence
      <3>2. QED  BY <2>1, <2>8, <3>1, FenceSteps
    <2>9. QED  BY <2>2, <2>3, <2>4, <2>5, <2>6, <2>7, <2>8
  <1>2. ASSUME NEW p \in Proc, Boot!Crash(p) \/ Boot!Join(p) PROVE BootIInv'
    <2>1. Still(p)
      BY <1>2, Refusing, Passing DEF Boot!Crash, Boot!Join, Plain
    <2>2. UNCHANGED <<moved, modern>> /\ faults' \in 0..MaxFaults
      BY <1>a, <1>2 DEF BootConstants, Boot!Crash, Boot!Join, Boot!Fault
    <2>3. QED  BY <1>a, <2>1, <2>2, StillInv
  <1>3. ASSUME NEW l \in {"index", "head", "packed"},
               Boot!GitLock(l) \/ Boot!GitReplace(l) PROVE BootIInv'
    BY <1>3, GitSteps
  <1>4. CASE Boot!Upgrade \/ UNCHANGED Boot!vars
    <2>1. /\ UNCHANGED <<doc, named, owner, head, branch, packedRefs, indexSeen, lock, headFence, op, mine, callPc, item, moved>>
          /\ modern' \in BOOLEAN /\ faults' \in 0..MaxFaults
      <3>1. CASE Boot!Upgrade
        <4>1. modern' \in BOOLEAN
          BY <1>a, <3>1 DEF Boot!Upgrade
        <4>2. faults' \in 0..MaxFaults
          BY <1>a, <3>1 DEF BootConstants, Boot!Upgrade, Boot!Fault
        <4>3. QED  BY <3>1, <4>1, <4>2
                      DEF Boot!Upgrade, Boot!papers, Boot!tree, Boot!locks, Boot!local
      <3>2. CASE UNCHANGED Boot!vars
        BY <1>a, <3>2 DEF Boot!vars, Boot!papers, Boot!tree, Boot!locks, Boot!local
      <3>3. QED  BY <1>4, <3>1, <3>2
    <2>2. Boot!TypeOK' /\ TreeOK'
      BY <1>a, <2>1 DEF BootIInv, Boot!TypeOK, TreeOK
    <2>3. Fences' /\ ArmedInv'
      BY <2>1
         DEF BootIInv, Fences, ArmedInv, Armed, DetachedPreimages, BranchSettled, Detached,
             Witness, Boot!FourLocks
    <2>4. Writers' /\ \A q \in Proc : InHand(q)' /\ Claims(q)' /\ Released(q)'
      BY <2>1
         DEF BootIInv, Writers, InHand, Claims, Released, Boot!Mine, Boot!FourLocks, ClaimDoc,
             Exists, Earned, Completed
    <2>5. /\ \A o \in Op : doc'[<<"completion", o>>] # "absent" => Completed(o)'
          /\ \A o \in Op : doc'[<<"receipt", o>>] # "absent" => Earned(o)'
      BY <2>1 DEF BootIInv, Earned, Completed
    <2>6. QED  BY <2>2, <2>3, <2>4, <2>5 DEF BootIInv
  <1>5. QED  BY <1>1, <1>2, <1>3, <1>4 DEF Boot!Next

\* Every reachable state satisfies the inductive invariant.
THEOREM BootInvariance ==
    ASSUME BootConstants
    PROVE  Boot!Spec => []BootIInv
  BY BootInitIInv, NextIInv, PTL DEF Boot!Spec

\* Whatever callers repeat and die, and whatever git does beside them: a receipt is
\* sealed only for the one operation that has claimed the worktree, and in the
\* files protocol only when its own transaction renamed HEAD and the completion
\* names the inode.
THEOREM ReceiptsAreEarned ==
    ASSUME BootConstants
    PROVE  Boot!Spec => []NoBackfill
  <1>1. BootIInv => NoBackfill
    BY DEF BootIInv, NoBackfill, Sealed, Earned, Completed
  <1>2. QED  BY <1>1, BootInvariance, PTL

\* The inode that the claim names is HEAD's until the operation moves HEAD, and no
\* fence and no lock ever has it.
Departed ==
    /\ owner = Nil => moved = {} /\ \A l \in Boot!Lock : lock[l] \notin Boot!Inode
    /\ owner # Nil /\ owner.bind # Nil =>
          /\ \A l \in Boot!Lock : lock[l] # owner.bind.head
          /\ \A o \in Op : headFence[o] # Nil => headFence[o].ino # owner.bind.head
          /\ moved # {} => head.ino # owner.bind.head

\* Where the inodes of HEAD, of the fences and of the locks come from.
Sources ==
    /\ owner' = owner \/ (owner = Nil /\ UNCHANGED <<lock, headFence, head, moved>>)
    /\ \A l \in Boot!Lock :
          \/ lock'[l] = lock[l] \/ lock'[l] \notin Boot!Inode
          \/ \E o \in Op : headFence[o] # Nil /\ lock'[l] = headFence[o].ino
    /\ \A o \in Op : headFence'[o] # Nil =>
          \/ headFence[o] # Nil /\ headFence'[o].ino = headFence[o].ino
          \/ headFence'[o].ino \in Boot!Fresh /\ owner # Nil
    /\ \/ head'.ino = head.ino /\ moved' = moved
       \/ head'.ino \in Boot!Fresh /\ moved' = moved
       \/ /\ owner # Nil
          /\ \/ head'.ino = head.ino /\ moved # {}
             \/ \E l \in Boot!Lock : head'.ino = lock[l]

\* Locks and fences as they are.
LEMMA PlainSources ==
    ASSUME UNCHANGED <<owner, moved, lock, headFence>>, head'.ino = head.ino \/ head'.ino \in Boot!Fresh
    PROVE  Sources
  BY DEF Sources

\* A rename finds a fence in the lock, or HEAD has been moved before.
LEMMA RenameSources ==
    ASSUME BootConstants, BootIInv, NEW p \in Proc, Boot!Rename(p),
           moved' = IF head' # head THEN moved \cup {op[p]} ELSE moved
    PROVE  Sources
  <1>a. Boot!TypeOK /\ TreeOK /\ op[p] \in Op /\ Nil \notin Boot!Inode
    BY DEF BootConstants, BootIInv, Boot!TypeOK
  <1>1. CASE Boot!Refuse(p)
    BY <1>1, PlainSources DEF Boot!Refuse, Boot!papers, Boot!tree, Boot!locks
  <1>2. CASE ~Boot!Refuse(p)
    <2>1. /\ lock["head"] # Nil /\ callPc[p] = "rename"
          /\ head' = IF lock["head"] = Git THEN [head EXCEPT !.at = "elsewhere"]
                     ELSE [at |-> op[p], ino |-> lock["head"]]
          /\ lock' = [lock EXCEPT !["head"] = Nil]
          /\ UNCHANGED <<owner, headFence>>
      BY <1>2 DEF Boot!Rename, Boot!papers
    <2>2. owner # Nil
      BY <2>1, HasClaim DEF AfterClaim
    <2>3. lock["head"] = Git => moved # {}
      BY <1>a, <2>1, ArmedFacts DEF BootIInv, ArmedInv
    <2>4. "head" \in Boot!Lock /\ (lock["head"] = Git => head'.ino = head.ino)
      BY <1>a, <2>1 DEF Boot!Lock, TreeOK
    <2>5. \A l \in Boot!Lock : lock'[l] = lock[l] \/ lock'[l] \notin Boot!Inode
      BY <1>a, <2>1 DEF TreeOK
    <2>6. \/ head'.ino = head.ino /\ moved # {}
          \/ \E l \in Boot!Lock : head'.ino = lock[l]
      BY <2>1, <2>3, <2>4
    <2>7. QED  BY <2>1, <2>2, <2>5, <2>6 DEF Sources
  <1>3. QED  BY <1>1, <1>2

\* The branch's fence is no inode; a lock is linked from a fence; links are removed.
LEMMA LockSources ==
    ASSUME BootConstants, BootIInv, NEW p \in Proc, UNCHANGED moved,
           Boot!BranchLock(p) \/ Boot!BranchMade(p) \/ Boot!TakeLock(p) \/ Releases(p)
    PROVE  Sources
  <1>a. /\ Boot!TypeOK /\ TreeOK /\ op[p] \in Op
        /\ \A x \in Op \cup {Nil} : x \notin Boot!Inode
    BY DEF BootConstants, BootIInv, Boot!TypeOK
  <1>1. CASE Boot!Refuse(p) \/ \E x : Boot!Pass(p, x)
    BY <1>1, PlainSources DEF Boot!Refuse, Boot!Pass, Boot!papers, Boot!tree, Boot!locks
  <1>2. CASE ~(Boot!Refuse(p) \/ \E x : Boot!Pass(p, x))
    <2>1. UNCHANGED <<owner, headFence, head>>
      BY <1>2
         DEF Boot!BranchLock, Boot!BranchMade, Boot!TakeLock, Releases, Boot!ReleaseLock,
             Boot!SetBranch, Boot!papers, Boot!tree
    <2>2. \A l \in Boot!Lock :
             \/ lock'[l] = lock[l] \/ lock'[l] \notin Boot!Inode
             \/ \E o \in Op : headFence[o] # Nil /\ lock'[l] = headFence[o].ino
      <3>1. CASE Boot!BranchLock(p) \/ Boot!BranchMade(p)
        <4>1. PICK x \in Op \cup {Nil} : lock' = [lock EXCEPT !["packed"] = x, ![op[p]] = x]
          BY <1>a, <1>2, <3>1 DEF Boot!BranchLock, Boot!BranchMade, Boot!SetBranch
        <4>2. QED  BY <1>a, <4>1 DEF TreeOK
      <3>2. CASE Boot!TakeLock(p)
        <4>1. /\ headFence[op[p]] # Nil
              /\ lock' = [lock EXCEPT ![item[p]] = IF @ = Nil THEN headFence[op[p]].ino ELSE @]
          BY <1>2, <3>2 DEF Boot!TakeLock
        <4>2. QED  BY <1>a, <4>1 DEF TreeOK
      <3>3. CASE Releases(p)
        <4>1. PICK l : lock' = [lock EXCEPT ![l] = Nil]
          BY <1>2, <3>3 DEF Releases, Boot!ReleaseLock
        <4>2. QED  BY <1>a, <4>1 DEF TreeOK
      <3>4. QED  BY <3>1, <3>2, <3>3
    <2>3. QED  BY <2>1, <2>2 DEF Sources
  <1>3. QED  BY <1>1, <1>2

\* A fence is a fresh inode, of an operation that has the claim.
LEMMA FenceSources ==
    ASSUME BootConstants, BootIInv, NEW p \in Proc, UNCHANGED moved,
           Boot!FilesAttach(p) \/ Boot!CreateFence(p) \/ Boot!FillFence(p) \/ Boot!ReleaseFence(p)
    PROVE  Sources
  <1>a. /\ Boot!TypeOK /\ TreeOK /\ op[p] \in Op
        /\ Nil \notin [ino : Boot!Inode, whole : BOOLEAN]
    BY DEF BootConstants, BootIInv, Boot!TypeOK
  <1>b. owner # Nil
    BY HasClaim
       DEF Boot!FilesAttach, Boot!CreateFence, Boot!FillFence, Boot!ReleaseFence, AfterClaim
  <1>1. CASE Boot!Refuse(p)
    BY <1>1, PlainSources DEF Boot!Refuse, Boot!papers, Boot!tree, Boot!locks
  <1>2. CASE ~Boot!Refuse(p)
    <2>1. UNCHANGED <<owner, lock, head>>
      BY <1>2
         DEF Boot!FilesAttach, Boot!CreateFence, Boot!FillFence, Boot!ReleaseFence,
             Boot!SetFence, Boot!papers, Boot!tree
    <2>2. \A o \in Op : headFence'[o] # Nil =>
             \/ headFence[o] # Nil /\ headFence'[o].ino = headFence[o].ino
             \/ headFence'[o].ino \in Boot!Fresh
      <3>1. CASE Boot!FilesAttach(p)
        <4>1. \/ headFence' = headFence
              \/ /\ headFence[op[p]] # Nil
                 /\ headFence' = [headFence EXCEPT ![op[p]].whole = TRUE]
          BY <1>2, <3>1 DEF Boot!FilesAttach
        <4>2. QED  BY <1>a, <4>1 DEF TreeOK
      <3>2. CASE Boot!CreateFence(p)
        <4>1. PICK n \in Boot!Fresh : headFence' = [headFence EXCEPT ![op[p]] = [ino |-> n, whole |-> FALSE]]
          BY <1>2, <3>2 DEF Boot!CreateFence, Boot!SetFence
        <4>2. QED  BY <1>a, <4>1 DEF TreeOK
      <3>3. CASE Boot!FillFence(p)
        <4>1. /\ headFence[op[p]] # Nil
              /\ headFence' = [headFence EXCEPT ![op[p]] = [headFence[op[p]] EXCEPT !.whole = TRUE]]
          BY <1>2, <3>3 DEF Boot!FillFence, Boot!SetFence
        <4>2. QED  BY <1>a, <4>1 DEF TreeOK
      <3>4. CASE Boot!ReleaseFence(p)
        <4>1. headFence' = [headFence EXCEPT ![op[p]] = Nil]
          BY <1>2, <3>4 DEF Boot!ReleaseFence, Boot!SetFence
        <4>2. QED  BY <1>a, <4>1 DEF TreeOK
      <3>5. QED  BY <3>1, <3>2, <3>3, <3>4
    <2>3. QED  BY <1>b, <2>1, <2>2 DEF Sources
  <1>3. QED  BY <1>1, <1>2

\* A step of a process is one of these.
LEMMA StepKinds ==
    ASSUME NEW p \in Proc, Boot!Step(p)
    PROVE  /\ \/ Stills(p) \/ Boot!BranchLock(p) \/ Boot!BranchMade(p) \/ Boot!Symref(p)
              \/ Boot!TakeLock(p) \/ Boot!Rename(p) \/ Releases(p)
              \/ Boot!FilesAttach(p) \/ Boot!CreateFence(p) \/ Boot!FillFence(p)
              \/ Boot!ReleaseFence(p)
           /\ Boot!Rename(p) \/ UNCHANGED moved
           /\ moved' = IF callPc[p] = "rename" /\ head' # head THEN moved \cup {op[p]} ELSE moved
  <1>1. \/ Stills(p) \/ Boot!BranchLock(p) \/ Boot!BranchMade(p) \/ Boot!Symref(p)
        \/ Boot!TakeLock(p) \/ Boot!Rename(p) \/ Releases(p)
        \/ Boot!FilesAttach(p) \/ Boot!CreateFence(p) \/ Boot!FillFence(p) \/ Boot!ReleaseFence(p)
    BY DEF Boot!Step, Boot!Preparing, Boot!Attaching, Boot!Releasing, Stills, Releases
  <1>2. CASE callPc[p] = "rename"
    BY <1>1, <1>2
       DEF Boot!Step, Boot!Rename, Stills, Boot!BranchLock, Boot!BranchMade, Boot!Symref,
           Boot!TakeLock, Releases, Boot!ReleaseLock, Boot!FilesAttach, Boot!CreateFence,
           Boot!FillFence, Boot!ReleaseFence, Boot!Start, Boot!Prepare, Boot!First, Boot!Inspect,
           Boot!Final, Boot!Answer, Boot!Publishing, Boot!Publish, Boot!Stage, Boot!Write,
           Boot!Staged, Boot!LinkTarget, Boot!Linked, Boot!Unlink, Boot!Router, Boot!Own,
           Boot!NativeAttach, Boot!Settle, Boot!InspectDetached, Boot!Locked,
           Boot!Recheck, Boot!Seal, Boot!Unsealed, Boot!Validate, Boot!FinalHead
  <1>3. QED  BY <1>1, <1>2 DEF Boot!Step

\* Every step takes its inodes from there.
LEMMA NextSources ==
    ASSUME BootConstants, BootIInv, [Boot!Next]_(Boot!vars)
    PROVE  Sources
  <1>1. ASSUME NEW p \in Proc, Boot!Step(p) PROVE Sources
    <2>1. /\ \/ Stills(p) \/ Boot!BranchLock(p) \/ Boot!BranchMade(p) \/ Boot!Symref(p)
             \/ Boot!TakeLock(p) \/ Boot!Rename(p) \/ Releases(p)
             \/ Boot!FilesAttach(p) \/ Boot!CreateFence(p) \/ Boot!FillFence(p)
             \/ Boot!ReleaseFence(p)
          /\ Boot!Rename(p) \/ UNCHANGED moved
          /\ moved' = IF callPc[p] = "rename" /\ head' # head THEN moved \cup {op[p]} ELSE moved
      BY <1>1, StepKinds
    <2>2. CASE Boot!Rename(p)
      <3>1. callPc[p] = "rename"
        BY <2>2 DEF Boot!Rename
      <3>2. QED  BY <2>1, <2>2, <3>1, RenameSources
    <2>3. CASE UNCHANGED moved /\ Stills(p)
      <3>1. Still(p)
        BY <2>3, StillSteps
      <3>2. /\ UNCHANGED <<head, lock, headFence, moved>>
            /\ owner' = owner \/ owner = Nil
        BY <2>3, <3>1 DEF Still, Papers
      <3>3. QED  BY <3>2 DEF Sources
    <2>4. CASE UNCHANGED moved /\ Boot!Symref(p)
      <3>1. UNCHANGED <<owner, lock, headFence>> /\ (head' = head \/ head'.ino \in Boot!Fresh)
        BY <2>4 DEF Boot!Symref, Boot!Refuse, Boot!papers, Boot!tree, Boot!locks
      <3>2. QED  BY <2>4, <3>1, PlainSources
    <2>5. CASE /\ UNCHANGED moved
               /\ Boot!BranchLock(p) \/ Boot!BranchMade(p) \/ Boot!TakeLock(p) \/ Releases(p)
      BY <2>5, LockSources
    <2>6. CASE /\ UNCHANGED moved
               /\ Boot!FilesAttach(p) \/ Boot!CreateFence(p) \/ Boot!FillFence(p)
                  \/ Boot!ReleaseFence(p)
      BY <2>6, FenceSources
    <2>7. QED  BY <2>1, <2>2, <2>3, <2>4, <2>5, <2>6
  <1>2. ASSUME NEW p \in Proc, Boot!Crash(p) \/ Boot!Join(p) PROVE Sources
    <2>1. UNCHANGED <<owner, moved, lock, headFence, head>>
      BY <1>2 DEF Boot!Crash, Boot!Join, Boot!Refuse, Boot!Pass, Boot!papers, Boot!tree, Boot!locks
    <2>2. QED  BY <2>1, PlainSources
  <1>3. ASSUME NEW l \in {"index", "head", "packed"},
               Boot!GitLock(l) \/ Boot!GitReplace(l) PROVE Sources
    <2>1. /\ UNCHANGED <<owner, moved, headFence>>
          /\ \E x \in {Nil, Git} : lock' = [lock EXCEPT ![l] = x]
      BY <1>3 DEF Boot!GitLock, Boot!GitReplace, Boot!papers
    <2>2. head' = head \/ head'.ino \in Boot!Fresh
      BY <1>3 DEF Boot!GitLock, Boot!GitReplace, Boot!tree
    <2>3. \A k \in Boot!Lock : lock'[k] = lock[k] \/ lock'[k] \notin Boot!Inode
      <3>1. Nil \notin Boot!Inode /\ Git \notin Boot!Inode
        BY DEF BootConstants
      <3>2. lock \in [Boot!Lock -> Boot!Inode \cup Op \cup {Git, Nil}]
        BY DEF BootIInv, TreeOK
      <3>3. QED  BY <2>1, <3>1, <3>2
    <2>4. QED  BY <2>1, <2>2, <2>3 DEF Sources
  <1>4. CASE Boot!Upgrade \/ UNCHANGED Boot!vars
    <2>1. UNCHANGED <<owner, moved, lock, headFence, head>>
      BY <1>4 DEF Boot!Upgrade, Boot!vars, Boot!papers, Boot!tree, Boot!locks
    <2>2. QED  BY <2>1, PlainSources
  <1>5. QED  BY <1>1, <1>2, <1>3, <1>4 DEF Boot!Next

\* HEAD never has the claimed inode again.
LEMMA DepartedStays ==
    ASSUME BootConstants, BootIInv, BootIInv', Departed, Sources
    PROVE  Departed'
  <1>a. /\ owner' \in Boot!Claim \cup {Nil} /\ Fences /\ TreeOK /\ TreeOK'
        /\ Op \cap Boot!Inode = {} /\ Nil \notin Boot!Inode /\ Git \notin Boot!Inode
    BY DEF BootConstants, BootIInv, Boot!TypeOK
  <1>b. owner' # Nil /\ owner'.bind # Nil => owner'.bind.head \in Boot!Inode
    BY <1>a DEF Boot!Claim, Boot!Binding
  <1>1. CASE owner = Nil
    <2>1. \A o \in Op : headFence[o] = Nil
      BY <1>1 DEF BootConstants, BootIInv, Fences
    <2>2. moved = {} /\ \A l \in Boot!Lock : lock[l] \notin Boot!Inode
      BY <1>1 DEF Departed
    <2>3. moved' = {} /\ \A l \in Boot!Lock : lock'[l] \notin Boot!Inode
      BY <1>1, <2>1, <2>2 DEF Sources
    <2>4. \A o \in Op : headFence'[o] = Nil
      BY <1>1, <2>1 DEF Sources
    <2>5. QED  BY <1>b, <2>3, <2>4 DEF Departed
  <1>2. CASE owner # Nil /\ owner.bind # Nil
    <2>1. owner' = owner /\ owner.bind.head \in Boot!Used
      BY <1>2 DEF Sources, Boot!Used
    <2>2. owner.bind.head \notin Boot!Fresh
      BY <2>1 DEF Boot!Fresh
    <2>3. \A l \in Boot!Lock : lock'[l] # owner.bind.head
      BY <1>2, <1>b, <2>1 DEF Departed, Sources
    <2>4. \A o \in Op : headFence'[o] # Nil => headFence'[o].ino # owner.bind.head
      BY <1>2, <2>2 DEF Departed, Sources
    <2>5. moved' # {} => head'.ino # owner.bind.head
      BY <1>2, <2>2 DEF Departed, Sources
    <2>6. QED  BY <1>2, <2>1, <2>3, <2>4, <2>5 DEF Departed
  <1>3. CASE owner # Nil /\ owner.bind = Nil
    BY <1>3 DEF Departed, Sources
  <1>4. QED  BY <1>1, <1>2, <1>3

\* Once an operation has moved HEAD, no look finds what its claim names.
LEMMA NoSecondLook ==
    ASSUME BootConstants, BootIInv, Departed, NEW o \in Op, o \in moved,
           owner \in Boot!Claim, DetachedPreimages(o)
    PROVE  FALSE
  <1>1. Witness(o) \in [head : Boot!Inode, branch : {"absent", "loose", "packed"}, packedRefs : Nat]
    BY DEF Witness, BootIInv, TreeOK
  <1>2. owner.bind = Witness(o) /\ owner.bind # Nil /\ owner.bind.head = head.ino
    BY <1>1 DEF DetachedPreimages, Witness, BootConstants
  <1>3. owner # Nil
    BY DEF BootConstants
  <1>4. QED  BY <1>2, <1>3 DEF Departed

\* Only a look that finds everything as claimed leads to the rename.
LEMMA LookFirst ==
    ASSUME BootConstants, BootIInv, [Boot!Next]_(Boot!vars), NEW p \in Proc,
           callPc'[p] = "rename", callPc[p] # "rename"
    PROVE  DetachedPreimages(op[p])
  <1>1. callPc \in [Proc -> Boot!Steps]
    BY DEF BootIInv, Boot!TypeOK
  <1>2. ASSUME NEW q \in Proc, Boot!Crash(q) \/ Boot!Join(q) PROVE FALSE
    BY <1>1, <1>2
       DEF Boot!Crash, Boot!Join, Boot!Refuse, Boot!End, Boot!At, Boot!Pass, Boot!Goto
  <1>3. PICK q \in Proc : Boot!Step(q)
    <2>1. ~UNCHANGED callPc
      OBVIOUS
    <2>2. QED  BY <1>2, <2>1 DEF Boot!Next, Boot!GitLock, Boot!GitReplace, Boot!Upgrade, Boot!vars
  <1>4. CASE Stills(q) /\ UNCHANGED moved
    <2>1. Still(q)
      BY <1>4, StillSteps
    <2>2. callPc' = [callPc EXCEPT ![q] = callPc'[q]] /\ Fine(q)
      BY <2>1 DEF Still, Moves
    <2>3. q = p
      BY <1>1, <2>2
    <2>4. QED  BY <2>2, <2>3 DEF Fine, Armed
  <1>5. CASE \/ Boot!BranchLock(q) \/ Boot!BranchMade(q) \/ Boot!Symref(q)
             \/ Boot!TakeLock(q) \/ Boot!Rename(q) \/ Releases(q)
             \/ Boot!FilesAttach(q) \/ Boot!CreateFence(q) \/ Boot!FillFence(q)
             \/ Boot!ReleaseFence(q)
    <2>1. \E l : l # "rename" /\ callPc' = [callPc EXCEPT ![q] = l]
      BY <1>5
         DEF Boot!BranchLock, Boot!BranchMade, Boot!Symref, Boot!TakeLock, Boot!Rename, Releases,
             Boot!ReleaseLock, Boot!FilesAttach, Boot!CreateFence, Boot!FillFence,
             Boot!ReleaseFence, Boot!Refuse, Boot!End, Boot!At, Boot!Pass, Boot!Goto
    <2>2. QED  BY <1>1, <2>1
  <1>6. QED  BY <1>3, <1>4, <1>5, StepKinds

\* Whatever git does between two looks of the transaction, its rename moves HEAD only off
\* the index, branch, packed-refs and HEAD that the durable claim names, unless another
\* caller of the same operation has renamed HEAD between this caller's last look and its
\* rename; that a look finds the claimed files after the operation has moved HEAD never
\* happens.
THEOREM PreimagesKept ==
    ASSUME BootConstants
    PROVE  Boot!Spec => Boot!AttachKeepsPreimages
  <1>1. Boot!Init => Departed
    BY DEF BootConstants, Boot!Init, Departed
  <1>2. BootIInv /\ BootIInv' /\ Departed /\ [Boot!Next]_(Boot!vars) => Departed'
    BY NextSources, DepartedStays
  <1>3. ASSUME BootIInv, Departed, [Boot!Next]_(Boot!vars), NEW p \in Proc
        PROVE  /\ callPc'[p] = "rename" /\ callPc[p] # "rename" => op[p] \notin moved
               /\ callPc[p] = "rename" /\ callPc'[p] = "renamed" =>
                      /\ Exists(ClaimDoc) /\ owner.op = op[p]
                      /\ DetachedPreimages(op[p]) \/ op[p] \in moved
    <2>1. ASSUME callPc'[p] = "rename", callPc[p] # "rename", op[p] \in moved PROVE FALSE
      <3>1. op[p] \in Op /\ DetachedPreimages(op[p])
        BY <1>3, <2>1, LookFirst DEF BootIInv, Boot!TypeOK
      <3>2. owner \in Boot!Claim
        BY <1>3, <2>1 DEF Departed, BootIInv, Boot!TypeOK
      <3>3. QED  BY <1>3, <2>1, <3>1, <3>2, NoSecondLook
    <2>2. ASSUME callPc[p] = "rename"
          PROVE  /\ Exists(ClaimDoc) /\ owner.op = op[p]
                 /\ DetachedPreimages(op[p]) \/ op[p] \in moved
      BY <1>3, <2>2, HasClaim DEF AfterClaim, BootIInv, ArmedInv, Armed
    <2>3. QED  BY <2>1, <2>2
  <1>4. BootIInv /\ Departed /\ [Boot!Next]_(Boot!vars) =>
           [\A p \in Proc :
               /\ callPc'[p] = "rename" /\ callPc[p] # "rename" => op[p] \notin moved
               /\ callPc[p] = "rename" /\ callPc'[p] = "renamed" =>
                      /\ Boot!Exists(Boot!ClaimDoc) /\ owner.op = op[p]
                      /\ Boot!DetachedPreimages(op[p]) \/ op[p] \in moved]_(Boot!vars)
    BY <1>3
       DEF Exists, ClaimDoc, DetachedPreimages, BranchSettled, Detached, Witness,
           Boot!Exists, Boot!ClaimDoc, Boot!DetachedPreimages, Boot!BranchSettled, Boot!Detached,
           Boot!Witness
  <1>5. QED
    BY <1>1, <1>2, <1>4, BootInvariance, PTL DEF Boot!Spec, Boot!AttachKeepsPreimages
=============================================================================
