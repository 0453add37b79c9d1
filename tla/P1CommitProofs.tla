--------------------------- MODULE P1CommitProofs ---------------------------
(***************************************************************************)
(* Theorems about P1Commit, for any number of events, any commits a user   *)
(* may put on the ref, and any number of moves and of crashes.             *)
(***************************************************************************)
EXTENDS P1Commit, FiniteSetTheorems, TLAPS

-----------------------------------------------------------------------------
(* The invariant. *)

\* The command that runs is the one the odd marker is bound to.
Bound ==
    /\ pc = "idle" <=> cmd = None
    /\ cmd # None => odd = cmd

\* Nothing has been done for the event, ...
Clear(e) ==
    /\ place[e] = "none" /\ ab[e] = "none"
    /\ ~Accepted(e) /\ ~Abandoned(e)

\* ... and it is the only one of the cycle for which something has.
Alone(e) ==
    /\ ab[e] = "none" /\ ~Abandoned(e)
    /\ \A f \in Event \ {e} : Clear(f)

Installed(e) == place[e] = "canonical" /\ files[e] = {"intent", "bundle"}
Staged(e, fs) == place[e] = "staging" /\ files[e] = fs

\* A directory is sealed as an intent or as an abort.
OneSeal == \A e \in Event : ~({"intent", "abort"} \subseteq files[e])

Outcome ==
    /\ \A e \in Event : Accepted(e) => Alone(e) /\ Installed(e)
    /\ \A e \in receipts : Accepted(e)

CommitPCs ==
    {"stage", "createBundle", "fillBundle", "installBundle", "seal", "install", "restore",
     "publish", "append", "receipt", "recover", "reuse", "mark", "sealAbort", "installAbort",
     "openHandoff", "fillHandoff", "linkHandoff", "unlinkHandoff", "return"}
AbandonPCs ==
    {"cleanAbandon", "stageAbandon", "sealAbandon", "installAbandon", "checkRef", "complete",
     "abReceipt", "appendAbandon", "return"}

\* What a commit finds in its directory, wherever it is and however often it
\* has been started.
Directory(e) ==
    /\ pc = "stage" => place[e] = "none"
    /\ pc = "createBundle" => Staged(e, {})
    /\ pc = "fillBundle" => Staged(e, {"tornBundle"})
    /\ pc = "installBundle" => Staged(e, {"bundleTemp"})
    /\ pc = "seal" => Staged(e, {"bundle"})
    /\ pc = "install" => Staged(e, {"intent", "bundle"})
    /\ pc \in {"restore", "publish"} => place[e] = "staging" \/ Installed(e)
    /\ pc \in {"append", "openHandoff"} => Installed(e)
    /\ pc \in {"recover", "reuse", "mark", "sealAbort"} => Prepared(e)
    /\ pc \in {"reuse", "mark"} => "marker" \notin files[e]
    /\ pc = "sealAbort" => "marker" \in files[e]
    /\ pc = "installAbort" => place[e] = "staging" /\ "abort" \in files[e]
    /\ pc = "fillHandoff" => place[e] = "canonical" /\ files[e] = {"intent", "bundle", "tornHandoff"}
    /\ pc = "linkHandoff" => place[e] = "canonical" /\ files[e] = {"intent", "bundle", "handoffTemp"}
    /\ pc = "unlinkHandoff" =>
          place[e] = "canonical" /\ files[e] = {"intent", "bundle", "handoffTemp", "handoff"}

\* A commit runs alone in its cycle, and only what comes after the event is
\* done for one that is accepted.
Committing ==
    pc # "idle" /\ cmd.kind = "commit" =>
        /\ pc \in CommitPCs
        /\ Alone(E) /\ Directory(E)
        /\ Accepted(E) => pc \in {"restore", "publish", "receipt", "return"}
        /\ pc = "receipt" => Accepted(E)

\* How far an abandonment is, and what it may be based on.
Abandoning ==
    pc # "idle" /\ cmd.kind = "abandon" =>
        /\ pc \in AbandonPCs
        /\ place[E] = "canonical" /\ AbandonmentRequired(E) /\ ~Accepted(E)
        /\ pc \in {"checkRef", "complete", "abReceipt", "appendAbandon"} => ab[E] = "canonical"
        /\ pc \in {"cleanAbandon", "stageAbandon", "sealAbandon", "installAbandon"} =>
               ab[E] # "canonical"
        /\ pc \in {"abReceipt", "appendAbandon"} => E \in completions
        /\ pc = "appendAbandon" => E \in abReceipts

IInv == TypeOK /\ Loadable /\ OneSeal /\ Bound /\ Outcome /\ Committing /\ Abandoning

\* The invariant holds before any command.
LEMMA InitIInv == Init => IInv
  <1> SUFFICES ASSUME Init PROVE IInv
    OBVIOUS
  <1>1. pc \in PCs /\ dirty \in BOOLEAN /\ head \in BOOLEAN /\ object \in BOOLEAN
    BY DEF Init, PCs
  <1>2. TypeOK
    BY <1>1, P1Assumption DEF Init, TypeOK
  <1>3. Loadable
    BY DEF Init, Loadable, AbandonmentInventory, Abandoned
  <1>4. OneSeal /\ Bound /\ Outcome
    BY DEF Init, OneSeal, Bound, Outcome, Accepted
  <1>5. Committing /\ Abandoning
    BY DEF Init, Committing, Abandoning
  <1>6. QED  BY <1>2, <1>3, <1>4, <1>5 DEF IInv

-----------------------------------------------------------------------------
(* The inventory of a staging directory. *)

Carriers == {"tornBundle", "bundleTemp", "bundle"}
OneCarrier(fs) == \A f, g \in fs \cap Carriers : f = g

\* A directory has finitely many carriers of a bundle.
LEMMA FiniteCarriers == ASSUME NEW fs PROVE IsFiniteSet(fs \cap Carriers)
  <1>1. IsFiniteSet({"tornBundle"})
    BY FS_Singleton
  <1>2. IsFiniteSet({"tornBundle"} \cup {"bundleTemp"})
    BY <1>1, FS_AddElement
  <1>3. IsFiniteSet({"tornBundle"} \cup {"bundleTemp"} \cup {"bundle"})
    BY <1>2, FS_AddElement
  <1>4. Carriers = {"tornBundle"} \cup {"bundleTemp"} \cup {"bundle"}
    BY DEF Carriers
  <1>5. fs \cap Carriers \in SUBSET Carriers
    OBVIOUS
  <1>6. QED  BY <1>3, <1>4, <1>5, FS_Subset

\* One carrier at most, said without counting.
LEMMA CarrierCount ==
    ASSUME NEW fs
    PROVE  Cardinality(fs \cap Carriers) <= 1 <=> OneCarrier(fs)
  <1> DEFINE S == fs \cap Carriers
  <1>1. IsFiniteSet(S)
    BY FiniteCarriers
  <1>2. Cardinality(S) \in Nat
    BY <1>1, FS_CardinalityType
  <1>3. Cardinality(S) = 0 <=> S = {}
    BY <1>1, FS_EmptySet
  <1>4. Cardinality(S) = 1 <=> \E x : S = {x}
    BY <1>1, FS_Singleton
  <1>5. OneCarrier(fs) <=> (S = {} \/ \E x : S = {x})
    BY DEF OneCarrier
  <1>6. Cardinality(S) <= 1 <=> Cardinality(S) = 0 \/ Cardinality(S) = 1
    BY <1>2
  <1> HIDE DEF S
  <1>7. Cardinality(S) <= 1 <=> OneCarrier(fs)
    BY <1>3, <1>4, <1>5, <1>6
  <1>8. QED  BY <1>7 DEF S

\* What an event's directory may hold, by where it is.
StagingFiles(fs) ==
    /\ OneCarrier(fs)
    /\ fs \cap {"tornHandoff", "handoffTemp", "handoff"} = {}
    /\ "abort" \in fs => "marker" \in fs

AbortFiles(fs) ==
    /\ {"abort", "marker"} \subseteq fs
    /\ fs \subseteq {"abort", "marker", "bundle", "tornBundle", "bundleTemp"}

IntentFiles(fs) ==
    /\ {"intent", "bundle"} \subseteq fs
    /\ fs \subseteq {"intent", "bundle", "tornHandoff", "handoffTemp", "handoff"}
    /\ "tornHandoff" \in fs => {"handoff", "handoffTemp"} \cap fs = {}

InPlace(p, fs) ==
    /\ p = "none" => fs = {}
    /\ p = "staging" => StagingFiles(fs)
    /\ p = "canonical" => AbortFiles(fs) \/ IntentFiles(fs)

Inventories ==
    \A e \in Event : InPlace(place[e], files[e]) /\ AbandonmentInventory(e)

\* What can be loaded, said by the inventories of the directories ...
LEMMA LoadableIs == TypeOK => (Loadable <=> Inventories)
  <1> SUFFICES ASSUME TypeOK PROVE Loadable <=> Inventories
    OBVIOUS
  <1>1. SUFFICES ASSUME NEW e \in Event
                 PROVE  (CASE place[e] = "none"      -> files[e] = {}
                           [] place[e] = "staging"   -> StagingInventory(e)
                           [] place[e] = "canonical" -> AbortInventory(e) \/ IntentInventory(e))
                        <=> InPlace(place[e], files[e])
    BY DEF Loadable, Inventories
  <1>2. place[e] \in {"none", "staging", "canonical"}
    BY DEF TypeOK
  <1>3. StagingInventory(e) <=> StagingFiles(files[e])
    BY CarrierCount DEF StagingInventory, StagingFiles, Carriers
  <1>4. (AbortInventory(e) <=> AbortFiles(files[e])) /\ (IntentInventory(e) <=> IntentFiles(files[e]))
    BY DEF AbortInventory, IntentInventory, AbortFiles, IntentFiles
  <1>5. QED  BY <1>2, <1>3, <1>4 DEF InPlace
-----------------------------------------------------------------------------
(* Types. *)

\* ... and so after a step.
LEMMA LoadableThen == TypeOK' => (Loadable' <=> Inventories')
  BY LoadableIs, PTL

\* A command that is under way has a name.
LEMMA CmdType ==
    ASSUME TypeOK, Bound, pc # "idle"
    PROVE  /\ cmd \in Command /\ odd = cmd /\ E \in Event
           /\ cmd.kind = "commit" => cmd = CommitOf(E)
           /\ cmd.kind = "abandon" => cmd = AbandonOf(E)
           /\ cmd.kind \in {"commit", "abandon"}
  BY DEF TypeOK, Bound, Command, E, CommitOf, AbandonOf

\* The groups of steps: those that leave everything to another command, those
\* of users, those that only move on, those that work in the directory of a
\* commit, and those of an abandonment.
Stopping ==
    \/ HeadDrift \/ PublishFails \/ CarrierGone \/ ConflictIsGone \/ Return \/ Crash \/ Fails
    \/ CheckRef /\ Throw
Users == MoveRef \/ MoveHead \/ Collect
Going ==
    \/ RestoreObject \/ PublishRef \/ RefConflict \/ Recover
    \/ CheckRef /\ Goto("complete") /\ UNCHANGED <<root, repo, dirty, moves, faults>>
Filing ==
    \/ MakeStaging \/ CreateBundle \/ FillBundle \/ InstallBundle \/ SealIntent \/ InstallIntent
    \/ Reuse \/ CleanStaging \/ MarkUnavailable \/ SealAbort \/ InstallAbort
    \/ OpenHandoff \/ FillHandoff \/ LinkHandoff \/ UnlinkHandoff
AbandonMoves == CleanAbandon \/ StageAbandon \/ SealAbandon \/ InstallAbandon

\* Every step is of one of these groups.
LEMMA NextIs ==
    Next => \/ \E c \in Command : Start(c)
            \/ Stopping \/ Users \/ Going \/ Filing \/ AbandonMoves
            \/ AppendCommit \/ WriteReceipt \/ CompleteAbandon \/ WriteAbReceipt \/ AppendAbandon
  BY DEF Next, Step, CommitStep, RecoverStep, HandoffStep, AbandonStep, CheckRef,
      Stopping, Users, Going, Filing, AbandonMoves

\* A group of them, as steps.
LEMMA FilingIsNext == Filing => Next
  BY DEF Filing, Next, Step, CommitStep, RecoverStep, HandoffStep

\* What a command leaves alone when it ends or dies.
LEMMA StopFrame ==
    ASSUME TypeOK, Bound, Stopping
    PROVE  /\ UNCHANGED <<root, repo, moves>> /\ Rest
           /\ odd' \in Command \cup {None} /\ faults' \in 0..MaxFaults
  <1>1. UNCHANGED <<root, repo, moves>> /\ Rest
    BY DEF Stopping, HeadDrift, PublishFails, CarrierGone, ConflictIsGone, Return, Crash, Fails,
        Throw, Fault
  <1>2. odd' \in Command \cup {None}
    BY DEF Stopping, HeadDrift, PublishFails, CarrierGone, ConflictIsGone, Return, Crash, Fails,
        Throw, TypeOK
  <1>3. faults' \in 0..MaxFaults
    BY P1Assumption DEF Stopping, HeadDrift, PublishFails, CarrierGone, ConflictIsGone, Return,
        Crash, Fails, Throw, Fault, TypeOK
  <1>4. QED  BY <1>1, <1>2, <1>3

\* What git's users leave alone.
LEMMA UsersFrame ==
    ASSUME TypeOK, Users
    PROVE  /\ UNCHANGED <<root, run, faults>> /\ moves' = moves + 1 /\ moves' \in 0..MaxMoves
           /\ ref' \in Foreign \cup {Commit, Null} /\ head' \in BOOLEAN /\ object' \in BOOLEAN
  <1>1. UNCHANGED <<root, run, faults>> /\ moves' = moves + 1 /\ moves' \in 0..MaxMoves
    BY P1Assumption DEF Users, MoveRef, MoveHead, Collect, User, TypeOK
  <1>2. ref' \in Foreign \cup {Commit, Null}
    BY DEF Users, MoveRef, MoveHead, Collect, TypeOK
  <1>3. head' \in BOOLEAN
    BY DEF Users, MoveRef, MoveHead, Collect, TypeOK
  <1>4. object' \in BOOLEAN
    BY DEF Users, MoveRef, MoveHead, Collect, TypeOK
  <1>5. QED  BY <1>1, <1>2, <1>3, <1>4

\* What a command leaves alone that only goes on.
LEMMA GoingFrame ==
    ASSUME TypeOK, Going
    PROVE  /\ UNCHANGED <<root, odd, cmd, dirty, head, moves, faults>>
           /\ pc' \in PCs \ {"idle"} /\ pc # "idle"
           /\ ref' \in {ref, Commit} /\ object' \in BOOLEAN
  <1>1. UNCHANGED <<root, odd, cmd, dirty, head, moves, faults>>
    BY DEF Going, RestoreObject, PublishRef, RefConflict, Recover, Goto, repo
  <1>2. pc' \in PCs \ {"idle"} /\ pc # "idle"
    BY DEF Going, RestoreObject, PublishRef, RefConflict, Recover, CheckRef, Goto, AfterPublish, PCs
  <1>3. ref' \in {ref, Commit}
    BY DEF Going, RestoreObject, PublishRef, RefConflict, Recover, repo
  <1>4. object' \in BOOLEAN
    BY DEF Going, RestoreObject, PublishRef, RefConflict, Recover, repo, TypeOK
  <1>5. QED  BY <1>1, <1>2, <1>3, <1>4

\* What a step in an event's directory leaves alone.
LEMMA FilingFrame ==
    ASSUME TypeOK, Bound, Filing
    PROVE  /\ UNCHANGED <<ab, completions, abReceipts, receipts, ledger, odd, cmd, repo, moves, faults>>
           /\ dirty' = TRUE /\ pc' \in PCs \ {"idle"} /\ pc # "idle"
           /\ \A f \in Event \ {E} : place'[f] = place[f] /\ files'[f] = files[f]
           /\ place' \in [Event -> {"none", "staging", "canonical"}]
           /\ files' \in [Event -> SUBSET File]
           /\ observed' \in [Event -> Foreign \cup {None}]
  <1>1. UNCHANGED <<ab, completions, abReceipts, receipts, ledger, odd, cmd, repo, moves, faults>>
    BY DEF Filing, MakeStaging, CreateBundle, FillBundle, InstallBundle, SealIntent, InstallIntent,
        Reuse, CleanStaging, MarkUnavailable, SealAbort, InstallAbort, OpenHandoff, FillHandoff,
        LinkHandoff, UnlinkHandoff, Write, Goto, Move, InDirectory
  <1>2. dirty' = TRUE /\ pc' \in PCs \ {"idle"} /\ pc # "idle"
    BY DEF Filing, MakeStaging, CreateBundle, FillBundle, InstallBundle, SealIntent, InstallIntent,
        Reuse, CleanStaging, MarkUnavailable, SealAbort, InstallAbort, OpenHandoff, FillHandoff,
        LinkHandoff, UnlinkHandoff, Write, Goto, PCs
  <1>3. E \in Event
    BY <1>2, CmdType
  <1>4. /\ \A f \in Event \ {E} : place'[f] = place[f]
        /\ place' \in [Event -> {"none", "staging", "canonical"}]
    <2> USE DEF Filing, MakeStaging, CreateBundle, FillBundle, InstallBundle, SealIntent,
        InstallIntent, Reuse, CleanStaging, MarkUnavailable, SealAbort, InstallAbort, OpenHandoff,
        FillHandoff, LinkHandoff, UnlinkHandoff, Move, InDirectory
    <2>1. \/ place' = place
          \/ \E p \in {"none", "staging", "canonical"} : place' = [place EXCEPT ![E] = p]
      OBVIOUS
    <2>2. QED  BY <2>1, <1>3 DEF TypeOK
  <1>5. /\ \A f \in Event \ {E} : files'[f] = files[f]
        /\ files' \in [Event -> SUBSET File]
    <2>1. files' = files \/ \E fs \in SUBSET File : files' = [files EXCEPT ![E] = fs]
      BY <1>3 DEF Filing, MakeStaging, CreateBundle, FillBundle, InstallBundle, SealIntent,
          InstallIntent, Reuse, CleanStaging, MarkUnavailable, SealAbort, InstallAbort, OpenHandoff,
          FillHandoff, LinkHandoff, UnlinkHandoff, Move, InDirectory, Add, Swap, File, TypeOK
    <2>2. QED  BY <2>1, <1>3 DEF TypeOK
  <1>6. observed' \in [Event -> Foreign \cup {None}]
    BY <1>3 DEF Filing, MakeStaging, CreateBundle, FillBundle, InstallBundle, SealIntent,
        InstallIntent, Reuse, CleanStaging, MarkUnavailable, SealAbort, InstallAbort, OpenHandoff,
        FillHandoff, LinkHandoff, UnlinkHandoff, Move, InDirectory, TypeOK
  <1>7. QED  BY <1>1, <1>2, <1>4, <1>5, <1>6

\* What a step in an abandonment's directory leaves alone.
LEMMA AbandonFrame ==
    ASSUME TypeOK, Bound, AbandonMoves
    PROVE  /\ UNCHANGED <<place, files, observed, completions, abReceipts, receipts, ledger,
                          odd, cmd, repo, moves, faults>>
           /\ dirty' = TRUE /\ pc' \in PCs \ {"idle"} /\ pc # "idle"
           /\ \A f \in Event \ {E} : ab'[f] = ab[f]
           /\ ab' \in [Event -> {"none", "staging", "sealed", "canonical"}]
  <1>1. /\ UNCHANGED <<place, files, observed, completions, abReceipts, receipts, ledger,
                       odd, cmd, repo, moves, faults>>
        /\ dirty' = TRUE /\ pc' \in PCs \ {"idle"} /\ pc # "idle"
    BY DEF AbandonMoves, CleanAbandon, StageAbandon, SealAbandon, InstallAbandon, AbandonTo, Write,
        Goto, PCs
  <1>2. \E a \in {"none", "staging", "sealed", "canonical"} : ab' = [ab EXCEPT ![E] = a]
    BY DEF AbandonMoves, CleanAbandon, StageAbandon, SealAbandon, InstallAbandon, AbandonTo
  <1>3. E \in Event
    BY <1>1, CmdType
  <1>4. QED  BY <1>1, <1>2, <1>3 DEF TypeOK

\* The five steps that write outside of a directory.
Closing == AppendCommit \/ WriteReceipt \/ CompleteAbandon \/ WriteAbReceipt \/ AppendAbandon

\* What the records at the end of a command leave alone.
LEMMA ClosingFrame ==
    ASSUME TypeOK, Bound, Closing
    PROVE  /\ UNCHANGED <<place, files, observed, ab, odd, cmd, repo, moves, faults>>
           /\ dirty' = TRUE /\ pc' \in PCs \ {"idle"} /\ pc # "idle"
           /\ completions' \subseteq Event /\ abReceipts' \subseteq Event
           /\ receipts' \subseteq Event /\ ledger' \subseteq Command
  <1>1. /\ UNCHANGED <<place, files, observed, ab, odd, cmd, repo, moves, faults>>
        /\ dirty' = TRUE /\ pc' \in PCs \ {"idle"} /\ pc # "idle"
    BY DEF Closing, AppendCommit, WriteReceipt, CompleteAbandon, WriteAbReceipt, AppendAbandon,
        Write, Goto, PCs
  <1>2. cmd \in Command /\ E \in Event
    BY <1>1, CmdType
  <1>3. QED
    BY <1>1, <1>2 DEF Closing, AppendCommit, WriteReceipt, CompleteAbandon, WriteAbReceipt,
        AppendAbandon, TypeOK

\* How a command starts, and where it resumes.
LEMMA StartFrame ==
    ASSUME TypeOK, NEW c \in Command, Start(c)
    PROVE  /\ UNCHANGED <<root, repo, moves, faults>> /\ MayStart(c)
           /\ odd' = c /\ cmd' = c /\ pc = "idle" /\ pc' \in PCs \ {"idle"} /\ dirty' \in BOOLEAN
           /\ \E e \in Event :
                 \/ c = CommitOf(e) /\ pc' = Resume(e) /\ (Accepted(e) \/ CycleOpen(e))
                 \/ /\ c = AbandonOf(e) /\ pc' = ResumeAbandon(e)
                    /\ place[e] = "canonical" /\ AbandonmentRequired(e) /\ ~Accepted(e)
  <1>1. PICK e \in Event : \/ c = CommitOf(e) /\ StartCommit(e)
                           \/ c = AbandonOf(e) /\ StartAbandon(e)
    BY DEF Start
  <1>2. \E where : Begin(c, where)
    BY <1>1 DEF StartCommit, StartAbandon
  <1>3. /\ UNCHANGED <<root, repo, moves, faults>> /\ MayStart(c)
        /\ odd' = c /\ cmd' = c /\ pc = "idle" /\ dirty' \in BOOLEAN
    BY <1>2 DEF Begin, MayStart
  <1>4. \/ c = CommitOf(e) /\ pc' = Resume(e) /\ (Accepted(e) \/ CycleOpen(e))
        \/ /\ c = AbandonOf(e) /\ pc' = ResumeAbandon(e)
           /\ place[e] = "canonical" /\ AbandonmentRequired(e) /\ ~Accepted(e)
    BY <1>1 DEF StartCommit, StartAbandon, Begin
  <1>5. Resume(e) \in PCs \ {"idle"}
    BY DEF Resume, PCs
  <1>6. ResumeAbandon(e) \in PCs \ {"idle"}
    BY DEF ResumeAbandon, PCs, TypeOK
  <1>7. QED  BY <1>3, <1>4, <1>5, <1>6

\* Every step keeps the types.
LEMMA TypeStep ==
    ASSUME TypeOK, Bound, Next
    PROVE  TypeOK'
  <1>1. ASSUME NEW c \in Command, Start(c) PROVE TypeOK'
    BY <1>1, StartFrame DEF TypeOK, root, repo
  <1>2. CASE Stopping
    <2>1. pc' \in PCs /\ cmd' \in Command \cup {None} /\ dirty' \in BOOLEAN
      BY <1>2, StopFrame DEF Rest, PCs
    <2>2. QED  BY <1>2, <2>1, StopFrame DEF TypeOK, root, repo
  <1>3. CASE Users
    BY <1>3, UsersFrame DEF TypeOK, root, run
  <1>4. CASE Going
    BY <1>4, GoingFrame DEF TypeOK, root
  <1>5. CASE Filing
    BY <1>5, FilingFrame DEF TypeOK, repo
  <1>6. CASE AbandonMoves
    BY <1>6, AbandonFrame DEF TypeOK, repo
  <1>7. CASE Closing
    BY <1>7, ClosingFrame DEF TypeOK, repo
  <1>8. QED  BY <1>1, <1>2, <1>3, <1>4, <1>5, <1>6, <1>7, NextIs DEF Closing

-----------------------------------------------------------------------------
(* What a step that leaves the root alone keeps. *)

RootInv == Loadable /\ OneSeal /\ Outcome

\* What is said of the directories and records stays when they do.
LEMMA RootKept ==
    ASSUME RootInv, UNCHANGED root
    PROVE  RootInv'
  BY DEF RootInv, root, Loadable, OneSeal, Outcome, StagingInventory, AbortInventory,
      IntentInventory, AbandonmentInventory, AbandonmentRequired, HandedOff, Accepted, Abandoned,
      Alone, Clear, Installed

\* Of a command that has stopped nothing is claimed.
LEMMA StoppedKept ==
    ASSUME Rest
    PROVE  Bound' /\ Committing' /\ Abandoning'
  BY DEF Rest, Bound, Committing, Abandoning

\* Users touch neither the root nor the command.
LEMMA UsersKeep ==
    ASSUME Bound, Committing, Abandoning, UNCHANGED <<root, run>>
    PROVE  Bound' /\ Committing' /\ Abandoning'
  BY DEF root, run, Bound, Committing, Abandoning, Alone, Clear, Accepted, Abandoned, Directory,
      Staged, Installed, Prepared, E, AbandonmentRequired, HandedOff

\* A step that moves on keeps what the command knows of the event but where it is.
LEMMA MovesOn ==
    ASSUME Bound, Committing, Abandoning, UNCHANGED <<root, odd, cmd>>,
           pc # "idle", pc' # "idle",
           cmd.kind = "commit" =>
              /\ pc' \in CommitPCs /\ Directory(E)'
              /\ Accepted(E) => pc' \in {"restore", "publish", "receipt", "return"}
              /\ pc' = "receipt" => Accepted(E),
           cmd.kind = "abandon" => pc' = "complete" /\ ab[E] = "canonical"
    PROVE  Bound' /\ Committing' /\ Abandoning'
  <1>1. Bound'
    BY DEF Bound
  <1>2. cmd.kind = "commit" => Alone(E)'
    BY DEF Committing, root, Alone, Clear, Accepted, Abandoned, E
  <1>3. Committing'
    BY <1>2 DEF Committing, root, Accepted, E
  <1>4. Abandoning'
    BY DEF Abandoning, AbandonPCs, root, Accepted, E, AbandonmentRequired, HandedOff
  <1>5. QED  BY <1>1, <1>3, <1>4

-----------------------------------------------------------------------------
(* How a command starts. *)

\* A commit that may start is alone in its cycle.
LEMMA StartsAlone ==
    ASSUME TypeOK, Loadable, Outcome, NEW e \in Event, Accepted(e) \/ CycleOpen(e)
    PROVE  Alone(e)
  <1>1. CASE Accepted(e)
    BY <1>1 DEF Outcome
  <1>2. CASE CycleOpen(e)
    <2>1. ASSUME NEW f \in Event PROVE ab[f] = "none" /\ ~Abandoned(f)
      BY <1>2 DEF CycleOpen, CycleClosed, AbandonPending
    <2>2. ASSUME NEW f \in Event \ {e} PROVE place[f] = "none" /\ ~Accepted(f)
      BY <1>2, <2>1 DEF CycleOpen, CommitPending, Settled
    <2>3. QED  BY <2>1, <2>2 DEF Alone, Clear
  <1>3. QED  BY <1>1, <1>2

\* Where a commit goes on fits what is in its directory.
LEMMA ResumeFits ==
    ASSUME TypeOK, Loadable, OneSeal, Outcome, NEW e \in Event
    PROVE  /\ Resume(e) \in CommitPCs
           /\ Accepted(e) => Resume(e) = "restore"
           /\ Resume(e) \in {"stage", "recover", "restore", "installAbort", "fillHandoff",
                             "unlinkHandoff", "linkHandoff", "return"}
           /\ Resume(e) = "stage" => place[e] = "none"
           /\ Resume(e) = "restore" => place[e] = "staging" \/ Installed(e)
           /\ Resume(e) = "recover" => Prepared(e)
           /\ Resume(e) = "installAbort" => place[e] = "staging" /\ "abort" \in files[e]
           /\ Resume(e) = "fillHandoff" =>
                  place[e] = "canonical" /\ files[e] = {"intent", "bundle", "tornHandoff"}
           /\ Resume(e) = "linkHandoff" =>
                  place[e] = "canonical" /\ files[e] = {"intent", "bundle", "handoffTemp"}
           /\ Resume(e) = "unlinkHandoff" =>
                  /\ place[e] = "canonical"
                  /\ files[e] = {"intent", "bundle", "handoffTemp", "handoff"}
  <1>1. InPlace(place[e], files[e]) /\ place[e] \in {"none", "staging", "canonical"}
    BY LoadableIs DEF TypeOK, Inventories
  <1>2. Accepted(e) => Resume(e) = "restore" /\ Installed(e)
    BY DEF Resume, Outcome
  <1>3. CASE Accepted(e)
    BY <1>2, <1>3 DEF CommitPCs
  <1>4. CASE ~Accepted(e) /\ "abort" \in files[e]
    BY <1>4 DEF Resume, CommitPCs
  <1> DEFINE Canonical(fs) == place[e] = "canonical" /\ files[e] = {"intent", "bundle"} \cup fs
  <1>5. CASE ~Accepted(e) /\ "abort" \notin files[e] /\ "tornHandoff" \in files[e]
    <2>1. Canonical({"tornHandoff"})
      BY <1>1, <1>5 DEF InPlace, StagingFiles, AbortFiles, IntentFiles
    <2>2. Resume(e) = "fillHandoff"
      BY <1>5 DEF Resume
    <2>3. QED  BY <2>1, <2>2, <1>5 DEF CommitPCs
  <1>6. CASE /\ ~Accepted(e) /\ "abort" \notin files[e] /\ "tornHandoff" \notin files[e]
             /\ "handoffTemp" \in files[e] /\ "handoff" \in files[e]
    <2>1. Canonical({"handoffTemp", "handoff"})
      BY <1>1, <1>6 DEF InPlace, StagingFiles, AbortFiles, IntentFiles
    <2>2. Resume(e) = "unlinkHandoff"
      BY <1>6 DEF Resume
    <2>3. QED  BY <2>1, <2>2, <1>6 DEF CommitPCs
  <1>7. CASE /\ ~Accepted(e) /\ "abort" \notin files[e] /\ "tornHandoff" \notin files[e]
             /\ "handoffTemp" \in files[e] /\ "handoff" \notin files[e]
    <2>1. Canonical({"handoffTemp"})
      BY <1>1, <1>7 DEF InPlace, StagingFiles, AbortFiles, IntentFiles
    <2>2. Resume(e) = "linkHandoff"
      BY <1>7 DEF Resume
    <2>3. QED  BY <2>1, <2>2, <1>7 DEF CommitPCs
  <1>8. CASE /\ ~Accepted(e) /\ "abort" \notin files[e] /\ "tornHandoff" \notin files[e]
             /\ "handoffTemp" \notin files[e] /\ "handoff" \in files[e]
    BY <1>8 DEF Resume, CommitPCs
  <1>9. CASE /\ ~Accepted(e) /\ files[e] \cap {"abort", "tornHandoff", "handoffTemp", "handoff"} = {}
             /\ "intent" \in files[e]
    <2>1. place[e] = "staging" \/ Installed(e)
      BY <1>1, <1>9 DEF InPlace, AbortFiles, IntentFiles, Installed
    <2>2. Resume(e) = "restore"
      BY <1>9 DEF Resume
    <2>3. QED  BY <2>1, <2>2, <1>9 DEF CommitPCs
  <1>10. CASE /\ ~Accepted(e) /\ files[e] \cap {"abort", "tornHandoff", "handoffTemp", "handoff"} = {}
              /\ "intent" \notin files[e]
    <2>1. place[e] # "canonical"
      BY <1>1, <1>10 DEF InPlace, AbortFiles, IntentFiles
    <2>2. CASE Prepared(e)
      BY <1>10, <2>2 DEF Resume, CommitPCs
    <2>3. CASE ~Prepared(e)
      <3>1. place[e] = "none"
        BY <1>1, <1>10, <2>1, <2>3 DEF Prepared
      <3>2. Resume(e) = "stage"
        BY <1>10, <2>3 DEF Resume
      <3>3. QED  BY <1>10, <3>1, <3>2 DEF CommitPCs
    <2>4. QED  BY <2>2, <2>3
  <1>11. QED  BY <1>3, <1>4, <1>5, <1>6, <1>7, <1>8, <1>9, <1>10

\* A command starts, or resumes where its directory says, within the invariant.
LEMMA StartKeeps ==
    ASSUME TypeOK, RootInv, Bound, NEW c \in Command, Start(c)
    PROVE  RootInv' /\ Bound' /\ Committing' /\ Abandoning'
  <1>1. /\ UNCHANGED root /\ odd' = c /\ cmd' = c /\ pc' # "idle"
    BY StartFrame
  <1>2. RootInv'
    BY <1>1, RootKept
  <1>3. Bound'
    BY <1>1, NoneAssumption DEF Bound
  <1>4. PICK e \in Event :
            \/ c = CommitOf(e) /\ pc' = Resume(e) /\ (Accepted(e) \/ CycleOpen(e))
            \/ /\ c = AbandonOf(e) /\ pc' = ResumeAbandon(e)
               /\ place[e] = "canonical" /\ AbandonmentRequired(e) /\ ~Accepted(e)
    BY StartFrame
  <1>5. CASE c = CommitOf(e) /\ pc' = Resume(e) /\ (Accepted(e) \/ CycleOpen(e))
    <2>1. E' = e /\ cmd'.kind = "commit"
      BY <1>1, <1>5 DEF E, CommitOf
    <2>2. Alone(e)
      BY <1>5, StartsAlone DEF RootInv
    <2>3. Alone(e)'
      BY <1>1, <2>2 DEF root, Alone, Clear, Accepted, Abandoned
    <2>4. Directory(e)'
      BY <1>1, <1>5, ResumeFits DEF RootInv, root, Directory, Staged, Installed, Prepared
    <2>5. /\ pc' \in CommitPCs /\ pc' # "receipt"
          /\ Accepted(e)' => pc' \in {"restore", "publish", "receipt", "return"}
      BY <1>1, <1>5, ResumeFits DEF RootInv, root, Accepted
    <2>6. Committing'
      BY <2>1, <2>3, <2>4, <2>5 DEF Committing
    <2>7. Abandoning'
      BY <2>1 DEF Abandoning
    <2>8. QED  BY <1>2, <1>3, <2>6, <2>7
  <1>6. CASE /\ c = AbandonOf(e) /\ pc' = ResumeAbandon(e)
             /\ place[e] = "canonical" /\ AbandonmentRequired(e) /\ ~Accepted(e)
    <2>1. E' = e /\ cmd'.kind = "abandon"
      BY <1>1, <1>6 DEF E, AbandonOf
    <2>2. /\ pc' \in {"stageAbandon", "cleanAbandon", "installAbandon", "checkRef"}
          /\ pc' = "checkRef" <=> ab[e] = "canonical"
      BY <1>6 DEF ResumeAbandon, TypeOK
    <2>3. Committing'
      BY <2>1 DEF Committing
    <2>4. /\ ab'[e] = ab[e] /\ place'[e] = "canonical" /\ AbandonmentRequired(e)'
          /\ ~Accepted(e)'
      BY <1>1, <1>6 DEF root, AbandonmentRequired, HandedOff, Accepted
    <2>5. Abandoning'
      BY <2>1, <2>2, <2>4 DEF Abandoning, AbandonPCs
    <2>6. QED  BY <1>2, <1>3, <2>3, <2>5
  <1>7. QED  BY <1>4, <1>5, <1>6

-----------------------------------------------------------------------------
(* The steps of a command. *)

\* Where a command is tells which one it is.
LEMMA KindOf ==
    ASSUME TypeOK, Bound, Committing, Abandoning, pc # "idle"
    PROVE  /\ pc \notin AbandonPCs => cmd.kind = "commit"
           /\ pc \notin CommitPCs => cmd.kind = "abandon"
  BY CmdType DEF Committing, Abandoning

\* A command that goes on keeps the invariant.
LEMMA GoingKeeps ==
    ASSUME TypeOK, RootInv, Bound, Committing, Abandoning, Going
    PROVE  RootInv' /\ Bound' /\ Committing' /\ Abandoning'
  <1>1. /\ UNCHANGED <<root, odd, cmd>> /\ pc # "idle" /\ pc' # "idle"
    BY GoingFrame
  <1>2. RootInv'
    BY <1>1, RootKept
  <1> DEFINE Fits == /\ pc' \in CommitPCs /\ Directory(E)'
                     /\ Accepted(E) => pc' \in {"restore", "publish", "receipt", "return"}
                     /\ pc' = "receipt" => Accepted(E)
  <1>3. CASE RestoreObject
    <2>1. pc = "restore" /\ pc' = "publish"
      BY <1>3 DEF RestoreObject, Goto
    <2>2. cmd.kind = "commit"
      BY <1>1, <2>1, KindOf DEF AbandonPCs
    <2>3. Fits
      BY <1>1, <2>1, <2>2 DEF Committing, Directory, CommitPCs, root, Installed, E, Accepted
    <2>4. QED  BY <1>1, <1>2, <2>2, <2>3, MovesOn
  <1>4. CASE PublishRef
    <2>1. /\ pc = "publish" /\ place[E] = "canonical"
          /\ pc' = IF Accepted(E) THEN "receipt" ELSE "append"
      BY <1>4 DEF PublishRef, Goto, AfterPublish
    <2>2. cmd.kind = "commit"
      BY <1>1, <2>1, KindOf DEF AbandonPCs
    <2>3. Installed(E)
      BY <1>1, <2>1, <2>2 DEF Committing, Directory
    <2>4. Fits
      BY <1>1, <2>1, <2>2, <2>3 DEF Directory, CommitPCs, root, Installed, E, Accepted
    <2>5. QED  BY <1>1, <1>2, <2>2, <2>4, MovesOn
  <1>5. CASE RefConflict
    <2>1. pc = "publish" /\ place[E] = "canonical" /\ ~Accepted(E) /\ pc' = "openHandoff"
      BY <1>5 DEF RefConflict, Goto
    <2>2. cmd.kind = "commit"
      BY <1>1, <2>1, KindOf DEF AbandonPCs
    <2>3. Installed(E)
      BY <1>1, <2>1, <2>2 DEF Committing, Directory
    <2>4. Fits
      BY <1>1, <2>1, <2>2, <2>3 DEF Directory, CommitPCs, root, Installed, E, Accepted
    <2>5. QED  BY <1>1, <1>2, <2>2, <2>4, MovesOn
  <1>6. CASE Recover
    <2>1. /\ pc = "recover" /\ pc' \in {"reuse", "sealAbort", "mark"}
          /\ pc' = "sealAbort" <=> "marker" \in files[E]
      BY <1>6 DEF Recover, Goto, Marked
    <2>2. cmd.kind = "commit"
      BY <1>1, <2>1, KindOf DEF AbandonPCs
    <2>3. Prepared(E) /\ ~Accepted(E)
      BY <1>1, <2>1, <2>2 DEF Committing, Directory
    <2>4. Fits
      BY <1>1, <2>1, <2>2, <2>3 DEF Directory, CommitPCs, root, Prepared, E, Accepted
    <2>5. QED  BY <1>1, <1>2, <2>2, <2>4, MovesOn
  <1>7. CASE CheckRef /\ Goto("complete")
    <2>1. pc = "checkRef" /\ pc' = "complete"
      BY <1>7 DEF CheckRef, Goto
    <2>2. cmd.kind = "abandon"
      BY <1>1, <2>1, KindOf DEF CommitPCs
    <2>3. ab[E] = "canonical"
      BY <1>1, <2>1, <2>2 DEF Abandoning
    <2>4. cmd.kind # "commit"
      BY <2>2
    <2>5. QED  BY <1>1, <1>2, <2>1, <2>3, <2>4, MovesOn
  <1>8. QED  BY <1>3, <1>4, <1>5, <1>6, <1>7 DEF Going

\* A commit that is not accepted yet may change its own directory.
LEMMA DirectoryStep ==
    ASSUME TypeOK, TypeOK', RootInv, NEW e \in Event, Alone(e), ~Accepted(e),
           UNCHANGED <<ab, completions, abReceipts, receipts, ledger>>,
           \A f \in Event \ {e} : place'[f] = place[f] /\ files'[f] = files[f],
           InPlace(place'[e], files'[e]), ~({"intent", "abort"} \subseteq files'[e])
    PROVE  RootInv' /\ Alone(e)'
  <1>1. ASSUME NEW f \in Event PROVE AbandonmentInventory(f)'
    <2>1. AbandonmentInventory(f)
      BY LoadableIs DEF RootInv, Inventories
    <2>2. CASE f = e
      BY <2>1, <2>2 DEF AbandonmentInventory, Alone, Abandoned
    <2>3. CASE f # e
      BY <2>1, <2>3 DEF AbandonmentInventory, AbandonmentRequired, HandedOff, Accepted, Abandoned
    <2>4. QED  BY <2>2, <2>3
  <1>2. ASSUME NEW f \in Event PROVE InPlace(place'[f], files'[f])
    BY LoadableIs DEF RootInv, Inventories
  <1>3. Loadable'
    BY <1>1, <1>2, LoadableThen DEF Inventories
  <1>4. OneSeal'
    BY DEF RootInv, OneSeal
  <1>5. Alone(e)'
    BY DEF Alone, Clear, Accepted, Abandoned
  <1>6. \A f \in Event : ~Accepted(f)
    BY DEF Alone, Clear
  <1>7. Outcome'
    BY <1>6 DEF RootInv, Outcome, Accepted
  <1>8. QED  BY <1>3, <1>4, <1>5, <1>7 DEF RootInv

\* A step in an event's directory leaves one of the inventories, and goes where it is expected.
LEMMA FilingFits ==
    ASSUME TypeOK, RootInv, Bound, Committing, Abandoning, Filing,
           NEW e \in Event, e = E, cmd.kind = "commit"
    PROVE  /\ InPlace(place'[e], files'[e]) /\ ~({"intent", "abort"} \subseteq files'[e])
           /\ pc' \in CommitPCs \ {"receipt"} /\ Directory(e)'
           /\ ~Accepted(e)
  <1> DEFINE To(x, p, fs) == pc' = x /\ place'[e] = p /\ files'[e] = fs
             Fits == /\ InPlace(place'[e], files'[e]) /\ ~({"intent", "abort"} \subseteq files'[e])
                     /\ pc' \in CommitPCs \ {"receipt"} /\ Directory(e)'
                     /\ ~Accepted(e)
  <1>0. /\ place \in [Event -> {"none", "staging", "canonical"}] /\ files \in [Event -> SUBSET File]
        /\ InPlace(place[e], files[e]) /\ pc # "idle" /\ Directory(e)
        /\ Accepted(e) => pc \in {"restore", "publish", "receipt", "return"}
    BY FilingFrame, LoadableIs DEF Inventories, TypeOK, RootInv, Committing
  <1>1. CASE MakeStaging
    <2>1. pc = "stage" /\ files[e] = {}
      BY <1>0, <1>1 DEF MakeStaging, Directory, InPlace
    <2>2. To("createBundle", "staging", {})
      BY <1>0, <1>1, <2>1 DEF MakeStaging, Move, Write, Goto
    <2>3. QED  BY <1>0, <2>1, <2>2 DEF InPlace, StagingFiles, OneCarrier, CommitPCs, Directory, Staged
  <1>2. CASE CreateBundle
    <2>1. pc = "createBundle" /\ Staged(e, {})
      BY <1>0, <1>2 DEF CreateBundle, Directory
    <2>2. To("fillBundle", "staging", {"tornBundle"})
      BY <1>0, <1>2, <2>1 DEF CreateBundle, Add, InDirectory, Write, Goto, Staged
    <2>3. QED  BY <1>0, <2>1, <2>2 DEF InPlace, StagingFiles, OneCarrier, CommitPCs, Directory, Staged
  <1>3. CASE FillBundle
    <2>1. pc = "fillBundle" /\ Staged(e, {"tornBundle"})
      BY <1>0, <1>3 DEF FillBundle, Directory
    <2>2. To("installBundle", "staging", {"bundleTemp"})
      BY <1>0, <1>3, <2>1 DEF FillBundle, Swap, InDirectory, Write, Goto, Staged
    <2>3. QED  BY <1>0, <2>1, <2>2 DEF InPlace, StagingFiles, OneCarrier, CommitPCs, Directory, Staged
  <1>4. CASE InstallBundle
    <2>1. pc = "installBundle" /\ Staged(e, {"bundleTemp"})
      BY <1>0, <1>4 DEF InstallBundle, Directory
    <2>2. To("seal", "staging", {"bundle"})
      BY <1>0, <1>4, <2>1 DEF InstallBundle, Swap, InDirectory, Write, Goto, Staged
    <2>3. QED  BY <1>0, <2>1, <2>2 DEF InPlace, StagingFiles, OneCarrier, CommitPCs, Directory, Staged
  <1>5. CASE SealIntent
    <2>1. pc = "seal" /\ Staged(e, {"bundle"})
      BY <1>0, <1>5 DEF SealIntent, Directory
    <2>2. To("install", "staging", {"intent", "bundle"})
      BY <1>0, <1>5, <2>1 DEF SealIntent, Add, InDirectory, Write, Goto, Staged
    <2>3. QED
      BY <1>0, <2>1, <2>2 DEF InPlace, StagingFiles, OneCarrier, Carriers, CommitPCs, Directory, Staged
  <1>6. CASE InstallIntent
    <2>1. pc = "install" /\ Staged(e, {"intent", "bundle"})
      BY <1>0, <1>6 DEF InstallIntent, Directory
    <2>2. To("restore", "canonical", {"intent", "bundle"})
      BY <1>0, <1>6, <2>1 DEF InstallIntent, Move, Write, Goto, Staged
    <2>3. QED
      BY <1>0, <2>1, <2>2 DEF InPlace, IntentFiles, CommitPCs, Directory, Staged, Installed
  <1>7. CASE Reuse
    <2>1. pc = "reuse" /\ Prepared(e) /\ "marker" \notin files[e]
      BY <1>0, <1>7 DEF Reuse, Directory
    <2>2. files[e] \cap {"bundle", "bundleTemp"} # {} /\ StagingFiles(files[e])
      BY <1>0, <1>7, <2>1 DEF Reuse, Carried, Prepared, InPlace
    <2>3. \/ files[e] = {"bundle"} \/ files[e] = {"bundleTemp"}
      BY <1>0, <2>1, <2>2 DEF StagingFiles, OneCarrier, Carriers, Prepared, File
    <2>4. (files[e] \ {"bundleTemp"}) \cup {"bundle"} = {"bundle"}
      BY <2>3
    <2>5. To("seal", "staging", {"bundle"})
      BY <1>0, <1>7, <2>1, <2>4 DEF Reuse, InDirectory, Write, Goto, Prepared
    <2>6. QED  BY <1>0, <2>1, <2>5 DEF InPlace, StagingFiles, OneCarrier, CommitPCs, Directory, Staged
  <1>8. CASE CleanStaging
    <2>1. pc = "reuse"
      BY <1>8 DEF CleanStaging
    <2>2. To("stage", "none", {})
      BY <1>0, <1>8 DEF CleanStaging, Move, Write, Goto
    <2>3. QED  BY <1>0, <2>1, <2>2 DEF InPlace, CommitPCs, Directory
  <1>9. CASE MarkUnavailable
    <2>1. pc = "mark" /\ Prepared(e)
      BY <1>0, <1>9 DEF MarkUnavailable, Directory
    <2>2. To("sealAbort", "staging", files[e] \cup {"marker"})
      BY <1>0, <1>9, <2>1 DEF MarkUnavailable, Add, InDirectory, Write, Goto, Prepared
    <2>3. QED
      BY <1>0, <2>1, <2>2
         DEF InPlace, StagingFiles, OneCarrier, Carriers, CommitPCs, Directory, Prepared
  <1>10. CASE SealAbort
    <2>1. pc = "sealAbort" /\ Prepared(e) /\ "marker" \in files[e]
      BY <1>0, <1>10 DEF SealAbort, Directory
    <2>2. To("installAbort", "staging", files[e] \cup {"abort"})
      BY <1>0, <1>10, <2>1 DEF SealAbort, Add, InDirectory, Write, Goto, Prepared
    <2>3. QED
      BY <1>0, <2>1, <2>2
         DEF InPlace, StagingFiles, OneCarrier, Carriers, CommitPCs, Directory, Prepared
  <1>11. CASE InstallAbort
    <2>1. pc = "installAbort" /\ place[e] = "staging" /\ "abort" \in files[e]
      BY <1>0, <1>11 DEF InstallAbort, Directory
    <2>2. "intent" \notin files[e]
      BY <2>1 DEF RootInv, OneSeal
    <2>3. To("return", "canonical", files[e])
      BY <1>0, <1>11, <2>1 DEF InstallAbort, Move, Write, Goto
    <2>4. AbortFiles(files[e])
      BY <1>0, <2>1, <2>2 DEF InPlace, StagingFiles, AbortFiles, File
    <2>5. QED  BY <1>0, <2>1, <2>2, <2>3, <2>4 DEF InPlace, CommitPCs, Directory
  <1>12. CASE OpenHandoff
    <2>1. pc = "openHandoff" /\ Installed(e)
      BY <1>0, <1>12 DEF OpenHandoff, Directory
    <2>2. To("fillHandoff", "canonical", {"intent", "bundle", "tornHandoff"})
      BY <1>0, <1>12, <2>1 DEF OpenHandoff, Add, Write, Goto, Installed
    <2>3. QED  BY <1>0, <2>1, <2>2 DEF InPlace, IntentFiles, CommitPCs, Directory
  <1>13. CASE FillHandoff
    <2>1. /\ pc = "fillHandoff" /\ place[e] = "canonical"
          /\ files[e] = {"intent", "bundle", "tornHandoff"}
      BY <1>0, <1>13 DEF FillHandoff, Directory
    <2>2. To("linkHandoff", "canonical", {"intent", "bundle", "handoffTemp"})
      BY <1>0, <1>13, <2>1 DEF FillHandoff, Swap, InDirectory, Write, Goto
    <2>3. QED  BY <1>0, <2>1, <2>2 DEF InPlace, IntentFiles, CommitPCs, Directory
  <1>14. CASE LinkHandoff
    <2>1. /\ pc = "linkHandoff" /\ place[e] = "canonical"
          /\ files[e] = {"intent", "bundle", "handoffTemp"}
      BY <1>0, <1>14 DEF LinkHandoff, Directory
    <2>2. To("unlinkHandoff", "canonical", {"intent", "bundle", "handoffTemp", "handoff"})
      BY <1>0, <1>14, <2>1 DEF LinkHandoff, Add, InDirectory, Write, Goto
    <2>3. QED  BY <1>0, <2>1, <2>2 DEF InPlace, IntentFiles, CommitPCs, Directory
  <1>15. CASE UnlinkHandoff
    <2>1. /\ pc = "unlinkHandoff" /\ place[e] = "canonical"
          /\ files[e] = {"intent", "bundle", "handoffTemp", "handoff"}
      BY <1>0, <1>15 DEF UnlinkHandoff, Directory
    <2>2. To("return", "canonical", {"intent", "bundle", "handoff"})
      BY <1>0, <1>15, <2>1 DEF UnlinkHandoff, InDirectory, Write, Goto
    <2>3. QED  BY <1>0, <2>1, <2>2 DEF InPlace, IntentFiles, CommitPCs, Directory
  <1>16. QED
    BY <1>1, <1>2, <1>3, <1>4, <1>5, <1>6, <1>7, <1>8, <1>9, <1>10, <1>11, <1>12, <1>13, <1>14,
       <1>15 DEF Filing

\* A step in an event's directory keeps the invariant.
LEMMA FilingKeeps ==
    ASSUME TypeOK, RootInv, Bound, Committing, Abandoning, Filing
    PROVE  RootInv' /\ Bound' /\ Committing' /\ Abandoning'
  <1>1. /\ UNCHANGED <<ab, completions, abReceipts, receipts, ledger, odd, cmd>>
        /\ pc # "idle" /\ pc' # "idle"
        /\ \A f \in Event \ {E} : place'[f] = place[f] /\ files'[f] = files[f]
    BY FilingFrame
  <1>2. cmd.kind = "commit"
    <2>1. pc \notin AbandonPCs
      BY DEF Filing, MakeStaging, CreateBundle, FillBundle, InstallBundle, SealIntent,
          InstallIntent, Reuse, CleanStaging, MarkUnavailable, SealAbort, InstallAbort, OpenHandoff,
          FillHandoff, LinkHandoff, UnlinkHandoff, AbandonPCs
    <2>2. QED  BY <1>1, <2>1, KindOf
  <1>3. PICK e \in Event : e = E
    BY <1>1, CmdType
  <1>4. /\ InPlace(place'[e], files'[e]) /\ ~({"intent", "abort"} \subseteq files'[e])
        /\ pc' \in CommitPCs \ {"receipt"} /\ Directory(e)'
        /\ ~Accepted(e)
    BY <1>2, <1>3, FilingFits
  <1>5. TypeOK'
    BY FilingIsNext, TypeStep
  <1>6. Alone(e)
    BY <1>1, <1>2, <1>3 DEF Committing
  <1>7. RootInv' /\ Alone(e)'
    BY <1>1, <1>3, <1>4, <1>5, <1>6, DirectoryStep
  <1>8. E' = e /\ cmd' = cmd
    BY <1>1, <1>3 DEF E
  <1>9. Bound'
    BY <1>1 DEF Bound
  <1>10. ~Accepted(e)'
    BY <1>1, <1>4 DEF Accepted
  <1>11. Committing'
    BY <1>4, <1>7, <1>8, <1>10 DEF Committing
  <1>12. Abandoning'
    BY <1>2, <1>8 DEF Abandoning
  <1>13. QED  BY <1>7, <1>9, <1>11, <1>12

\* A step in an abandonment's directory keeps the invariant.
LEMMA AbandonMovesKeep ==
    ASSUME TypeOK, RootInv, Bound, Committing, Abandoning, AbandonMoves
    PROVE  RootInv' /\ Bound' /\ Committing' /\ Abandoning'
  <1>1. /\ UNCHANGED <<place, files, completions, abReceipts, receipts, ledger, odd, cmd>>
        /\ pc # "idle" /\ pc' # "idle" /\ \A f \in Event \ {E} : ab'[f] = ab[f]
    BY AbandonFrame
  <1>2. PICK e \in Event : e = E
    BY <1>1, CmdType
  <1>3. cmd.kind = "abandon"
    <2>1. pc \notin CommitPCs
      BY DEF AbandonMoves, CleanAbandon, StageAbandon, SealAbandon, InstallAbandon, CommitPCs
    <2>2. QED  BY <1>1, <2>1, KindOf
  <1>4. /\ place[e] = "canonical" /\ AbandonmentRequired(e) /\ ~Accepted(e) /\ ab[e] # "canonical"
    <2>1. pc \in {"cleanAbandon", "stageAbandon", "sealAbandon", "installAbandon"}
      BY DEF AbandonMoves, CleanAbandon, StageAbandon, SealAbandon, InstallAbandon
    <2>2. QED  BY <1>1, <1>2, <1>3, <2>1 DEF Abandoning
  <1>5. TypeOK'
    <2>1. AbandonMoves => Next
      BY DEF AbandonMoves, Next, Step, AbandonStep
    <2>2. QED  BY <2>1, TypeStep
  <1>6. ASSUME NEW f \in Event PROVE AbandonmentInventory(f)'
    <2>1. AbandonmentInventory(f)
      BY LoadableIs DEF RootInv, Inventories
    <2>2. CASE f = e
      BY <1>1, <1>4, <2>1, <2>2
         DEF AbandonmentInventory, AbandonmentRequired, HandedOff, Accepted, Abandoned
    <2>3. CASE f # e
      BY <1>1, <1>2, <2>1, <2>3
         DEF AbandonmentInventory, AbandonmentRequired, HandedOff, Accepted, Abandoned
    <2>4. QED  BY <2>2, <2>3
  <1>7. Loadable'
    <2>1. \A f \in Event : InPlace(place'[f], files'[f])
      BY <1>1, LoadableIs DEF RootInv, Inventories
    <2>2. QED  BY <1>5, <1>6, <2>1, LoadableThen DEF Inventories
  <1>8. \A f \in Event : ~Accepted(f)
    BY <1>4 DEF RootInv, Outcome, Alone, Clear
  <1>9. RootInv'
    BY <1>1, <1>7, <1>8 DEF RootInv, OneSeal, Outcome, Accepted
  <1>10. E' = e /\ cmd'.kind = "abandon"
    BY <1>1, <1>2, <1>3 DEF E
  <1>11. /\ pc' \in AbandonPCs \ {"complete", "abReceipt", "appendAbandon"}
         /\ pc' = "checkRef" <=> ab'[e] = "canonical"
    BY <1>2, <1>4 DEF AbandonMoves, CleanAbandon, StageAbandon, SealAbandon, InstallAbandon,
        AbandonTo, Write, Goto, AbandonPCs, TypeOK
  <1>12. place'[e] = "canonical" /\ AbandonmentRequired(e)' /\ ~Accepted(e)'
    BY <1>1, <1>4 DEF AbandonmentRequired, HandedOff, Accepted
  <1>13. Abandoning'
    BY <1>10, <1>11, <1>12 DEF Abandoning
  <1>14. Committing'
    BY <1>10 DEF Committing
  <1>15. Bound'
    BY <1>1 DEF Bound
  <1>16. QED  BY <1>9, <1>13, <1>14, <1>15

\* The records at the end of a command keep the invariant.
LEMMA ClosingKeeps ==
    ASSUME TypeOK, RootInv, Bound, Committing, Abandoning, Closing
    PROVE  RootInv' /\ Bound' /\ Committing' /\ Abandoning'
  <1>1. /\ UNCHANGED <<place, files, ab, odd, cmd>> /\ pc # "idle" /\ pc' # "idle"
    BY ClosingFrame
  <1>2. PICK e \in Event : e = E
    BY <1>1, CmdType
  <1>3. TypeOK'
    <2>1. Closing => Next
      BY DEF Closing, Next, Step, CommitStep, AbandonStep
    <2>2. QED  BY <2>1, TypeStep
  <1>4. E' = e
    BY <1>1, <1>2 DEF E
  <1>5. Bound'
    BY <1>1 DEF Bound
  <1>6. \A f \in Event : InPlace(place'[f], files'[f])
    BY <1>1, LoadableIs DEF RootInv, Inventories
  <1>7. \A f \in Event : AbandonmentInventory(f)
    BY LoadableIs DEF RootInv, Inventories
  <1>8. ASSUME \A f \in Event : AbandonmentInventory(f)', Outcome' PROVE RootInv'
    <2>1. Loadable'
      BY <1>3, <1>6, <1>8, LoadableThen DEF Inventories
    <2>2. QED  BY <1>1, <1>8, <2>1 DEF RootInv, OneSeal
  <1>9. CASE AppendCommit
    <2>1. pc = "append" /\ pc' = "receipt" /\ ledger' = ledger \cup {cmd}
          /\ UNCHANGED <<completions, abReceipts, receipts>>
      BY <1>9 DEF AppendCommit, Write, Goto
    <2>2. cmd.kind = "commit"
      BY <1>1, <2>1, KindOf DEF AbandonPCs
    <2>3. cmd = CommitOf(e)
      BY <1>1, <1>2, <2>2, CmdType
    <2>4. Alone(e) /\ Installed(e)
      BY <1>1, <1>2, <2>1, <2>2 DEF Committing, Directory
    <2>5. ASSUME NEW f \in Event PROVE /\ Accepted(f)' <=> Accepted(f) \/ f = e
                                       /\ Abandoned(f)' <=> Abandoned(f)
      BY <2>1, <2>3 DEF Accepted, Abandoned, CommitOf, AbandonOf
    <2>6. ASSUME NEW f \in Event PROVE AbandonmentInventory(f)'
      <3>1. f = e => ab[f] = "none"
        BY <2>4 DEF Alone
      <3>2. AbandonmentInventory(f)
        BY <1>7
      <3>3. QED
        BY <1>1, <2>1, <2>5, <3>1, <3>2 DEF AbandonmentInventory, AbandonmentRequired, HandedOff
    <2>7. Alone(e)' /\ Installed(e)'
      BY <1>1, <2>4, <2>5 DEF Alone, Clear, Installed
    <2>8. \A f \in Event : Accepted(f)' <=> f = e
      BY <2>4, <2>5 DEF Alone, Clear
    <2>9. \A f \in receipts : Accepted(f)
      BY DEF RootInv, Outcome
    <2>10. Outcome'
      BY <2>1, <2>5, <2>7, <2>8, <2>9 DEF Outcome, TypeOK
    <2>11. RootInv'
      BY <1>8, <2>6, <2>10
    <2>12. Committing'
      BY <1>1, <1>4, <2>1, <2>2, <2>7, <2>8 DEF Committing, Directory, CommitPCs
    <2>13. Abandoning'
      BY <1>1, <2>2 DEF Abandoning
    <2>14. QED  BY <1>5, <2>11, <2>12, <2>13
  <1>10. CASE WriteReceipt
    <2>1. /\ pc = "receipt" /\ pc' = "return" /\ receipts' = receipts \cup {e}
          /\ UNCHANGED <<completions, abReceipts, ledger>>
      BY <1>2, <1>10 DEF WriteReceipt, Write, Goto
    <2>2. cmd.kind = "commit"
      BY <1>1, <2>1, KindOf DEF AbandonPCs
    <2>3. Alone(e) /\ Accepted(e)
      BY <1>1, <1>2, <2>1, <2>2 DEF Committing
    <2>4. \A f \in Event : AbandonmentInventory(f)'
      BY <1>1, <1>7, <2>1
         DEF AbandonmentInventory, AbandonmentRequired, HandedOff, Accepted, Abandoned
    <2>5. Outcome'
      BY <1>1, <2>1, <2>3 DEF RootInv, Outcome, Accepted, Abandoned, Alone, Clear, Installed
    <2>6. RootInv'
      BY <1>8, <2>4, <2>5
    <2>7. Alone(e)'
      BY <1>1, <2>1, <2>3 DEF Accepted, Abandoned, Alone, Clear
    <2>8. Committing'
      BY <1>1, <1>4, <2>1, <2>2, <2>7 DEF Committing, Directory, CommitPCs
    <2>9. Abandoning'
      BY <1>1, <2>2 DEF Abandoning
    <2>10. QED  BY <1>5, <2>6, <2>8, <2>9
  <1>11. CASE CompleteAbandon \/ WriteAbReceipt \/ AppendAbandon
    <2>1. pc \in {"complete", "abReceipt", "appendAbandon"} /\ receipts' = receipts
      BY <1>11 DEF CompleteAbandon, WriteAbReceipt, AppendAbandon
    <2>2. cmd.kind = "abandon" /\ cmd'.kind = "abandon"
      BY <1>1, <2>1, KindOf DEF CommitPCs
    <2>3. cmd = AbandonOf(e)
      BY <1>1, <1>2, <2>2, CmdType
    <2>4. /\ place[e] = "canonical" /\ AbandonmentRequired(e) /\ ~Accepted(e)
          /\ ab[e] = "canonical"
      BY <1>1, <1>2, <2>1, <2>2 DEF Abandoning
    <2>5. /\ pc \in {"abReceipt", "appendAbandon"} => e \in completions
          /\ pc = "appendAbandon" => e \in abReceipts
      BY <1>1, <1>2, <2>1, <2>2 DEF Abandoning
    <2>6. \A f \in Event : ~Accepted(f)
      BY <2>4 DEF RootInv, Outcome, Alone, Clear
    <2>7. ledger' \in {ledger, ledger \cup {cmd}}
      BY <1>11 DEF CompleteAbandon, WriteAbReceipt, AppendAbandon
    <2>8. ASSUME NEW f \in Event PROVE ~Accepted(f)'
      <3>1. CommitOf(f) # cmd
        BY <2>3 DEF CommitOf, AbandonOf
      <3>2. CommitOf(f) \notin ledger
        BY <2>6 DEF Accepted
      <3>3. CommitOf(f) \notin ledger'
        BY <2>7, <3>1, <3>2
      <3>4. QED  BY <3>3 DEF Accepted, CommitOf
    <2>9. Outcome'
      BY <2>1, <2>6, <2>8 DEF RootInv, Outcome, TypeOK
    <2>10. ASSUME NEW f \in Event \ {e}
           PROVE  /\ f \in completions' <=> f \in completions
                  /\ f \in abReceipts' <=> f \in abReceipts
                  /\ Abandoned(f)' <=> Abandoned(f)
      BY <1>2, <1>11, <2>3 DEF CompleteAbandon, WriteAbReceipt, AppendAbandon, Abandoned, AbandonOf
    <2>11. AbandonmentInventory(e)'
      <3>1. AbandonmentInventory(e)
        BY <1>7
      <3>2. /\ pc = "complete" => UNCHANGED <<abReceipts, ledger>> /\ completions' = completions \cup {e}
            /\ pc = "abReceipt" => UNCHANGED <<completions, ledger>> /\ abReceipts' = abReceipts \cup {e}
            /\ pc = "appendAbandon" => UNCHANGED <<completions, abReceipts>>
        BY <1>2, <1>11 DEF CompleteAbandon, WriteAbReceipt, AppendAbandon
      <3>3. place'[e] = "canonical" /\ AbandonmentRequired(e)' /\ ~Accepted(e)' /\ ab'[e] = "canonical"
        BY <1>1, <2>4, <2>8 DEF AbandonmentRequired, HandedOff
      <3>4. e \in abReceipts' => e \in completions'
        BY <2>1, <2>5, <3>1, <3>2 DEF AbandonmentInventory
      <3>5. Abandoned(e)' => e \in abReceipts'
        BY <2>1, <2>5, <3>1, <3>2 DEF AbandonmentInventory, Abandoned
      <3>6. QED  BY <3>3, <3>4, <3>5 DEF AbandonmentInventory
    <2>12. ASSUME NEW f \in Event PROVE AbandonmentInventory(f)'
      BY <1>1, <1>7, <2>8, <2>10, <2>11
         DEF AbandonmentInventory, AbandonmentRequired, HandedOff
    <2>13. RootInv'
      BY <1>8, <2>9, <2>12
    <2>14. /\ pc' \in {"abReceipt", "appendAbandon", "return"}
           /\ pc' \in {"abReceipt", "appendAbandon"} => e \in completions'
           /\ pc' = "appendAbandon" => e \in abReceipts'
      BY <1>2, <1>11, <2>5 DEF CompleteAbandon, WriteAbReceipt, AppendAbandon, Write, Goto
    <2>15. place'[e] = "canonical" /\ AbandonmentRequired(e)' /\ ~Accepted(e)' /\ ab'[e] = "canonical"
      BY <1>1, <2>4, <2>8 DEF AbandonmentRequired, HandedOff
    <2>16. Abandoning'
      BY <1>4, <2>14, <2>15 DEF Abandoning, AbandonPCs
    <2>17. Committing'
      BY <2>2 DEF Committing
    <2>18. QED  BY <1>5, <2>13, <2>16, <2>17
  <1>12. QED  BY <1>9, <1>10, <1>11 DEF Closing

-----------------------------------------------------------------------------
(* The theorems. *)

\* Every step keeps the invariant.
LEMMA NextIInv == IInv /\ [Next]_vars => IInv'
  <1> SUFFICES ASSUME IInv, [Next]_vars PROVE IInv'
    OBVIOUS
  <1>1. TypeOK /\ RootInv /\ Bound /\ Committing /\ Abandoning
    BY DEF IInv, RootInv
  <1>2. ASSUME TypeOK', RootInv' /\ Bound' /\ Committing' /\ Abandoning' PROVE IInv'
    BY <1>2 DEF IInv, RootInv
  <1>3. CASE UNCHANGED vars
    <2>1. UNCHANGED <<root, run>>
      BY <1>3 DEF vars
    <2>2. TypeOK'
      BY <1>1, <1>3 DEF TypeOK, vars, root, run, repo
    <2>3. QED  BY <1>1, <1>2, <2>1, <2>2, RootKept, UsersKeep DEF root
  <1>4. CASE Next
    <2>1. TypeOK'
      BY <1>1, <1>4, TypeStep
    <2>2. ASSUME NEW c \in Command, Start(c) PROVE IInv'
      BY <1>1, <1>2, <2>1, <2>2, StartKeeps
    <2>3. CASE Stopping
      BY <1>1, <1>2, <2>1, <2>3, StopFrame, RootKept, StoppedKept DEF root
    <2>4. CASE Users
      BY <1>1, <1>2, <2>1, <2>4, UsersFrame, RootKept, UsersKeep DEF root, run
    <2>5. CASE Going
      BY <1>1, <1>2, <2>1, <2>5, GoingKeeps
    <2>6. CASE Filing
      BY <1>1, <1>2, <2>1, <2>6, FilingKeeps
    <2>7. CASE AbandonMoves
      BY <1>1, <1>2, <2>1, <2>7, AbandonMovesKeep
    <2>8. CASE Closing
      BY <1>1, <1>2, <2>1, <2>8, ClosingKeeps
    <2>9. QED  BY <1>4, <2>2, <2>3, <2>4, <2>5, <2>6, <2>7, <2>8, NextIs DEF Closing
  <1>5. QED  BY <1>3, <1>4

\* The inductive invariant holds of every run.
THEOREM Invariance == Spec => []IInv
  BY InitIInv, NextIInv, PTL DEF Spec

\* Every variable keeps its type.
THEOREM TypeCorrect == Spec => []TypeOK
  <1>1. IInv => TypeOK
    BY DEF IInv
  <1>2. QED  BY <1>1, Invariance, PTL

\* A cycle ends in one way, however many events are tried and wherever their
\* commands crash: one accepted commit at most, and none beside an abandonment.
THEOREM CycleEndsOnce == Spec => []OneOutcome
  <1>1. IInv => OneOutcome
    <2> SUFFICES ASSUME IInv PROVE OneOutcome
      OBVIOUS
    <2>1. ASSUME NEW c \in ledger, c.kind = "commit"
          PROVE  c.event \in Event /\ c = CommitOf(c.event) /\ Accepted(c.event)
      BY <2>1 DEF IInv, TypeOK, Command, CommitOf, Accepted
    <2>2. ASSUME NEW c \in ledger, c.kind = "abandon"
          PROVE  c.event \in Event /\ Abandoned(c.event)
      BY <2>2 DEF IInv, TypeOK, Command, AbandonOf, Abandoned
    <2>3. \A e, f \in Event : Accepted(e) => (Accepted(f) => e = f) /\ ~Abandoned(f)
      BY DEF IInv, Outcome, Alone, Clear
    <2>4. QED  BY <2>1, <2>2, <2>3 DEF OneOutcome
  <1>2. QED  BY <1>1, Invariance, PTL

\* An accepted commit keeps the sealed intent and the bundle it is restored
\* from, and only an accepted commit has a receipt.
THEOREM AcceptedIsDurable == Spec => []CommitIsDurable
  <1>1. IInv => CommitIsDurable
    BY DEF IInv, Outcome, Installed, CommitIsDurable
  <1>2. QED  BY <1>1, Invariance, PTL

\* A command creates the ref, on the way from a sealed intent, and never takes
\* it from a user.
THEOREM RefIsCreated == Spec => ForeignKept
  <1>1. IInv /\ [Next]_vars =>
            [UNCHANGED moves /\ ref' # ref =>
                 ref = Null /\ ref' = Commit /\ files[cmd.event] = {"intent", "bundle"}]_vars
    <2> SUFFICES ASSUME IInv, Next, UNCHANGED moves, ref' # ref
                 PROVE  ref = Null /\ ref' = Commit /\ files[cmd.event] = {"intent", "bundle"}
      OBVIOUS
    <2>1. TypeOK /\ RootInv /\ Bound /\ Committing /\ Abandoning
      BY DEF IInv, RootInv
    <2>2. ~Users
      BY <2>1, UsersFrame DEF TypeOK
    <2>3. Going
      BY <2>1, <2>2, NextIs, StartFrame, StopFrame, FilingFrame, AbandonFrame, ClosingFrame
         DEF repo, Closing
    <2>4. PublishRef
      BY <2>3 DEF Going, RestoreObject, RefConflict, Recover, repo
    <2>5. pc = "publish" /\ place[E] = "canonical" /\ ref = Null /\ ref' = Commit
      BY <2>4 DEF PublishRef
    <2>6. cmd.kind = "commit"
      BY <2>1, <2>5, KindOf DEF AbandonPCs
    <2>7. Installed(E)
      BY <2>1, <2>5, <2>6 DEF Committing, Directory
    <2>8. QED  BY <2>5, <2>7 DEF Installed, E
  <1>2. QED  BY <1>1, Invariance, PTL DEF Spec, ForeignKept

\* Wherever a command dies, what it leaves can be loaded: the exact inventories
\* of the directories never refuse the retry.
THEOREM AlwaysLoadable == Spec => []Loadable
  <1>1. IInv => Loadable
    BY DEF IInv
  <1>2. QED  BY <1>1, Invariance, PTL
=============================================================================
