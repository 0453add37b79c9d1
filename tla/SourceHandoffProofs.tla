------------------------ MODULE SourceHandoffProofs ------------------------
(***************************************************************************)
(* Theorems about the three commands of a source handoff, as they run in   *)
(* SourceCheckpoint: for any number of paths, crashes and steps of others. *)
(***************************************************************************)
EXTENDS SourceCheckpoint, TLAPS

-----------------------------------------------------------------------------
(* The invariant. *)

Tree == [tracked : Nat, untracked : Nat, shell : Nat]
Log  == [patches : Nat, open : {"none", "called", "applied"}, shells : Nat]

Stages == {"none", "empty", "tornBinding", "binding", "bound", "tornManifest", "manifest",
           "sealed", "discard", "husk", "void"}

Compared   == {"discard", "binding", "payload"}
Exporting  == {"tracked", "untracked", "stable", "entries", "publish"} \cup Compared
Importing  == {"intent", "inspect", "ilock", "files", "move", "index", "markers", "verify",
               "receipt"}
UnderFence == {"drift", "callback", "ref", "clean", "complete"}
Command    == {"export", "import", "checkpoint"}

ControlOK ==
    /\ odd \in {None} \cup Command
    /\ wrote \in BOOLEAN /\ faults \in 0..MaxFaults /\ drift \in 0..MaxDrift

Points == {"idle", "exported", "imported", "capture", "lock", "fence", "abort", "finish"}
          \cup Command \cup Exporting \cup Importing \cup UnderFence

ExportOK ==
    /\ kind \in {"worktree", "rollout"}
    /\ source \in Tree /\ taken \in Tree /\ lived \in SUBSET Tree
    /\ log \in Log
    /\ audit \in {None} \cup (Nat \X Nat)
    /\ staged \in [stage : Stages, tree : {None} \cup Tree]
    /\ snapshot \in {None} \cup Tree

ImportOK ==
    /\ intent \in {"none", "dir", "sealed"}
    /\ file \in [Path -> {"base", "new", "foreign"}]
    /\ tmp \in [Path -> {"none", "torn", "whole", "linked"}]
    /\ anchor \in [Path -> BOOLEAN]
    /\ marker \in BOOLEAN /\ receipt \in BOOLEAN /\ pos \in Nat
    /\ index \in [tree : {"base", "new", "foreign"}, stamp : Nat]
    /\ ilock \in {"none", "import", "git", "checkpoint"}
    /\ ianchor \in {"none", "torn", "whole", "locked", "index"}
    /\ head \in {"base", "checkpoint", "other"} /\ busy \in BOOLEAN

CheckpointOK ==
    /\ mark \in {None} \cup Nat
    /\ ctmp \in {"none", "torn", "whole", "linked"}
    /\ gdir \in {"open", "fenced"} /\ rfence \in BOOLEAN /\ done \in BOOLEAN

TypeOK == pc \in Points /\ ControlOK /\ ExportOK /\ ImportOK /\ CheckpointOK

\* The predecessor and its log: a log that is not in the middle of a patch replays to
\* what its patches did, and an audit that counts every call saw none that wrote.
LogInv ==
    /\ source \in lived
    /\ kind = "worktree" => source.shell = 0
    /\ kind = "rollout" =>
           /\ source.untracked = 0
           /\ source.tracked = IF log.open = "applied" THEN log.patches + 1 ELSE log.patches
           /\ log.shells = 0 => source.shell = 0
           /\ audit # None => audit[2] <= log.shells
           /\ audit # None /\ audit[2] = log.shells => source.shell = 0

\* What an export has read by the time it is where it is. The tracked files are read
\* first and compared last; if they are the same, the untracked ones were read beside
\* them.
ReadInv ==
    /\ taken.shell = 0
    /\ pc \in {"untracked", "stable", "entries"} => kind = "worktree"
    /\ pc \in {"untracked", "stable"} => taken.tracked <= source.tracked
    /\ pc = "stable" /\ taken.tracked = source.tracked => taken \in lived
    /\ pc \in {"entries"} \cup Compared => taken \in lived

\* What is prepared was read from a tree that was there; a snapshot ends the export.
PreparedInv ==
    /\ staged.stage # "none" => staged.tree \in lived
    /\ pc = "publish" => staged.stage = "sealed"
    /\ pc \in Exporting => snapshot = None

\* A path the import has left behind is done, and clean.
Behind(p) == file[p] # "base" /\ tmp[p] = "none" /\ ~anchor[p]

PathInv ==
    /\ pc \in {"files", "move"} => pos # 0 /\ \A p \in Path : p < pos => Behind(p)
    /\ pc = "move" => pos \in Path
    /\ pc \in {"index", "markers", "verify", "receipt"} => \A p \in Path : Behind(p)
    /\ pc \in {"markers", "verify", "receipt"} => ianchor = "none" /\ ilock # "import"
    /\ pc \in {"verify", "receipt"} => ~marker
    /\ receipt => pc \notin Importing

\* From the fence on the checkpoint has the index lock; between the fence and its
\* removal git does nothing.
FenceInv ==
    /\ pc \in UnderFence => gdir = "fenced"
    /\ pc \in {"fence", "abort", "finish"} \cup UnderFence => ilock = "checkpoint"
    /\ pc = "ref" => ~busy /\ index.tree = "new"

ExportPart == LogInv /\ ReadInv /\ PreparedInv /\ SnapshotIsReal
ImportPart == PathInv /\ IndexBehindTree /\ NoResidue

IInv == TypeOK /\ ExportPart /\ ImportPart /\ FenceInv

-----------------------------------------------------------------------------
(* Types. *)

\* Nothing has been done at the start.
LEMMA InitIInv == Init => IInv
  <1>1. SUFFICES ASSUME Init PROVE IInv
    OBVIOUS
  <1>2. source \in Tree /\ taken = source /\ lived = {source} /\ source.shell = 0
        /\ source.tracked = 0 /\ source.untracked = 0
    BY <1>1 DEF Init, InitExport, Tree
  <1>3. staged \in [stage : Stages, tree : {None} \cup Tree] /\ staged.stage = "none"
    BY <1>1 DEF Init, InitExport, NothingStaged, Stages
  <1>4. /\ log \in Log /\ log.open = "none" /\ log.patches = 0 /\ audit = None
        /\ snapshot = None /\ pc = "idle" /\ kind \in {"worktree", "rollout"}
        /\ odd = None /\ wrote = FALSE /\ faults = 0 /\ drift = 0
    BY <1>1 DEF Init, InitExport, Log
  <1>5. /\ index \in [tree : {"base", "new", "foreign"}, stamp : Nat] /\ index.tree = "base"
        /\ receipt = FALSE
    BY <1>1 DEF Init, InitImport
  <1>6. TypeOK
    <2>1. /\ file \in [Path -> {"base", "new", "foreign"}]
          /\ tmp \in [Path -> {"none", "torn", "whole", "linked"}]
          /\ anchor \in [Path -> BOOLEAN]
      BY <1>1 DEF Init, InitImport
    <2>2. /\ marker \in BOOLEAN /\ pos \in Nat /\ rfence \in BOOLEAN /\ done \in BOOLEAN
          /\ busy \in BOOLEAN
      BY <1>1 DEF Init, InitImport
    <2>3. pc \in {"idle"} /\ faults \in 0..MaxFaults /\ drift \in 0..MaxDrift
      BY <1>4, HandoffAssumption
    <2>4. QED
      BY <1>1, <1>2, <1>3, <1>4, <1>5, <2>1, <2>2, <2>3
         DEF Init, InitImport, TypeOK, Points, ControlOK, ExportOK, ImportOK, CheckpointOK
  <1>7. ExportPart
    BY <1>2, <1>3, <1>4
       DEF ExportPart, LogInv, ReadInv, PreparedInv, SnapshotIsReal, Compared, Exporting
  <1>8. ImportPart /\ FenceInv
    BY <1>4, <1>5 DEF ImportPart, PathInv, IndexBehindTree, NoResidue, FenceInv, UnderFence, Importing
  <1>9. QED  BY <1>6, <1>7, <1>8 DEF IInv

\* The ways a command goes on and ends are steps between its own points, under the
\* bounds.
LEMMA ControlSteps ==
    ASSUME ControlOK
    PROVE  /\ \A l : (Go(l) \/ Wrote(l)) => ControlOK' /\ pc' = l
           /\ \A op \in Command, w \in BOOLEAN : Enter(op, w) => ControlOK' /\ pc' = op
           /\ Close \/ Throw \/ Dies => ControlOK' /\ pc' = "idle"
           /\ Others \/ UNCHANGED <<control, drift>> => ControlOK' /\ pc' = pc
  <1>1. ASSUME NEW l, Go(l) \/ Wrote(l) PROVE ControlOK' /\ pc' = l
    BY <1>1 DEF ControlOK, Go, Wrote
  <1>2. ASSUME NEW op \in Command, NEW w \in BOOLEAN, Enter(op, w) PROVE ControlOK' /\ pc' = op
    <2>1. wrote' \in BOOLEAN
      BY <1>2, Zenon DEF Enter
    <2>2. QED  BY <1>2, <2>1 DEF ControlOK, Enter
  <1>3. ASSUME Close \/ Throw \/ Dies PROVE ControlOK' /\ pc' = "idle"
    <2>1. CASE Close
      BY <2>1 DEF ControlOK, Close
    <2>2. CASE Throw
      BY <2>2 DEF ControlOK, Throw
    <2>3. CASE Dies
      <3>1. faults' \in 0..MaxFaults
        BY <2>3, HandoffAssumption DEF ControlOK, Dies
      <3>2. QED  BY <2>3, <3>1 DEF ControlOK, Dies
    <2>4. QED  BY <1>3, <2>1, <2>2, <2>3
  <1>4. ASSUME Others \/ UNCHANGED <<control, drift>> PROVE ControlOK' /\ pc' = pc
    BY <1>4, HandoffAssumption DEF ControlOK, Others, control
  <1>5. QED  BY <1>1, <1>2, <1>3, <1>4

\* The records the export is made of.
Prepared == [stage : Stages, tree : {None} \cup Tree]

\* A tree with one of its versions set.
LEMMA TreeSet ==
    ASSUME NEW t \in Tree, NEW n \in Nat
    PROVE  /\ t.tracked \in Nat /\ t.untracked \in Nat /\ t.shell \in Nat
           /\ [t EXCEPT !.tracked = n] = [tracked |-> n, untracked |-> t.untracked, shell |-> t.shell]
           /\ [t EXCEPT !.untracked = n] = [tracked |-> t.tracked, untracked |-> n, shell |-> t.shell]
           /\ [t EXCEPT !.shell = n] = [tracked |-> t.tracked, untracked |-> t.untracked, shell |-> n]
  BY DEF Tree

\* Two trees of the same versions are one tree.
LEMMA SameTree ==
    ASSUME NEW t \in Tree, NEW u \in Tree,
           t.tracked = u.tracked, t.untracked = u.untracked, t.shell = u.shell
    PROVE  t = u
  BY DEF Tree

\* What is prepared goes on to a next stage for the tree it was begun for.
LEMMA StageSet ==
    ASSUME staged \in Prepared, NEW s \in Stages, Stage(s)
    PROVE  staged' \in Prepared /\ staged'.stage = s /\ staged'.tree = staged.tree
  <1>1. staged' = [stage |-> s, tree |-> staged.tree]
    BY DEF Stage, Prepared
  <1>2. QED  BY <1>1 DEF Prepared

\* The directory that is not there.
LEMMA NothingIsPrepared == NothingStaged \in Prepared /\ NothingStaged.stage = "none"
  BY DEF NothingStaged, Prepared, Stages

-----------------------------------------------------------------------------
(* The export. *)

\* What a step of the export, which changes neither the source nor its log, has to
\* keep.
LEMMA ExportFrame ==
    ASSUME ExportPart, ExportOK, UNCHANGED <<kind, seen>>,
           taken' \in Tree, staged' \in Prepared, snapshot' \in {None} \cup Tree,
           ReadInv', PreparedInv', SnapshotIsReal'
    PROVE  ExportOK' /\ ExportPart'
  <1>1. UNCHANGED <<kind, source, lived, log, audit>>
    BY DEF seen
  <1>2. LogInv'
    BY <1>1 DEF ExportPart, LogInv
  <1>3. ExportOK'
    BY <1>1 DEF ExportOK, Prepared
  <1>4. QED  BY <1>2, <1>3 DEF ExportPart

\* Where nothing is read, staged or published, the position alone matters.
LEMMA ExportStays ==
    ASSUME ExportPart, ExportOK, UNCHANGED export, pc' = pc \/ pc' \notin Exporting
    PROVE  ExportOK' /\ ExportPart'
  <1>1. UNCHANGED <<kind, source, lived, log, audit, taken, staged, snapshot>>
    BY DEF export, seen
  <1>2. ExportOK' /\ LogInv' /\ SnapshotIsReal'
    BY <1>1 DEF ExportOK, ExportPart, LogInv, SnapshotIsReal
  <1>3. ReadInv'
    BY <1>1 DEF ExportPart, ReadInv, Exporting, Compared
  <1>4. PreparedInv'
    BY <1>1 DEF ExportPart, PreparedInv, Exporting
  <1>5. QED  BY <1>2, <1>3, <1>4 DEF ExportPart

\* What is read, prepared and published, by an export that runs.
LEMMA ExportKeeps ==
    ASSUME TypeOK, ExportPart, ExportStep
    PROVE  ExportOK' /\ ExportPart' /\ ControlOK' /\ pc' \in {"idle", "exported"} \cup Exporting
  <1> USE DEF Stages, Compared, Exporting
  <1> ExportOK /\ ControlOK
    BY DEF TypeOK
  <1>1. /\ staged \in Prepared /\ taken \in Tree /\ source \in Tree
        /\ snapshot \in {None} \cup Tree /\ lived \in SUBSET Tree
    BY DEF ExportOK, Prepared
  <1>2. /\ LogInv /\ ReadInv /\ PreparedInv /\ SnapshotIsReal
    BY DEF ExportPart
  <1>3. CASE ReadPrepared
    <2>1. pc = "export" /\ UNCHANGED <<kind, seen, taken, snapshot>>
      BY <1>3 DEF ReadPrepared, Exported, FinishPrepared, export, seen
    <2>2. UNCHANGED <<source, lived>>
      BY <2>1 DEF seen
    <2>3. /\ staged' \in Prepared
          /\ staged'.stage # "none" => staged.stage # "none" /\ staged'.tree = staged.tree
          /\ pc' \in {"idle", "tracked", "publish"} /\ ControlOK'
          /\ pc' = "publish" => staged'.stage = "sealed"
          /\ pc' # "idle" => snapshot = None
      <3>1. CASE Exported
        BY <1>1, <3>1, ControlSteps DEF Exported, export
      <3>2. CASE FinishPrepared
        <4>1. staged' \in Prepared /\ staged'.stage = "sealed" /\ staged'.tree = staged.tree
          BY <1>1, <3>2, StageSet DEF FinishPrepared
        <4>2. staged.stage # "none"
          BY <3>2 DEF FinishPrepared, Sealed
        <4>3. QED  BY <3>2, <4>1, <4>2, ControlSteps DEF FinishPrepared
      <3>3. CASE snapshot = None /\ Throw /\ UNCHANGED export
        BY <1>1, <3>3, ControlSteps DEF export
      <3>4. CASE snapshot = None /\ Go("tracked") /\ staged' = NothingStaged
        BY <3>4, ControlSteps, NothingIsPrepared
      <3>5. CASE snapshot = None /\ staged.stage = "binding" /\ Go("tracked") /\ Stage("bound")
        <4>1. staged' \in Prepared /\ staged'.stage = "bound" /\ staged'.tree = staged.tree
          BY <1>1, <3>5, StageSet
        <4>2. QED  BY <3>5, <4>1, ControlSteps
      <3>6. CASE snapshot = None /\ Go("tracked") /\ UNCHANGED export
        BY <1>1, <3>6, ControlSteps DEF export
      <3>7. QED  BY <1>3, <3>1, <3>2, <3>3, <3>4, <3>5, <3>6 DEF ReadPrepared
    <2>4. ReadInv' /\ PreparedInv' /\ SnapshotIsReal'
      BY <1>2, <2>1, <2>2, <2>3 DEF ReadInv, PreparedInv, SnapshotIsReal
    <2>5. QED  BY <1>1, <2>1, <2>3, <2>4, ExportFrame
  <1>4. CASE ReadTracked \/ ReadUntracked \/ ReadAgain \/ ReadEntriesAgain \/ ReadRollout
    <2>1. /\ UNCHANGED <<kind, seen, staged, snapshot>>
          /\ pc \in {"tracked", "untracked", "stable", "entries"} /\ snapshot = None
      BY <1>2, <1>4 DEF ReadTracked, ReadUntracked, ReadAgain, ReadEntriesAgain, ReadRollout,
                        PreparedInv, export
    <2>2. UNCHANGED <<source, lived>>
      BY <2>1 DEF seen
    <2>3. /\ ControlOK' /\ pc' \in {"idle", "untracked", "stable", "entries", "discard"}
          /\ taken' \in Tree /\ ReadInv'
      <3>1. CASE ReadTracked
        <4>1. taken' = [tracked |-> source.tracked, untracked |-> taken.untracked,
                        shell |-> taken.shell]
          BY <1>1, <3>1, TreeSet DEF ReadTracked
        <4>2. pc' = "untracked" /\ kind' = "worktree" /\ ControlOK'
          BY <2>1, <3>1, ControlSteps DEF ReadTracked
        <4>3. taken' \in Tree
          BY <1>1, <4>1, TreeSet DEF Tree
        <4>4. taken'.tracked = source.tracked /\ taken'.shell = taken.shell
          BY <4>1
        <4>5. source.tracked \in Nat
          BY <1>1, TreeSet
        <4>6. QED  BY <1>2, <2>2, <4>2, <4>3, <4>4, <4>5 DEF ReadInv
      <3>2. CASE ReadUntracked
        <4>1. taken' = [tracked |-> taken.tracked, untracked |-> source.untracked,
                        shell |-> taken.shell]
          BY <1>1, <3>2, TreeSet DEF ReadUntracked
        <4>2. pc = "untracked" /\ pc' = "stable" /\ ControlOK'
          BY <3>2, ControlSteps DEF ReadUntracked
        <4>3. taken' \in Tree
          BY <1>1, <4>1, TreeSet DEF Tree
        <4>4. taken'.tracked = taken.tracked /\ taken'.untracked = source.untracked
              /\ taken'.shell = taken.shell
          BY <4>1
        <4>5. kind = "worktree" /\ source.shell = 0 /\ taken.shell = 0 /\ source \in lived
          BY <1>2, <4>2 DEF ReadInv, LogInv
        <4>6. taken'.tracked = source.tracked => taken' = source
          BY <1>1, <4>3, <4>4, <4>5, SameTree
        <4>7. QED  BY <1>2, <2>1, <2>2, <4>2, <4>3, <4>4, <4>5, <4>6 DEF ReadInv
      <3>3. CASE ReadAgain
        <4>1. /\ UNCHANGED taken /\ pc = "stable" /\ ControlOK'
              /\ pc' = "idle" \/ (Stable /\ pc' = "entries")
          <5>1. UNCHANGED taken /\ pc = "stable"
            BY <3>3 DEF ReadAgain, export
          <5>2. CASE Stable
            BY <3>3, <5>1, <5>2, ControlSteps DEF ReadAgain
          <5>3. CASE ~Stable
            <6>1. Throw
              BY <3>3, <5>3 DEF ReadAgain
            <6>2. QED  BY <5>1, <6>1, ControlSteps
          <5>4. QED  BY <5>2, <5>3
        <4>2. QED  BY <1>1, <1>2, <2>1, <2>2, <4>1 DEF ReadInv, Stable
      <3>4. CASE ReadEntriesAgain
        <4>1. /\ UNCHANGED taken /\ pc = "entries" /\ ControlOK' /\ pc' \in {"idle", "discard"}
          BY <3>4, ControlSteps DEF ReadEntriesAgain, export
        <4>2. QED  BY <1>1, <1>2, <2>1, <2>2, <4>1 DEF ReadInv
      <3>5. CASE ReadRollout
        <4>1. kind = "rollout" /\ pc = "tracked"
          BY <3>5 DEF ReadRollout
        <4>2. CASE LogClosed /\ ShellsVerified
          <5>1. taken' = Replay /\ pc' = "discard" /\ ControlOK'
            BY <3>5, <4>2, ControlSteps DEF ReadRollout
          <5>2. log.patches \in Nat /\ log.shells \in Nat
            BY DEF ExportOK, Log
          <5>3. source.shell = 0
            <6>1. CASE log.shells = 0
              BY <1>2, <4>1, <6>1 DEF LogInv
            <6>2. CASE audit = Version
              <7>1. audit # None /\ audit[2] = log.shells
                BY <5>2, <6>2, NoneAssumption DEF Version
              <7>2. QED  BY <1>2, <4>1, <7>1 DEF LogInv
            <6>3. QED  BY <4>2, <6>1, <6>2 DEF ShellsVerified
          <5>4. Replay \in Tree
            BY <5>2 DEF Replay, Tree
          <5>5. source.tracked = log.patches /\ source.untracked = 0
            BY <1>2, <4>1, <4>2 DEF LogInv, LogClosed
          <5>6. Replay = source
            BY <1>1, <5>3, <5>4, <5>5, SameTree DEF Replay
          <5>7. taken' \in lived
            BY <1>2, <5>1, <5>6 DEF LogInv
          <5>8. taken'.shell = 0
            BY <5>1 DEF Replay
          <5>9. QED  BY <2>2, <5>1, <5>4, <5>7, <5>8 DEF ReadInv
        <4>3. CASE ~(LogClosed /\ ShellsVerified)
          <5>1. UNCHANGED taken /\ pc' = "idle" /\ ControlOK'
            BY <3>5, <4>3, ControlSteps DEF ReadRollout
          <5>2. QED  BY <1>1, <1>2, <5>1 DEF ReadInv
        <4>4. QED  BY <4>2, <4>3
      <3>6. QED  BY <1>4, <3>1, <3>2, <3>3, <3>4, <3>5
    <2>4. PreparedInv' /\ SnapshotIsReal'
      BY <1>2, <2>1, <2>2, <2>3 DEF PreparedInv, SnapshotIsReal
    <2>5. QED  BY <1>1, <2>1, <2>3, <2>4, ExportFrame
  <1>5. CASE Discard \/ MakeStaging
    <2>1. /\ UNCHANGED <<kind, seen, taken, snapshot>> /\ pc = "discard" /\ snapshot = None
          /\ taken \in lived
      BY <1>2, <1>5 DEF Discard, MakeStaging, PreparedInv, ReadInv
    <2>2. UNCHANGED <<source, lived>>
      BY <2>1 DEF seen
    <2>3. /\ staged' \in Prepared
          /\ staged'.stage # "none" => staged'.tree \in lived
          /\ pc' \in {"idle", "discard", "binding"} /\ ControlOK'
      <3>1. CASE MakeStaging
        <4>1. staged' = [stage |-> "empty", tree |-> taken]
          BY <3>1 DEF MakeStaging, Unsigned
        <4>2. staged' \in Prepared /\ staged'.tree = taken
          BY <1>1, <4>1 DEF Prepared
        <4>3. QED  BY <2>1, <3>1, <4>2, ControlSteps DEF MakeStaging
      <3>2. CASE Discard /\ staged.tree # taken
        <4>1. Throw /\ UNCHANGED staged
          BY <3>2 DEF Discard, Unsigned
        <4>2. QED  BY <1>1, <1>2, <4>1, ControlSteps DEF PreparedInv
      <3>3. CASE Discard /\ staged.tree = taken
        <4>1. /\ Wrote("discard")
              /\ \/ Stage("discard") \/ Stage("husk") \/ Stage("void")
                 \/ staged' = NothingStaged
          BY <3>3 DEF Discard, Unsigned
        <4>2. /\ staged' \in Prepared
              /\ staged'.stage # "none" => staged'.tree = staged.tree
          BY <1>1, <4>1, StageSet, NothingIsPrepared
        <4>3. QED  BY <2>1, <3>3, <4>1, <4>2, ControlSteps
      <3>4. QED  BY <1>5, <3>1, <3>2, <3>3
    <2>4. ReadInv' /\ PreparedInv' /\ SnapshotIsReal'
      BY <1>2, <2>1, <2>2, <2>3 DEF ReadInv, PreparedInv, SnapshotIsReal
    <2>5. QED  BY <1>1, <2>1, <2>3, <2>4, ExportFrame
  <1>6. CASE StageBinding \/ StageManifest
    <2>1. /\ UNCHANGED <<kind, seen, taken, snapshot>> /\ pc \in {"binding", "payload"}
          /\ snapshot = None /\ taken \in lived /\ staged.stage # "none"
      BY <1>2, <1>6 DEF StageBinding, StageManifest, PreparedInv, ReadInv
    <2>2. UNCHANGED <<source, lived>>
      BY <2>1 DEF seen
    <2>3. /\ staged' \in Prepared /\ staged'.tree = staged.tree
          /\ pc' \in {"binding", "payload", "publish"} /\ ControlOK'
          /\ pc' = "publish" => staged'.stage = "sealed"
      <3>1. \/ Stage("binding") /\ Wrote("binding")
            \/ Stage("bound") /\ Wrote("payload")
            \/ Stage("manifest") /\ Wrote("payload")
            \/ Stage("sealed") /\ Wrote("publish")
        BY <1>6 DEF StageBinding, StageManifest
      <3>2. QED  BY <1>1, <3>1, StageSet, ControlSteps
    <2>4. ReadInv' /\ PreparedInv' /\ SnapshotIsReal'
      BY <1>2, <2>1, <2>2, <2>3 DEF ReadInv, PreparedInv, SnapshotIsReal
    <2>5. QED  BY <1>1, <2>1, <2>3, <2>4, ExportFrame
  <1>7. CASE PublishSnapshot
    <2>1. /\ UNCHANGED <<kind, seen, taken>> /\ pc = "publish" /\ Wrote("exported")
          /\ snapshot' = staged.tree /\ staged' = NothingStaged
      BY <1>7 DEF PublishSnapshot
    <2>2. UNCHANGED <<source, lived>>
      BY <2>1 DEF seen
    <2>3. staged.tree \in lived /\ staged.tree \in {None} \cup Tree
      BY <1>1, <1>2, <2>1 DEF PreparedInv, Prepared
    <2>4. pc' = "exported" /\ ControlOK'
      BY <2>1, ControlSteps
    <2>5. ReadInv' /\ PreparedInv' /\ SnapshotIsReal'
      BY <1>2, <2>1, <2>2, <2>3, <2>4, NothingIsPrepared DEF ReadInv, PreparedInv, SnapshotIsReal
    <2>6. QED  BY <1>1, <2>1, <2>3, <2>4, <2>5, NothingIsPrepared, ExportFrame
  <1>8. CASE ReturnSnapshot
    <2>1. pc' = "idle" /\ ControlOK' /\ UNCHANGED export
      BY <1>8, ControlSteps DEF ReturnSnapshot
    <2>2. QED  BY <2>1, ExportStays
  <1>9. QED  BY <1>3, <1>4, <1>5, <1>6, <1>7, <1>8 DEF ExportStep

\* A command that begins, or dies.
LEMMA ExportRestarts ==
    ASSUME TypeOK, ExportPart, BeginExport \/ CrashExport
    PROVE  ExportOK' /\ ExportPart' /\ ControlOK' /\ pc' \in {"idle", "export"}
  <1> ExportOK /\ ControlOK
    BY DEF TypeOK
  <1>1. CASE BeginExport
    <2>1. ExportWitness \in BOOLEAN
      BY DEF ExportWitness, Sealed, Bound
    <2>2. pc' = "export" /\ ControlOK' /\ UNCHANGED export
      BY <1>1, <2>1, ControlSteps DEF BeginExport, Command
    <2>3. QED  BY <2>2, ExportStays DEF Exporting, Compared
  <1>2. CASE CrashExport
    <2>1. pc' = "idle" /\ ControlOK' /\ UNCHANGED <<kind, seen, taken, snapshot>>
      BY <1>2, ControlSteps DEF CrashExport
    <2>2. UNCHANGED <<source, lived>>
      BY <2>1 DEF seen
    <2>3. staged \in Prepared
      BY DEF ExportOK, Prepared
    <2>4. /\ staged' \in Prepared
          /\ staged'.stage # "none" => staged.stage # "none" /\ staged'.tree = staged.tree
      <3>1. CASE UNCHANGED staged
        BY <2>3, <3>1
      <3>2. CASE staged.stage = "empty" /\ Stage("tornBinding")
        BY <2>3, <3>2, StageSet DEF Stages
      <3>3. CASE staged.stage = "bound" /\ Stage("tornManifest")
        BY <2>3, <3>3, StageSet DEF Stages
      <3>4. QED  BY <1>2, <3>1, <3>2, <3>3 DEF CrashExport
    <2>5. ReadInv' /\ PreparedInv' /\ SnapshotIsReal'
      BY <2>1, <2>2, <2>4
         DEF ExportPart, ReadInv, PreparedInv, SnapshotIsReal, Exporting, Compared
    <2>6. QED  BY <2>1, <2>4, <2>5, ExportFrame DEF ExportOK
  <1>3. QED  BY <1>1, <1>2

\* The predecessor goes on writing until there is a snapshot: what was read only
\* falls behind, and every tree it makes has been there.
LEMMA PredecessorKeeps ==
    ASSUME TypeOK, ExportPart, Predecessor
    PROVE  ExportOK' /\ ExportPart' /\ ControlOK' /\ pc' = pc
  <1> ExportOK /\ ControlOK
    BY DEF TypeOK
  <1>1. /\ source \in Tree /\ taken \in Tree /\ lived \in SUBSET Tree
        /\ log.patches \in Nat /\ log.shells \in Nat /\ log.open \in {"none", "called", "applied"}
    BY DEF ExportOK, Log
  <1>2. LogInv /\ ReadInv /\ PreparedInv /\ SnapshotIsReal
    BY DEF ExportPart
  <1>3. /\ ControlOK' /\ pc' = pc
        /\ UNCHANGED <<kind, taken, staged, snapshot>> /\ snapshot = None
    <2>1. Others \/ UNCHANGED <<control, drift>>
      BY DEF Predecessor, EditSource, PatchSource, CallShell, AuditShell
    <2>2. QED
      BY <2>1, ControlSteps DEF Predecessor, EditSource, PatchSource, CallShell, AuditShell
  <1>4. ASSUME source' \in Tree, log' \in Log, audit' \in {None} \cup (Nat \X Nat),
               lived' = lived \cup {source'}, source'.tracked >= source.tracked,
               source'.tracked = source.tracked /\ kind = "worktree" =>
                   source'.untracked >= source.untracked, LogInv'
        PROVE  ExportOK' /\ ExportPart'
    <2>1. ExportOK'
      BY <1>1, <1>3, <1>4 DEF ExportOK
    <2>2. source'.tracked \in Nat /\ source.tracked \in Nat /\ taken.tracked \in Nat
      BY <1>1, <1>4, TreeSet
    <2>3. ReadInv'
      BY <1>2, <1>3, <1>4, <2>2 DEF ReadInv
    <2>4. PreparedInv' /\ SnapshotIsReal'
      BY <1>2, <1>3, <1>4 DEF PreparedInv, SnapshotIsReal
    <2>5. QED  BY <1>4, <2>1, <2>3, <2>4 DEF ExportPart
  <1>5. source.tracked \in Nat /\ source.untracked \in Nat /\ source.shell \in Nat
    BY <1>1, TreeSet
  <1>6. audit # None => audit[2] \in Nat
    BY DEF ExportOK
  <1>7. CASE EditSource
    <2>1. PICK part \in {"tracked", "untracked"} : source' = [source EXCEPT ![part] = @ + 1]
      BY <1>7 DEF EditSource
    <2>2. /\ kind = "worktree" /\ UNCHANGED <<log, audit>> /\ lived' = lived \cup {source'}
      BY <1>7 DEF EditSource
    <2>3. /\ source' \in Tree /\ source'.shell = source.shell
          /\ source'.tracked >= source.tracked /\ source'.untracked >= source.untracked
      BY <1>1, <1>5, <2>1 DEF Tree
    <2>4. LogInv'
      BY <1>2, <1>3, <2>2, <2>3 DEF LogInv
    <2>5. QED  BY <1>3, <1>4, <2>2, <2>3, <2>4 DEF ExportOK
  <1>8. CASE PatchSource
    <2>1. kind = "rollout" /\ UNCHANGED audit
      BY <1>8 DEF PatchSource
    <2>2. CASE log.open = "applied" \/ log.open = "none"
      <3>1. /\ \/ log' = [log EXCEPT !.open = "called"] /\ log.open = "none"
               \/ /\ log' = [log EXCEPT !.open = "none", !.patches = @ + 1]
                  /\ log.open = "applied"
            /\ UNCHANGED <<source, lived>>
        BY <1>8, <2>2 DEF PatchSource
      <3>2. /\ log' \in Log /\ log'.shells = log.shells
            /\ \/ log'.open = "called" /\ log'.patches = log.patches /\ log.open = "none"
               \/ log'.open = "none" /\ log'.patches = log.patches + 1 /\ log.open = "applied"
        <4>1. log \in Log
          BY DEF ExportOK
        <4>2. CASE log' = [log EXCEPT !.open = "called"] /\ log.open = "none"
          BY <4>1, <4>2 DEF Log
        <4>3. CASE log' = [log EXCEPT !.open = "none", !.patches = @ + 1] /\ log.open = "applied"
          <5>1. log' = [patches |-> log.patches + 1, open |-> "none", shells |-> log.shells]
            BY <4>1, <4>3 DEF Log
          <5>2. QED  BY <1>1, <4>3, <5>1 DEF Log
        <4>4. QED  BY <3>1, <4>2, <4>3
      <3>3. LogInv'
        BY <1>2, <1>3, <2>1, <3>1, <3>2 DEF LogInv
      <3>4. lived' = lived \cup {source'}
        BY <1>2, <3>1 DEF LogInv
      <3>5. QED  BY <1>1, <1>3, <1>4, <1>5, <2>1, <3>1, <3>2, <3>3, <3>4 DEF ExportOK
    <2>3. CASE log.open = "called"
      <3>1. /\ log' = [log EXCEPT !.open = "applied"]
            /\ source' = [source EXCEPT !.tracked = @ + 1] /\ lived' = lived \cup {source'}
        BY <1>8, <2>3 DEF PatchSource
      <3>2. /\ log' \in Log /\ log'.shells = log.shells
            /\ log'.open = "applied" /\ log'.patches = log.patches
        BY <1>1, <3>1 DEF ExportOK, Log
      <3>3. /\ source' \in Tree /\ source'.tracked = source.tracked + 1
            /\ source'.untracked = source.untracked /\ source'.shell = source.shell
        BY <1>1, <1>5, <3>1 DEF Tree
      <3>4. LogInv'
        BY <1>2, <1>3, <2>1, <2>3, <3>1, <3>2, <3>3 DEF LogInv
      <3>5. QED  BY <1>3, <1>4, <1>5, <2>1, <3>1, <3>2, <3>3, <3>4 DEF ExportOK
    <2>4. QED  BY <1>1, <2>2, <2>3
  <1>9. CASE CallShell
    <2>1. PICK written \in {0, 1} : source' = [source EXCEPT !.shell = @ + written]
      BY <1>9 DEF CallShell
    <2>2. /\ kind = "rollout" /\ UNCHANGED audit /\ lived' = lived \cup {source'}
          /\ log' = [log EXCEPT !.shells = @ + 1]
      BY <1>9 DEF CallShell
    <2>3. /\ log' \in Log /\ log'.shells = log.shells + 1
          /\ log'.open = log.open /\ log'.patches = log.patches
      BY <1>1, <2>2 DEF ExportOK, Log
    <2>4. /\ source' \in Tree
          /\ source'.tracked = source.tracked /\ source'.untracked = source.untracked
      BY <1>1, <1>5, <2>1 DEF Tree
    <2>5. LogInv'
      BY <1>1, <1>2, <1>3, <1>6, <2>2, <2>3, <2>4 DEF LogInv
    <2>6. QED  BY <1>3, <1>4, <1>5, <2>2, <2>3, <2>4, <2>5 DEF ExportOK
  <1>10. CASE AuditShell
    <2>1. /\ kind = "rollout" /\ source.shell = 0 /\ audit' = <<log.patches, log.shells>>
          /\ UNCHANGED <<source, lived, log>>
      BY <1>10 DEF AuditShell, Version
    <2>2. audit' \in Nat \X Nat /\ audit'[2] = log.shells
      BY <1>1, <2>1
    <2>3. LogInv'
      BY <1>1, <1>2, <1>3, <2>1, <2>2 DEF LogInv
    <2>4. lived' = lived \cup {source'}
      BY <1>2, <2>1 DEF LogInv
    <2>5. QED  BY <1>1, <1>3, <1>4, <1>5, <2>1, <2>2, <2>3, <2>4 DEF ExportOK
  <1>11. QED  BY <1>3, <1>7, <1>8, <1>9, <1>10 DEF Predecessor

-----------------------------------------------------------------------------
(* The import. *)

\* Outside the import's own steps: nothing becomes the base again, nothing of the
\* import comes back, and the index becomes the snapshot's by nobody else.
LEMMA ImportStays ==
    ASSUME ImportPart, UNCHANGED <<tmp, anchor, marker, receipt>>,
           (pc' = pc /\ pos' = pos) \/ pc' \notin Importing,
           \A p \in Path : file[p] # "base" => file'[p] # "base",
           ilock' = "import" => ilock = "import",
           ianchor = "none" => ianchor' = "none",
           index'.tree = "new" => index.tree = "new"
    PROVE  ImportPart'
  <1>1. PathInv'
    BY DEF ImportPart, PathInv, Behind, Importing
  <1>2. IndexBehindTree'
    BY DEF ImportPart, IndexBehindTree
  <1>3. NoResidue'
    BY DEF ImportPart, NoResidue
  <1>4. QED  BY <1>1, <1>2, <1>3 DEF ImportPart

\* Where the import's files are not touched, the position alone matters.
LEMMA UntouchedImport ==
    ASSUME ImportPart, ImportOK, UNCHANGED <<import, branch>>, pc' = pc \/ pc' \notin Importing
    PROVE  ImportOK' /\ ImportPart'
  <1>1. /\ UNCHANGED <<intent, file, tmp, anchor, marker, pos, index, ilock, ianchor, receipt>>
        /\ UNCHANGED <<head, busy>>
    BY DEF import, branch
  <1>2. ImportOK'
    BY <1>1 DEF ImportOK
  <1>3. QED  BY <1>1, <1>2, ImportStays

\* There are finitely many paths, and they are gone through by number.
LEMMA Paths == Len(Plan) \in Nat /\ Path = 1..Len(Plan)
  BY PlanAssumption DEF Path

\* One path, while the command stays at it.
LEMMA AtOnePath ==
    ASSUME ImportOK, ImportPart, pc \in {"files", "move"}, pos \in Path,
           pc' \in {"files", "move"}, UNCHANGED <<pos, index, receipt>>,
           \A p \in Path \ {pos} : /\ file'[p] = file[p]
                                   /\ tmp'[p] = tmp[p] /\ anchor'[p] = anchor[p],
           file[pos] # "base" => file'[pos] # "base"
    PROVE  ImportPart'
  <1>1. ~receipt
    BY DEF ImportPart, PathInv, Importing
  <1>2. pos \in Nat /\ pos # 0 /\ \A p \in Path : p < pos => Behind(p)
    BY DEF ImportPart, PathInv, ImportOK
  <1>3. \A p \in Path : p < pos => p \in Path \ {pos}
    BY <1>2, Paths
  <1>4. PathInv'
    BY <1>1, <1>2, <1>3 DEF PathInv, Behind
  <1>5. IndexBehindTree'
    BY DEF ImportPart, IndexBehindTree
  <1>6. QED  BY <1>1, <1>4, <1>5 DEF ImportPart, NoResidue

\* The steps of materializing a path; the last leaves a path behind.
LEMMA PathKeeps ==
    ASSUME ImportOK, ControlOK, ImportPart, MaterializePath
    PROVE  ImportOK' /\ ImportPart' /\ ControlOK' /\ pc' \in {"idle", "files", "move", "index"}
  <1>1. pc \in {"files", "move"} /\ pos \in Path /\ pos \in Nat /\ ~receipt
    BY DEF MaterializePath, LinkMarker, PathConflict, WriteTemporary, LinkAnchor, ComparePath,
           ReplaceFile, RemoveFile, LinkFile, CleanPath, AtPath, ImportOK, ImportPart, PathInv,
           Importing
  <1>2. /\ file \in [Path -> {"base", "new", "foreign"}]
        /\ tmp \in [Path -> {"none", "torn", "whole", "linked"}]
        /\ anchor \in [Path -> BOOLEAN]
    BY DEF ImportOK
  <1>3. CASE PathConflict
    <2>1. /\ pc' = "idle" /\ ControlOK' /\ pos' = 0
          /\ UNCHANGED <<intent, file, tmp, anchor, marker, index, ilock, ianchor, receipt>>
          /\ UNCHANGED <<head, busy>>
      BY <1>3, ControlSteps DEF PathConflict, branch
    <2>2. ImportOK'
      BY <2>1 DEF ImportOK
    <2>3. QED  BY <2>1, <2>2, ImportStays DEF Importing
  <1>4. ASSUME Settled, marker' \in BOOLEAN,
               file' \in [Path -> {"base", "new", "foreign"}],
               tmp' \in [Path -> {"none", "torn", "whole", "linked"}],
               anchor' \in [Path -> BOOLEAN],
               \A p \in Path \ {pos} : /\ file'[p] = file[p]
                                       /\ tmp'[p] = tmp[p] /\ anchor'[p] = anchor[p],
               file[pos] # "base" => file'[pos] # "base"
        PROVE  ImportOK' /\ ImportPart' /\ ControlOK' /\ pc' = "files"
    <2>1. /\ ControlOK' /\ pc' = "files"
          /\ UNCHANGED <<intent, pos, index, ilock, ianchor, receipt, head, busy>>
      BY <1>4, ControlSteps DEF Settled, branch
    <2>2. ImportOK'
      BY <1>4, <2>1 DEF ImportOK
    <2>3. QED  BY <1>1, <1>4, <2>1, <2>2, AtOnePath
  <1>5. CASE LinkMarker
    BY <1>2, <1>4, <1>5 DEF LinkMarker
  <1>6. CASE WriteTemporary
    BY <1>1, <1>2, <1>4, <1>6 DEF WriteTemporary, Set, ImportOK
  <1>7. CASE LinkAnchor
    BY <1>1, <1>2, <1>4, <1>7 DEF LinkAnchor, Set, ImportOK
  <1>8. CASE ComparePath
    <2>1. Go("move") /\ UNCHANGED <<import, branch>>
      BY <1>8 DEF ComparePath
    <2>2. ControlOK' /\ pc' = "move"
      BY <2>1, ControlSteps
    <2>3. /\ UNCHANGED <<intent, file, tmp, anchor, marker, pos, index, ilock, ianchor, receipt>>
          /\ UNCHANGED <<head, busy>>
      BY <2>1 DEF import, branch
    <2>4. ImportOK'
      BY <2>3 DEF ImportOK
    <2>5. QED  BY <1>1, <2>2, <2>3, <2>4, AtOnePath
  <1>9. CASE ReplaceFile \/ RemoveFile \/ LinkFile
    <2>1. /\ Settled /\ UNCHANGED <<anchor, marker>> /\ file' = [file EXCEPT ![pos] = "new"]
          /\ \/ UNCHANGED tmp
             \/ tmp' = [tmp EXCEPT ![pos] = "none"] \/ tmp' = [tmp EXCEPT ![pos] = "linked"]
      BY <1>9 DEF ReplaceFile, RemoveFile, LinkFile, Set
    <2>2. /\ file' \in [Path -> {"base", "new", "foreign"}] /\ file'[pos] = "new"
          /\ \A p \in Path \ {pos} : file'[p] = file[p]
      BY <1>1, <1>2, <2>1
    <2>3. /\ tmp' \in [Path -> {"none", "torn", "whole", "linked"}]
          /\ \A p \in Path \ {pos} : tmp'[p] = tmp[p]
      BY <1>1, <1>2, <2>1
    <2>4. QED  BY <1>2, <1>4, <2>1, <2>2, <2>3 DEF ImportOK
  <1>10. CASE CleanPath
    <2>1. /\ UNCHANGED <<intent, file, marker, index, ilock, ianchor, receipt, branch>>
          /\ file[pos] = "new"
      BY <1>10 DEF CleanPath
    <2>2. CASE tmp[pos] # "none"
      <3>1. tmp' = [tmp EXCEPT ![pos] = "none"] /\ Go("files") /\ UNCHANGED <<anchor, pos>>
        BY <1>10, <2>2 DEF CleanPath, Set
      <3>2. Settled
        BY <2>1, <3>1 DEF Settled
      <3>3. QED  BY <1>1, <1>2, <1>4, <2>1, <3>1, <3>2 DEF ImportOK
    <2>3. CASE tmp[pos] = "none" /\ anchor[pos]
      <3>1. anchor' = [anchor EXCEPT ![pos] = FALSE] /\ Go("files") /\ UNCHANGED <<tmp, pos>>
        BY <1>10, <2>3 DEF CleanPath, Set
      <3>2. Settled
        BY <2>1, <3>1 DEF Settled
      <3>3. QED  BY <1>1, <1>2, <1>4, <2>1, <3>1, <3>2 DEF ImportOK
    <2>4. CASE tmp[pos] = "none" /\ ~anchor[pos]
      <3>1. pos' = pos + 1 /\ Go(NextPath) /\ UNCHANGED <<tmp, anchor>>
        BY <1>10, <2>4 DEF CleanPath
      <3>2. /\ ControlOK' /\ pc' = IF pos = Len(Plan) THEN "index" ELSE "files"
        BY <3>1, ControlSteps DEF NextPath
      <3>3. ImportOK'
        BY <1>1, <2>1, <3>1 DEF ImportOK, branch
      <3>4. \A p \in Path : p < pos + 1 => Behind(p)
        <4>1. Behind(pos)
          BY <2>1, <2>4 DEF Behind
        <4>2. \A p \in Path : p < pos + 1 => p < pos \/ p = pos
          BY <1>1, Paths
        <4>3. QED  BY <1>1, <4>1, <4>2 DEF ImportPart, PathInv
      <3>5. pos = Len(Plan) => \A p \in Path : p < pos + 1
        BY Paths
      <3>6. \A p \in Path : Behind(p) => Behind(p)'
        BY <2>1, <3>1 DEF Behind
      <3>7. PathInv'
        BY <1>1, <2>1, <3>1, <3>2, <3>4, <3>5, <3>6 DEF PathInv
      <3>8. IndexBehindTree' /\ NoResidue'
        BY <1>1, <2>1 DEF ImportPart, IndexBehindTree, NoResidue
      <3>9. QED  BY <3>2, <3>3, <3>7, <3>8 DEF ImportPart
    <2>5. QED  BY <1>1, <1>2, <2>2, <2>3, <2>4
  <1>11. QED  BY <1>3, <1>5, <1>6, <1>7, <1>8, <1>9, <1>10 DEF MaterializePath

\* The steps before the paths, and after them.
LEMMA ImportKeeps ==
    ASSUME TypeOK, ImportPart, ImportStep
    PROVE  ImportOK' /\ ImportPart' /\ ControlOK' /\ pc' \in {"idle", "imported"} \cup Importing
  <1> USE DEF Importing
  <1> ImportOK /\ ControlOK
    BY DEF TypeOK
  <1>1. /\ index \in [tree : {"base", "new", "foreign"}, stamp : Nat] /\ pos \in Nat
        /\ index.tree \in {"base", "new", "foreign"} /\ index.stamp \in Nat
    BY DEF ImportOK
  <1>2. PathInv /\ IndexBehindTree /\ NoResidue
    BY DEF ImportPart
  <1>3. CASE ReadDestination
    <2>1. /\ UNCHANGED <<import, branch>>
          /\ \/ Throw \/ Close
             \/ Go("inspect") /\ ~receipt
             \/ Go("intent") /\ ~receipt
      BY <1>3 DEF ReadDestination
    <2>2. UNCHANGED <<intent, file, tmp, anchor, marker, pos, index, ilock, ianchor, receipt>>
      BY <2>1 DEF import
    <2>3. /\ ControlOK' /\ pc' \in {"idle", "inspect", "intent"}
          /\ receipt => pc' = "idle"
      BY <2>1, ControlSteps
    <2>4. ImportOK'
      BY <2>1, <2>2 DEF ImportOK, branch
    <2>5. PathInv'
      BY <2>2, <2>3 DEF PathInv
    <2>6. IndexBehindTree' /\ NoResidue'
      BY <1>2, <2>2 DEF IndexBehindTree, NoResidue
    <2>7. QED  BY <2>3, <2>4, <2>5, <2>6 DEF ImportPart
  <1>4. CASE PublishIntent \/ Inspect
    <2>1. /\ UNCHANGED <<file, tmp, anchor, marker, pos, index, ilock, ianchor, receipt, branch>>
          /\ pc \in {"intent", "inspect"} /\ intent' \in {"none", "dir", "sealed"}
      BY <1>4 DEF PublishIntent, Inspect, import, ImportOK, SealIntent
    <2>2. Throw \/ Go("ilock") \/ Wrote("intent") \/ Wrote("inspect")
      BY <1>4 DEF PublishIntent, Inspect, SealIntent
    <2>3. /\ ControlOK' /\ pc' \in {"idle", "ilock", "intent", "inspect"}
          /\ ~receipt
      BY <1>2, <2>1, <2>2, ControlSteps DEF PathInv
    <2>4. ImportOK'
      BY <2>1 DEF ImportOK, branch
    <2>5. PathInv'
      BY <2>1, <2>3 DEF PathInv
    <2>6. IndexBehindTree' /\ NoResidue'
      BY <1>2, <2>1 DEF IndexBehindTree, NoResidue
    <2>7. QED  BY <2>3, <2>4, <2>5, <2>6 DEF ImportPart
  <1>5. ASSUME NEW l \in {"files", "index"}, TakeIndexLock(l)
        PROVE  /\ ControlOK' /\ pc' \in {"idle", pc, l}
               /\ ilock' \in {"none", "import", "git", "checkpoint"}
               /\ ianchor' \in {"none", "torn", "whole", "locked", "index"}
    BY <1>5, ControlSteps DEF TakeIndexLock, ImportOK
  <1>6. CASE AcquireIndexLock
    <2>1. /\ pc = "ilock" /\ pos' = 1
          /\ UNCHANGED <<intent, file, tmp, anchor, marker, index, receipt, branch>>
          /\ \/ (Throw \/ Go("files")) /\ UNCHANGED <<ilock, ianchor>>
             \/ TakeIndexLock("files")
      BY <1>6 DEF AcquireIndexLock
    <2>2. /\ ControlOK' /\ pc' \in {"idle", "ilock", "files"}
          /\ ilock' \in {"none", "import", "git", "checkpoint"}
          /\ ianchor' \in {"none", "torn", "whole", "locked", "index"}
      <3>1. CASE TakeIndexLock("files")
        BY <1>5, <2>1, <3>1
      <3>2. CASE (Throw \/ Go("files")) /\ UNCHANGED <<ilock, ianchor>>
        BY <3>2, ControlSteps DEF ImportOK
      <3>3. QED  BY <2>1, <3>1, <3>2
    <2>3. ImportOK'
      BY <2>1, <2>2 DEF ImportOK, branch
    <2>4. ~receipt
      BY <1>2, <2>1 DEF PathInv
    <2>5. \A p \in Path : ~(p < 1)
      BY Paths
    <2>6. PathInv'
      BY <2>1, <2>2, <2>4, <2>5 DEF PathInv
    <2>7. IndexBehindTree' /\ NoResidue'
      BY <1>2, <2>1, <2>4 DEF IndexBehindTree, NoResidue
    <2>8. QED  BY <2>2, <2>3, <2>6, <2>7 DEF ImportPart
  <1>7. CASE MaterializePath
    BY <1>7, PathKeeps
  <1>8. CASE PublishIndex
    <2>1. /\ pc = "index"
          /\ UNCHANGED <<intent, file, tmp, anchor, marker, pos, receipt, branch>>
      BY <1>8 DEF PublishIndex
    <2>2. ~receipt /\ \A p \in Path : Behind(p)
      BY <1>2, <2>1 DEF PathInv
    <2>3. /\ ControlOK' /\ pc' \in {"idle", "index", "markers"}
          /\ ilock' \in {"none", "import", "git", "checkpoint"}
          /\ ianchor' \in {"none", "torn", "whole", "locked", "index"}
          /\ index' \in [tree : {"base", "new", "foreign"}, stamp : Nat]
          /\ pc' = "markers" => ianchor' = "none" /\ ilock' # "import"
      <3>1. CASE Throw /\ UNCHANGED <<index, ilock, ianchor>>
        BY <3>1, ControlSteps DEF ImportOK
      <3>2. CASE TakeIndexLock("index") /\ UNCHANGED index
        BY <1>1, <1>5, <2>1, <3>2
      <3>3. CASE index' = Written("new") /\ ilock' = "none" /\ ianchor' = "index" /\ Go("index")
        <4>1. index' \in [tree : {"base", "new", "foreign"}, stamp : Nat]
          BY <1>1, <3>3 DEF Written
        <4>2. QED  BY <3>3, <4>1, ControlSteps
      <3>4. CASE /\ UNCHANGED <<index, ilock>> /\ ilock = "none"
                 /\ \/ ianchor' = "none" /\ Go("markers")
                    \/ UNCHANGED ianchor /\ Throw
        BY <1>1, <3>4, ControlSteps DEF ImportOK
      <3>5. QED  BY <1>8, <3>1, <3>2, <3>3, <3>4 DEF PublishIndex
    <2>4. ImportOK'
      BY <2>1, <2>3 DEF ImportOK, branch
    <2>5. \A p \in Path : Behind(p)' /\ file'[p] # "base"
      BY <2>1, <2>2 DEF Behind
    <2>6. PathInv'
      BY <2>1, <2>2, <2>3, <2>5 DEF PathInv
    <2>7. IndexBehindTree' /\ NoResidue'
      BY <2>1, <2>2, <2>5 DEF IndexBehindTree, NoResidue
    <2>8. QED  BY <2>3, <2>4, <2>6, <2>7 DEF ImportPart
  <1>9. CASE RemoveMarker \/ VerifyImport \/ PublishReceipt
    <2>1. /\ pc \in {"markers", "verify", "receipt"}
          /\ UNCHANGED <<intent, file, tmp, anchor, index, ilock, ianchor, branch>>
          /\ \/ pos' = pos \/ pos' = 0
          /\ \/ pc = "markers" /\ marker' = FALSE /\ receipt' = receipt /\ Go("verify")
             \/ /\ pc = "verify" /\ marker' = marker /\ receipt' = receipt
                /\ Go("receipt") \/ Throw
             \/ pc = "receipt" /\ marker' = marker /\ receipt' = TRUE /\ Wrote("imported")
      BY <1>9 DEF RemoveMarker, VerifyImport, PublishReceipt, import
    <2>2. /\ ianchor = "none" /\ ilock # "import" /\ ~receipt /\ \A p \in Path : Behind(p)
          /\ pc # "markers" => ~marker
      BY <1>2, <2>1 DEF PathInv
    <2>3. /\ ControlOK' /\ pc' \in {"idle", "imported", "verify", "receipt"}
          /\ pc' \in {"verify", "receipt"} => ~receipt'
      BY <2>1, <2>2, ControlSteps
    <2>4. ImportOK'
      <3>1. marker \in BOOLEAN /\ receipt \in BOOLEAN
        BY DEF ImportOK
      <3>2. marker' \in BOOLEAN
        BY <2>1, <3>1, Zenon
      <3>3. receipt' \in BOOLEAN
        BY <2>1, <3>1, Zenon
      <3>4. pos' \in Nat
        BY <1>1, <2>1
      <3>5. QED  BY <2>1, <3>2, <3>3, <3>4 DEF ImportOK, branch
    <2>5. \A p \in Path : Behind(p)'
      BY <2>1, <2>2 DEF Behind
    <2>6. ~marker'
      BY <2>1, <2>2
    <2>7. PathInv'
      BY <2>1, <2>2, <2>3, <2>5, <2>6 DEF PathInv
    <2>8. IndexBehindTree' /\ NoResidue'
      BY <2>1, <2>2, <2>5, <2>6 DEF IndexBehindTree, NoResidue, Behind
    <2>9. QED  BY <2>3, <2>4, <2>7, <2>8 DEF ImportPart
  <1>10. CASE ReturnReceipt
    <2>1. pc' = "idle" /\ ControlOK' /\ UNCHANGED <<import, branch>>
      BY <1>10, ControlSteps DEF ReturnReceipt
    <2>2. QED  BY <2>1, UntouchedImport
  <1>11. QED  BY <1>3, <1>4, <1>6, <1>7, <1>8, <1>9, <1>10 DEF ImportStep

\* A command that begins, or dies.
LEMMA ImportRestarts ==
    ASSUME TypeOK, ImportPart, BeginImport \/ CrashImport
    PROVE  ImportOK' /\ ImportPart' /\ ControlOK' /\ pc' \in {"idle", "import"}
  <1> ImportOK /\ ControlOK
    BY DEF TypeOK
  <1>1. CASE BeginImport
    <2>1. ImportWitness \in BOOLEAN
      BY DEF ImportWitness, ImportOK
    <2>2. pc' = "import" /\ ControlOK' /\ UNCHANGED <<import, branch>>
      BY <1>1, <2>1, ControlSteps DEF BeginImport, Command
    <2>3. QED  BY <2>2, UntouchedImport DEF Importing
  <1>2. CASE CrashImport
    <2>1. /\ pc' = "idle" /\ ControlOK' /\ pos' = 0
          /\ UNCHANGED <<intent, file, anchor, marker, index, ilock, receipt, branch>>
      BY <1>2, ControlSteps DEF CrashImport
    <2>2. /\ tmp' \in [Path -> {"none", "torn", "whole", "linked"}]
          /\ ianchor' \in {"none", "torn", "whole", "locked", "index"}
          /\ receipt => UNCHANGED <<tmp, ianchor>>
      <3>1. receipt => pc # "files" /\ pc # "ilock"
        BY DEF ImportPart, PathInv, Importing
      <3>2. tmp \in [Path -> {"none", "torn", "whole", "linked"}]
            /\ ianchor \in {"none", "torn", "whole", "locked", "index"}
        BY DEF ImportOK
      <3>3. \/ UNCHANGED <<tmp, ianchor>>
            \/ pc = "files" /\ tmp' = [tmp EXCEPT ![pos] = "torn"] /\ UNCHANGED ianchor
            \/ pc = "ilock" /\ ianchor' = "torn" /\ UNCHANGED tmp
        BY <1>2 DEF CrashImport, AtPath, Set
      <3>4. QED  BY <3>1, <3>2, <3>3
    <2>3. ImportOK'
      BY <2>1, <2>2 DEF ImportOK, branch
    <2>4. PathInv'
      BY <2>1 DEF PathInv, Importing
    <2>5. IndexBehindTree' /\ NoResidue'
      BY <2>1, <2>2 DEF ImportPart, IndexBehindTree, NoResidue
    <2>6. QED  BY <2>1, <2>3, <2>4, <2>5 DEF ImportPart
  <1>3. QED  BY <1>1, <1>2

-----------------------------------------------------------------------------
(* The checkpoint. *)

CheckpointPoints ==
    {"idle", "checkpoint", "capture", "lock", "fence", "abort", "finish"} \cup UnderFence

\* Where a command is not at the fence nothing is said of the fence.
LEMMA NoFence ==
    ASSUME pc' \notin {"fence", "abort", "finish"} \cup UnderFence
    PROVE  FenceInv'
  BY DEF FenceInv, UnderFence

\* What the checkpoint does to the import's part: index.lock and the branch only.
LEMMA InsideFrame ==
    ASSUME TypeOK, ImportPart, UNCHANGED Inside, pc' \notin Importing,
           ilock' \in {ilock, "none", "checkpoint"}, head' \in {head, "checkpoint"}
    PROVE  /\ ImportOK' /\ ImportPart' /\ UNCHANGED <<export, busy, index>>
  <1>1. /\ UNCHANGED <<intent, file, tmp, anchor, marker, pos, index, ianchor, receipt, busy>>
        /\ UNCHANGED export
    BY DEF Inside
  <1>2. ImportOK'
    BY <1>1 DEF TypeOK, ImportOK
  <1>3. ImportPart'
    BY <1>1, ImportStays
  <1>4. QED  BY <1>1, <1>2, <1>3

\* What a step leaves alone that touches neither the export nor the import.
LEMMA UntouchedInside ==
    UNCHANGED <<export, import, branch>> => UNCHANGED Inside /\ UNCHANGED <<ilock, head, busy, index>>
  BY DEF import, branch, Inside

\* The steps of the checkpoint: a look under the fence still holds at the move.
LEMMA CheckpointKeeps ==
    ASSUME TypeOK, ImportPart, FenceInv, CheckpointStep
    PROVE  /\ ImportOK' /\ ImportPart' /\ CheckpointOK' /\ ControlOK' /\ FenceInv'
           /\ UNCHANGED export /\ pc' \in CheckpointPoints
  <1> USE DEF CheckpointPoints, UnderFence
  <1> CheckpointOK /\ ControlOK /\ ImportOK
    BY DEF TypeOK
  <1>1. ASSUME UNCHANGED Inside, ilock' \in {ilock, "none", "checkpoint"},
               head' \in {head, "checkpoint"}, pc' \in CheckpointPoints, ControlOK',
               CheckpointOK', FenceInv'
        PROVE  /\ ImportOK' /\ ImportPart' /\ CheckpointOK' /\ ControlOK' /\ FenceInv'
               /\ UNCHANGED export /\ pc' \in CheckpointPoints
    <2>1. pc' \notin Importing
      BY <1>1 DEF Importing
    <2>2. QED  BY <1>1, <2>1, InsideFrame
  <1>2. CASE ReadRequest \/ PublishMarker \/ Fence
    <2>1. /\ UNCHANGED <<export, import, branch, ctmp, rfence, done>>
          /\ mark' \in {None} \cup Nat /\ gdir' \in {"open", "fenced"}
      BY <1>2 DEF ReadRequest, PublishMarker, Fence, checkpoint, CheckpointOK, ImportOK
    <2>2. /\ ControlOK' /\ pc' \in {"idle", "capture", "lock", "drift"}
          /\ pc' = "drift" => pc = "fence" /\ gdir' = "fenced"
      <3>1. \/ Go("capture") \/ Go("lock") \/ Wrote("lock") \/ Throw
            \/ pc = "fence" /\ gdir' = "fenced" /\ Go("drift")
        BY <1>2 DEF ReadRequest, PublishMarker, Fence
      <3>2. QED  BY <3>1, ControlSteps
    <2>3. UNCHANGED Inside /\ UNCHANGED <<ilock, head>>
      BY <2>1, UntouchedInside
    <2>4. CheckpointOK'
      BY <2>1 DEF CheckpointOK
    <2>5. FenceInv'
      BY <2>2, <2>3 DEF FenceInv
    <2>6. QED  BY <1>1, <2>2, <2>3, <2>4, <2>5
  <1>3. CASE FenceLock
    <2>1. /\ UNCHANGED <<Inside, head, mark, gdir, rfence, done>>
          /\ \/ Throw /\ UNCHANGED <<ilock, ctmp>>
             \/ Go("fence") /\ ilock = "checkpoint" /\ UNCHANGED <<ilock, ctmp>>
             \/ Go("lock") /\ ilock' \in {ilock, "checkpoint"}
                /\ ctmp' \in {"none", "whole", "linked"}
      BY <1>3 DEF FenceLock, PrepareLock
    <2>2. /\ ControlOK' /\ pc' \in {"idle", "fence", "lock"}
          /\ pc' = "fence" => ilock' = "checkpoint"
          /\ ilock' \in {ilock, "checkpoint"} /\ ctmp' \in {"none", "torn", "whole", "linked"}
      BY <2>1, ControlSteps DEF CheckpointOK
    <2>3. CheckpointOK'
      BY <2>1, <2>2 DEF CheckpointOK
    <2>4. FenceInv'
      BY <2>2 DEF FenceInv
    <2>5. QED  BY <1>1, <2>1, <2>2, <2>3, <2>4
  <1>4. CASE CheckDrift \/ MakeCommit \/ VerifyCheckpoint \/ Complete
    <2>1. /\ UNCHANGED <<export, import, branch, mark, ctmp, gdir, rfence>> /\ done' \in BOOLEAN
          /\ pc \in UnderFence
      BY <1>4 DEF CheckDrift, MakeCommit, VerifyCheckpoint, Complete, checkpoint, CheckpointOK
    <2>2. UNCHANGED Inside /\ UNCHANGED <<ilock, head, busy, index>>
      BY <2>1, UntouchedInside
    <2>3. \/ Go("callback") \/ Go("abort") \/ Go("complete") \/ Wrote("finish")
          \/ Go("ref") /\ StillAsRequested
      BY <1>4 DEF CheckDrift, MakeCommit, VerifyCheckpoint, Complete
    <2>4. /\ ControlOK' /\ pc' \in {"callback", "ref", "abort", "complete", "finish"}
          /\ pc' = "ref" => ~busy /\ index.tree = "new"
      BY <2>3, ControlSteps DEF StillAsRequested, CheckpointIndex, DestinationClean, Quiet
    <2>5. CheckpointOK'
      BY <2>1 DEF CheckpointOK
    <2>6. FenceInv'
      BY <2>1, <2>2, <2>4 DEF FenceInv
    <2>7. QED  BY <1>1, <2>2, <2>4, <2>5, <2>6
  <1>5. CASE MoveBranch
    <2>1. /\ UNCHANGED <<export, import, busy, mark, ctmp, gdir, done>> /\ pc = "ref"
          /\ rfence' \in BOOLEAN /\ head' \in {head, "checkpoint"}
      BY <1>5 DEF MoveBranch, CheckpointOK
    <2>2. UNCHANGED Inside /\ UNCHANGED <<ilock, busy, index>>
      BY <2>1 DEF import, Inside
    <2>3. Go("abort") \/ Go("ref") \/ Go("clean")
      BY <1>5 DEF MoveBranch
    <2>4. ControlOK' /\ pc' \in {"abort", "ref", "clean"}
      BY <2>3, ControlSteps
    <2>5. CheckpointOK'
      BY <2>1 DEF CheckpointOK
    <2>6. FenceInv'
      BY <2>1, <2>2, <2>4 DEF FenceInv
    <2>7. QED  BY <1>1, <2>1, <2>2, <2>4, <2>5, <2>6
  <1>6. CASE Release
    <2>1. /\ UNCHANGED <<Inside, head, mark, ctmp, rfence, done>> /\ pc \in {"abort", "finish"}
          /\ \/ gdir' = "open" /\ Go(pc) /\ UNCHANGED ilock
             \/ ilock' = "none" /\ UNCHANGED gdir /\ (Close \/ Throw)
      BY <1>6 DEF Release
    <2>2. /\ ControlOK' /\ ilock' \in {ilock, "none"} /\ gdir' \in {gdir, "open"}
          /\ pc' # "idle" => pc' \in {"abort", "finish"} /\ ilock' = ilock
      BY <2>1, ControlSteps
    <2>3. CheckpointOK'
      BY <2>1, <2>2 DEF CheckpointOK
    <2>4. FenceInv'
      BY <2>1, <2>2 DEF FenceInv
    <2>5. QED  BY <1>1, <2>1, <2>2, <2>3, <2>4
  <1>7. QED  BY <1>2, <1>3, <1>4, <1>5, <1>6 DEF CheckpointStep

\* A command that begins, or dies.
LEMMA CheckpointRestarts ==
    ASSUME TypeOK, ImportPart, BeginCheckpoint \/ CrashCheckpoint
    PROVE  /\ ImportOK' /\ ImportPart' /\ CheckpointOK' /\ ControlOK' /\ FenceInv'
           /\ UNCHANGED export /\ pc' \in CheckpointPoints
  <1> CheckpointOK /\ ControlOK /\ ImportOK
    BY DEF TypeOK
  <1>1. /\ UNCHANGED <<export, import, branch, mark, gdir, rfence, done>>
        /\ ctmp' \in {ctmp, "torn"}
    BY DEF BeginCheckpoint, CrashCheckpoint, checkpoint
  <1>2. Marked \in BOOLEAN
    BY DEF Marked
  <1>3. ControlOK' /\ pc' \in {"idle", "checkpoint"}
    BY <1>2, ControlSteps DEF BeginCheckpoint, CrashCheckpoint, Command
  <1>4. ImportOK' /\ ImportPart'
    BY <1>1, <1>3, UntouchedImport DEF Importing
  <1>5. CheckpointOK'
    BY <1>1 DEF CheckpointOK
  <1>6. FenceInv'
    BY <1>3, NoFence DEF UnderFence
  <1>7. QED  BY <1>1, <1>3, <1>4, <1>5, <1>6 DEF CheckpointPoints

-----------------------------------------------------------------------------
(* The others. *)

\* Whoever works in the successor's worktree beside the commands.
LEMMA OthersKeep ==
    ASSUME TypeOK, ImportPart, FenceInv, OthersInDestination
    PROVE  /\ ImportOK' /\ ImportPart' /\ CheckpointOK' /\ ControlOK' /\ FenceInv'
           /\ UNCHANGED export /\ pc' = pc
  <1> CheckpointOK /\ ControlOK /\ ImportOK
    BY DEF TypeOK
  <1>1. UNCHANGED <<export, checkpoint>> /\ (Others \/ UNCHANGED <<control, drift>>)
    BY DEF OthersInDestination, GitTakesIndex, GitLeavesIndex, EditFile, StartGitOperation,
           EndGitOperation, MoveRef
  <1>2. ControlOK' /\ pc' = pc
    BY <1>1, ControlSteps
  <1>3. CheckpointOK' /\ gdir' = gdir
    BY <1>1 DEF CheckpointOK, checkpoint
  <1>4. /\ UNCHANGED <<intent, tmp, anchor, marker, pos, receipt>>
        /\ \A p \in Path : file[p] # "base" => file'[p] # "base"
        /\ file' \in [Path -> {"base", "new", "foreign"}]
        /\ head' \in {head, "other", "base"} /\ busy' \in BOOLEAN
        /\ gdir # "open" => UNCHANGED <<ilock, index, busy>>
    <2>1. CASE EditFile
      <3>1. PICK p \in Path : file' = [file EXCEPT ![p] = "foreign"]
        BY <2>1 DEF EditFile, Set
      <3>2. QED  BY <2>1, <3>1 DEF EditFile, branch, ImportOK
    <2>2. CASE GitTakesIndex \/ GitLeavesIndex
      <3>1. gdir = "open"
        BY <2>2 DEF OthersInDestination, EditFile, StartGitOperation, EndGitOperation, MoveRef,
                    GitTakesIndex, GitLeavesIndex, import
      <3>2. QED  BY <2>2, <3>1 DEF GitTakesIndex, GitLeavesIndex, branch, ImportOK
    <2>3. CASE StartGitOperation \/ EndGitOperation
      BY <2>3 DEF StartGitOperation, EndGitOperation, import, ImportOK
    <2>4. CASE MoveRef
      BY <2>4 DEF MoveRef, import, ImportOK
    <2>5. QED  BY <2>1, <2>2, <2>3, <2>4 DEF OthersInDestination
  <1>5. /\ ilock' \in {"none", "import", "git", "checkpoint"}
        /\ ianchor' \in {"none", "torn", "whole", "locked", "index"}
        /\ index' \in [tree : {"base", "new", "foreign"}, stamp : Nat]
        /\ ilock' = "import" => ilock = "import"
        /\ ilock = "checkpoint" => ilock' = "checkpoint"
        /\ ianchor = "none" => ianchor' = "none"
        /\ index'.tree = "new" => index.tree = "new"
    <2>1. CASE GitLeavesIndex
      <3>1. /\ ilock = "git" /\ ilock' = "none"
            /\ \/ UNCHANGED <<index, ianchor>>
               \/ /\ \E t \in {index.tree, "foreign"} :
                         index' = [tree |-> t, stamp |-> index.stamp + 1]
                  /\ ianchor' = IF ianchor = "index" THEN "whole" ELSE ianchor
        BY <2>1 DEF GitLeavesIndex, Written
      <3>2. index.tree \in {"base", "new", "foreign"} /\ index.stamp \in Nat
        BY DEF ImportOK
      <3>3. QED  BY <3>1, <3>2 DEF ImportOK
    <2>2. CASE GitTakesIndex
      BY <2>2 DEF GitTakesIndex, ImportOK
    <2>3. CASE EditFile
      BY <2>3 DEF EditFile, ImportOK
    <2>4. CASE StartGitOperation \/ EndGitOperation \/ MoveRef
      BY <2>4 DEF StartGitOperation, EndGitOperation, MoveRef, import, ImportOK
    <2>5. QED  BY <2>1, <2>2, <2>3, <2>4 DEF OthersInDestination
  <1>6. ImportOK'
    <2>1. head' \in {"base", "checkpoint", "other"}
      BY <1>4 DEF ImportOK
    <2>2. QED  BY <1>4, <1>5, <2>1 DEF ImportOK
  <1>7. ImportPart'
    BY <1>2, <1>4, <1>5, ImportStays
  <1>8. FenceInv'
    BY <1>2, <1>3, <1>4, <1>5 DEF FenceInv, UnderFence
  <1>9. QED  BY <1>1, <1>2, <1>3, <1>6, <1>7, <1>8

-----------------------------------------------------------------------------
(* The theorems. *)

\* Every step keeps the invariant.
LEMMA NextIInv == IInv /\ [Next]_vars => IInv'
  <1>1. SUFFICES ASSUME IInv, [Next]_vars PROVE IInv'
    OBVIOUS
  <1>2. /\ TypeOK /\ ExportPart /\ ImportPart /\ FenceInv
        /\ pc \in Points /\ ControlOK /\ ExportOK /\ ImportOK /\ CheckpointOK
    BY <1>1 DEF IInv, TypeOK
  <1>3. ASSUME UNCHANGED <<import, branch, checkpoint>>, ExportOK', ExportPart', ControlOK',
               pc' = pc \/ pc' \in {"idle", "export", "exported"} \cup Exporting
        PROVE  IInv'
    <2>1. pc' = pc \/ pc' \notin Importing
      BY <1>3 DEF Importing, Exporting, Compared
    <2>2. ImportOK' /\ ImportPart'
      BY <1>2, <1>3, <2>1, UntouchedImport
    <2>3. CheckpointOK'
      BY <1>2, <1>3 DEF checkpoint, CheckpointOK
    <2>4. FenceInv'
      <3>1. UNCHANGED <<gdir, ilock, busy, index>>
        BY <1>3 DEF checkpoint, import, branch
      <3>2. CASE pc' = pc
        BY <1>2, <3>1, <3>2 DEF FenceInv
      <3>3. CASE pc' \in {"idle", "export", "exported"} \cup Exporting
        BY <3>3, NoFence DEF Exporting, Compared, UnderFence
      <3>4. QED  BY <1>3, <3>2, <3>3
    <2>5. pc' \in Points
      BY <1>2, <1>3 DEF Points, Command
    <2>6. QED  BY <1>3, <2>2, <2>3, <2>4, <2>5 DEF IInv, TypeOK
  <1>4. ASSUME UNCHANGED <<export, checkpoint>>, ImportOK', ImportPart', ControlOK',
               pc' \in {"idle", "import", "imported"} \cup Importing
        PROVE  IInv'
    <2>1. ExportOK' /\ ExportPart'
      BY <1>2, <1>4, ExportStays DEF Importing, Exporting, Compared
    <2>2. CheckpointOK'
      BY <1>2, <1>4 DEF checkpoint, CheckpointOK
    <2>3. FenceInv'
      BY <1>4, NoFence DEF Importing, UnderFence
    <2>4. pc' \in Points
      BY <1>4 DEF Points, Command
    <2>5. QED  BY <1>4, <2>1, <2>2, <2>3, <2>4 DEF IInv, TypeOK
  <1>5. ASSUME UNCHANGED export, ImportOK', ImportPart', CheckpointOK', ControlOK', FenceInv',
               pc' = pc \/ pc' \in CheckpointPoints
        PROVE  IInv'
    <2>1. ExportOK' /\ ExportPart'
      BY <1>2, <1>5, ExportStays DEF CheckpointPoints, UnderFence, Exporting, Compared
    <2>2. pc' \in Points
      BY <1>2, <1>5 DEF Points, Command, CheckpointPoints
    <2>3. QED  BY <1>5, <2>1, <2>2 DEF IInv, TypeOK
  <1>6. CASE Begin
    <2>1. CASE BeginExport /\ UNCHANGED <<import, branch, checkpoint>>
      BY <1>2, <1>3, <2>1, ExportRestarts
    <2>2. CASE BeginImport /\ UNCHANGED <<export, checkpoint>>
      BY <1>2, <1>4, <2>2, ImportRestarts
    <2>3. CASE BeginCheckpoint
      BY <1>2, <1>5, <2>3, CheckpointRestarts
    <2>4. QED  BY <1>6, <2>1, <2>2, <2>3 DEF Begin
  <1>7. CASE Step
    <2>1. CASE ExportStep /\ UNCHANGED <<import, branch, checkpoint>>
      BY <1>2, <1>3, <2>1, ExportKeeps
    <2>2. CASE ImportStep /\ UNCHANGED <<export, checkpoint>>
      BY <1>2, <1>4, <2>2, ImportKeeps
    <2>3. CASE CheckpointStep
      BY <1>2, <1>5, <2>3, CheckpointKeeps
    <2>4. QED  BY <1>7, <2>1, <2>2, <2>3 DEF Step
  <1>8. CASE Crash
    <2>1. CASE CrashExport /\ UNCHANGED <<import, branch, checkpoint>>
      BY <1>2, <1>3, <2>1, ExportRestarts
    <2>2. CASE CrashImport /\ UNCHANGED <<export, checkpoint>>
      BY <1>2, <1>4, <2>2, ImportRestarts
    <2>3. CASE CrashCheckpoint
      BY <1>2, <1>5, <2>3, CheckpointRestarts
    <2>4. QED  BY <1>8, <2>1, <2>2, <2>3 DEF Crash
  <1>9. CASE Predecessor /\ UNCHANGED <<import, branch, checkpoint>>
    BY <1>2, <1>3, <1>9, PredecessorKeeps
  <1>10. CASE OthersInDestination
    BY <1>2, <1>5, <1>10, OthersKeep
  <1>11. CASE UNCHANGED vars
    <2>1. UNCHANGED <<control, drift, export, import, branch, checkpoint>>
      BY <1>11 DEF vars
    <2>2. ControlOK' /\ pc' = pc
      BY <1>2, <2>1, ControlSteps
    <2>3. ExportOK' /\ ExportPart'
      BY <1>2, <2>1, <2>2, ExportStays
    <2>4. QED  BY <1>3, <2>1, <2>2, <2>3
  <1>12. QED  BY <1>1, <1>6, <1>7, <1>8, <1>9, <1>10, <1>11 DEF Next

\* The three commands, their crashes and retries, the predecessor, and whoever works in
\* the successor's worktree keep the invariant the other theorems rest on.
THEOREM Invariance == Spec => []IInv
  BY InitIInv, NextIInv, PTL DEF Spec

\* Types.
THEOREM TypeCorrect == Spec => []TypeOK
  <1>1. IInv => TypeOK
    BY DEF IInv
  <1>2. QED  BY <1>1, Invariance, PTL

\* A snapshot is a tree that was in the predecessor's worktree at one moment, whatever
\* it did meanwhile, and whoever published it.
THEOREM SnapshotsAreReal == Spec => []SnapshotIsReal
  <1>1. IInv => SnapshotIsReal
    BY DEF IInv, ExportPart
  <1>2. QED  BY <1>1, Invariance, PTL

\* The index never says that a path is there which is not.
THEOREM IndexStaysBehind == Spec => []IndexBehindTree
  <1>1. IInv => IndexBehindTree
    BY DEF IInv, ImportPart
  <1>2. QED  BY <1>1, Invariance, PTL

\* A receipt is found in a worktree without a trace of the import.
THEOREM ReceiptIsClean == Spec => []NoResidue
  <1>1. IInv => NoResidue
    BY DEF IInv, ImportPart
  <1>2. QED  BY <1>1, Invariance, PTL

\* What somebody saved in the successor's worktree is never passed by a comparison of its
\* path, and a rename or an unlink comes at once after one: only what is saved between
\* the two is lost.
THEOREM EditsStay == Spec => EditsKept
  <1>1. ASSUME IInv, [Next]_vars, NEW p \in Path, file[p] = "foreign", ~Passed(p)
        PROVE  file'[p] = "foreign" /\ ~Passed(p)'
    <2> TypeOK /\ ControlOK /\ ImportPart /\ ImportOK
      BY <1>1 DEF IInv, TypeOK
    <2>1. file \in [Path -> {"base", "new", "foreign"}] /\ PathInv
      BY DEF ImportOK, ImportPart
    <2>2. ASSUME file' = file \/ \E q \in Path : file' = [file EXCEPT ![q] = "foreign"],
                 pc' # "move" \/ UNCHANGED <<pc, pos>>
          PROVE  file'[p] = "foreign" /\ ~Passed(p)'
      BY <1>1, <2>1, <2>2 DEF Passed
    <2>3. CASE ComparePath
      <3>1. file' = file /\ pos' = pos /\ file[pos] = "base"
        BY <2>3 DEF ComparePath, IsBase, import
      <3>2. QED  BY <1>1, <3>1 DEF Passed
    <2>4. CASE ReplaceFile \/ RemoveFile \/ LinkFile
      <3>1. /\ pos \in Path /\ file' = [file EXCEPT ![pos] = "new"] /\ Go("files")
            /\ pc = "move" \/ file[pos] = "base"
        BY <2>1, <2>4
           DEF ReplaceFile, RemoveFile, LinkFile, AtPath, Settled, Set, PathInv
      <3>2. pos # p
        BY <1>1, <3>1 DEF Passed
      <3>3. pc' = "files"
        BY <3>1, ControlSteps
      <3>4. QED  BY <1>1, <2>1, <3>1, <3>2, <3>3 DEF Passed
    <2>5. CASE ExportStep /\ UNCHANGED <<import, branch, checkpoint>>
      <3>1. pc' # "move"
        BY <1>1, <2>5, ExportKeeps DEF IInv, Exporting, Compared
      <3>2. QED  BY <2>2, <2>5, <3>1 DEF import
    <2>6. CASE ImportStep /\ ~ComparePath /\ ~ReplaceFile /\ ~RemoveFile /\ ~LinkFile
      <3>1. /\ file' = file
            /\ \/ Throw \/ Close
               \/ \E l \in {"intent", "inspect", "ilock", "files", "index", "markers",
                            "verify", "receipt", "imported"} : Go(l) \/ Wrote(l)
        <4>1. CASE ReadDestination \/ PublishIntent \/ Inspect
          BY <4>1 DEF ReadDestination, PublishIntent, SealIntent, Inspect, import
        <4>2. CASE AcquireIndexLock \/ PublishIndex
          BY <4>2 DEF AcquireIndexLock, PublishIndex, TakeIndexLock
        <4>3. CASE MaterializePath
          BY <2>6, <4>3
             DEF MaterializePath, LinkMarker, PathConflict, WriteTemporary, LinkAnchor, CleanPath,
                 NextPath, Settled
        <4>4. CASE RemoveMarker \/ VerifyImport \/ PublishReceipt \/ ReturnReceipt
          BY <4>4 DEF RemoveMarker, VerifyImport, PublishReceipt, ReturnReceipt, import
        <4>5. QED  BY <2>6, <4>1, <4>2, <4>3, <4>4 DEF ImportStep
      <3>2. pc' # "move"
        BY <3>1, ControlSteps
      <3>3. QED  BY <2>2, <3>1, <3>2
    <2>7. CASE CheckpointStep
      <3>1. file' = file
        BY <2>7 DEF CheckpointStep, ReadRequest, PublishMarker, FenceLock, Fence, CheckDrift,
                    MakeCommit, MoveBranch, VerifyCheckpoint, Complete, Release, Inside, import
      <3>2. pc' # "move"
        BY <1>1, <2>7, CheckpointKeeps DEF IInv, CheckpointPoints, UnderFence
      <3>3. QED  BY <2>2, <3>1, <3>2
    <2>8. CASE Begin \/ Crash
      <3>1. file' = file
        BY <2>8 DEF Begin, Crash, BeginImport, CrashImport, BeginCheckpoint, CrashCheckpoint, import
      <3>2. \/ Dies \/ \E op \in Command : \E w : Enter(op, w)
        BY <2>8 DEF Begin, Crash, BeginExport, CrashExport, BeginImport, CrashImport,
                    BeginCheckpoint, CrashCheckpoint, Command
      <3>3. pc' # "move"
        BY <3>2 DEF Dies, Enter, Command
      <3>4. QED  BY <2>2, <3>1, <3>3
    <2>9. CASE Predecessor /\ UNCHANGED <<import, branch, checkpoint>>
      <3>1. pc' = pc
        BY <1>1, <2>9, PredecessorKeeps DEF IInv
      <3>2. QED  BY <2>2, <2>9, <3>1 DEF import
    <2>10. CASE OthersInDestination
      <3>1. pc' = pc
        BY <1>1, <2>10, OthersKeep DEF IInv
      <3>2. pos' = pos /\ (file' = file \/ \E q \in Path : file' = [file EXCEPT ![q] = "foreign"])
        BY <2>10 DEF OthersInDestination, EditFile, GitTakesIndex, GitLeavesIndex,
                     StartGitOperation, EndGitOperation, MoveRef, import, Set
      <3>3. QED  BY <2>2, <3>1, <3>2
    <2>11. CASE UNCHANGED vars
      BY <2>2, <2>11 DEF vars, control, import
    <2>12. QED
      BY <1>1, <2>3, <2>4, <2>5, <2>6, <2>7, <2>8, <2>9, <2>10, <2>11 DEF Next, Step
  <1>2. ASSUME IInv, [Next]_vars
        PROVE  [\A p \in Path : file[p] = "foreign" /\ ~Passed(p) =>
                   file'[p] = "foreign" /\ ~Passed(p)']_<<file, pc, pos>>
    BY <1>1, <1>2
  <1>3. QED  BY <1>2, Invariance, PTL DEF Spec, EditsKept

\* The branch is moved to the checkpoint while nothing is under way in the worktree and
\* its index is the one the commit was made of.
THEOREM CheckpointIsFenced == Spec => CheckpointUnderFence
  <1>1. ASSUME IInv, [Next]_vars, head = "base", head' = "checkpoint"
        PROVE  ~busy /\ index.tree = "new"
    <2>1. FenceInv
      BY <1>1 DEF IInv
    <2>2. CASE MoveBranch
      BY <2>1, <2>2 DEF MoveBranch, FenceInv
    <2>3. head' = head \/ head' \in {"base", "other"} \/ MoveBranch
      <3>1. CASE Begin \/ Crash
        BY <3>1 DEF Begin, Crash, BeginImport, CrashImport, BeginCheckpoint, CrashCheckpoint, branch
      <3>2. CASE ImportStep
        BY <3>2 DEF ImportStep, ReadDestination, PublishIntent, Inspect, AcquireIndexLock,
                    MaterializePath, LinkMarker, PathConflict, WriteTemporary, LinkAnchor,
                    ComparePath, ReplaceFile, RemoveFile, LinkFile, CleanPath, Settled,
                    PublishIndex, RemoveMarker, VerifyImport, PublishReceipt, ReturnReceipt, branch
      <3>3. CASE CheckpointStep
        BY <3>3 DEF CheckpointStep, ReadRequest, PublishMarker, FenceLock, Fence, CheckDrift,
                    MakeCommit, VerifyCheckpoint, Complete, Release, branch
      <3>4. CASE OthersInDestination
        BY <3>4 DEF OthersInDestination, EditFile, GitTakesIndex, GitLeavesIndex, StartGitOperation,
                    EndGitOperation, MoveRef, branch
      <3>5. CASE UNCHANGED branch
        BY <3>5 DEF branch
      <3>6. QED  BY <1>1, <3>1, <3>2, <3>3, <3>4, <3>5 DEF Next, Step, vars
    <2>4. QED  BY <1>1, <2>2, <2>3
  <1>2. ASSUME IInv, [Next]_vars
        PROVE  [head = "base" /\ head' = "checkpoint" => ~busy /\ index.tree = "new"]_vars
    BY <1>1, <1>2
  <1>3. QED  BY <1>2, Invariance, PTL DEF Spec, CheckpointUnderFence

\* The index lock of a git command is given back by that command.
THEOREM GitsIndexLockStays == Spec => GitKeepsIndexLock
  <1>1. ASSUME IInv, [Next]_vars, ilock = "git"
        PROVE  ilock' = "git" \/ GitLeavesIndex
    <2>1. FenceInv
      BY <1>1 DEF IInv
    <2>2. CASE Begin \/ Crash
      BY <1>1, <2>2
         DEF Begin, Crash, BeginImport, CrashImport, BeginCheckpoint, CrashCheckpoint, import
    <2>3. CASE ImportStep
      BY <1>1, <2>3
         DEF ImportStep, ReadDestination, PublishIntent, Inspect, AcquireIndexLock, TakeIndexLock,
             MaterializePath, LinkMarker, PathConflict, WriteTemporary, LinkAnchor, ComparePath,
             ReplaceFile, RemoveFile, LinkFile, CleanPath, Settled, PublishIndex, RemoveMarker,
             VerifyImport, PublishReceipt, ReturnReceipt, IndexRecoverable, import
    <2>4. CASE CheckpointStep
      BY <1>1, <2>1, <2>4
         DEF CheckpointStep, ReadRequest, PublishMarker, FenceLock, Fence, CheckDrift, MakeCommit,
             MoveBranch, VerifyCheckpoint, Complete, Release, FenceInv, import
    <2>5. CASE OthersInDestination
      BY <1>1, <2>5 DEF OthersInDestination, EditFile, GitTakesIndex, StartGitOperation,
                        EndGitOperation, MoveRef, import
    <2>6. CASE UNCHANGED import
      BY <1>1, <2>6 DEF import
    <2>7. QED  BY <1>1, <2>2, <2>3, <2>4, <2>5, <2>6 DEF Next, Step, vars
  <1>2. ASSUME IInv, [Next]_vars
        PROVE  [ilock = "git" => ilock' = "git" \/ GitLeavesIndex]_vars
    BY <1>1, <1>2
  <1>3. QED  BY <1>2, Invariance, PTL DEF Spec, GitKeepsIndexLock
=============================================================================
