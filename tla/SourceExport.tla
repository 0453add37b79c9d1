---------------------------- MODULE SourceExport ----------------------------
(***************************************************************************)
(* The first command of a source handoff (source-handoff.js): the tree the *)
(* predecessor left is read from its worktree, or rebuilt from its rollout *)
(* log, into a snapshot. The predecessor may still be alive and editing.   *)
(*                                                                         *)
(* The handoff's three commands are transactions of one control root, one  *)
(* at a time. A generation a command leaves odd is closed by a retry of    *)
(* that command alone, and only if it finds a durable witness of it.       *)
(*                                                                         *)
(* Contents are versions that never come back. A write that may be torn by *)
(* a crash is one step, torn by Crash in its place.                        *)
(***************************************************************************)
EXTENDS Naturals, FiniteSets

CONSTANTS
    None,
    MaxFaults,   \* bound on crashes
    MaxDrift     \* bound on what others do

ASSUME HandoffAssumption == {MaxFaults, MaxDrift} \subseteq Nat

VARIABLES
    pc,        \* where the command that holds the root's lock is
    odd,       \* the command the odd generation is bound to
    wrote,     \* that command did not start afresh, or has written
    faults, drift,
    kind,      \* what the snapshot is made from: "worktree" or "rollout"
    source,    \* versions of the predecessor's files: tracked, untracked, and
               \* what its shell did to them
    lived,     \* every tree that has been in its worktree
    log,       \* its rollout log: patches, the one under way, doubtful calls
    audit,     \* the log the audit of its shell calls is bound to
    taken,     \* what the export has read
    staged,    \* the directory the snapshot is prepared in
    snapshot   \* the published snapshot

control == <<pc, odd, wrote, faults>>
seen    == <<source, lived, log, audit>>
export  == <<kind, seen, taken, staged, snapshot>>

-----------------------------------------------------------------------------
(* Commands. *)

\* withLock and exactOddRecoveryLockOptions: an odd generation is entered by
\* the command it is bound to, with a witness.
Enter(op, witness) ==
    /\ pc = "idle"
    /\ odd = None \/ (odd = op /\ witness)
    /\ odd' = op /\ wrote' = (odd = op)
    /\ pc' = op
    /\ UNCHANGED <<faults, drift>>

Go(l) == pc' = l /\ UNCHANGED <<odd, wrote, faults, drift>>
Wrote(l) == pc' = l /\ wrote' = TRUE /\ UNCHANGED <<odd, faults, drift>>
Close == pc' = "idle" /\ odd' = None /\ wrote' = FALSE /\ UNCHANGED <<faults, drift>>

\* An error: only who began afresh and wrote nothing closes the generation.
Throw ==
    /\ pc' = "idle" /\ wrote' = FALSE
    /\ odd' = IF wrote THEN odd ELSE None
    /\ UNCHANGED <<faults, drift>>

Dies ==
    /\ pc # "idle" /\ faults < MaxFaults
    /\ faults' = faults + 1 /\ pc' = "idle" /\ wrote' = FALSE
    /\ UNCHANGED <<odd, drift>>

Others == drift < MaxDrift /\ drift' = drift + 1 /\ UNCHANGED control

-----------------------------------------------------------------------------
(* The prepared directory: its name and its binding say of which tree. *)

NothingStaged == [stage |-> "none", tree |-> None]
Stage(s) == staged' = [staged EXCEPT !.stage = s]

\* readPartialSnapshotBindingFile, readSnapshotArtifactsFromDirectory: a torn
\* binding or manifest is not read at all.
Unreadable == staged.stage \in {"tornBinding", "tornManifest"}

\* A manifest that is whole: it is published as it is.
Sealed == staged.stage \in {"manifest", "sealed"}

\* A directory that has its binding, in or out of the way.
Bound == staged.stage \in {"binding", "bound", "discard", "husk"}

\* authorizeExactExportOddRecovery: the snapshot, a manifest, a binding. The
\* name of an empty directory is not enough.
ExportWitness == snapshot # None \/ Sealed \/ Bound

InitExport ==
    /\ pc = "idle" /\ odd = None /\ wrote = FALSE
    /\ faults = 0 /\ drift = 0
    /\ kind \in {"worktree", "rollout"}
    /\ source = [tracked |-> 0, untracked |-> 0, shell |-> 0]
    /\ lived = {source}
    /\ log \in [patches : {0}, open : {"none"}, shells : {0, 1}]
    /\ kind = "worktree" => log.shells = 0
    /\ audit = None
    /\ taken = source
    /\ staged = NothingStaged
    /\ snapshot = None

BeginExport ==
    /\ snapshot = None \/ odd = "export"
    /\ Enter("export", ExportWitness)
    /\ UNCHANGED export

\* A snapshot that is there is the result.
Exported == snapshot # None /\ Close /\ UNCHANGED export

\* A whole manifest is published without a look at the source.
FinishPrepared ==
    /\ snapshot = None /\ Sealed
    /\ Stage("sealed") /\ Wrote("publish")
    /\ UNCHANGED <<kind, seen, taken, snapshot>>

\* readPreparedSnapshotArtifacts: what a predecessor of this command left.
ReadPrepared ==
    /\ pc = "export"
    /\ \/ Exported
       \/ FinishPrepared
       \/ /\ snapshot = None /\ Unreadable /\ Throw
          /\ UNCHANGED export
       \/ /\ snapshot = None /\ staged.stage = "void" /\ Go("tracked")
          /\ staged' = NothingStaged
          /\ UNCHANGED <<kind, seen, taken, snapshot>>
       \/ /\ snapshot = None /\ staged.stage = "binding" /\ Go("tracked")
          /\ Stage("bound")
          /\ UNCHANGED <<kind, seen, taken, snapshot>>
       \/ /\ snapshot = None /\ Go("tracked")
          /\ staged.stage \in {"none", "empty", "bound", "discard", "husk"}
          /\ UNCHANGED export

\* trackedPatch.
ReadTracked ==
    /\ pc = "tracked" /\ kind = "worktree"
    /\ taken' = [taken EXCEPT !.tracked = source.tracked]
    /\ Go("untracked")
    /\ UNCHANGED <<kind, seen, staged, snapshot>>

\* readUntrackedEntries.
ReadUntracked ==
    /\ pc = "untracked"
    /\ taken' = [taken EXCEPT !.untracked = source.untracked]
    /\ Go("stable")
    /\ UNCHANGED <<kind, seen, staged, snapshot>>

\* Mutant: what was read is taken for what is there.
Stable_Assumed == TRUE

\* assertSourceStable: the patch is taken again, and compared.
Stable == source.tracked = taken.tracked

ReadAgain ==
    /\ pc = "stable"
    /\ IF Stable THEN Go("entries") ELSE Throw
    /\ UNCHANGED export

\* assertSourceStable, the entries.
ReadEntriesAgain ==
    /\ pc = "entries"
    /\ IF source.untracked = taken.untracked THEN Go("discard") ELSE Throw
    /\ UNCHANGED export

-----------------------------------------------------------------------------
(* The rollout log. The first patch is left out: without one it is refused. *)

\* extractCodexRolloutCapture: a call without its event and its result.
LogClosed == log.open = "none"

\* rollout_file_sha256 of a log that is closed.
Version == <<log.patches, log.shells>>

\* No audit is not an audit.
ASSUME NoneAssumption == None \notin Nat \X Nat

\* Mutant: an audit of an earlier log is good enough.
ShellsVerified_AnyAudit == log.shells = 0 \/ audit # None

\* assertShellCallsAutomaticallyVerified, validateShellAuditObject: a call that
\* may have written needs an audit of this very log.
ShellsVerified == log.shells = 0 \/ audit = Version

\* expectedCodexCallTree: the patches, on the head of the launch.
Replay == [tracked |-> log.patches, untracked |-> 0, shell |-> 0]

ReadRollout ==
    /\ pc = "tracked" /\ kind = "rollout"
    /\ IF LogClosed /\ ShellsVerified
       THEN taken' = Replay /\ Go("discard")
       ELSE Throw /\ UNCHANGED taken
    /\ UNCHANGED <<kind, seen, staged, snapshot>>

\* apply_patch: the call, the change, then its event and its result.
PatchSource ==
    /\ kind = "rollout" /\ snapshot = None
    /\ \/ /\ log.open = "none" /\ Others
          /\ log' = [log EXCEPT !.open = "called"] /\ UNCHANGED <<source, lived>>
       \/ /\ log.open = "called" /\ UNCHANGED <<control, drift>>
          /\ log' = [log EXCEPT !.open = "applied"]
          /\ source' = [source EXCEPT !.tracked = @ + 1]
          /\ lived' = lived \cup {source'}
       \/ /\ log.open = "applied" /\ UNCHANGED <<control, drift>>
          /\ log' = [log EXCEPT !.open = "none", !.patches = @ + 1]
          /\ UNCHANGED <<source, lived>>
    /\ UNCHANGED <<kind, audit, taken, staged, snapshot>>

\* collectCodexTargetShellCalls: a command that may have written, and may not.
CallShell ==
    /\ kind = "rollout" /\ snapshot = None /\ log.open = "none" /\ Others
    /\ log' = [log EXCEPT !.shells = @ + 1]
    /\ \E written \in {0, 1} : source' = [source EXCEPT !.shell = @ + written]
    /\ lived' = lived \cup {source'}
    /\ UNCHANGED <<kind, audit, taken, staged, snapshot>>

\* buildCodexShellAudit: the captain vouches for every call of a log in which
\* none has written.
AuditShell ==
    /\ kind = "rollout" /\ snapshot = None
    /\ log.shells > 0 /\ LogClosed /\ source.shell = 0 /\ audit # Version
    /\ audit' = Version
    /\ UNCHANGED <<control, drift, kind, source, lived, log, taken, staged, snapshot>>

\* The tree the manifest and its binding will name: what was read, nothing else.
Unsigned == taken

\* removeUnsealedSnapshotStaging: what another attempt prepared goes, if it
\* was for the same tree; first out of the way, the binding last.
Discard ==
    /\ pc = "discard" /\ staged.stage # "none"
    /\ IF staged.tree # Unsigned
       THEN Throw /\ UNCHANGED staged
       ELSE /\ Wrote("discard")
            /\ CASE staged.stage = "bound" -> Stage("discard")
                 [] staged.stage = "discard" -> Stage("husk")
                 [] staged.stage = "husk" -> Stage("void")
                 [] OTHER -> staged' = NothingStaged
    /\ UNCHANGED <<kind, seen, taken, snapshot>>

MakeStaging ==
    /\ pc = "discard" /\ staged.stage = "none"
    /\ staged' = [stage |-> "empty", tree |-> Unsigned]
    /\ Wrote("binding")
    /\ UNCHANGED <<kind, seen, taken, snapshot>>

\* atomicWriteSnapshotProtocolJson: a temporary, then its name.
StageBinding ==
    /\ pc = "binding"
    /\ \/ staged.stage = "empty" /\ Stage("binding") /\ Wrote("binding")
       \/ staged.stage = "binding" /\ Stage("bound") /\ Wrote("payload")
    /\ UNCHANGED <<kind, seen, taken, snapshot>>

\* The patch and the entries, from what was read, then the manifest.
StageManifest ==
    /\ pc = "payload"
    /\ \/ staged.stage = "bound" /\ Stage("manifest") /\ Wrote("payload")
       \/ staged.stage = "manifest" /\ Stage("sealed") /\ Wrote("publish")
    /\ UNCHANGED <<kind, seen, taken, snapshot>>

\* publishPreparedSnapshot: the directory gets its name.
PublishSnapshot ==
    /\ pc = "publish"
    /\ snapshot' = staged.tree
    /\ staged' = NothingStaged
    /\ Wrote("exported")
    /\ UNCHANGED <<kind, seen, taken>>

\* The command returns, and its generation is closed.
ReturnSnapshot == pc = "exported" /\ Close /\ UNCHANGED export

\* The command is killed, perhaps in the middle of a temporary file.
CrashExport ==
    /\ pc \in {"export", "tracked", "untracked", "stable", "entries", "discard",
               "binding", "payload", "publish", "exported"}
    /\ Dies
    /\ \/ UNCHANGED staged
       \/ pc = "binding" /\ staged.stage = "empty" /\ Stage("tornBinding")
       \/ pc = "payload" /\ staged.stage = "bound" /\ Stage("tornManifest")
    /\ UNCHANGED <<kind, seen, taken, snapshot>>

\* The predecessor, lost or not, writes.
EditSource ==
    /\ kind = "worktree" /\ snapshot = None /\ Others
    /\ \E part \in {"tracked", "untracked"} :
           source' = [source EXCEPT ![part] = @ + 1]
    /\ lived' = lived \cup {source'}
    /\ UNCHANGED <<kind, log, audit, taken, staged, snapshot>>

Predecessor == EditSource \/ PatchSource \/ CallShell \/ AuditShell

ExportStep ==
    \/ ReadPrepared \/ ReadTracked \/ ReadUntracked \/ ReadAgain \/ ReadEntriesAgain
    \/ ReadRollout \/ Discard \/ MakeStaging \/ StageBinding \/ StageManifest
    \/ PublishSnapshot \/ ReturnSnapshot

\* What the export would read now.
Current == IF kind = "worktree" THEN source ELSE Replay

\* The export can still be closed by retries: no torn file, no bare name, what
\* is bound is bound to the tree that is there, and a log can be read.
ExportAble ==
    \/ snapshot # None
    \/ /\ ~Unreadable
       /\ pc = "idle" /\ odd = "export" => ExportWitness
       /\ \/ Sealed
          \/ /\ staged.tree \in {None, Current}
             /\ kind = "rollout" => LogClosed /\ ShellsVerified

-----------------------------------------------------------------------------
\* The snapshot is a tree that has really been there: no mixture of tracked
\* files of one moment and untracked ones of another, although they are read
\* one after the other; no replay of a log that misses what a shell wrote, or
\* that was audited before it did; across crashes, and also when it is
\* published by a command that has read nothing itself.
SnapshotIsReal == snapshot # None => snapshot \in lived
=============================================================================
