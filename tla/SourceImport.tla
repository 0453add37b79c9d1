---------------------------- MODULE SourceImport ----------------------------
(***************************************************************************)
(* The second command of a source handoff: the snapshot is written into    *)
(* the worktree of the successor, path by path, then into its index. Each  *)
(* path is secured by hard links, the index by git's own lock, and a retry *)
(* goes over everything again. Editors and git work in the same place.     *)
(*                                                                         *)
(* Between the last comparison of a file and the rename or unlink that     *)
(* follows others may save it: a window the source says it cannot close.   *)
(***************************************************************************)
EXTENDS SourceExport, Sequences

CONSTANT Plan   \* what is done to each path: "edit", "remove" or "add"

ASSUME PlanAssumption == Plan \in Seq({"edit", "remove", "add"})

VARIABLES
    intent,    \* the sealed import intent, or its empty directory
    file,      \* what a path holds: the base, the snapshot, somebody's work
    tmp,       \* the temporary of a path
    anchor,    \* a second name of its base
    marker,    \* the hard link of the intent beside the paths
    pos,       \* the path the command is at; with pc = "move" it has compared it
               \* for the last time, and its rename or unlink is next
    index,     \* the tree in the index, and how often it was written
    ilock,     \* who holds index.lock
    ianchor,   \* the new index: its file, and what else is a name of it
    receipt,
    head,      \* the branch of the successor
    busy       \* a merge, rebase or bisect is under way there

import == <<intent, file, tmp, anchor, marker, pos, index, ilock, ianchor, receipt>>
branch == <<head, busy>>
Path == 1..Len(Plan)

InitImport ==
    /\ intent = "none" /\ receipt = FALSE /\ marker = FALSE /\ pos = 0
    /\ file = [p \in Path |-> "base"]
    /\ tmp = [p \in Path |-> "none"]
    /\ anchor = [p \in Path |-> FALSE]
    /\ index = [tree |-> "base", stamp |-> 0]
    /\ ilock = "none" /\ ianchor = "none"
    /\ head = "base" /\ busy = FALSE

Set(f, p, v) == [f EXCEPT ![p] = v]
Written(tree) == [tree |-> tree, stamp |-> index.stamp + 1]

\* No path is anything but its base or its snapshot.
Planned == \A p \in Path : file[p] # "foreign"
Materialized == \A p \in Path : file[p] = "new"

\* assertNoGitOperationInProgress.
Quiet == ~busy

-----------------------------------------------------------------------------
(* The intent. *)

\* authorizeExactImportOddRecovery knows the sealed intent and the receipt, the
\* store itself a directory it was about to publish the intent in.
ImportWitness == intent # "none" \/ receipt

BeginImport ==
    /\ snapshot # None
    /\ ~receipt \/ odd = "import"
    /\ Enter("import", ImportWitness)
    /\ UNCHANGED <<import, branch>>

\* recoverImportIntentStaging: a directory without the file is not sealed yet.
IntentSealed == intent = "sealed"

\* The destination, once it is known that there is no receipt.
ReadDestination ==
    /\ pc = "import"
    /\ IF ~Quiet THEN Throw
       ELSE IF receipt THEN Close
       ELSE IF head # "base" THEN Throw
       ELSE Go(IF IntentSealed THEN "inspect" ELSE "intent")
    /\ UNCHANGED <<import, branch>>

\* publishImportIntent: the directory, then the file.
SealIntent ==
    \/ intent = "none" /\ intent' = "dir" /\ Wrote("intent")
    \/ intent = "dir" /\ intent' = "sealed" /\ Wrote("inspect")

\* What the destination is like is looked at later.
PublishIntent ==
    /\ pc = "intent" /\ SealIntent
    /\ UNCHANGED <<file, tmp, anchor, marker, pos, index, ilock, ianchor, receipt, branch>>

\* assertImportIndexRecoveryState: a lock that is there is the link of ours.
IndexRecoverable == ilock \in {"none", "import"}

\* inspectImportMaterialization.
Inspect ==
    /\ pc = "inspect"
    /\ IF Quiet /\ IndexRecoverable /\ Planned /\ index.tree \in {"base", "new"}
       THEN Go("ilock") ELSE Throw
    /\ UNCHANGED <<import, branch>>

-----------------------------------------------------------------------------
(* The index lock and the new index. *)

\* ensureCompleteImportIndexAnchor, and the link that makes it git's lock.
TakeIndexLock(next) ==
    \/ /\ ilock = "import" /\ Go(next) /\ UNCHANGED <<ilock, ianchor>>
    \/ /\ ilock = "git" /\ Throw /\ UNCHANGED <<ilock, ianchor>>
    \/ /\ ilock = "none" /\ ianchor \in {"none", "torn"}
       /\ ianchor' = "whole" /\ Go(pc) /\ UNCHANGED ilock
    \/ /\ ilock = "none" /\ ianchor = "whole"
       /\ ianchor' = "locked" /\ ilock' = "import" /\ Go(next)

\* acquireImportIndexPublicationLock.
AcquireIndexLock ==
    /\ pc = "ilock"
    /\ \/ ~IndexRecoverable /\ Throw /\ UNCHANGED <<ilock, ianchor>>
       \/ /\ IndexRecoverable /\ index.tree = "new"
          /\ Go("files") /\ UNCHANGED <<ilock, ianchor>>
       \/ /\ IndexRecoverable /\ index.tree = "foreign"
          /\ Throw /\ UNCHANGED <<ilock, ianchor>>
       \/ index.tree = "base" /\ TakeIndexLock("files")
    /\ pos' = 1
    /\ UNCHANGED <<intent, file, tmp, anchor, marker, index, receipt, branch>>

\* Mutant: the index is published before the last path is there.
NextPath_Early == IF pos + 1 = Len(Plan) THEN "index" ELSE "files"

NextPath == IF pos = Len(Plan) THEN "index" ELSE "files"

\* publishImportIndex: the lock is renamed to the index, then the anchor goes.
PublishIndex ==
    /\ pc = "index"
    /\ \/ ~IndexRecoverable /\ Throw /\ UNCHANGED <<index, ilock, ianchor>>
       \/ /\ IndexRecoverable /\ index.tree = "foreign"
          /\ Throw /\ UNCHANGED <<index, ilock, ianchor>>
       \/ /\ index.tree = "base" /\ ilock = "none"
          /\ TakeIndexLock("index") /\ UNCHANGED index
       \/ /\ index.tree = "base" /\ ilock = "import"
          /\ index' = Written("new") /\ ilock' = "none" /\ ianchor' = "index"
          /\ Go("index")
       \/ /\ index.tree = "new" /\ ilock = "none"
          /\ CASE ianchor = "index" -> ianchor' = "none" /\ Go("markers")
               [] ianchor = "none" -> ianchor' = "none" /\ Go("markers")
               [] OTHER -> UNCHANGED ianchor /\ Throw
          /\ UNCHANGED <<index, ilock>>
    /\ UNCHANGED <<intent, file, tmp, anchor, marker, pos, receipt, branch>>

-----------------------------------------------------------------------------
(* One path. *)

Here == Plan[pos]
AtPath == pc = "files" /\ pos \in Path
Settled == /\ Go("files")
           /\ UNCHANGED <<intent, pos, index, ilock, ianchor, receipt, branch>>

\* ensureImportParentMarker.
LinkMarker ==
    /\ AtPath /\ ~marker /\ marker' = TRUE
    /\ Settled /\ UNCHANGED <<file, tmp, anchor>>

\* trackedMaterializationState: neither the base nor the snapshot.
PathConflict ==
    /\ AtPath /\ marker /\ file[pos] = "foreign" /\ Throw
    /\ pos' = 0
    /\ UNCHANGED <<intent, file, tmp, anchor, marker, index, ilock, ianchor, receipt, branch>>

\* Mutant: what is at the path is not compared with the anchor again.
IsBase_Unchecked(p) == file[p] \in {"base", "foreign"}

\* ensureTrackedBaseAnchor, trackedMaterializationState.
IsBase(p) == file[p] = "base"

\* inspectImportEntryTemporary, inspectTrackedImportTemporary: a temporary
\* that is not whole is made again.
Unfinished(p) == tmp[p] \in {"none", "torn"}

\* writeTrackedImportTemporary, createImportEntryTemporary.
WriteTemporary ==
    /\ AtPath /\ marker /\ Here # "remove"
    /\ file[pos] = "base" /\ Unfinished(pos)
    /\ tmp' = Set(tmp, pos, "whole")
    /\ Settled /\ UNCHANGED <<file, anchor, marker>>

LinkAnchor ==
    /\ AtPath /\ marker /\ Here # "add" /\ file[pos] = "base" /\ ~anchor[pos]
    /\ Here = "edit" => tmp[pos] = "whole"
    /\ anchor' = Set(anchor, pos, TRUE)
    /\ Settled /\ UNCHANGED <<file, tmp, marker>>

\* The last ensureTrackedBaseAnchor: the anchor says it still is the base.
ComparePath ==
    /\ AtPath /\ marker /\ anchor[pos] /\ IsBase(pos)
    /\ \/ Here = "edit" /\ tmp[pos] = "whole"
       \/ Here = "remove"
    /\ Go("move")
    /\ UNCHANGED <<import, branch>>

\* renameSync: over whatever is there by now.
ReplaceFile ==
    /\ pc = "move" /\ Here = "edit"
    /\ file' = Set(file, pos, "new") /\ tmp' = Set(tmp, pos, "none")
    /\ Settled /\ UNCHANGED <<anchor, marker>>

\* unlinkSync.
RemoveFile ==
    /\ pc = "move" /\ Here = "remove"
    /\ file' = Set(file, pos, "new")
    /\ Settled /\ UNCHANGED <<tmp, anchor, marker>>

\* promoteImportEntryTemporary: a link refuses to replace.
LinkFile ==
    /\ AtPath /\ marker /\ Here = "add" /\ tmp[pos] = "whole" /\ file[pos] = "base"
    /\ file' = Set(file, pos, "new") /\ tmp' = Set(tmp, pos, "linked")
    /\ Settled /\ UNCHANGED <<anchor, marker>>

\* Mutant: a path that is as expected needs nothing.
CleanPath_Skipped ==
    /\ AtPath /\ marker /\ file[pos] = "new"
    /\ pos' = pos + 1 /\ Go(NextPath)
    /\ UNCHANGED <<intent, file, tmp, anchor, marker, index, ilock, ianchor, receipt, branch>>

\* cleanupTrackedImportTemporary, cleanupTrackedBaseAnchor, and on.
CleanPath ==
    /\ AtPath /\ marker /\ file[pos] = "new"
    /\ IF tmp[pos] # "none"
       THEN tmp' = Set(tmp, pos, "none") /\ Go("files") /\ UNCHANGED <<anchor, pos>>
       ELSE IF anchor[pos]
       THEN anchor' = Set(anchor, pos, FALSE) /\ Go("files") /\ UNCHANGED <<tmp, pos>>
       ELSE pos' = pos + 1 /\ Go(NextPath) /\ UNCHANGED <<tmp, anchor>>
    /\ UNCHANGED <<intent, file, marker, index, ilock, ianchor, receipt, branch>>

MaterializePath ==
    \/ LinkMarker \/ PathConflict \/ WriteTemporary \/ LinkAnchor
    \/ ComparePath \/ ReplaceFile \/ RemoveFile \/ LinkFile \/ CleanPath

-----------------------------------------------------------------------------
(* The end. *)

\* cleanupImportParentMarkers; the intent has one name again.
RemoveMarker ==
    /\ pc = "markers"
    /\ marker' = FALSE /\ Go("verify")
    /\ UNCHANGED <<intent, file, tmp, anchor, pos, index, ilock, ianchor, receipt, branch>>

\* Nothing unstaged, nothing untracked, the expected tree, no git operation.
VerifyImport ==
    /\ pc = "verify"
    /\ IF Materialized /\ index.tree = "new" /\ Quiet THEN Go("receipt") ELSE Throw
    /\ UNCHANGED <<import, branch>>

PublishReceipt ==
    /\ pc = "receipt"
    /\ receipt' = TRUE /\ Wrote("imported")
    /\ pos' = 0
    /\ UNCHANGED <<intent, file, tmp, anchor, marker, index, ilock, ianchor, branch>>

\* The command returns, and its generation is closed.
ReturnReceipt == pc = "imported" /\ Close /\ UNCHANGED <<import, branch>>

\* The command is killed, perhaps in the middle of a temporary file.
CrashImport ==
    /\ pc \in {"import", "intent", "inspect", "ilock", "files", "move", "index",
               "markers", "verify", "receipt", "imported"}
    /\ Dies
    /\ \/ UNCHANGED <<tmp, ianchor>>
       \/ /\ AtPath /\ Here # "remove" /\ marker
          /\ file[pos] = "base" /\ tmp[pos] = "none"
          /\ tmp' = Set(tmp, pos, "torn") /\ UNCHANGED ianchor
       \/ /\ pc = "ilock" /\ index.tree = "base" /\ ilock = "none" /\ ianchor = "none"
          /\ ianchor' = "torn" /\ UNCHANGED tmp
    /\ pos' = 0
    /\ UNCHANGED <<intent, file, anchor, marker, index, ilock, receipt, branch>>

ImportStep ==
    \/ ReadDestination \/ PublishIntent \/ Inspect \/ AcquireIndexLock \/ MaterializePath
    \/ PublishIndex \/ RemoveMarker \/ VerifyImport \/ PublishReceipt
    \/ ReturnReceipt

-----------------------------------------------------------------------------
(* The others, in the worktree of the successor. *)

\* Somebody saves a file.
EditFile ==
    /\ Others
    /\ \E p \in Path : file[p] # "foreign" /\ file' = Set(file, p, "foreign")
    /\ UNCHANGED <<intent, tmp, anchor, marker, pos, index, ilock, ianchor, receipt, branch>>

\* A git command takes the index, and puts it back: as it was, with fresher
\* times, or with something else staged.
GitTakesIndex ==
    /\ ilock = "none" /\ ilock' = "git" /\ Others
    /\ UNCHANGED <<intent, file, tmp, anchor, marker, pos, index, ianchor, receipt, branch>>

GitLeavesIndex ==
    /\ ilock = "git" /\ ilock' = "none"
    /\ \/ UNCHANGED <<index, ianchor>>
       \/ /\ \E t \in {index.tree, "foreign"} : index' = Written(t)
          /\ ianchor' = IF ianchor = "index" THEN "whole" ELSE ianchor
    /\ UNCHANGED <<control, drift, intent, file, tmp, anchor, marker, pos, receipt, branch>>

-----------------------------------------------------------------------------
\* The path is compared, and about to be replaced or removed.
Passed(p) == pc = "move" /\ pos = p

\* What somebody saved in the successor's worktree is overwritten or removed only if
\* it was saved after the last comparison of its path, with the rename or unlink of
\* a command that runs as its next step (the race source-handoff.js names at 8094):
\* anything saved earlier stays, and is never passed by a comparison, whatever an
\* earlier command had prepared for the path, and wherever it died.
EditsKept ==
    [][\A p \in Path : file[p] = "foreign" /\ ~Passed(p) =>
           file'[p] = "foreign" /\ ~Passed(p)']_<<file, pc, pos>>

\* An index that says the snapshot is there is right: it never runs ahead of
\* the paths, across crashes and retries, so that a commit of it loses nothing.
IndexBehindTree == index.tree = "new" => \A p \in Path : file[p] # "base"

\* Who finds a receipt finds a worktree without a trace of the import: no
\* temporary, no second name of a base, no marker, no lock, whichever retry
\* wrote the receipt and wherever its predecessors died.
NoResidue ==
    receipt =>
        /\ ~marker /\ ilock # "import" /\ ianchor = "none"
        /\ \A p \in Path : tmp[p] = "none" /\ ~anchor[p]
=============================================================================
