-------------------------- MODULE SourceCheckpoint --------------------------
(***************************************************************************)
(* The third command of a source handoff, and the whole of it: the         *)
(* imported tree becomes one commit with predetermined content, and the    *)
(* branch of the successor is moved to it while git is kept out of the     *)
(* worktree: index.lock is held and the directory of its metadata is       *)
(* read-only. Other worktrees of the repository may still move the branch. *)
(*                                                                         *)
(* The move itself (executeLooseRefTransaction) is the subject of GitRef;  *)
(* here it is its fence file and one step that compares and sets.          *)
(***************************************************************************)
EXTENDS SourceImport

VARIABLES
    mark,    \* the sealed marker: which writing of the index it has captured
    ctmp,    \* the temporary of the lock
    gdir,    \* the metadata directory of the worktree: "open" or "fenced"
    rfence,  \* the fence file of the move
    done     \* the record of the completion

checkpoint == <<mark, ctmp, gdir, rfence, done>>
vars == <<control, drift, export, import, branch, checkpoint>>

Init ==
    /\ InitExport /\ InitImport
    /\ mark = None /\ ctmp = "none" /\ gdir = "open" /\ rfence = FALSE /\ done = FALSE

\* assertRecoveryCheckpointIndex, assertDestinationClean.
DestinationClean == Quiet /\ Materialized
CheckpointIndex == DestinationClean /\ index.tree = "new"

\* readCheckpointGitFenceMarker.
Marked == mark # None
Inside == <<export, intent, file, tmp, anchor, marker, pos, index, ianchor, receipt, busy>>

-----------------------------------------------------------------------------
\* authorizeExactCheckpointOddRecovery: the marker is the witness. A finished
\* request is repeated when the branch is back at the base.
BeginCheckpoint ==
    /\ receipt
    /\ ~done \/ head = "base" \/ odd = "checkpoint"
    /\ Enter("checkpoint", Marked)
    /\ UNCHANGED <<export, import, branch, checkpoint>>

\* HANDOFF_CHECKPOINT_HEAD_MISMATCH: the commit can be named before it is made.
HeadExpected == head \in {"base", "checkpoint"}

\* The request, and a marker that is there already.
ReadRequest ==
    /\ pc = "checkpoint"
    /\ IF HeadExpected THEN Go(IF Marked THEN "lock" ELSE "capture") ELSE Throw
    /\ UNCHANGED <<export, import, branch, checkpoint>>

\* captureRecoveryCheckpointIndex.
Capturable == ilock = "none" /\ CheckpointIndex

\* publishCheckpointGitFenceMarker.
PublishMarker ==
    /\ pc = "capture"
    /\ IF Capturable
       THEN Wrote("lock") /\ mark' = index.stamp
       ELSE Throw /\ UNCHANGED mark
    /\ UNCHANGED <<export, import, branch, ctmp, gdir, rfence, done>>

\* The temporary of the lock: the marker's token, whole or not.
PrepareLock ==
    \/ ctmp = "none" /\ ctmp' = "whole"
    \/ ctmp = "torn" /\ ctmp' = "none"

\* Mutant: a lock that is there is somebody's.
FenceLock_NoReentry ==
    /\ pc = "lock"
    /\ \/ ilock # "none" /\ Throw /\ UNCHANGED <<ilock, ctmp>>
       \/ ilock = "none" /\ PrepareLock /\ Go("lock") /\ UNCHANGED ilock
       \/ ilock = "none" /\ ctmp = "whole" /\ ilock' = "checkpoint" /\ ctmp' = "none" /\ Go("fence")
    /\ UNCHANGED <<Inside, head, mark, gdir, rfence, done>>

\* acquireCheckpointGitFenceLock: a temporary, linked to index.lock; or the
\* lock a predecessor has left, which holds the token of the marker.
FenceLock ==
    /\ pc = "lock"
    /\ \/ ilock = "git" /\ Throw /\ UNCHANGED <<ilock, ctmp>>
       \/ ilock = "checkpoint" /\ ctmp = "none" /\ Go("fence") /\ UNCHANGED <<ilock, ctmp>>
       \/ ilock = "checkpoint" /\ ctmp # "none" /\ ctmp' = "none" /\ Go("lock") /\ UNCHANGED ilock
       \/ ilock = "none" /\ PrepareLock /\ Go("lock") /\ UNCHANGED ilock
       \/ /\ ilock = "none" /\ ctmp = "whole"
          /\ ilock' = "checkpoint" /\ ctmp' = "linked" /\ Go("lock")
    /\ UNCHANGED <<Inside, head, mark, gdir, rfence, done>>

\* Mutant: the lock alone is thought to keep git out.
Fence_LockOnly ==
    /\ pc = "fence" /\ Go("drift")
    /\ UNCHANGED <<export, import, branch, checkpoint>>

\* withGitIndexFence: the directory becomes read-only.
Fence ==
    /\ pc = "fence"
    /\ gdir' = "fenced" /\ Go("drift")
    /\ UNCHANGED <<export, import, branch, mark, ctmp, rfence, done>>

\* Under the fence the index is still the one of the marker.
CheckDrift ==
    /\ pc = "drift"
    /\ Go(IF index.stamp = mark THEN "callback" ELSE "abort")
    /\ UNCHANGED <<export, import, branch, checkpoint>>

\* What was looked at before the fence is looked at again under it.
StillAsRequested == HeadExpected /\ CheckpointIndex

\* The callback of checkpointRecoverySource, up to the move: the commit is
\* made, or it is there and its index is looked at again.
MakeCommit ==
    /\ pc = "callback"
    /\ Go(IF StillAsRequested THEN "ref" ELSE "abort")
    /\ UNCHANGED <<export, import, branch, checkpoint>>

\* executeLooseRefTransaction between the base and the checkpoint.
MoveBranch ==
    /\ pc = "ref"
    /\ \/ head = "other" /\ Go("abort") /\ UNCHANGED <<head, rfence>>
       \/ head = "base" /\ ~rfence /\ rfence' = TRUE /\ Go("ref") /\ UNCHANGED head
       \/ head = "base" /\ rfence /\ head' = "checkpoint" /\ Go("ref") /\ UNCHANGED rfence
       \/ head = "checkpoint" /\ rfence /\ rfence' = FALSE /\ Go("ref") /\ UNCHANGED head
       \/ head = "checkpoint" /\ ~rfence /\ Go("clean") /\ UNCHANGED <<head, rfence>>
    /\ UNCHANGED <<export, import, busy, mark, ctmp, gdir, done>>

\* What is in the worktree is what is in the commit.
VerifyCheckpoint ==
    /\ pc = "clean"
    /\ Go(IF head = "checkpoint" /\ DestinationClean THEN "complete" ELSE "abort")
    /\ UNCHANGED <<export, import, branch, checkpoint>>

\* publishCheckpointGitFenceCompletion.
Complete ==
    /\ pc = "complete"
    /\ done' = TRUE /\ Wrote("finish")
    /\ UNCHANGED <<export, import, branch, mark, ctmp, gdir, rfence>>

\* The finally of withGitIndexFence, after a result and after an error.
Release ==
    /\ pc \in {"abort", "finish"}
    /\ IF gdir = "fenced"
       THEN gdir' = "open" /\ Go(pc) /\ UNCHANGED ilock
       ELSE /\ ilock' = "none" /\ UNCHANGED gdir
            /\ IF pc = "finish" THEN Close ELSE Throw
    /\ UNCHANGED <<Inside, head, mark, ctmp, rfence, done>>

\* The command is killed, perhaps in the middle of the temporary of its lock.
CrashCheckpoint ==
    /\ pc \in {"checkpoint", "capture", "lock", "fence", "drift", "callback", "ref",
               "clean", "complete", "abort", "finish"}
    /\ Dies
    /\ \/ UNCHANGED ctmp
       \/ pc = "lock" /\ ilock = "none" /\ ctmp = "none" /\ ctmp' = "torn"
    /\ UNCHANGED <<export, import, branch, mark, gdir, rfence, done>>

CheckpointStep ==
    \/ ReadRequest \/ PublishMarker \/ FenceLock \/ Fence \/ CheckDrift
    \/ MakeCommit \/ MoveBranch \/ VerifyCheckpoint \/ Complete \/ Release

-----------------------------------------------------------------------------
(* The others. *)

\* git merge, git bisect: a sentinel in the directory of the metadata.
StartGitOperation ==
    /\ gdir = "open" /\ ~busy /\ Others
    /\ busy' = TRUE
    /\ UNCHANGED <<export, import, head, checkpoint>>

EndGitOperation ==
    /\ gdir = "open" /\ busy /\ busy' = FALSE
    /\ UNCHANGED <<control, drift, export, import, head, checkpoint>>

\* The branch is moved from another worktree, or put back to the base.
MoveRef ==
    /\ Others
    /\ \/ head # "other" /\ head' = "other"
       \/ done /\ head = "checkpoint" /\ head' = "base"
    /\ UNCHANGED <<export, import, busy, checkpoint>>

\* They matter from the import on; before it they would only find the base.
OthersInDestination ==
    /\ snapshot # None
    /\ \/ /\ gdir = "open"
          /\ GitTakesIndex \/ GitLeavesIndex
          /\ UNCHANGED <<export, checkpoint>>
       \/ EditFile /\ UNCHANGED <<export, checkpoint>>
       \/ StartGitOperation
       \/ EndGitOperation
       \/ MoveRef

Begin ==
    \/ BeginExport /\ UNCHANGED <<import, branch, checkpoint>>
    \/ BeginImport /\ UNCHANGED <<export, checkpoint>>
    \/ BeginCheckpoint

Step ==
    \/ ExportStep /\ UNCHANGED <<import, branch, checkpoint>>
    \/ ImportStep /\ UNCHANGED <<export, checkpoint>>
    \/ CheckpointStep

Crash ==
    \/ CrashExport /\ UNCHANGED <<import, branch, checkpoint>>
    \/ CrashImport /\ UNCHANGED <<export, checkpoint>>
    \/ CrashCheckpoint

Next ==
    \/ Begin
    \/ Step
    \/ Crash
    \/ Predecessor /\ UNCHANGED <<import, branch, checkpoint>>
    \/ OthersInDestination

Spec == Init /\ [][Next]_vars

\* Whoever waits for the handoff repeats its next command, a command that runs
\* goes on, and git gives its lock back.
FairSpec ==
    /\ Spec
    /\ WF_vars(Begin) /\ WF_vars(Step)
    /\ WF_vars(GitLeavesIndex /\ UNCHANGED <<export, checkpoint>>)

-----------------------------------------------------------------------------
\* The branch becomes the checkpoint only while nothing else is under way in
\* the worktree and its index is still the one the commit was made of: what
\* was looked at before the move still holds at the move, without a lock of
\* git's own on the operations it is about.
CheckpointUnderFence ==
    [][head = "base" /\ head' = "checkpoint" => ~busy /\ index.tree = "new"]_vars

\* No command takes away the index lock a git command holds, not in the clean-up after
\* an error and not when its retry finds a lock where its own would be.
GitKeepsIndexLock == [][ilock = "git" => ilock' = "git" \/ GitLeavesIndex]_vars

\* Nothing others did stands in the way: no edit, no operation, no foreign
\* index or branch; and no crash left what no retry can enter: an odd
\* generation without a witness, an index rewritten behind an anchor or a
\* marker.
Able ==
    /\ ExportAble
    /\ Planned /\ ~busy /\ index.tree # "foreign" /\ head # "other"
    /\ pc = "idle" /\ odd = "import" => ImportWitness
    /\ pc = "idle" /\ odd = "checkpoint" => Marked
    /\ ianchor \in {"whole", "locked"} => index.tree = "base"
    /\ Marked => mark = index.stamp

Completed ==
    /\ done /\ head = "checkpoint" /\ odd = None
    /\ gdir = "open" /\ ilock # "checkpoint" /\ ~rfence

\* Exact retries bring a handoff to its end, wherever its commands were
\* killed: the branch is the checkpoint, and git has its worktree back.
HandoffCompletes == <>[]Able => <>[]Completed
=============================================================================
