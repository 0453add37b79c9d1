------------------------------ MODULE Worktree ------------------------------
(***************************************************************************)
(* What a bootstrap leaves: the documents, the claim, and the files of git *)
(* in the worktree and in the repository it shares.  HeadAttach and        *)
(* WorkerBootstrap say how they come about.                                *)
(***************************************************************************)

CONSTANTS
    Op,           \* operations on the worktree, each with a branch of its own
    Nil

VARIABLES
    doc,          \* how far each document has been published
    named,        \* per operation: the inode its completion names
    owner,        \* the claim that has the worktree
    head,         \* the worktree's HEAD: where it points to, and its inode
    branch,       \* per operation: its branch
    packedRefs,   \* version of the packed-refs file
    indexSeen,    \* is the index the one that was observed?
    lock,         \* what the lock files are links of
    moved         \* operations whose own transaction has renamed HEAD

ClaimDoc  == <<"claim", Nil>>
Exists(d) == doc[d] \in {"linked", "split", "stable"}
Sealed(o) == doc[<<"receipt", o>>] = "stable"

Detached         == head.at = "detached"
Witness(o)       == [head |-> head.ino, branch |-> branch[o], packedRefs |-> packedRefs]
BranchSettled(o) == lock["packed"] # o    \* no fence of the branch transaction

\* assertDetachedPreimages: everything is still the very file the claim names.
DetachedPreimages(o) ==
    /\ BranchSettled(o) /\ Detached /\ indexSeen
    /\ Witness(o) = owner.bind

\* A receipt is provenance: the worktree was claimed by that operation and by
\* no other, and the files protocol sealed the very inode its own transaction
\* renamed over HEAD.
NoBackfill ==
    \A o \in Op : Sealed(o) =>
        /\ owner # Nil /\ owner.op = o
        /\ owner.protocol = "files" => o \in moved /\ named[o] # Nil
=============================================================================
