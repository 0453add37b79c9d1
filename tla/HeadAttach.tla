----------------------------- MODULE HeadAttach -----------------------------
(***************************************************************************)
(* How the HEAD of a worker's worktree is bound to its branch, for one     *)
(* operation and for ever (worktree-bootstrap-head-router.js and the two   *)
(* transactions below it), and how the documents beside it are published   *)
(* (canary-bootstrap-artifacts.js).  No lock covers it: several processes  *)
(* may be at it, each at any step.                                         *)
(*                                                                         *)
(* An operation first takes the worktree with a durable claim that names   *)
(* one of two protocols.  "native" lets git move HEAD.  "files" writes the *)
(* new HEAD into a private fence, hard-links the fence as the lock files   *)
(* of packed-refs, the branch, the index and HEAD, looks at everything     *)
(* once more, renames HEAD.lock over HEAD, seals a completion that names   *)
(* the inode, and takes the links away again in reverse.                   *)
(*                                                                         *)
(* An inode is a number, fresh for every file that is written; what is     *)
(* compared are whole witnesses (device, inode, times, digest).  Anchors   *)
(* of claims that were never taken, claims of the format before protocols, *)
(* foreign hard links and log files are left out.                          *)
(***************************************************************************)
EXTENDS Worktree, Naturals, Sequences, FiniteSets

CONSTANTS
    Proc,
    Git,
    MaxInode      \* bound: inodes that can be told apart at one time

VARIABLES
    fence,        \* per operation: its HEAD fence
    modern,       \* is the installed git 2.50 or later?
    pc, op, item, mine    \* per process: its step, the operation it repeats, the
                          \* document or lock in hand, and the claim it makes

papers == <<doc, named, owner>>
tree   == <<head, branch, packedRefs, indexSeen>>
locks  == <<lock, fence>>
local  == <<op, mine>>

\* Documents: three of each operation, and the one claim of the worktree.
Doc   == ({"intent", "completion", "receipt"} \X Op) \cup {<<"claim", Nil>>}
Inode == 1..MaxInode
\* An operation's name is that of the lock file of its branch.
Lock  == {"packed", "index", "head"} \cup Op

Binding == [head : Inode, branch : {"loose"}, packedRefs : Nat]
Claim   == [op : Op, protocol : {"native"}, bind : {Nil}]
               \cup [op : Op, protocol : {"files"}, bind : Binding]

\* Names of locks, places of HEAD, operations and inodes are told apart.
ASSUME HeadAttachAssumption ==
    /\ MaxInode \in Nat \ {0}
    /\ Op \cap {"packed", "index", "head", "detached", "elsewhere"} = {}
    /\ Op \cap Inode = {}
    /\ Git \notin Inode \cup Op
    /\ Nil \notin Inode \cup Op \cup {Git} \cup Claim \cup [ino : Inode, whole : BOOLEAN]
                 \cup [head : Inode, branch : {"absent", "loose", "packed"}, packedRefs : Nat]

Used ==
    {head.ino} \cup {named[o] : o \in Op} \cup {lock[l] : l \in Lock}
        \cup {fence[o].ino : o \in {x \in Op : fence[x] # Nil}}
        \cup (IF owner # Nil /\ owner.bind # Nil THEN {owner.bind.head} ELSE {})
        \cup {mine[p].bind.head :
                 p \in {q \in Proc : mine[q] # Nil /\ mine[q].bind # Nil}}
Fresh == {n \in Inode \ Used : \A k \in Inode \ Used : n <= k}

-----------------------------------------------------------------------------
(* What a process does next. *)

Goto(p, label) == pc' = [pc EXCEPT ![p] = label]
At(p, label, x) == Goto(p, label) /\ item' = [item EXCEPT ![p] = x]

\* The process has answered, thrown or died.
End(p) ==
    /\ At(p, "idle", Nil)
    /\ mine' = [mine EXCEPT ![p] = Nil]
    /\ UNCHANGED op

Refuse(p) == End(p) /\ UNCHANGED <<papers, tree, locks>>
Pass(p, label) == Goto(p, label) /\ UNCHANGED <<papers, tree, locks, local, item>>

-----------------------------------------------------------------------------
(* publishPrivateJson: a staging file named after the digest of its bytes  *)
(* is written, linked to the document's name and unlinked.  "split" is a   *)
(* document whose staging file is another inode, made anew by a process    *)
(* that had found neither.                                                 *)

Mine(p, kind) == <<kind, IF kind = "claim" THEN Nil ELSE op[p]>>
Readable(d) == doc[d] \in {"split", "stable"}

\* Where a process goes on when its document is sealed.
After(d) ==
    CASE d[1] = "intent"     -> "inspect"
      [] d[1] = "claim"      -> "attach"
      [] d[1] = "completion" -> "release"
      [] d[1] = "receipt"    -> "answer"

SetDoc(d, state) ==
    /\ doc' = [doc EXCEPT ![d] = state]
    /\ UNCHANGED <<named, owner, tree, locks, local, item>>

\* A document that is there is taken as it is; its staging file is unlinked if
\* it is the same inode.
Publish(p) ==
    /\ pc[p] = "publish"
    /\ LET d == item[p]
       IN  \/ doc[d] \in {"absent", "torn", "staged"} /\ Pass(p, "stage")
           \/ doc[d] \in {"linked", "stable"} /\ Goto(p, After(d)) /\ SetDoc(d, "stable")
           \/ doc[d] = "split" /\ Refuse(p)

\* O_EXCL: a staging file that is there is left as it is.
Stage(p) ==
    /\ pc[p] = "stage"
    /\ LET d == item[p]
       IN  \/ doc[d] = "absent" /\ Goto(p, "write") /\ SetDoc(d, "torn")
           \/ doc[d] = "stable" /\ Goto(p, "link") /\ SetDoc(d, "split")
           \/ doc[d] \notin {"absent", "stable"} /\ Pass(p, "link")

Write(p) ==
    /\ pc[p] = "write"
    /\ Goto(p, "link")
    /\ SetDoc(item[p], "staged")

\* The staging file is read back: whole, and with one link.
Staged(p) ==
    /\ pc[p] = "link"
    /\ IF doc[item[p]] \in {"staged", "split"} THEN Pass(p, "linkTarget") ELSE Refuse(p)

LinkTarget(p) ==
    /\ pc[p] = "linkTarget"
    /\ LET d == item[p]
       IN  \/ doc[d] = "staged" /\ Goto(p, "linked") /\ SetDoc(d, "linked")
           \/ doc[d] \in {"linked", "split"} /\ Pass(p, "linked")
           \/ doc[d] = "stable" /\ Refuse(p)

Linked(p) ==
    /\ pc[p] = "linked"
    /\ IF doc[item[p]] = "linked" THEN Pass(p, "unlink") ELSE Refuse(p)

Unlink(p) ==
    /\ pc[p] = "unlink"
    /\ LET d == item[p]
       IN  \/ doc[d] \in {"linked", "split"} /\ Goto(p, After(d)) /\ SetDoc(d, "stable")
           \/ doc[d] = "stable" /\ Refuse(p)

Publishing(p) ==
    \/ Publish(p) \/ Stage(p) \/ Write(p) \/ Staged(p) \/ LinkTarget(p) \/ Linked(p)
    \/ Unlink(p)

\* recoverPrivateJsonPublication: an interrupted publication is closed; a
\* staging file that is cut short, or another inode, is a conflict.
Recoverable(d) == doc[d] \notin {"torn", "split"}
Recovered(d)   == [doc EXCEPT ![d] = IF @ = "linked" THEN "stable" ELSE @]

-----------------------------------------------------------------------------
(* What an operation sees of the worktree. *)

OnBranch(o)  == head.at = o
NoLocks(ls)  == \A l \in ls : lock[l] = Nil
FourLocks(o) == {"packed", o, "index", "head"}

\* assertBootstrapBranchFinalState: the branch is one loose file, nothing locked.
BranchFinal(o) == branch[o] = "loose" /\ NoLocks(FourLocks(o))

\* assertAttachedState.
AttachedState(o) ==
    /\ BranchSettled(o) /\ OnBranch(o) /\ indexSeen
    /\ branch[o] = owner.bind.branch /\ packedRefs = owner.bind.packedRefs

\* inspectTopology: the locks of the operation are links of its fence, taken
\* in this order and given back in the other.
LockOrder(o) == <<"packed", o, "index", "head">>
IsPrefix4(o) ==
    \A i, j \in 1..4 : i < j /\ lock[LockOrder(o)[j]] # Nil => lock[LockOrder(o)[i]] # Nil

Topology(o) ==
    /\ Detached \/ OnBranch(o)
    /\ IF fence[o] = Nil
       THEN NoLocks(FourLocks(o))
       ELSE /\ fence[o].whole
            /\ \A l \in FourLocks(o) : lock[l] \in {Nil, fence[o].ino}
            /\ IsPrefix4(o)
            /\ OnBranch(o) => head.ino = fence[o].ino /\ lock["head"] = Nil
AllButHead(o) == \A l \in {"packed", o, "index"} : lock[l] # Nil

-----------------------------------------------------------------------------
(* The claim. *)

NativeClaim(o) == [op |-> o, protocol |-> "native", bind |-> Nil]
FilesClaim(o)  == [op |-> o, protocol |-> "files", bind |-> Witness(o)]

\* freshFilesClaim: the files are bound before anything of the protocol exists.
Bindable(o) ==
    /\ Detached /\ branch[o] = "loose" /\ indexSeen /\ NoLocks(FourLocks(o))
    /\ fence[o] = Nil /\ ~Exists(<<"completion", o>>)

\* resolveClaimProtocol: a claim that was ever taken decides, the installed
\* git only when there is none.
Resolved(o) ==
    IF owner # Nil
    THEN IF owner.op = o /\ (\/ Exists(ClaimDoc) \/ owner.protocol = "native"
                             \/ Bindable(o) /\ owner = FilesClaim(o))
         THEN {owner} ELSE {}
    ELSE IF modern THEN {NativeClaim(o)}
    ELSE {c \in {FilesClaim(o)} : Bindable(o)}

\* What the chosen protocol asks before it takes the claim.
Claimable(o, c) ==
    /\ c.protocol = "native" => modern /\ BranchFinal(o) /\ (Detached \/ OnBranch(o))
    /\ c.protocol = "files" /\ ~Exists(ClaimDoc) => Detached \/ OnBranch(o)
    \* a HEAD that is on the branch already gets no claim after the fact
    /\ owner = Nil => Detached

\* attachWorktreeBootstrapHead up to the claim (inspectClaimOwner).
Router(p) ==
    /\ pc[p] = "router"
    /\ LET o == op[p]
           cs == {c \in Resolved(o) : Claimable(o, c)}
       IN  IF Recoverable(ClaimDoc) /\ (doc[ClaimDoc] = "linked" => owner.op = o) /\ cs # {}
           THEN \E c \in cs :
                   /\ doc' = Recovered(ClaimDoc)
                   /\ mine' = [mine EXCEPT ![p] = c]
                   /\ IF owner = Nil THEN At(p, "own", Nil) ELSE At(p, "publish", ClaimDoc)
                   /\ UNCHANGED <<named, owner, tree, locks, op>>
           ELSE Refuse(p)

\* acquireDurableClaim: the operation's anchor is linked to the name "owner".
Own(p) ==
    /\ pc[p] = "own"
    /\ IF owner \in {Nil, mine[p]}
       THEN /\ owner' = mine[p]
            /\ At(p, "publish", ClaimDoc)
            /\ UNCHANGED <<doc, named, tree, locks, local>>
       ELSE Refuse(p)

-----------------------------------------------------------------------------
(* Protocol "native". *)

NativeAttach(p) ==
    /\ pc[p] = "attach" /\ mine[p].protocol = "native"
    /\ IF BranchFinal(op[p]) /\ (Detached \/ OnBranch(op[p])) /\ (Detached => modern)
       THEN Pass(p, IF Detached THEN "symref" ELSE "settle") ELSE Refuse(p)

\* executeSymrefTransaction: git compares the commit of the branch and of HEAD
\* under its own locks and moves HEAD.
Symref(p) ==
    /\ pc[p] = "symref"
    /\ IF Detached /\ branch[op[p]] = "loose" /\ NoLocks({op[p], "head"})
       THEN \E n \in Fresh :
               /\ head' = [at |-> op[p], ino |-> n]
               /\ Goto(p, "settle")
               /\ UNCHANGED <<papers, branch, packedRefs, indexSeen, locks, local, item>>
       ELSE Refuse(p)

Settle(p) ==
    /\ pc[p] = "settle"
    /\ IF BranchFinal(op[p]) /\ OnBranch(op[p]) THEN Pass(p, "final") ELSE Refuse(p)

-----------------------------------------------------------------------------
(* Protocol "files" (attachFilesHeadTransaction). *)

\* A fence that a crash cut short is completed while nothing else is there.
Writable(o) ==
    /\ NoLocks(FourLocks(o)) /\ ~Exists(<<"completion", o>>) /\ DetachedPreimages(o)

SetFence(o, f) ==
    /\ fence' = [fence EXCEPT ![o] = f]
    /\ UNCHANGED <<papers, tree, lock, local>>

\* Mutant: a fence that was cut short is left to the topology to judge.
FilesAttach_Unrepaired(p) ==
    /\ pc[p] = "attach" /\ mine[p].protocol = "files"
    /\ IF BranchSettled(op[p]) /\ Recoverable(Mine(p, "completion"))
       THEN /\ doc' = Recovered(Mine(p, "completion"))
            /\ Goto(p, "topology")
            /\ UNCHANGED <<named, owner, tree, locks, local, item>>
       ELSE Refuse(p)

\* The completion of an earlier try is closed and its fence repaired.
FilesAttach(p) ==
    /\ pc[p] = "attach" /\ mine[p].protocol = "files"
    /\ LET o == op[p]
           cut == fence[o] # Nil /\ ~fence[o].whole
       IN  IF BranchSettled(o) /\ Recoverable(Mine(p, "completion")) /\ (cut => Writable(o))
           THEN /\ doc' = Recovered(Mine(p, "completion"))
                /\ fence' = IF cut THEN [fence EXCEPT ![o].whole = TRUE] ELSE fence
                /\ Goto(p, "topology")
                /\ UNCHANGED <<named, owner, tree, lock, local, item>>
           ELSE Refuse(p)

\* Where the transaction is, read off the links that are there.
InspectDetached(p) ==
    /\ pc[p] = "topology" /\ Detached
    /\ LET o == op[p]
       IN  IF Topology(o) /\ ~Exists(Mine(p, "completion")) /\ DetachedPreimages(o)
           THEN /\ IF fence[o] = Nil THEN At(p, "fence", Nil) ELSE At(p, "lock", "packed")
                /\ UNCHANGED <<papers, tree, locks, local>>
           ELSE Refuse(p)

\* createFence and completeFencePrefix.
CreateFence(p) ==
    /\ pc[p] = "fence"
    /\ IF fence[op[p]] = Nil
       THEN /\ \E n \in Fresh : SetFence(op[p], [ino |-> n, whole |-> FALSE])
            /\ Goto(p, "fill")
            /\ UNCHANGED item
       ELSE Refuse(p)

FillFence(p) ==
    /\ pc[p] = "fill"
    /\ LET o == op[p]
       IN  IF fence[o] # Nil /\ (IF fence[o].whole THEN Topology(o) ELSE Writable(o))
           THEN SetFence(o, [fence[o] EXCEPT !.whole = TRUE]) /\ At(p, "lock", "packed")
           ELSE Refuse(p)

\* acquireOwnedLock: link(2) does not replace, and only afterwards is looked at
\* whose lock it is.
TakeLock(p) ==
    /\ pc[p] = "lock"
    /\ IF fence[op[p]] # Nil
       THEN /\ lock' = [lock EXCEPT ![item[p]] = IF @ = Nil THEN fence[op[p]].ino ELSE @]
            /\ Goto(p, "locked")
            /\ UNCHANGED <<papers, tree, fence, local, item>>
       ELSE Refuse(p)

NextLock(o, l) == CASE l = "packed" -> o [] l = o -> "index" [] l = "index" -> "head"

Locked(p) ==
    /\ pc[p] = "locked"
    /\ IF Topology(op[p]) /\ lock[item[p]] # Nil
       THEN /\ IF item[p] = "head" THEN At(p, "recheck", Nil)
               ELSE At(p, "lock", NextLock(op[p], item[p]))
            /\ UNCHANGED <<papers, tree, locks, local>>
       ELSE Refuse(p)

\* Mutant: under the locks only the locks are looked at.
Recheck_LocksOnly(p) ==
    /\ pc[p] = "recheck"
    /\ LET o == op[p]
       IN  IF Topology(o) /\ Detached /\ fence[o] # Nil /\ AllButHead(o) /\ lock["head"] # Nil
           THEN Pass(p, "rename") ELSE Refuse(p)

\* Under all four locks everything is read once more.
Recheck(p) ==
    /\ pc[p] = "recheck"
    /\ LET o == op[p]
       IN  IF /\ Topology(o) /\ Detached /\ fence[o] # Nil
              /\ AllButHead(o) /\ lock["head"] # Nil
              /\ DetachedPreimages(o)
           THEN Pass(p, "rename") ELSE Refuse(p)

\* rename(2) moves whatever HEAD.lock is by now.
Rename(p) ==
    /\ pc[p] = "rename"
    /\ IF lock["head"] # Nil
       THEN /\ head' = IF lock["head"] = Git THEN [head EXCEPT !.at = "elsewhere"]
                       ELSE [at |-> op[p], ino |-> lock["head"]]
            /\ lock' = [lock EXCEPT !["head"] = Nil]
            /\ Goto(p, "renamed")
            /\ UNCHANGED <<papers, branch, packedRefs, indexSeen, fence, local, item>>
       ELSE Refuse(p)

\* Without a completion at the first look one has to be sealed.
Unsealed(p) ==
    \/ pc[p] = "renamed"
    \/ pc[p] = "topology" /\ ~Detached /\ ~Exists(Mine(p, "completion"))

\* Mutant: whatever HEAD is on the branch is sealed.
Seal_Backfills(p) ==
    /\ Unsealed(p)
    /\ IF Topology(op[p]) /\ AttachedState(op[p])
       THEN /\ named' = [named EXCEPT ![op[p]] = head.ino]
            /\ At(p, "publish", Mine(p, "completion"))
            /\ UNCHANGED <<doc, owner, tree, locks, local>>
       ELSE Refuse(p)

\* sealCompletion, only while the links prove who moved HEAD.
Seal(p) ==
    /\ Unsealed(p)
    /\ LET o == op[p]
       IN  IF /\ Topology(o) /\ AttachedState(o) /\ fence[o] # Nil /\ AllButHead(o)
              /\ doc[Mine(p, "completion")] # "absent" => named[o] = fence[o].ino
           THEN /\ named' = [named EXCEPT ![o] = fence[o].ino]
                /\ At(p, "publish", Mine(p, "completion"))
                /\ UNCHANGED <<doc, owner, tree, locks, local>>
           ELSE Refuse(p)

\* validateCompletion: an earlier try has sealed; only cleaning up is left.
Validate(p) ==
    /\ pc[p] = "topology" /\ ~Detached /\ Exists(Mine(p, "completion"))
    /\ LET o == op[p]
       IN  IF /\ Topology(o) /\ AttachedState(o) /\ Readable(Mine(p, "completion"))
              /\ fence[o] # Nil => named[o] = fence[o].ino
           THEN Pass(p, "release") ELSE Refuse(p)

\* removeOwnedLock, each after another look.
ReleaseLock(p, label, l, next) ==
    /\ pc[p] = label
    /\ IF Topology(op[p]) /\ (lock[l] # Nil => OnBranch(op[p]))
       THEN /\ lock' = [lock EXCEPT ![l] = Nil]
            /\ Goto(p, next)
            /\ UNCHANGED <<papers, tree, fence, local, item>>
       ELSE Refuse(p)

\* removeFence.
ReleaseFence(p) ==
    /\ pc[p] = "releaseFence"
    /\ LET o == op[p]
       IN  IF Topology(o) /\ (fence[o] # Nil => OnBranch(o) /\ NoLocks(FourLocks(o)))
           THEN Goto(p, "finalHead") /\ SetFence(o, Nil) /\ UNCHANGED item
           ELSE Refuse(p)

\* HEAD is the inode that was sealed, and nothing of the protocol is left.
FinalHead(p) ==
    /\ pc[p] = "finalHead"
    /\ LET o == op[p]
       IN  IF Topology(o) /\ fence[o] = Nil /\ head.ino = named[o] /\ AttachedState(o)
           THEN Pass(p, "final") ELSE Refuse(p)

Releasing(p) ==
    \/ ReleaseLock(p, "release", "index", "releaseBranch")
    \/ ReleaseLock(p, "releaseBranch", op[p], "releasePacked")
    \/ ReleaseLock(p, "releasePacked", "packed", "releaseFence")
    \/ ReleaseFence(p) \/ FinalHead(p)

Attaching(p) ==
    \/ Router(p) \/ Own(p)
    \/ NativeAttach(p) \/ Symref(p) \/ Settle(p)
    \/ FilesAttach(p) \/ InspectDetached(p) \/ CreateFence(p) \/ FillFence(p)
    \/ TakeLock(p) \/ Locked(p) \/ Recheck(p) \/ Rename(p)
    \/ Seal(p) \/ Validate(p) \/ Releasing(p)
=============================================================================
