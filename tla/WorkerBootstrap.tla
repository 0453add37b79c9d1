--------------------------- MODULE WorkerBootstrap ---------------------------
(***************************************************************************)
(* canaryBootstrapPrepare (canary-bootstrap.js): a worker's worktree gets  *)
(* its branch.  An intent is sealed, the branch is created, HEAD is bound  *)
(* to it (HeadAttach), a receipt is sealed.  A process that died, or whose *)
(* answer was lost, is followed by an exact retry, and the caller may be   *)
(* wrong about the process being dead.  Git goes on beside it, in the same *)
(* worktree and in the repository it shares.                               *)
(*                                                                         *)
(* Creating the branch is the transaction of GitRef, here in two steps:    *)
(* its locks are taken, and they are given back with the branch made.      *)
(* Another worktree that has the branch, a dirty tree, hidden git          *)
(* operations and a replaced worktree are left out: each is refused        *)
(* before anything is written.                                             *)
(***************************************************************************)
EXTENDS HeadAttach

CONSTANTS
    Caller,       \* the process that is there from the start
    Serves,       \* the operations of which a process may repeat one
    MaxFaults     \* bound on crashes, second callers, changes of the installed git,
                  \* and on what git does beside the operations

ASSUME WorkerBootstrapAssumption ==
    /\ Caller \in Proc /\ Serves \in [Proc -> SUBSET Op]
    /\ MaxFaults \in Nat

VARIABLES
    faults

vars == <<papers, tree, locks, local, pc, item, moved, modern, faults>>

Steps ==
    {"unasked", "idle", "prepare", "first", "publish", "stage", "write", "link", "linkTarget", "linked",
     "unlink", "inspect", "branch", "branchMade", "router", "own", "attach", "symref", "settle",
     "topology", "fence", "fill", "lock", "locked", "recheck", "rename", "renamed", "release",
     "releaseBranch", "releasePacked", "releaseFence", "finalHead", "final", "answer"}

TypeOK ==
    /\ doc \in [Doc -> {"absent", "torn", "staged", "linked", "split", "stable"}]
    /\ named \in [Op -> Inode \cup {Nil}]
    /\ owner \in Claim \cup {Nil}
    /\ head \in [at : Op \cup {"detached", "elsewhere"}, ino : Inode]
    /\ branch \in [Op -> {"absent", "loose", "packed"}]
    /\ packedRefs \in Nat /\ indexSeen \in BOOLEAN
    /\ lock \in [Lock -> Inode \cup Op \cup {Git, Nil}]
    /\ fence \in [Op -> [ino : Inode, whole : BOOLEAN] \cup {Nil}]
    /\ modern \in BOOLEAN
    /\ pc \in [Proc -> Steps]
    /\ op \in [Proc -> Op]
    /\ item \in [Proc -> Doc \cup Lock \cup {Nil}]
    /\ mine \in [Proc -> Claim \cup {Nil}]
    /\ moved \subseteq Op
    /\ faults \in 0..MaxFaults

\* The operations have been planned and the worktree observed: HEAD detached.
Init ==
    /\ doc = [d \in Doc |-> "absent"]
    /\ named = [o \in Op |-> Nil]
    /\ owner = Nil
    /\ head = [at |-> "detached", ino |-> 1]
    /\ branch = [o \in Op |-> "absent"]
    /\ packedRefs = 0 /\ indexSeen = TRUE
    /\ lock = [l \in Lock |-> Nil]
    /\ fence = [o \in Op |-> Nil]
    /\ modern \in BOOLEAN
    /\ pc = [p \in Proc |-> IF p = Caller THEN "idle" ELSE "unasked"]
    /\ op \in {f \in [Proc -> Op] : \A p \in Proc : f[p] \in Serves[p]}
    /\ item = [p \in Proc |-> Nil]
    /\ mine = [p \in Proc |-> Nil]
    /\ moved = {}
    /\ faults = 0

-----------------------------------------------------------------------------
(* canaryBootstrapPrepare. *)

Start(p) ==
    /\ pc[p] = "idle"
    /\ Pass(p, "prepare")

\* inspectWorkerWorktree: HEAD is detached or on the branch, and (as every caller
\* compares) the index is the one that was observed.
Observed(o) ==
    /\ Detached \/ (OnBranch(o) /\ branch[o] # "absent")
    /\ indexSeen

\* The intent of an earlier try is recovered and read.
Prepare(p) ==
    /\ pc[p] = "prepare"
    /\ LET d == Mine(p, "intent")
       IN  IF Recoverable(d)
           THEN /\ doc' = Recovered(d)
                /\ Goto(p, IF Exists(d) THEN "inspect" ELSE "first")
                /\ UNCHANGED <<named, owner, tree, locks, local, item>>
           ELSE Refuse(p)

\* Without an intent only a detached HEAD and an absent branch will do.
First(p) ==
    /\ pc[p] = "first"
    /\ IF /\ Observed(op[p]) /\ Detached
          /\ branch[op[p]] = "absent" /\ NoLocks(FourLocks(op[p]))
       THEN At(p, "publish", Mine(p, "intent")) /\ UNCHANGED <<papers, tree, locks, local>>
       ELSE Refuse(p)

\* attachWorkerBranch: the worktree is what the intent observed, and the index
\* is not locked.
Inspect(p) ==
    /\ pc[p] = "inspect"
    /\ IF Readable(Mine(p, "intent")) /\ Observed(op[p]) /\ lock["index"] = Nil
       THEN Pass(p, IF Detached THEN "branch" ELSE "router") ELSE Refuse(p)

SetBranch(p, b, l) ==
    /\ branch' = [branch EXCEPT ![op[p]] = b]
    /\ lock' = [lock EXCEPT !["packed"] = l, ![op[p]] = l]
    /\ UNCHANGED <<papers, head, packedRefs, indexSeen, fence, local, item>>

\* executeLooseRefTransaction goes on with locks of its own and refuses all
\* others, also when the branch is there already.
BranchLock(p) ==
    /\ pc[p] = "branch"
    /\ LET o == op[p]
       IN  IF lock["packed"] = o THEN Pass(p, "branchMade")
           ELSE IF ~NoLocks({"packed", o}) THEN Refuse(p)
           ELSE IF branch[o] = "absent" THEN Goto(p, "branchMade") /\ SetBranch(p, "absent", o)
           ELSE Pass(p, "router")

\* Another process on the same operation may have made the branch meanwhile.
BranchMade(p) ==
    /\ pc[p] = "branchMade"
    /\ IF lock["packed"] = op[p] THEN Goto(p, "router") /\ SetBranch(p, "loose", Nil)
       ELSE Pass(p, "router") \/ Refuse(p)

\* The worktree is looked at again, before the receipt is published.
Final(p) ==
    /\ pc[p] = "final"
    /\ IF Observed(op[p]) /\ OnBranch(op[p]) /\ NoLocks({"packed", "index", "head"})
       THEN At(p, "publish", Mine(p, "receipt")) /\ UNCHANGED <<papers, tree, locks, local>>
       ELSE Refuse(p)

\* The receipt is read back, and the answer is its digest.
Answer(p) ==
    /\ pc[p] = "answer"
    /\ Refuse(p)

Preparing(p) ==
    \/ Start(p) \/ Prepare(p) \/ First(p) \/ Inspect(p) \/ BranchLock(p) \/ BranchMade(p)
    \/ Final(p) \/ Answer(p)

Fault ==
    /\ faults < MaxFaults
    /\ faults' = faults + 1

Crash(p) ==
    /\ pc[p] \notin {"unasked", "idle"}
    /\ Fault
    /\ Refuse(p)
    /\ UNCHANGED <<moved, modern>>

\* Another caller, of the same operation or of one on the same worktree.
Join(p) ==
    /\ pc[p] = "unasked"
    /\ Fault
    /\ Pass(p, "idle")
    /\ UNCHANGED <<moved, modern>>

Step(p) ==
    /\ Preparing(p) \/ Publishing(p) \/ Attaching(p)
    /\ moved' = IF pc[p] = "rename" /\ head' # head THEN moved \cup {op[p]} ELSE moved
    /\ UNCHANGED <<modern, faults>>

-----------------------------------------------------------------------------
(* Git beside the operations (external): it locks a file, and then replaces *)
(* it and gives the lock back.                                              *)

GitLock(l) ==
    /\ Fault
    /\ lock[l] = Nil
    /\ lock' = [lock EXCEPT ![l] = Git]
    /\ UNCHANGED <<papers, tree, fence, local, pc, item, moved, modern>>

\* A refreshed index; HEAD moved away, onto a branch, or back to where it was;
\* refs packed.
GitReplace(l) ==
    /\ lock[l] = Git
    /\ lock' = [lock EXCEPT ![l] = Nil]
    /\ \/ l = "index" /\ indexSeen' = FALSE /\ UNCHANGED <<head, branch, packedRefs>>
       \/ /\ l = "head"
          /\ \E n \in Fresh, a \in {"detached", "elsewhere"} \cup {o \in Op : branch[o] # "absent"} :
                head' = [at |-> a, ino |-> n]
          /\ UNCHANGED <<branch, packedRefs, indexSeen>>
       \/ /\ l = "packed"
          /\ packedRefs' = packedRefs + 1
          /\ \E os \in SUBSET {o \in Op : branch[o] = "loose" /\ lock[o] = Nil} :
                branch' = [o \in Op |-> IF o \in os THEN "packed" ELSE branch[o]]
          /\ UNCHANGED <<head, indexSeen>>
    /\ UNCHANGED <<papers, fence, local, pc, item, moved, modern, faults>>

Upgrade ==
    /\ Fault
    /\ modern' = ~modern
    /\ UNCHANGED <<papers, tree, locks, local, pc, item, moved>>

Next ==
    \/ \E p \in Proc : Step(p) \/ Crash(p) \/ Join(p)
    \/ \E l \in {"index", "head", "packed"} : GitLock(l) \/ GitReplace(l)
    \/ Upgrade

Spec == Init /\ [][Next]_vars

\* Callers retry, and git gives back the locks it takes.
FairSpec ==
    /\ Spec
    /\ \A p \in Proc : WF_vars(Step(p))
    /\ \A l \in {"index", "head", "packed"} : WF_vars(GitReplace(l))

-----------------------------------------------------------------------------
(* Properties. *)

\* The files transaction renames HEAD.lock over HEAD only off the very files its durable
\* claim names (index, branch, packed-refs, HEAD), whatever git did meanwhile, unless
\* another caller of the same operation has renamed HEAD after this one's last look:
\* then what the late one renames may be git's own lock
\* (worktree-bootstrap-files-head-transaction.js:1182).
AttachKeepsPreimages ==
    [][\A p \in Proc :
          /\ pc'[p] = "rename" /\ pc[p] # "rename" => op[p] \notin moved
          /\ pc[p] = "rename" /\ pc'[p] = "renamed" =>
                 /\ Exists(ClaimDoc) /\ owner.op = op[p]
                 /\ DetachedPreimages(op[p]) \/ op[p] \in moved]_vars

(* The ways in which a prepare is refused for ever.                        *)

\* A staging file was cut short, or made again beside the sealed document.
TornStaging(o) == \E d \in Doc : d[2] \in {o, Nil} /\ doc[d] \in {"torn", "split"}

\* The links of a fence are left as locks: prepare looks at them before the
\* files transaction, which would take them up, is called.
LinksLeft(o) ==
    \/ lock["index"] \in Inode
    \/ Detached /\ \E l \in {"packed", o} : lock[l] \in Inode

\* A late process has linked a lock that the others have given back already.
LateLink(o) ==
    /\ OnBranch(o)
    /\ \/ lock["head"] \in Inode
       \/ ~IsPrefix4(o)
       \/ fence[o] = Nil /\ \E l \in FourLocks(o) : lock[l] \in Inode

\* The branch transaction of another operation is left half done.
BranchLeft(o) == lock["packed"] \in Op \ {o}

\* The worktree belongs to another operation, or is no longer what was observed.
Taken(o) == owner # Nil /\ owner.op # o
Drifted(o) ==
    \/ ~indexSeen \/ head.at \notin {"detached", o} \/ branch[o] = "packed"
    \/ /\ owner # Nil /\ owner.protocol = "files"
       /\ packedRefs # owner.bind.packedRefs \/ (Detached /\ head.ino # owner.bind.head)

\* HEAD is on the branch and nothing proves that the operation brought it there,
\* or it was there and is not any more.
Unproven(o) ==
    \/ owner = Nil /\ OnBranch(o)
    \/ /\ owner # Nil /\ owner.protocol = "files"
       /\ \/ OnBranch(o) /\ ~Exists(<<"completion", o>>) /\ fence[o] = Nil
          \/ OnBranch(o) /\ Exists(<<"completion", o>>) /\ named[o] # head.ino
          \/ OnBranch(o) /\ fence[o] # Nil /\ fence[o].ino # head.ino
          \/ Detached /\ Exists(<<"completion", o>>)

\* The claim names the native protocol and git has been downgraded.
Downgraded == owner # Nil /\ owner.protocol = "native" /\ ~modern

Stuck(o) ==
    TornStaging(o) \/ LinksLeft(o) \/ LateLink(o) \/ BranchLeft(o) \/ Taken(o) \/ Drifted(o)
        \/ Unproven(o) \/ Downgraded

\* Repeating a prepare seals its receipt, after any crash and whatever git did,
\* except for the causes named in Stuck, each of which is there to stay.
RetryCloses ==
    \A p \in Proc : <>[](pc[p] = "unasked" \/ Sealed(op[p]) \/ Stuck(op[p]))

\* goal-control-quickstart.md: the files protocol recovers a crash with its
\* packed/ref/index/HEAD locks and the durable completion.
CrashRecovered ==
    \A p \in Proc :
        <>[](pc[p] = "unasked" \/ Sealed(op[p]) \/ (Stuck(op[p]) /\ ~LinksLeft(op[p])))
=============================================================================
