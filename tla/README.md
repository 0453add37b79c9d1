# goal-control in TLA+

A verification development for `scripts/goal-control`: a local, crash-safe, append-only control
plane for work done by several agents in roles (FOREMAN, CAPTAIN, DEV, REVIEW, RECEIPT). Every
command is a Node process of its own (`goalctl`, `resourcectl`); they share nothing but the files
of a *control root*, and any of them may be killed at any moment. Paths below are relative to
`scripts/goal-control/` unless they say otherwise.

## The system

| Component | State it keeps | Operations | Where |
|---|---|---|---|
| Store transactions | `.generation.json` (a seal: even = whole, odd = crash marker bound to a transaction key and a payload vector), the payload files, the residual of the *atomic transport* (`.atomic/...`: reservation, payload, publication marker, lineage) | `withLock`, `withStableRead`, `atomicWrite`/`atomicCreate` | `store.js` |
| Writer lock | `.lock`, `.lock.reap` (symlinks to directories that hold the sealed record of their owner), quarantined links | `acquireRootWriterLock`, reaping, recovery of a dead reaper, sweep, release | `store.js` |
| Root protocol | the protocol seal, rotation receipts, migration artifacts | adopt, rotate | `store.js`, `migration.js` |
| Event pipeline | one hash-chained log per task, event heads, rejected-event receipts, projections | `acceptEvent`, rebuild | `goal.js`, `ledger.js` |
| Task state machine | a fold of the log: phase, cycle, HEAD, sessions and their history, recovery and backlog, holds, evidence | `applyEvent` | `fsm.js`, boundary checks in `goal.js` |
| Registration | prepared identity intent, capability file, the event | `registerRole` | `goal.js`, `role-identity-intent.js`, `worker-bootstrap-binding.js` |
| Goal-wide FOREMAN succession | a sealed batch, one event per task; the bootstrap and recovery capabilities | `registerRole`, `recoverExpiredForeman`, `advanceControl` | `goal.js` |
| Resource leases | event log, acquire intents, owner capabilities, fencing tokens, expiry | acquire, renew, release, reap | `resources.js` |
| P1 commit | intent, carrier bundle, ref, event, receipt | prepare, publish, finalize, abandon | `p1-commit-transaction.js` |
| Git loose-ref transaction | fence, loose and packed lock, reflog, residuals | compare-and-swap on a ref | `git-loose-ref-transaction.js` |
| GitHub merge | reservation, invocation record, observation, receipt | merge, resume, observe | `github-merge.js` |
| Pending operations | an index of the intents of the other parts | list, resume | `pending-operations.js` |
| Source handoff, launch checkpoints | exported sources, import intents, checkpoints | export, import, bind | `source-handoff.js`, `launch-source-checkpoint.js` |
| Runtime incarnations | bound server incarnations | bind, rotate | `runtime-incarnation.js` |
| Worktree bootstrap | intent, claim, completion and receipt documents; the fence of a worktree's HEAD and its links as lock files | prepare, attach, recover | `canary-bootstrap.js`, `canary-bootstrap-artifacts.js`, `worktree-bootstrap-*.js` |
| Issue preclaim | intent, external mutation, readback | claim | `preclaim-issues.js` |
| Checks without state of their own | receipts, evidence, preflight, gates, canary artifacts, CLI, provenance, lab | | the rest |

How they interact. Every mutation of a root goes through `withLock`, which takes the writer lock,
decides from seal and residuals whether the command may write at all, runs a callback and closes
the seal. Queries go through `withStableRead`, which takes no lock and writes nothing. `acceptEvent`
runs inside `withLock` on the state the whole log folds to, so an accepted event is one atomic step
of the task machine; what makes it atomic is what the two store modules are about. Resource leases,
P1 commits, merges and handoffs each keep intents beside the event log and talk to the outside (git,
GitHub, a runtime) between two transactions.

What is hard here:

* a process dies between any two file operations, and the next one has to tell from what lies about
  whether it may go on, must retry exactly the same request, or must refuse (store transactions);
* a lock made of names, renamed by contenders that decided on an observation (writer lock);
* reads without a lock beside writers, crashes and repairs (`withStableRead`);
* losses and recoveries of roles interleaved with rework, new packets, new control epochs and holds,
  over histories far longer than a test writes down (task state machine);
* the protocol seal of the root changing hands while commands of the old version wait for the lock;
* Git refs, an index and worktree files moved beside git and beside people who edit (ref transaction,
  P1 commit, source handoff, worktree bootstrap);
* external effects that may have happened or not (merge), clocks (leases, FOREMAN succession).

`PROJECT.json` lists each hazard at its line, with the properties that would catch it.

## Modules

```
AtomicLock     <-refines-  StoreLock        (symlinks, renames, reapers)
    ^                          ^
    |                          +-- StoreLockProofs
    +--------- refines --  StoreTransaction (withLock, withStableRead)  -refines->  AtomicStore
                               ^
                               +-- StoreTransactionProofs
AtomicProtocol <-refines-  RootProtocol     (adoption and rotation of the protocol seal)
                               |
                               +-- RootSeal (what its decoders see)  <- StoreLockProofs
AtomicForeman  <-refines-  GoalOperations   (FOREMAN, CAPTAIN and control epochs over all tasks)
                               ^
                               +-- GoalOperationsProofs
TaskFSM        <- TaskFSMProofs             (applyEvent, one task)
ResourceLeases <- ResourceLeasesProofs      (acquire, renew, release, one task)
AtomicRef      <-refines-  GitRef           (compare-and-swap of a loose ref)
                               ^
                               +-- GitRefProofs
P1Commit       <- P1CommitProofs            (one task's mechanical commit)
GithubMerge    -> MergeRecords              (merge-pr of one task)  <- StoreTransactionProofs
SourceExport <- SourceImport <- SourceCheckpoint   (a source handoff; each extends the one before)
                               ^
                               +-- SourceHandoffProofs
Worktree <- HeadAttach <- WorkerBootstrap   (a worker's worktree gets its branch)
   ^
   +-- GitRefProofs
```

`RootSeal`, `MergeRecords` and `Worktree` hold what outlives the processes of the component above
them, the files and records others go on to read, and the promises made about these alone; the
component extends its module, and so does the module that proves the promise of an instance of the
component (see *Proofs*).

The modules are layered by what a component takes for granted. `StoreTransaction` shows that an
operation runs alone, whole, or is bound to an odd seal that admits its exact retry only; the
modules of the components above it begin there: their `odd`/`tx`/`seal` variable is that seal, their
`Start`/`Begin`/`Retry` is what `withLock` decides, and each file the transport installs is one step.
`GitRef` shows the same of a ref: `P1Commit` and `SourceCheckpoint` publish in one step, and
`WorkerBootstrap` in two, since it meets the locks in between. `TaskFSM`
takes the FOREMAN of one task from outside; `GoalOperations` is where it comes from. Each abstract
module says what a component promises, and a run shows that the detailed one implements it.

### StoreTransaction (`store.js`: `withLock`, `withStableRead`, the atomic transport)

State and code:

| Variables | Code |
|---|---|
| `gen`, `active`, `preVec` | the seal: generation, active transaction, pre-payload vector |
| `files[o]` | how many of the `Steps` files of operation `o` are installed |
| `transport` | the one residual of the atomic transport: which installation (the odd seal, a payload file, the even seal) and how far (reservation opened, reserved, staged, published) |
| `lineage` | retained publication-lineage claims |
| `lock`, `lockDead` | the writer lock, here one variable; `lockDead` numbers the crash that orphaned it |
| `pc`, `req`, `started`, `kind`, `startVec` | locals of `withLock`: requested key, generation started, `FRESH`/`WITNESS`/`TRANSPORT`/`PRISTINE` recovery, vector at the start |
| `rpc`, `rgen`, `rvec`, `rview`, ... | locals of `withStableRead`: seal, vector before, the view, vector after |

Actions follow the code's order: `Acquire`, `Reap`, `GiveUp`; entry (`EvenLeftover` clean-up, the
requested key against residual and seal, the odd recoveries and their refusals); `Begin*` (prepare,
publish, clean the odd seal); `Write*` (each payload file); `CallbackReturn`/`CallbackThrow` and what
`withLock` does with a throw (keep the odd seal, clean and complete, or get stuck); `Complete*`;
`Release`; `Crash` at any of them; the reader's scans, one file at a time. `gen` is capped by the
code itself: `MaxGen` plays `Number.MAX_SAFE_INTEGER`, and the guard that leaves room for the
completion is the code's.

Abstractions: an operation is a stable key with a fixed sequence of files; two payloads differ only
in how many files are there; files of operations with other keys are disjoint. `WitnessAt` is the
file whose presence the caller's `authorizeOddRecovery` looks for, not always the first it writes
(`RefusedHalfway` says which crashes its retry is refused after); a caller that passes
`authorizePristineOddRecovery` is in `Resumable`, and the pristine authorization is granted
exactly there (`PristineRefuses` is `STORE_PRISTINE_RECOVERY_VECTOR_MISMATCH`). Writers without a
declared key are `Audited`. An odd retry does not bump the generation, and the
unpublished-transport clean-up happens only in a `FRESH` transaction, both as in the code.

### StoreLock (`store.js`: `acquireRootWriterLock` and everything under it)

One system call per action: `at` is what the names `.lock` and `.lock.reap` point to, `aside` the
links under quarantine names, `backing` the directories, `dead` the nonces whose process is gone.
A command sweeps, looks at the reaper mutex, then at the lock; it recovers a dead reaper without
any mutex (`ObserveReaper`), takes the reaper mutex to reap a dead writer (`LinkReaper`,
`OwnReaper`, `ObserveStaleWriter`), and claims by renaming (`Claim`), comparing (`Check`), deleting
(`Drop`) or putting back (`Restore`, `PutBack`). `Repeats` are processes with any number of
commands; `Slots` bounds the nonces of one process that are about at a time. A death counts one fault,
`ReaperCost` if it leaves a reaper mutex, and so does the first command of a process in `Late`: one
budget, `MaxFaults`, trades contenders against deaths.

Left out: records of the retired format, `INVALID` entries, the pending directory of a record that
is not sealed yet. The sweep is one action.

### TaskFSM (`fsm.js`: `applyEvent`; `goal.js`: the boundary checks of `acceptEvent`)

One action per event type; the guards are those of `applyEvent` and of the checks `goal.js` makes
before it hands the event over (launch HEADs, authority of the actor, the exact target of a
`ROLE_LOST`). The task's P1 policy is a variable that never changes; everything else is the fold of the log.

Abstractions: one task; a session is role and attempt (the code refuses to reuse a thread);
`active` and `idle` are one status; the packet changes exactly with the cycle; `state_revision`
CAS is left out, since events are taken one by one on the current state; `reconcile_required` is
derived, as `rebuildTask` does. `RoleLost` is what the acceptance of `ROLE_LOST` asks for (`fsm.js`
733–808, `validation.js` 306–339), whether `status`/`actions` suggest the report or not. Left out: `PROBE_OBSERVATION_REFRESHED`,
`P1_COMMIT_ABANDONED`, runtime rotation, merge reservations, and the FOREMAN's replicas in the
other tasks of the Goal (`GoalOperations`).

### ResourceLeases (`resources.js`: `acquireLease`, `renewLease`, `releaseLease`)

| Variables | Code |
|---|---|
| `events`, `lease`, `tokens`, `head` | the resource ledger, what it folds to, and `head.json` |
| `intent`, `secret`, `receipt` | the three files of an acquire under `acquire-intents/` |
| `seal`, `residual` | the odd generation with its request and `transaction_started_at`; the file the transport was installing and what its bytes depend on |
| `until`, `hold`, `archived`, `now` | what a lease depends on in the Goal, and the clock |
| `pc`, `req`, `kind`, `abort`, `preserve`, `at` | the command inside `withLock`: `abortPristine`, `expiredRenewalBoundary`, the time of its event |
| `exclusive` | the access each acquire asks for; never changes |

`Start` and `Retry` are `withLock` up to the callback (`beforeGeneration` and the recovery it
grants); the callback is one action per decision and per file, `Install*` and `Clean` being what the
transport does to a file; `Fail`, `Close` and `Crash` are the ways out. Times are read where the
code reads them, so the clock may pass between any two.

Abstractions: one command at a time, since a command holds the writer lock and a dead one is reaped;
no crash inside the two seals; both are the subject of the store modules. `Goal` events are single
steps that need an even seal. The identity hold (`env`) is a lone `ENV_IDENTITY_INCIDENT` with the
session in its role's phase, any other hard hold is `hard`; a worker lost is one that no longer
beats. Renewal event ids are a function of lease and revision, as in the code. Left out: reap (it
refuses without a host broker), zero-runtime receipts, `UNVERIFIED_REVOKE`, recovery before the
witness of a source import, directory residuals, verify and its incidents, manifest requirements
and scopes, the contents of the projection.

`StoreTransaction` takes for granted that a retry offers the same bytes for the same file.
`ResourceLeases` does not: `Stamp` says what the bytes of each file depend on, and *Findings* what
follows.

### RootSeal, RootProtocol (`store.js`: the protocol seal; `migration.js`)

Several controller builds (`Version`) run commands on one root behind one writer lock. A command
observes the lock, reads the seal, publishes its lock and reads the seal again; between two of these
other commands run, and a rotation may finish.

| Variables | Code |
|---|---|
| `seal` | `.store-protocol.json`: the version, the content it was validated against, its rotations |
| `receipts`, `anchored` | rotation receipts; the migration artifacts of an adoption |
| `gen`, `active` | `.generation.json` |
| `source` | the payload, as the sequence of versions that wrote it |
| `lock` | `.lock`, the compatibility it carries, and whether its owner is dead |
| `pc`, `job`, `seen` | a process, its command, the content both decoders replayed |

A rotation takes its lock in the name of the predecessor, under a nonce bound to its exact request.
Abstractions: the lock and the write of a file are one step (`StoreLock`, `StoreTransaction`); the
decoders' replay is equality of content; `LOCK_TIMEOUT` on a live lock is covered by `Crash` and
`TurnedAway`. Left out: retired formats, worktree maps, the directory lineage of the atomic claims, a
newer build brokering an older rotation.

### GoalOperations (`goal.js`: `registerRole`, `recoverExpiredForeman`, `advanceControl`)

A session is a replica of the goal's one FOREMAN in each task; `id` is thread, host and capability.
An operation runs in one root transaction: admission and authority (`Admit`, `Refuse`), staging
directory, capability and intent (`Stage`, `Seal`), rename (`Promote`), the events, one per task in
order (`Install`), the control epoch, the batch's completion, the bootstrap capability marked and
deleted, `Close`. `Stop` is a crash at any of them, `Retry` the exact retry under the odd seal: with
the witness its staging or its first event is, or over a pristine vector, for whose authority the
code looks up who was usable when the transaction began (`historicalRegistrationAuthorizer`).
The clock is a session's `live`: it may run out anywhere, under an odd seal too.

| Variables | Code |
|---|---|
| `tasks[t]` | open or archived, the FOREMAN and CAPTAIN sessions, the pending recovery, the control epoch seen |
| `epoch`, `bootstrap` | `control.json`; the bootstrap capability file and its consumption mark |
| `tx` | the odd seal: the request, the tasks before it, who was usable, what is staged and installed |
| `pc`, `mints`, `faults` | the process inside `withLock`; bounds |

`Own(t)` are the events of a task outside these operations that their authority depends on.
Abstractions: `ROLE_LOST(FOREMAN)` is submitted only when `status` projects it; a begin whose request
`status` would not admit is left out; `idle` is merged with `active`. Left out: the CAPTAIN's attempts
and `systemError`, workers, holds, packets, role identity bundles.

### GitRef (`git-loose-ref-transaction.js`)

A transaction writes its new object id into a private fence file, links that file as
`packed-refs.lock` and `<ref>.lock`, validates the ref under both, and renames `<ref>.lock` over the
ref: fence, locks and new ref are names of one inode, and after a crash the names that are left say
how far it came. `loose` and `refLock` carry the owner of the inode for that reason. One action per
system call or per check that reads the ref; `GitStep` is git beside it (lock, update, pack, prune).
Left out: deletion and `allowedFinalRefs`, which no caller uses; modes and owners of files.

### P1Commit (`p1-commit-transaction.js`; the P1 branches of `goal.js`)

`place` and `files` are an event's directory and its contents (the carrier bundle, the sealed
intent, abort intent or handoff, each torn or whole where it can be torn); `ab`, `completions`,
`abReceipts` the abandonment; `ledger` and `receipts` what was accepted and closed; `ref`, `head`,
`object` the repository, which `MoveRef`, `MoveHead` and `Collect` (users and `git gc`) change.
`Loadable` is the inventory every load of the root applies: a directory it does not accept refuses
all commands. `Start` is `withLock` with `Witness` and `Pristine` as its two authorities, `Step` one
durable step of the running command, `Crash` and `Fails` end it anywhere. Abstractions: publication
of the ref is one step; one cycle; requests are exact. Left out: a handoff written into a staging
directory (no live path), temporaries of retired writers, FOREMAN leases.

### MergeRecords, GithubMerge (`github-merge.js`)

`rec` are the records of one request in their order (intent and reservation, invocation, receipt,
MERGED with its completion); `main`, `pr`, `clone` are GitHub and the local clone; `flying` the merge
commands that may still arrive after their process is gone (`Apply`, `Lose`); `fetch` is the private
object directory with its owner marker and quarantine. `mem` is what a run read before and uses
after: between two transactions there is no lock. `Others` is drift: the base moves on, somebody
merges or closes the pull request, another event is accepted, the clone fetches. Abstractions: a
record is installed in one step; `readMergeTransaction` is one step; check and rename of the fetch
directory's cleanup are one step. Left out: canary outputs, the identity of the `gh` executable,
capabilities, a dirty worktree, a force-push of the base.

### SourceExport, SourceImport, SourceCheckpoint (`source-handoff.js`)

One handoff in its three commands, each a transaction of the root that only a retry with its witness
may resume. `SourceExport`: the predecessor's worktree is read in parts while it may still edit, or
rebuilt from its rollout log, whose shell calls an audit vouches for. `SourceImport`: the snapshot is
written path by path (anchor, temporary, rename or unlink), then into the index through git's own
lock; a retry goes over everything again. `SourceCheckpoint`: one commit with predetermined content;
`index.lock` held and the metadata directory read-only while the branch is moved.
Contents are versions that never come back (no ABA edits). The last comparison of a file
(`ComparePath`) and the rename or unlink after it are two steps, between which an editor may save: the
source names that window as one it cannot close (8094–8100), and `EditsKept` says that it is the only
one. A snapshot or a receipt is published in one step, and its command returns in another
(`ReturnSnapshot`, `ReturnReceipt`): one that dies between the two is retried on the published file.
Left out: task authority and epochs around the commands, the verify command (reads
only), handoffs of the older schema, `launch-source-checkpoint.js`; automatically verified and
unsupported calls of a rollout log.

### Worktree, HeadAttach, WorkerBootstrap (`canary-bootstrap.js`: `canaryBootstrapPrepare`; `worktree-bootstrap-*.js`)

A worker's detached worktree gets its branch, for one operation and for ever. `Worktree` has the
documents, the claim and the files of git; `HeadAttach` the steps on the documents and the two protocols that move HEAD: "native" (git moves it) and "files" (a private fence
is hard-linked as the lock files of packed-refs, the branch, the index and HEAD, and renamed over
HEAD). `WorkerBootstrap` is the command around them, its exact retries, a second caller, and git.

| Variables | Code |
|---|---|
| `doc` | how far each document is published: staging file cut short or whole, linked, closed (`publishPrivateJson`) |
| `owner`, `named` | the durable claim of the worktree with its protocol and the files it binds; the inode a completion names |
| `head`, `branch`, `packedRefs`, `indexSeen` | the worktree and the repository it shares |
| `lock`, `fence` | what each lock file is a link of; the HEAD fence, cut short or whole |
| `modern` | whether the installed git has `symref-update` |
| `pc`, `op`, `item`, `mine` | a process, its operation, the document or lock in hand, the claim it makes |
| `moved` | operations whose own rename moved HEAD (for the properties) |

One action per system call, or per check that is read under no lock; no lock covers the command, so
two processes may be at any two of them. `GitLock` and `GitReplace` are git: it takes a lock, and then
replaces the file (refreshes the index, moves HEAD, packs refs) and gives the lock back. Abstractions:
an inode is a number not in use; the branch transaction is two steps (`GitRef`); recovering a document
is one step. Left out: verification of a finished bootstrap (reads only), claims of the format before
protocols, anchors nobody took, foreign hard links, log files, the lineage of directories, a dirty
tree, a branch another worktree has.

### The abstract modules

`AtomicStore`: transactions are serial, an operation is installed whole or not at all and never
undone, a read is the set of installed operations at one moment with no transaction open.
`AtomicLock`: one holder at a time, none between a holder's death and its reaping. `AtomicProtocol`:
a root is sealed to one version at a time, only that version writes, and it passes to another in one
step that records all the content the new version was validated against. `AtomicForeman`: one
generation leads, a later task joins it, a successor takes all open tasks over in one step.
`AtomicRef`: a ref is moved by compare-and-swap, and "done" is said only while it is in place.

## Runs

| Run | Instance | What it shows |
|---|---|---|
| `store_writers` | 2 writers, 2 operations of 2 files, 2 faults, `MaxGen` 7 | `PartialIsBound`: whatever died where, only the operation the odd seal is bound to can be torn. `ClosesWholeOrPristine`: an odd seal is closed over a whole payload or over the one sealed before the first write. `RetryHeals`: the exact retry closes the marker |
| `store_readers` | a reader; one operation without the pristine hook (a retry is refused before its witness is there), one audited-repair-only; 1 fault | `ReadIsCommitted`, `CrashReadIsOneState`: non-atomic scans answer one state. `ImplementsAtomicStore` |
| `lock_all` | 3 processes, unbounded commands, 3 faults: a death is one, a reaper's death two, the third process one | `MutualExclusion`, `ImplementsAtomicLock`. `StaleWriterReaped`: dead reapers do not shield a dead writer |
| `root_rotation` | 2 processes, 3 versions, 3 rotation requests (two for the same rotation), 2 writes, 2 faults | `ImplementsAtomicProtocol`: only the sealed version writes, and the seal changes hands in one step. `RotationRecovers`: with the predecessor's commands drained, an interrupted rotation is finished by its repetition |
| `task_all` | both P1 policies, 2 cycles, 2 control epochs, both holds, 3 attempts, 3 losses, cut by `Histories` | `AcceptedOnCurrent`: what waits for its merge was approved, built, reviewed and received in this cycle, on this candidate. `RecoveredSourceIsReal`: whoever reports which loss when, a recovered DEV continues an attempt that was lost and had something to continue. `LostIsPending`: until a control epoch is reconciled, a lost role has a recovery, pending or parked |
| `goal_foreman` | 2 tasks, 2 FOREMAN identities, 2 control epochs, 1 crash | `OneLineage`: a half-done succession has tasks where they were or where they go, nothing else. `NewestDecides`. `BootstrapOnce`. `SuccessionOpen`: a goal whose FOREMAN is gone can get another. `ImplementsAtomicForeman`. `RetryFinishes` |
| `lease_safe` | 2 sessions, one lease each on one resource, every choice of accesses, 3 moments, terms and TTLs of 2, one renewal a lease, 1 crash | `ExclusiveUse`: no resource is used twice. `PendingOwnsTheTail`: a half-done acquire is met by nobody but its retry. `AcceptedFromLive`: who is late or overtaken gets nothing, whenever the clock moves |
| `git_ref` | a creating and a moving transaction on one ref, 2 moves of git, 1 crash | `ImplementsAtomicRef`. `GitKeepsItsLocks`: a lock file of git is never taken away. `LocksFreed`: retries give the locks back |
| `p1_crashes` | 2 events, 2 foreign commits, 3 moves of users, 3 crashes or failures | `OneOutcome`: an event is accepted or aborted or handed off, never two. `CommitIsDurable`: an accepted commit can be restored whatever users do. `RetryHeals` |
| `github_merge` | 2 runs of the request, 2 crashes, 1 drift | `ReceiptIsExact`: a receipt names the merge that is there. `RetryCloses`: retries close the request or refuse it for a reason that stays |
| `source_handoff` | 3 paths (edited, removed, added), both kinds of export, 3 crashes, 2 drifts | `SnapshotIsReal`: a snapshot is a tree that was in the worktree. `EditsKept`: nobody's file is overwritten or removed but one saved between the last comparison of its path and the rename or unlink that follows. `IndexBehindTree`, `NoResidue`, `CheckpointUnderFence`, `HandoffCompletes` |
| `worker_bootstrap` | a caller of one operation and a second one of the same or another on the worktree, both versions of git, 2 faults: crashes, the second caller, locks of git, a change of git's version | `NoBackfill`: a receipt says who brought HEAD to the branch, however often it was retried. `AttachKeepsPreimages`: every rename over HEAD is off the files the claim names, or comes after another caller of the operation has renamed it. `RetryCloses`: retries seal the receipt, but for the causes listed in `Stuck` |

Why the bounds are enough to be interesting. *Store*: two faults let a retry fail under the seal a
first crash left, at every pair of steps; two files per operation make "torn" differ from "none" and
"whole"; two operations give every residual a wrong claimant; `MaxGen` 7 is three transactions and the
refusal of a fourth. One reader suffices, readers only read. *Lock*: a wrong claim takes an owner that
died, a contender that observed it, and a process that replaced it; with unbounded commands one
process can be two of these. The third process is the one that takes a name while it is moved aside;
`Late` lets it join at the price of one death, so that the run covers three processes with two deaths,
and two with three or with a reaper's. *Protocol*: a command that waits while a rotation finishes, a
second request for the same rotation and one that follows it; a crash of each. *Task*: a second cycle,
HEAD and epoch are what evidence and sessions can be stale against; three attempts of the DEV are a lost one, a
lost successor and the one that must still find the source; `Histories` keeps a whole life with two
attempts of a role and one loss or one fault (an expired lease, a `systemError`), with both in the
first cycle, or there with one hold; or one non-mechanical cycle on one candidate up to the verdict
of its review, with three losses and a fault or two and two, reported in any order that is accepted. *Goal*: two tasks are a batch that can be half done, one of them can join
late or be archived; a second identity is the succession, and a crash falls between any two of its
steps. *Leases*: with three moments and terms of two a lease is renewed in its window, expires, is
overtaken by a shared one and is kept under a hold, and a session runs out at every step of an
acquire; two leases are exchangeable, hence the symmetry. *Ref*: a pack and an update of git around
one crash at every step. *P1*: a move before the publication, one after it and one during its
abandonment. *Merge*: two runs meet, a first dies with its command under way and its retry dies too.
*Handoff*: a path of each kind, a crash in each command or three in one. *Bootstrap*: the pairs of
faults are two crashes, a crash or a lock of git beside a second caller, a lock of git around a crash;
with `MaxInode` 5 a fresh inode is always left.

Larger instances run by hand, without an error: `github_merge` with 2 drifts and 1 crash (777,093
states); `goal_foreman` with `MaxMint` 3 (920,815); the lock with three processes and two crashes of
writers, without `Late` (117,730); `source_handoff` with 3 drifts, for each
kind of export alone (380,203 from a worktree, 1,250,459 from a log).

The runs whose configuration says `CHECK_DEADLOCK FALSE` have states the system stops in for good: an
archived task, a closed or refused request, a root whose retry is refused, an exhausted bound.

Every action fires in one of the passing runs, and every property of every passing run is violated by
at least one plausible bug in the code; these are the definitions marked *Mutant*, each in front of
the definition it would replace.

Stated, but in no run, and proved (see *Proofs*): `StoreTransaction!OnlyBoundRetryWrites`
(`OnlyRetriesWrite`) and `RefusedHalfway` (`RefusalsAreHalfway`); `StoreLock!LiveRecordKept`
(`LiveRecordStays`); `GitRef!DoneIsClean` (`DoneLeavesNothing`); `TaskFSM!BlockedNeverAdvances`
(`BlockedStays`), `WorkerOfThisCycle` (`WorkersAreOfThisCycle`) and, as long as `ReportedOnce`
holds, `RecoveryClosable` (`RecoveriesClose`); `ResourceLeases!NoUnheldRevival` (`RevivalsAreHeld`); `P1Commit!ForeignKept`
(`RefIsCreated`) and `Loadable` (`AlwaysLoadable`); `SourceCheckpoint!GitKeepsIndexLock`
(`GitsIndexLockStays`); `StoreTransaction!UsesAtomicLock` (`LockIsAtomic`);
`RootProtocol!MachineStates` (`StatesOfRotation`); `MergeRecords!RecordsInOrder`
(`ReceiptsAreExact`); `GithubMerge!DispatchReserved` (`DispatchesAreReserved`) and
`FetchIsExclusive` (`OneFetches`); the type invariants of all modules with state.
Stated, but in no run, and not proved: `StoreTransaction!LockReleased` (liveness; it held on the
instance of `StoreWriters.cfg` when it was checked by hand).
`WorkerBootstrap!CrashRecovered` does not hold, see *Findings*.

### Fairness

`FairSpec` of `StoreTransaction` says that a process inside `withLock` (synchronous code) takes its
next step or dies, and that a process stuck with the lock (`LockStuck`: a refused completion) exits
eventually; `StoreLock` says the same of a command. Nothing is assumed of callers (they need not
retry), of contenders (`LOCK_TIMEOUT` may starve a retry, so `RetryHeals` starts when the retry is
inside), of readers, or of crashes. `TaskFSM` and `ResourceLeases` have no fairness: no role is
obliged to act, and no caller to retry.

The liveness of the components above the store is about retries, so there the caller of an interrupted
command repeats it: the documents tell it to, and until it does the odd root admits nothing else. So
`P1Commit` assumes it of the command the marker is bound to, `GoalOperations` of `Retry`,
`GithubMerge` and `SourceCheckpoint` of their request, `GitRef` of a transaction, `WorkerBootstrap` of
a prepare. `RootProtocol` assumes it strongly, since the owed command waits behind a lock others take
in turn. A merge command that is under way arrives or is lost; git gives back a lock it took. Crashes
are bounded by the model's `MaxFaults`, never fair.

`RotationRecovers` has one hypothesis more: `Drained`, which the rotation's operator attests
(`ALL_OLD_CONTROLLERS_DRAINED_AND_ISOLATED`), and that only the owed command is repeated. Safety needs
neither.

## Findings

No run expects a violation. What the code does against its documents, a comment or a test, or where
it stops for good, was met while modelling and is listed here, with the configuration that shows it
where there is one.

Also seen, with a configuration to run by hand:

* `TaskReconcile.cfg` (`ReconcileRetires`): a reconcile drops the recovery of a lost role without
  making it terminal; its successor cannot be registered.
* `P1Sealed.cfg` (`ExactRetryHeals`): a crash between sealing the intent in its staging directory and
  renaming it leaves a root the exact retry cannot close; abandonment gets it out.
* `GoalUnsealed.cfg` (`ExactRetryCleans`): `accepted_at` is in the digest of a prepared request
  (`goal.js` 15786–15800), so where observation receipts are required the retry of a registration
  that had staged but not sealed is `PREPARED_REQUEST_MISMATCH`; docs `quickstart.md` ~284 promise
  an exact retry.
* `GoalSuperseded.cfg` (`SupersededRefused`): the pristine retry of a request authorised by a FOREMAN
  that was succeeded meanwhile is accepted (`goal.js` 14952, 16839–16886), where `auth.js` 131–138
  says `CAPABILITY_SUPERSEDED`.

Also seen, store and lock:

* Recovery of a dead reaper takes no mutex, and a claim renames before it compares. With a reaper's
  death and four processes: `p1` dies as a writer and, in its next command, as a reaper; `p2` observes
  the dead reaper; `p1`'s third command recovers it, becomes reaper and observes the stale `.lock`;
  `p2` moves `p1`'s live `.lock.reap` aside; `p3` becomes reaper, reaps `.lock`, acquires it; `p1`
  moves `p3`'s live `.lock` aside; `p4` acquires before it is put back. Three processes that repeat
  their commands are enough for a live `.lock` that is moved aside and put back when its holder has
  ended (`ImplementsAtomicLock` with `ReaperCost` 1, `Late` empty and `MaxFaults` 2). `lock_all` shows that it takes both, three
  contenders and a reaper that died, which is what its budget keeps apart.
* A command that read the seal before an adoption or rotation finished and published its lock after
  it leaves a lock nobody can reap (`STORE_PROTOCOL_UNSUPPORTED`, `LOCK_PROTOCOL_MISMATCH`): what
  `Drained` excludes. A second rotation request that waited for the lock and crashes with it leaves the
  same. A duplicated exact rotation beside successor commands that crash odd can throw
  `CORRUPT_STORE_PROTOCOL` (10146–10160) and leave its lock. The documents name four machine states of
  a rotation; an odd predecessor with the receipt is a fifth.

Also seen, tasks, goal and leases:

* The documents have `ROLE_LOST` reported only where the projection asks for it, and only without a
  pending recovery (`docs/planning/session-protocol/captain.md` 300, 319, 324,
  `goal-control-quickstart.md` ~1240–1250). Its acceptance asks for the exact target and that nothing
  is in front, not what is parked in the backlog (`fsm.js` 733–808, `goal.js` 11430–11475,
  `validation.js` 306–339). A role whose recovery the FOREMAN's recovery has parked, and whose
  successor is registered, can be reported lost again: the parked recovery then answers
  `RECOVERY_LINEAGE_GAP` for good. `TaskAll.cfg` with `RecoveryClosable` among its invariants shows it
  in 14 states. `LostIsPending` and `RecoveredSourceIsReal` hold there too.
* After a delivery that moved HEAD and a rework, the same DEV's next `DEV_READY` is `STALE_HEAD`.
* A new packet moves a DEV that its handoff froze out of `DEV_ACTIVE`, the only phase its one exit
  `RECOVERY_HANDOFF_ABANDONED` is accepted in; a worker lost in a phase in which its successor may
  not be registered opens a recovery that blocks every transition.
* A fresh registration or control command that is not admissible and dies between generation and
  callback leaves the root odd for good; so does a registration whose staging is not sealed when its
  authorizer's lease runs out, and, in probed mode, one that dies after its evidence and before its
  staging directory.
* `GOAL_RECOVERY` that replaces a pending FOREMAN successor looks at the task's own session only
  (`fsm.js` ~300), so the predecessor can stay live through the replica of an archived task, and the
  authority of a join's pristine retry is looked up among all sessions that were usable when it began,
  superseded or not (`historicalRegistrationAuthorizer`, 14952). With a third task a superseded FOREMAN
  then leads an open one, and `GOAL_FOREMAN_LINEAGE_DIVERGED` stays: `t1` is bootstrapped by the first
  identity, lost, and succeeded by the second; the second joins `t2`, which is archived while its lease
  lives; on `t1` it expires and is recovered by a third; the second begins a join of `t3`, is killed
  before its callback, and repeats it. TLC finds `OneLineage` violated on three tasks with `MaxMint` 3
  when the behaviour is held to these commands, and nothing with `MaxMint` 2 (3.9 million states).
  It is what `SupersededJoins` names in *Proofs*.
* A renewal killed while its event was being installed cannot be closed by its retry, which insists
  on a pristine seal while the transport insists on its residual. A capability is random, its receipt
  and the event's time depend on the attempt, but a residual is resumed with identical bytes only: a
  process killed while one of these files is being installed leaves an odd seal that no retry can
  close. An idempotent retry of an acquire under a hard hold is refused at the disclosure boundary for
  as long as the hold stands, which the odd seal keeps from being cleared; a pending shared acquire
  whose neighbour expires waits for a reap that the seal does not let in, until its own session runs
  out.

Also seen, git and GitHub:

* After a crash between the release of the packed lock and the cleanup of the fence, a `git
  pack-refs` that packs the new commit makes every retry's packed policy fail, and `packed-refs.lock`
  stays; so does it when git moves the ref to a third commit after the mutation. `LocksFreed` excludes
  both by name.
* The documents (`goal-control.md` ~423, `quickstart` 3.1 ~530) say that the abandonment's retry
  deletes a ref that became the expected commit; `abandonP1CommitRef` (3675–3757) keeps it. A crash
  before the first directory of a P1 commit leaves an odd root without a witness.
* After a merge receipt was sealed with no tracking ref, a `git fetch` in the clone makes
  `revalidateReceiptEvidence` (`github-merge.js` 3320–3326) throw `MERGE_RECEIPT_MISMATCH` for good; a
  crash between `mkdir` and `link` of the owner marker (2858–2861), or while the quarantine is
  deleted, makes every retry `MERGE_GIT_EVIDENCE_OWNER_INVALID`, against
  `docs/planning/session-protocol/shared.md` 356–360; the base moving on after our merge and before
  the receipt leaves a reservation nothing releases.
* Of a handoff, and excluded by `Able`: an odd root with no witness (crash right after begin, or an
  empty staging directory), torn binding or manifest temporaries (3323–3355), a prepared export bound
  to a tree the source no longer has (`HANDOFF_OPERATION_CONFLICT`), git refreshing the index between
  the import's rename and its unlink (`HANDOFF_GIT_INDEX_LOCKED`) or after the checkpoint marker is
  sealed (`HANDOFF_CHECKPOINT_INDEX_DRIFT`), an atomic save that restores base content beside a base
  anchor.

Also seen, worktree bootstrap (`WorkerBootstrap`; the causes of `Stuck`):

* A crash of the files protocol between the first link as `packed-refs.lock` and the unlink of the
  index lock cannot be retried: `prepare` refuses an `index.lock` (`assertNoWorktreeMutationLocks`,
  `canary-bootstrap.js` 1029), and the branch transaction (1072) refuses locks that are not its own,
  before the files transaction, which would resume from these very links, is called.
  `docs/planning/goal-control-quickstart.md` 639–640 promises the recovery; the test of it
  (`goalControlWorktreeBootstrapFilesHeadTransaction.test.ts` 458) retries the router, not `prepare`.
  `WorkerBootstrap.cfg` with `CrashRecovered` in place of `RetryCloses` shows it.
* A staging file a crash cut short is a conflict for every retry, since its name is the digest of
  the whole. Two exact retries at once can split a document from its staging file, or link a lock
  the other has given back already.
* What git does to the index, HEAD or packed-refs after the claim is refused for good, and a native
  claim is after a downgrade of git.
* Two callers of one operation can both pass the last look at the preimages
  (`worktree-bootstrap-files-head-transaction.js` 1167–1179). When the first has renamed HEAD, git may
  take the freed `HEAD.lock`, and what the second renames over HEAD (1182) is git's lock. It is the
  exception `AttachKeepsPreimages` names; without its last disjunct TLC finds it (57 states).
* The native protocol accepts a HEAD that somebody else brought to the branch between its claim and
  its check: only the files protocol proves who did, which is what `NoBackfill` says.

## Proofs

TLAPS checks the theorems for all values of the constants that meet the modules' own assumptions:
any number of processes, tasks, leases, paths, any bounds on crashes. The proofs about a component
are in a module that extends it, three of them beside those of the component below whose protocol
they take as a step: `RootProtocol` with the lock it takes, `GithubMerge` with the transactions it
records in, `WorkerBootstrap` with the ref its branch is. These are proved of an instance (`Root`,
`Github`, `Boot`), all of whose constants and variables are the module's own; an instance brings no
assumptions, so that theorems state them: `RootConstants`, `MergeConstants` and `BootConstants` are
the `ASSUME`s of the instantiated modules, word for word, and TLC evaluates these in their runs.
Each inductive invariant `IInv` was checked by TLC on the instance of the component's run
before it was proved. The proofs go the same way everywhere: `InitIInv`; a lemma for what each
action does (an *effect*), a lemma that what is said of one process, task or path is kept by the
steps of the others, one lemma per action or group of actions for what that action disturbs;
`NextIInv`; and the theorems, which are read off the invariant.

| Module | Theorems (the property of a run, where there is one) | Hypotheses beyond the module's |
|---|---|---|
| `StoreTransactionProofs` | `Invariance`, `TypeCorrect`, `TornIsBound` (`PartialIsBound`), `ReadsCommitted` (`ReadIsCommitted`), `CrashReadsOneState` (`CrashReadIsOneState`), `ClosedWhole` (`ClosesWholeOrPristine`), `Refinement` (`ImplementsAtomicStore`), `LockIsAtomic` (`UsesAtomicLock`), `MarkersClose`, `ResidualsBound`, `OnlyRetriesWrite`, `RefusalsAreHalfway` | |
| ..., the merge | `MergeInvariance`, `ReceiptsAreExact` (`ReceiptIsExact`), `DispatchesAreReserved`, `OneFetches` | |
| `StoreLockProofs` | `Invariance`, `TypeCorrect`, `OneWriter` (`MutualExclusion`), `Refinement` (`ImplementsAtomicLock`), `LiveRecordStays` | `OneWriter`, `Refinement`: `[]NeverOvertaken` |
| ..., the protocol of the root | `RootInvariance`, `StatesOfRotation`, `RootRefinement` (`ImplementsAtomicProtocol`) | |
| `TaskFSMProofs` | `CoreInvariance`, `TypeCorrect`, `AcceptedIsCurrent` (`AcceptedOnCurrent`), `RecoveriesClose`, `SourcesAreReal` (`RecoveredSourceIsReal`), `BlockedStays`, `WorkersAreOfThisCycle`, `LostAreAwaited` (`LostIsPending`) | `RecoveriesClose`: `[]ReportedOnce` |
| `GoalOperationsProofs` | `CoreInvariance`, `Invariance`, `TypeCorrect`, `GenerationsAreOne` (`OneLineage`), `DecidedByNewest` (`NewestDecides`), `BootstrapIsOnce` (`BootstrapOnce`), `SuccessorCanCome` (`SuccessionOpen`), `Refinement` (`ImplementsAtomicForeman`), `TwoTasksAreSafe` | `CoreInvariance`, `TypeCorrect`, `BootstrapIsOnce`: none; `TwoTasksAreSafe`: at most two tasks; the others: `[]~SupersededJoins` |
| `ResourceLeasesProofs` | `Invariance`, `TypeCorrect`, `ResourcesAreExclusive` (`ExclusiveUse`), `IntentsOwnTheTail` (`PendingOwnsTheTail`), `LeasesFromLive` (`AcceptedFromLive`), `RevivalsAreHeld` | |
| `GitRefProofs` | `Invariance`, `TypeCorrect`, `GitsLocksStay` (`GitKeepsItsLocks`), `Refinement` (`ImplementsAtomicRef`), `DoneLeavesNothing` | |
| ..., the bootstrap of a worktree | `BootInvariance`, `ReceiptsAreEarned` (`NoBackfill`), `PreimagesKept` (`AttachKeepsPreimages`) | |
| `P1CommitProofs` | `Invariance`, `TypeCorrect`, `CycleEndsOnce` (`OneOutcome`), `AcceptedIsDurable` (`CommitIsDurable`), `RefIsCreated`, `AlwaysLoadable` | |
| `SourceHandoffProofs` | `Invariance`, `TypeCorrect`, `SnapshotsAreReal` (`SnapshotIsReal`), `IndexStaysBehind` (`IndexBehindTree`), `ReceiptIsClean` (`NoResidue`), `EditsStay` (`EditsKept`), `CheckpointIsFenced` (`CheckpointUnderFence`), `GitsIndexLockStays` | |

The assumptions of the modules say that bounds are natural numbers, and (`NoneAssumption`) that the
value `None` (`Nil` of a worktree) is not one of the things it stands for the absence of; versions
are numbered so that a rotation leads to a later one (a request names the seal it starts from by its
hash, `store.js:10407` and `10534`, and a seal's hash covers the rotations before it, `store.js:7078`:
no request finds its predecessor twice; what the numbering leaves out is a root that is rotated back
to a build it had before); the names of operations are not those of
git's lock files. The hypotheses in the table are
what the code relies on and does not enforce, or where it is known to fail:

* `[]NeverOvertaken`: when a process that has found a dead writer's lock under the reaper mutex claims
  it, nobody else has taken that name since. The code relies on the reaper mutex for it, and the
  recovery of a dead reaper takes none: the behaviour with four processes under *Findings* (store and
  lock) is exactly a claim that is overtaken. It holds wherever `lock_all` looks, dead reapers included
  (`LockAll.cfg` with `NeverOvertaken` among its invariants). Nothing is assumed about who dies; types,
  the places of the links (`Invariance`) and the records of live owners (`LiveRecordStays`) need no
  hypothesis at all.
* `[]ReportedOnce`: no role is reported lost while an earlier recovery of it is parked. The CAPTAIN's
  documents say so, the code does not ask (*Findings*); without it `RecoveryClosable` fails. The other
  theorems about losses, `SourcesAreReal` and `LostAreAwaited` among them, ask nothing of who reports
  what.
* `[]~SupersededJoins`: no FOREMAN that has been succeeded carries a join through. The code does not
  exclude it (*Findings*: three tasks, three identities and a pristine retry), and there
  `OneLineage` fails; with two tasks it cannot happen, which is the theorem `TwoTasksAreSafe`. What
  does not speak of generations (types, the bootstrap capability) is proved without it.

None of the safety properties is inductive; what has to be known beside them is where the design of
a component is:

* *Store*. That a torn operation is the bound one needs that nobody but the holder of the lock writes
  (`LockInv`), that the payload has only grown since the vector in the seal was taken, and only by the
  bound operation (`SealInv`), what a residual of each kind says about seal and payload
  (`TransportInv`), and what a writer knows at each of its points (`WriterInv`). For readers: under
  the even seal a reader has read nothing moves (`ReaderInv`); under an odd one payloads only grow, so
  what was seen between two equal scans equals both (`ScanInv`). `WriterEffect` says once what a
  writer's step can do to the payload, and `WriterKeepsReaders` that it keeps the readers' part.
* *Lock*. A symlink is in one place, at a name, under a quarantine name or in a claimer's hand
  (`Places`); a process has the nonces of its position, and they are alive (`Owned`); a claim is of the
  claimer's own lock or of one whose owner is dead (`Held`, with `StaleClaim`). These hold whatever a
  recovery of a reaper moves. What a writer acquires must stay at its name until he releases it
  (`Kept`, with `Releases` for his own claim and `Reaps` for a dead writer's): that is kept by every
  step but a claim that is overtaken. The refinement takes the symlink as `Acquire`, the rename as
  `Release` or `Reap`, the death as `Die`, and everything else as a stutter.
* *Task*. `Approval`, `Verdicts` and `Counted`: what was approved and which verdicts stand, by phase;
  `SessionInv`, what a session's scope, hand-off and origin say about each other; `PendingInv`, that a
  pending recovery names the last attempt that was lost (the only part that needs `ReportedOnce`, and
  the only theorem that needs this part is `RecoveriesClose`). `WorkerInv`: an active worker is of this cycle
  and epoch, and there is none in P1, where the cycle may change without retiring anybody; `LostInv`:
  who is lost is awaited, in front or in the backlog.
* *Goal*. An even root numbers who leads by how many have led (`EvenLineage`), the root a transaction
  began at did (`BeginLineage`), and the tasks of a transaction are where they were or where it leads
  (`Progress`), whatever was planned, staged and consumed (`Planned`, `Counted`, `Standing`,
  `Consumed`, `Decided`, `LostIsPending`). The parts that do not count generations (`Core`, with
  whom a request aims at, `Aimed`, and that who asks has led, `SomeoneLed`) are inductive on their own, and
  hold when a superseded FOREMAN joins. The refinement takes the opening of the root and `Archive`
  as the abstract steps: between them a succession is invisible.
* *Leases*. The odd seal names the request, an intent under it is bound to the end of the ledger, and
  the Goal stands still meanwhile (`SealInv`); what the ledger says of a lease, by its events
  (`LedgerInv`); what a callback has looked at by the time it is where it is (`WorkInv`).
* *Ref*. A lock is a name of a fence that is still there (`LocksAreFences`, `FenceInv`), and from its
  validation on a transaction has both locks, so that nobody moves the ref (`Guarded`, `GitInv`). The
  refinement takes the rename over the ref as the compare-and-swap.
* *Lock of the writers*. `WriterLocks` says what a writer's step can do to the lock; that only the
  holder gives it back is `LockInv`. `LockIsAtomic` and the refinement of `StoreLock` meet in
  `AtomicLock`: the one is all that `withLock` asks, the other that links and reapers provide it.
* *Root*. The holder of the lock is one process, and the lock names its command (`HolderInv`); what it
  has validated is still there (`WorkInv`), because whoever else is about has no lock; an open
  transaction says what seal and payload can be (`OpenInv`); versions rotated away from lie behind the
  seal (`Passed`), so that a second request for a rotation finds itself too late. The refinement takes
  the installation of the seal as the adoption or the rotation, and the append as the write.
* *Merge*. There is no lock between two transactions, so the invariant holds no run to what it has
  read but this: who has looked at the merge commit and goes on has found it exact (`Inspected`), and
  a pull request is merged once (`MergedOnce`), so it stays so. The directory has the stage of the
  step its owner is at (`OwnerInv`). A transaction writes records from a short list (`Legal`), each
  of which has its predecessors.
* *Bootstrap*. The claim is taken once, and whoever is beyond it works for its operation (`Claims`,
  `Fences`); who is about to rename HEAD has all four locks with his fence and looked at the files
  after that (`Armed`), and git, which takes a lock before it replaces a file, cannot touch them
  (`ArmedInv`), unless another caller has renamed meanwhile; that HEAD has the fence's inode means that the rename took place (`Fences`), which is
  what a retry goes by. Most steps leave the worktree as it is (`Still`): `StillInv` deals with them
  once.
* *P1 commit*. For each point of a commit and of an abandonment, the inventory of the event's
  directory; accepted and abandoned exclude each other through what is left of that directory.
* *Handoff*. The tracked files are read first and compared last, so what was read is one tree if they
  are the same (`ReadInv`); a closed log with an audit that counts all its calls replays to what is
  there (`LogInv`); paths are left behind done and clean (`PathInv`); from the fence on the checkpoint
  has the index lock (`FenceInv`).

Only model-checked: all liveness (`RetryHeals`, `StaleWriterReaped`, `RotationRecovers`,
`LocksFreed`, `RetryCloses`, `HandoffCompletes`, `RetryFinishes`), which with fairness and `ENABLED` is
out of reach of the prover. Every safety property of every run is a theorem.

## Plan

1. `GoalOperations`: probe observation refresh and workers' role identities; a run with three tasks.
2. `ResourceLeases`: zero-runtime reinitialization, verify and the identity incident it records.
3. `WorkerBootstrap`: verification of a finished bootstrap; the rest of the canary (its plan, servers
   and probes) on top of it.

## Not modelled

* Pending operations: a read-only listing; what it lists is modelled with its components.
* Runtime incarnations and launch checkpoints: witnesses of processes outside the control state.
* Issue preclaim: a smaller sibling of the merge (intent, external mutation, readback).
* Goal initialization and its receipts: no concurrency, the format of sealed files.
* Contents of evidence, preflight and gate results (no state beyond the records events name), the
  browser canary beyond its prepare, its probe server, incident authority (read-only), argument
  parsing and formatting of the CLI, the extraction provenance tools, the lab.
