----------------------------- MODULE StoreLock -----------------------------
(***************************************************************************)
(* The writer lock of a control root, at the granularity of its system     *)
(* calls (acquireRootWriterLock in store.js).                              *)
(*                                                                         *)
(* A lock is a symlink, .lock, to a directory that holds the sealed record *)
(* of its owner (process and nonce).  Creating the symlink takes the lock; *)
(* renaming it into a private quarantine claims it for deletion.  A lock   *)
(* whose process is dead may be claimed by anyone who holds the reaper     *)
(* mutex, .lock.reap, which is a lock of the same make; a reaper mutex     *)
(* whose process is dead is claimed by anyone at all.  A claim may find    *)
(* that the symlink it moved is not the one it had observed, and then      *)
(* tries to put it back.                                                   *)
(*                                                                         *)
(* Records of the retired format, an unreadable entry (INVALID) and the    *)
(* pending directory of a record that is not sealed yet are left out.      *)
(***************************************************************************)
EXTENDS Naturals, FiniteSets

CONSTANTS
    Proc,
    NoNonce,
    NoProc,
    Slots,         \* nonces of one process that can be about at one time
    Repeats,       \* processes that run any number of commands
    Calls,         \* bound: how many the others run
    Unlucky,       \* processes that may die, or run into LOCK_TIMEOUT
    Late,          \* processes whose first command counts as a fault
    ReaperCost,    \* what the death of a process that owns a reaper mutex counts
    MaxFaults      \* bound on faults

ASSUME LockAssumption ==
    /\ Slots \in Nat \ {0}
    /\ Repeats \subseteq Proc /\ Unlucky \subseteq Proc
    /\ Calls \in [Proc -> Nat]
    /\ Late \subseteq Proc /\ ReaperCost \in Nat \ {0} /\ MaxFaults \in Nat
    /\ NoProc \notin Proc
    /\ NoNonce \notin Proc \X (1..Slots)

VARIABLES
    at,        \* what the names .lock and .lock.reap point to
    aside,     \* owners whose symlink sits under a quarantine name
    backing,   \* owners whose directory exists
    dead,      \* owners whose process is gone
    pc, wn, rn,              \* per process: its writer and reaper nonces
    path, seen, got, failing,    \* ... and the claim it is making
    calls,     \* commands run so far; of a process in Repeats, whether it has run any
    faults

files  == <<at, aside, backing>>
owned  == <<wn, rn>>
claims == <<path, seen, got, failing>>
vars   == <<files, dead, pc, owned, claims, calls, faults>>

Nonce == Proc \X (1..Slots)
Path  == {"writer", "reaper"}
Looks == {"lookReaper", "lookWriter", "relookReaper", "relookWriter"}
PCs   == Looks \cup {"idle", "sweep", "mintReaper", "linkReaper",
          "ownReaper", "mintWriter", "linkWriter", "ownWriter", "critical", "claim",
          "check", "drop", "restore", "putBack", "letgo", "failed"}

TypeOK ==
    /\ at \in [Path -> Nonce \cup {NoNonce}]
    /\ aside \subseteq Nonce /\ backing \subseteq Nonce /\ dead \subseteq Nonce
    /\ pc \in [Proc -> PCs]
    /\ wn \in [Proc -> Nonce \cup {NoNonce}]
    /\ rn \in [Proc -> Nonce \cup {NoNonce}]
    /\ path \in [Proc -> Path]
    /\ seen \in [Proc -> Nonce \cup {NoNonce}]
    /\ got \in [Proc -> Nonce \cup {NoNonce}]
    /\ failing \in [Proc -> BOOLEAN]
    /\ calls \in [Proc -> Nat]
    /\ faults \in Nat

Init ==
    /\ at = [x \in Path |-> NoNonce]
    /\ aside = {} /\ backing = {} /\ dead = {}
    /\ pc = [p \in Proc |-> "idle"]
    /\ wn = [p \in Proc |-> NoNonce]
    /\ rn = [p \in Proc |-> NoNonce]
    /\ path = [p \in Proc |-> "writer"]
    /\ seen = [p \in Proc |-> NoNonce]
    /\ got = [p \in Proc |-> NoNonce]
    /\ failing = [p \in Proc |-> FALSE]
    /\ calls = [p \in Proc |-> 0]
    /\ faults = 0

Goto(p, label) == pc' = [pc EXCEPT ![p] = label]
Absent(x)  == at[x] = NoNonce
Live(x)    == ~Absent(x) /\ at[x] \notin dead
Stale(x)   == ~Absent(x) /\ at[x] \in dead

\* A nonce is random: one that is still named anywhere is not drawn again.
Named ==
    aside \cup backing \cup {at[x] : x \in Path}
        \cup UNION {{wn[q], rn[q], seen[q], got[q]} : q \in Proc}
Draw(p, n) ==
    /\ n \in {p} \X (1..Slots)
    /\ n \notin Named
    /\ \A k \in 1..Slots : k < n[2] => <<p, k>> \in Named

\* The process has returned, thrown or died; a lock it still owns is stale now.
Leave(p) ==
    /\ Goto(p, "idle")
    /\ dead' = dead \cup (backing \cap {wn[p], rn[p]})
    /\ wn' = [wn EXCEPT ![p] = NoNonce]
    /\ rn' = [rn EXCEPT ![p] = NoNonce]
    /\ path' = [path EXCEPT ![p] = "writer"]
    /\ seen' = [seen EXCEPT ![p] = NoNonce]
    /\ got' = [got EXCEPT ![p] = NoNonce]
    /\ failing' = [failing EXCEPT ![p] = FALSE]

\* The budget of faults keeps three processes and a dying reaper apart, which
\* together are too much for this lock (README.md, Findings, "also seen").
Fault(cost) ==
    /\ faults + cost <= MaxFaults
    /\ faults' = faults + cost

Start(p) ==
    /\ pc[p] = "idle"
    /\ p \in Repeats \/ calls[p] < Calls[p]
    /\ calls' = [calls EXCEPT ![p] = IF p \in Repeats THEN 1 ELSE @ + 1]
    /\ Fault(IF p \in Late /\ calls[p] = 0 THEN 1 ELSE 0)
    /\ Goto(p, "sweep")
    /\ UNCHANGED <<files, dead, owned, claims>>

-----------------------------------------------------------------------------
(* cleanupStaleLockArtifacts, before and after the lock is taken: what dead *)
(* owners left in quarantine, then their directories nobody points to.      *)

Sweep(p) ==
    /\ pc[p] = "sweep"
    /\ LET links == aside \cap dead
           dirs  == (backing \cap dead) \ (aside \cup {at[x] : x \in Path})
       IN  /\ aside' = aside \ links
           /\ backing' = backing \ (links \cup dirs)
           /\ dead' = dead \ (links \cup dirs)
    /\ Goto(p, IF wn[p] = NoNonce THEN "lookReaper" ELSE "critical")
    /\ UNCHANGED <<at, owned, claims, calls, faults>>

-----------------------------------------------------------------------------
(* The loop of acquireRootWriterLock. *)

\* Nothing there: look further.  Somebody there: wait, from the start.
Look(p, x, here, next) ==
    /\ pc[p] = here
    /\ Absent(x)
    /\ Goto(p, next)
    /\ UNCHANGED <<files, dead, owned, claims, calls, faults>>

Wait(p) ==
    /\ \/ pc[p] = "lookWriter" /\ Live("writer")
       \/ pc[p] = "relookReaper" /\ ~Absent("reaper")
       \/ pc[p] = "relookWriter" /\ ~Absent("writer")
    /\ Goto(p, "lookReaper")
    /\ UNCHANGED <<files, dead, owned, claims, calls, faults>>

\* LOCK_TIMEOUT.
GiveUp(p) ==
    /\ p \in Unlucky
    /\ pc[p] \in Looks
    /\ ~Absent("reaper") \/ ~Absent("writer")
    /\ Leave(p)
    /\ UNCHANGED <<files, calls, faults>>

\* Mutant: a dead reaper is recovered only when no writer is in its way.
ObserveReaperAlone(p) ==
    /\ pc[p] = "lookReaper" /\ Stale("reaper") /\ Absent("writer")
    /\ path' = [path EXCEPT ![p] = "reaper"]
    /\ seen' = [seen EXCEPT ![p] = at["reaper"]]
    /\ Goto(p, "claim")
    /\ UNCHANGED <<files, dead, owned, got, failing, calls, faults>>

\* tryRecoverStaleReaper observes a dead reaper; no mutex covers the claim.
ObserveReaper(p) ==
    /\ pc[p] = "lookReaper" /\ Stale("reaper")
    /\ path' = [path EXCEPT ![p] = "reaper"]
    /\ seen' = [seen EXCEPT ![p] = at["reaper"]]
    /\ Goto(p, "claim")
    /\ UNCHANGED <<files, dead, owned, got, failing, calls, faults>>

ObserveStaleWriter(p) ==
    /\ pc[p] = "lookWriter" /\ Stale("writer")
    /\ Goto(p, "mintReaper")
    /\ UNCHANGED <<files, dead, owned, claims, calls, faults>>

-----------------------------------------------------------------------------
(* publishOwnedDirectory. *)

\* The sealed record is renamed to its backing name.
Mint(p, here, next, nonces) ==
    /\ pc[p] = here
    /\ \E n \in Nonce :
          /\ Draw(p, n)
          /\ nonces' = [nonces EXCEPT ![p] = n]
          /\ backing' = backing \cup {n}
          /\ dead' = dead \ {n}
    /\ Goto(p, next)
    /\ UNCHANGED <<at, aside, claims, calls, faults>>

MintReaper(p) == Mint(p, "mintReaper", "linkReaper", rn) /\ UNCHANGED wn
MintWriter(p) == Mint(p, "mintWriter", "linkWriter", wn) /\ UNCHANGED rn

\* Mutant: the name is taken with a rename, which does replace.
LinkWriterReplacing(p) ==
    /\ pc[p] = "linkWriter"
    /\ at' = [at EXCEPT !["writer"] = wn[p]]
    /\ Goto(p, "ownWriter")
    /\ UNCHANGED <<backing, aside, dead, owned, claims, calls, faults>>

\* symlink(2) does not replace: either it takes the name, or EEXIST.
LinkReaper(p) ==
    /\ pc[p] = "linkReaper"
    /\ \/ /\ Absent("reaper")
          /\ at' = [at EXCEPT !["reaper"] = rn[p]]
          /\ Goto(p, "ownReaper")
          /\ UNCHANGED <<backing, rn>>
       \/ /\ ~Absent("reaper")
          /\ backing' = backing \ {rn[p]}
          /\ rn' = [rn EXCEPT ![p] = NoNonce]
          /\ Goto(p, "lookReaper")
          /\ UNCHANGED at
    /\ UNCHANGED <<aside, dead, wn, claims, calls, faults>>

LinkWriter(p) ==
    /\ pc[p] = "linkWriter"
    /\ \/ /\ Absent("writer")
          /\ at' = [at EXCEPT !["writer"] = wn[p]]
          /\ Goto(p, "ownWriter")
          /\ UNCHANGED <<backing, wn>>
       \/ /\ ~Absent("writer")
          /\ backing' = backing \ {wn[p]}
          /\ wn' = [wn EXCEPT ![p] = NoNonce]
          /\ Goto(p, "lookReaper")
          /\ UNCHANGED at
    /\ UNCHANGED <<aside, dead, rn, claims, calls, faults>>

\* The publisher reads its own record back, or throws LOCK_OWNERSHIP_LOST.
OwnWriter(p) ==
    /\ pc[p] = "ownWriter"
    /\ Goto(p, IF at["writer"] = wn[p] THEN "sweep" ELSE "failed")
    /\ UNCHANGED <<files, dead, owned, claims, calls, faults>>

LostReaper(p) ==
    /\ pc[p] = "ownReaper" /\ at["reaper"] # rn[p]
    /\ Goto(p, "failed")
    /\ UNCHANGED <<files, dead, owned, claims, calls, faults>>

\* Mutant: under its mutex the reaper trusts what it saw before.
OwnReaperBlind(p) ==
    /\ pc[p] = "ownReaper" /\ at["reaper"] = rn[p]
    /\ seen' = [seen EXCEPT ![p] = at["writer"]]
    /\ Goto(p, IF Absent("writer") THEN "letgo" ELSE "claim")
    /\ UNCHANGED <<files, dead, owned, path, got, failing, calls, faults>>

\* The reaper looks at the writer again, under its mutex.
OwnReaper(p) ==
    /\ pc[p] = "ownReaper" /\ at["reaper"] = rn[p]
    /\ \/ /\ Stale("writer")
          /\ path' = [path EXCEPT ![p] = "writer"]
          /\ seen' = [seen EXCEPT ![p] = at["writer"]]
          /\ Goto(p, "claim")
       \/ ~Stale("writer") /\ Goto(p, "letgo") /\ UNCHANGED <<path, seen>>
    /\ UNCHANGED <<files, dead, owned, got, failing, calls, faults>>

-----------------------------------------------------------------------------
(* releaseOwnedDirectory and claimAndDeleteObservedDirectory. *)

Releasing(p) == seen[p] \in {wn[p], rn[p]}
Reaping(p)   == path[p] = "writer" /\ ~Releasing(p)

\* Where a claim leaves its process: through, or throwing.
Through(p) ==
    CASE Releasing(p) /\ path[p] = "writer" -> "idle"
      [] Releasing(p) /\ path[p] = "reaper" -> IF failing[p] THEN "failed" ELSE "lookReaper"
      [] Reaping(p)                         -> "letgo"
      [] OTHER                              -> "lookReaper"
Thrown(p) == IF Reaping(p) THEN "letgo" ELSE "failed"

\* The claim is over, and what it was about is forgotten.
EndClaim(p, label, threw) ==
    /\ Goto(p, label)
    /\ failing' = [failing EXCEPT ![p] = threw /\ label = "letgo"]
    /\ path' = [path EXCEPT ![p] = "writer"]
    /\ seen' = [seen EXCEPT ![p] = NoNonce]
    /\ got' = [got EXCEPT ![p] = NoNonce]

\* assertOwnedDirectory, then the claim of the own lock.
LetGo(p) ==
    /\ pc[p] \in {"letgo", "critical"}
    /\ LET x == IF pc[p] = "letgo" THEN "reaper" ELSE "writer"
           n == IF pc[p] = "letgo" THEN rn[p] ELSE wn[p]
       IN  \/ /\ at[x] = n
              /\ path' = [path EXCEPT ![p] = x]
              /\ seen' = [seen EXCEPT ![p] = n]
              /\ Goto(p, "claim")
           \/ at[x] # n /\ Goto(p, "failed") /\ UNCHANGED <<path, seen>>
    /\ UNCHANGED <<files, dead, owned, got, failing, calls, faults>>

\* rename(2) moves whatever the name points to by now.
Claim(p) ==
    /\ pc[p] = "claim"
    /\ ~Absent(path[p])
    /\ got' = [got EXCEPT ![p] = at[path[p]]]
    /\ aside' = aside \cup {at[path[p]]}
    /\ at' = [at EXCEPT ![path[p]] = NoNonce]
    /\ Goto(p, "check")
    /\ UNCHANGED <<backing, dead, owned, path, seen, failing, calls, faults>>

\* ENOENT: for a release, ownership lost; for a stale lock, somebody was faster.
ClaimMissed(p) ==
    /\ pc[p] = "claim"
    /\ Absent(path[p])
    /\ EndClaim(p, IF Releasing(p) THEN "failed" ELSE Through(p), FALSE)
    /\ UNCHANGED <<files, dead, owned, calls, faults>>

\* sameOwnedDirectory and validateClaimedBacking.
Check(p) ==
    /\ pc[p] = "check"
    /\ \/ /\ got[p] = seen[p] /\ got[p] \in aside \cap backing
          /\ aside' = aside \ {got[p]}
          /\ Goto(p, "drop")
       \/ /\ ~(got[p] = seen[p] /\ got[p] \in aside \cap backing)
          /\ Goto(p, "restore")
          /\ UNCHANGED aside
    /\ UNCHANGED <<at, backing, dead, owned, claims, calls, faults>>

Drop(p) ==
    /\ pc[p] = "drop"
    /\ backing' = backing \ {got[p]}
    /\ dead' = dead \ {got[p]}
    /\ wn' = [wn EXCEPT ![p] = IF @ = got[p] THEN NoNonce ELSE @]
    /\ rn' = [rn EXCEPT ![p] = IF @ = got[p] THEN NoNonce ELSE @]
    /\ EndClaim(p, Through(p), FALSE)
    /\ UNCHANGED <<at, aside, calls, faults>>

\* restoreClaimedDirectory: a test for existence, then a rename that replaces.
Restore(p) ==
    /\ pc[p] = "restore"
    /\ \/ /\ Absent(path[p])
          /\ Goto(p, "putBack")
          /\ UNCHANGED claims
       \/ /\ ~Absent(path[p])
          /\ EndClaim(p, Thrown(p), TRUE)
    /\ UNCHANGED <<files, dead, owned, calls, faults>>

PutBack(p) ==
    /\ pc[p] = "putBack"
    /\ IF got[p] \in aside
       THEN /\ at' = [at EXCEPT ![path[p]] = got[p]]
            /\ aside' = aside \ {got[p]}
       ELSE UNCHANGED <<at, aside>>
    /\ EndClaim(p, Thrown(p), TRUE)
    /\ UNCHANGED <<backing, dead, owned, calls, faults>>

-----------------------------------------------------------------------------
\* A command that threw ends its process.
Exit(p) ==
    /\ pc[p] = "failed"
    /\ Leave(p)
    /\ UNCHANGED <<files, calls, faults>>

Crash(p) ==
    /\ p \in Unlucky
    /\ pc[p] \notin {"idle", "failed"}
    /\ Fault(IF rn[p] = NoNonce THEN 1 ELSE ReaperCost)
    /\ Leave(p)
    /\ UNCHANGED <<files, calls>>

Acquiring(p) ==
    \/ Sweep(p)
    \/ Look(p, "reaper", "lookReaper", "lookWriter")
    \/ Look(p, "writer", "lookWriter", "relookReaper")
    \/ Look(p, "reaper", "relookReaper", "relookWriter")
    \/ Look(p, "writer", "relookWriter", "mintWriter")
    \/ Wait(p) \/ ObserveReaper(p) \/ ObserveStaleWriter(p)
    \/ MintReaper(p) \/ MintWriter(p) \/ LinkReaper(p) \/ LinkWriter(p)
    \/ OwnWriter(p) \/ LostReaper(p) \/ OwnReaper(p)

Claiming(p) ==
    \/ LetGo(p) \/ Claim(p) \/ ClaimMissed(p) \/ Check(p) \/ Drop(p)
    \/ Restore(p) \/ PutBack(p) \/ Exit(p)

Next == \E p \in Proc : Start(p) \/ Acquiring(p) \/ GiveUp(p) \/ Claiming(p) \/ Crash(p)

Spec == Init /\ [][Next]_vars

\* Every process inside a command keeps running; crashes, callers and
\* timeouts are not promised.
FairSpec == Spec /\ \A p \in Proc : WF_vars(Acquiring(p)) /\ WF_vars(Claiming(p))

-----------------------------------------------------------------------------
(* Safety. *)

\* "A command holds the one nonce writer lock" (store-operations.md): no two
\* live processes are inside withLock's callback.
MutualExclusion ==
    \A p, q \in Proc : pc[p] = "critical" /\ pc[q] = "critical" => p = q

\* Whatever a claim moved by mistake, the owner record of a live process is
\* deleted by that process only (sameOwnedDirectory, validateClaimedBacking).
LiveRecordKept ==
    [][\A n \in backing \ dead : n \notin backing' => pc'[n[1]] # pc[n[1]]]_vars

\* A claim of a dead writer's lock is about to move the lock of somebody who has taken
\* the name since it was observed: two processes reap at one time, each under a mutex it
\* has found to be its own, after the recovery of a dead reaper has moved a live one's.
NeverOvertaken ==
    \A p \in Proc : pc[p] = "claim" /\ Reaping(p) => at["writer"] \in {seen[p], NoNonce}

-----------------------------------------------------------------------------
(* Liveness. *)

\* A contender that does not give up sees a dead writer's lock reaped.
StaleWriterReaped ==
    \A p \in Proc :
        Stale("writer") /\ pc[p] = "lookReaper"
            ~> ~Stale("writer") \/ pc[p] \in {"idle", "failed"}

-----------------------------------------------------------------------------
(* Refinement. *)

Abstract == INSTANCE AtomicLock WITH
    holder <- IF Live("writer") THEN at["writer"][1] ELSE NoProc,
    stale  <- Stale("writer")

\* As long as no claim is overtaken, the symlink protocol is an atomic lock.
ImplementsAtomicLock == Abstract!Spec
=============================================================================
