---------------------------- MODULE GithubMerge ----------------------------
(***************************************************************************)
(* goalctl merge-pr (github-merge.js): a squash merge on GitHub wrapped in *)
(* durable records: intent and reservation (one transaction), invocation,  *)
(* the external command, receipt, and the event MERGED with its completion *)
(* (one transaction). Exact retries of one request run in processes of     *)
(* their own; they meet in the records, on GitHub and in the private       *)
(* object directory of the evidence. What is between two transactions runs *)
(* without a lock, on what the run has read before.                        *)
(*                                                                         *)
(* A transaction installs a prefix of its records when it dies and leaves  *)
(* the generation odd (StoreTransaction); a process killed while a record  *)
(* is being installed is the subject of that module and of ResourceLeases. *)
(***************************************************************************)
EXTENDS MergeRecords, Naturals, Sequences, SequencesExt

CONSTANTS
    Runner,        \* processes that run the one request
    MaxFaults,  \* bound on crashes
    MaxDrift    \* bound on what others do to GitHub, the clone and the root

Receipt == [tracking : BOOLEAN]
Merge   == [squash : BOOLEAN, candidate : BOOLEAN, hand : BOOLEAN]

ASSUME MergeAssumption ==
    /\ {MaxFaults, MaxDrift} \subseteq Nat
    /\ None \notin Runner \cup Receipt \cup Merge \cup {"AUTHORIZED", "OBSERVED"}

VARIABLES
    odd,      \* the root generation is odd, bound to this request
    moved,    \* another event was accepted on the task before the reservation
    fetch,    \* the private object directory and its owner
    flying,   \* runs whose merge command may still reach GitHub
    clone,    \* the local clone: has the merge commit, its tracking ref is there
    pc,
    mem,      \* what a run remembers from one step for a later one
    faults, drift

root == <<rec, odd, moved>>
world == <<main, pr, clone>>
vars == <<root, fetch, world, flying, pc, mem, faults, drift>>

\* invoked, receipt: of the transaction it has read; tracked: the tracking ref of
\* its evidence; checked: it collected its preflight, or its evidence held.
Blank == [invoked |-> FALSE, receipt |-> None, tracked |-> FALSE, checked |-> FALSE]

PCs ==
    {"idle", "checkpoint", "load", "rebuild", "boundary", "initial", "reserve", "query", "observe",
     "before", "authorize", "last", "dispatch", "answer", "evidence", "acquire", "mkdir", "bind",
     "fetch", "promote", "rename", "remove", "unown", "verify", "seal", "reload", "revalidate",
     "accept", "finish"}

TypeOK ==
    /\ rec \in [intent : BOOLEAN, reservation : BOOLEAN, invocation : {None, "AUTHORIZED", "OBSERVED"},
                receipt : Receipt \cup {None}, accepted : BOOLEAN, completion : BOOLEAN]
    /\ odd \in BOOLEAN /\ moved \in BOOLEAN
    /\ fetch \in [stage : {"none", "owned", "unbound", "bound", "quarantine"}, by : Runner \cup {None}]
    /\ main \in Seq({"merge", "other"})
    /\ pr \in [state : {"OPEN", "MERGED"}, head : BOOLEAN, body : BOOLEAN, merge : Merge \cup {None}]
    /\ clone \in [has : BOOLEAN, tracking : BOOLEAN]
    /\ flying \subseteq Runner
    /\ pc \in [Runner -> PCs]
    /\ mem \in [Runner -> [invoked : BOOLEAN, receipt : Receipt \cup {None},
                         tracked : BOOLEAN, checked : BOOLEAN]]
    /\ faults \in Nat /\ drift \in Nat

Goto(p, l) == pc' = [pc EXCEPT ![p] = l]
Knows(p, m) == mem' = [mem EXCEPT ![p] = m]
Idle(p) == Goto(p, "idle") /\ Knows(p, Blank)

\* The run ends with an error, or is done; nothing else happens.
Refuse(p) == Idle(p) /\ UNCHANGED <<root, fetch, world, flying, faults, drift>>

\* It goes on, with what it has learnt.
Learn(p, m, l) ==
    /\ Goto(p, l) /\ Knows(p, m)
    /\ UNCHANGED <<root, fetch, world, flying, faults, drift>>

Proceed(p, l) == Learn(p, mem[p], l)

-----------------------------------------------------------------------------
(* What the records say. *)

NoRecords ==
    [intent |-> FALSE, reservation |-> FALSE, invocation |-> None,
     receipt |-> None, accepted |-> FALSE, completion |-> FALSE]

HasEvidence == rec.reservation \/ rec.intent    \* an intent is the first sideband

\* assertIntentAnchor: the reservation is still the last event of its task.
Anchored == rec.reservation /\ ~rec.accepted /\ ~moved

\* A recorded merge nobody has closed: listGitHubMergeOperations.
Pending == HasEvidence /\ ~rec.completion

\* The pull request is the one the intent sealed (normalizePr and its contract).
SamePr == pr.head /\ pr.body

\* Nothing was recorded or accepted under the id of the event, and the revision
\* is the expected one (assertTaskReady, assertGoalWideEventIdBoundary).
Ready == ~HasEvidence /\ ~moved

\* The pull request may still be merged, and gh may do it (the two canaries).
Preflight == pr.state = "OPEN" /\ SamePr

\* The fetched remote base is the merge commit; the base is the expected head.
BaseIsMerge == main # <<>> /\ Last(main) = "merge"
BaseIsExpected == main = <<>>

\* Mutant: one parent is enough, whichever it is.
MergeIsExact_AnyParent == pr.merge # None /\ pr.merge.squash /\ pr.merge.candidate

\* One parent, the expected head; tree and patch are those of the candidate.
MergeIsExact == pr.merge # None /\ pr.merge.squash /\ pr.merge.candidate /\ main[1] = "merge"

\* assertExactRequest and assertExternalWriteBoundary, as far as others can
\* change what they read.
ExactRequest == Anchored /\ rec.intent

-----------------------------------------------------------------------------
(* Transactions. *)

\* mergeLockOptions: an odd generation is entered by who has a witness, or by
\* a fresh start when nothing was recorded.
Authorized(pristine) == odd => HasEvidence \/ pristine

\* authorizePristineMergeOddRecovery: nothing but a first intent was cut off.
Pristine == ~HasEvidence

\* The events GITHUB_MERGE_RESERVED and MERGED, and the record that closes all.
Reserved(r) == [r EXCEPT !.reservation = TRUE]
Merged(r) == [r EXCEPT !.accepted = TRUE]
Completed(r) == [r EXCEPT !.completion = TRUE]

Dies(p) ==
    /\ faults < MaxFaults /\ faults' = faults + 1
    /\ Idle(p)

\* The callback installs the records in steps, each the records so far.
Transaction(p, steps, next) ==
    /\ \/ /\ rec' = steps[Len(steps)] /\ odd' = FALSE
          /\ Goto(p, next) /\ Knows(p, IF next = "idle" THEN Blank ELSE mem[p])
          /\ UNCHANGED faults
       \/ /\ \E i \in 0..Len(steps) : rec' = IF i = 0 THEN rec ELSE steps[i]
          /\ odd' = TRUE /\ Dies(p)
    /\ UNCHANGED <<moved, fetch, world, flying, drift>>

Init ==
    /\ rec = NoRecords /\ odd = FALSE /\ moved = FALSE
    /\ fetch = [stage |-> "none", by |-> None]
    /\ main = <<>>
    /\ pr = [state |-> "OPEN", head |-> TRUE, body |-> TRUE, merge |-> None]
    /\ clone = [has |-> FALSE, tracking |-> FALSE]
    /\ flying = {}
    /\ pc = [p \in Runner |-> "idle"]
    /\ mem = [p \in Runner |-> Blank]
    /\ faults = 0 /\ drift = 0

-----------------------------------------------------------------------------
(* The beginning of mergePullRequest. *)

\* A run begins; under an odd generation with evidence it first closes it.
Start(p) ==
    /\ pc[p] = "idle" /\ ~rec.completion
    /\ Proceed(p, IF odd /\ HasEvidence THEN "checkpoint" ELSE "load")

\* exactMergeRecoveryCheckpoint: nothing to promote, the generation is closed.
Checkpoint(p) ==
    /\ pc[p] = "checkpoint"
    /\ IF HasEvidence
       THEN Transaction(p, <<rec>>, "load")
       ELSE Refuse(p)

\* What readMergeTransaction tells a run.
ReadRecords ==
    [Blank EXCEPT !.invoked = rec.invocation # None, !.receipt = rec.receipt]

\* readMergeTransaction, and where it sends the run.
Load(p) ==
    /\ pc[p] = "load"
    /\ Learn(p, ReadRecords, IF ~rec.intent THEN (IF rec.reservation THEN "rebuild" ELSE "boundary")
                             ELSE IF ~rec.reservation THEN "reserve"
                             ELSE IF rec.accepted THEN "finish"
                             ELSE IF rec.receipt # None THEN "revalidate"
                             ELSE "query")

\* The sidebands are lost, the event is not: the intent is what it says.
Rebuild(p) ==
    /\ pc[p] = "rebuild"
    /\ IF Authorized(FALSE) /\ ~rec.intent /\ Anchored
       THEN Transaction(p, <<[rec EXCEPT !.intent = TRUE]>>, "load")
       ELSE Refuse(p)

\* initialBoundary and the preflight; a pristine odd start repeats them inside.
Boundary(p) ==
    /\ pc[p] = "boundary"
    /\ IF Ready /\ (odd \/ Preflight)
       THEN Learn(p, [mem[p] EXCEPT !.checked = ~odd], "initial")
       ELSE Refuse(p)

\* prepareIntentUnderLock: nothing is pending and the revision is the expected one.
PrepareIntent(p) ==
    /\ ~Pending /\ ~moved
    /\ ~mem[p].checked => Preflight

\* Intent and reservation are one transaction; it may start pristine.
Initial(p) ==
    /\ pc[p] = "initial"
    /\ LET sealed == [rec EXCEPT !.intent = TRUE]
       IN  IF Authorized(Pristine) /\ PrepareIntent(p)
           THEN Transaction(p, <<sealed, Reserved(sealed)>>, "load")
           ELSE Refuse(p)

\* An intent whose reservation was cut off; somebody may have accepted it since.
Reserve(p) ==
    /\ pc[p] = "reserve"
    /\ IF Authorized(FALSE) /\ rec.intent /\ ~moved
       THEN Transaction(p, <<Reserved(rec)>>, "load")
       ELSE Refuse(p)

-----------------------------------------------------------------------------
(* Observation, invocation, dispatch. *)

\* The pull request before anything is done; a hand may have merged it.
Query(p) ==
    /\ pc[p] = "query"
    /\ IF ExactRequest /\ SamePr
       THEN Learn(p, Blank,
                IF pr.state = "MERGED" THEN (IF mem[p].invoked THEN "evidence" ELSE "observe")
                ELSE IF mem[p].invoked THEN "last" ELSE "before")
       ELSE Refuse(p)

\* finalPreDispatchObservation: ls-remote and the pull request once more.
FinalObservation == ExactRequest /\ BaseIsExpected /\ Preflight

Before(p) ==
    /\ pc[p] = "before"
    /\ IF FinalObservation THEN Proceed(p, "authorize") ELSE Refuse(p)

Invoked(mode) == [rec EXCEPT !.invocation = mode]

\* The record of a dispatch that is about to happen; a second one differs.
Authorize(p) ==
    /\ pc[p] = "authorize"
    /\ IF Authorized(FALSE) /\ ExactRequest /\ rec.invocation = None
       THEN Transaction(p, <<Invoked("AUTHORIZED")>>, "last")
       ELSE Refuse(p)

\* The record of a merge that was there already: no dispatch is claimed.
Observe(p) ==
    /\ pc[p] = "observe"
    /\ IF Authorized(FALSE) /\ ExactRequest /\ rec.invocation = None
       THEN Transaction(p, <<Invoked("OBSERVED")>>, "evidence")
       ELSE Refuse(p)

LastLook(p) ==
    /\ pc[p] = "last"
    /\ IF FinalObservation THEN Proceed(p, "dispatch") ELSE Refuse(p)

\* gh pr merge --squash --match-head-commit is on its way.
Dispatch(p) ==
    /\ pc[p] = "dispatch"
    /\ flying' = flying \cup {p}
    /\ Goto(p, "answer")
    /\ UNCHANGED <<root, fetch, world, mem, faults, drift>>

\* GitHub takes the command, at whatever moment, if the head still matches.
Apply(p) ==
    /\ p \in flying /\ flying' = flying \ {p}
    /\ IF pr.state = "OPEN" /\ pr.head
       THEN /\ pr' = [pr EXCEPT !.state = "MERGED",
                        !.merge = [squash |-> TRUE, candidate |-> TRUE, hand |-> FALSE]]
            /\ main' = Append(main, "merge")
       ELSE UNCHANGED <<pr, main>>
    /\ UNCHANGED <<root, fetch, clone, pc, mem, faults, drift>>

\* Or it never arrives.
Lose(p) ==
    /\ p \in flying /\ flying' = flying \ {p}
    /\ UNCHANGED <<root, fetch, world, pc, mem, faults, drift>>

\* The command is back, or was killed by its timeout: the pull request decides.
Answer(p) ==
    /\ pc[p] = "answer"
    /\ \/ Refuse(p)
       \/ /\ pr.state = "MERGED" /\ SamePr
          /\ Proceed(p, "evidence")

-----------------------------------------------------------------------------
(* Evidence: the merge commit is read from the clone, or fetched into a      *)
(* private directory that one run at a time owns.                            *)

Owner(stage, p) == fetch' = [stage |-> stage, by |-> p]
Free == fetch.stage = "none"
Fetching == {"mkdir", "bind", "fetch", "promote", "rename", "remove", "unown"}

\* Mutant: an owner file speaks for a live process.
Orphaned_Never == FALSE

\* The process that wrote the owner file is gone (processAppearsLive).
Orphaned == ~Free /\ pc[fetch.by] \notin Fetching

Advance(p, l) == Goto(p, l) /\ UNCHANGED <<root, world, flying, mem, faults, drift>>

\* readOnlyMergeGitEvidence up to the object lookup. The tracking ref is noted.
Evidence(p) ==
    /\ pc[p] = "evidence"
    /\ IF ExactRequest /\ BaseIsMerge
       THEN Learn(p, [Blank EXCEPT !.tracked = clone.tracking],
                  IF clone.has THEN "verify" ELSE "acquire")
       ELSE Refuse(p)

\* acquireMergeObjectFetchDirectory: the owner file is created, or found; a
\* live owner is left alone.
Acquire(p) ==
    /\ pc[p] = "acquire"
    /\ \/ Free /\ Owner("owned", p) /\ Advance(p, "mkdir")
       \/ ~Free /\ ~Orphaned /\ Refuse(p)

\* cleanupMergeFetchArtifacts for a dead owner: what is bound to its file by
\* the hard link goes; a directory without its marker belongs to nobody.
Clean(p) ==
    /\ pc[p] = "acquire" /\ Orphaned
    /\ \/ fetch.stage = "bound" /\ Owner("quarantine", fetch.by) /\ Advance(p, "acquire")
       \/ fetch.stage = "quarantine" /\ Owner("owned", fetch.by) /\ Advance(p, "acquire")
       \/ fetch.stage = "owned" /\ Owner("none", None) /\ Advance(p, "acquire")
       \/ fetch.stage = "unbound" /\ Refuse(p)

\* publishMergeFetchOwner: the directory, then the marker linked into it.
MakeDirectory(p) ==
    /\ pc[p] = "mkdir" /\ Owner("unbound", p)
    /\ Advance(p, "bind")

Bind(p) ==
    /\ pc[p] = "bind" /\ Owner("bound", p)
    /\ Advance(p, "fetch")

\* The base is fetched into the directory and the merge commit inspected there.
Fetch(p) ==
    /\ pc[p] = "fetch"
    /\ Learn(p, [mem[p] EXCEPT !.checked = MergeIsExact],
             IF MergeIsExact THEN "promote" ELSE "rename")

\* promoteVerifiedMergeObjects: into the shared store, if the base still is
\* the merge; looked at before and after.
Promote(p) ==
    /\ pc[p] = "promote"
    /\ IF BaseIsMerge
       THEN clone' = [clone EXCEPT !.has = TRUE] /\ UNCHANGED mem
       ELSE Knows(p, [mem[p] EXCEPT !.checked = FALSE]) /\ UNCHANGED clone
    /\ Goto(p, "rename")
    /\ UNCHANGED <<root, fetch, main, pr, flying, faults, drift>>

\* releaseMergeObjectFetchDirectory, whatever came of it.
Rename(p) ==
    /\ pc[p] = "rename" /\ Owner("quarantine", p)
    /\ Advance(p, "remove")

Empty(p) ==
    /\ pc[p] = "remove" /\ Owner("owned", p)
    /\ Advance(p, "unown")

Unown(p) ==
    /\ pc[p] = "unown" /\ Owner("none", None)
    /\ IF mem[p].checked
       THEN Goto(p, "seal") /\ Knows(p, [mem[p] EXCEPT !.checked = FALSE])
       ELSE Idle(p)
    /\ UNCHANGED <<root, world, flying, faults, drift>>

\* mergeGitEvidenceFromEnvironment on a commit the clone has.
Verify(p) ==
    /\ pc[p] = "verify"
    /\ IF MergeIsExact THEN Proceed(p, "seal") ELSE Refuse(p)

-----------------------------------------------------------------------------
(* Receipt and event. *)

\* publishReceiptUnderLock: a receipt that is there was made at another time.
SealReceipt(p) ==
    /\ pc[p] = "seal"
    /\ IF Authorized(FALSE) /\ ExactRequest /\ rec.invocation # None /\ rec.receipt = None
       THEN Transaction(p, <<[rec EXCEPT !.receipt = [tracking |-> mem[p].tracked]]>>, "reload")
       ELSE Refuse(p)

Reload(p) ==
    /\ pc[p] = "reload"
    /\ IF rec.receipt # None THEN Learn(p, ReadRecords, "revalidate") ELSE Refuse(p)

\* revalidateReceiptEvidence: everything once more, and equal to the receipt.
Revalidate(p) ==
    /\ pc[p] = "revalidate"
    /\ IF /\ ExactRequest
          /\ pr.state = "MERGED" /\ SamePr /\ BaseIsMerge /\ MergeIsExact
          /\ mem[p].receipt = [tracking |-> clone.tracking]
       THEN Proceed(p, "accept")
       ELSE Refuse(p)

\* verifyMergeReceiptForEvent: the sealed transaction, as the run has read it.
ReceiptForEvent(p) ==
    \/ rec.accepted
    \/ Anchored /\ rec.receipt # None /\ rec.receipt = mem[p].receipt /\ ~rec.completion

Accept(p) ==
    /\ pc[p] = "accept"
    /\ IF Authorized(FALSE) /\ ReceiptForEvent(p)
           THEN Transaction(p, <<Merged(rec), Completed(Merged(rec))>>, "idle")
           ELSE Refuse(p)

\* finishAcceptedTransaction: the event is there, its completion is not.
Finish(p) ==
    /\ pc[p] = "finish"
    /\ IF Authorized(FALSE) /\ mem[p].receipt # None
       THEN Transaction(p, <<Completed(rec)>>, "idle")
       ELSE Refuse(p)

-----------------------------------------------------------------------------
(* Deaths, and the others. *)

\* A run is killed between two steps; a removal under way may have taken the
\* marker, or everything, with it.
Crash(p) ==
    /\ pc[p] # "idle"
    /\ Dies(p)
    /\ \/ UNCHANGED fetch
       \/ pc[p] = "remove" /\ Owner("unbound", p)
    /\ UNCHANGED <<root, world, flying, drift>>

Drift == drift < MaxDrift /\ drift' = drift + 1

\* The base branch gets a commit of somebody else.
PushMain ==
    /\ Drift /\ main' = Append(main, "other")
    /\ UNCHANGED <<root, fetch, pr, clone, flying, pc, mem, faults>>

\* Somebody merges by hand, squashed or not.
HandMerge ==
    /\ Drift /\ pr.state = "OPEN"
    /\ \E squash \in BOOLEAN :
          pr' = [pr EXCEPT !.state = "MERGED",
                   !.merge = [squash |-> squash, candidate |-> pr.head, hand |-> TRUE]]
    /\ main' = Append(main, "merge")
    /\ UNCHANGED <<root, fetch, clone, flying, pc, mem, faults>>

\* The pull request gets another head while it is open, or another text.
EditPr ==
    /\ Drift
    /\ \/ pr.state = "OPEN" /\ pr' = [pr EXCEPT !.head = FALSE]
       \/ pr' = [pr EXCEPT !.body = ~@]
    /\ UNCHANGED <<root, fetch, main, clone, flying, pc, mem, faults>>

\* git fetch in the clone.
FetchClone ==
    /\ Drift
    /\ clone' = [has |-> clone.has \/ Contains(main, "merge"), tracking |-> BaseIsMerge]
    /\ UNCHANGED <<root, fetch, main, pr, flying, pc, mem, faults>>

\* Another command's event on the task; a pending merge keeps it out.
OtherEvent ==
    /\ Drift /\ ~odd /\ ~Pending /\ ~rec.accepted
    /\ moved' = TRUE
    /\ UNCHANGED <<rec, odd, fetch, world, flying, pc, mem, faults>>

\* The files beside the event log are lost; the log is not.
SidebandsLost ==
    /\ Drift /\ ~odd /\ rec.intent /\ ~rec.accepted
    /\ rec' = [NoRecords EXCEPT !.reservation = rec.reservation]
    /\ UNCHANGED <<odd, moved, fetch, world, flying, pc, mem, faults>>

Step(p) ==
    \/ Start(p) \/ Checkpoint(p) \/ Load(p) \/ Rebuild(p) \/ Boundary(p)
    \/ Initial(p) \/ Reserve(p) \/ Query(p) \/ Before(p) \/ Authorize(p)
    \/ Observe(p) \/ LastLook(p) \/ Dispatch(p) \/ Answer(p) \/ Evidence(p)
    \/ Acquire(p) \/ Clean(p) \/ MakeDirectory(p) \/ Bind(p) \/ Fetch(p)
    \/ Promote(p) \/ Rename(p) \/ Empty(p) \/ Unown(p) \/ Verify(p)
    \/ SealReceipt(p) \/ Reload(p) \/ Revalidate(p) \/ Accept(p) \/ Finish(p)

Others ==
    \/ PushMain \/ HandMerge \/ EditPr \/ FetchClone \/ OtherEvent \/ SidebandsLost

Next ==
    \/ \E p \in Runner : Step(p) \/ Apply(p) \/ Lose(p) \/ Crash(p)
    \/ Others

Spec == Init /\ [][Next]_vars

\* A process goes on or dies, a caller retries until the merge is closed, a
\* command arrives or does not.
FairSpec ==
    /\ Spec
    /\ \A p \in Runner : WF_vars(Step(p)) /\ WF_vars(Apply(p) \/ Lose(p))

-----------------------------------------------------------------------------
(* Properties. *)

\* A merge command is out, or has had its effect, only under a reservation, and
\* a reservation follows no event the request has not seen.
DispatchReserved ==
    /\ flying # {} \/ (pr.merge # None /\ ~pr.merge.hand) => rec.reservation
    /\ rec.reservation => ~moved

\* Two processes are never in the private directory, although a successor takes
\* it over from an owner that died at any point of making or removing it.
FetchIsExclusive ==
    \A p, q \in Runner : pc[p] \in Fetching /\ pc[q] \in Fetching => p = q

\* What a retry needs of the outside: the base is still the merge, the pull
\* request is the sealed one.
Untouched == rec.reservation /\ ~moved /\ MergeIsExact /\ BaseIsMerge /\ SamePr

\* What it needs besides: no git fetch after the receipt that moved the
\* tracking ref, no directory that lost its marker with its owner.
Closable ==
    /\ Untouched
    /\ rec.receipt # None => rec.receipt.tracking = clone.tracking
    /\ fetch.stage = "unbound" => pc[fetch.by] \in Fetching

\* A merge that happened is closed by retries, wherever runs died and whether
\* or not their command was answered.
RetryCloses == <>[]Closable => <>rec.completion

=============================================================================
