------------------------------ MODULE P1Commit ------------------------------
(***************************************************************************)
(* The mechanical P1 commit of one task (p1-commit-transaction.js and the  *)
(* P1_COMMITTED and p1-abandon-commit branches of goal.js).                *)
(*                                                                         *)
(* A commit that a planner made in a disposable worktree is accepted as a  *)
(* bundle and a sealed intent, a ref of the controller's own, an event     *)
(* and a receipt, in this order.  When the commit or the ref is lost to a  *)
(* user's Git the same command seals an abort intent or a handoff instead, *)
(* and a FOREMAN's command abandons the event.                             *)
(*                                                                         *)
(* One command runs at a time, under the writer lock of StoreTransaction:  *)
(* the root is odd while it runs and stays odd when it dies or throws      *)
(* after a write, and then only the same command may start.  Every sealed  *)
(* JSON file is one atomic step, as StoreTransaction shows; the directory, *)
(* the bundle and the handoff are files of their own.  Publishing the ref  *)
(* is one step, which is what GitRef shows of the ref transaction.         *)
(*                                                                         *)
(* The task stays in P1_APPROVED in one cycle; requests are exact (the     *)
(* same event has the same request and capability); FOREMAN leases, other  *)
(* operations of the task and the handoff written into a staging           *)
(* directory, which no live path does, are left out.                       *)
(***************************************************************************)
EXTENDS Naturals, FiniteSets

CONSTANTS
    Event,        \* ids of P1_COMMITTED events
    Foreign,      \* commits a user may point the controller's ref at
    Commit,       \* the planner's commit
    Null,         \* the ref does not exist
    None,
    MaxMoves,     \* bound on what users do to Git
    MaxFaults     \* bound on crashes and injected failures

ASSUME P1Assumption ==
    /\ Commit \notin Foreign /\ Null \notin Foreign /\ Commit # Null
    /\ MaxMoves \in Nat /\ MaxFaults \in Nat

VARIABLES
    place,        \* where an event's intent directory is
    files,        \* ... and what is in it
    observed,     \* the foreign commit an event's handoff names
    ab,           \* how far an event's abandonment directory is
    completions,  \* events whose abandonment is completed
    abReceipts,   \* ... and whose abandonment receipt is written
    receipts,     \* events with a completion receipt
    ledger,       \* accepted commands
    odd,          \* the command the root's odd marker is bound to
    cmd,          \* the command that is running
    pc,           \* where it is
    dirty,        \* it has written to the root, or resumed one that had
    ref,          \* the controller's ref for this cycle
    head,         \* HEAD of the worktree is the commit
    object,       \* the repository has the commit
    moves, faults

root == <<place, files, observed, ab, completions, abReceipts, receipts, ledger>>
run  == <<odd, cmd, pc, dirty>>
repo == <<ref, head, object>>
vars == <<root, run, repo, moves, faults>>

File == {"tornBundle", "bundleTemp", "bundle", "intent", "abort", "marker",
         "tornHandoff", "handoffTemp", "handoff"}

Command == [kind : {"commit", "abandon"}, event : Event]
CommitOf(e)  == [kind |-> "commit",  event |-> e]
AbandonOf(e) == [kind |-> "abandon", event |-> e]

\* "No command" is not a command.
ASSUME NoneAssumption == None \notin Command

PCs == {"idle", "stage", "createBundle", "fillBundle", "installBundle", "seal", "install",
        "restore", "publish", "append", "receipt", "recover", "reuse", "mark", "sealAbort",
        "installAbort", "openHandoff", "fillHandoff", "linkHandoff", "unlinkHandoff",
        "cleanAbandon", "stageAbandon", "sealAbandon", "installAbandon", "checkRef",
        "complete", "abReceipt", "appendAbandon", "return"}

TypeOK ==
    /\ place \in [Event -> {"none", "staging", "canonical"}]
    /\ files \in [Event -> SUBSET File]
    /\ observed \in [Event -> Foreign \cup {None}]
    /\ ab \in [Event -> {"none", "staging", "sealed", "canonical"}]
    /\ completions \subseteq Event /\ abReceipts \subseteq Event /\ receipts \subseteq Event
    /\ ledger \subseteq Command
    /\ odd \in Command \cup {None} /\ cmd \in Command \cup {None}
    /\ pc \in PCs /\ dirty \in BOOLEAN
    /\ ref \in Foreign \cup {Commit, Null}
    /\ head \in BOOLEAN /\ object \in BOOLEAN
    /\ moves \in 0..MaxMoves /\ faults \in 0..MaxFaults

Init ==
    /\ place = [e \in Event |-> "none"]
    /\ files = [e \in Event |-> {}]
    /\ observed = [e \in Event |-> None]
    /\ ab = [e \in Event |-> "none"]
    /\ completions = {} /\ abReceipts = {} /\ receipts = {} /\ ledger = {}
    /\ odd = None /\ cmd = None /\ pc = "idle" /\ dirty = FALSE
    /\ ref = Null /\ head = TRUE /\ object = TRUE
    /\ moves = 0 /\ faults = 0

-----------------------------------------------------------------------------
(* What a command reads.                                                   *)

Accepted(e)  == CommitOf(e) \in ledger
Abandoned(e) == AbandonOf(e) \in ledger
HandedOff(e) == "handoff" \in files[e] /\ "handoffTemp" \notin files[e]

\* The commit that a sealed handoff says the ref was on.
HandoffRef(e) == IF HandedOff(e) THEN {observed[e]} ELSE {}

\* p1CommitRefIsAbandoned: the ref is not in the way of an abandonment.
RefIsAbandoned(e) == ref \in {Null, Commit} \cup HandoffRef(e)

\* Where the ref may be: nothing is read from a task whose ref strayed from it.
RefInLineage(e) ==
    \/ RefIsAbandoned(e)
    \/ ~Accepted(e) /\ ~HandedOff(e) /\ ab[e] \in {"none", "staging"}

\* p1CommitAbandonmentHandoffSha256: what an abandonment may be based on.
AbandonmentRequired(e) == "abort" \in files[e] \/ HandedOff(e)

\* An unsealed staging directory of the event.
Prepared(e) == place[e] = "staging" /\ files[e] \cap {"intent", "abort"} = {}

\* The commit is in the ledger, has its receipt, and the ref is on it.
Settled(e) == Accepted(e) /\ e \in receipts /\ ref = Commit

Completed(e) == e \in completions \cap abReceipts

\* listP1CommitOperations: what still has to be finished.
CommitPending(e)  == place[e] # "none" /\ ab[e] = "none" /\ ~Settled(e)
AbandonPending(e) == ab[e] # "none" /\ ~(Abandoned(e) /\ Completed(e))

\* The tombstone of the cycle, and the receipts that stand for one.
CycleClosed == \E e \in Event : Abandoned(e) \/ e \in abReceipts

\* The intent directory's exact inventory, staging and installed.
StagingInventory(e) ==
    /\ Cardinality(files[e] \cap {"tornBundle", "bundleTemp", "bundle"}) <= 1
    /\ files[e] \cap {"tornHandoff", "handoffTemp", "handoff"} = {}
    /\ "abort" \in files[e] => "marker" \in files[e]

AbortInventory(e) ==
    /\ {"abort", "marker"} \subseteq files[e]
    /\ files[e] \subseteq {"abort", "marker", "bundle", "tornBundle", "bundleTemp"}

IntentInventory(e) ==
    /\ {"intent", "bundle"} \subseteq files[e]
    /\ files[e] \subseteq {"intent", "bundle", "tornHandoff", "handoffTemp", "handoff"}
    /\ "tornHandoff" \in files[e] => {"handoff", "handoffTemp"} \cap files[e] = {}

\* The abandonment directory, its completion and the receipt.
AbandonmentInventory(e) ==
    /\ ab[e] # "none" => place[e] = "canonical" /\ AbandonmentRequired(e) /\ ~Accepted(e)
    /\ e \in completions => ab[e] = "canonical"
    /\ e \in abReceipts => e \in completions
    /\ Abandoned(e) => e \in abReceipts

\* Every load refuses anything else: CORRUPT_STORE, PREPARED_STAGING_INVALID.
Loadable ==
    \A e \in Event :
        /\ CASE place[e] = "none"      -> files[e] = {}
             [] place[e] = "staging"   -> StagingInventory(e)
             [] place[e] = "canonical" -> AbortInventory(e) \/ IntentInventory(e)
        /\ AbandonmentInventory(e)

-----------------------------------------------------------------------------
(* The transaction around a command.                                       *)

\* The odd marker's witness: the exact command has left something behind.
CommitWitness(e)  == Accepted(e) \/ place[e] # "none"
AbandonWitness(e) == ab[e] # "none"

Witness(c) ==
    \/ c.kind = "commit" /\ CommitWitness(c.event)
    \/ c.kind = "abandon" /\ AbandonWitness(c.event)

MayStart(c) ==
    /\ pc = "idle"
    /\ odd = None \/ (odd = c /\ Witness(c))
    /\ Loadable
    /\ \A e \in Event : place[e] = "canonical" => RefInLineage(e)

Begin(c, where) ==
    /\ MayStart(c)
    /\ cmd' = c /\ odd' = c /\ pc' = where /\ dirty' = (odd = c)
    /\ UNCHANGED <<root, repo, moves, faults>>

Goto(where) == pc' = where /\ UNCHANGED <<odd, cmd>>

Write(where) == Goto(where) /\ dirty' = TRUE /\ UNCHANGED <<moves, faults>>

Rest == pc' = "idle" /\ cmd' = None /\ dirty' = FALSE

\* withLock closes the generation of a callback that threw before it wrote.
Throw ==
    /\ odd' = IF dirty THEN odd ELSE None
    /\ Rest /\ UNCHANGED <<root, repo, moves, faults>>

Return ==
    /\ pc = "return" /\ odd' = None
    /\ Rest /\ UNCHANGED <<root, repo, moves, faults>>

Fault ==
    /\ pc # "idle" /\ faults < MaxFaults /\ faults' = faults + 1
    /\ Rest /\ UNCHANGED <<root, repo, moves>>

Crash == Fault /\ UNCHANGED odd

\* A failing Git call or file operation.
Fails == Fault /\ odd' = IF dirty THEN odd ELSE None

E == cmd.event
Add(f)    == files' = [files EXCEPT ![E] = @ \cup {f}]
Swap(f, g) == files' = [files EXCEPT ![E] = (@ \ {f}) \cup {g}]
InDirectory == UNCHANGED <<place, observed, ab, completions, abReceipts, receipts, ledger>>
Move(to) ==
    /\ place' = [place EXCEPT ![E] = to]
    /\ UNCHANGED <<observed, ab, completions, abReceipts, receipts, ledger>>

-----------------------------------------------------------------------------
(* P1_COMMITTED.                                                           *)

\* Mutant: the tombstone of the cycle is compared by event only.
CycleOpen_OwnTombstone(e) ==
    /\ ~Abandoned(e) /\ e \notin abReceipts
    /\ \A f \in Event : ~AbandonPending(f)
    /\ \A f \in Event \ {e} : ~Accepted(f) /\ ~CommitPending(f)

\* One commit and no abandonment in the cycle, no other operation of the task.
CycleOpen(e) ==
    /\ ~CycleClosed
    /\ \A f \in Event : ~AbandonPending(f)
    /\ \A f \in Event \ {e} : ~Accepted(f) /\ ~CommitPending(f)

\* Mutant: a handoff that is still a temporary does not end the commit.
Resume_TempIgnored(e) ==
    IF Accepted(e) THEN "restore"
    ELSE IF "abort" \in files[e] THEN (IF place[e] = "staging" THEN "installAbort" ELSE "return")
    ELSE IF HandedOff(e) THEN "return"
    ELSE IF "intent" \in files[e] THEN "restore"
    ELSE IF Prepared(e) THEN "recover"
    ELSE "stage"

\* validateP1Boundary: the worktree is on the commit.
Boundary == head /\ object

\* Where the command goes on: the state of the event's directory decides.
Resume(e) ==
    IF Accepted(e) THEN "restore"
    ELSE IF "abort" \in files[e] THEN (IF place[e] = "staging" THEN "installAbort" ELSE "return")
    ELSE IF "tornHandoff" \in files[e] THEN "fillHandoff"
    ELSE IF "handoffTemp" \in files[e]
         THEN (IF "handoff" \in files[e] THEN "unlinkHandoff" ELSE "linkHandoff")
    ELSE IF "handoff" \in files[e] THEN "return"
    ELSE IF "intent" \in files[e] THEN "restore"
    ELSE IF Prepared(e) THEN "recover"
    ELSE "stage"

StartCommit(e) ==
    /\ Accepted(e) \/ CycleOpen(e)
    /\ place[e] = "none" => Boundary
    /\ Begin(CommitOf(e), Resume(e))

MakeStaging ==
    /\ pc = "stage"
    /\ Move("staging") /\ UNCHANGED <<files, repo>>
    /\ Write("createBundle")

\* git bundle create writes into a temporary; HEAD is compared before and after.
CreateBundle ==
    /\ pc = "createBundle" /\ head
    /\ Add("tornBundle") /\ InDirectory /\ UNCHANGED repo
    /\ Write("fillBundle")

FillBundle ==
    /\ pc = "fillBundle"
    /\ Swap("tornBundle", "bundleTemp") /\ InDirectory /\ UNCHANGED repo
    /\ Write("installBundle")

InstallBundle ==
    /\ pc = "installBundle" /\ head
    /\ Swap("bundleTemp", "bundle") /\ InDirectory /\ UNCHANGED repo
    /\ Write("seal")

HeadDrift == pc \in {"createBundle", "installBundle"} /\ ~head /\ Throw

SealIntent ==
    /\ pc = "seal"
    /\ Add("intent") /\ InDirectory /\ UNCHANGED repo
    /\ Write("install")

InstallIntent ==
    /\ pc = "install"
    /\ Move("canonical") /\ UNCHANGED <<files, repo>>
    /\ Write("restore")

\* restoreP1CommitObject of a sealed intent.
RestoreObject ==
    /\ pc = "restore"
    /\ object' = TRUE /\ Goto("publish")
    /\ UNCHANGED <<root, ref, head, dirty, moves, faults>>

AfterPublish == IF Accepted(E) THEN "receipt" ELSE "append"

\* publishP1CommitRef: create the ref, or find it there.
PublishRef ==
    /\ pc = "publish" /\ place[E] = "canonical" /\ ref \in {Null, Commit}
    /\ ref' = Commit /\ Goto(AfterPublish)
    /\ UNCHANGED <<root, head, object, dirty, moves, faults>>

RefConflict ==
    /\ pc = "publish" /\ place[E] = "canonical" /\ ref \in Foreign /\ ~Accepted(E)
    /\ Goto("openHandoff") /\ UNCHANGED <<root, repo, dirty, moves, faults>>

\* The conflict is final after the event; no intent is looked for in staging.
PublishFails == pc = "publish" /\ (place[E] = "staging" \/ (Accepted(E) /\ ref \in Foreign)) /\ Throw

AppendCommit ==
    /\ pc = "append"
    /\ ledger' = ledger \cup {cmd}
    /\ UNCHANGED <<place, files, observed, ab, completions, abReceipts, receipts, repo>>
    /\ Write("receipt")

WriteReceipt ==
    /\ pc = "receipt"
    /\ receipts' = receipts \cup {E}
    /\ UNCHANGED <<place, files, observed, ab, completions, abReceipts, ledger, repo>>
    /\ Write("return")

-----------------------------------------------------------------------------
(* A retry that finds an unsealed staging directory.                       *)

Carried == files[E] \cap {"bundle", "bundleTemp"} # {}

\* Mutant: a directory without a carrier is an error and nothing is sealed.
Recover_NoAbort ==
    /\ pc = "recover"
    /\ IF Carried \/ Boundary
          THEN object' = TRUE /\ Goto("reuse") /\ UNCHANGED <<root, ref, head, dirty, moves, faults>>
          ELSE Throw

\* preparedUnavailableCarrierMarker.
Marked == "marker" \in files[E]

\* restoreP1CommitObject of a directory without an intent.
Recover ==
    /\ pc = "recover"
    /\ IF ~Marked /\ (Carried \/ Boundary)
          THEN object' = TRUE /\ Goto("reuse")
          ELSE UNCHANGED object /\ Goto(IF Marked THEN "sealAbort" ELSE "mark")
    /\ UNCHANGED <<root, ref, head, dirty, moves, faults>>

\* promoteReusableUnsealedCarrier.
Reuse ==
    /\ pc = "reuse" /\ Carried
    /\ files' = [files EXCEPT ![E] = (@ \ {"bundleTemp"}) \cup {"bundle"}]
    /\ InDirectory /\ UNCHANGED repo /\ Write("seal")

\* cleanupExactUnsealedCommitStaging, before a new directory is made.
CleanStaging ==
    /\ pc = "reuse" /\ ~Carried /\ head
    /\ Move("none") /\ files' = [files EXCEPT ![E] = {}] /\ UNCHANGED repo
    /\ Write("stage")

CarrierGone == pc = "reuse" /\ ~Carried /\ ~head /\ Throw

\* publishP1CommitAbandonOnlyIntent.
MarkUnavailable ==
    /\ pc = "mark"
    /\ Add("marker") /\ InDirectory /\ UNCHANGED repo
    /\ Write("sealAbort")

SealAbort ==
    /\ pc = "sealAbort"
    /\ Add("abort") /\ InDirectory /\ UNCHANGED repo
    /\ Write("installAbort")

InstallAbort ==
    /\ pc = "installAbort"
    /\ Move("canonical") /\ UNCHANGED <<files, repo>>
    /\ Write("return")

-----------------------------------------------------------------------------
(* The handoff of a commit whose ref is taken.                             *)

\* publishP1CommitAbandonHandoff reads the ref again.
OpenHandoff ==
    /\ pc = "openHandoff" /\ ref \in Foreign
    /\ Add("tornHandoff") /\ observed' = [observed EXCEPT ![E] = ref]
    /\ UNCHANGED <<place, ab, completions, abReceipts, receipts, ledger, repo>>
    /\ Write("fillHandoff")

ConflictIsGone == pc = "openHandoff" /\ ref \notin Foreign /\ Throw

FillHandoff ==
    /\ pc = "fillHandoff"
    /\ Swap("tornHandoff", "handoffTemp") /\ InDirectory /\ UNCHANGED repo
    /\ Write("linkHandoff")

LinkHandoff ==
    /\ pc = "linkHandoff"
    /\ Add("handoff") /\ InDirectory /\ UNCHANGED repo
    /\ Write("unlinkHandoff")

UnlinkHandoff ==
    /\ pc = "unlinkHandoff"
    /\ files' = [files EXCEPT ![E] = @ \ {"handoffTemp"}] /\ InDirectory /\ UNCHANGED repo
    /\ Write("return")

-----------------------------------------------------------------------------
(* p1-abandon-commit.                                                      *)

ResumeAbandon(e) ==
    CASE ab[e] = "none"      -> "stageAbandon"
      [] ab[e] = "staging"   -> "cleanAbandon"
      [] ab[e] = "sealed"    -> "installAbandon"
      [] ab[e] = "canonical" -> "checkRef"

StartAbandon(e) ==
    /\ place[e] = "canonical" /\ AbandonmentRequired(e) /\ ~Accepted(e)
    /\ \A f \in Event \ {e} : ~CommitPending(f) /\ ~AbandonPending(f)
    /\ Begin(AbandonOf(e), ResumeAbandon(e))

AbandonTo(stage) ==
    /\ ab' = [ab EXCEPT ![E] = stage]
    /\ UNCHANGED <<place, files, observed, completions, abReceipts, receipts, ledger, repo>>

CleanAbandon   == pc = "cleanAbandon"   /\ AbandonTo("none")      /\ Write("stageAbandon")
StageAbandon   == pc = "stageAbandon"   /\ AbandonTo("staging")   /\ Write("sealAbandon")
SealAbandon    == pc = "sealAbandon"    /\ AbandonTo("sealed")    /\ Write("installAbandon")
InstallAbandon == pc = "installAbandon" /\ AbandonTo("canonical") /\ Write("checkRef")

\* abandonP1CommitRef moves nothing: the ref stays as a root for gc.
CheckRef ==
    /\ pc = "checkRef"
    /\ IF RefIsAbandoned(E)
          THEN Goto("complete") /\ UNCHANGED <<root, repo, dirty, moves, faults>>
          ELSE Throw

CompleteAbandon ==
    /\ pc = "complete"
    /\ completions' = completions \cup {E}
    /\ UNCHANGED <<place, files, observed, ab, abReceipts, receipts, ledger, repo>>
    /\ Write("abReceipt")

WriteAbReceipt ==
    /\ pc = "abReceipt"
    /\ abReceipts' = abReceipts \cup {E}
    /\ UNCHANGED <<place, files, observed, ab, completions, receipts, ledger, repo>>
    /\ Write("appendAbandon")

AppendAbandon ==
    /\ pc = "appendAbandon"
    /\ ledger' = ledger \cup {cmd}
    /\ UNCHANGED <<place, files, observed, ab, completions, abReceipts, receipts, repo>>
    /\ Write("return")

-----------------------------------------------------------------------------
(* Users of the repository, at any moment.                                 *)

User == moves < MaxMoves /\ moves' = moves + 1 /\ UNCHANGED <<root, run, faults>>

MoveRef ==
    /\ User
    /\ ref' \in (Foreign \cup {Null, Commit}) \ {ref} /\ (ref' = Commit => object)
    /\ UNCHANGED <<head, object>>

MoveHead == User /\ head' = ~head /\ (head' => object) /\ UNCHANGED <<ref, object>>

\* git gc: nothing but HEAD and the ref keeps the commit.
Collect == User /\ object /\ ~head /\ ref # Commit /\ object' = FALSE /\ UNCHANGED <<ref, head>>

CommitStep ==
    \/ MakeStaging \/ CreateBundle \/ FillBundle \/ InstallBundle \/ HeadDrift
    \/ SealIntent \/ InstallIntent \/ RestoreObject \/ PublishRef \/ RefConflict
    \/ PublishFails \/ AppendCommit \/ WriteReceipt

RecoverStep ==
    \/ Recover \/ Reuse \/ CleanStaging \/ CarrierGone
    \/ MarkUnavailable \/ SealAbort \/ InstallAbort

HandoffStep == OpenHandoff \/ ConflictIsGone \/ FillHandoff \/ LinkHandoff \/ UnlinkHandoff

AbandonStep ==
    \/ CleanAbandon \/ StageAbandon \/ SealAbandon \/ InstallAbandon
    \/ CheckRef \/ CompleteAbandon \/ WriteAbReceipt \/ AppendAbandon

Step == CommitStep \/ RecoverStep \/ HandoffStep \/ AbandonStep \/ Return

Start(c) == \E e \in Event : \/ c = CommitOf(e) /\ StartCommit(e)
                             \/ c = AbandonOf(e) /\ StartAbandon(e)

Next ==
    \/ \E c \in Command : Start(c)
    \/ Step
    \/ Crash \/ Fails
    \/ MoveRef \/ MoveHead \/ Collect

Spec == Init /\ [][Next]_vars

\* A running command goes on, and the caller of a bound command runs it again.
FairSpec ==
    /\ Spec
    /\ WF_vars(Step)
    /\ \A c \in Command : WF_vars(odd = c /\ Start(c))

-----------------------------------------------------------------------------
(* A cycle ends in one way: at most one commit is accepted, and none that  *)
(* is abandoned, whatever crashes and whoever retries (P1_RESTART_REQUIRED *)
(* and P1_COMMIT_ALREADY_ACCEPTED).                                        *)
OneOutcome ==
    /\ \A c, d \in ledger : c.kind = "commit" /\ d.kind = "commit" => c = d
    /\ \A c, d \in ledger : ~(c.kind = "commit" /\ d.kind = "abandon")

(* An accepted commit can be restored: its sealed intent and its bundle    *)
(* are installed, it has not been handed off, and a receipt exists only    *)
(* for an accepted event.                                                  *)
CommitIsDurable ==
    /\ \A e \in Event : Accepted(e) => place[e] = "canonical" /\ files[e] = {"intent", "bundle"}
    /\ \A e \in receipts : Accepted(e)

(* A command creates the ref and never takes it from a user, nor creates   *)
(* it for a commit that has been handed off or aborted.                    *)
ForeignKept ==
    [][UNCHANGED moves /\ ref' # ref =>
          ref = Null /\ ref' = Commit /\ files[cmd.event] = {"intent", "bundle"}]_vars

\* The roots a retry cannot heal: it died before it left a witness, ...
Unwitnessed == odd # None /\ ~Witness(odd)
\* ... a user holds the ref of a bound transaction elsewhere, ...
RefStrayed == \E e \in Event : place[e] = "canonical" /\ ~RefInLineage(e)
\* ... or the intent was sealed in staging (P1Sealed.cfg).
SealedInStaging == \E e \in Event : place[e] = "staging" /\ "intent" \in files[e]

(* Any other crashed command is healed by running it again: it is          *)
(* accepted, or returns that its commit has to be abandoned.               *)
RetryHeals ==
    \A c \in Command : odd = c ~> (odd # c \/ Unwitnessed \/ RefStrayed \/ SealedInStaging)

(* "At any crash point only the exact retry of the original event is       *)
(* allowed" (docs/planning/session-protocol/shared.md): so the retry of a  *)
(* commit whose staging directory exists heals it.                         *)
ExactRetryHeals ==
    \A e \in Event : odd = CommitOf(e) /\ place[e] = "staging" ~> (odd = None \/ place[e] # "staging")
=============================================================================
