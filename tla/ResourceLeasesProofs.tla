------------------------ MODULE ResourceLeasesProofs ------------------------
(***************************************************************************)
(* Theorems about ResourceLeases, for any number of leases, sessions,      *)
(* resources and crashes.                                                  *)
(***************************************************************************)
EXTENDS ResourceLeases, FiniteSetTheorems, TLAPS

-----------------------------------------------------------------------------
(* The invariant. *)

\* A command works under the odd seal that names its request, and nothing but
\* an odd seal lets a residual be.
Sealed ==
    /\ pc = "idle" <=> req = None
    /\ pc # "idle" => seal # None /\ seal.key = req
    /\ residual # None => seal # None
    /\ seal # None => /\ seal.started <= now
                      /\ seal.key.op = "acquire" => seal.key = Acquire(seal.key.lease)

\* While a seal is odd the Goal stands still: an undecided acquire or renewal
\* still has the boundary it was authorized at.
Bounded ==
    seal # None /\ seal.key \notin events =>
        /\ seal.key.op = "acquire" => hold = "none" /\ ~archived
        /\ seal.key.op = "renew" => hold # "hard" /\ ~archived

\* What the transport has published is there.
Witnesses ==
    residual # None /\ residual.stage = "published" =>
        /\ residual.file = "intent" => intent[seal.key.lease] # None
        /\ residual.file = "event" => seal.key \in events

\* A lease has an event that granted it.
LeaseHasEvent == \A l \in Lease : lease[l] # None => Acquire(l) \in events

\* Beside l, only leases that share its resource with it.
Compatible(l) ==
    \A m \in Occupants(On[l]) \ {l} : l \notin exclusive /\ m \notin exclusive

\* What has been looked at by the time a callback is where it is.
Granting == {"promote", "purge", "secret", "receipt", "grant"}
AtWork ==
    /\ pc \in {"intent"} \cup Granting => req.op = "acquire" /\ ~Done /\ Compatible(Subject)
    /\ pc \in Granting => intent[Subject] # None
    /\ pc = "event" =>
          /\ at >= seal.started
          /\ Done => residual # None /\ residual.file = "event" /\ residual.stage = "published"
          /\ req.op = "acquire" =>
                 intent[Subject] # None /\ (UsableAt(Owner[Subject], at) => Compatible(Subject))
          /\ req.op = "renew" /\ ~Done =>
                 /\ Active(Subject) /\ UsableAt(Owner[Subject], at)
                 /\ Expired(Subject, at) => hold = "env" /\ Current(Subject, at)
          /\ req.op # "acquire" => lease[Subject] # None
    /\ pc \in {"head", "projection", "cleanup", "erase"} => Done

\* Only a command that takes over from one that died finds an intent it may
\* have to leave pending; the others close on nothing undecided.
Undecided ==
    /\ pc \in {"rebuild", "repair", "decide"} /\ req.op = "acquire" /\ ~Done
          /\ (abort \/ kind # "WITNESS") => intent[Subject] = None
    /\ pc = "close" /\ req.op = "acquire" => Done \/ intent[Subject] = None

SealInv == Sealed /\ Bounded /\ Witnesses
LedgerInv == LeaseHasEvent /\ ExclusiveUse /\ PendingOwnsTheTail
WorkInv == AtWork /\ Undecided

IInv == TypeOK /\ SealInv /\ LedgerInv /\ WorkInv

-----------------------------------------------------------------------------
(* The groups of steps. *)

\* A step of the clock or of the Goal, of which no command takes part.
Outside ==
    \/ Tick
    \/ \E s \in Session : Heartbeat(s) \/ EndSession(s)
    \/ \E h \in {"env", "hard"} : AddHold(h)
    \/ ClearHold \/ Archive

\* A step of a command that writes neither the ledger nor its intents.
Quiet ==
    \/ \E r \in Request : Start(r)
    \/ Retry \/ Close \/ Crash \/ Conflict \/ Clean
    \/ InstallSecret \/ InstallReceipt \/ InstallHead \/ InstallProjection
    \/ ThrowAbort \/ Rebuild \/ Replay \/ DecideAcquire \/ Promoted \/ Purge \/ Grant
    \/ DecideOther \/ RefuseOther \/ Cleanup \/ Erase

\* Every step is of one of these groups.
LEMMA NextIs == Next => Outside \/ Quiet \/ InstallIntent \/ Promote \/ InstallEvent
  BY DEF Next, Outside, Quiet, Installing, Callback

\* The clock and the Goal leave the leases' files and a running command alone.
LEMMA OutsideFrame ==
    ASSUME TypeOK, Outside
    PROVE  /\ UNCHANGED <<exclusive, seal, residual, files, pc, locals, faults>>
           /\ Tick \/ (seal = None /\ UNCHANGED now)
           /\ now' \in Moment /\ now' >= now
           /\ until' \in [Session -> 0..MaxTime + Term]
           /\ hold' \in {"none", "env", "hard"} /\ archived' \in BOOLEAN
  <1>1. UNCHANGED <<exclusive, seal, residual, files, pc, locals, faults>>
    BY DEF Outside, Tick, Heartbeat, EndSession, AddHold, ClearHold, Archive, GoalEvent
  <1>2. Tick \/ (seal = None /\ UNCHANGED now)
    BY DEF Outside, Heartbeat, EndSession, AddHold, ClearHold, Archive, GoalEvent
  <1>3. now' \in Moment /\ now' >= now
    BY <1>2, LeaseAssumption DEF Tick, TypeOK, Moment
  <1>4. until' \in [Session -> 0..MaxTime + Term]
    BY LeaseAssumption DEF Outside, Tick, Heartbeat, EndSession, AddHold, ClearHold, Archive,
        GoalEvent, goal, TypeOK, Moment
  <1>5. hold' \in {"none", "env", "hard"}
    BY DEF Outside, Tick, Heartbeat, EndSession, AddHold, ClearHold, Archive, goal, TypeOK
  <1>6. archived' \in BOOLEAN
    BY DEF Outside, Tick, Heartbeat, EndSession, AddHold, ClearHold, Archive, goal, TypeOK
  <1>7. QED  BY <1>1, <1>2, <1>3, <1>4, <1>5, <1>6

\* What a quiet step leaves alone.
LEMMA QuietFrame ==
    ASSUME Quiet
    PROVE  UNCHANGED <<exclusive, now, goal, ledger, intent>>
  BY DEF Quiet, Start, Retry, Close, Crash, Conflict, Clean, InstallSecret, InstallReceipt,
      InstallHead, InstallProjection, ThrowAbort, Rebuild, Replay, DecideAcquire, Promoted, Purge,
      Grant, DecideOther, RefuseOther, Cleanup, Erase, Fail, Goto, files, acquiring

-----------------------------------------------------------------------------
(* Types. *)

LocalsType ==
    /\ pc \in PCs /\ req \in Request \cup {None}
    /\ kind \in {None, "FRESH", "WITNESS", "TRANSPORT", "PRISTINE"}
    /\ abort \in BOOLEAN /\ preserve \in BOOLEAN
    /\ at \in Moment

\* A callback that begins again knows nothing.
LEMMA ForgetType ==
    ASSUME Forget
    PROVE  LocalsType'
  <1>1. abort' \in BOOLEAN /\ preserve' \in BOOLEAN
    BY DEF Forget
  <1>2. QED  BY <1>1, LeaseAssumption DEF Forget, LocalsType, PCs, Moment

\* A callback that fails leaves with what it knows in type.
LEMMA FailType ==
    ASSUME TypeOK, Fail
    PROVE  LocalsType'
  BY ForgetType DEF Fail, TypeOK, LocalsType, PCs, locals

\* A command that is under way has a request.
LEMMA AtWorkRequest ==
    ASSUME TypeOK, Sealed, pc # "idle"
    PROVE  /\ req \in Request /\ seal \in Seals /\ seal.key = req /\ Subject \in Lease
           /\ On[Subject] \in Resource /\ Owner[Subject] \in Session
           /\ req.op \in Operation
  BY LeaseAssumption, NoneAssumption DEF TypeOK, Sealed, Subject, Request

\* The number of events is a number.
LEMMA CountType ==
    ASSUME TypeOK
    PROVE  Count \in Nat
  BY FS_CardinalityType DEF TypeOK, Count

\* What the transport has in its hands, and its residual.
LEMMA StampType ==
    ASSUME TypeOK, Sealed, pc \in Writing
    PROVE  /\ Stamp \in Nat /\ (pc = "secret" => Stamp \in Secret)
           /\ Installed \in File
           /\ \A stage \in {"open", "ready", "published"} : Kept(stage) => residual' \in Residuals
  <1>1. pc # "idle"
    BY DEF Writing, File
  <1>2. Stamp \in Nat /\ (pc = "secret" => Stamp \in Secret)
    BY <1>1, CountType, AtWorkRequest, LeaseAssumption DEF TypeOK, Stamp, Moment, Secret, Writing, File
  <1>3. Installed \in File
    BY DEF Installed, Writing, File
  <1>4. QED  BY <1>2, <1>3 DEF Kept, Residuals

\* What a quiet step writes keeps its type.
QuietTypes ==
    /\ seal \in Seals \cup {None} /\ residual \in Residuals \cup {None}
    /\ secret \in [Lease -> Secret] /\ receipt \in [Lease -> Secret]
    /\ head \in Nat /\ faults \in 0..MaxFaults /\ LocalsType

\* A quiet step keeps the types of what it writes.
LEMMA QuietStep ==
    ASSUME TypeOK, Sealed, Quiet
    PROVE  QuietTypes'
  <1>0. QuietTypes
    BY DEF TypeOK, QuietTypes, LocalsType
  <1>1. ASSUME NEW r \in Request, Start(r) PROVE QuietTypes'
    <2>1. preserve' \in BOOLEAN /\ abort' \in BOOLEAN
      BY <1>1 DEF Start, Keeping
    <2>2. seal' \in Seals
      BY <1>1 DEF Start, Seals, TypeOK
    <2>3. QED
      BY <1>0, <1>1, <2>1, <2>2 DEF Start, QuietTypes, LocalsType, files, acquiring, PCs
  <1>2. CASE Retry
    <2>1. preserve' \in BOOLEAN /\ abort' \in BOOLEAN
      BY <1>2 DEF Retry, Keeping, Aborts
    <2>2. kind' \in {"WITNESS", "TRANSPORT", "PRISTINE"} /\ req' \in Request
      BY <1>0, <1>2 DEF Retry, Recovery, QuietTypes, Seals
    <2>3. QED
      BY <1>0, <1>2, <2>1, <2>2 DEF Retry, QuietTypes, LocalsType, files, acquiring, PCs
  <1>3. CASE Close
    BY <1>0, <1>3, ForgetType DEF Close, QuietTypes, files, acquiring
  <1>4. CASE Crash
    <2>1. residual' \in Residuals \cup {None}
      BY <1>0, <1>4, StampType DEF Crash, QuietTypes
    <2>2. QED
      BY <1>0, <1>4, <2>1, ForgetType, LeaseAssumption DEF Crash, QuietTypes, files, acquiring
  <1>5. CASE Conflict \/ ThrowAbort \/ RefuseOther
    BY <1>0, <1>5, FailType DEF Conflict, ThrowAbort, RefuseOther, Fail, QuietTypes, files, acquiring
  <1>6. CASE Clean
    <2>1. at' \in Moment /\ pc' \in PCs
      BY <1>0, <1>6, LeaseAssumption DEF Clean, After, PCs, Writing, File, TypeOK, Moment
    <2>2. QED
      BY <1>0, <1>6, <2>1 DEF Clean, QuietTypes, LocalsType, files, acquiring
  <1>7. CASE InstallSecret \/ InstallReceipt \/ InstallHead \/ InstallProjection
    <2>1. pc \in Writing /\ Kept("published") /\ UNCHANGED <<seal, pc, locals, faults>>
      BY <1>7 DEF InstallSecret, InstallReceipt, InstallHead, InstallProjection, Published, Writing, File
    <2>2. residual' \in Residuals
      BY <2>1, StampType
    <2>3. secret' \in [Lease -> Secret]
      BY <1>0, <1>7, StampType, <2>1 DEF InstallSecret, InstallReceipt, InstallHead,
          InstallProjection, QuietTypes, files, acquiring
    <2>4. receipt' \in [Lease -> Secret]
      <3>1. Subject \in Lease
        BY <2>1, AtWorkRequest DEF Writing, File
      <3>2. QED
        BY <1>0, <1>7, <3>1 DEF InstallSecret, InstallReceipt, InstallHead, InstallProjection,
            QuietTypes, files, acquiring
    <2>5. head' \in Nat
      BY <1>0, <1>7, CountType DEF InstallSecret, InstallReceipt, InstallHead, InstallProjection,
          QuietTypes, files
    <2>6. QED  BY <1>0, <2>1, <2>2, <2>3, <2>4, <2>5 DEF QuietTypes, LocalsType, locals
  <1>8. CASE Rebuild \/ Replay \/ Promoted
    BY <1>0, <1>8, FailType DEF Rebuild, Replay, Promoted, Goto, Fail, QuietTypes, LocalsType,
        files, acquiring, locals, PCs, Writing
  <1>9. CASE DecideAcquire
    <2>1. CASE Fail
      BY <1>0, <2>1, FailType DEF Fail, QuietTypes, files, acquiring
    <2>2. CASE Goto("intent") \/ Goto("purge")
      BY <1>0, <2>2 DEF Goto, QuietTypes, LocalsType, files, acquiring, locals, PCs, Writing, File
    <2>3. CASE pc' = "event" /\ at' = now
               /\ UNCHANGED <<exclusive, now, goal, seal, residual, files, req, kind, abort, preserve, faults>>
      BY <1>0, <2>3 DEF QuietTypes, LocalsType, files, acquiring, PCs, Writing, File, TypeOK
    <2>4. QED  BY <1>9, <2>1, <2>2, <2>3 DEF DecideAcquire
  <1>10. CASE Grant \/ DecideOther
    BY <1>0, <1>10 DEF Grant, DecideOther, QuietTypes, LocalsType, files, acquiring, PCs, Writing,
        File, TypeOK
  <1>11. CASE Purge \/ Cleanup \/ Erase
    <2>1. Subject \in Lease
      BY <1>11, AtWorkRequest DEF Purge, Cleanup, Erase
    <2>2. 0 \in Secret
      BY LeaseAssumption DEF Secret
    <2>3. secret' \in [Lease -> Secret] /\ receipt' \in [Lease -> Secret]
      BY <1>0, <1>11, <2>1, <2>2 DEF Purge, Cleanup, Erase, QuietTypes
    <2>4. QED
      BY <1>0, <1>11, <2>3 DEF Purge, Cleanup, Erase, QuietTypes, LocalsType, locals, PCs, Writing, File
  <1>12. QED
    BY <1>1, <1>2, <1>3, <1>4, <1>5, <1>6, <1>7, <1>8, <1>9, <1>10, <1>11 DEF Quiet

\* A renewal moves a lease's revision and its end, a release ends it.
LEMMA GrantedFields ==
    ASSUME NEW g \in Granted, NEW e \in 0..MaxTime + Ttl
    PROVE  /\ LET n == [g EXCEPT !.revision = g.revision + 1, !.expires = e]
              IN n \in Granted /\ n.status = g.status /\ n.token = g.token /\ n.expires = e
           /\ LET n == [g EXCEPT !.revision = g.revision + 1, !.status = "RELEASED"]
              IN n \in Granted /\ n.status = "RELEASED" /\ n.expires = g.expires
  <1>1. g.revision + 1 \in Nat
    BY DEF Granted
  <1>2. \A v \in Nat :
           /\ LET n == [g EXCEPT !.revision = v, !.expires = e]
              IN n \in Granted /\ n.status = g.status /\ n.token = g.token /\ n.expires = e
           /\ LET n == [g EXCEPT !.revision = v, !.status = "RELEASED"]
              IN n \in Granted /\ n.status = "RELEASED" /\ n.expires = g.expires
    BY DEF Granted
  <1>3. QED  BY <1>1, <1>2

\* Types are inductive, with the seal and the positions of the callbacks.
LEMMA TypeStep ==
    ASSUME TypeOK, Sealed, AtWork, Next
    PROVE  TypeOK'
  <1>1. CASE Outside
    BY <1>1, OutsideFrame DEF TypeOK, files, ledger, acquiring, locals
  <1>2. CASE Quiet
    BY <1>2, QuietFrame, QuietStep DEF TypeOK, QuietTypes, LocalsType, goal, ledger
  <1>3. CASE InstallIntent
    <2>1. Subject \in Lease /\ On[Subject] \in Resource /\ pc \in Writing
      BY <1>3, AtWorkRequest DEF InstallIntent, Writing, File
    <2>2. residual' \in Residuals
      BY <1>3, <2>1, StampType DEF InstallIntent, Published
    <2>3. [staged |-> TRUE, token |-> tokens[On[Subject]] + 1, count |-> Count] \in Intents
      BY <2>1, CountType DEF Intents, TypeOK
    <2>4. intent' \in [Lease -> Intents \cup {None}]
      BY <1>3, <2>1, <2>3 DEF InstallIntent, TypeOK
    <2>5. QED  BY <1>3, <2>2, <2>4 DEF InstallIntent, TypeOK, goal, ledger, locals
  <1>4. CASE Promote
    <2>1. Subject \in Lease /\ intent[Subject] \in Intents
      BY <1>4, AtWorkRequest DEF Promote, AtWork, Granting, TypeOK
    <2>2. [intent[Subject] EXCEPT !.staged = FALSE] \in Intents
      BY <2>1 DEF Intents
    <2>3. intent' \in [Lease -> Intents \cup {None}]
      BY <1>4, <2>1, <2>2 DEF Promote, TypeOK
    <2>4. QED  BY <1>4, <2>3 DEF Promote, TypeOK, goal, ledger, locals
  <1>5. CASE InstallEvent
    <2>1. /\ Subject \in Lease /\ On[Subject] \in Resource /\ pc \in Writing /\ req \in Request
          /\ pc = "event"
      BY <1>5, AtWorkRequest DEF InstallEvent, Writing, File
    <2>2. residual' \in Residuals
      BY <1>5, <2>1, StampType DEF InstallEvent, Published
    <2>3. IsFiniteSet(events') /\ events' \subseteq Request
      BY <1>5, <2>1, FS_AddElement DEF InstallEvent, TypeOK
    <2>4. lease' \in [Lease -> Granted \cup {None}] /\ tokens' \in [Resource -> Nat]
      <3>0. at + Ttl \in 0..MaxTime + Ttl
        BY LeaseAssumption DEF TypeOK, Moment
      <3>1. CASE req.op = "acquire" /\ ApplyAcquire(Subject)
        <4>1. intent[Subject] \in Intents
          BY <2>1, <3>1 DEF AtWork, TypeOK
        <4>2. intent[Subject].token \in Nat
          BY <4>1 DEF Intents
        <4>3. [status |-> "ACTIVE", revision |-> 1, token |-> intent[Subject].token,
               expires |-> at + Ttl, secret |-> receipt[Subject]] \in Granted
          BY <2>1, <3>0, <4>2 DEF Granted, TypeOK
        <4>4. QED  BY <2>1, <3>1, <4>2, <4>3 DEF ApplyAcquire, TypeOK
      <3>2. CASE req.op = "renew" /\ ApplyRenew(Subject)
        <4>1. lease[Subject] \in Granted
          BY <2>1, <3>2 DEF AtWork, TypeOK
        <4>2. [lease[Subject] EXCEPT !.revision = lease[Subject].revision + 1, !.expires = at + Ttl] \in Granted
          BY <3>0, <4>1, GrantedFields
        <4>3. lease' = [lease EXCEPT ![Subject] =
                           [lease[Subject] EXCEPT !.revision = lease[Subject].revision + 1, !.expires = at + Ttl]]
          BY <2>1, <3>2 DEF ApplyRenew, TypeOK
        <4>4. QED  BY <2>1, <3>2, <4>2, <4>3 DEF ApplyRenew, TypeOK
      <3>3. CASE req.op = "release" /\ ApplyRelease(Subject)
        <4>1. lease[Subject] \in Granted
          BY <2>1, <3>3 DEF AtWork, TypeOK
        <4>2. [lease[Subject] EXCEPT !.revision = lease[Subject].revision + 1, !.status = "RELEASED"] \in Granted
          BY <3>0, <4>1, GrantedFields
        <4>3. lease' = [lease EXCEPT ![Subject] =
                           [lease[Subject] EXCEPT !.revision = lease[Subject].revision + 1, !.status = "RELEASED"]]
          BY <2>1, <3>3 DEF ApplyRelease, TypeOK
        <4>4. QED  BY <2>1, <3>3, <4>2, <4>3 DEF ApplyRelease, TypeOK
      <3>4. QED  BY <1>5, <3>1, <3>2, <3>3 DEF InstallEvent
    <2>5. QED  BY <1>5, <2>2, <2>3, <2>4 DEF InstallEvent, TypeOK, goal, acquiring, locals
  <1>6. QED  BY <1>1, <1>2, <1>3, <1>4, <1>5, NextIs

-----------------------------------------------------------------------------
(* Seals. *)

\* What is said of the seal is kept by every step.
LEMMA SealStep ==
    ASSUME TypeOK, SealInv, Next
    PROVE  SealInv'
  <1>0. TypeOK /\ Sealed /\ Bounded /\ Witnesses
    BY DEF SealInv
  <1>1. CASE Outside
    <2>1. /\ UNCHANGED <<seal, residual, events, intent, pc, req>>
          /\ now' >= now /\ (seal = None \/ UNCHANGED <<hold, archived>>)
          /\ now \in Nat /\ now' \in Nat
      BY <1>0, <1>1, OutsideFrame DEF files, ledger, acquiring, locals, goal, Tick, Moment, TypeOK
    <2>2. seal # None => seal.started \in Nat
      BY <1>0 DEF TypeOK, Seals, Moment
    <2>3. QED  BY <1>0, <2>1, <2>2 DEF SealInv, Sealed, Bounded, Witnesses
  <1>2. CASE Quiet
    <2>0. UNCHANGED <<now, hold, archived, events, intent>>
      BY <1>2, QuietFrame DEF goal, ledger
    <2>1. ASSUME NEW r \in Request, Start(r) PROVE SealInv'
      <3>1. /\ seal' = [key |-> r, started |-> now] /\ seal' # None /\ r # None
            /\ req' = r /\ pc' = "rebuild" /\ residual = None /\ residual' = None
        BY <1>0, <2>1, NoneAssumption DEF Start, Sealed, Seals, TypeOK
      <3>2. r.op = "acquire" => r = Acquire(r.lease)
        BY <2>1 DEF Start, Request, Acquire
      <3>3. now <= now
        BY <1>0 DEF TypeOK, Moment
      <3>4. r \notin events =>
               /\ r.op = "acquire" => hold = "none" /\ ~archived
               /\ r.op = "renew" => hold # "hard" /\ ~archived
        BY <2>1 DEF Start, Authorized, ReleaseAuthorized
      <3>5. QED  BY <2>0, <3>1, <3>2, <3>3, <3>4 DEF SealInv, Sealed, Bounded, Witnesses
    <2>2. CASE Retry
      <3>1. seal # None /\ UNCHANGED <<seal, residual>> /\ req' = seal.key /\ pc' = "rebuild"
        BY <2>2 DEF Retry
      <3>2. req' # None
        BY <1>0, <3>1, NoneAssumption DEF TypeOK, Seals
      <3>3. QED  BY <1>0, <2>0, <3>1, <3>2 DEF SealInv, Sealed, Bounded, Witnesses
    <2>3. CASE Close
      BY <1>0, <2>0, <2>3 DEF Close, Forget, SealInv, Sealed, Bounded, Witnesses
    <2>4. CASE Crash
      BY <1>0, <2>0, <2>4 DEF Crash, Kept, Forget, SealInv, Sealed, Bounded, Witnesses
    <2>5. CASE ~Close /\ ~Crash /\ ~Retry /\ ~\E r \in Request : Start(r)
      <3>1. UNCHANGED seal /\ seal # None
        BY <1>0, <1>2, <2>5 DEF Sealed, Quiet, Conflict, Clean, InstallSecret, InstallReceipt,
            InstallHead, InstallProjection, ThrowAbort, Rebuild, Replay, DecideAcquire, Promoted,
            Purge, Grant, DecideOther, RefuseOther, Cleanup, Erase, Fail, Goto, Writing, File
      <3>2. (pc' = "idle" /\ req' = None) \/ (pc' # "idle" /\ pc # "idle" /\ UNCHANGED req)
        BY <1>2, <2>5 DEF Quiet, Conflict, Clean, After, InstallSecret, InstallReceipt, Forget,
            InstallHead, InstallProjection, ThrowAbort, Rebuild, Replay, DecideAcquire, Promoted,
            Purge, Grant, DecideOther, RefuseOther, Cleanup, Erase, Fail, Goto, locals, Writing, File
      <3>3. \/ UNCHANGED residual \/ residual' = None
            \/ residual'.file \notin {"intent", "event"}
        BY <1>2, <2>5 DEF Quiet, Conflict, Clean, InstallSecret, InstallReceipt,
            InstallHead, InstallProjection, ThrowAbort, Rebuild, Replay, DecideAcquire, Promoted,
            Purge, Grant, DecideOther, RefuseOther, Cleanup, Erase, Fail, Goto, Published, Kept,
            Installed
      <3>4. QED  BY <1>0, <2>0, <3>1, <3>2, <3>3 DEF SealInv, Sealed, Bounded, Witnesses
    <2>6. QED  BY <1>2, <2>1, <2>2, <2>3, <2>4, <2>5 DEF Quiet
  <1>3. CASE InstallIntent
    <2>1. /\ UNCHANGED <<seal, pc, req, now, hold, archived, events>> /\ pc = "intent"
          /\ residual'.file = "intent" /\ seal # None /\ Subject = seal.key.lease
          /\ Subject \in Lease
      BY <1>0, <1>3, AtWorkRequest DEF InstallIntent, Published, Kept, Installed, goal, ledger,
          locals, Sealed, Subject
    <2>2. [staged |-> TRUE, token |-> tokens[On[Subject]] + 1, count |-> Count] \in Intents
      BY <1>0, <2>1, CountType, AtWorkRequest DEF Intents, TypeOK
    <2>3. intent'[Subject] # None
      BY <1>0, <1>3, <2>1, <2>2, NoneAssumption DEF InstallIntent, TypeOK
    <2>4. QED  BY <1>0, <2>1, <2>3 DEF SealInv, Sealed, Bounded, Witnesses
  <1>4. CASE Promote
    <2>1. /\ UNCHANGED <<seal, residual, pc, req, now, hold, archived, events>> /\ pc # "idle"
          /\ Subject \in Lease
      BY <1>0, <1>4, AtWorkRequest DEF Promote, goal, ledger, locals
    <2>2. \A l \in Lease : intent[l] # None => intent'[l] # None
      <3>1. intent[Subject] # None => [intent[Subject] EXCEPT !.staged = FALSE] \in Intents
        BY <1>0, <2>1 DEF TypeOK, Intents
      <3>2. QED  BY <1>0, <1>4, <2>1, <3>1, NoneAssumption DEF Promote, TypeOK
    <2>3. seal # None => seal.key.lease \in Lease
      BY <1>0 DEF TypeOK, Seals, Request
    <2>4. QED  BY <1>0, <2>1, <2>2, <2>3 DEF SealInv, Sealed, Bounded, Witnesses
  <1>5. CASE InstallEvent
    <2>1. /\ UNCHANGED <<seal, pc, req, now, hold, archived, intent>> /\ pc = "event"
          /\ residual'.file = "event" /\ seal # None /\ seal.key = req /\ events' = events \cup {req}
      BY <1>0, <1>5 DEF InstallEvent, Published, Kept, Installed, goal, acquiring, locals, Sealed
    <2>2. QED  BY <1>0, <2>1 DEF SealInv, Sealed, Bounded, Witnesses
  <1>6. QED  BY <1>1, <1>2, <1>3, <1>4, <1>5, NextIs

-----------------------------------------------------------------------------
(* The ledger, its leases and its intents. *)

\* An event touches the lease of its request, and only an acquire whose actor is
\* usable at the time of the event makes one active.
LEMMA EventEffect ==
    ASSUME TypeOK, Sealed, AtWork, InstallEvent
    PROVE  /\ Subject \in Lease /\ pc = "event" /\ ~Done /\ req \in Request
           /\ seal # None /\ seal.key = req
           /\ events' = events \cup {req}
           /\ \A l \in Lease \ {Subject} : lease'[l] = lease[l]
           /\ \/ /\ req.op = "acquire" /\ req = Acquire(Subject)
                 /\ IF UsableAt(Owner[Subject], at)
                    THEN lease'[Subject].expires = at + Ttl /\ lease'[Subject] # None
                    ELSE UNCHANGED lease
              \/ /\ req.op = "renew" /\ UNCHANGED tokens /\ Active(Subject) /\ lease'[Subject] # None
                 /\ lease'[Subject].status = "ACTIVE" /\ lease'[Subject].expires = at + Ttl
              \/ /\ req.op = "release" /\ UNCHANGED tokens /\ lease[Subject] # None /\ lease'[Subject] # None
                 /\ lease'[Subject].status = "RELEASED"
                 /\ lease'[Subject].expires = lease[Subject].expires
  <1>1. /\ Subject \in Lease /\ pc = "event" /\ req \in Request /\ seal # None /\ seal.key = req
        /\ events' = events \cup {req} /\ Ready
    BY AtWorkRequest DEF InstallEvent, Sealed
  <1>2. ~Done
    BY <1>1 DEF Ready, AtWork, Mine
  <1>3. req.op = "acquire" => req = Acquire(Subject)
    BY <1>1 DEF Sealed, Subject
  <1>4. at + Ttl \in 0..MaxTime + Ttl
    BY LeaseAssumption DEF TypeOK, Moment
  <1>5. CASE req.op = "acquire" /\ ApplyAcquire(Subject)
    <2>1. intent[Subject] \in Intents
      BY <1>1, <1>5 DEF AtWork, TypeOK
    <2>2. [status |-> "ACTIVE", revision |-> 1, token |-> intent[Subject].token,
           expires |-> at + Ttl, secret |-> receipt[Subject]] \in Granted
      BY <1>1, <1>4, <2>1 DEF Granted, TypeOK, Intents
    <2>3. QED
      BY <1>1, <1>2, <1>3, <1>5, <2>2, NoneAssumption DEF ApplyAcquire, TypeOK
  <1>6. CASE req.op = "renew" /\ ApplyRenew(Subject)
    <2>1. Active(Subject) /\ lease[Subject] \in Granted
      BY <1>1, <1>2, <1>6 DEF AtWork, TypeOK, Active
    <2>2. lease' = [lease EXCEPT ![Subject] =
                      [lease[Subject] EXCEPT !.revision = lease[Subject].revision + 1, !.expires = at + Ttl]]
      BY <1>1, <1>6 DEF ApplyRenew, TypeOK
    <2>3. /\ lease'[Subject] \in Granted /\ lease'[Subject].status = "ACTIVE"
          /\ lease'[Subject].expires = at + Ttl
      <3>1. LET n == [lease[Subject] EXCEPT !.revision = lease[Subject].revision + 1, !.expires = at + Ttl]
            IN n \in Granted /\ n.status = lease[Subject].status /\ n.expires = at + Ttl
        BY <1>4, <2>1, GrantedFields
      <3>2. QED  BY <1>1, <2>1, <2>2, <3>1 DEF Active, TypeOK
    <2>4. QED  BY <1>1, <1>2, <1>6, <2>1, <2>2, <2>3, NoneAssumption DEF ApplyRenew, TypeOK
  <1>7. CASE req.op = "release" /\ ApplyRelease(Subject)
    <2>1. lease[Subject] # None /\ lease[Subject] \in Granted
      BY <1>1, <1>7 DEF AtWork, TypeOK
    <2>2. lease' = [lease EXCEPT ![Subject] =
                      [lease[Subject] EXCEPT !.revision = lease[Subject].revision + 1, !.status = "RELEASED"]]
      BY <1>1, <1>7 DEF ApplyRelease, TypeOK
    <2>3. lease'[Subject] \in Granted /\ lease'[Subject].status = "RELEASED" /\ lease'[Subject].expires = lease[Subject].expires
      BY <1>1, <1>4, <2>1, <2>2, GrantedFields DEF TypeOK
    <2>4. QED  BY <1>1, <1>2, <1>7, <2>1, <2>2, <2>3, NoneAssumption DEF ApplyRelease, TypeOK
  <1>8. QED  BY <1>5, <1>6, <1>7 DEF InstallEvent

\* What is said of ledger and intents is kept by every step.
LEMMA LedgerStep ==
    ASSUME TypeOK, SealInv, LedgerInv, WorkInv, Next
    PROVE  LedgerInv'
  <1>0. TypeOK /\ Sealed /\ LeaseHasEvent /\ ExclusiveUse /\ PendingOwnsTheTail /\ AtWork /\ Undecided
    BY DEF SealInv, LedgerInv, WorkInv
  <1>1. CASE Outside
    <2>1. UNCHANGED <<exclusive, seal, events, lease, tokens, intent>>
      BY <1>0, <1>1, OutsideFrame DEF files, ledger, acquiring
    <2>2. QED
      BY <1>0, <2>1 DEF LedgerInv, LeaseHasEvent, ExclusiveUse, PendingOwnsTheTail, Active, Pending,
          IntentCurrent, Count, Acquire
  <1>2. CASE Quiet
    <2>1. UNCHANGED <<exclusive, events, lease, tokens, intent>>
      BY <1>2, QuietFrame DEF ledger
    <2>2. LeaseHasEvent' /\ ExclusiveUse'
      BY <1>0, <2>1 DEF LeaseHasEvent, ExclusiveUse, Active, Acquire
    <2>3. ASSUME NEW l \in Lease, Pending(l) PROVE seal' = seal
      <3>1. seal # None /\ seal.key = Acquire(l)
        BY <1>0, <2>3 DEF PendingOwnsTheTail
      <3>2. CASE Close
        <4>1. req = Acquire(l)
          BY <1>0, <3>1, <3>2 DEF Sealed, Close
        <4>2. ~Done /\ Subject = l /\ req.op = "acquire" /\ intent[Subject] # None
          BY <2>3, <4>1 DEF Pending, Acquire, Subject, Done
        <4>3. QED  BY <1>0, <3>2, <4>2 DEF Undecided, Close
      <3>3. CASE ~Close
        BY <1>2, <3>1, <3>3 DEF Quiet, Start, Retry, Crash, Conflict, Clean, InstallSecret, InstallReceipt,
            InstallHead, InstallProjection, ThrowAbort, Rebuild, Replay, DecideAcquire, Promoted,
            Purge, Grant, DecideOther, RefuseOther, Cleanup, Erase, Fail, Goto
      <3>4. QED  BY <3>2, <3>3
    <2>4. PendingOwnsTheTail'
      BY <1>0, <2>1, <2>3 DEF PendingOwnsTheTail, Pending, IntentCurrent, Count, Acquire
    <2>5. QED  BY <2>2, <2>4 DEF LedgerInv
  <1>3. CASE InstallIntent
    <2>1. /\ UNCHANGED <<exclusive, events, lease, tokens, seal>> /\ Subject \in Lease /\ pc = "intent"
          /\ intent' = [intent EXCEPT ![Subject] =
                           [staged |-> TRUE, token |-> tokens[On[Subject]] + 1, count |-> Count]]
      BY <1>0, <1>3, AtWorkRequest DEF InstallIntent, ledger
    <2>2. seal # None /\ seal.key = Acquire(Subject)
      BY <1>0, <2>1, AtWorkRequest DEF AtWork, Sealed, Subject
    <2>3. LeaseHasEvent' /\ ExclusiveUse'
      BY <1>0, <2>1 DEF LeaseHasEvent, ExclusiveUse, Active, Acquire
    <2>4. ASSUME NEW l \in Lease, Pending(l)'
          PROVE  seal' # None /\ seal'.key = Acquire(l) /\ IntentCurrent(l)'
      <3>1. CASE l = Subject
        <4>1. intent'[l] = [staged |-> TRUE, token |-> tokens[On[l]] + 1, count |-> Count]
          BY <1>0, <2>1, <3>1 DEF TypeOK
        <4>2. QED  BY <2>1, <2>2, <3>1, <4>1 DEF IntentCurrent, Count
      <3>2. CASE l # Subject
        <4>1. intent'[l] = intent[l]
          BY <1>0, <2>1, <3>2 DEF TypeOK
        <4>2. Pending(l)
          BY <2>1, <2>4, <4>1 DEF Pending, Acquire
        <4>3. seal.key = Acquire(l)
          BY <1>0, <4>2 DEF PendingOwnsTheTail
        <4>4. QED  BY <2>2, <3>2, <4>3 DEF Acquire
      <3>3. QED  BY <3>1, <3>2
    <2>5. PendingOwnsTheTail'
      BY <2>4 DEF PendingOwnsTheTail, Acquire
    <2>6. QED  BY <2>3, <2>5 DEF LedgerInv
  <1>4. CASE Promote
    <2>1. /\ UNCHANGED <<exclusive, events, lease, tokens, seal>> /\ Subject \in Lease
          /\ intent[Subject] \in Intents
          /\ intent' = [intent EXCEPT ![Subject] = [intent[Subject] EXCEPT !.staged = FALSE]]
      BY <1>0, <1>4, AtWorkRequest DEF Promote, ledger, AtWork, Granting, TypeOK
    <2>2. LeaseHasEvent' /\ ExclusiveUse'
      BY <1>0, <2>1 DEF LeaseHasEvent, ExclusiveUse, Active, Acquire
    <2>3. \A l \in Lease :
             \/ intent'[l] = None
             \/ intent[l] # None /\ (IntentCurrent(l) => IntentCurrent(l)')
      <3>1. LET i == [intent[Subject] EXCEPT !.staged = FALSE]
            IN i.token = intent[Subject].token /\ i.count = intent[Subject].count
        BY <2>1 DEF Intents
      <3>2. QED  BY <1>0, <2>1, <3>1, NoneAssumption DEF TypeOK, IntentCurrent, Count
    <2>4. PendingOwnsTheTail'
      BY <1>0, <2>1, <2>3 DEF PendingOwnsTheTail, Pending, Acquire
    <2>5. QED  BY <2>2, <2>4 DEF LedgerInv
  <1>5. CASE InstallEvent
    <2>0. UNCHANGED <<exclusive, intent, seal, req>>
      BY <1>5 DEF InstallEvent, acquiring, locals
    <2>1. /\ Subject \in Lease /\ pc = "event" /\ ~Done /\ req \in Request /\ seal.key = req
          /\ events' = events \cup {req} /\ \A l \in Lease \ {Subject} : lease'[l] = lease[l]
          /\ \/ req.op = "acquire" /\ req = Acquire(Subject)
             \/ lease[Subject] # None
      BY <1>0, <1>5, EventEffect DEF Active
    <2>2. LeaseHasEvent'
      BY <1>0, <2>1 DEF LeaseHasEvent, Acquire
    <2>3. ASSUME Active(Subject)' PROVE Active(Subject) \/ Compatible(Subject)
      <3>1. CASE req.op = "acquire"
        <4>1. CASE UsableAt(Owner[Subject], at)
          BY <1>0, <2>1, <3>1, <4>1 DEF AtWork
        <4>2. CASE ~UsableAt(Owner[Subject], at)
          BY <1>0, <1>5, <2>0, <2>3, <3>1, <4>2, EventEffect DEF Active, Subject
        <4>3. QED  BY <4>1, <4>2
      <3>2. CASE req.op # "acquire"
        BY <1>0, <1>5, <2>0, <2>3, <3>2, EventEffect DEF Active, Subject
      <3>3. QED  BY <3>1, <3>2
    <2>4. ASSUME NEW l \in Lease, NEW m \in Lease, l # m, On[l] = On[m], Active(l)', Active(m)'
          PROVE  l \notin exclusive /\ m \notin exclusive
      <3>1. \A x \in Lease \ {Subject} : Active(x)' => Active(x)
        BY <2>1 DEF Active
      <3>2. CASE Active(l) /\ Active(m)
        BY <1>0, <2>4, <3>2 DEF ExclusiveUse
      <3>3. CASE ~Active(l) \/ ~Active(m)
        <4>1. Compatible(Subject)
          BY <2>0, <2>3, <2>4, <3>1, <3>3 DEF Active, Subject
        <4>2. CASE l = Subject
          <5>1. m \in Occupants(On[Subject]) \ {Subject}
            BY <2>4, <3>1, <4>2 DEF Occupants
          <5>2. QED  BY <4>1, <4>2, <5>1 DEF Compatible
        <4>3. CASE m = Subject
          <5>1. l \in Occupants(On[Subject]) \ {Subject}
            BY <2>4, <3>1, <4>3 DEF Occupants
          <5>2. QED  BY <4>1, <4>3, <5>1 DEF Compatible
        <4>4. QED  BY <2>4, <3>1, <3>3, <4>2, <4>3
      <3>4. QED  BY <3>2, <3>3
    <2>5. ExclusiveUse'
      BY <2>0, <2>4 DEF ExclusiveUse
    <2>6. ASSUME NEW l \in Lease PROVE ~Pending(l)'
      <3>1. SUFFICES ASSUME Pending(l)' PROVE FALSE
        OBVIOUS
      <3>2. Pending(l)
        BY <2>0, <2>1, <3>1 DEF Pending, Acquire
      <3>3. req = Acquire(l)
        BY <1>0, <2>1, <3>2 DEF PendingOwnsTheTail
      <3>4. QED  BY <2>1, <3>1, <3>3 DEF Pending, Acquire
    <2>7. QED  BY <2>2, <2>5, <2>6 DEF LedgerInv, PendingOwnsTheTail
  <1>6. QED  BY <1>1, <1>2, <1>3, <1>4, <1>5, NextIs

-----------------------------------------------------------------------------
(* What a callback has looked at. *)

\* Between two commands nothing is claimed.
LEMMA IdleWork ==
    ASSUME pc' = "idle"
    PROVE  WorkInv'
  BY DEF WorkInv, AtWork, Undecided, Granting

\* What a running callback has looked at stays so while the ledger, the Goal and
\* the intents do.
LEMMA WorkStays ==
    ASSUME WorkInv, UNCHANGED <<exclusive, hold, until, ledger, seal, residual, pc, req, kind, abort, at>>,
           \A l \in Lease : intent[l] # None <=> intent'[l] # None, Subject \in Lease
    PROVE  WorkInv'
  BY DEF WorkInv, AtWork, Undecided, ledger, Done, Subject, Compatible, Occupants, Active, UsableAt,
      Expired, Current

\* A callback begins with nothing claimed of it.
LEMMA StartWork ==
    ASSUME TypeOK, (\E r \in Request : Start(r)) \/ Retry
    PROVE  WorkInv'
  <1>1. pc' = "rebuild" /\ UNCHANGED <<ledger, intent>>
    BY DEF Start, Retry, files, acquiring
  <1>2. ASSUME NEW r \in Request, Start(r) PROVE Undecided'
    BY <1>1, <1>2 DEF Start, Authorized, Undecided, Subject, Done, ledger
  <1>3. ASSUME Retry PROVE Undecided'
    <2>1. req' = seal.key /\ kind' = Recovery(seal.key) /\ abort' = Aborts(seal.key)
      BY <1>3 DEF Retry
    <2>2. CASE Witnessed(seal.key)
      BY <1>1, <2>1, <2>2 DEF Recovery, Aborts, Undecided
    <2>3. CASE ~Witnessed(seal.key)
      BY <1>1, <2>1, <2>3 DEF Witnessed, Undecided, Done, Subject, ledger
    <2>4. QED  BY <2>2, <2>3
  <1>4. QED  BY <1>1, <1>2, <1>3 DEF WorkInv, AtWork, Granting

\* A callback that throws closes on nothing undecided.
LEMMA FailWork ==
    ASSUME Fail, pc # "close",
           req.op = "acquire" /\ ~Done /\ kind \in {"FRESH", "PRISTINE"} => intent[Subject] = None
    PROVE  WorkInv'
  <1>1. CASE kind \in {"FRESH", "PRISTINE"} /\ residual = None
    <2>1. pc' = "close" /\ UNCHANGED <<locals, files>>
      BY <1>1 DEF Fail
    <2>2. QED
      BY <1>1, <2>1 DEF WorkInv, AtWork, Undecided, Granting, Done, Subject, locals, files, ledger, acquiring
  <1>2. CASE ~(kind \in {"FRESH", "PRISTINE"} /\ residual = None)
    BY <1>2, IdleWork DEF Fail, Forget
  <1>3. QED  BY <1>1, <1>2

\* A callback goes on from a to b with the same request, on the same ledger.
Moves(a, b) ==
    /\ pc = a /\ pc' = b
    /\ UNCHANGED <<exclusive, now, goal, ledger, intent, seal, req, kind, abort>>

\* A callback that goes from a to b has looked at what is claimed at b.
LEMMA CallbackWork ==
    ASSUME TypeOK, SealInv, LedgerInv, WorkInv, NEW a \in PCs, NEW b \in PCs, Moves(a, b),
           \/ a = "rebuild" /\ b \in {"repair", "decide"} /\ ~abort
           \/ a = "repair" /\ b = "decide"
           \/ a = "decide" /\ b \in {"cleanup", "close"} /\ Done
           \/ a = "decide" /\ b \in {"intent", "purge"} /\ req.op = "acquire" /\ ~Done
                 /\ Free(Subject) /\ (b = "purge" => intent[Subject] # None)
           \/ a = "intent" /\ b = "promote" /\ intent[Subject] # None
           \/ a = "promote" /\ b = "purge"
           \/ a = "purge" /\ b \in {"grant", "secret"}
           \/ a = "secret" /\ b = "receipt"
           \/ a = "receipt" /\ b = "grant"
           \/ a = "event" /\ b = "head" /\ Done
           \/ a = "head" /\ b = "projection"
           \/ a = "projection" /\ b \in {"erase", "cleanup", "close"}
           \/ a \in {"cleanup", "erase"} /\ b = "close"
    PROVE  WorkInv'
  <1>1. /\ Done' <=> Done
        /\ Subject' = Subject
        /\ Compatible(Subject)' <=> Compatible(Subject)
    BY DEF Moves, Done, Subject, ledger, Compatible, Occupants, Active
  <1>2. Free(Subject) => Compatible(Subject)
    BY DEF Free, Compatible
  <1>3. intent'[Subject'] = intent[Subject] /\ UNCHANGED <<req, kind, abort>>
    BY <1>1 DEF Moves
  <1>4. QED
    BY <1>1, <1>2, <1>3 DEF Moves, WorkInv, AtWork, Undecided, Granting

\* A callback comes to its event with the time it decided at.
LEMMA EventWork ==
    ASSUME TypeOK, SealInv, LedgerInv, WorkInv, Grant \/ DecideOther \/ DecideAcquire, pc' = "event"
    PROVE  WorkInv'
  <1>0. TypeOK /\ Sealed /\ AtWork /\ Bounded
    BY DEF SealInv, WorkInv
  <1>1. /\ at' = now /\ pc \in {"grant", "decide"}
        /\ UNCHANGED <<exclusive, hold, until, ledger, intent, seal, req>>
    BY DEF Grant, DecideOther, DecideAcquire, Goto, Fail, Forget, files, goal, acquiring
  <1>2. now >= seal.started /\ seal # None /\ seal.key = req /\ Subject \in Lease /\ req.op \in Operation
    BY <1>0, <1>1, AtWorkRequest DEF Sealed, TypeOK, Seals, Moment
  <1>3. ~Done
    BY <1>0 DEF Grant, DecideOther, DecideAcquire, AtWork, Granting
  <1>4. req.op = "acquire" =>
           intent[Subject] # None /\ (UsableAt(Owner[Subject], now) => Compatible(Subject))
    BY <1>0 DEF Grant, DecideOther, DecideAcquire, AtWork, Granting, Goto, Fail, Forget
  <1>5. req.op = "renew" =>
           /\ Active(Subject) /\ UsableAt(Owner[Subject], now)
           /\ Expired(Subject, now) => hold = "env" /\ Current(Subject, now)
    <2>1. SUFFICES ASSUME req.op = "renew" PROVE StillRenewable(Subject)
      BY DEF StillRenewable, Preservable, InWindow
    <2>2. QED  BY <1>0, <2>1 DEF Grant, DecideOther, DecideAcquire, AtWork, Granting
  <1>6. req.op # "acquire" => lease[Subject] # None
    BY <1>0, <1>5 DEF Grant, DecideOther, DecideAcquire, AtWork, Granting, Releasable, Active
  <1>7. AtWork'
    BY <1>1, <1>2, <1>3, <1>4, <1>5, <1>6 DEF AtWork, Granting, Done, Subject, ledger, Compatible,
        Occupants, Active, UsableAt, Expired, Current
  <1>8. QED  BY <1>7 DEF WorkInv, Undecided

\* What is said of the callbacks is kept by every step.
LEMMA WorkStep ==
    ASSUME TypeOK, SealInv, LedgerInv, WorkInv, Next
    PROVE  WorkInv'
  <1>0. TypeOK /\ Sealed /\ Witnesses /\ PendingOwnsTheTail /\ AtWork /\ Undecided
    BY DEF SealInv, LedgerInv, WorkInv
  <1>1. CASE pc' = "idle"
    BY <1>1, IdleWork
  <1>2. CASE Outside /\ pc' # "idle"
    <2>1. /\ UNCHANGED <<exclusive, ledger, intent, seal, residual, pc, locals>> /\ pc # "idle"
          /\ UNCHANGED <<hold, until>> /\ Subject \in Lease
      BY <1>0, <1>2, OutsideFrame, AtWorkRequest DEF files, acquiring, Tick, goal, Sealed
    <2>2. QED  BY <2>1, WorkStays DEF locals
  <1>3. CASE (\E r \in Request : Start(r)) \/ Retry
    BY <1>0, <1>3, StartWork
  <1>4. CASE Conflict \/ ThrowAbort \/ RefuseOther
    <2>1. Fail /\ pc # "close"
      BY <1>4 DEF Conflict, ThrowAbort, RefuseOther, Writing, File
    <2>2. CASE Conflict
      BY <2>2, IdleWork DEF Conflict, Fail, Forget
    <2>3. CASE ThrowAbort \/ RefuseOther
      BY <1>0, <2>1, <2>3, FailWork DEF ThrowAbort, RefuseOther, Undecided
    <2>4. QED  BY <1>4, <2>2, <2>3
  <1>5. CASE Clean
    <2>1. /\ Moves(pc, pc') /\ pc' = After /\ pc \in Writing /\ Mine /\ residual.stage = "published"
      BY <1>5, QuietFrame DEF Clean, Moves, files, acquiring, Quiet
    <2>2. pc \in PCs /\ pc' \in PCs /\ Subject \in Lease /\ seal.key = req
      BY <1>0, <2>1, AtWorkRequest DEF PCs, After, Writing, File
    <2>3. residual # None /\ residual.file = Installed
      BY <2>1 DEF Mine
    <2>4. /\ pc = "intent" => intent[Subject] # None
          /\ pc = "event" => Done
      BY <1>0, <2>1, <2>2, <2>3 DEF Witnesses, Installed, Subject, Done
    <2>5. QED  BY <1>0, <2>1, <2>2, <2>4, CallbackWork DEF After, Writing, File
  <1>6. CASE InstallSecret \/ InstallReceipt \/ InstallHead \/ InstallProjection
    <2>1. /\ UNCHANGED <<exclusive, now, goal, ledger, intent, seal, pc, locals>>
          /\ pc \in {"secret", "receipt", "head", "repair", "projection"}
      BY <1>6 DEF InstallSecret, InstallReceipt, InstallHead, InstallProjection, files, acquiring
    <2>2. (Done' <=> Done) /\ Subject' = Subject /\ (Compatible(Subject)' <=> Compatible(Subject))
      BY <2>1 DEF Done, Subject, ledger, locals, Compatible, Occupants, Active
    <2>3. QED  BY <2>1, <2>2 DEF WorkInv, AtWork, Undecided, Granting, locals
  <1>7. CASE Rebuild \/ Promoted \/ Purge \/ Cleanup \/ Erase
    <2>1. Moves(pc, pc') /\ pc \in PCs /\ pc' \in PCs
      BY <1>0, <1>7, QuietFrame DEF Rebuild, Promoted, Purge, Cleanup, Erase, Goto, Moves, locals,
          files, acquiring, Quiet, PCs, Writing, File
    <2>2. QED
      BY <1>7, <2>1, CallbackWork DEF Rebuild, Promoted, Purge, Cleanup, Erase, Goto
  <1>8. CASE Replay
    <2>1. pc = "decide" /\ Done
      BY <1>8 DEF Replay
    <2>2. CASE Fail
      BY <2>1, <2>2, FailWork
    <2>3. CASE Goto("cleanup") \/ Goto("close")
      <3>1. Moves(pc, pc') /\ pc \in PCs /\ pc' \in {"cleanup", "close"} /\ pc' \in PCs
        BY <1>0, <2>3 DEF TypeOK, Goto, Moves, locals, files, acquiring, PCs
      <3>2. QED  BY <2>1, <3>1, CallbackWork
    <2>4. QED  BY <1>8, <2>2, <2>3 DEF Replay
  <1>9. CASE DecideAcquire
    <2>1. pc = "decide" /\ ~Done /\ req.op = "acquire" /\ Subject \in Lease
      BY <1>0, <1>9, AtWorkRequest DEF DecideAcquire
    <2>2. intent[Subject] # None => IntentCurrent(Subject)
      <3>1. req = Acquire(Subject)
        BY <1>0, <2>1 DEF Sealed, Subject
      <3>2. QED  BY <1>0, <2>1, <3>1 DEF PendingOwnsTheTail, Pending, Done
    <2>3. CASE Fail
      BY <1>0, <2>1, <2>3, FailWork DEF Undecided
    <2>4. CASE pc' = "event"
      BY <1>0, <1>9, <2>4, EventWork
    <2>5. CASE ~Fail /\ pc' # "event"
      <3>1. /\ Free(Subject)
            /\ \/ Goto("intent") /\ pc' = "intent"
               \/ Goto("purge") /\ pc' = "purge" /\ intent[Subject] # None
        BY <1>9, <2>5 DEF DecideAcquire, Goto
      <3>2. Moves(pc, pc') /\ pc \in PCs /\ pc' \in PCs
        BY <1>0, <3>1 DEF TypeOK, Goto, Moves, locals, files, acquiring, PCs, Writing, File
      <3>3. QED  BY <2>1, <3>1, <3>2, CallbackWork
    <2>6. QED  BY <2>3, <2>4, <2>5
  <1>10. CASE Grant \/ DecideOther
    BY <1>0, <1>10, EventWork DEF Grant, DecideOther
  <1>11. CASE InstallIntent
    <2>1. /\ UNCHANGED <<exclusive, now, goal, ledger, seal, pc, locals>> /\ pc = "intent"
      BY <1>11 DEF InstallIntent
    <2>2. (Done' <=> Done) /\ Subject' = Subject /\ (Compatible(Subject)' <=> Compatible(Subject))
      BY <2>1 DEF Done, Subject, ledger, locals, Compatible, Occupants, Active
    <2>3. QED  BY <1>0, <2>1, <2>2 DEF WorkInv, AtWork, Undecided, Granting, locals
  <1>12. CASE Promote
    <2>1. /\ UNCHANGED <<exclusive, hold, until, ledger, seal, residual, pc, locals>>
          /\ Subject \in Lease /\ intent[Subject] \in Intents
          /\ intent' = [intent EXCEPT ![Subject] = [intent[Subject] EXCEPT !.staged = FALSE]]
      BY <1>0, <1>12, AtWorkRequest DEF Promote, goal, AtWork, Granting, TypeOK
    <2>2. [intent[Subject] EXCEPT !.staged = FALSE] \in Intents
      BY <2>1 DEF Intents
    <2>3. \A l \in Lease : intent[l] # None <=> intent'[l] # None
      BY <1>0, <2>1, <2>2, NoneAssumption DEF TypeOK
    <2>4. QED  BY <2>1, <2>3, WorkStays DEF locals
  <1>13. CASE InstallEvent
    <2>1. /\ UNCHANGED <<exclusive, until, intent, seal, pc, req, kind, abort, at>>
          /\ residual'.file = "event" /\ residual'.stage = "published" /\ pc = "event"
          /\ Subject \in Lease /\ ~Done /\ events' = events \cup {req}
      BY <1>0, <1>13, EventEffect DEF InstallEvent, Published, Kept, Installed, goal, acquiring, locals
    <2>2. residual' # None
      <3>1. residual' \in Residuals
        BY <1>0, <1>13, <2>1, StampType DEF InstallEvent, Published, Writing, File
      <3>2. QED  BY <3>1, NoneAssumption
    <2>3. Done' /\ Subject' = Subject
      BY <2>1 DEF Done, Subject
    <2>4. \A l \in Lease \ {Subject} : lease'[l] = lease[l]
      BY <1>0, <1>13, EventEffect
    <2>5. Compatible(Subject) => Compatible(Subject)'
      BY <2>1, <2>3, <2>4 DEF Compatible, Occupants, Active
    <2>6. req.op # "acquire" => lease'[Subject] # None
      BY <1>0, <1>13, EventEffect
    <2>7. QED
      BY <1>0, <2>1, <2>2, <2>3, <2>5, <2>6 DEF WorkInv, AtWork, Undecided, Granting, UsableAt
  <1>14. CASE Close \/ Crash
    BY <1>14, IdleWork DEF Close, Crash, Forget
  <1>15. QED
    BY <1>1, <1>2, <1>3, <1>4, <1>5, <1>6, <1>7, <1>8, <1>9, <1>10, <1>11, <1>12, <1>13, <1>14, NextIs
    DEF Quiet

-----------------------------------------------------------------------------
(* Theorems. *)

\* The invariant holds before any command.
LEMMA InitInv ==
    Init => IInv
  <1>1. Init => TypeOK
    <2> SUFFICES ASSUME Init PROVE TypeOK
      OBVIOUS
    <2>1. archived \in BOOLEAN /\ abort \in BOOLEAN /\ preserve \in BOOLEAN
      BY DEF Init
    <2>2. IsFiniteSet(events) /\ events \subseteq Request
      BY FS_EmptySet DEF Init
    <2>3. 0 \in Moment /\ 0 \in Secret /\ Term \in 0..MaxTime + Term /\ 0 \in 0..MaxFaults
      BY LeaseAssumption DEF Moment, Secret
    <2>4. QED  BY <2>1, <2>2, <2>3 DEF Init, TypeOK, PCs
  <1>2. Init => SealInv /\ LedgerInv /\ WorkInv
    BY DEF Init, SealInv, LedgerInv, WorkInv, Sealed, Bounded, Witnesses, LeaseHasEvent, ExclusiveUse,
        PendingOwnsTheTail, AtWork, Undecided, Granting, Active, Pending
  <1>3. QED  BY <1>1, <1>2 DEF IInv

\* Seals, the ledger, the intents and the callbacks' positions fit together after
\* any interleaving of commands, crashes, retries and time.
THEOREM Invariance == Spec => []IInv
  <1>1. IInv /\ [Next]_vars => IInv'
    <2> SUFFICES ASSUME IInv, [Next]_vars PROVE IInv'
      OBVIOUS
    <2>1. CASE Next
      BY <2>1, TypeStep, SealStep, LedgerStep, WorkStep DEF IInv, SealInv, WorkInv
    <2>2. CASE UNCHANGED vars
      <3>1. UNCHANGED <<exclusive, now, until, hold, archived, seal, residual, intent, secret, receipt,
                        events, lease, tokens, head, pc, req, kind, abort, preserve, at, faults>>
        BY <2>2 DEF vars, goal, files, ledger, acquiring, locals
      <3>2. TypeOK' /\ SealInv'
        BY <3>1 DEF IInv, TypeOK, SealInv, Sealed, Bounded, Witnesses
      <3>3. LedgerInv'
        BY <3>1 DEF IInv, LedgerInv, LeaseHasEvent, ExclusiveUse, PendingOwnsTheTail, Active, Pending,
            IntentCurrent, Count, Acquire
      <3>4. WorkInv'
        BY <3>1 DEF IInv, WorkInv, AtWork, Undecided, Done, Subject, Compatible, Occupants, Active,
            UsableAt, Expired, Current
      <3>5. QED  BY <3>2, <3>3, <3>4 DEF IInv
    <2>3. QED  BY <2>1, <2>2
  <1>2. QED  BY InitInv, <1>1, PTL DEF Spec

\* Every variable keeps its type.
THEOREM TypeCorrect == Spec => []TypeOK
  BY Invariance, PTL DEF IInv

\* Two leases that are ACTIVE on one resource share it.
THEOREM ResourcesAreExclusive == Spec => []ExclusiveUse
  BY Invariance, PTL DEF IInv, LedgerInv

\* An undecided intent belongs to the odd seal and is bound to the ledger's end:
\* RESOURCE_PENDING_OPERATION_CONFLICT is never met.
THEOREM IntentsOwnTheTail == Spec => []PendingOwnsTheTail
  BY Invariance, PTL DEF IInv, LedgerInv

\* A lease that changes is the subject of the event that is being installed.
LEMMA ChangeByEvent ==
    ASSUME IInv, [Next]_vars, NEW l \in Lease, lease'[l] # lease[l]
    PROVE  InstallEvent /\ l = Subject /\ pc = "event" /\ ~Done
  <1>0. TypeOK /\ Sealed /\ AtWork
    BY DEF IInv, SealInv, WorkInv
  <1>1. InstallEvent
    <2>1. UNCHANGED vars => UNCHANGED lease
      BY DEF vars, files, ledger
    <2>2. Outside => UNCHANGED lease
      BY <1>0, OutsideFrame DEF files, ledger
    <2>3. Quiet => UNCHANGED lease
      BY QuietFrame DEF ledger
    <2>4. InstallIntent \/ Promote => UNCHANGED lease
      BY DEF InstallIntent, Promote, ledger
    <2>5. QED  BY <2>1, <2>2, <2>3, <2>4, NextIs
  <1>2. QED  BY <1>0, <1>1, EventEffect

\* One that appears, or is prolonged, is of an actor who is usable at that time.
LEMMA ActiveByEvent ==
    ASSUME IInv, [Next]_vars, NEW l \in Lease, lease'[l] # lease[l], lease'[l].status = "ACTIVE"
    PROVE  /\ InstallEvent /\ l = Subject /\ GrantedAt(l)' = at /\ UsableAt(Owner[l], at)
           /\ \/ req.op = "acquire" /\ lease[l] = None
              \/ req.op = "renew" /\ Active(l)
  <1>0. TypeOK /\ Sealed /\ LeaseHasEvent /\ AtWork
    BY DEF IInv, SealInv, LedgerInv, WorkInv
  <1>1. InstallEvent /\ l = Subject /\ pc = "event" /\ ~Done
    BY ChangeByEvent
  <1>2. lease'[l].expires = at + Ttl => GrantedAt(l)' = at
    BY <1>0, LeaseAssumption DEF TypeOK, Moment, GrantedAt
  <1>3. CASE req.op = "acquire"
    <2>1. UsableAt(Owner[l], at) /\ lease'[l].expires = at + Ttl /\ req = Acquire(l)
      BY <1>0, <1>1, <1>3, EventEffect
    <2>2. lease[l] = None
      BY <1>0, <1>1, <2>1 DEF LeaseHasEvent, Done
    <2>3. QED  BY <1>1, <1>2, <1>3, <2>1, <2>2
  <1>4. CASE req.op = "renew"
    <2>1. Active(l) /\ lease'[l].expires = at + Ttl
      BY <1>0, <1>1, <1>4, EventEffect
    <2>2. UsableAt(Owner[l], at)
      BY <1>0, <1>1, <1>4 DEF AtWork
    <2>3. QED  BY <1>1, <1>2, <1>4, <2>1, <2>2
  <1>5. QED
    BY <1>0, <1>1, <1>3, <1>4, EventEffect

\* A lease begins or is prolonged only by a session that was usable at the time
\* the event records, within the transaction, under no hold but a renewal's.
THEOREM LeasesFromLive == Spec => AcceptedFromLive
  <1>1. ASSUME IInv, [Next]_vars, NEW l \in Lease, lease'[l] # lease[l], lease'[l].status = "ACTIVE"
        PROVE  /\ UsableAt(Owner[l], GrantedAt(l)')
               /\ GrantedAt(l)' >= seal.started
               /\ ~archived
               /\ hold = "none" \/ (lease[l] # None /\ hold = "env")
    <2>1. /\ InstallEvent /\ l = Subject /\ GrantedAt(l)' = at /\ UsableAt(Owner[l], at)
          /\ \/ req.op = "acquire" /\ lease[l] = None
             \/ req.op = "renew" /\ Active(l)
      BY <1>1, ActiveByEvent
    <2>2. TypeOK /\ Sealed /\ Bounded /\ AtWork
      BY <1>1 DEF IInv, SealInv, WorkInv
    <2>3. pc = "event" /\ ~Done /\ seal # None /\ seal.key = req
      BY <2>1, <2>2, EventEffect
    <2>4. at >= seal.started
      BY <2>2, <2>3 DEF AtWork
    <2>5. ~archived /\ (hold = "none" \/ (lease[l] # None /\ hold = "env"))
      BY <2>1, <2>2, <2>3 DEF Bounded, Done, Active, TypeOK
    <2>6. QED  BY <2>1, <2>4, <2>5
  <1>2. IInv /\ [Next]_vars =>
          [\A l \in Lease :
             lease'[l] # lease[l] /\ lease'[l].status = "ACTIVE" =>
                 /\ UsableAt(Owner[l], GrantedAt(l)')
                 /\ GrantedAt(l)' >= seal.started
                 /\ ~archived
                 /\ hold = "none" \/ (lease[l] # None /\ hold = "env")]_vars
    BY <1>1
  <1>3. QED  BY Invariance, <1>2, PTL DEF Spec, AcceptedFromLive

\* An owner whose lease had expired gets it back only under an identity hold, and
\* only if nobody's acquire of the resource was decided since.
THEOREM RevivalsAreHeld == Spec => NoUnheldRevival
  <1>1. ASSUME IInv, [Next]_vars, NEW l \in Lease, Active(l), lease'[l].expires > lease[l].expires,
               Expired(l, GrantedAt(l)')
        PROVE  hold = "env" /\ tokens[On[l]] = lease[l].token
    <2>0. TypeOK /\ Sealed /\ LeaseHasEvent /\ AtWork /\ lease[l] \in Granted
      BY <1>1 DEF IInv, SealInv, LedgerInv, WorkInv, TypeOK, Active
    <2>1. lease[l].expires \in Nat
      BY <2>0, LeaseAssumption DEF Granted
    <2>2. lease'[l] # lease[l]
      BY <1>1, <2>1
    <2>3. InstallEvent /\ l = Subject /\ pc = "event" /\ ~Done
      BY <1>1, <2>2, ChangeByEvent
    <2>4. lease'[l].status = "ACTIVE" /\ req.op # "acquire"
      <3>1. req.op # "release"
        BY <1>1, <2>0, <2>1, <2>3, EventEffect
      <3>2. CASE req.op = "acquire"
        <4>1. req = Acquire(l) /\ lease[l] # None
          BY <1>1, <2>0, <2>3, <3>2, EventEffect DEF Active
        <4>2. QED  BY <2>0, <2>3, <4>1 DEF LeaseHasEvent, Done
      <3>3. QED  BY <2>0, <2>3, <3>1, <3>2, EventEffect
    <2>5. req.op = "renew" /\ GrantedAt(l)' = at
      BY <1>1, <2>2, <2>4, ActiveByEvent
    <2>6. QED  BY <1>1, <2>0, <2>3, <2>5 DEF AtWork, Current
  <1>2. IInv /\ [Next]_vars =>
          [\A l \in Lease :
             Active(l) /\ lease'[l].expires > lease[l].expires
                 /\ Expired(l, GrantedAt(l)') =>
                     hold = "env" /\ tokens[On[l]] = lease[l].token]_vars
    BY <1>1
  <1>3. QED  BY Invariance, <1>2, PTL DEF Spec, NoUnheldRevival

=============================================================================
