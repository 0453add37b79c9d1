--------------------------- MODULE StoreLockProofs ---------------------------
(***************************************************************************)
(* Theorems about StoreLock, for any processes, commands, nonces, deaths,  *)
(* of reapers too, and timeouts. What concerns the records of the lock     *)
(* holds without exception. That there is one writer at a time, and that   *)
(* the lock is atomic, is so as long as no claim of a dead writer's lock   *)
(* is overtaken (NeverOvertaken): nothing else that can happen to the lock *)
(* or to its mutex, and to the reapers of either, costs the exclusion.     *)
(*                                                                         *)
(* Then, from the section "The protocol of the root" on, about an instance *)
(* of RootProtocol.                                                        *)
(***************************************************************************)
EXTENDS StoreLock, RootSeal, SequencesExt, TLAPS

-----------------------------------------------------------------------------
(* The invariant: what holds whatever happens. *)

\* The nonces of a process are its own and alive, and it has one at a time.
Owned(p) ==
    /\ \A n \in {wn[p], rn[p]} \ {NoNonce} : n[1] = p /\ n \in backing \ dead
    /\ wn[p] = NoNonce \/ rn[p] = NoNonce

\* Nothing points to it, and nobody has moved it.
Unlinked(n) ==
    /\ n \notin aside
    /\ \A x \in Path : at[x] # n
    /\ \A q \in Proc : got[q] # n

ClaimPoints == {"claim", "check", "drop", "restore", "putBack"}
FreePoints  == Looks \cup {"idle", "mintReaper", "mintWriter"}

\* A claim is of the own lock, or of one whose owner is dead: his nonce is not drawn
\* again while it is remembered. A dead writer's is claimed by the owner of a mutex, a
\* dead reaper's by a process that owns nothing.
OwnClaim(p)   == seen[p] = IF path[p] = "writer" THEN wn[p] ELSE rn[p]
StaleClaim(p) ==
    /\ seen[p] \notin backing \ dead
    /\ IF path[p] = "writer" THEN rn[p] # NoNonce ELSE wn[p] = NoNonce /\ rn[p] = NoNonce

\* What a process owns and remembers where it is.
Held(p) ==
    /\ pc[p] \in FreePoints => wn[p] = NoNonce /\ rn[p] = NoNonce
    /\ pc[p] \in {"linkWriter", "ownWriter", "critical"} => wn[p] # NoNonce
    /\ pc[p] \in {"linkReaper", "ownReaper", "letgo"} => rn[p] # NoNonce
    /\ pc[p] = "linkWriter" => Unlinked(wn[p])
    /\ pc[p] = "linkReaper" => Unlinked(rn[p])
    /\ pc[p] = "sweep" => rn[p] = NoNonce
    /\ pc[p] \notin ClaimPoints => seen[p] = NoNonce /\ got[p] = NoNonce
    /\ pc[p] = "claim" => got[p] = NoNonce
    /\ pc[p] \in ClaimPoints => seen[p] # NoNonce /\ (OwnClaim(p) \/ StaleClaim(p))
    /\ pc[p] = "drop" => got[p] = seen[p] /\ got[p] \notin aside

\* A symlink is in one place, and its directory is there.
Places ==
    /\ aside \subseteq backing /\ dead \subseteq backing
    /\ \A x \in Path : at[x] # NoNonce => at[x] \in backing \ aside
    /\ at["reaper"] # NoNonce => at["reaper"] # at["writer"]
    /\ \A p \in Proc : got[p] # NoNonce => \A x \in Path : at[x] # got[p]
    /\ \A p, q \in Proc : got[p] # NoNonce /\ got[q] = got[p] => q = p

IInv == TypeOK /\ Places /\ \A p \in Proc : Owned(p) /\ Held(p)

-----------------------------------------------------------------------------
(* What holds of the writer's lock as long as no claim is overtaken. *)

\* A writer that releases finds his lock where he has put it.
Releases(p) ==
    /\ seen[p] = wn[p] /\ pc[p] \in {"claim", "check", "drop"}
    /\ pc[p] = "claim" => at["writer"] = wn[p]
    /\ pc[p] = "check" => got[p] = wn[p] /\ wn[p] \in aside

\* A reaper moves what it has observed, and has nothing to put back.
Reaps(p) ==
    /\ rn[p] # NoNonce
    /\ pc[p] # "claim" => got[p] = seen[p]
    /\ pc[p] \in {"restore", "putBack"} => got[p] \notin aside

Kept(p) ==
    /\ pc[p] \in {"ownWriter", "critical"} => at["writer"] = wn[p]
    /\ pc[p] = "sweep" /\ wn[p] # NoNonce => at["writer"] = wn[p]
    /\ pc[p] \in ClaimPoints /\ path[p] = "writer" => Releases(p) \/ Reaps(p)
    /\ rn[p] # NoNonce => at["writer"] # rn[p]

WInv == \A p \in Proc : Kept(p)

-----------------------------------------------------------------------------
(* What a step of one process is to the others. *)

\* The state of a process itself.
Locals(q) ==
    /\ pc'[q] = pc[q] /\ wn'[q] = wn[q] /\ rn'[q] = rn[q]
    /\ path'[q] = path[q] /\ seen'[q] = seen[q] /\ got'[q] = got[q]

\* Two processes share no nonce.
LEMMA Apart ==
    ASSUME IInv, NEW p \in Proc, NEW q \in Proc, NEW n \in {wn[p], rn[p]} \cap {wn[q], rn[q]},
           n # NoNonce
    PROVE  p = q
  BY DEF IInv, Owned

\* No nonce is the absence of one.
LEMMA NotNone == ASSUME NEW n \in Nonce PROVE n # NoNonce
  BY LockAssumption DEF Nonce

\* A process keeps what it knows when a step of another leaves its records alone.
LEMMA OtherKeeps ==
    ASSUME IInv, NEW q \in Proc, Locals(q),
           \A n \in {wn[q], rn[q]} \ {NoNonce} :
               n \in backing' \ dead' /\ (Unlinked(n) => Unlinked(n)'),
           pc[q] \in ClaimPoints /\ seen[q] \notin backing \ dead
               => seen[q] \notin backing' \ dead',
           got[q] # NoNonce /\ got[q] \notin aside => got[q] \notin aside'
    PROVE  Owned(q)' /\ Held(q)'
  <1>1. Locals(q) /\ Owned(q) /\ Held(q)
    BY DEF IInv
  <1>2. Owned(q)'
    BY <1>1 DEF Owned, Locals
  <1>3. ASSUME NEW n \in {wn[q], rn[q]} \ {NoNonce}, Unlinked(n)
        PROVE  /\ n \notin aside' /\ \A x \in Path : at'[x] # n
               /\ \A r \in Proc : got'[r] # n
    BY <1>3 DEF Unlinked
  <1>4. pc[q] \in ClaimPoints => (OwnClaim(q) \/ StaleClaim(q))'
    BY <1>1 DEF Held, Locals, OwnClaim, StaleClaim
  <1>5. pc[q] = "drop" => got[q] # NoNonce
    BY <1>1 DEF Held, ClaimPoints
  <1>6. (pc[q] = "linkWriter" => Unlinked(wn[q]))'
    BY <1>1, <1>3 DEF Held, Locals, Unlinked
  <1>7. (pc[q] = "linkReaper" => Unlinked(rn[q]))'
    BY <1>1, <1>3 DEF Held, Locals, Unlinked
  <1>8. Held(q)'
    BY <1>1, <1>4, <1>5, <1>6, <1>7 DEF Held, Locals
  <1>9. QED  BY <1>2, <1>8

\* What a step has to leave of the records of others.
Undisturbed(p) ==
    /\ \A n \in Nonce : n[1] # p /\ n \in backing \ dead => n \in backing' \ dead'
    /\ \A n \in Nonce : n[1] # p /\ Unlinked(n) => Unlinked(n)'
    /\ \A q \in Proc : pc[q] \in ClaimPoints /\ seen[q] \notin backing \ dead
          => seen[q] \notin backing' \ dead'
    /\ \A q \in Proc \ {p} : got[q] # NoNonce /\ got[q] \notin aside => got[q] \notin aside'

LEMMA StepKeeps ==
    ASSUME IInv, NEW p \in Proc, \A r \in Proc \ {p} : Locals(r),
           TypeOK', Places', Owned(p)', Held(p)', Undisturbed(p)
    PROVE  IInv'
  <1>1. ASSUME NEW q \in Proc, q # p PROVE Owned(q)' /\ Held(q)'
    <2>1. \A n \in {wn[q], rn[q]} \ {NoNonce} : n \in Nonce /\ n[1] # p /\ n \in backing \ dead
      BY <1>1 DEF IInv, Owned, TypeOK
    <2>2. \A n \in {wn[q], rn[q]} \ {NoNonce} :
              n \in backing' \ dead' /\ (Unlinked(n) => Unlinked(n)')
      BY <2>1 DEF Undisturbed
    <2>3. QED  BY <1>1, <2>2, OtherKeeps DEF Undisturbed
  <1>2. QED  BY <1>1 DEF IInv

\* A step that touches no file and no nonce has only its own place to account for.
LEMMA LocalKeeps ==
    ASSUME IInv, NEW p \in Proc, UNCHANGED <<files, dead, owned>>,
           \A r \in Proc \ {p} : Locals(r), TypeOK', Held(p)',
           got'[p] \in {got[p], NoNonce}
    PROVE  IInv'
  <1>1. \A q \in Proc : got'[q] \in {got[q], NoNonce}
    BY DEF Locals
  <1>2. Places'
    BY <1>1 DEF IInv, Places, files
  <1>3. Owned(p)'
    BY DEF IInv, Owned, files, owned
  <1>4. \A n \in Nonce : Unlinked(n) => Unlinked(n)'
    BY <1>1, NotNone DEF Unlinked, files
  <1>5. Undisturbed(p)
    BY <1>4 DEF Undisturbed, files
  <1>6. QED  BY <1>2, <1>3, <1>5, StepKeeps

-----------------------------------------------------------------------------
(* The loop. *)

\* Looking, waiting, and going on.
LEMMA LoopKeeps ==
    ASSUME IInv, NEW p \in Proc,
           \/ Start(p) \/ Wait(p) \/ ObserveStaleWriter(p)
           \/ Look(p, "reaper", "lookReaper", "lookWriter")
           \/ Look(p, "writer", "lookWriter", "relookReaper")
           \/ Look(p, "reaper", "relookReaper", "relookWriter")
           \/ Look(p, "writer", "relookWriter", "mintWriter")
    PROVE  IInv'
  <1>1. TypeOK /\ Owned(p) /\ Held(p)
    BY DEF IInv
  <1>2. /\ UNCHANGED <<files, dead, owned, claims>>
        /\ pc[p] \in FreePoints
        /\ \E l \in {"sweep"} \cup Looks \cup {"mintReaper", "mintWriter"} : Goto(p, l)
        /\ calls' \in [Proc -> Nat] /\ faults' \in Nat
    <2>1. CASE Start(p)
      <3>1. calls' \in [Proc -> Nat]
        BY <1>1, <2>1 DEF Start, TypeOK
      <3>2. faults' \in Nat
        BY <1>1, <2>1 DEF Start, Fault, TypeOK
      <3>3. QED  BY <2>1, <3>1, <3>2 DEF Start, FreePoints
    <2>2. CASE Wait(p)
      BY <1>1, <2>2 DEF Wait, FreePoints, Looks, TypeOK
    <2>3. CASE ObserveStaleWriter(p)
      BY <1>1, <2>3 DEF ObserveStaleWriter, FreePoints, Looks, TypeOK
    <2>4. CASE \/ Look(p, "reaper", "lookReaper", "lookWriter")
               \/ Look(p, "writer", "lookWriter", "relookReaper")
               \/ Look(p, "reaper", "relookReaper", "relookWriter")
               \/ Look(p, "writer", "relookWriter", "mintWriter")
      BY <1>1, <2>4 DEF Look, FreePoints, Looks, TypeOK
    <2>5. QED  BY <2>1, <2>2, <2>3, <2>4
  <1>3. PICK l \in {"sweep"} \cup Looks \cup {"mintReaper", "mintWriter"} : Goto(p, l)
    BY <1>2
  <1>4. pc' = [pc EXCEPT ![p] = l] /\ pc'[p] = l
    BY <1>1, <1>3 DEF Goto, TypeOK
  <1>5. TypeOK'
    BY <1>1, <1>2, <1>4 DEF TypeOK, PCs, files, owned, claims, Looks
  <1>6. (\A r \in Proc \ {p} : Locals(r)) /\ got' = got
    BY <1>1, <1>2, <1>4 DEF Locals, TypeOK, owned, claims
  <1>7. Held(p)'
    BY <1>1, <1>2, <1>4 DEF Held, FreePoints, ClaimPoints, Looks, owned, claims
  <1>8. QED  BY <1>2, <1>5, <1>6, <1>7, LocalKeeps

\* A publisher reads its record back; a reaper finds its mutex gone.
LEMMA OwnKeeps ==
    ASSUME IInv, NEW p \in Proc, OwnWriter(p) \/ LostReaper(p)
    PROVE  IInv'
  <1>1. TypeOK /\ Owned(p) /\ Held(p)
    BY DEF IInv
  <1>2. PICK l \in {"sweep", "failed"} :
            /\ pc' = [pc EXCEPT ![p] = l] /\ UNCHANGED <<files, dead, owned, claims, calls, faults>>
            /\ pc[p] \in {"ownWriter", "ownReaper"} /\ (l = "sweep" => pc[p] = "ownWriter")
    BY DEF OwnWriter, LostReaper, Goto
  <1>3. TypeOK' /\ pc'[p] = l /\ (\A r \in Proc \ {p} : Locals(r)) /\ got' = got
    BY <1>1, <1>2 DEF TypeOK, PCs, files, owned, claims, Locals
  <1>4. Held(p)'
    BY <1>1, <1>2, <1>3 DEF Held, Owned, FreePoints, ClaimPoints, Looks, owned, claims
  <1>5. QED  BY <1>2, <1>3, <1>4, LocalKeeps

-----------------------------------------------------------------------------
(* Claims. *)

\* A lock whose owner is dead is claimed: the mutex, or under the mutex the writer's.
LEMMA ObserveKeeps ==
    ASSUME IInv, NEW p \in Proc, ObserveReaper(p) \/ OwnReaper(p)
    PROVE  IInv'
  <1>1. TypeOK /\ Owned(p) /\ Held(p)
    BY DEF IInv
  <1>2. UNCHANGED <<files, dead, owned, got, failing, calls, faults>>
    BY DEF ObserveReaper, OwnReaper
  <1>3. got[p] = NoNonce
    BY <1>1 DEF ObserveReaper, OwnReaper, Held, ClaimPoints
  <1>4. ASSUME NEW x \in Path, Stale(x), pc' = [pc EXCEPT ![p] = "claim"],
               path' = [path EXCEPT ![p] = x], seen' = [seen EXCEPT ![p] = at[x]],
               IF x = "writer" THEN rn[p] # NoNonce ELSE wn[p] = NoNonce /\ rn[p] = NoNonce
        PROVE  IInv'
    <2>1. /\ TypeOK' /\ pc'[p] = "claim" /\ path'[p] = x /\ seen'[p] = at[x]
          /\ \A r \in Proc \ {p} : Locals(r)
      BY <1>1, <1>2, <1>4 DEF TypeOK, PCs, Path, files, owned, Locals
    <2>2. at[x] # NoNonce /\ at[x] \in dead
      BY <1>4 DEF Stale, Absent
    <2>3. StaleClaim(p)'
      BY <1>2, <1>4, <2>1, <2>2 DEF StaleClaim, files, owned
    <2>4. Held(p)'
      BY <1>2, <1>3, <2>1, <2>2, <2>3 DEF Held, FreePoints, Looks, ClaimPoints
    <2>5. QED  BY <1>2, <2>1, <2>4, LocalKeeps
  <1>5. CASE ObserveReaper(p)
    <2>1. wn[p] = NoNonce /\ rn[p] = NoNonce
      BY <1>1, <1>5 DEF ObserveReaper, Held, FreePoints, Looks
    <2>2. QED  BY <1>4, <1>5, <2>1 DEF ObserveReaper, Goto, Path
  <1>6. CASE OwnReaper(p)
    <2>1. rn[p] # NoNonce
      BY <1>1, <1>6 DEF OwnReaper, Held
    <2>2. CASE Goto(p, "letgo") /\ UNCHANGED <<path, seen>>
      <3>1. TypeOK' /\ pc'[p] = "letgo" /\ \A r \in Proc \ {p} : Locals(r)
        BY <1>1, <1>2, <2>2 DEF Goto, TypeOK, PCs, files, owned, Locals
      <3>2. seen[p] = NoNonce
        BY <1>1, <1>6 DEF OwnReaper, Held, ClaimPoints
      <3>3. Held(p)'
        BY <1>2, <1>3, <2>1, <2>2, <3>1, <3>2 DEF Held, FreePoints, ClaimPoints, Looks, owned
      <3>4. QED  BY <1>2, <3>1, <3>3, LocalKeeps
    <2>3. QED  BY <1>4, <1>6, <2>1, <2>2 DEF OwnReaper, Goto, Path
  <1>7. QED  BY <1>5, <1>6

\* The claim of the own lock begins, or the lock is not there.
LEMMA LetGoKeeps ==
    ASSUME IInv, NEW p \in Proc, LetGo(p)
    PROVE  IInv'
  <1>1. TypeOK /\ Owned(p) /\ Held(p)
    BY DEF IInv
  <1> DEFINE x == IF pc[p] = "letgo" THEN "reaper" ELSE "writer"
             n == IF pc[p] = "letgo" THEN rn[p] ELSE wn[p]
  <1>2. /\ n # NoNonce /\ x \in Path /\ n \in Nonce \cup {NoNonce}
        /\ seen[p] = NoNonce /\ got[p] = NoNonce
        /\ UNCHANGED <<files, dead, owned, got, failing, calls, faults>>
    BY <1>1 DEF LetGo, Held, Path, ClaimPoints, TypeOK
  <1>3. \/ /\ pc' = [pc EXCEPT ![p] = "claim"] /\ path' = [path EXCEPT ![p] = x]
           /\ seen' = [seen EXCEPT ![p] = n]
        \/ pc' = [pc EXCEPT ![p] = "failed"] /\ UNCHANGED <<path, seen>>
    BY DEF LetGo, Goto
  <1>4. n = IF x = "writer" THEN wn[p] ELSE rn[p]
    OBVIOUS
  <1> HIDE DEF x, n
  <1>5. /\ TypeOK' /\ \A r \in Proc \ {p} : Locals(r)
        /\ \/ pc'[p] = "claim" /\ path'[p] = x /\ seen'[p] = n
           \/ pc'[p] = "failed" /\ seen'[p] = NoNonce
    BY <1>1, <1>2, <1>3 DEF TypeOK, PCs, files, owned, Locals
  <1>6. Held(p)'
    <2>1. CASE pc'[p] = "claim" /\ path'[p] = x /\ seen'[p] = n
      <3>1. OwnClaim(p)'
        BY <1>2, <1>4, <2>1 DEF OwnClaim, owned
      <3>2. QED  BY <1>2, <2>1, <3>1 DEF Held, FreePoints, Looks, ClaimPoints
    <2>2. CASE pc'[p] = "failed" /\ seen'[p] = NoNonce
      BY <1>2, <2>2 DEF Held, FreePoints, Looks, ClaimPoints
    <2>3. QED  BY <1>5, <2>1, <2>2
  <1>7. QED  BY <1>2, <1>5, <1>6, LocalKeeps

\* Where a claim ends: what was the own lock's, a dead writer's, or a dead reaper's.
LEMMA Ends ==
    ASSUME IInv, NEW p \in Proc, pc[p] \in ClaimPoints
    PROVE  \/ /\ OwnClaim(p) /\ Releasing(p) /\ ~Reaping(p) /\ Thrown(p) = "failed"
              /\ \/ seen[p] = wn[p] /\ rn[p] = NoNonce
                 \/ seen[p] = rn[p] /\ wn[p] = NoNonce
              /\ Through(p) \in {"idle", "failed", "lookReaper"}
           \/ /\ StaleClaim(p) /\ path[p] = "writer" /\ rn[p] # NoNonce
              /\ ~Releasing(p) /\ Reaping(p) /\ Through(p) = "letgo" /\ Thrown(p) = "letgo"
           \/ /\ StaleClaim(p) /\ path[p] = "reaper" /\ wn[p] = NoNonce /\ rn[p] = NoNonce
              /\ ~Releasing(p) /\ ~Reaping(p)
              /\ Through(p) = "lookReaper" /\ Thrown(p) = "failed"
  <1>1. TypeOK /\ Owned(p) /\ Held(p) /\ path[p] \in Path /\ seen[p] # NoNonce
    BY DEF IInv, TypeOK, Held
  <1>2. CASE OwnClaim(p)
    <2>1. Releasing(p) /\ ~Reaping(p)
      BY <1>2 DEF OwnClaim, Releasing, Reaping
    <2>2. Thrown(p) = "failed" /\ Through(p) \in {"idle", "failed", "lookReaper"}
      BY <1>1, <2>1 DEF Through, Thrown, Path
    <2>3. \/ seen[p] = wn[p] /\ rn[p] = NoNonce
          \/ seen[p] = rn[p] /\ wn[p] = NoNonce
      BY <1>1, <1>2 DEF OwnClaim, Owned
    <2>4. QED  BY <1>2, <2>1, <2>2, <2>3
  <1>3. CASE StaleClaim(p)
    <2>1. ~Releasing(p)
      BY <1>1, <1>3 DEF StaleClaim, Releasing, Owned
    <2>2. CASE path[p] = "writer"
      <3>1. Reaping(p)
        BY <2>1, <2>2 DEF Reaping
      <3>2. Through(p) = "letgo" /\ Thrown(p) = "letgo"
        BY <2>1, <3>1 DEF Through, Thrown
      <3>3. QED  BY <1>3, <2>1, <2>2, <3>1, <3>2 DEF StaleClaim
    <2>3. CASE path[p] = "reaper"
      <3>1. ~Reaping(p)
        BY <2>3 DEF Reaping
      <3>2. Through(p) = "lookReaper" /\ Thrown(p) = "failed"
        BY <2>1, <3>1 DEF Through, Thrown
      <3>3. QED  BY <1>3, <2>1, <2>3, <3>1, <3>2 DEF StaleClaim
    <2>4. QED  BY <1>1, <2>2, <2>3 DEF Path
  <1>4. QED  BY <1>1, <1>2, <1>3 DEF Held

\* A claim that is over leaves its process at a label.
LEMMA EndType ==
    ASSUME TypeOK, NEW p \in Proc, NEW l \in PCs, NEW b \in BOOLEAN, EndClaim(p, l, b)
    PROVE  /\ pc' \in [Proc -> PCs] /\ path' \in [Proc -> Path]
           /\ seen' \in [Proc -> Nonce \cup {NoNonce}] /\ got' \in [Proc -> Nonce \cup {NoNonce}]
           /\ failing' \in [Proc -> BOOLEAN]
           /\ pc'[p] = l /\ seen'[p] = NoNonce /\ got'[p] = NoNonce
           /\ \A r \in Proc \ {p} : /\ pc'[r] = pc[r] /\ path'[r] = path[r]
                                    /\ seen'[r] = seen[r] /\ got'[r] = got[r]
  BY DEF EndClaim, Goto, TypeOK, Path

\* Who ends a claim at a label owns what one owns there.
EndsAt(p, l) ==
    \/ l = "failed"
    \/ l = "letgo" /\ rn[p] # NoNonce
    \/ l \in {"idle", "lookReaper"} /\ wn[p] = NoNonce /\ rn[p] = NoNonce

\* A claim that found nothing, or has to leave aside what it moved.
LEMMA MissKeeps ==
    ASSUME IInv, NEW p \in Proc, ClaimMissed(p) \/ Restore(p)
    PROVE  IInv'
  <1>1. TypeOK /\ Owned(p) /\ Held(p)
    BY DEF IInv
  <1>2. pc[p] \in ClaimPoints /\ UNCHANGED <<files, dead, owned, calls, faults>>
    BY DEF ClaimMissed, Restore, ClaimPoints
  <1>3. ASSUME NEW l \in PCs, NEW b \in BOOLEAN, EndClaim(p, l, b), EndsAt(p, l)
        PROVE  IInv'
    <2>1. /\ TypeOK' /\ pc'[p] = l /\ seen'[p] = NoNonce /\ got'[p] = NoNonce
          /\ \A r \in Proc \ {p} : Locals(r)
      BY <1>1, <1>2, <1>3, EndType DEF TypeOK, files, owned, Locals
    <2>2. Held(p)'
      BY <1>2, <1>3, <2>1 DEF Held, EndsAt, FreePoints, Looks, ClaimPoints, owned
    <2>3. QED  BY <1>2, <2>1, <2>2, LocalKeeps
  <1>4. CASE ClaimMissed(p)
    <2>1. EndClaim(p, IF Releasing(p) THEN "failed" ELSE Through(p), FALSE)
      BY <1>4 DEF ClaimMissed
    <2>2. CASE Releasing(p)
      BY <1>3, <2>1, <2>2 DEF EndsAt, PCs
    <2>3. CASE ~Releasing(p)
      <3>1. EndsAt(p, Through(p)) /\ Through(p) \in PCs
        BY <1>2, <2>3, Ends DEF EndsAt, PCs, Looks
      <3>2. QED  BY <1>3, <2>1, <2>3, <3>1
    <2>4. QED  BY <2>2, <2>3
  <1>5. CASE Restore(p)
    <2>1. CASE EndClaim(p, Thrown(p), TRUE)
      <3>1. EndsAt(p, Thrown(p)) /\ Thrown(p) \in PCs
        BY <1>2, Ends DEF EndsAt, PCs, Looks
      <3>2. QED  BY <1>3, <2>1, <3>1
    <2>2. CASE Goto(p, "putBack") /\ UNCHANGED claims
      <3>1. TypeOK' /\ pc'[p] = "putBack" /\ (\A r \in Proc \ {p} : Locals(r)) /\ got' = got
        BY <1>1, <1>2, <2>2 DEF Goto, TypeOK, PCs, files, owned, claims, Locals
      <3>2. Held(p)'
        BY <1>1, <1>2, <2>2, <3>1 DEF Held, OwnClaim, StaleClaim, FreePoints, Looks,
                                      ClaimPoints, files, owned, claims
      <3>3. QED  BY <1>2, <3>1, <3>2, LocalKeeps
    <2>3. QED  BY <1>5, <2>1, <2>2 DEF Restore
  <1>6. QED  BY <1>4, <1>5

\* What is put back is in one place again, over whatever was there.
LEMMA PutBackKeeps ==
    ASSUME IInv, NEW p \in Proc, PutBack(p)
    PROVE  IInv'
  <1>1. TypeOK /\ Owned(p) /\ Held(p) /\ Places /\ path[p] \in Path
    BY DEF IInv, TypeOK
  <1>2. /\ pc[p] = "putBack" /\ pc[p] \in ClaimPoints
        /\ EndClaim(p, Thrown(p), TRUE) /\ UNCHANGED <<backing, dead, owned, calls, faults>>
    BY DEF PutBack, ClaimPoints
  <1>3. EndsAt(p, Thrown(p)) /\ Thrown(p) \in PCs
    BY <1>2, Ends DEF EndsAt, PCs, Looks
  <1> DEFINE n == got[p]
  <1>4. \/ n \in aside /\ at' = [at EXCEPT ![path[p]] = n] /\ aside' = aside \ {n}
        \/ at' = at /\ aside' = aside
    BY DEF PutBack
  <1>5. n \in aside => n \in Nonce /\ n # NoNonce /\ n \in backing
    BY <1>1, NotNone DEF TypeOK, Places
  <1> DEFINE l == Thrown(p)
  <1>6. n \in Nonce \cup {NoNonce}
    BY <1>1 DEF TypeOK
  <1>7. l \in PCs /\ EndsAt(p, l) /\ EndClaim(p, l, TRUE)
    BY <1>2, <1>3
  <1> HIDE DEF n, l
  <1>8. /\ pc' \in [Proc -> PCs] /\ path' \in [Proc -> Path]
        /\ seen' \in [Proc -> Nonce \cup {NoNonce}] /\ got' \in [Proc -> Nonce \cup {NoNonce}]
        /\ failing' \in [Proc -> BOOLEAN]
        /\ pc'[p] = l /\ seen'[p] = NoNonce /\ got'[p] = NoNonce
        /\ \A r \in Proc \ {p} : /\ pc'[r] = pc[r] /\ path'[r] = path[r]
                                 /\ seen'[r] = seen[r] /\ got'[r] = got[r]
    BY <1>1, <1>7, EndType
  <1>9. TypeOK' /\ \A r \in Proc \ {p} : Locals(r)
    <2>1. at' \in [Path -> Nonce \cup {NoNonce}] /\ aside' \subseteq Nonce
      BY <1>1, <1>4, <1>6 DEF TypeOK
    <2>2. QED  BY <1>1, <1>2, <1>8, <2>1 DEF TypeOK, owned, Locals
  <1>10. \A x \in Path : at'[x] # at[x] => n \in aside /\ at'[x] = n /\ x = path[p]
    BY <1>1, <1>4 DEF TypeOK
  <1>11. \A x \in Path : n # NoNonce => at[x] # n
    BY <1>1 DEF Places, n
  <1>12. \A q \in Proc : got'[q] # NoNonce => q # p /\ got'[q] = got[q] /\ got[q] # n
    BY <1>1, <1>8 DEF Places, n
  <1>13. Places'
    <2>1. aside' \subseteq backing' /\ dead' \subseteq backing'
      BY <1>1, <1>2, <1>4 DEF Places
    <2>2. \A x \in Path : at'[x] # NoNonce => at'[x] \in backing' \ aside'
      BY <1>1, <1>2, <1>4, <1>5, <1>10 DEF Places
    <2>3. at'["reaper"] # NoNonce => at'["reaper"] # at'["writer"]
      <3>1. "reaper" \in Path /\ "writer" \in Path
        BY DEF Path
      <3>2. QED  BY <1>1, <1>5, <1>10, <1>11, <3>1 DEF Places
    <2>4. \A q \in Proc : got'[q] # NoNonce => \A x \in Path : at'[x] # got'[q]
      BY <1>1, <1>10, <1>12 DEF Places
    <2>5. \A q, r \in Proc : got'[q] # NoNonce /\ got'[r] = got'[q] => r = q
      BY <1>1, <1>12 DEF Places
    <2>6. QED  BY <2>1, <2>2, <2>3, <2>4, <2>5 DEF Places
  <1>14. Owned(p)'
    BY <1>1, <1>2 DEF Owned, owned
  <1>15. Held(p)'
    BY <1>2, <1>7, <1>8 DEF Held, EndsAt, FreePoints, Looks, ClaimPoints, owned
  <1>16. Undisturbed(p)
    <2>1. ASSUME NEW m \in Nonce, Unlinked(m)
          PROVE  /\ m \notin aside' /\ \A x \in Path : at'[x] # m
                 /\ \A q \in Proc : got'[q] # m
      BY <1>4, <1>10, <1>12, <2>1, NotNone DEF Unlinked
    <2>2. \A m \in Nonce : Unlinked(m) => Unlinked(m)'
      BY <2>1 DEF Unlinked
    <2>3. QED  BY <1>2, <1>4, <2>2 DEF Undisturbed
  <1>17. QED  BY <1>9, <1>13, <1>14, <1>15, <1>16, StepKeeps

\* What sweeping deletes.
LEMMA SweepEffect ==
    ASSUME IInv, NEW p \in Proc, Sweep(p)
    PROVE  \E D \in SUBSET dead :
              /\ aside' = aside \ dead /\ backing' = backing \ D /\ dead' = dead \ D
              /\ aside \cap dead \subseteq D
              /\ \A x \in Path : at[x] \notin D
  <1> DEFINE links == aside \cap dead
             dirs  == (backing \cap dead) \ (aside \cup {at[x] : x \in Path})
  <1>1. \A x \in Path : at[x] \notin links
    BY LockAssumption DEF IInv, Places, TypeOK, Nonce
  <1>2. QED  BY <1>1 DEF Sweep

\* Sweeping deletes what is dead, and nothing a name points to.
LEMMA SweepKeeps ==
    ASSUME IInv, NEW p \in Proc, Sweep(p)
    PROVE  IInv'
  <1>1. TypeOK /\ Owned(p) /\ Held(p) /\ Places
    BY DEF IInv
  <1>2. PICK D \in SUBSET dead :
            /\ aside' = aside \ dead /\ backing' = backing \ D /\ dead' = dead \ D
            /\ aside \cap dead \subseteq D
            /\ \A x \in Path : at[x] \notin D
    BY SweepEffect
  <1>3. /\ pc[p] = "sweep" /\ UNCHANGED <<at, owned, claims, calls, faults>>
        /\ pc' = [pc EXCEPT ![p] = IF wn[p] = NoNonce THEN "lookReaper" ELSE "critical"]
    BY DEF Sweep, Goto
  <1>4. TypeOK' /\ \A r \in Proc \ {p} : Locals(r)
    BY <1>1, <1>2, <1>3 DEF TypeOK, PCs, Looks, owned, claims, Locals
  <1>5. Places'
    BY <1>1, <1>2, <1>3 DEF Places, claims
  <1>6. Owned(p)'
    BY <1>1, <1>2, <1>3 DEF Owned, owned
  <1>7. pc'[p] = IF wn[p] = NoNonce THEN "lookReaper" ELSE "critical"
    BY <1>1, <1>3 DEF TypeOK
  <1>8. Held(p)'
    BY <1>1, <1>3, <1>7 DEF Held, FreePoints, Looks, ClaimPoints, owned, claims
  <1>9. Undisturbed(p)
    <2>1. \A n \in Nonce : Unlinked(n) => Unlinked(n)'
      BY <1>2, <1>3 DEF Unlinked, claims
    <2>2. QED  BY <1>2, <2>1 DEF Undisturbed
  <1>10. QED  BY <1>4, <1>5, <1>6, <1>8, <1>9, StepKeeps

\* A new record is nobody else's.
LEMMA MintKeeps ==
    ASSUME IInv, NEW p \in Proc, MintReaper(p) \/ MintWriter(p)
    PROVE  IInv'
  <1>1. TypeOK /\ Owned(p) /\ Held(p) /\ Places
    BY DEF IInv
  <1>2. PICK n \in Nonce :
            /\ Draw(p, n) /\ backing' = backing \cup {n} /\ dead' = dead \ {n}
            /\ UNCHANGED <<at, aside, claims, calls, faults>>
            /\ \/ /\ pc[p] = "mintReaper" /\ pc' = [pc EXCEPT ![p] = "linkReaper"]
                  /\ rn' = [rn EXCEPT ![p] = n] /\ wn' = wn
               \/ /\ pc[p] = "mintWriter" /\ pc' = [pc EXCEPT ![p] = "linkWriter"]
                  /\ wn' = [wn EXCEPT ![p] = n] /\ rn' = rn
    BY DEF MintReaper, MintWriter, Mint, Goto
  <1>3. n[1] = p /\ n \notin Named /\ n # NoNonce
    BY <1>2, NotNone DEF Draw
  <1>4. /\ Unlinked(n) /\ n \notin backing
        /\ \A q \in Proc : n \notin {wn[q], rn[q], seen[q], got[q]}
    BY <1>3 DEF Named, Unlinked
  <1>5. wn[p] = NoNonce /\ rn[p] = NoNonce /\ seen[p] = NoNonce /\ got[p] = NoNonce
    BY <1>1, <1>2 DEF Held, FreePoints, ClaimPoints
  <1>6. TypeOK' /\ \A r \in Proc \ {p} : Locals(r)
    BY <1>1, <1>2 DEF TypeOK, PCs, claims, Locals
  <1>7. \/ pc'[p] = "linkReaper" /\ rn'[p] = n /\ wn'[p] = NoNonce
        \/ pc'[p] = "linkWriter" /\ wn'[p] = n /\ rn'[p] = NoNonce
    BY <1>1, <1>2, <1>5 DEF TypeOK
  <1>8. Places'
    BY <1>1, <1>2 DEF Places, claims
  <1>9. Owned(p)'
    BY <1>2, <1>3, <1>7 DEF Owned
  <1>10. \A m \in Nonce : Unlinked(m) => Unlinked(m)'
    BY <1>2 DEF Unlinked, claims
  <1>11. Held(p)'
    <2>1. n \notin aside' /\ (\A x \in Path : at'[x] # n) /\ \A q \in Proc : got'[q] # n
      BY <1>2, <1>4 DEF Unlinked, claims
    <2>2. (pc[p] = "linkWriter" => Unlinked(wn[p]))' /\ (pc[p] = "linkReaper" => Unlinked(rn[p]))'
      BY <1>7, <2>1 DEF Unlinked
    <2>3. QED  BY <1>2, <1>3, <1>5, <1>7, <2>2 DEF Held, FreePoints, Looks, ClaimPoints, claims
  <1>12. Undisturbed(p)
    BY <1>2, <1>4, <1>10 DEF Undisturbed
  <1>13. QED  BY <1>6, <1>8, <1>9, <1>11, <1>12, StepKeeps

\* A name is taken only when it is free; who finds it taken gives up his record.
LEMMA LinkKeeps ==
    ASSUME IInv, NEW p \in Proc, LinkReaper(p) \/ LinkWriter(p)
    PROVE  IInv'
  <1>1. TypeOK /\ Owned(p) /\ Held(p) /\ Places
    BY DEF IInv
  <1> DEFINE x == IF pc[p] = "linkReaper" THEN "reaper" ELSE "writer"
             n == IF pc[p] = "linkReaper" THEN rn[p] ELSE wn[p]
  <1>2. /\ pc[p] \in {"linkReaper", "linkWriter"} /\ x \in Path
        /\ n \in Nonce /\ n # NoNonce /\ Unlinked(n) /\ n[1] = p /\ n \in backing \ dead
        /\ x = "reaper" => n = rn[p] /\ wn[p] = NoNonce
        /\ x = "writer" => n = wn[p] /\ rn[p] = NoNonce
        /\ seen[p] = NoNonce /\ got[p] = NoNonce
    BY <1>1 DEF LinkReaper, LinkWriter, Held, Owned, Path, ClaimPoints, TypeOK
  <1>3. CASE /\ Absent(x) /\ at' = [at EXCEPT ![x] = n]
             /\ pc' = [pc EXCEPT ![p] = IF x = "reaper" THEN "ownReaper" ELSE "ownWriter"]
             /\ UNCHANGED <<backing, wn, rn, aside, dead, claims, calls, faults>>
    <2> HIDE DEF x, n
    <2>1. TypeOK' /\ \A r \in Proc \ {p} : Locals(r)
      BY <1>1, <1>2, <1>3 DEF TypeOK, PCs, claims, Locals
    <2>2. /\ at'[x] = n /\ \A y \in Path : y # x => at'[y] = at[y]
          /\ pc'[p] = IF x = "reaper" THEN "ownReaper" ELSE "ownWriter"
      BY <1>1, <1>2, <1>3 DEF TypeOK
    <2>3. Places'
      BY <1>1, <1>2, <1>3, <2>2 DEF Places, Unlinked, Path, claims
    <2>4. Owned(p)'
      BY <1>1, <1>3 DEF Owned
    <2>5. Held(p)'
      BY <1>2, <1>3, <2>2 DEF Held, FreePoints, Looks, ClaimPoints, Path, claims
    <2>6. \A m \in Nonce : m # n /\ Unlinked(m) => Unlinked(m)'
      BY <1>2, <1>3, <2>2 DEF Unlinked, claims
    <2>7. Undisturbed(p)
      BY <1>2, <1>3, <2>6 DEF Undisturbed
    <2>8. QED  BY <2>1, <2>3, <2>4, <2>5, <2>7, StepKeeps
  <1>4. CASE /\ ~Absent(x) /\ backing' = backing \ {n}
             /\ wn' = [wn EXCEPT ![p] = NoNonce] /\ rn' = [rn EXCEPT ![p] = NoNonce]
             /\ pc' = [pc EXCEPT ![p] = "lookReaper"]
             /\ UNCHANGED <<at, aside, dead, claims, calls, faults>>
    <2> HIDE DEF x, n
    <2>1. TypeOK' /\ \A r \in Proc \ {p} : Locals(r)
      BY <1>1, <1>2, <1>4 DEF TypeOK, PCs, Looks, claims, Locals
    <2>2. pc'[p] = "lookReaper" /\ wn'[p] = NoNonce /\ rn'[p] = NoNonce
      BY <1>1, <1>4 DEF TypeOK
    <2>3. Places'
      BY <1>1, <1>2, <1>4 DEF Places, Unlinked, Path, claims
    <2>4. Owned(p)'
      BY <2>2 DEF Owned
    <2>5. Held(p)'
      BY <1>2, <1>4, <2>2 DEF Held, FreePoints, Looks, ClaimPoints, claims
    <2>6. \A m \in Nonce : Unlinked(m) => Unlinked(m)'
      BY <1>4 DEF Unlinked, claims
    <2>7. Undisturbed(p)
      BY <1>2, <1>4, <2>6 DEF Undisturbed
    <2>8. QED  BY <2>1, <2>3, <2>4, <2>5, <2>7, StepKeeps
  <1>5. QED
    <2>1. rn[p] = NoNonce => rn = [rn EXCEPT ![p] = NoNonce]
      BY <1>1 DEF TypeOK
    <2>2. wn[p] = NoNonce => wn = [wn EXCEPT ![p] = NoNonce]
      BY <1>1 DEF TypeOK
    <2>3. CASE LinkReaper(p)
      BY <1>2, <1>3, <1>4, <2>2, <2>3 DEF LinkReaper, Goto
    <2>4. CASE LinkWriter(p)
      BY <1>2, <1>3, <1>4, <2>1, <2>4 DEF LinkWriter, Goto
    <2>5. QED  BY <2>3, <2>4

\* Whatever is moved is remembered by who moved it, and by nobody else.
LEMMA ClaimKeeps ==
    ASSUME IInv, NEW p \in Proc, Claim(p)
    PROVE  IInv'
  <1>1. TypeOK /\ Owned(p) /\ Held(p) /\ Places
    BY DEF IInv
  <1> DEFINE x == path[p]
             n == at[x]
  <1>2. /\ pc[p] = "claim" /\ x \in Path /\ n # NoNonce /\ n \in Nonce
        /\ n \in backing \ aside
    BY <1>1 DEF Claim, Absent, Places, TypeOK
  <1>3. /\ got' = [got EXCEPT ![p] = n] /\ aside' = aside \cup {n}
        /\ at' = [at EXCEPT ![x] = NoNonce] /\ pc' = [pc EXCEPT ![p] = "check"]
        /\ UNCHANGED <<backing, dead, owned, path, seen, failing, calls, faults>>
    BY DEF Claim, Goto
  <1>4. \A q \in Proc : got[q] # n
    BY <1>1, <1>2 DEF Places
  <1>5. n = at[x]
    OBVIOUS
  <1> HIDE DEF x, n
  <1>6. TypeOK' /\ \A r \in Proc \ {p} : Locals(r)
    BY <1>1, <1>2, <1>3 DEF TypeOK, PCs, owned, Locals
  <1>7. /\ at'[x] = NoNonce /\ \A y \in Path : y # x => at'[y] = at[y]
        /\ pc'[p] = "check" /\ got'[p] = n /\ \A q \in Proc \ {p} : got'[q] = got[q]
    BY <1>1, <1>2, <1>3 DEF TypeOK
  <1>8. \A y \in Path : at'[y] # n
    BY <1>1, <1>2, <1>5, <1>7 DEF Places, Path
  <1>9. \A y \in Path : at'[y] # NoNonce => at'[y] = at[y]
    BY <1>7
  <1>10. Places'
    <2>1. aside' \subseteq backing' /\ dead' \subseteq backing'
      BY <1>1, <1>2, <1>3 DEF Places
    <2>2. \A y \in Path : at'[y] # NoNonce => at'[y] \in backing' \ aside'
      BY <1>1, <1>3, <1>8, <1>9 DEF Places
    <2>3. at'["reaper"] # NoNonce => at'["reaper"] # at'["writer"]
      BY <1>1, <1>9 DEF Places, Path
    <2>4. \A q \in Proc : got'[q] # NoNonce => \A y \in Path : at'[y] # got'[q]
      BY <1>1, <1>7, <1>8, <1>9 DEF Places
    <2>5. \A q, r \in Proc : got'[q] # NoNonce /\ got'[r] = got'[q] => r = q
      BY <1>1, <1>4, <1>7 DEF Places
    <2>6. QED  BY <2>1, <2>2, <2>3, <2>4, <2>5 DEF Places
  <1>11. Owned(p)'
    BY <1>1, <1>3 DEF Owned, owned
  <1>12. Held(p)'
    BY <1>1, <1>2, <1>3, <1>7 DEF Held, OwnClaim, StaleClaim, FreePoints, Looks, ClaimPoints,
                                  owned
  <1>13. Undisturbed(p)
    <2>1. ASSUME NEW m \in Nonce, Unlinked(m)
          PROVE  /\ m \notin aside' /\ \A y \in Path : at'[y] # m
                 /\ \A q \in Proc : got'[q] # m
      BY <1>2, <1>3, <1>5, <1>7, <1>9, <2>1, NotNone DEF Unlinked
    <2>2. \A m \in Nonce : Unlinked(m) => Unlinked(m)'
      BY <2>1 DEF Unlinked
    <2>3. QED  BY <1>3, <1>4, <2>2 DEF Undisturbed
  <1>14. QED  BY <1>6, <1>10, <1>11, <1>12, <1>13, StepKeeps

\* What is not what it was taken for, or has gone, is not deleted.
LEMMA CheckKeeps ==
    ASSUME IInv, NEW p \in Proc, Check(p)
    PROVE  IInv'
  <1>1. TypeOK /\ Owned(p) /\ Held(p) /\ Places
    BY DEF IInv
  <1>2. PICK l \in {"drop", "restore"} :
            /\ pc[p] = "check" /\ pc' = [pc EXCEPT ![p] = l]
            /\ \/ l = "drop" /\ got[p] = seen[p] /\ aside' = aside \ {got[p]}
               \/ l = "restore" /\ aside' = aside
            /\ UNCHANGED <<at, backing, dead, owned, claims, calls, faults>>
    BY DEF Check, Goto
  <1>3. TypeOK' /\ pc'[p] = l /\ \A r \in Proc \ {p} : Locals(r)
    BY <1>1, <1>2 DEF TypeOK, PCs, owned, claims, Locals
  <1>4. Places'
    BY <1>1, <1>2 DEF Places, claims
  <1>5. Owned(p)'
    BY <1>1, <1>2 DEF Owned, owned
  <1>6. Held(p)'
    BY <1>1, <1>2, <1>3 DEF Held, OwnClaim, StaleClaim, FreePoints, Looks, ClaimPoints,
                            owned, claims
  <1>7. \A n \in Nonce : Unlinked(n) => Unlinked(n)'
    BY <1>2 DEF Unlinked, claims
  <1>8. Undisturbed(p)
    BY <1>2, <1>7 DEF Undisturbed
  <1>9. QED  BY <1>3, <1>4, <1>5, <1>6, <1>8, StepKeeps

\* What is deleted: the own record, or one whose owner is dead.
LEMMA DropOf ==
    ASSUME IInv, NEW p \in Proc, Drop(p)
    PROVE  /\ pc[p] = "drop" /\ got[p] # NoNonce /\ got[p] \notin aside
           /\ \A x \in Path : at[x] # got[p]
           /\ \/ /\ got[p] \in {wn[p], rn[p]} /\ got[p][1] = p
                 /\ Through(p) \in {"idle", "failed", "lookReaper"}
              \/ /\ got[p] \notin {wn[p], rn[p]} /\ got[p] \notin backing \ dead
                 /\ EndsAt(p, Through(p)) /\ Through(p) \in {"letgo", "lookReaper"}
  <1>1. Owned(p) /\ Held(p) /\ Places
    BY DEF IInv
  <1>2. /\ pc[p] = "drop" /\ pc[p] \in ClaimPoints /\ got[p] = seen[p] /\ got[p] # NoNonce
        /\ got[p] \notin aside /\ \A x \in Path : at[x] # got[p]
    BY <1>1 DEF Drop, Held, ClaimPoints, Places
  <1>3. CASE Releasing(p)
    <2>1. got[p] \in {wn[p], rn[p]} /\ got[p][1] = p
      BY <1>1, <1>2, <1>3 DEF Releasing, Owned
    <2>2. Through(p) \in {"idle", "failed", "lookReaper"}
      BY <1>2, <1>3, Ends
    <2>3. QED  BY <1>2, <2>1, <2>2
  <1>4. CASE ~Releasing(p)
    <2>1. got[p] \notin {wn[p], rn[p]}
      BY <1>2, <1>4 DEF Releasing
    <2>2. StaleClaim(p) /\ EndsAt(p, Through(p)) /\ Through(p) \in {"letgo", "lookReaper"}
      BY <1>2, <1>4, Ends DEF EndsAt
    <2>3. QED  BY <1>2, <2>1, <2>2 DEF StaleClaim
  <1>5. QED  BY <1>3, <1>4

LEMMA DropKeeps ==
    ASSUME IInv, NEW p \in Proc, Drop(p)
    PROVE  IInv'
  <1>1. TypeOK /\ Owned(p) /\ Held(p) /\ Places
    BY DEF IInv
  <1> DEFINE n == got[p]
             l == Through(p)
  <1>2. /\ backing' = backing \ {n} /\ dead' = dead \ {n}
        /\ wn' = [wn EXCEPT ![p] = IF @ = n THEN NoNonce ELSE @]
        /\ rn' = [rn EXCEPT ![p] = IF @ = n THEN NoNonce ELSE @]
        /\ EndClaim(p, l, FALSE)
        /\ UNCHANGED <<at, aside, calls, faults>>
    BY DEF Drop
  <1>3. /\ n # NoNonce /\ n \notin aside /\ \A x \in Path : at[x] # n
        /\ \/ n \in {wn[p], rn[p]} /\ n[1] = p /\ l \in {"idle", "failed", "lookReaper"}
           \/ /\ n \notin {wn[p], rn[p]} /\ n \notin backing \ dead
              /\ EndsAt(p, l) /\ l \in {"letgo", "lookReaper"}
    BY DropOf
  <1> HIDE DEF n, l
  <1>4. l \in PCs
    BY <1>3 DEF PCs, Looks
  <1>5. /\ pc' \in [Proc -> PCs] /\ path' \in [Proc -> Path]
        /\ seen' \in [Proc -> Nonce \cup {NoNonce}] /\ got' \in [Proc -> Nonce \cup {NoNonce}]
        /\ failing' \in [Proc -> BOOLEAN]
        /\ pc'[p] = l /\ seen'[p] = NoNonce /\ got'[p] = NoNonce
        /\ \A r \in Proc \ {p} : /\ pc'[r] = pc[r] /\ path'[r] = path[r]
                                 /\ seen'[r] = seen[r] /\ got'[r] = got[r]
    BY <1>1, <1>2, <1>4, EndType
  <1>6. /\ wn'[p] = IF wn[p] = n THEN NoNonce ELSE wn[p]
        /\ rn'[p] = IF rn[p] = n THEN NoNonce ELSE rn[p]
        /\ \A r \in Proc \ {p} : wn'[r] = wn[r] /\ rn'[r] = rn[r]
        /\ wn' \in [Proc -> Nonce \cup {NoNonce}] /\ rn' \in [Proc -> Nonce \cup {NoNonce}]
    BY <1>1, <1>2 DEF TypeOK
  <1>7. TypeOK' /\ \A r \in Proc \ {p} : Locals(r)
    BY <1>1, <1>2, <1>5, <1>6 DEF TypeOK, Locals
  <1>8. Places'
    <2>1. \A q \in Proc : got'[q] \in {got[q], NoNonce}
      BY <1>5
    <2>2. QED  BY <1>1, <1>2, <1>3, <2>1 DEF Places
  <1>9. Owned(p)'
    BY <1>1, <1>2, <1>6 DEF Owned
  <1>10. Held(p)'
    <2>1. CASE n \in {wn[p], rn[p]} /\ l \in {"idle", "failed", "lookReaper"}
      <3>1. wn'[p] = NoNonce /\ rn'[p] = NoNonce
        BY <1>1, <1>3, <1>6, <2>1 DEF Owned
      <3>2. QED  BY <1>5, <2>1, <3>1 DEF Held, FreePoints, Looks, ClaimPoints
    <2>2. CASE n \notin {wn[p], rn[p]} /\ EndsAt(p, l) /\ l \in {"letgo", "lookReaper"}
      BY <1>5, <1>6, <2>2 DEF EndsAt, Held, FreePoints, Looks, ClaimPoints
    <2>3. QED  BY <1>3, <2>1, <2>2
  <1>11. Undisturbed(p)
    <2>1. \A q \in Proc : got'[q] \in {got[q], NoNonce}
      BY <1>5
    <2>2. \A m \in Nonce : Unlinked(m) => Unlinked(m)'
      BY <1>2, <2>1, NotNone DEF Unlinked
    <2>3. QED  BY <1>2, <1>3, <2>2 DEF Undisturbed
  <1>12. QED  BY <1>7, <1>8, <1>9, <1>10, <1>11, StepKeeps

-----------------------------------------------------------------------------
(* The end of a command. *)

\* Who is gone leaves his locks behind, the writer's or the mutex.
LEMMA EndKeeps ==
    ASSUME IInv, NEW p \in Proc, GiveUp(p) \/ Exit(p) \/ Crash(p)
    PROVE  /\ IInv' /\ at' = at /\ aside' = aside /\ backing' = backing
           /\ dead' = dead \cup ({wn[p], rn[p]} \ {NoNonce})
           /\ pc'[p] = "idle" /\ rn'[p] = NoNonce /\ got'[p] = NoNonce
           /\ \A r \in Proc \ {p} : Locals(r)
  <1>1. TypeOK /\ Owned(p) /\ Held(p) /\ Places
    BY DEF IInv
  <1>2. Leave(p) /\ UNCHANGED <<files, calls>> /\ faults' \in Nat
    <2>1. CASE GiveUp(p) \/ Exit(p)
      BY <1>1, <2>1 DEF GiveUp, Exit, TypeOK
    <2>2. CASE Crash(p)
      BY <1>1, <2>2, LockAssumption DEF Crash, Fault, TypeOK
    <2>3. QED  BY <2>1, <2>2
  <1>3. dead' = dead \cup ({wn[p], rn[p]} \ {NoNonce}) /\ dead' \subseteq backing
    <2>1. NoNonce \notin backing
      BY <1>1, LockAssumption DEF TypeOK, Nonce
    <2>2. \A n \in {wn[p], rn[p]} \ {NoNonce} : n \in backing
      BY <1>1 DEF Owned
    <2>3. QED  BY <1>1, <1>2, <2>1, <2>2 DEF Leave, Places
  <1>4. /\ pc'[p] = "idle" /\ wn'[p] = NoNonce /\ rn'[p] = NoNonce
        /\ seen'[p] = NoNonce /\ got'[p] = NoNonce
        /\ \A r \in Proc \ {p} : Locals(r)
    BY <1>1, <1>2 DEF Leave, Goto, TypeOK, Locals
  <1>5. TypeOK'
    BY <1>1, <1>2, <1>3 DEF Leave, Goto, TypeOK, PCs, Path, files
  <1>6. \A q \in Proc : got'[q] \in {got[q], NoNonce}
    BY <1>4 DEF Locals
  <1>7. Places'
    BY <1>1, <1>2, <1>3, <1>6 DEF Places, files
  <1>8. Owned(p)' /\ Held(p)'
    BY <1>4 DEF Owned, Held, FreePoints, Looks, ClaimPoints
  <1>9. Undisturbed(p)
    <2>1. \A n \in Nonce : Unlinked(n) => Unlinked(n)'
      BY <1>2, <1>6, NotNone DEF Unlinked, files
    <2>2. \A n \in {wn[p], rn[p]} \ {NoNonce} : n[1] = p
      BY <1>1 DEF Owned
    <2>3. QED  BY <1>2, <1>3, <2>1, <2>2 DEF Undisturbed, files
  <1>10. IInv'
    BY <1>4, <1>5, <1>7, <1>8, <1>9, StepKeeps
  <1>11. QED  BY <1>2, <1>3, <1>4, <1>10 DEF files

-----------------------------------------------------------------------------
(* Theorems, whatever happens. *)

\* At first nobody has anything.
LEMMA InitIInv == Init => IInv
  <1> SUFFICES ASSUME Init PROVE IInv
    OBVIOUS
  <1>1. TypeOK
    BY DEF Init, TypeOK, PCs, Path
  <1>2. Places
    BY DEF Init, Places, Path
  <1>3. \A p \in Proc : Owned(p) /\ Held(p)
    BY DEF Init, Owned, Held, FreePoints, Looks, ClaimPoints
  <1>4. QED  BY <1>1, <1>2, <1>3 DEF IInv

\* Every step keeps the invariant.
LEMMA NextIInv ==
    ASSUME IInv, [Next]_vars
    PROVE  IInv'
  <1>1. ASSUME NEW p \in Proc, Acquiring(p) PROVE IInv'
    BY <1>1, LoopKeeps, SweepKeeps, ObserveKeeps, MintKeeps, LinkKeeps, OwnKeeps DEF Acquiring
  <1>2. ASSUME NEW p \in Proc, Claiming(p) PROVE IInv'
    BY <1>2, LetGoKeeps, ClaimKeeps, MissKeeps, PutBackKeeps, CheckKeeps, DropKeeps, EndKeeps
       DEF Claiming
  <1>3. ASSUME NEW p \in Proc, Start(p) PROVE IInv'
    BY <1>3, LoopKeeps
  <1>4. ASSUME NEW p \in Proc, GiveUp(p) \/ Crash(p) PROVE IInv'
    BY <1>4, EndKeeps
  <1>5. CASE UNCHANGED vars
    BY <1>5 DEF vars, IInv, TypeOK, Places, Owned, Held, OwnClaim, StaleClaim, Unlinked,
                files, owned, claims
  <1>6. QED  BY <1>1, <1>2, <1>3, <1>4, <1>5 DEF Next

\* What a process knows where it is, and where its record and its symlink are, stays
\* true whatever the others do, reapers that die and claims that go wrong included.
THEOREM Invariance == Spec => []IInv
  <1>1. IInv /\ [Next]_vars => IInv'
    BY NextIInv
  <1>2. QED  BY <1>1, InitIInv, PTL DEF Spec

\* The state is what it is declared to be.
THEOREM TypeCorrect == Spec => []TypeOK
  <1>1. IInv => TypeOK
    BY DEF IInv
  <1>2. QED  BY <1>1, Invariance, PTL

\* The sealed record of a live process is deleted by that process, whatever a claim of
\* somebody else has moved.
THEOREM LiveRecordStays == Spec => LiveRecordKept
  <1>1. ASSUME IInv, [Next]_vars, NEW n \in backing \ dead, n \notin backing'
        PROVE  pc'[n[1]] # pc[n[1]]
    <2>1. PICK p \in Proc : Start(p) \/ Acquiring(p) \/ GiveUp(p) \/ Claiming(p) \/ Crash(p)
      BY <1>1 DEF Next, vars, files
    <2>2. TypeOK /\ Owned(p) /\ Held(p)
      BY <1>1 DEF IInv
    <2>3. CASE Sweep(p)
      BY <1>1, <2>3, SweepEffect
    <2>4. CASE LinkReaper(p) \/ LinkWriter(p)
      <3>1. /\ n \in {wn[p], rn[p]} /\ n # NoNonce
            /\ pc[p] \in {"linkReaper", "linkWriter"} /\ pc' = [pc EXCEPT ![p] = "lookReaper"]
        BY <1>1, <2>2, <2>4 DEF LinkReaper, LinkWriter, Goto, Held, TypeOK
      <3>2. n[1] = p
        BY <2>2, <3>1 DEF Owned
      <3>3. QED  BY <2>2, <3>1, <3>2 DEF TypeOK
    <2>5. CASE Drop(p)
      <3>1. n = got[p] /\ pc[p] = "drop"
        BY <1>1, <2>5 DEF Drop
      <3>2. n[1] = p /\ Through(p) \in {"idle", "failed", "lookReaper"}
        BY <1>1, <2>5, <3>1, DropOf
      <3>3. pc' = [pc EXCEPT ![p] = Through(p)]
        BY <2>5 DEF Drop, EndClaim, Goto
      <3>4. QED  BY <2>2, <3>1, <3>2, <3>3 DEF TypeOK
    <2>6. CASE MintReaper(p) \/ MintWriter(p)
      BY <1>1, <2>6 DEF MintReaper, MintWriter, Mint
    <2>7. CASE GiveUp(p) \/ Crash(p) \/ Exit(p)
      BY <1>1, <2>7 DEF GiveUp, Crash, Exit, files
    <2>8. CASE \/ Start(p) \/ Wait(p) \/ ObserveReaper(p) \/ ObserveStaleWriter(p)
               \/ Look(p, "reaper", "lookReaper", "lookWriter")
               \/ Look(p, "writer", "lookWriter", "relookReaper")
               \/ Look(p, "reaper", "relookReaper", "relookWriter")
               \/ Look(p, "writer", "relookWriter", "mintWriter")
      BY <1>1, <2>8 DEF Start, Wait, ObserveReaper, ObserveStaleWriter, Look, files
    <2>9. CASE OwnWriter(p) \/ LostReaper(p) \/ OwnReaper(p) \/ LetGo(p)
      BY <1>1, <2>9 DEF OwnWriter, LostReaper, OwnReaper, LetGo, files
    <2>10. CASE Claim(p) \/ ClaimMissed(p) \/ Check(p) \/ Restore(p) \/ PutBack(p)
      BY <1>1, <2>10 DEF Claim, ClaimMissed, Check, Restore, PutBack, files
    <2>11. QED
      BY <2>1, <2>3, <2>4, <2>5, <2>6, <2>7, <2>8, <2>9, <2>10 DEF Acquiring, Claiming
  <1>2. IInv /\ [Next]_vars => [\A n \in backing \ dead : n \notin backing' => pc'[n[1]] # pc[n[1]]]_vars
    BY <1>1
  <1>3. QED  BY <1>2, Invariance, PTL DEF Spec, LiveRecordKept

-----------------------------------------------------------------------------
(* The writer's lock, as long as no claim is overtaken. *)

\* A process keeps what it knows of the writer's lock when a step of another neither
\* moves its lock, nor what it has moved.
LEMMA StepKept ==
    ASSUME WInv, NEW p \in Proc, \A r \in Proc \ {p} : Locals(r), Kept(p)',
           \A q \in Proc \ {p} : wn[q] # NoNonce /\ at["writer"] = wn[q] => at'["writer"] = wn[q],
           \A q \in Proc \ {p} : rn[q] # NoNonce => at'["writer"] # rn[q],
           \A q \in Proc \ {p} : got[q] # NoNonce =>
               /\ got[q] = wn[q] /\ got[q] \in aside => got[q] \in aside'
               /\ got[q] \notin aside => got[q] \notin aside',
           IInv
    PROVE  WInv'
  <1>1. ASSUME NEW q \in Proc, q # p PROVE Kept(q)'
    <2>1. Locals(q) /\ Kept(q) /\ Held(q)
      BY <1>1 DEF WInv, IInv
    <2>2. pc[q] \in {"ownWriter", "critical"} => wn[q] # NoNonce
      BY <2>1 DEF Held
    <2>3. pc[q] \in ClaimPoints => seen[q] # NoNonce
      BY <2>1 DEF Held
    <2>4. Releases(q) => Releases(q)'
      BY <1>1, <2>1, <2>3 DEF Releases, Locals, ClaimPoints
    <2>5. pc[q] \in ClaimPoints /\ Reaps(q) => Reaps(q)'
      BY <1>1, <2>1, <2>3 DEF Reaps, Locals, ClaimPoints
    <2>6. QED  BY <1>1, <2>1, <2>2, <2>4, <2>5 DEF Kept, Locals
  <1>2. QED  BY <1>1 DEF WInv

\* Who is in no claim and has no writer lock has only his mutex to tell from it.
LEMMA Quiet ==
    ASSUME NEW p \in Proc,
           pc'[p] \notin ClaimPoints \cup {"ownWriter", "critical"},
           pc'[p] = "sweep" => wn'[p] = NoNonce,
           rn'[p] # NoNonce => at'["writer"] # rn'[p]
    PROVE  Kept(p)'
  BY DEF Kept, ClaimPoints

\* A step that moves no symlink has only its own place to account for.
LEMMA StillKept ==
    ASSUME IInv, WInv, NEW p \in Proc, at'["writer"] = at["writer"], aside' = aside,
           \A r \in Proc \ {p} : Locals(r), Kept(p)'
    PROVE  WInv'
  BY StepKept DEF WInv, Kept

\* Looking, waiting, going on, and a publisher that reads its record back.
LEMMA LoopKept ==
    ASSUME IInv, WInv, NEW p \in Proc,
           \/ Start(p) \/ Wait(p) \/ ObserveStaleWriter(p)
           \/ Look(p, "reaper", "lookReaper", "lookWriter")
           \/ Look(p, "writer", "lookWriter", "relookReaper")
           \/ Look(p, "reaper", "relookReaper", "relookWriter")
           \/ Look(p, "writer", "relookWriter", "mintWriter")
           \/ OwnWriter(p) \/ LostReaper(p)
    PROVE  WInv'
  <1>1. TypeOK /\ Held(p) /\ Kept(p)
    BY DEF IInv, WInv
  <1>2. UNCHANGED <<files, dead, owned, claims>>
    BY DEF Start, Wait, ObserveStaleWriter, Look, OwnWriter, LostReaper
  <1>3. PICK l \in {"sweep", "mintReaper", "mintWriter", "failed"} \cup Looks :
            /\ pc' = [pc EXCEPT ![p] = l]
            /\ l = "sweep" => wn[p] = NoNonce \/ at["writer"] = wn[p]
    BY <1>1 DEF Start, Wait, ObserveStaleWriter, Look, OwnWriter, LostReaper, Goto, Looks,
                Held, FreePoints
  <1>4. pc'[p] = l /\ \A r \in Proc \ {p} : Locals(r)
    BY <1>1, <1>2, <1>3 DEF TypeOK, owned, claims, Locals
  <1>5. Kept(p)'
    BY <1>1, <1>2, <1>3, <1>4 DEF Kept, ClaimPoints, Looks, files, owned
  <1>6. QED  BY <1>2, <1>4, <1>5, StillKept DEF files

\* The claims of what was observed begin.
LEMMA BeginKept ==
    ASSUME IInv, WInv, NEW p \in Proc, ObserveReaper(p) \/ OwnReaper(p) \/ LetGo(p)
    PROVE  WInv'
  <1>1. TypeOK /\ Held(p) /\ Kept(p)
    BY DEF IInv, WInv
  <1>2. UNCHANGED <<files, dead, owned, got>> /\ pc[p] \notin ClaimPoints
    BY DEF ObserveReaper, OwnReaper, LetGo, ClaimPoints
  <1>3. \/ \E l \in {"letgo", "failed"} : pc' = [pc EXCEPT ![p] = l] /\ UNCHANGED <<path, seen>>
        \/ /\ pc' = [pc EXCEPT ![p] = "claim"]
           /\ \/ path' = [path EXCEPT ![p] = "reaper"] /\ \E n : seen' = [seen EXCEPT ![p] = n]
              \/ /\ path' = [path EXCEPT ![p] = "writer"] /\ rn[p] # NoNonce
                 /\ \E n : seen' = [seen EXCEPT ![p] = n]
              \/ /\ path' = [path EXCEPT ![p] = "writer"] /\ at["writer"] = wn[p]
                 /\ seen' = [seen EXCEPT ![p] = wn[p]]
    <2>1. CASE ObserveReaper(p)
      BY <2>1 DEF ObserveReaper, Goto
    <2>2. CASE OwnReaper(p)
      BY <1>1, <2>2 DEF OwnReaper, Goto, Held
    <2>3. CASE LetGo(p) /\ pc[p] = "letgo"
      BY <2>3 DEF LetGo, Goto
    <2>4. CASE LetGo(p) /\ pc[p] = "critical"
      BY <2>4 DEF LetGo, Goto
    <2>5. QED  BY <2>1, <2>2, <2>3, <2>4 DEF LetGo
  <1>4. \A r \in Proc \ {p} : Locals(r)
    BY <1>1, <1>2, <1>3 DEF TypeOK, owned, Locals
  <1>5. Kept(p)'
    <2>1. CASE \E l \in {"letgo", "failed"} : pc' = [pc EXCEPT ![p] = l] /\ UNCHANGED <<path, seen>>
      BY <1>1, <1>2, <2>1 DEF TypeOK, Kept, ClaimPoints, files, owned
    <2>2. CASE pc' = [pc EXCEPT ![p] = "claim"] /\ path' = [path EXCEPT ![p] = "reaper"]
      <3>1. pc'[p] = "claim" /\ path'[p] = "reaper"
        BY <1>1, <2>2 DEF TypeOK
      <3>2. QED  BY <1>1, <1>2, <3>1 DEF Kept, files, owned
    <2>3. CASE /\ pc' = [pc EXCEPT ![p] = "claim"] /\ path' = [path EXCEPT ![p] = "writer"]
               /\ rn[p] # NoNonce
      <3>1. pc'[p] = "claim"
        BY <1>1, <2>3 DEF TypeOK
      <3>2. Reaps(p)'
        BY <1>2, <2>3, <3>1 DEF Reaps, owned
      <3>3. QED  BY <1>1, <1>2, <3>1, <3>2 DEF Kept, files, owned
    <2>4. CASE /\ pc' = [pc EXCEPT ![p] = "claim"] /\ path' = [path EXCEPT ![p] = "writer"]
               /\ at["writer"] = wn[p] /\ seen' = [seen EXCEPT ![p] = wn[p]]
      <3>1. pc'[p] = "claim" /\ seen'[p] = wn[p]
        BY <1>1, <2>4 DEF TypeOK
      <3>2. Releases(p)'
        BY <1>2, <2>4, <3>1 DEF Releases, files, owned
      <3>3. QED  BY <1>1, <1>2, <3>1, <3>2 DEF Kept, files, owned
    <2>5. QED  BY <1>3, <2>1, <2>2, <2>3, <2>4
  <1>6. QED  BY <1>2, <1>4, <1>5, StillKept DEF files

\* What ends, ends quietly, and a reaper has nothing to put back.
LEMMA EndsKept ==
    ASSUME IInv, WInv, NEW p \in Proc,
           \/ ClaimMissed(p) \/ Restore(p) \/ PutBack(p) \/ Drop(p)
           \/ GiveUp(p) \/ Exit(p) \/ Crash(p)
    PROVE  WInv' /\ at'["writer"] = at["writer"]
  <1>1. TypeOK /\ Held(p) /\ Kept(p) /\ path[p] \in Path
    BY DEF IInv, WInv, TypeOK
  <1>2. ASSUME NEW l \in {"idle", "failed", "letgo", "lookReaper"}, NEW b \in BOOLEAN,
               EndClaim(p, l, b), UNCHANGED owned, UNCHANGED <<at, aside>>
        PROVE  WInv'
    <2>1. l \in PCs
      BY <1>2 DEF PCs, Looks
    <2>2. pc'[p] = l /\ \A r \in Proc \ {p} : Locals(r)
      BY <1>1, <1>2, <2>1, EndType DEF Locals, owned
    <2>3. Kept(p)'
      BY <1>1, <1>2, <2>2, Quiet DEF Kept, ClaimPoints, owned
    <2>4. QED  BY <1>2, <2>2, <2>3, StillKept
  <1>3. pc[p] \in ClaimPoints => {Through(p), Thrown(p)} \subseteq {"idle", "failed", "letgo", "lookReaper"}
    BY Ends
  <1>4. CASE ClaimMissed(p)
    <2>1. pc[p] \in ClaimPoints
      BY <1>4 DEF ClaimMissed, ClaimPoints
    <2> DEFINE l == IF Releasing(p) THEN "failed" ELSE Through(p)
    <2>2. l \in {"idle", "failed", "letgo", "lookReaper"} /\ EndClaim(p, l, FALSE)
      BY <1>3, <1>4, <2>1 DEF ClaimMissed
    <2> HIDE DEF l
    <2>3. QED  BY <1>2, <1>4, <2>2 DEF ClaimMissed, files
  <1>5. CASE Restore(p)
    <2>1. pc[p] = "restore" /\ pc[p] \in ClaimPoints /\ UNCHANGED <<at, aside, owned>>
      BY <1>5 DEF Restore, ClaimPoints, files
    <2>2. CASE EndClaim(p, Thrown(p), TRUE)
      BY <1>2, <1>3, <2>1, <2>2
    <2>3. CASE Goto(p, "putBack") /\ UNCHANGED claims
      <3>1. pc'[p] = "putBack" /\ \A r \in Proc \ {p} : Locals(r)
        BY <1>1, <2>1, <2>3 DEF Goto, TypeOK, owned, claims, Locals
      <3>2. path[p] = "writer" => Reaps(p)
        BY <1>1, <2>1 DEF Kept, Releases
      <3>3. path[p] = "writer" => Reaps(p)'
        BY <2>1, <2>3, <3>1, <3>2 DEF Reaps, owned, claims
      <3>4. Kept(p)'
        BY <1>1, <2>1, <2>3, <3>1, <3>3 DEF Kept, owned, claims
      <3>5. QED  BY <2>1, <3>1, <3>4, StillKept
    <2>4. QED  BY <1>5, <2>1, <2>2, <2>3 DEF Restore
  <1>6. CASE PutBack(p)
    <2>1. pc[p] = "putBack" /\ pc[p] \in ClaimPoints /\ EndClaim(p, Thrown(p), TRUE)
          /\ UNCHANGED owned
      BY <1>6 DEF PutBack, ClaimPoints
    <2>2. CASE path[p] = "writer"
      <3>1. got[p] \notin aside
        BY <1>1, <2>1, <2>2 DEF Kept, Releases, Reaps
      <3>2. UNCHANGED <<at, aside>>
        BY <1>6, <3>1 DEF PutBack
      <3>3. QED  BY <1>2, <1>3, <2>1, <3>2
    <2>3. CASE path[p] = "reaper"
      <3>1. at'["writer"] = at["writer"]
        BY <1>1, <1>6, <2>3 DEF PutBack, TypeOK, Path
      <3>2. aside' = aside \ {got[p]} \/ aside' = aside
        BY <1>6 DEF PutBack
      <3>3. Thrown(p) \in {"idle", "failed", "letgo", "lookReaper"} /\ Thrown(p) \in PCs
        BY <1>3, <2>1 DEF PCs, Looks
      <3>4. pc'[p] = Thrown(p) /\ \A r \in Proc \ {p} : Locals(r)
        BY <1>1, <2>1, <3>3, EndType DEF Locals, owned
      <3>5. Kept(p)'
        BY <1>1, <2>1, <3>1, <3>3, <3>4, Quiet DEF Kept, ClaimPoints, owned
      <3>6. \A q \in Proc \ {p} : got[q] # NoNonce => got[q] # got[p]
        BY DEF IInv, Places
      <3>7. QED  BY <3>1, <3>2, <3>4, <3>5, <3>6, StepKept DEF WInv, Kept
    <2>4. QED  BY <1>1, <2>2, <2>3 DEF Path
  <1>7. CASE Drop(p)
    <2>1. pc[p] \in ClaimPoints /\ UNCHANGED <<at, aside>> /\ EndClaim(p, Through(p), FALSE)
      BY <1>7 DEF Drop, ClaimPoints
    <2>2. Through(p) \in {"idle", "failed", "letgo", "lookReaper"} /\ Through(p) \in PCs
      BY <1>3, <2>1 DEF PCs, Looks
    <2>3. rn'[p] \in {rn[p], NoNonce} /\ \A r \in Proc \ {p} : wn'[r] = wn[r] /\ rn'[r] = rn[r]
      BY <1>1, <1>7 DEF Drop, TypeOK
    <2>4. pc'[p] = Through(p) /\ \A r \in Proc \ {p} : Locals(r)
      BY <1>1, <2>1, <2>2, <2>3, EndType DEF Locals
    <2>5. Kept(p)'
      BY <1>1, <2>1, <2>2, <2>3, <2>4, Quiet DEF Kept, ClaimPoints
    <2>6. QED  BY <2>1, <2>4, <2>5, StillKept
  <1>8. CASE GiveUp(p) \/ Exit(p) \/ Crash(p)
    <2>1. Kept(p)'
      BY <1>8, EndKeeps, Quiet DEF ClaimPoints
    <2>2. QED  BY <1>8, <2>1, EndKeeps, StillKept
  <1>9. QED
    <2>1. ASSUME ClaimMissed(p) \/ Restore(p) \/ Drop(p) PROVE at' = at
      BY <2>1 DEF ClaimMissed, Restore, Drop, files
    <2>2. PutBack(p) => at'["writer"] = at["writer"]
      <3>1. ASSUME PutBack(p), path[p] = "writer" PROVE at' = at
        BY <1>1, <3>1 DEF PutBack, Kept, Releases, Reaps, ClaimPoints
      <3>2. ASSUME PutBack(p), path[p] = "reaper" PROVE at'["writer"] = at["writer"]
        BY <1>1, <3>2 DEF PutBack, TypeOK, Path
      <3>3. QED  BY <1>1, <3>1, <3>2 DEF Path
    <2>3. GiveUp(p) \/ Exit(p) \/ Crash(p) => at' = at
      BY EndKeeps
    <2>4. QED  BY <1>4, <1>5, <1>6, <1>7, <1>8, <2>1, <2>2, <2>3

\* Sweeping, a new record, a name that is taken.
LEMMA PublishKept ==
    ASSUME IInv, WInv, NEW p \in Proc,
           Sweep(p) \/ MintReaper(p) \/ MintWriter(p) \/ LinkReaper(p) \/ LinkWriter(p)
    PROVE  WInv'
  <1>1. TypeOK /\ Owned(p) /\ Held(p) /\ Kept(p)
    BY DEF IInv, WInv
  <1>2. CASE Sweep(p)
    <2>1. PICK D \in SUBSET dead : aside' = aside \ dead /\ at' = at
      BY <1>2, SweepEffect DEF Sweep
    <2>2. UNCHANGED <<owned, claims>> /\ \A r \in Proc \ {p} : Locals(r)
      BY <1>1, <1>2 DEF Sweep, Goto, TypeOK, owned, claims, Locals
    <2>3. pc[p] = "sweep" /\ pc'[p] = IF wn[p] = NoNonce THEN "lookReaper" ELSE "critical"
      BY <1>1, <1>2 DEF Sweep, Goto, TypeOK
    <2>4. Kept(p)'
      BY <1>1, <2>1, <2>2, <2>3 DEF Kept, ClaimPoints, owned
    <2>5. \A q \in Proc : wn[q] # NoNonce => wn[q] \notin dead
      BY DEF IInv, Owned
    <2>6. QED  BY <2>1, <2>2, <2>4, <2>5, StepKept DEF WInv, Kept
  <1>3. CASE MintReaper(p) \/ MintWriter(p)
    <2>1. /\ UNCHANGED <<at, aside, claims>>
          /\ \E n \in Nonce : /\ n \notin Named
                              /\ \/ rn' = [rn EXCEPT ![p] = n] /\ wn' = wn
                                 \/ wn' = [wn EXCEPT ![p] = n] /\ rn' = rn
          /\ \E l \in {"linkReaper", "linkWriter"} : pc' = [pc EXCEPT ![p] = l]
      BY <1>3 DEF MintReaper, MintWriter, Mint, Draw, Goto
    <2>2. \A r \in Proc \ {p} : Locals(r)
      BY <1>1, <2>1 DEF TypeOK, claims, Locals
    <2>3. /\ pc'[p] \in {"linkReaper", "linkWriter"}
          /\ rn'[p] = rn[p] \/ rn'[p] \notin Named
      BY <1>1, <2>1 DEF TypeOK
    <2>4. rn'[p] # NoNonce => at'["writer"] # rn'[p]
      BY <1>1, <2>1, <2>3 DEF Kept, Named, Path
    <2>5. Kept(p)'
      BY <2>3, <2>4, Quiet DEF ClaimPoints
    <2>6. QED  BY <2>1, <2>2, <2>5, StillKept
  <1>4. CASE LinkReaper(p)
    <2>1. at'["writer"] = at["writer"] /\ UNCHANGED <<aside, wn, claims>>
      BY <1>1, <1>4 DEF LinkReaper, TypeOK, Path
    <2>2. /\ pc'[p] \in {"ownReaper", "lookReaper"} /\ rn'[p] \in {rn[p], NoNonce}
          /\ \A r \in Proc \ {p} : Locals(r)
      BY <1>1, <1>4 DEF LinkReaper, Goto, TypeOK, claims, Locals
    <2>3. Kept(p)'
      BY <1>1, <2>1, <2>2, Quiet DEF Kept, ClaimPoints, Looks
    <2>4. QED  BY <2>1, <2>2, <2>3, StillKept
  <1>5. CASE LinkWriter(p)
    <2>1. UNCHANGED <<aside, rn, claims>> /\ wn[p] # NoNonce /\ rn[p] = NoNonce
      BY <1>1, <1>5 DEF LinkWriter, Held, Owned
    <2>2. \A r \in Proc \ {p} : Locals(r)
      BY <1>1, <1>5 DEF LinkWriter, Goto, TypeOK, claims, Locals
    <2>3. CASE /\ Absent("writer") /\ at' = [at EXCEPT !["writer"] = wn[p]]
               /\ Goto(p, "ownWriter") /\ wn' = wn
      <3>1. at'["writer"] = wn[p] /\ pc'[p] = "ownWriter"
        BY <1>1, <2>3 DEF Goto, TypeOK, Path
      <3>2. Kept(p)'
        BY <2>1, <2>3, <3>1 DEF Kept, ClaimPoints
      <3>3. \A q \in Proc \ {p} : rn[q] # wn[p]
        BY <2>1 DEF IInv, Owned
      <3>4. QED  BY <2>1, <2>2, <2>3, <3>1, <3>2, <3>3, StepKept DEF Absent
    <2>4. CASE at' = at /\ Goto(p, "lookReaper")
      <3>1. pc'[p] = "lookReaper"
        BY <1>1, <2>4 DEF Goto, TypeOK
      <3>2. Kept(p)'
        BY <2>1, <3>1, Quiet DEF ClaimPoints
      <3>3. QED  BY <2>1, <2>2, <2>4, <3>2, StillKept
    <2>5. QED  BY <1>5, <2>3, <2>4 DEF LinkWriter
  <1>6. QED  BY <1>2, <1>3, <1>4, <1>5

\* The writer's symlink is moved by its owner, or after his death.
LEMMA MovesOf ==
    ASSUME IInv, WInv, NeverOvertaken, NEW p \in Proc, Claim(p), path[p] = "writer"
    PROVE  /\ at["writer"] # NoNonce
           /\ \/ Releases(p) /\ at["writer"] = wn[p]
              \/ Reaps(p) /\ at["writer"] = seen[p] /\ at["writer"] \notin backing \ dead
  <1>1. TypeOK /\ Owned(p) /\ Held(p) /\ Kept(p)
    BY DEF IInv, WInv
  <1>2. pc[p] = "claim" /\ pc[p] \in ClaimPoints /\ at["writer"] # NoNonce
    BY DEF Claim, Absent, ClaimPoints
  <1>3. CASE Releases(p)
    BY <1>2, <1>3 DEF Releases
  <1>4. CASE Reaps(p)
    <2>1. seen[p] # NoNonce /\ rn[p] # NoNonce /\ wn[p] = NoNonce
      BY <1>1, <1>2, <1>4 DEF Held, Reaps, Owned
    <2>2. ~OwnClaim(p)
      BY <2>1 DEF OwnClaim
    <2>3. seen[p] \notin backing \ dead /\ Reaping(p)
      BY <1>2, <2>2, Ends DEF StaleClaim
    <2>4. at["writer"] = seen[p]
      BY <1>2, <2>3 DEF NeverOvertaken
    <2>5. QED  BY <1>2, <1>4, <2>3, <2>4
  <1>5. QED  BY <1>1, <1>2, <1>3, <1>4 DEF Kept

LEMMA ClaimKept ==
    ASSUME IInv, WInv, NeverOvertaken, NEW p \in Proc, Claim(p)
    PROVE  WInv'
  <1>1. TypeOK /\ Owned(p) /\ Held(p) /\ Kept(p) /\ path[p] \in Path
    BY DEF IInv, WInv, TypeOK
  <1>2. /\ pc[p] = "claim" /\ pc' = [pc EXCEPT ![p] = "check"]
        /\ got' = [got EXCEPT ![p] = at[path[p]]] /\ aside' = aside \cup {at[path[p]]}
        /\ at' = [at EXCEPT ![path[p]] = NoNonce] /\ UNCHANGED <<owned, path, seen>>
        /\ at[path[p]] # NoNonce
    BY DEF Claim, Goto, Absent
  <1>3. pc'[p] = "check" /\ got'[p] = at[path[p]] /\ \A r \in Proc \ {p} : Locals(r)
    BY <1>1, <1>2 DEF TypeOK, owned, Locals
  <1>4. \A q \in Proc : got[q] # NoNonce => got[q] # at[path[p]]
    BY <1>1 DEF IInv, Places
  <1>5. CASE path[p] = "reaper"
    <2>1. at'["writer"] = at["writer"]
      BY <1>1, <1>2, <1>5 DEF TypeOK, Path
    <2>2. Kept(p)'
      BY <1>1, <1>2, <1>3, <1>5, <2>1 DEF Kept, owned
    <2>3. QED  BY <1>2, <1>3, <1>4, <2>1, <2>2, StepKept DEF WInv, Kept
  <1>6. CASE path[p] = "writer"
    <2>1. at'["writer"] = NoNonce
      BY <1>1, <1>2, <1>6 DEF TypeOK, Path
    <2>2. Releases(p)' \/ Reaps(p)'
      <3>1. CASE Releases(p) /\ at["writer"] = wn[p]
        BY <1>2, <1>3, <1>6, <3>1 DEF Releases, owned
      <3>2. CASE Reaps(p) /\ at["writer"] = seen[p]
        BY <1>2, <1>3, <1>6, <3>2 DEF Reaps, owned
      <3>3. QED  BY <1>6, <3>1, <3>2, MovesOf
    <2>3. Kept(p)'
      BY <1>3, <2>1, <2>2 DEF Kept
    <2>4. ASSUME NEW q \in Proc \ {p}, wn[q] # NoNonce PROVE at["writer"] # wn[q]
      <3>1. wn[q] \in backing \ dead /\ wn[q] # wn[p]
        BY <2>4 DEF IInv, Owned
      <3>2. QED  BY <1>6, <3>1, MovesOf
    <2>5. QED  BY <1>2, <1>3, <1>4, <2>1, <2>3, <2>4, StepKept
  <1>7. QED  BY <1>1, <1>5, <1>6 DEF Path

\* What a reaper has moved is what it was taken for, or gone already.
LEMMA CheckKept ==
    ASSUME IInv, WInv, NEW p \in Proc, Check(p)
    PROVE  WInv'
  <1>1. TypeOK /\ Owned(p) /\ Held(p) /\ Kept(p) /\ Places
    BY DEF IInv, WInv
  <1>2. pc[p] = "check" /\ pc[p] \in ClaimPoints /\ UNCHANGED <<at, owned, claims>>
    BY DEF Check, ClaimPoints
  <1>3. PICK l \in {"drop", "restore"} :
            /\ pc' = [pc EXCEPT ![p] = l]
            /\ \/ l = "drop" /\ aside' = aside \ {got[p]}
               \/ /\ l = "restore" /\ aside' = aside
                  /\ ~(got[p] = seen[p] /\ got[p] \in aside \cap backing)
    BY DEF Check, Goto
  <1>4. pc'[p] = l /\ \A r \in Proc \ {p} : Locals(r)
    BY <1>1, <1>2, <1>3 DEF TypeOK, owned, claims, Locals
  <1>5. ASSUME path[p] = "writer" PROVE Releases(p)' \/ Reaps(p)'
    <2>1. CASE Releases(p)
      <3>1. got[p] = seen[p] /\ got[p] \in aside \cap backing
        BY <1>1, <1>2, <2>1 DEF Releases, Places
      <3>2. l = "drop"
        BY <1>3, <3>1
      <3>3. QED  BY <1>2, <1>4, <2>1, <3>2 DEF Releases, owned, claims
    <2>2. CASE Reaps(p)
      <3>1. got[p] = seen[p]
        BY <1>2, <2>2 DEF Reaps
      <3>2. l = "restore" => got[p] \notin aside'
        BY <1>1, <1>3, <3>1 DEF Places
      <3>3. QED  BY <1>2, <1>4, <2>2, <3>1, <3>2 DEF Reaps, owned, claims
    <2>3. QED  BY <1>1, <1>2, <1>5, <2>1, <2>2 DEF Kept
  <1>6. Kept(p)'
    BY <1>1, <1>2, <1>4, <1>5 DEF Kept, owned, claims
  <1>7. \A q \in Proc \ {p} : got[q] # NoNonce => got[q] # got[p]
    BY <1>1 DEF Places
  <1>8. QED  BY <1>2, <1>3, <1>4, <1>6, <1>7, StepKept DEF WInv, Kept

LEMMA NextKept ==
    ASSUME IInv, WInv, NeverOvertaken, [Next]_vars
    PROVE  WInv'
  <1>1. ASSUME NEW p \in Proc, Acquiring(p) PROVE WInv'
    BY <1>1, LoopKept, BeginKept, PublishKept DEF Acquiring
  <1>2. ASSUME NEW p \in Proc, Claiming(p) PROVE WInv'
    BY <1>2, BeginKept, ClaimKept, EndsKept, CheckKept DEF Claiming
  <1>3. ASSUME NEW p \in Proc, Start(p) PROVE WInv'
    BY <1>3, LoopKept
  <1>4. ASSUME NEW p \in Proc, GiveUp(p) \/ Crash(p) PROVE WInv'
    BY <1>4, EndsKept
  <1>5. CASE UNCHANGED vars
    BY <1>5 DEF vars, WInv, Kept, Releases, Reaps, files, owned, claims
  <1>6. QED  BY <1>1, <1>2, <1>3, <1>4, <1>5 DEF Next

LEMMA WriterKept == Spec => ([]NeverOvertaken => []WInv)
  <1>1. Init => WInv
    BY DEF Init, WInv, Kept, ClaimPoints
  <1>2. IInv /\ NeverOvertaken /\ WInv /\ [Next]_vars => WInv'
    BY NextKept
  <1>3. QED  BY <1>1, <1>2, Invariance, PTL DEF Spec

\* No two live processes are inside withLock's callback, whoever dies as a writer, as
\* the reaper of one or as the reaper of a reaper, as long as no claim of a dead writer's
\* lock is overtaken.
THEOREM OneWriter == Spec => ([]NeverOvertaken => []MutualExclusion)
  <1>1. IInv /\ WInv => MutualExclusion
    <2>1. ASSUME IInv, WInv, NEW p \in Proc, NEW q \in Proc, pc[p] = "critical", pc[q] = "critical"
          PROVE  p = q
      <3>1. wn[p] = at["writer"] /\ wn[q] = at["writer"] /\ wn[p] # NoNonce
        BY <2>1 DEF IInv, WInv, Held, Kept
      <3>2. QED  BY <2>1, <3>1, Apart
    <2>2. QED  BY <2>1 DEF MutualExclusion
  <1>2. QED  BY <1>1, Invariance, WriterKept, PTL

-----------------------------------------------------------------------------
(* The refinement. *)

Holder == IF Live("writer") THEN at["writer"][1] ELSE NoProc

\* What leaves the writer's name and its owner's life alone is no step of the lock.
LEMMA Stutters ==
    ASSUME at'["writer"] = at["writer"],
           at["writer"] # NoNonce => (at["writer"] \in dead' <=> at["writer"] \in dead)
    PROVE  UNCHANGED Abstract!vars
  BY DEF Abstract!vars, Live, Stale, Absent

\* Taking the writer's name acquires the lock.
LEMMA LinkAcquires ==
    ASSUME IInv, NEW p \in Proc, LinkWriter(p)
    PROVE  [Abstract!Next]_(Abstract!vars)
  <1>1. TypeOK /\ Owned(p) /\ Held(p)
    BY DEF IInv
  <1>2. /\ wn[p] # NoNonce /\ wn[p] \notin dead /\ wn[p][1] = p /\ UNCHANGED dead
    BY <1>1 DEF LinkWriter, Held, Owned
  <1>3. CASE Absent("writer") /\ at' = [at EXCEPT !["writer"] = wn[p]]
    <2>1. at'["writer"] = wn[p]
      BY <1>1, <1>3 DEF TypeOK, Path
    <2>2. Abstract!Acquire(p)
      BY <1>2, <1>3, <2>1 DEF Abstract!Acquire, Live, Stale, Absent
    <2>3. QED  BY <2>2 DEF Abstract!Next
  <1>4. CASE at' = at
    BY <1>2, <1>4, Stutters
  <1>5. QED  BY <1>3, <1>4 DEF LinkWriter

\* Moving the writer's symlink releases the lock of its owner, or reaps that of the
\* dead.
LEMMA ClaimReleases ==
    ASSUME IInv, WInv, NeverOvertaken, NEW p \in Proc, Claim(p)
    PROVE  [Abstract!Next]_(Abstract!vars)
  <1>1. TypeOK /\ Owned(p) /\ Places /\ path[p] \in Path
    BY DEF IInv, TypeOK
  <1>2. at' = [at EXCEPT ![path[p]] = NoNonce] /\ UNCHANGED dead
    BY DEF Claim
  <1>3. CASE path[p] = "reaper"
    <2>1. at'["writer"] = at["writer"]
      BY <1>1, <1>2, <1>3 DEF TypeOK, Path
    <2>2. QED  BY <1>2, <2>1, Stutters
  <1>4. CASE path[p] = "writer"
    <2>1. at'["writer"] = NoNonce
      BY <1>1, <1>2, <1>4 DEF TypeOK, Path
    <2>2. CASE at["writer"] = wn[p] /\ at["writer"] # NoNonce
      <3>1. wn[p] \notin dead /\ wn[p][1] = p
        BY <1>1, <2>2 DEF Owned
      <3>2. Abstract!Release(p)
        BY <1>2, <2>1, <2>2, <3>1 DEF Abstract!Release, Live, Stale, Absent
      <3>3. QED  BY <3>2 DEF Abstract!Next
    <2>3. CASE at["writer"] \notin backing \ dead /\ at["writer"] # NoNonce
      <3>1. at["writer"] \in dead
        BY <1>1, <2>3 DEF Places, Path
      <3>2. Abstract!Reap
        BY <1>2, <2>1, <2>3, <3>1 DEF Abstract!Reap, Live, Stale, Absent
      <3>3. QED  BY <3>2 DEF Abstract!Next
    <2>4. QED  BY <1>4, <2>2, <2>3, MovesOf
  <1>5. QED  BY <1>1, <1>3, <1>4 DEF Path

\* A holder that dies leaves a stale lock.
LEMMA EndDies ==
    ASSUME IInv, WInv, NEW p \in Proc, GiveUp(p) \/ Exit(p) \/ Crash(p)
    PROVE  [Abstract!Next]_(Abstract!vars)
  <1>1. at' = at /\ dead' = dead \cup ({wn[p], rn[p]} \ {NoNonce})
    BY EndKeeps
  <1>2. CASE at["writer"] = wn[p] /\ wn[p] # NoNonce
    <2>1. wn[p] \notin dead /\ wn[p][1] = p
      BY <1>2 DEF IInv, Owned
    <2>2. Abstract!Die(p)
      BY <1>1, <1>2, <2>1 DEF Abstract!Die, Live, Stale, Absent
    <2>3. QED  BY <2>2 DEF Abstract!Next
  <1>3. CASE at["writer"] # wn[p] \/ wn[p] = NoNonce
    <2>1. rn[p] # NoNonce => at["writer"] # rn[p]
      BY DEF WInv, Kept
    <2>2. QED  BY <1>1, <1>3, <2>1, Stutters
  <1>4. QED  BY <1>2, <1>3

\* Nothing else is seen of the lock.
LEMMA RestStutters ==
    ASSUME IInv, WInv, NEW p \in Proc,
           Start(p) \/ Acquiring(p) \/ Claiming(p), ~LinkWriter(p), ~Claim(p), ~Exit(p)
    PROVE  UNCHANGED Abstract!vars
  <1>1. TypeOK
    BY DEF IInv
  <1>2. CASE Sweep(p)
    <2>1. PICK D \in SUBSET dead : dead' = dead \ D /\ \A x \in Path : at[x] \notin D
      BY <1>2, SweepEffect
    <2>2. at' = at
      BY <1>2 DEF Sweep
    <2>3. QED  BY <2>1, <2>2, Stutters DEF Path
  <1>3. CASE MintReaper(p) \/ MintWriter(p)
    <2>1. PICK n \in Nonce : n \notin Named /\ dead' = dead \ {n} /\ at' = at
      BY <1>3 DEF MintReaper, MintWriter, Mint, Draw
    <2>2. at["writer"] # n
      BY <2>1 DEF Named, Path
    <2>3. QED  BY <2>1, <2>2, Stutters
  <1>4. CASE LinkReaper(p)
    <2>1. at'["writer"] = at["writer"] /\ dead' = dead
      BY <1>1, <1>4 DEF LinkReaper, TypeOK, Path
    <2>2. QED  BY <2>1, Stutters
  <1>5. CASE Drop(p)
    <2>1. at' = at /\ dead' = dead \ {got[p]} /\ at["writer"] # got[p]
      BY <1>5, DropOf DEF Drop, Path
    <2>2. QED  BY <2>1, Stutters
  <1>6. CASE PutBack(p)
    BY <1>6, EndsKept, Stutters DEF PutBack
  <1>7. CASE \/ Start(p) \/ Wait(p) \/ ObserveReaper(p) \/ ObserveStaleWriter(p)
             \/ Look(p, "reaper", "lookReaper", "lookWriter")
             \/ Look(p, "writer", "lookWriter", "relookReaper")
             \/ Look(p, "reaper", "relookReaper", "relookWriter")
             \/ Look(p, "writer", "relookWriter", "mintWriter")
    <2>1. at' = at /\ dead' = dead
      BY <1>7 DEF Start, Wait, ObserveReaper, ObserveStaleWriter, Look, files
    <2>2. QED  BY <2>1, Stutters
  <1>8. CASE \/ OwnWriter(p) \/ LostReaper(p) \/ OwnReaper(p) \/ LetGo(p)
             \/ ClaimMissed(p) \/ Check(p) \/ Restore(p)
    <2>1. at' = at /\ dead' = dead
      BY <1>8 DEF OwnWriter, LostReaper, OwnReaper, LetGo, ClaimMissed, Check, Restore, files
    <2>2. QED  BY <2>1, Stutters
  <1>9. QED
    BY <1>2, <1>3, <1>4, <1>5, <1>6, <1>7, <1>8 DEF Acquiring, Claiming

\* The symlinks, renames and quarantines of any number of processes are an atomic lock,
\* as long as no claim of a dead writer's lock is overtaken: a reaper may die, its mutex
\* be recovered, and a live one's be moved and put back over another's meanwhile.
THEOREM Refinement == Spec => ([]NeverOvertaken => ImplementsAtomicLock)
  <1>1. Init => Abstract!Init
    BY DEF Init, Abstract!Init, Live, Stale, Absent, Path
  <1>2. IInv /\ WInv /\ NeverOvertaken /\ [Next]_vars => [Abstract!Next]_(Abstract!vars)
    <2> SUFFICES ASSUME IInv, WInv, NeverOvertaken, [Next]_vars
                 PROVE  [Abstract!Next]_(Abstract!vars)
      OBVIOUS
    <2>1. CASE Next
      <3>1. PICK p \in Proc : Start(p) \/ Acquiring(p) \/ GiveUp(p) \/ Claiming(p) \/ Crash(p)
        BY <2>1 DEF Next
      <3>2. CASE LinkWriter(p)
        BY <3>2, LinkAcquires
      <3>3. CASE Claim(p)
        BY <3>3, ClaimReleases
      <3>4. CASE GiveUp(p) \/ Exit(p) \/ Crash(p)
        BY <3>4, EndDies
      <3>5. CASE ~LinkWriter(p) /\ ~Claim(p) /\ ~(GiveUp(p) \/ Exit(p) \/ Crash(p))
        BY <3>1, <3>5, RestStutters
      <3>6. QED  BY <3>2, <3>3, <3>4, <3>5
    <2>2. CASE UNCHANGED vars
      <3>1. at' = at /\ dead' = dead
        BY <2>2 DEF vars, files
      <3>2. QED  BY <3>1, Stutters
    <2>3. QED  BY <2>1, <2>2
  <1>3. QED  BY <1>1, <1>2, Invariance, WriterKept, PTL DEF Spec, ImplementsAtomicLock, Abstract!Spec

-----------------------------------------------------------------------------
(***************************************************************************)
(* The protocol of the root, which takes this lock and holds it in one     *)
(* step: theorems about RootProtocol, for any processes and faults of its  *)
(* own, whatever versions and rotations there are.                         *)
(***************************************************************************)
CONSTANTS RootProc, None, MaxWrites, RootFaults
VARIABLES receipts, anchored, gen, active, lock, rootPc, job, validSeen, rootFaults

Root == INSTANCE RootProtocol
            WITH Proc <- RootProc, MaxFaults <- RootFaults,
                 pc <- rootPc, seen <- validSeen, faults <- rootFaults

\* ProtocolAssumption and NoneAssumption of RootProtocol.
RootConstants ==
    /\ Version \subseteq Nat \ {0}
    /\ \A r \in Rotation : r.from \in Version /\ r.to \in Version /\ r.from < r.to
    /\ MaxWrites \in Nat /\ RootFaults \in Nat
    /\ None \notin Rotation \cup Root!Jobs \cup Root!Transactions \cup Root!Locks

\* A process from the publication of its lock to its release.
Holding == {"check", "held", "valid", "begun", "installed", "sealed", "done"}

\* Only the holder of the lock is in there, with the command the lock names.
HolderInv(p) ==
    /\ rootPc[p] # "idle" => job[p] \in Root!Jobs
    /\ rootPc[p] \in Holding => Root!Mine(p) /\ lock.job = job[p]

\* The versions a root has been rotated to lie behind it.
Passed == \A r \in Rotation : r \in ToSet(seal.rotations) => r.to <= seal.ver

\* What the open transaction says of the seal and the payload.
OpenInv ==
    active # None =>
        LET j == active.job
        IN  /\ j.kind = "write" =>
                 seal.ver = j.ver /\ source \in {active.src, Append(active.src, j.ver)}
            /\ j.kind # "write" => source = active.src
            /\ j.kind = "adopt" => seal.ver \in {0, j.ver}

\* What the holder of the lock has made sure of.
WorkInv(p) ==
    LET j == job[p]
    IN  /\ rootPc[p] = "held" => Root!CanRead(j)
        /\ rootPc[p] = "valid" =>
             /\ Root!Even => validSeen[p] = source
             /\ j.kind = "write" => seal.ver = j.ver
             /\ j.kind = "rotate" /\ Root!Even => seal.ver = j.rot.from
        /\ rootPc[p] \in {"begun", "installed", "sealed"} => active = Root!Transaction(p)
        /\ rootPc[p] = "installed" =>
             /\ j.kind = "rotate" => Root!PendingRotation(j.rot) \/ Root!SealedRotation(j.rot)
             /\ j.kind = "adopt" => anchored
        /\ rootPc[p] = "sealed" /\ j.kind = "rotate" => Root!SealedRotation(j.rot)

RootIInv ==
    /\ Root!TypeOK
    /\ Root!MachineStates
    /\ Passed
    /\ OpenInv
    /\ \A p \in RootProc : HolderInv(p) /\ WorkInv(p)

\* The last element of a sequence is one of its elements.
LEMMA Appended ==
    ASSUME NEW S, NEW s \in Seq(S), NEW e \in S
    PROVE  /\ Append(s, e) \in Seq(S) /\ Append(s, e) # <<>> /\ Append(s, e) # s
           /\ Last(Append(s, e)) = e
           /\ ToSet(Append(s, e)) = ToSet(s) \cup {e}
           /\ s # <<>> => Last(s) \in ToSet(s) /\ Last(s) \in S
  <1>1. Append(s, e) \in Seq(S) /\ Len(Append(s, e)) = Len(s) + 1 /\ Len(s) \in Nat
    OBVIOUS
  <1>2. Append(s, e)[Len(s) + 1] = e /\ \A i \in 1..Len(s) : Append(s, e)[i] = s[i]
    OBVIOUS
  <1>3. DOMAIN s = 1..Len(s) /\ DOMAIN Append(s, e) = 1..(Len(s) + 1)
    BY <1>1
  <1>4. ToSet(Append(s, e)) = ToSet(s) \cup {e}
    BY <1>1, <1>2, <1>3 DEF ToSet
  <1>5. s # <<>> => Last(s) \in ToSet(s) /\ Last(s) \in S
    <2>1. s # <<>> => Len(s) \in DOMAIN s
      BY <1>3
    <2>2. QED  BY <2>1 DEF ToSet, Last
  <1>6. QED  BY <1>1, <1>2, <1>4, <1>5 DEF Last

\* The types of the root, and those of lock and processes.
RootType ==
    /\ seal \in [ver : Version \cup {0}, src : Seq(Version), rotations : Seq(Rotation)]
    /\ receipts \subseteq Root!Receipts
    /\ anchored \in BOOLEAN /\ gen \in Nat
    /\ active \in Root!Transactions \cup {None}
    /\ source \in Seq(Version)

ProcType ==
    /\ lock \in Root!Locks \cup {None}
    /\ rootPc \in [RootProc -> Root!PCs]
    /\ job \in [RootProc -> Root!Jobs \cup {None}]
    /\ validSeen \in [RootProc -> Seq(Version)]
    /\ rootFaults \in Nat

\* The type invariant speaks of the root and of the processes.
LEMMA Types == Root!TypeOK <=> RootType /\ ProcType
  BY DEF Root!TypeOK, RootType, ProcType

\* A step that leaves the root as it is keeps its type.
LEMMA RootTypeKept == RootType /\ UNCHANGED Root!root => RootType'
  BY DEF RootType, Root!root

\* Nothing is a sequence of anything.
LEMMA Empty == \A S : <<>> \in Seq(S)
  OBVIOUS

\* The invariant holds before anything has run.
LEMMA RootInitIInv == Root!Init => RootIInv
  <1> SUFFICES ASSUME Root!Init PROVE RootIInv  OBVIOUS
  <1>1. Root!TypeOK
    <2>1. RootType
      BY Empty DEF Root!Init, RootType
    <2>2. ProcType
      BY Empty DEF Root!Init, ProcType, Root!PCs
    <2>3. QED  BY <2>1, <2>2, Types
  <1>2. Root!MachineStates /\ Passed /\ OpenInv
    BY DEF Root!Init, Root!MachineStates, Passed, OpenInv, Root!Even, Root!Unsealed, ToSet
  <1>3. \A p \in RootProc : HolderInv(p) /\ WorkInv(p)
    BY DEF Root!Init, HolderInv, WorkInv, Holding
  <1>4. QED  BY <1>1, <1>2, <1>3 DEF RootIInv

\* Two processes never hold the lock.
LEMMA OneHolder ==
    ASSUME NEW p, NEW q, HolderInv(p), HolderInv(q), rootPc[p] \in Holding, rootPc[q] \in Holding
    PROVE  p = q
  BY DEF HolderInv, Root!Mine

\* A process that moves from one step to another, with another command or not,
\* touches nothing of the other processes.
Moves(p) == \A q \in RootProc : q # p => rootPc'[q] = rootPc[q] /\ job'[q] = job[q]
      /\ validSeen'[q] = validSeen[q]

\* The steps that leave the root alone, and those that write to it.
Reads(p) ==
    \/ Root!Reap(p) \/ Root!ReadProtocol(p) \/ Root!TurnedAway(p) \/ Root!Publish(p)
    \/ Root!Check(p)
    \/ Root!DeclineCommand(p) \/ Root!EnterCommand(p) \/ Root!DeclineRotation(p)
    \/ Root!ReuseReceipt(p)
    \/ Root!ValidateRotation(p) \/ Root!ValidateAdoption(p)
    \/ Root!Resume(p) \/ Root!AlreadyAdopted(p) \/ Root!Release(p)
    \/ Root!InvalidRotation(p) \/ Root!InvalidAdoption(p) \/ Root!Crash(p)
    \/ \E j \in Root!Jobs : Root!Start(p, j)

Writes(p) ==
    \/ Root!BeginCommand(p) \/ Root!BeginRotation(p) \/ Root!BeginAdoption(p)
    \/ Root!WritePayload(p)
    \/ Root!InstallReceipt(p) \/ Root!InstallSuccessor(p) \/ Root!InstallArtifacts(p)
    \/ Root!EnsureProtocol(p) \/ Root!Complete(p)

\* Every step reads the root or writes to it.
LEMMA StepCases == Root!Next <=> \E p \in RootProc : Reads(p) \/ Writes(p)
  BY DEF Root!Next, Root!Step, Reads, Writes

\* A reading step changes neither root nor other processes.
LEMMA ReadsFrame ==
    ASSUME Root!TypeOK, NEW p \in RootProc, Reads(p)
    PROVE  UNCHANGED Root!root /\ Moves(p)
  <1> USE DEF Root!TypeOK, Moves, Root!Goto, Root!Leave, Root!root, Root!procs
  <1>1. CASE Root!Reap(p) \/ Root!ReadProtocol(p) \/ Root!TurnedAway(p) \/ Root!Publish(p)
               \/ Root!Check(p) \/ Root!Release(p) \/ Root!Crash(p)
    BY <1>1
       DEF Root!Reap, Root!ReadProtocol, Root!TurnedAway, Root!Publish, Root!Check, Root!Release,
           Root!Crash
  <1>2. CASE Root!DeclineCommand(p) \/ Root!EnterCommand(p) \/ Root!DeclineRotation(p)
               \/ Root!ReuseReceipt(p)
    BY <1>2 DEF Root!DeclineCommand, Root!EnterCommand, Root!DeclineRotation, Root!ReuseReceipt
  <1>3. CASE Root!ValidateRotation(p) \/ Root!ValidateAdoption(p) \/ Root!Resume(p)
               \/ Root!AlreadyAdopted(p)
    BY <1>3
       DEF Root!ValidateRotation, Root!ValidateAdoption, Root!Replay, Root!Resume,
           Root!AlreadyAdopted
  <1>4. CASE Root!InvalidRotation(p) \/ Root!InvalidAdoption(p)
    BY <1>4 DEF Root!InvalidRotation, Root!InvalidAdoption, Root!Throw
  <1>5. CASE \E j \in Root!Jobs : Root!Start(p, j)
    BY <1>5 DEF Root!Start, Root!StartCommand, Root!StartAdoption, Root!StartRotation, Root!Enter
  <1>6. QED  BY <1>1, <1>2, <1>3, <1>4, <1>5 DEF Reads

\* A writing step is a step of the holder, and leaves him the lock.
LEMMA WritesFrame ==
    ASSUME Root!TypeOK, NEW p \in RootProc, Writes(p)
    PROVE  /\ Moves(p) /\ rootPc[p] \in Holding /\ rootPc'[p] \in Holding /\ rootPc'[p] \in Root!PCs
           /\ rootPc' = [rootPc EXCEPT ![p] = rootPc'[p]]
           /\ UNCHANGED <<lock, job, validSeen, rootFaults>>
  BY
     DEF Root!TypeOK, Moves, Root!Goto, Holding, Root!PCs, Writes, Root!BeginCommand,
         Root!BeginRotation, Root!BeginAdoption,
         Root!BeginRootWrite, Root!WritePayload, Root!InstallReceipt, Root!InstallSuccessor,
         Root!InstallArtifacts,
         Root!EnsureProtocol, Root!Complete

\* The versions that commands and rotations speak of.
LEMMA JobTypes ==
    ASSUME RootConstants, NEW j \in Root!Jobs
    PROVE  /\ j.ver \in Version /\ j.kind \in {"write", "adopt", "rotate"}
           /\ j.kind = "rotate" => /\ j.rot \in Rotation /\ j.ver = j.rot.to
                                   /\ j.rot.from \in Version /\ j.rot.from < j.rot.to
           /\ j.kind # "rotate" => j.rot = None
  BY DEF RootConstants, Root!Jobs, Root!Ordinary

\* A version is a positive number.
LEMMA VersionsAreNumbers ==
    ASSUME RootConstants
    PROVE  Version \subseteq Nat /\ 0 \notin Version
  BY DEF RootConstants

\* A rotation leads from one version to a later one.
LEMMA RotationsAscend ==
    ASSUME RootConstants, NEW r \in Rotation
    PROVE  /\ r.from \in Version /\ r.to \in Version /\ r.from < r.to
           /\ r.from \in Nat /\ r.to \in Nat /\ r.from # 0 /\ r.to # 0
  <1>1. r.from \in Version /\ r.to \in Version /\ r.from < r.to
    BY DEF RootConstants
  <1>2. QED  BY <1>1, VersionsAreNumbers

\* A reading step keeps the variables in their types.
LEMMA ReadsType ==
    ASSUME RootIInv, NEW p \in RootProc, Reads(p)
    PROVE  Root!TypeOK'
  <1>a. RootType /\ ProcType /\ HolderInv(p)
    BY Types DEF RootIInv
  <1>b. RootType'
    BY <1>a, ReadsFrame, RootTypeKept, Types
  <1> SUFFICES ProcType'
    BY <1>b DEF Root!TypeOK, RootType, ProcType
  <1> USE <1>a, Empty DEF ProcType, Root!Goto, Root!Leave, Root!root, Root!procs, Root!PCs
  <1>1. CASE Root!Reap(p)
    BY <1>1 DEF Root!Reap
  <1>13. CASE Root!ReadProtocol(p)
    BY <1>13 DEF Root!ReadProtocol
  <1>14. CASE Root!TurnedAway(p)
    BY <1>14 DEF Root!TurnedAway
  <1>2. CASE Root!Publish(p)
    <2>1. job[p] \in Root!Jobs
      BY <1>2 DEF Root!Publish, HolderInv
    <2>2. [by |-> p, job |-> job[p], dead |-> FALSE] \in Root!Locks
      BY <2>1 DEF Root!Locks
    <2>3. CASE lock = None
      BY <1>2, <2>2, <2>3 DEF Root!Publish
    <2>4. CASE lock # None
      BY <1>2, <2>4 DEF Root!Publish
    <2>5. QED  BY <2>3, <2>4
  <1>3. CASE Root!Check(p)
    <2>1. lock \in Root!Locks
      BY <1>3 DEF Root!Check, HolderInv, Holding, Root!Mine
    <2>2. [lock EXCEPT !.dead = TRUE] \in Root!Locks
      BY <2>1 DEF Root!Locks
    <2>3. CASE Root!CanRead(job[p])
      BY <1>3, <2>3 DEF Root!Check
    <2>4. CASE ~Root!CanRead(job[p])
      <3>1. Root!Leave(p) /\ lock' = [lock EXCEPT !.dead = TRUE] /\ UNCHANGED rootFaults
        BY <1>3, <2>4 DEF Root!Check
      <3>2. QED  BY <2>2, <3>1
    <2>5. QED  BY <2>3, <2>4
  <1>4. CASE Root!Release(p)
    <2>1. lock \in Root!Locks
      BY <1>4 DEF Root!Release, HolderInv, Holding, Root!Mine
    <2>2. [lock EXCEPT !.dead = TRUE] \in Root!Locks
      BY <2>1 DEF Root!Locks
    <2>3. QED  BY <1>4, <2>2 DEF Root!Release
  <1>5. CASE Root!Crash(p)
    <2>1. Root!Mine(p) => [lock EXCEPT !.dead = TRUE] \in Root!Locks
      BY DEF Root!Mine, Root!Locks
    <2>2. QED  BY <1>5, <2>1 DEF Root!Crash
  <1>6. CASE Root!DeclineCommand(p) \/ Root!DeclineRotation(p) \/ Root!Resume(p)
               \/ Root!AlreadyAdopted(p)
    BY <1>6 DEF Root!DeclineCommand, Root!DeclineRotation, Root!Resume, Root!AlreadyAdopted
  <1>7. CASE Root!EnterCommand(p)
    <2>1. ~Root!Even => active.src \in Seq(Version)
      BY DEF RootIInv, Root!MachineStates, RootType, Root!Transactions
    <2>2. QED  BY <1>7, <2>1 DEF Root!EnterCommand, RootType
  <1>8. CASE Root!ReuseReceipt(p)
    BY <1>8 DEF Root!ReuseReceipt, Root!ReceiptsOf, Root!Receipts, RootType
  <1>9. CASE Root!ValidateRotation(p) \/ Root!ValidateAdoption(p)
    BY <1>9 DEF Root!ValidateRotation, Root!ValidateAdoption, Root!Replay, RootType
  <1>10. CASE Root!InvalidRotation(p) \/ Root!InvalidAdoption(p)
    <2>1. Root!Throw(p)
      BY <1>10 DEF Root!InvalidRotation, Root!InvalidAdoption
    <2>2. QED  BY <2>1 DEF Root!Throw
  <1>11. CASE \E j \in Root!Jobs : Root!Start(p, j)
    BY <1>11 DEF Root!Start, Root!StartCommand, Root!StartAdoption, Root!StartRotation, Root!Enter
  <1>12. QED
    BY <1>1, <1>2, <1>3, <1>4, <1>5, <1>6, <1>7, <1>8, <1>9, <1>10, <1>11, <1>13, <1>14 DEF Reads

\* A writing step does.
LEMMA WritesType ==
    ASSUME RootConstants, RootIInv, NEW p \in RootProc, Writes(p)
    PROVE  Root!TypeOK'
  <1>1. job[p] \in Root!Jobs /\ validSeen[p] \in Seq(Version)
    BY WritesFrame DEF RootIInv, Root!TypeOK, HolderInv, Holding
  <1>2. rootPc' \in [RootProc -> Root!PCs] /\ UNCHANGED <<lock, job, validSeen, rootFaults>>
    BY WritesFrame DEF RootIInv, Root!TypeOK
  <1>a. RootType /\ ProcType /\ HolderInv(p)
    BY Types DEF RootIInv
  <1>b. ProcType'
    BY <1>a, <1>2 DEF ProcType
  <1> SUFFICES RootType'
    BY <1>b DEF Root!TypeOK, RootType, ProcType
  <1> USE <1>a DEF RootType
  <1>3. CASE Root!BeginRootWrite(p)
    BY <1>1, <1>2, <1>3 DEF Root!BeginRootWrite, Root!Transaction, Root!Transactions
  <1>4. CASE Root!WritePayload(p)
    BY <1>1, <1>2, <1>4, JobTypes, Appended DEF Root!WritePayload
  <1>5. CASE Root!InstallReceipt(p)
    <2>1. ~Root!Even
      BY <1>5, <1>1
         DEF RootConstants, RootIInv, Root!InstallReceipt, WorkInv, Root!MachineStates,
            Root!Transaction, Root!Transactions
    <2>2. gen - 1 \in Nat
      <3>1. gen # 0
        BY <2>1 DEF Root!Even
      <3>2. QED  BY <3>1
    <2>3. Root!Receipt(p) \in Root!Receipts
      BY <1>1, <1>5, <2>2, JobTypes DEF Root!InstallReceipt, Root!Receipt, Root!Receipts
    <2>4. QED  BY <1>2, <1>5, <2>3 DEF Root!InstallReceipt
  <1>6. CASE Root!InstallSuccessor(p)
    BY <1>1, <1>2, <1>6, JobTypes, Appended DEF Root!InstallSuccessor, Root!Successor
  <1>7. CASE Root!InstallArtifacts(p)
    BY <1>7 DEF Root!InstallArtifacts
  <1>10. CASE Root!Complete(p)
    BY <1>10 DEF Root!Complete
  <1>8. CASE Root!EnsureProtocol(p)
    BY <1>1, <1>2, <1>8, JobTypes DEF Root!EnsureProtocol
  <1>9. QED
    BY <1>3, <1>4, <1>5, <1>6, <1>7, <1>8, <1>10
       DEF Writes, Root!BeginCommand, Root!BeginRotation, Root!BeginAdoption

\* Whoever is between two steps has its command, and whoever is in the lock
\* goes on having it.
LEMMA ReadsHolder ==
    ASSUME RootConstants, RootIInv, NEW p \in RootProc, Reads(p), NEW q \in RootProc
    PROVE  HolderInv(q)'
  <1>a. ProcType /\ HolderInv(p) /\ HolderInv(q) /\ Moves(p)
    BY Types, ReadsFrame DEF RootIInv
  <1>b. rootPc[q] \in Holding /\ rootPc[p] \in Holding => p = q
    BY <1>a, OneHolder
  <1> USE <1>a, <1>b DEF HolderInv, Holding, Root!Mine, Moves, Root!Goto, Root!Leave, Root!root,
      Root!procs, ProcType, Root!PCs
  <1>1. CASE Root!Reap(p)
    BY <1>1 DEF Root!Reap
  <1>2. CASE Root!ReadProtocol(p)
    BY <1>2 DEF Root!ReadProtocol
  <1>3. CASE Root!TurnedAway(p)
    BY <1>3 DEF Root!TurnedAway
  <1>4. CASE Root!Publish(p)
    <2>1. CASE lock = None
      <3>1. lock' = [by |-> p, job |-> job[p], dead |-> FALSE]
              /\ rootPc' = [rootPc EXCEPT ![p] = "check"]
        BY <1>4, <2>1 DEF Root!Publish
      <3>2. lock' \in Root!Locks /\ lock' # None
        <4>1. job[p] \in Root!Jobs
          BY <1>4 DEF Root!Publish
        <4>2. lock' \in Root!Locks
          BY <3>1, <4>1 DEF Root!Locks
        <4>3. QED  BY <4>2 DEF RootConstants
      <3>3. QED  BY <1>4, <2>1, <3>1, <3>2 DEF Root!Publish
    <2>2. CASE lock # None
      BY <1>4, <2>2 DEF Root!Publish
    <2>3. QED  BY <2>1, <2>2
  <1>5. CASE Root!Check(p)
    <2>1. CASE Root!CanRead(job[p])
      BY <1>5, <2>1 DEF Root!Check
    <2>2. CASE ~Root!CanRead(job[p])
      <3>1. rootPc[p] = "check" /\ Root!Leave(p)
        BY <1>5, <2>2 DEF Root!Check
      <3>2. QED  BY <3>1
    <2>3. QED  BY <2>1, <2>2
  <1>6. CASE Root!Release(p)
    <2>1. rootPc[p] = "done" /\ Root!Leave(p)
      BY <1>6 DEF Root!Release
    <2>2. QED  BY <2>1
  <1>7. CASE Root!Crash(p)
    <2>1. Root!Leave(p) /\ (Root!Mine(p) \/ lock' = lock)
      BY <1>7 DEF Root!Crash
    <2>2. rootPc[q] \in Holding /\ q # p => lock' = lock
      BY <1>7 DEF Root!Crash
    <2>3. QED  BY <2>1, <2>2
  <1>8. CASE \E j \in Root!Jobs : Root!Start(p, j)
    BY <1>8 DEF Root!Start, Root!StartCommand, Root!StartAdoption, Root!StartRotation, Root!Enter
  <1>9. CASE Root!DeclineCommand(p) \/ Root!EnterCommand(p) \/ Root!DeclineRotation(p)
               \/ Root!ReuseReceipt(p)
             \/ Root!ValidateRotation(p) \/ Root!ValidateAdoption(p) \/ Root!Resume(p)
             \/ Root!AlreadyAdopted(p)
             \/ Root!InvalidRotation(p) \/ Root!InvalidAdoption(p)
    <2>1. rootPc[p] \in Holding /\ UNCHANGED <<lock, job>>
      BY <1>9
         DEF Root!DeclineCommand, Root!EnterCommand, Root!DeclineRotation, Root!ReuseReceipt,
             Root!Rotates,
                  Root!ValidateRotation, Root!ValidateAdoption, Root!Replay, Root!Resume,
                  Root!AlreadyAdopted,
                  Root!InvalidRotation, Root!InvalidAdoption, Root!Throw
    <2>2. QED  BY <2>1
  <1>10. QED
    BY <1>1, <1>2, <1>3, <1>4, <1>5, <1>6, <1>7, <1>8, <1>9 DEF Reads

\* Writing to the root moves no lock.
LEMMA WritesHolder ==
    ASSUME RootIInv, NEW p \in RootProc, Writes(p), NEW q \in RootProc
    PROVE  HolderInv(q)'
  BY WritesFrame DEF RootIInv, HolderInv, Holding, Root!Mine, Moves

\* What the invariant says of the root.
RootInv == Root!MachineStates /\ Passed /\ OpenInv

\* What is said of the root survives the steps that read it.
LEMMA ReadsRoot ==
    ASSUME RootIInv, NEW p \in RootProc, Reads(p)
    PROVE  RootInv'
  <1>1. UNCHANGED Root!root
    BY ReadsFrame DEF RootIInv
  <1>2. QED
    BY <1>1
       DEF RootIInv, RootInv, Root!MachineStates, Passed, OpenInv, Root!root, Root!Even,
           Root!Unsealed, Root!PendingRotation,
                Root!ReceiptsOf, Root!SealedRotation, Root!InRotation

\* What another process has made sure of stays: nobody writes while it holds
\* the lock.
LEMMA OthersWork ==
    ASSUME RootIInv, NEW p \in RootProc, NEW q \in RootProc, q # p, Reads(p) \/ Writes(p)
    PROVE  WorkInv(q)'
  <1>a. Moves(p) /\ (UNCHANGED Root!root \/ rootPc[p] \in Holding)
    BY ReadsFrame, WritesFrame DEF RootIInv
  <1>1. CASE rootPc[q] \in Holding
    <2>1. UNCHANGED Root!root
      BY <1>1, <1>a, OneHolder DEF RootIInv
    <2>2. QED
      BY <1>a, <2>1
         DEF RootIInv, Moves, WorkInv, Root!root, Root!Even, Root!CanRead, Root!CommandReads,
            Root!RotationReads, Root!AllSealed,
             Root!Unsealed, Root!PendingRotation, Root!ReceiptsOf, Root!SealedRotation,
             Root!InRotation, Root!Transaction
  <1>2. CASE rootPc[q] \notin Holding
    BY <1>a, <1>2 DEF Moves, WorkInv, Holding
  <1>3. QED  BY <1>1, <1>2

\* Under an even root nothing is pending.
LEMMA EvenPends ==
    ASSUME RootIInv, Root!Even, NEW r
    PROVE  ~Root!PendingRotation(r)
  BY DEF RootIInv, Root!MachineStates, Root!PendingRotation

\* A rotation that the root was sealed with lies behind it.
LEMMA SealedPassed ==
    ASSUME RootConstants, RootIInv, NEW r \in Rotation, Root!SealedRotation(r)
    PROVE  r \in ToSet(seal.rotations) /\ r.to <= seal.ver /\ seal.ver # r.from
  <1>1. seal.rotations \in Seq(Rotation)
    BY DEF RootIInv, Root!TypeOK
  <1>2. r \in ToSet(seal.rotations)
    BY <1>1, Appended DEF Root!SealedRotation, Root!Last, Last
  <1>3. r.to <= seal.ver
    BY <1>2 DEF RootIInv, Passed
  <1>4. seal.ver \in Nat /\ r.from \in Nat /\ r.to \in Nat /\ r.from < r.to
    <2>1. seal.ver \in Version \cup {0}
      BY DEF RootIInv, Root!TypeOK
    <2>2. seal.ver \in Nat
      <3>1. CASE seal.ver = 0
        BY <3>1
      <3>2. CASE seal.ver \in Version
        BY <3>2, VersionsAreNumbers
      <3>3. QED  BY <2>1, <3>1, <3>2
    <2>3. QED  BY <2>2, RotationsAscend
  <1>5. QED  BY <1>2, <1>3, <1>4

\* A reading step makes sure of what it says.
LEMMA ReadsWork ==
    ASSUME RootIInv, NEW p \in RootProc, Reads(p)
    PROVE  WorkInv(p)'
  <1>a. ProcType /\ HolderInv(p) /\ WorkInv(p) /\ UNCHANGED Root!root
    BY Types, ReadsFrame DEF RootIInv
  <1>b. rootPc[p] \in Holding => job[p] \in Root!Jobs
    BY <1>a DEF HolderInv, Holding
  <1> USE <1>a DEF ProcType, Root!Goto, Root!Leave, Root!PCs
  <1>1. CASE Root!Reap(p) \/ Root!ReadProtocol(p) \/ Root!TurnedAway(p) \/ Root!Publish(p)
               \/ Root!Release(p) \/ Root!Crash(p)
             \/ \E j \in Root!Jobs : Root!Start(p, j)
    <2>1. rootPc'[p] \in {"idle", "look", "publish", "check"}
      BY <1>1
         DEF Root!Reap, Root!ReadProtocol, Root!TurnedAway, Root!Publish, Root!Release,
             Root!Crash, Root!Start, Root!StartCommand,
                  Root!StartAdoption, Root!StartRotation, Root!Enter, Root!procs
    <2>2. QED  BY <2>1 DEF WorkInv
  <1>2. CASE Root!Check(p)
    <2>1. CASE Root!CanRead(job[p])
      <3>1. rootPc'[p] = "held" /\ job' = job
        BY <1>2, <2>1 DEF Root!Check
      <3>2. Root!CanRead(job[p])'
        BY <2>1, <3>1
           DEF Root!root, Root!Even, Root!CanRead, Root!CommandReads, Root!RotationReads,
               Root!AllSealed,
             Root!Unsealed, Root!PendingRotation, Root!ReceiptsOf, Root!SealedRotation,
             Root!InRotation
      <3>3. QED  BY <3>1, <3>2 DEF WorkInv
    <2>2. CASE ~Root!CanRead(job[p])
      <3>1. rootPc'[p] = "idle"
        BY <1>2, <2>2 DEF Root!Check
      <3>2. QED  BY <3>1 DEF WorkInv
    <2>3. QED  BY <2>1, <2>2
  <1>3. CASE Root!DeclineCommand(p) \/ Root!DeclineRotation(p) \/ Root!AlreadyAdopted(p)
             \/ Root!InvalidRotation(p) \/ Root!InvalidAdoption(p)
    <2>1. rootPc'[p] = "done"
      BY <1>3
         DEF Root!DeclineCommand, Root!DeclineRotation, Root!AlreadyAdopted,
             Root!InvalidRotation, Root!InvalidAdoption, Root!Throw
    <2>2. QED  BY <2>1 DEF WorkInv
  <1>4. CASE Root!EnterCommand(p)
    <2>1. rootPc[p] = "held" /\ rootPc'[p] = "valid" /\ job' = job /\ job[p].kind = "write"
            /\ seal.ver # 0
          /\ (Root!Even => validSeen'[p] = source)
      BY <1>4 DEF Root!EnterCommand
    <2>2. seal.ver = job[p].ver
      BY <2>1 DEF WorkInv, Root!CanRead, Root!CommandReads
    <2>3. QED  BY <2>1, <2>2 DEF WorkInv, Root!root, Root!Even
  <1>5. CASE Root!ReuseReceipt(p)
    <2>1. /\ rootPc[p] = "held" /\ rootPc'[p] = "valid" /\ job' = job /\ job[p].kind = "rotate"
          /\ Root!Even => ~Root!SealedRotation(job[p].rot)
          /\ Root!PendingRotation(job[p].rot) \/ Root!SealedRotation(job[p].rot)
      BY <1>5 DEF Root!ReuseReceipt, Root!Rotates, Root!Reported
    <2>2. ~Root!Even
      BY <2>1, EvenPends
    <2>3. QED  BY <2>1, <2>2 DEF WorkInv, Root!root, Root!Even
  <1>6. CASE Root!ValidateRotation(p)
    <2>1. /\ rootPc[p] = "held" /\ rootPc'[p] = "valid" /\ job' = job /\ job[p].kind = "rotate"
          /\ Root!ExpectedPredecessor(job[p].rot)
          /\ Root!Even => ~Root!SealedRotation(job[p].rot)
          /\ validSeen'[p] = source
      BY <1>6 DEF Root!ValidateRotation, Root!Rotates, Root!Replay
    <2>2. Root!Even => seal.ver = job[p].rot.from
      BY <2>1 DEF Root!ExpectedPredecessor
    <2>3. QED  BY <2>1, <2>2 DEF WorkInv, Root!root, Root!Even
  <1>7. CASE Root!ValidateAdoption(p)
    <2>1. rootPc[p] = "held" /\ rootPc'[p] = "valid" /\ job' = job /\ job[p].kind = "adopt"
            /\ validSeen'[p] = source
      BY <1>7 DEF Root!ValidateAdoption, Root!Replay
    <2>2. QED  BY <2>1 DEF WorkInv, Root!root, Root!Even
  <1>8. CASE Root!Resume(p)
    <2>1. /\ UNCHANGED <<job, validSeen>>
          /\ rootPc'[p] = "done" \/ (rootPc'[p] = "begun" /\ active = Root!Transaction(p))
      BY <1>8 DEF Root!Resume
    <2>2. QED  BY <2>1 DEF WorkInv, Root!root, Root!Transaction
  <1>9. QED
    BY <1>1, <1>2, <1>3, <1>4, <1>5, <1>6, <1>7, <1>8 DEF Reads

\* What is known at a writing step: the command, and the open transaction.
LEMMA Writer ==
    ASSUME RootConstants, RootIInv, NEW p \in RootProc, Writes(p)
    PROVE  /\ RootType /\ WorkInv(p) /\ job[p] \in Root!Jobs /\ validSeen[p] \in Seq(Version)
           /\ Root!Transaction(p) \in Root!Transactions /\ Root!Transaction(p) # None
           /\ UNCHANGED <<job, validSeen>> /\ Root!Transaction(p)' = Root!Transaction(p)
           /\ rootPc[p] \in {"begun", "installed", "sealed"} => active = Root!Transaction(p)
               /\ ~Root!Even
  <1>1. RootType /\ WorkInv(p) /\ job[p] \in Root!Jobs /\ validSeen[p] \in Seq(Version)
          /\ UNCHANGED <<job, validSeen>>
    BY WritesFrame, Types DEF RootIInv, HolderInv, Holding, ProcType
  <1>2. Root!Transaction(p) \in Root!Transactions
    BY <1>1 DEF Root!Transaction, Root!Transactions
  <1>3. Root!Transaction(p) # None
    BY <1>2 DEF RootConstants
  <1>4. Root!Transaction(p)' = Root!Transaction(p)
    BY <1>1 DEF Root!Transaction
  <1>5. rootPc[p] \in {"begun", "installed", "sealed"} => active = Root!Transaction(p) /\ ~Root!Even
    BY <1>1, <1>3 DEF WorkInv, RootIInv, Root!MachineStates
  <1>6. QED  BY <1>1, <1>2, <1>3, <1>4, <1>5

\* A receipt that is not sealed belongs to the open rotation.
LEMMA PendingIsOpen ==
    ASSUME RootConstants, RootIInv, active \in Root!Transactions, Root!Unsealed # {}
    PROVE  active.job.kind = "rotate" /\ Root!PendingRotation(active.job.rot)
  <1>1. PICK r \in Rotation : Root!PendingRotation(r)
    BY DEF RootIInv, Root!MachineStates
  <1>2. active.job.rot = r /\ active.job \in Root!Jobs
    BY <1>1 DEF Root!PendingRotation, Root!Transactions
  <1>3. active.job.kind = "rotate"
    BY <1>1, <1>2, JobTypes DEF RootConstants
  <1>4. QED  BY <1>1, <1>2, <1>3

\* The next generation has the other parity.
LEMMA ParityFlips == RootType /\ gen' = gen + 1 => (Root!Even' <=> ~Root!Even)
  <1>1. \A n \in Nat : (n + 1) % 2 = 0 <=> ~(n % 2 = 0)
    OBVIOUS
  <1>2. QED  BY <1>1 DEF RootType, Root!Even

\* A begun transaction names the payload the command has validated.
LEMMA BeginInv ==
    ASSUME RootConstants, RootIInv, NEW p \in RootProc,
           Root!BeginCommand(p) \/ Root!BeginRotation(p) \/ Root!BeginAdoption(p)
    PROVE  RootInv' /\ WorkInv(p)'
  <1>1. /\ rootPc[p] = "valid" /\ rootPc'[p] = "begun" /\ Root!Even /\ gen' = gen + 1
          /\ active' = Root!Transaction(p)
        /\ UNCHANGED <<seal, receipts, anchored, source>>
        /\ job[p].kind = "adopt" => seal.ver = 0
        /\ Root!BeginRootWrite(p)
    BY
       DEF RootIInv, Root!TypeOK, Root!PCs, Root!BeginCommand, Root!BeginRotation,
           Root!BeginAdoption, Root!BeginRootWrite, Root!Goto
  <1>2. /\ RootType /\ WorkInv(p) /\ job[p] \in Root!Jobs /\ Root!Transaction(p) # None
        /\ UNCHANGED <<job, validSeen>> /\ Root!Transaction(p)' = Root!Transaction(p)
    BY Writer DEF Writes
  <1>3. active = None /\ Root!Unsealed = {} /\ ~Root!Even'
    BY <1>1, <1>2, ParityFlips DEF RootIInv, Root!MachineStates
  <1>4. Root!Unsealed' = {}
    BY <1>1, <1>3 DEF Root!Unsealed
  <1>5. active'.job = job[p] /\ active'.src = validSeen[p] /\ validSeen[p] = source
    BY <1>1, <1>2 DEF Root!Transaction, WorkInv
  <1>6. Root!MachineStates'
    BY <1>1, <1>2, <1>3, <1>4, <1>5 DEF RootIInv, Root!MachineStates, WorkInv
  <1>7. Passed'
    BY <1>1 DEF RootIInv, Passed
  <1>8. OpenInv'
    BY <1>1, <1>2, <1>5 DEF OpenInv, WorkInv
  <1>9. WorkInv(p)'
    BY <1>1, <1>2 DEF WorkInv
  <1>10. QED  BY <1>6, <1>7, <1>8, <1>9 DEF RootInv

\* An ordinary command writes once, and in the name of the version it has sealed.
LEMMA PayloadInv ==
    ASSUME RootConstants, RootIInv, NEW p \in RootProc, Root!WritePayload(p)
    PROVE  /\ RootInv' /\ WorkInv(p)'
           /\ seal.ver = job[p].ver
           /\ source' = Append(source, seal.ver) \/ source' = source
  <1>1. /\ rootPc[p] = "begun" /\ rootPc'[p] = "sealed" /\ job[p].kind = "write"
        /\ source' = IF source = active.src THEN Append(source, job[p].ver) ELSE source
        /\ UNCHANGED <<seal, receipts, anchored, gen, active>>
    BY DEF RootIInv, Root!TypeOK, Root!PCs, Root!WritePayload, Root!Goto
  <1>2. /\ RootType /\ WorkInv(p) /\ job[p] \in Root!Jobs
          /\ Root!Transaction(p) \in Root!Transactions
        /\ UNCHANGED <<job, validSeen>> /\ Root!Transaction(p)' = Root!Transaction(p)
        /\ active = Root!Transaction(p) /\ ~Root!Even
    BY <1>1, Writer DEF Writes
  <1>3. active.job = job[p] /\ active # None
    BY <1>2 DEF RootConstants, Root!Transaction
  <1>4. seal.ver = job[p].ver /\ source \in {active.src, Append(active.src, job[p].ver)}
    BY <1>1, <1>3 DEF RootIInv, OpenInv
  <1>5. Root!Unsealed = {}
    BY <1>1, <1>2, <1>3, PendingIsOpen
  <1>6. Root!MachineStates'
    BY <1>1, <1>2, <1>3, <1>5 DEF RootIInv, Root!MachineStates, Root!Unsealed, Root!Even
  <1>7. Passed'
    BY <1>1 DEF RootIInv, Passed
  <1>8. OpenInv'
    BY <1>1, <1>3, <1>4 DEF OpenInv
  <1>9. WorkInv(p)'
    BY <1>1, <1>2 DEF WorkInv
  <1>10. QED  BY <1>1, <1>4, <1>6, <1>7, <1>8, <1>9 DEF RootInv

\* The receipt of a rotation is installed while the predecessor's seal is in
\* place, or is the one already there.
LEMMA ReceiptInv ==
    ASSUME RootConstants, RootIInv, NEW p \in RootProc, Root!InstallReceipt(p)
    PROVE  RootInv' /\ WorkInv(p)'
  <1> DEFINE r == job[p].rot
             x == Root!Receipt(p)
  <1>1. /\ rootPc[p] = "begun" /\ rootPc'[p] = "installed" /\ job[p].kind = "rotate"
        /\ receipts' = receipts \cup {x}
        /\ UNCHANGED <<seal, anchored, gen, active, source>>
    BY DEF RootIInv, Root!TypeOK, Root!PCs, Root!InstallReceipt, Root!Goto
  <1>2. /\ RootType /\ WorkInv(p) /\ job[p] \in Root!Jobs
          /\ Root!Transaction(p) \in Root!Transactions
        /\ UNCHANGED <<job, validSeen>> /\ Root!Transaction(p)' = Root!Transaction(p)
        /\ active = Root!Transaction(p) /\ ~Root!Even
    BY <1>1, Writer DEF Writes
  <1>3. /\ active.job = job[p] /\ active.src = validSeen[p] /\ active # None
        /\ r \in Rotation /\ r.from \in Version /\ r.from < r.to
    BY <1>1, <1>2, JobTypes DEF RootConstants, Root!Transaction
  <1>4. source = validSeen[p]
          /\ (seal.ver = r.from \/ (Root!SealedRotation(r) /\ Root!InRotation(r)))
    BY <1>1, <1>3 DEF RootIInv, OpenInv, Root!MachineStates
  <1>5. x.rot = r /\ x.src = source /\ gen = x.entry + 1
    BY <1>2, <1>4 DEF Root!Receipt, RootType
  <1>6. Root!Unsealed' = IF r \in ToSet(seal.rotations) THEN Root!Unsealed ELSE Root!Unsealed \cup {x}
    BY <1>1, <1>5 DEF Root!Unsealed, Root!ToSet, ToSet
  <1>7. CASE Root!SealedRotation(r)
    <2>1. r \in ToSet(seal.rotations) /\ seal.ver # r.from
      BY <1>3, <1>7, SealedPassed
    <2>2. Root!Unsealed = {}
      BY <1>2, <1>3, <2>1, PendingIsOpen DEF Root!PendingRotation
    <2>3. Root!Unsealed' = {}
      BY <1>6, <2>1, <2>2
    <2>4. Root!InRotation(r)' /\ Root!SealedRotation(r)'
      BY <1>1, <1>2, <1>5, <1>7 DEF Root!InRotation, Root!ReceiptsOf, Root!SealedRotation
    <2>5. Root!MachineStates'
      BY <1>1, <1>2, <1>3, <2>3, <2>4 DEF RootIInv, Root!MachineStates, Root!Even
    <2>6. WorkInv(p)'
      BY <1>1, <1>2, <2>4 DEF WorkInv
    <2>7. QED  BY <1>1, <2>5, <2>6 DEF RootInv, RootIInv, Passed, OpenInv
  <1>8. CASE ~Root!SealedRotation(r)
    <2>1. seal.ver = r.from
      BY <1>4, <1>8
    <2>2. r \notin ToSet(seal.rotations)
      <3>1. r \in ToSet(seal.rotations) => r.to <= r.from
        BY <1>3, <2>1 DEF RootIInv, Passed
      <3>2. QED  BY <1>3, <3>1, RotationsAscend
    <2>3. Root!Unsealed \subseteq {x}
      <3>1. SUFFICES ASSUME Root!Unsealed # {} PROVE Root!Unsealed = {x}
        OBVIOUS
      <3>2. PICK y \in Root!ReceiptsOf(r) : Root!Unsealed = {y} /\ gen = y.entry + 1
              /\ source = y.src
        BY <1>2, <1>3, <3>1, PendingIsOpen DEF Root!PendingRotation
      <3>3. y \in Root!Receipts /\ y.rot = r
        BY <1>2, <3>2 DEF Root!ReceiptsOf, RootType
      <3>4. y.entry = gen - 1
        BY <3>2, <3>3 DEF Root!Receipts
      <3>5. y = [rot |-> r, src |-> validSeen[p], entry |-> gen - 1]
        BY <1>4, <3>2, <3>3, <3>4 DEF Root!Receipts
      <3>6. QED  BY <3>2, <3>5 DEF Root!Receipt
    <2>4. Root!Unsealed' = {x}
      BY <1>6, <2>2, <2>3
    <2>5. Root!PendingRotation(r)'
      BY <1>1, <1>2, <1>3, <1>5, <2>1, <2>4 DEF Root!PendingRotation, Root!ReceiptsOf
    <2>6. Root!MachineStates'
      BY <1>1, <1>2, <1>3, <2>1, <2>4, <2>5 DEF RootIInv, Root!MachineStates, Root!Even
    <2>7. WorkInv(p)'
      BY <1>1, <1>2, <2>5 DEF WorkInv
    <2>8. QED  BY <1>1, <2>6, <2>7 DEF RootInv, RootIInv, Passed, OpenInv
  <1>9. QED  BY <1>7, <1>8

\* The seal of the successor replaces that of the predecessor, on the same payload.
LEMMA SuccessorInv ==
    ASSUME RootConstants, RootIInv, NEW p \in RootProc, Root!InstallSuccessor(p)
    PROVE  /\ RootInv' /\ WorkInv(p)'
           /\ \/ seal' = seal
              \/ /\ job[p].rot \in Rotation /\ seal.ver = job[p].rot.from
                 /\ seal'.ver = job[p].rot.to /\ seal'.src = source
           /\ source' = source
  <1> DEFINE r == job[p].rot
  <1>1. /\ rootPc[p] = "installed" /\ rootPc'[p] = "sealed" /\ job[p].kind = "rotate"
        /\ seal' = IF Root!SealedRotation(r) THEN seal ELSE Root!Successor(p)
        /\ UNCHANGED <<receipts, anchored, gen, active, source>>
    BY DEF RootIInv, Root!TypeOK, Root!PCs, Root!InstallSuccessor, Root!Goto
  <1>2. /\ RootType /\ WorkInv(p) /\ job[p] \in Root!Jobs
          /\ Root!Transaction(p) \in Root!Transactions
        /\ UNCHANGED <<job, validSeen>> /\ Root!Transaction(p)' = Root!Transaction(p)
        /\ active = Root!Transaction(p) /\ ~Root!Even
    BY <1>1, Writer DEF Writes
  <1>3. /\ active.job = job[p] /\ active.src = validSeen[p] /\ active # None
        /\ r \in Rotation /\ r.from \in Version /\ r.from < r.to /\ job[p].ver = r.to
    BY <1>1, <1>2, JobTypes DEF RootConstants, Root!Transaction
  <1>4. source = validSeen[p]
    BY <1>1, <1>3 DEF RootIInv, OpenInv
  <1>5. CASE Root!SealedRotation(r)
    <2>1. seal' = seal
      BY <1>1, <1>5
    <2>2. Root!SealedRotation(r)'
      BY <1>2, <1>5, <2>1 DEF Root!SealedRotation
    <2>3. WorkInv(p)'
      BY <1>1, <1>2, <2>2 DEF WorkInv
    <2>4. RootInv'
      BY <1>1, <2>1
         DEF RootIInv, RootInv, Root!MachineStates, Passed, OpenInv, Root!Even, Root!Unsealed,
            Root!PendingRotation,
             Root!ReceiptsOf, Root!SealedRotation, Root!InRotation
    <2>5. QED  BY <1>1, <2>1, <2>3, <2>4
  <1>6. CASE ~Root!SealedRotation(r)
    <2>1. Root!PendingRotation(r)
      BY <1>1, <1>2, <1>6 DEF WorkInv
    <2>2. PICK y \in Root!ReceiptsOf(r) : Root!Unsealed = {y} /\ gen = y.entry + 1 /\ source = y.src
      BY <2>1 DEF Root!PendingRotation
    <2>3. seal.ver = r.from
      BY <2>1 DEF Root!PendingRotation
    <2>4. /\ seal'.ver = r.to /\ seal'.src = source
          /\ seal'.rotations = Append(seal.rotations, r)
      BY <1>1, <1>3, <1>4, <1>6 DEF Root!Successor
    <2>5. ToSet(seal'.rotations) = ToSet(seal.rotations) \cup {r} /\ Root!SealedRotation(r)'
      <3>1. seal.rotations \in Seq(Rotation)
        BY <1>2 DEF RootType
      <3>2. QED  BY <1>2, <1>3, <2>4, <3>1, Appended DEF Root!SealedRotation, Root!Last, Last
    <2>6. Root!Unsealed' = {}
      BY <1>1, <2>2, <2>5 DEF Root!Unsealed, Root!ReceiptsOf, Root!ToSet, ToSet
    <2>7. Root!InRotation(r)'
      BY <1>1, <1>2, <2>2 DEF Root!InRotation, Root!ReceiptsOf
    <2>8. anchored'
      BY <1>1, <1>3, <2>3, VersionsAreNumbers DEF RootIInv, Root!MachineStates
    <2>9. Root!MachineStates'
      BY <1>1, <1>2, <1>3, <2>5, <2>6, <2>7, <2>8 DEF Root!MachineStates, Root!Even
    <2>10. Passed'
      <3>1. r.from \in Nat /\ r.to \in Nat
        BY <1>3, RotationsAscend
      <3>2. \A s \in Rotation : s \in ToSet(seal.rotations) => s.to <= r.to
        <4>1. SUFFICES ASSUME NEW s \in Rotation, s \in ToSet(seal.rotations) PROVE s.to <= r.to
          OBVIOUS
        <4>2. s.to <= r.from
          BY <2>3, <4>1 DEF RootIInv, Passed
        <4>3. QED  BY <1>3, <3>1, <4>2, RotationsAscend
      <3>3. QED  BY <2>4, <2>5, <3>1, <3>2 DEF Passed
    <2>11. OpenInv'
      BY <1>1, <1>3, <1>4 DEF OpenInv
    <2>12. WorkInv(p)'
      BY <1>1, <1>2, <2>5 DEF WorkInv
    <2>13. QED  BY <1>1, <1>3, <2>3, <2>4, <2>9, <2>10, <2>11, <2>12 DEF RootInv
  <1>7. QED  BY <1>5, <1>6

\* An adoption seals a root that has no seal, on the payload it has validated.
LEMMA AdoptionInv ==
    ASSUME RootConstants, RootIInv, NEW p \in RootProc,
           Root!InstallArtifacts(p) \/ Root!EnsureProtocol(p)
    PROVE  /\ RootInv' /\ WorkInv(p)'
           /\ \/ seal' = seal
              \/ /\ seal.ver = 0
                 /\ job[p].ver \in Version /\ seal'.ver = job[p].ver /\ seal'.src = source
           /\ source' = source
  <1>1. /\ job[p].kind = "adopt"
        /\ UNCHANGED <<receipts, gen, active, source>>
        /\ \/ /\ rootPc[p] = "begun" /\ rootPc'[p] = "installed"
              /\ anchored' /\ UNCHANGED seal
           \/ /\ rootPc[p] = "installed" /\ rootPc'[p] = "sealed"
              /\ seal' = IF seal.ver = 0
                         THEN [ver |-> job[p].ver, src |-> validSeen[p], rotations |-> <<>>] ELSE seal
              /\ UNCHANGED anchored
    BY DEF RootIInv, Root!TypeOK, Root!PCs, Root!InstallArtifacts, Root!EnsureProtocol, Root!Goto
  <1>2. /\ RootType /\ WorkInv(p) /\ job[p] \in Root!Jobs
          /\ Root!Transaction(p) \in Root!Transactions
        /\ UNCHANGED <<job, validSeen>> /\ Root!Transaction(p)' = Root!Transaction(p)
        /\ active = Root!Transaction(p) /\ ~Root!Even
    BY <1>1, Writer DEF Writes
  <1>3. active.job = job[p] /\ active.src = validSeen[p] /\ active # None /\ job[p].ver \in Version
    BY <1>2, JobTypes DEF RootConstants, Root!Transaction
  <1>4. source = validSeen[p] /\ seal.ver \in {0, job[p].ver}
    BY <1>1, <1>3 DEF RootIInv, OpenInv
  <1>5. Root!Unsealed = {}
    BY <1>1, <1>2, <1>3, PendingIsOpen
  <1>6. anchored' /\ WorkInv(p)'
    BY <1>1, <1>2 DEF WorkInv
  <1>7. CASE seal' = seal
    <2>1. RootInv'
      BY <1>1, <1>2, <1>3, <1>5, <1>6, <1>7
         DEF RootIInv, RootInv, Root!MachineStates, Passed, OpenInv, Root!Even, Root!Unsealed
    <2>2. QED  BY <1>1, <1>6, <1>7, <2>1
  <1>8. CASE seal' # seal
    <2>1. seal.ver = 0 /\ seal' = [ver |-> job[p].ver, src |-> validSeen[p], rotations |-> <<>>]
      BY <1>1, <1>8
    <2>2. receipts = {}
      <3>1. \A r \in Rotation : r \notin ToSet(seal.rotations)
        <4>1. SUFFICES ASSUME NEW r \in Rotation, r \in ToSet(seal.rotations) PROVE FALSE
          OBVIOUS
        <4>2. r.to <= 0
          BY <2>1, <4>1 DEF RootIInv, Passed
        <4>3. QED  BY <4>2, RotationsAscend
      <3>2. QED  BY <1>2, <1>5, <3>1 DEF Root!Unsealed, Root!ToSet, ToSet, RootType, Root!Receipts
    <2>3. Root!Unsealed' = {}
      BY <1>1, <2>2 DEF Root!Unsealed
    <2>4. Passed'
      BY <2>1 DEF Passed, ToSet
    <2>5. RootInv'
      BY <1>1, <1>2, <1>3, <1>4, <1>6, <2>1, <2>3, <2>4
         DEF RootInv, Root!MachineStates, OpenInv, Root!Even
    <2>6. QED  BY <1>1, <1>3, <1>4, <1>6, <2>1, <2>5
  <1>9. QED  BY <1>7, <1>8

\* A transaction is closed when its root is one of the states of the protocol.
LEMMA CompleteInv ==
    ASSUME RootConstants, RootIInv, NEW p \in RootProc, Root!Complete(p)
    PROVE  RootInv' /\ WorkInv(p)'
  <1>1. /\ rootPc[p] = "sealed" /\ rootPc'[p] = "done" /\ gen' = gen + 1 /\ active' = None
        /\ UNCHANGED <<seal, receipts, anchored, source>>
    BY DEF RootIInv, Root!TypeOK, Root!PCs, Root!Complete, Root!Goto
  <1>2. /\ RootType /\ WorkInv(p) /\ job[p] \in Root!Jobs
          /\ Root!Transaction(p) \in Root!Transactions
        /\ active = Root!Transaction(p) /\ ~Root!Even
    BY <1>1, Writer DEF Writes
  <1>3. Root!Even'
    BY <1>1, <1>2, ParityFlips
  <1>4. Root!Unsealed = {}
    <2>1. SUFFICES ASSUME Root!Unsealed # {} PROVE FALSE
      OBVIOUS
    <2>2. job[p].kind = "rotate" /\ Root!PendingRotation(job[p].rot)
      BY <1>2, <2>1, PendingIsOpen DEF Root!Transaction
    <2>3. Root!SealedRotation(job[p].rot) /\ job[p].rot \in Rotation
      BY <1>1, <1>2, <2>2, JobTypes DEF WorkInv
    <2>4. QED  BY <2>2, <2>3, SealedPassed DEF Root!PendingRotation
  <1>5. Root!MachineStates'
    BY <1>1, <1>3, <1>4 DEF RootIInv, Root!MachineStates, Root!Unsealed
  <1>6. Passed' /\ OpenInv' /\ WorkInv(p)'
    BY <1>1 DEF RootIInv, Passed, OpenInv, WorkInv
  <1>7. QED  BY <1>5, <1>6 DEF RootInv

\* Every step keeps the invariant.
LEMMA RootNextIInv ==
    ASSUME RootConstants
    PROVE  RootIInv /\ [Root!Next]_(Root!vars) => RootIInv'
  <1> SUFFICES ASSUME RootIInv, [Root!Next]_(Root!vars) PROVE RootIInv'
    OBVIOUS
  <1>1. ASSUME NEW p \in RootProc, Reads(p) PROVE RootIInv'
    <2>1. Root!TypeOK' /\ RootInv'
      BY <1>1, ReadsType, ReadsRoot
    <2>2. \A q \in RootProc : HolderInv(q)' /\ WorkInv(q)'
      BY <1>1, ReadsHolder, ReadsWork, OthersWork
    <2>3. QED  BY <2>1, <2>2 DEF RootIInv, RootInv
  <1>2. ASSUME NEW p \in RootProc, Writes(p) PROVE RootIInv'
    <2>1. Root!TypeOK' /\ \A q \in RootProc : HolderInv(q)'
      BY <1>2, WritesType, WritesHolder
    <2>2. RootInv' /\ WorkInv(p)'
      BY <1>2, BeginInv, PayloadInv, ReceiptInv, SuccessorInv, AdoptionInv, CompleteInv DEF Writes
    <2>3. \A q \in RootProc : WorkInv(q)'
      BY <1>2, <2>2, OthersWork
    <2>4. QED  BY <2>1, <2>2, <2>3 DEF RootIInv, RootInv
  <1>3. CASE UNCHANGED Root!vars
    <2>1. UNCHANGED <<Root!root, lock, Root!procs, rootFaults>>
      BY <1>3 DEF Root!vars
    <2>2. Root!TypeOK'
      BY <2>1 DEF RootIInv, Root!TypeOK, Root!root, Root!procs
    <2>3. RootInv'
      BY <2>1
         DEF RootIInv, RootInv, Root!MachineStates, Passed, OpenInv, Root!root, Root!Even,
             Root!Unsealed, Root!PendingRotation,
                Root!ReceiptsOf, Root!SealedRotation, Root!InRotation
    <2>4. \A q \in RootProc : HolderInv(q)'
      BY <2>1 DEF RootIInv, HolderInv, Root!Mine, Root!root, Root!procs
    <2>5. \A q \in RootProc : WorkInv(q)'
      BY <2>1
         DEF RootIInv, WorkInv, Root!root, Root!procs, Root!Even, Root!CanRead,
            Root!CommandReads, Root!RotationReads, Root!AllSealed,
             Root!Unsealed, Root!PendingRotation, Root!ReceiptsOf, Root!SealedRotation,
             Root!InRotation, Root!Transaction
    <2>6. QED  BY <2>2, <2>3, <2>4, <2>5 DEF RootIInv, RootInv
  <1>4. QED  BY <1>1, <1>2, <1>3, StepCases

\* The inductive invariant holds in every reachable state.
THEOREM RootInvariance ==
    ASSUME RootConstants
    PROVE  Root!Spec => []RootIInv
  BY RootInitIInv, RootNextIInv, PTL DEF Root!Spec

\* The root is always in one of the states of a rotation: before it, in it with or
\* without its receipt, past the successor's seal, or closed.  An open rotation can
\* be finished by the request its receipt names, and only by it.
THEOREM StatesOfRotation ==
    ASSUME RootConstants
    PROVE  Root!Spec => []Root!MachineStates
  <1>1. RootIInv => Root!MachineStates
    BY DEF RootIInv
  <1>2. QED  BY <1>1, RootInvariance, PTL

\* A step of the root protocol is a write, an adoption, a rotation or nothing
\* for the decoders.
LEMMA StepRefines ==
    ASSUME RootConstants
    PROVE  RootIInv /\ [Root!Next]_(Root!vars) => [Protocol!Next]_(Protocol!vars)
  <1> SUFFICES ASSUME RootIInv, [Root!Next]_(Root!vars) PROVE [Protocol!Next]_(Protocol!vars)
    OBVIOUS
  <1>1. ASSUME NEW p \in RootProc, Reads(p) PROVE UNCHANGED Protocol!vars
    BY <1>1, ReadsFrame DEF RootIInv, Root!root, Protocol!vars
  <1>2. ASSUME NEW p \in RootProc, Writes(p) PROVE [Protocol!Next]_(Protocol!vars)
    <2>1. CASE Root!BeginRootWrite(p) \/ Root!InstallReceipt(p) \/ Root!Complete(p)
      BY <2>1 DEF Root!BeginRootWrite, Root!InstallReceipt, Root!Complete, Protocol!vars
    <2>2. CASE Root!WritePayload(p)
      <3>1. UNCHANGED seal /\ seal.ver = job[p].ver
        BY <2>2, PayloadInv DEF Root!WritePayload
      <3>2. job[p].ver \in Version
        BY <1>2, Writer, JobTypes
      <3>3. seal.ver # 0
        BY <3>1, <3>2, VersionsAreNumbers
      <3>4. QED  BY <2>2, <3>1, <3>3, PayloadInv DEF Protocol!Next, Protocol!Write, Protocol!vars
    <2>3. CASE Root!InstallSuccessor(p)
      BY <2>3, SuccessorInv DEF Protocol!Next, Protocol!Rotate, Protocol!vars
    <2>4. CASE Root!InstallArtifacts(p) \/ Root!EnsureProtocol(p)
      BY <2>4, AdoptionInv DEF Protocol!Next, Protocol!Adopt, Protocol!vars
    <2>5. QED
      BY <1>2, <2>1, <2>2, <2>3, <2>4
         DEF Writes, Root!BeginCommand, Root!BeginRotation, Root!BeginAdoption
  <1>3. CASE UNCHANGED Root!vars
    BY <1>3 DEF Root!vars, Root!root, Protocol!vars
  <1>4. QED  BY <1>1, <1>2, <1>3, StepCases

\* The detailed protocol implements AtomicProtocol: whatever commands, adoptions
\* and rotations run and die concurrently, for the decoders the seal changes in
\* one step, on the content they have replayed, and the payload only grows by
\* writes in the name of the sealed version.
THEOREM RootRefinement ==
    ASSUME RootConstants
    PROVE  Root!Spec => ImplementsAtomicProtocol
  <1>1. Root!Init => Protocol!Init
    BY DEF Root!Init, Protocol!Init
  <1>2. QED
    BY <1>1, StepRefines, RootInvariance, PTL
       DEF Root!Spec, ImplementsAtomicProtocol, Protocol!Spec
=============================================================================
