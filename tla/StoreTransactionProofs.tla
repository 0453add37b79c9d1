----------------------- MODULE StoreTransactionProofs -----------------------
(***************************************************************************)
(* Theorems about StoreTransaction, for every set of processes, readers    *)
(* and operations, every number of files per operation and every number of *)
(* faults.                                                                 *)
(*                                                                         *)
(* Then, from the section "The merge" on: an instance of GithubMerge.      *)
(***************************************************************************)
EXTENDS StoreTransaction, MergeRecords, SequencesExt, TLAPS

\* The successor of a generation is a generation of the other parity.
LEMMA OddStep ==
    ASSUME NEW n \in Nat
    PROVE  /\ n + 1 \in Nat
           /\ Odd(n + 1) <=> ~Odd(n)
  BY DEF Odd

\* The empty payload is a vector, and a whole one.
LEMMA Nothing == NothingDone \in Vectors /\ Whole(NothingDone)
  BY ConstantAssumption DEF NothingDone, Vectors, Whole

\* The invariant holds of the empty root.
LEMMA InitIInv == Init => IInv
  <1> SUFFICES ASSUME Init PROVE IInv
    OBVIOUS
  <1> USE DEF Init
  <1>1. StoreType
    BY Nothing DEF StoreType
  <1>2. WriterType
    BY Nothing DEF WriterType, PCs, Kinds
  <1>3. ReaderType
    BY Nothing DEF ReaderType, RPCs
  <1>4. LockInv /\ TransportInv
    BY DEF LockInv, TransportInv
  <1>5. SealInv
    BY Nothing, ConstantAssumption DEF SealInv, Odd, Whole, Grown
  <1>6. \A p \in Proc : WriterInv(p)
    BY DEF WriterInv
  <1>7. \A r \in Reader : ReaderInv(r) /\ ScanInv(r)
    BY DEF ReaderInv, ScanInv
  <1>8. QED  BY <1>1, <1>2, <1>3, <1>4, <1>5, <1>6, <1>7 DEF IInv, TypeOK

-----------------------------------------------------------------------------
(* Steps of a reader leave the writers' part of the invariant alone. *)

\* The reader that steps, by action: its own invariant.
LEMMA ReaderMoves ==
    ASSUME IInv, NEW r \in Reader, Read(r)
    PROVE  ReaderType' /\ \A q \in Reader : ReaderInv(q)'
  <1> DEFINE Kept == UNCHANGED <<store, locks, writers, faults>>
  <1>0. ReaderType /\ StoreType /\ SealInv /\ \A q \in Reader : ReaderInv(q)
    BY DEF IInv, TypeOK
  <1>a. ~Odd(gen) => Whole(files)
    BY <1>0, ConstantAssumption DEF SealInv, Whole
  <1>g. gen \in Nat /\ files \in Vectors
    BY <1>0 DEF StoreType
  <1>1. ASSUME NEW m \in {"strict", "inspect"}, ReadStart(r, m)
        PROVE  ReaderType' /\ \A q \in Reader : ReaderInv(q)'
    BY <1>0, <1>1 DEF ReadStart, RGoto, ReaderType, RPCs, ReaderInv, store, locks, writers
  <1>2. CASE ReadEnter(r)
    BY <1>0, <1>2 DEF ReadEnter, RGoto, ReaderType, RPCs, ReaderInv, store, locks, writers, StoreType
  <1>3. CASE ReadGiveUp(r)
    BY <1>0, <1>3, Nothing DEF ReadGiveUp, Drop, RGoto, ReaderType, RPCs, ReaderInv, store, locks, writers, StoreType
  <1>4. CASE ReadSeal(r)
    BY <1>0, <1>4 DEF ReadSeal, RGoto, ReaderType, RPCs, ReaderInv, store, locks, writers, StoreType
  <1>5. CASE ReadRefused(r)
    BY <1>0, <1>5, Nothing DEF ReadRefused, Drop, RGoto, ReaderType, RPCs, ReaderInv, store, locks, writers, StoreType
  <1>6. ASSUME NEW o \in Op, ReadVector(r, o)
        PROVE  ReaderType' /\ \A q \in Reader : ReaderInv(q)'
    BY <1>0, <1>6 DEF ReadVector, RGoto, ReaderType, RPCs, ReaderInv, store, locks, writers, StoreType, Vectors
  <1>7. ASSUME NEW o \in Op, ReadView(r, o)
        PROVE  ReaderType' /\ \A q \in Reader : ReaderInv(q)'
    BY <1>0, <1>7 DEF ReadView, RGoto, ReaderType, RPCs, ReaderInv, store, locks, writers, StoreType, Vectors
  <1>8. ASSUME NEW o \in Op, ReadAfter(r, o)
        PROVE  ReaderType' /\ \A q \in Reader : ReaderInv(q)'
    BY <1>0, <1>8, Nothing DEF ReadAfter, Drop, RGoto, ReaderType, RPCs, ReaderInv, store, locks, writers, StoreType
  <1>9. CASE ReadScanned(r)
    BY <1>0, <1>9 DEF ReadScanned, NextScan, RGoto, ReaderType, RPCs, ReaderInv, store, locks, writers, StoreType, Vectors
  <1>10. CASE ReadCheckSeal(r)
    BY <1>0, <1>a, <1>10, Nothing DEF ReadCheckSeal, Drop, RGoto, ReaderType, RPCs, ReaderInv, store, locks, writers, StoreType
  <1>11. CASE ReadCheckLock(r)
    BY <1>0, <1>11, Nothing DEF ReadCheckLock, Drop, RGoto, ReaderType, RPCs, ReaderInv, store, locks, writers, StoreType
  <1>12. CASE ReadReturn(r)
    BY <1>0, <1>12, Nothing DEF ReadReturn, Drop, RGoto, ReaderType, RPCs, ReaderInv, store, locks, writers, StoreType
  <1>13. QED
    BY <1>1, <1>2, <1>3, <1>4, <1>5, <1>6, <1>7, <1>8, <1>9, <1>10, <1>11, <1>12 DEF Read

\* Scans of a growing payload: the reader that steps keeps its own brackets.
LEMMA ReaderScans ==
    ASSUME IInv, NEW r \in Reader, Read(r)
    PROVE  \A q \in Reader : ScanInv(q)'
  <1>0. /\ ReaderType /\ gen \in Nat /\ files \in Vectors /\ files' = files
        /\ \A q \in Reader : ScanInv(q)
    BY DEF IInv, TypeOK, StoreType, store, Read, ReadStart, ReadEnter, ReadGiveUp,
       ReadSeal, ReadRefused, ReadVector, ReadView, ReadAfter, ReadScanned,
       ReadCheckSeal, ReadCheckLock, ReadReturn
  <1>n. \A v \in Vectors, o \in Op : v[o] \in Int
    BY ConstantAssumption DEF Vectors
  <1> USE DEF ReaderType, RPCs, RGoto, ScanInv
  <1>1. ASSUME NEW m \in {"strict", "inspect"}, ReadStart(r, m)
        PROVE  \A q \in Reader : ScanInv(q)'
    BY <1>0, <1>1 DEF ReadStart
  <1>2. CASE ReadEnter(r)
    BY <1>0, <1>2 DEF ReadEnter
  <1>3. CASE ReadGiveUp(r) \/ ReadRefused(r) \/ ReadReturn(r)
    BY <1>0, <1>3, Nothing DEF ReadGiveUp, ReadRefused, ReadReturn, Drop
  <1>4. CASE ReadSeal(r)
    BY <1>0, <1>4 DEF ReadSeal
  <1>6. ASSUME NEW o \in Op, ReadVector(r, o)
        PROVE  \A q \in Reader : ScanInv(q)'
    BY <1>0, <1>n, <1>6 DEF ReadVector, Vectors
  <1>7. ASSUME NEW o \in Op, ReadView(r, o)
        PROVE  \A q \in Reader : ScanInv(q)'
    BY <1>0, <1>n, <1>7 DEF ReadView, Vectors
  <1>8. ASSUME NEW o \in Op, ReadAfter(r, o)
        PROVE  \A q \in Reader : ScanInv(q)'
    <2>1. CASE Drop(r, "wait")
      BY <1>0, <1>8, <2>1, Nothing DEF ReadAfter, Drop
    <2>2. CASE files[o] = rvec[r][o] /\ rleft' = [rleft EXCEPT ![r] = @ \ {o}]
               /\ UNCHANGED <<rpc, rvec, rview>>
      <3>1. rpc[r] = "after" /\ rvec[r] \in Vectors /\ rview[r] \in Vectors
        BY <1>0, <1>8 DEF ReadAfter
      <3>2. rvec[r][o] <= rview[r][o] /\ rview[r][o] <= files[o]
        BY <1>0, <3>1
      <3>3. rvec[r][o] \in Int /\ rview[r][o] \in Int
        BY <1>n, <3>1
      <3>4. rview[r][o] = rvec[r][o]
        BY <2>2, <3>2, <3>3
      <3>5. QED  BY <1>0, <2>2, <3>1, <3>4
    <2>3. QED  BY <1>8, <2>1, <2>2 DEF ReadAfter
  <1>9. CASE ReadScanned(r)
    BY <1>0, <1>9 DEF ReadScanned, NextScan, Vectors
  <1>10. CASE ReadCheckSeal(r) \/ ReadCheckLock(r)
    BY <1>0, <1>10, Nothing DEF ReadCheckSeal, ReadCheckLock, Drop
  <1>11. QED
    BY <1>1, <1>2, <1>3, <1>4, <1>6, <1>7, <1>8, <1>9, <1>10 DEF Read

\* A step of withStableRead, whichever it is, keeps the whole invariant.
LEMMA ReaderStep ==
    ASSUME IInv, NEW r \in Reader, Read(r)
    PROVE  IInv'
  <1>1. UNCHANGED <<store, locks, writers, faults>>
    BY DEF Read, ReadStart, ReadEnter, ReadGiveUp, ReadSeal, ReadRefused,
       ReadVector, ReadView, ReadAfter, ReadScanned, ReadCheckSeal,
       ReadCheckLock, ReadReturn
  <1>2. StoreType' /\ WriterType'
    BY <1>1 DEF IInv, TypeOK, StoreType, WriterType, store, locks, writers
  <1>3. LockInv' /\ SealInv'
    BY <1>1 DEF IInv, LockInv, SealInv, store, locks, writers, HoldsLock, Odd, Whole, Grown
  <1>4. TransportInv'
    BY <1>1 DEF IInv, TransportInv, store, Odd, Residual, Published, Closable
  <1>5. \A p \in Proc : WriterInv(p)'
    BY <1>1 DEF IInv, WriterInv, store, locks, writers, Odd, Residual, Published, Owns, Closable
  <1>6. QED  BY <1>2, <1>3, <1>4, <1>5, ReaderMoves, ReaderScans DEF IInv, TypeOK

-----------------------------------------------------------------------------
(* Steps of a writer. *)

WInv == StoreType /\ WriterType /\ LockInv /\ SealInv /\ TransportInv
        /\ \A p \in Proc : WriterInv(p)

\* createOrRepair...: a prepared transport is a typed one of its own target.
LEMMA PrepareStep ==
    ASSUME StoreType, NEW p \in Proc, NEW t \in Targets, req[p] \in Op, Prepare(p, t)
    PROVE  /\ transport' \in Transports
           /\ transport'.target = t
           /\ transport'.stage \in {"OPEN", "RESERVED", "STAGED"}
           /\ transport'.op = IF transport = NoTransport THEN req[p] ELSE transport.op
           /\ transport # NoTransport => Residual(t)
  <1>1. CASE transport = NoTransport
    BY <1>1 DEF Prepare, Residual, Transports, Stages, Targets, NoTransport
  <1>2. CASE transport # NoTransport
    BY <1>2 DEF Prepare, NextStage, Residual, StoreType, Transports, Stages, Targets
  <1>3. QED  BY <1>1, <1>2

\* Preparing the odd seal, before anything is published.
LEMMA BeginPrepareStep ==
    ASSUME WInv, NEW p \in Proc, BeginPrepare(p)
    PROVE  WInv'
  <1>1. HoldsLock(p) /\ req[p] \in Op
    BY DEF BeginPrepare, WInv, LockInv
  <1>2. \A q \in Proc : q # p => pc[q] \in {"idle", "acquire"}
    BY <1>1 DEF WInv, LockInv, HoldsLock, WriterType, PCs
  <1>3. /\ Prepare(p, "BEGIN")
        /\ UNCHANGED <<gen, active, preVec, files, lineage, lock, lockDead, faults,
                       pc, req, started, kind, startVec>>
    BY DEF BeginPrepare, locks, writers
  <1>4. /\ transport' \in Transports
        /\ transport'.target = "BEGIN"
        /\ transport'.stage \in {"OPEN", "RESERVED", "STAGED"}
        /\ transport'.op = IF transport = NoTransport THEN req[p] ELSE transport.op
        /\ transport # NoTransport => Residual("BEGIN")
    BY <1>1, <1>3, PrepareStep DEF WInv, Targets
  <1>5. StoreType' /\ WriterType' /\ LockInv' /\ SealInv'
    BY <1>3, <1>4 DEF WInv, StoreType, WriterType, LockInv, SealInv, HoldsLock, Odd, Whole, Grown
  <1>6. WriterInv(p)
    BY DEF WInv
  <1>7. TransportInv'
    BY <1>3, <1>4, <1>6 DEF BeginPrepare, WInv, TransportInv, WriterInv, Owns, Closable, Residual, Odd
  <1>8. WriterInv(p)'
    BY <1>3, <1>4, <1>6 DEF BeginPrepare, WriterInv, Owns, Closable, Residual, Published, Odd
  <1>9. \A q \in Proc : q # p => WriterInv(q)'
    BY <1>2, <1>3 DEF WriterInv
  <1>10. QED  BY <1>5, <1>7, <1>8, <1>9 DEF WInv

\* Preparing a payload file moves the callback's transport and nothing else.
LEMMA WritePrepareStep ==
    ASSUME WInv, NEW p \in Proc, WritePrepare(p)
    PROVE  WInv'
  <1>1. HoldsLock(p) /\ req[p] \in Op
    BY DEF WritePrepare, WInv, LockInv
  <1>2. \A q \in Proc : q # p => pc[q] \in {"idle", "acquire"}
    BY <1>1 DEF WInv, LockInv, HoldsLock, WriterType, PCs
  <1>3. /\ Prepare(p, "PAYLOAD")
        /\ UNCHANGED <<gen, active, preVec, files, lineage, lock, lockDead, faults,
                       pc, req, started, kind, startVec>>
    BY DEF WritePrepare, locks, writers
  <1>4. /\ transport' \in Transports
        /\ transport'.target = "PAYLOAD"
        /\ transport'.stage \in {"OPEN", "RESERVED", "STAGED"}
        /\ transport'.op = IF transport = NoTransport THEN req[p] ELSE transport.op
        /\ transport # NoTransport => Residual("PAYLOAD")
    BY <1>1, <1>3, PrepareStep DEF WInv, Targets
  <1>5. StoreType' /\ WriterType' /\ LockInv' /\ SealInv'
    BY <1>3, <1>4 DEF WInv, StoreType, WriterType, LockInv, SealInv, HoldsLock, Odd, Whole, Grown
  <1>6. WriterInv(p)
    BY DEF WInv
  <1>7. TransportInv'
    BY <1>3, <1>4, <1>6 DEF WritePrepare, WInv, TransportInv, WriterInv, Owns, Closable, Residual, Odd
  <1>8. WriterInv(p)'
    BY <1>3, <1>4, <1>6 DEF WritePrepare, WriterInv, Owns, Closable, Residual, Published, Odd
  <1>9. \A q \in Proc : q # p => WriterInv(q)'
    BY <1>2, <1>3 DEF WriterInv
  <1>10. QED  BY <1>5, <1>7, <1>8, <1>9 DEF WInv

\* Publishing a payload file: the bound operation's vector grows by one.
LEMMA WritePublishStep ==
    ASSUME WInv, NEW p \in Proc, WritePublish(p)
    PROVE  WInv'
  <1>1. HoldsLock(p) /\ req[p] \in Op /\ Owns(p) /\ WriterInv(p)
    BY DEF WritePublish, WInv, LockInv, WriterInv
  <1>2. \A q \in Proc : q # p => pc[q] \in {"idle", "acquire"}
    BY <1>1 DEF WInv, LockInv, HoldsLock, WriterType, PCs
  <1>3. /\ UNCHANGED <<gen, active, preVec, lineage, lock, lockDead, faults,
                       pc, req, started, kind, startVec>>
        /\ transport # NoTransport /\ transport.target = "PAYLOAD"
        /\ transport' = [transport EXCEPT !.stage = "PUBLISHED"]
        /\ files' = [files EXCEPT ![req[p]] = @ + 1]
        /\ pc[p] = "callback"
    BY DEF WritePublish, CanPublish, Publish, Residual, NoTransport, locks, writers
  <1>4. transport' \in Transports /\ transport'.target = "PAYLOAD" /\ transport'.op = transport.op
    BY <1>3 DEF WInv, StoreType, Transports, Stages
  <1>5. files[req[p]] < Steps
    BY <1>1 DEF WritePublish, CanPublish, WInv, TransportInv, Owns, Residual, NoTransport
  <1>6. files' \in Vectors
    BY <1>1, <1>3, <1>5, ConstantAssumption DEF WInv, StoreType, Vectors
  <1>7. StoreType' /\ WriterType' /\ LockInv'
    BY <1>3, <1>4, <1>6 DEF WInv, StoreType, WriterType, LockInv, HoldsLock
  <1>8. SealInv'
    BY <1>1, <1>3, ConstantAssumption DEF WInv, SealInv, Owns, Odd, Whole, Grown, StoreType, Vectors
  <1>9. TransportInv'
    BY <1>1, <1>3, <1>4 DEF WInv, TransportInv, Owns, Residual, Odd
  <1>10. WriterInv(p)'
    BY <1>1, <1>3, <1>4 DEF WriterInv, Owns, Residual, Odd
  <1>11. \A q \in Proc : q # p => WriterInv(q)'
    BY <1>2, <1>3 DEF WriterInv
  <1>12. QED  BY <1>7, <1>8, <1>9, <1>10, <1>11 DEF WInv

\* Preparing the even seal leaves the transaction closable.
LEMMA CompletePrepareStep ==
    ASSUME WInv, NEW p \in Proc, CompletePrepare(p)
    PROVE  WInv'
  <1>1. HoldsLock(p) /\ req[p] \in Op
    BY DEF CompletePrepare, WInv, LockInv
  <1>2. \A q \in Proc : q # p => pc[q] \in {"idle", "acquire"}
    BY <1>1 DEF WInv, LockInv, HoldsLock, WriterType, PCs
  <1>3. /\ Prepare(p, "COMPLETE")
        /\ UNCHANGED <<gen, active, preVec, files, lineage, lock, lockDead, faults,
                       pc, req, started, kind, startVec>>
    BY DEF CompletePrepare, locks, writers
  <1>4. /\ transport' \in Transports
        /\ transport'.target = "COMPLETE"
        /\ transport'.stage \in {"OPEN", "RESERVED", "STAGED"}
        /\ transport'.op = IF transport = NoTransport THEN req[p] ELSE transport.op
        /\ transport # NoTransport => Residual("COMPLETE")
    BY <1>1, <1>3, PrepareStep DEF WInv, Targets
  <1>5. StoreType' /\ WriterType' /\ LockInv' /\ SealInv'
    BY <1>3, <1>4 DEF WInv, StoreType, WriterType, LockInv, SealInv, HoldsLock, Odd, Whole, Grown
  <1>6. WriterInv(p)
    BY DEF WInv
  <1>7. TransportInv'
    BY <1>3, <1>4, <1>6 DEF CompletePrepare, WInv, TransportInv, WriterInv, Owns, Closable, Residual, Odd
  <1>8. WriterInv(p)'
    BY <1>3, <1>4, <1>6 DEF CompletePrepare, WriterInv, Owns, Closable, Residual, Published, Odd
  <1>9. \A q \in Proc : q # p => WriterInv(q)'
    BY <1>2, <1>3 DEF WriterInv
  <1>10. QED  BY <1>5, <1>7, <1>8, <1>9 DEF WInv

\* Once the even seal is out, the transport has nothing to say about a payload.
LEMMA CleanupCompletedEvenStep ==
    ASSUME WInv, NEW p \in Proc, CleanupCompletedEven(p)
    PROVE  WInv'
  <1>1. /\ HoldsLock(p) /\ ~Odd(gen)
        /\ transport' = NoTransport /\ lineage' = FALSE
        /\ UNCHANGED <<gen, active, preVec, files, lock, lockDead, faults,
                       pc, req, started, kind, startVec>>
    BY DEF CleanupCompletedEven, EvenLeftover, WInv, LockInv, locks, writers
  <1>2. \A q \in Proc : q # p => pc[q] \in {"idle", "acquire"}
    BY <1>1 DEF WInv, LockInv, HoldsLock, WriterType, PCs
  <1>3. StoreType' /\ WriterType' /\ LockInv' /\ SealInv'
    BY <1>1 DEF WInv, StoreType, WriterType, LockInv, SealInv, HoldsLock, Odd, Whole, Grown
  <1>4. TransportInv'
    BY <1>1 DEF TransportInv
  <1>5. WriterInv(p)'
    BY <1>1 DEF CleanupCompletedEven, WriterInv, Odd
  <1>6. \A q \in Proc : q # p => WriterInv(q)'
    BY <1>1, <1>2 DEF WriterInv
  <1>7. QED  BY <1>3, <1>4, <1>5, <1>6 DEF WInv

\* Cleaning up behind the even seal.
LEMMA CompleteCleanStep ==
    ASSUME WInv, NEW p \in Proc, CompleteClean(p)
    PROVE  WInv'
  <1>1. /\ HoldsLock(p) /\ pc[p] = "complete"
        /\ transport' = NoTransport /\ lineage' = FALSE
        /\ pc' = [pc EXCEPT ![p] = "release"]
        /\ UNCHANGED <<gen, active, preVec, files, lock, lockDead, faults,
                       req, started, kind, startVec>>
    BY DEF CompleteClean, Goto, WInv, LockInv, locks
  <1>2. \A q \in Proc : q # p => pc[q] \in {"idle", "acquire"}
    BY <1>1 DEF WInv, LockInv, HoldsLock, WriterType, PCs
  <1>3. StoreType' /\ WriterType' /\ SealInv'
    BY <1>1 DEF WInv, StoreType, WriterType, PCs, SealInv, Odd, Whole, Grown
  <1>4. LockInv'
    BY <1>1 DEF WInv, WriterType, LockInv, HoldsLock
  <1>5. TransportInv'
    BY <1>1 DEF TransportInv
  <1>6. pc'[p] = "release" /\ \A q \in Proc : q # p => pc'[q] = pc[q]
    BY <1>1 DEF WInv, WriterType
  <1>7. \A q \in Proc : WriterInv(q)'
    BY <1>2, <1>6 DEF WriterInv
  <1>8. QED  BY <1>3, <1>4, <1>5, <1>7 DEF WInv

\* A retry finishes the even seal its predecessor had only staged.
LEMMA NormalizeCompleteStep ==
    ASSUME WInv, NEW p \in Proc, NormalizeComplete(p)
    PROVE  WInv'
  <1>1. /\ HoldsLock(p) /\ pc[p] = "authorize" /\ req[p] \in Op
        /\ Odd(gen) /\ Residual("COMPLETE") /\ transport # NoTransport
        /\ UNCHANGED <<files, lineage, lock, lockDead, faults, pc, req, started,
                       kind, startVec>>
    BY DEF NormalizeComplete, SealEven, WInv, LockInv, Residual, NoTransport, locks, writers
  <1>2. \A q \in Proc : q # p => pc[q] \in {"idle", "acquire"}
    BY <1>1 DEF WInv, LockInv, HoldsLock, WriterType, PCs
  <1>3. Closable /\ transport.op = active /\ transport.op = req[p]
    BY <1>1 DEF WInv, TransportInv, WriterInv
  <1>4. WriterType' /\ LockInv'
    BY <1>1 DEF WInv, WriterType, LockInv, HoldsLock
  <1>5. \A q \in Proc : q # p => WriterInv(q)'
    BY <1>1, <1>2 DEF WriterInv
  <1>6. CASE Prepare(p, "COMPLETE") /\ UNCHANGED <<gen, active, preVec, files, lineage>>
    <2>1. /\ transport' \in Transports
          /\ transport'.target = "COMPLETE"
          /\ transport'.stage \in {"OPEN", "RESERVED", "STAGED"}
          /\ transport'.op = transport.op
      BY <1>1, <1>6, PrepareStep DEF WInv, Targets
    <2>2. StoreType' /\ SealInv'
      BY <1>1, <1>6, <2>1 DEF WInv, StoreType, SealInv, Odd, Whole, Grown
    <2>3. TransportInv' /\ WriterInv(p)'
      BY <1>1, <1>3, <1>6, <2>1 DEF TransportInv, WInv, WriterInv, Closable, Residual, Odd
    <2>4. QED  BY <1>4, <1>5, <2>2, <2>3 DEF WInv
  <1>7. CASE CanPublish("COMPLETE") /\ SealEven
    <2>1. /\ gen' = gen + 1 /\ active' = NoOp /\ preVec' = NoVector
          /\ transport' = [transport EXCEPT !.stage = "PUBLISHED"]
      BY <1>7 DEF SealEven, Publish
    <2>2. gen' \in Nat /\ ~Odd(gen')
      BY <1>1, <2>1, OddStep DEF WInv, StoreType
    <2>3. /\ transport' \in Transports /\ transport'.target = "COMPLETE"
          /\ transport'.stage = "PUBLISHED" /\ transport'.op = transport.op
      BY <1>1, <2>1 DEF WInv, StoreType, Transports, Stages, Residual
    <2>4. StoreType'
      BY <1>1, <2>1, <2>2, <2>3 DEF WInv, StoreType
    <2>5. Whole(files)
      BY <1>1, <1>3, ConstantAssumption DEF WInv, SealInv, Closable, Whole
    <2>6. SealInv'
      BY <1>1, <2>1, <2>2, <2>5 DEF SealInv, Whole, Odd
    <2>7. TransportInv' /\ WriterInv(p)'
      BY <1>1, <1>3, <2>2, <2>3 DEF TransportInv, WriterInv, Residual, Published, Odd
    <2>8. QED  BY <1>4, <1>5, <2>4, <2>6, <2>7 DEF WInv
  <1>8. QED  BY <1>6, <1>7 DEF NormalizeComplete

\* The writers' part of the invariant: one case per action.
LEMMA WriterStep ==
    ASSUME IInv, NEW p \in Proc, Run(p) \/ Contend(p) \/ Fail(p) \/ Exit(p)
    PROVE  WInv'
  <1>0. WInv
    BY DEF IInv, TypeOK, WInv
  <1>i. gen \in Nat /\ (gen + 1) \in Nat /\ (Odd(gen + 1) <=> ~Odd(gen))
    BY <1>0, OddStep DEF WInv, StoreType
  <1>g. UNCHANGED <<active, preVec, files>> => Grown' = Grown
    BY DEF Grown
  <1> USE ConstantAssumption, Nothing
      DEF WInv, StoreType, WriterType, LockInv, SealInv, TransportInv, WriterInv,
          Owns, Closable, HoldsLock, Residual, Published, Goto, PCs, Kinds, Vectors,
          Transports, Stages, Targets, NoTransport, Whole, store, locks, writers
  <1>1. CASE Release(p)
    BY SMTT(20), <1>0, <1>i, <1>g, <1>1 DEF Release, Forget
  <1>2. CASE CleanupCompletedEven(p)
    BY <1>0, <1>2, CleanupCompletedEvenStep
  <1>3. CASE EntryPass(p)
    BY SMTT(20), <1>0, <1>i, <1>g, <1>3 DEF EntryPass, RequestMatches, EvenLeftover, Mine
  <1>4. CASE EntryReject(p)
    BY SMTT(20), <1>0, <1>i, <1>g, <1>4 DEF EntryReject
  <1>5. CASE EntryReadOnly(p)
    BY SMTT(20), <1>0, <1>i, <1>g, <1>5 DEF EntryReadOnly
  <1>6. CASE NormalizeBegin(p)
    BY SMTT(20), <1>0, <1>i, <1>g, <1>6 DEF NormalizeBegin
  <1>7. CASE NormalizeComplete(p)
    BY <1>0, <1>7, NormalizeCompleteStep
  <1>8. CASE Resume(p)
    BY SMTT(20), <1>0, <1>i, <1>g, <1>8 DEF Resume, GenerationSettled, RecoveryKinds, PristineRefuses
  <1>9. CASE ResumeRefused(p)
    BY SMTT(20), <1>0, <1>i, <1>g, <1>9 DEF ResumeRefused
  <1>10. CASE BeginExhausted(p)
    BY SMTT(20), <1>0, <1>i, <1>g, <1>10 DEF BeginExhausted
  <1>11. CASE Begin(p)
    BY SMTT(20), <1>0, <1>i, <1>g, <1>11 DEF Begin, EvenLeftover
  <1>12. CASE BeginPrepare(p)
    BY <1>0, <1>12, BeginPrepareStep
  <1>13. CASE BeginPublish(p)
    BY SMTT(20), <1>0, <1>i, <1>13 DEF BeginPublish, CanPublish, Publish, Grown
  <1>14. CASE BeginClean(p)
    BY SMTT(20), <1>0, <1>i, <1>g, <1>14 DEF BeginClean
  <1>15. CASE WritePrepare(p)
    BY <1>0, <1>15, WritePrepareStep
  <1>16. CASE WritePublish(p)
    BY <1>0, <1>16, WritePublishStep
  <1>17. CASE WriteClean(p)
    BY SMTT(20), <1>0, <1>i, <1>g, <1>17 DEF WriteClean
  <1>18. CASE CallbackReturn(p)
    BY SMTT(20), <1>0, <1>i, <1>g, <1>18 DEF CallbackReturn
  <1>19. CASE ThrowKeepOdd(p)
    BY SMTT(20), <1>0, <1>i, <1>g, <1>19 DEF ThrowKeepOdd
  <1>20. CASE ThrowClean(p)
    BY SMTT(20), <1>0, <1>i, <1>g, <1>20 DEF ThrowClean, Removable
  <1>21. CASE ThrowComplete(p)
    BY SMTT(20), <1>0, <1>i, <1>g, <1>21 DEF ThrowComplete, Mutated
  <1>22. CASE ThrowStuck(p)
    BY SMTT(20), <1>0, <1>i, <1>g, <1>22 DEF ThrowStuck
  <1>23. CASE CompletePrepare(p)
    BY <1>0, <1>23, CompletePrepareStep
  <1>24. CASE CompletePublish(p)
    BY SMTT(20), <1>0, <1>i, <1>g, <1>24 DEF CompletePublish, SealEven, CanPublish, Publish
  <1>25. CASE CompleteClean(p)
    BY <1>0, <1>25, CompleteCleanStep
  <1>26. CASE Acquire(p)
    BY SMTT(20), <1>0, <1>i, <1>g, <1>26 DEF Acquire
  <1>27. CASE Reap(p)
    BY SMTT(20), <1>0, <1>i, <1>g, <1>27 DEF Reap
  <1>28. CASE GiveUp(p)
    BY SMTT(20), <1>0, <1>i, <1>g, <1>28 DEF GiveUp, Forget
  <1>29. CASE CallbackThrow(p)
    BY SMTT(20), <1>0, <1>i, <1>g, <1>29 DEF CallbackThrow
  <1>30. CASE Crash(p)
    BY SMTT(20), <1>0, <1>i, <1>g, <1>30 DEF Crash, Dies, Forget
  <1>31. CASE Exit(p)
    BY SMTT(20), <1>0, <1>i, <1>g, <1>31 DEF Exit, Dies, Forget
  <1>32. ASSUME NEW o \in Op, Request(p, o) PROVE WInv'
    BY <1>0, <1>i, <1>g, <1>32 DEF Request
  <1> HIDE DEF WInv, StoreType, WriterType, LockInv, SealInv, TransportInv, WriterInv,
           Owns, Closable, HoldsLock, Residual, Published, Goto, PCs, Kinds, Vectors,
           Transports, Stages, Targets, NoTransport, Whole, store, locks, writers
  <1>33. QED
    BY <1>1, <1>2, <1>3, <1>4, <1>5, <1>6, <1>7, <1>8, <1>9, <1>10, <1>11,
       <1>12, <1>13, <1>14, <1>15, <1>16, <1>17, <1>18, <1>19, <1>20, <1>21,
       <1>22, <1>23, <1>24, <1>25, <1>26, <1>27, <1>28, <1>29, <1>30, <1>31,
       <1>32
       DEF Run, Contend, Fail

\* All a writer's step may do to the seal and the payload.
Opens(p) ==
    /\ ~Odd(gen)
    /\ gen' = gen + 1 /\ active' = req[p] /\ req[p] \in Op
    /\ files' = files
Installs(p) ==
    /\ Odd(gen) /\ active = req[p] /\ req[p] \in Op
    /\ UNCHANGED <<gen, active, preVec>>
    /\ files' = [files EXCEPT ![req[p]] = @ + 1]
Closes ==
    /\ Odd(gen) /\ Closable
    /\ gen' = gen + 1 /\ active' = NoOp
    /\ files' = files

\* What a step of a writer does to the store: nothing, begin, write one file of
\* the bound operation, or close.
LEMMA WriterEffect ==
    ASSUME IInv, NEW p \in Proc, Run(p) \/ Contend(p) \/ Fail(p) \/ Exit(p)
    PROVE  /\ UNCHANGED readers
           /\ \/ UNCHANGED <<gen, active, preVec, files>>
              \/ Opens(p) \/ Installs(p) \/ Closes
  <1>0. WriterInv(p) /\ (pc[p] # "idle" => req[p] \in Op)
    BY DEF IInv, LockInv
  <1>1. CASE WritePublish(p)
    <2>1. Odd(gen) /\ active = req[p] /\ req[p] \in Op
      BY <1>0, <1>1 DEF WritePublish, WriterInv, Owns
    <2>2. QED  BY <1>1, <2>1 DEF WritePublish, Installs
  <1>2. CASE NormalizeComplete(p)
    <2>1. CASE CanPublish("COMPLETE") /\ SealEven
      <3>1. Odd(gen) /\ transport # NoTransport /\ Residual("COMPLETE")
        BY <1>2, <2>1 DEF NormalizeComplete, Residual, NoTransport
      <3>2. Closable
        BY <3>1 DEF IInv, TransportInv
      <3>3. QED  BY <1>2, <2>1, <3>1, <3>2 DEF NormalizeComplete, SealEven, Closes
    <2>2. QED  BY <1>2, <2>1 DEF NormalizeComplete
  <1>3. CASE CompletePublish(p)
    <2>1. Odd(gen) /\ Closable
      BY <1>0, <1>3 DEF CompletePublish, CanPublish, Published, WriterInv
    <2>2. QED  BY <1>3, <2>1 DEF CompletePublish, SealEven, Closes
  <1>4. CASE BeginPublish(p)
    <2>1. ~Odd(gen) /\ req[p] \in Op
      BY <1>0, <1>4 DEF BeginPublish, CanPublish, Published, WriterInv
    <2>2. QED  BY <1>4, <2>1 DEF BeginPublish, Opens
  <1>5. ASSUME ~WritePublish(p), ~NormalizeComplete(p), ~CompletePublish(p), ~BeginPublish(p)
        PROVE  UNCHANGED <<readers, gen, active, preVec, files>>
    BY <1>5 DEF Run, Contend, Fail, Request, Acquire, Reap, GiveUp, Release, Forget,
       CleanupCompletedEven, EntryPass, EntryReject, EntryReadOnly, NormalizeBegin,
       Resume, ResumeRefused, BeginExhausted, Begin, BeginPrepare, BeginClean,
       WritePrepare, WriteClean, CallbackReturn, CallbackThrow, ThrowKeepOdd, ThrowClean,
       ThrowComplete, ThrowStuck, CompletePrepare, CompleteClean, Crash, Exit, Dies, store
  <1>6. QED  BY <1>1, <1>2, <1>3, <1>4, <1>5

\* What that means to a reader: the seal never goes back, the payload only
\* grows, and it does not move under an even seal.
LEMMA WriterKeepsReaders ==
    ASSUME IInv, NEW p \in Proc, Run(p) \/ Contend(p) \/ Fail(p) \/ Exit(p)
    PROVE  ReaderType' /\ \A r \in Reader : ReaderInv(r)' /\ ScanInv(r)'
  <1>0. /\ gen \in Nat /\ files \in Vectors /\ ReaderType
        /\ \A r \in Reader : ReaderInv(r) /\ ScanInv(r)
    BY DEF IInv, TypeOK, StoreType
  <1>1. /\ UNCHANGED readers
        /\ gen' \in {gen, gen + 1}
        /\ ~Odd(gen) => files' = files
    BY WriterEffect DEF Opens, Installs, Closes
  <1>2. \A o \in Op : files'[o] \in Nat /\ files'[o] >= files[o]
    BY <1>0, WriterEffect, ConstantAssumption DEF Opens, Installs, Closes, Vectors
  <1>3. ReaderType'
    BY <1>0, <1>1 DEF ReaderType, readers
  <1>4. ASSUME NEW r \in Reader PROVE ReaderInv(r)'
    <2>1. rgen[r] \in Nat /\ rgen[r] <= gen /\ gen <= gen'
      BY <1>0, <1>1 DEF ReaderType, ReaderInv
    <2>2. gen' = rgen[r] => gen' = gen
      BY <1>0, <1>1, <2>1
    <2>3. QED  BY <1>0, <1>1, <2>1, <2>2 DEF ReaderInv, readers
  <1>5. ASSUME NEW r \in Reader PROVE ScanInv(r)'
    <2>1. \A o \in Op : /\ files[o] \in Int /\ rvec[r][o] \in Int
                          /\ rview[r][o] \in Int /\ files'[o] \in Int
      BY <1>0, <1>2, ConstantAssumption DEF Vectors, ReaderType
    <2>2. QED  BY <1>0, <1>1, <1>2, <2>1 DEF ScanInv, readers
  <1>6. QED  BY <1>3, <1>4, <1>5

\* Stuttering keeps the invariant.
LEMMA StutterIInv == ASSUME IInv, UNCHANGED vars PROVE IInv'
  <1> USE DEF IInv, vars, store, locks, writers, readers
  <1>1. TypeOK'
    BY DEF TypeOK, StoreType, WriterType, ReaderType
  <1>2. LockInv' /\ SealInv' /\ TransportInv'
    BY DEF LockInv, SealInv, TransportInv, HoldsLock, Odd, Whole, Grown, Residual, Published, Closable
  <1>3. \A p \in Proc : WriterInv(p)'
    BY DEF WriterInv, Odd, Residual, Published, Owns, Closable
  <1>4. \A r \in Reader : ReaderInv(r)' /\ ScanInv(r)'
    BY DEF ReaderInv, ScanInv, Odd, Whole
  <1>5. QED  BY <1>1, <1>2, <1>3, <1>4

\* IInv is inductive: one lemma per kind of actor.
LEMMA NextIInv == IInv /\ [Next]_vars => IInv'
  <1> SUFFICES ASSUME IInv, [Next]_vars PROVE IInv'
    OBVIOUS
  <1>1. ASSUME NEW p \in Proc, Run(p) \/ Contend(p) \/ Fail(p) \/ Exit(p) PROVE IInv'
    BY <1>1, WriterStep, WriterKeepsReaders DEF WInv, IInv, TypeOK
  <1>2. ASSUME NEW r \in Reader, Read(r) PROVE IInv'
    BY <1>2, ReaderStep
  <1>3. CASE UNCHANGED vars
    BY <1>3, StutterIInv
  <1>4. QED  BY <1>1, <1>2, <1>3 DEF Next

\* The whole inductive invariant, on every reachable state.
THEOREM Invariance == Spec => []IInv
  <1>1. QED  BY InitIInv, NextIInv, PTL DEF Spec

-----------------------------------------------------------------------------
(* What the runs check, for every value of the constants. *)

\* Every variable of withLock and withStableRead stays in its type.
THEOREM TypeCorrect == Spec => []TypeOK
  <1>1. IInv => TypeOK
    BY DEF IInv
  <1>2. QED  BY <1>1, Invariance, PTL

\* However many writers die wherever, a half-installed operation is the one
\* the odd seal names: an even seal never covers a torn payload.
THEOREM TornIsBound == Spec => []PartialIsBound
  <1>1. IInv => PartialIsBound
    BY DEF IInv, SealInv, PartialIsBound
  <1>2. QED  BY <1>1, Invariance, PTL

\* A begun transaction can always be completed within MAX_SAFE_INTEGER.
THEOREM MarkersClose == Spec => []MarkerCanClose
  <1>1. IInv => MarkerCanClose
    BY ConstantAssumption DEF IInv, TypeOK, StoreType, SealInv, MarkerCanClose
  <1>2. QED  BY <1>1, Invariance, PTL

\* The residual an atomic write leaves under an odd seal belongs to the bound
\* transaction, so normalization and retries never act on a stranger's files.
THEOREM ResidualsBound == Spec => []ResidualIsBound
  <1>1. IInv => ResidualIsBound
    BY DEF IInv, TransportInv, ResidualIsBound
  <1>2. QED  BY <1>1, Invariance, PTL

\* withStableRead's non-atomic scans return the payload of one committed
\* moment, with any number of readers, writers and crashes.
THEOREM ReadsCommitted == Spec => []ReadIsCommitted
  <1>1. IInv => ReadIsCommitted
    BY DEF IInv, ReaderInv, ReadIsCommitted
  <1>2. QED  BY <1>1, Invariance, PTL

\* An odd inspection, too, returns one state of the payload.
THEOREM CrashReadsOneState == Spec => []CrashReadIsOneState
  <1>1. IInv => CrashReadIsOneState
    BY DEF IInv, ScanInv, CrashReadIsOneState
  <1>2. QED  BY <1>1, Invariance, PTL

\* The retry of a crashed operation whose caller passes the pristine hook is refused
\* exactly where the crash fell between its first file and its witness.
THEOREM RefusalsAreHalfway == Spec => []RefusedHalfway
  <1>1. IInv => RefusedHalfway
    <2> SUFFICES ASSUME IInv, Odd(gen), active \in Resumable
                 PROVE  RecoveryKinds(active) = {} <=> files[active] \in 1..(WitnessAt - 1)
      BY DEF RefusedHalfway
    <2>1. /\ active \in Op /\ files \in Vectors /\ preVec \in Vectors
          /\ Grown /\ Whole(preVec)
      BY ConstantAssumption DEF IInv, TypeOK, StoreType, SealInv
    <2>2. Steps \in Nat /\ WitnessAt \in 1..Steps
      BY ConstantAssumption
    <2>3. files[active] \in 0..Steps /\ preVec[active] \in {0, Steps}
      BY <2>1 DEF Vectors, Whole
    <2>4. files = preVec <=> files[active] = preVec[active]
      BY <2>1 DEF Grown, Vectors
    <2>5. preVec[active] <= files[active]
      BY <2>1 DEF Grown
    <2>6. RecoveryKinds(active) = {} <=> PristineRefuses(active)
      BY DEF RecoveryKinds
    <2>7. PristineRefuses(active) <=> files[active] < WitnessAt /\ files # preVec
      BY <2>2, <2>3 DEF PristineRefuses, Witnessed
    <2>8. QED  BY <2>2, <2>3, <2>4, <2>5, <2>6, <2>7
  <1>2. QED  BY <1>1, Invariance, PTL

\* What a step of a reader does to the store: nothing.
LEMMA ReaderEffect ==
    ASSUME NEW r \in Reader, Read(r)
    PROVE  UNCHANGED <<store, locks, writers, faults>>
  BY DEF Read, ReadStart, ReadEnter, ReadGiveUp, ReadSeal, ReadRefused,
     ReadVector, ReadView, ReadAfter, ReadScanned, ReadCheckSeal,
     ReadCheckLock, ReadReturn

\* An odd seal is only ever closed over a whole or an untouched operation.
THEOREM ClosedWhole == Spec => ClosesWholeOrPristine
  <1> DEFINE A == Odd(gen) /\ gen' # gen => files[active] = Steps \/ files = preVec
  <1>1. IInv /\ [Next]_vars => [A]_vars
    <2> SUFFICES ASSUME IInv, Next, Odd(gen), gen' # gen
                 PROVE  files[active] = Steps \/ files = preVec
      OBVIOUS
    <2>1. ASSUME NEW p \in Proc, Run(p) \/ Contend(p) \/ Fail(p) \/ Exit(p)
          PROVE  Closable
      BY <2>1, WriterEffect DEF Opens, Installs, Closes
    <2>2. ASSUME NEW r \in Reader, Read(r) PROVE FALSE
      BY <2>2, ReaderEffect DEF store
    <2>3. QED  BY <2>1, <2>2 DEF Next, Closable
  <1>2. QED  BY <1>1, Invariance, PTL DEF Spec, ClosesWholeOrPristine

\* Nobody but the holder of the lock, retrying the bound transaction, writes
\* the store while its seal is odd.
THEOREM OnlyRetriesWrite == Spec => OnlyBoundRetryWrites
  <1>1. IInv /\ [Next]_vars =>
          [store' # store /\ Odd(gen) => \E p \in Proc : HoldsLock(p) /\ req[p] = active]_vars
    <2> SUFFICES ASSUME IInv, Next, store' # store, Odd(gen)
                 PROVE  \E p \in Proc : HoldsLock(p) /\ req[p] = active
      OBVIOUS
    <2>1. ASSUME NEW r \in Reader, Read(r) PROVE FALSE
      BY <2>1, ReaderEffect
    <2>2. ASSUME NEW p \in Proc, Contend(p) \/ Fail(p) \/ Exit(p) PROVE FALSE
      BY <2>2 DEF Contend, Request, Acquire, Reap, GiveUp, Fail, CallbackThrow, Crash,
         Exit, Dies
    <2>3. ASSUME NEW p \in Proc, Run(p) PROVE HoldsLock(p) /\ req[p] = active
      <3>1. pc[p] \in {"authorize", "begin", "callback", "throw", "complete"}
        BY <2>3 DEF Run, Release, CleanupCompletedEven, EvenLeftover, EntryPass,
           EntryReject, EntryReadOnly, NormalizeBegin, NormalizeComplete, Resume,
           ResumeRefused, BeginExhausted, Begin, BeginPrepare, BeginPublish, BeginClean,
           WritePrepare, WritePublish, WriteClean, CallbackReturn, ThrowKeepOdd,
           ThrowClean, ThrowComplete, ThrowStuck, CompletePrepare, CompletePublish,
           CompleteClean
      <3>2. QED  BY <3>1 DEF IInv, LockInv, WriterInv, Owns
    <2>4. QED  BY <2>1, <2>2, <2>3 DEF Next
  <1>2. QED  BY <1>1, Invariance, PTL DEF Spec, OnlyBoundRetryWrites

-----------------------------------------------------------------------------
(* The protocol implements AtomicStore. *)

\* An even, idle root is a store in which nothing has happened.
LEMMA InitRefines == Init => Abstract!Init
  BY ConstantAssumption DEF Init, Abstract!Init, Answered, NothingDone

\* A writer opens, installs, closes, or does nothing the abstract store sees.
LEMMA WriterRefines ==
    ASSUME IInv, NEW p \in Proc, Run(p) \/ Contend(p) \/ Fail(p) \/ Exit(p)
    PROVE  [Abstract!Next]_Abstract!vars
  <1>0. /\ UNCHANGED readers
        /\ gen \in Nat /\ files \in Vectors
        /\ (Odd(gen) <=> active # NoOp)
        /\ Steps \in Nat
    BY WriterEffect, ConstantAssumption DEF IInv, TypeOK, StoreType, SealInv
  <1>1. UNCHANGED [r \in Reader |->
            IF Answered(r) THEN {{o \in Op : rview[r][o] = Steps}} ELSE {}]
    BY <1>0 DEF readers, Answered, Odd
  <1>2. CASE UNCHANGED <<gen, active, preVec, files>>
    BY <1>1, <1>2 DEF Abstract!vars
  <1>3. CASE Opens(p)
    <2>1. Abstract!Open(req[p])
      BY <1>0, <1>1, <1>3 DEF Opens, Abstract!Open
    <2>2. QED  BY <1>3, <2>1 DEF Opens, Abstract!Next
  <1>4. CASE Installs(p)
    <2>1. \A o \in Op : o # req[p] => files'[o] = files[o]
      BY <1>0, <1>4 DEF Installs, Vectors
    <2>2. files[req[p]] \in 0..Steps /\ files'[req[p]] \in 0..Steps
          /\ files'[req[p]] = files[req[p]] + 1
      <3>1. files' \in Vectors
        BY WriterStep DEF WInv, StoreType
      <3>2. QED  BY <1>0, <1>4, <3>1 DEF Installs, Vectors
    <2>3. CASE files'[req[p]] = Steps
      <3>1. {o \in Op : files'[o] = Steps} = {o \in Op : files[o] = Steps} \cup {req[p]}
        BY <1>4, <2>1, <2>3 DEF Installs
      <3>2. Abstract!Install(req[p])
        BY <1>1, <1>4, <3>1 DEF Installs, Abstract!Install
      <3>3. req[p] \in Op
        BY <1>4 DEF Installs
      <3>4. \E o \in Op : Abstract!Install(o)
        BY <3>2, <3>3 DEF Abstract!Install
      <3>5. QED  BY <3>4 DEF Abstract!Next
    <2>4. CASE files'[req[p]] # Steps
      <3>1. {o \in Op : files'[o] = Steps} = {o \in Op : files[o] = Steps}
        BY <1>0, <1>4, <2>1, <2>2, <2>4 DEF Installs
      <3>2. QED  BY <1>1, <1>4, <3>1 DEF Installs, Abstract!vars
    <2>5. QED  BY <2>3, <2>4
  <1>5. CASE Closes
    <2>1. Abstract!Close
      BY <1>0, <1>1, <1>5 DEF Closes, Abstract!Close
    <2>2. QED  BY <2>1 DEF Abstract!Next
  <1>6. QED  BY <1>2, <1>3, <1>4, <1>5, WriterEffect

\* A reader takes its snapshot when it finds the even seal unchanged.
LEMMA ReaderRefines ==
    ASSUME IInv, NEW r \in Reader, Read(r)
    PROVE  [Abstract!Next]_Abstract!vars
  <1> DEFINE done == {o \in Op : files[o] = Steps}
             ans  == [q \in Reader |->
                        IF Answered(q) THEN {{o \in Op : rview[q][o] = Steps}} ELSE {}]
  <1>0. /\ UNCHANGED <<files, active, gen>>
        /\ ReaderType /\ ReaderInv(r)
        /\ (Odd(gen) <=> active # NoOp)
    BY ReaderEffect DEF store, IInv, TypeOK, SealInv
  <1>1. \A q \in Reader : q # r => rpc'[q] = rpc[q] /\ rgen'[q] = rgen[q] /\ rview'[q] = rview[q]
    BY <1>0 DEF ReaderType, Read, ReadStart, ReadEnter, ReadGiveUp, ReadSeal,
       ReadRefused, ReadVector, ReadView, ReadAfter, ReadScanned, ReadCheckSeal,
       ReadCheckLock, ReadReturn, Drop, RGoto
  <1>2. \A q \in Reader : q # r => ans'[q] = ans[q]
    BY <1>1 DEF Answered, Odd
  <1>3. CASE ~Answered(r)'
    <2>1. ans'[r] = {}
      BY <1>3
    <2>2. ans' = [ans EXCEPT ![r] = {}]
      BY <1>2, <2>1
    <2>3. Abstract!Forget(r)
      BY <1>0, <2>2 DEF Abstract!Forget
    <2>4. QED  BY <2>3 DEF Abstract!Next
  <1>4. CASE Answered(r)' /\ Answered(r)
    <2>1. rview'[r] = rview[r]
      BY <1>0, <1>4 DEF ReaderType, Answered, Odd, Read, ReadStart, ReadEnter, ReadGiveUp,
         ReadSeal, ReadRefused, ReadVector, ReadView, ReadAfter, ReadScanned,
         NextScan, ReadCheckSeal, ReadCheckLock, ReadReturn, Drop, RGoto
    <2>2. ans' = ans
      BY <1>2, <1>4, <2>1
    <2>3. QED  BY <1>0, <2>2 DEF Abstract!vars
  <1>5. CASE Answered(r)' /\ ~Answered(r)
    <2>1. /\ rpc[r] = "seal" /\ gen = rgen[r] /\ ~Odd(gen)
          /\ UNCHANGED <<rview, rgen>>
      BY <1>0, <1>5 DEF ReaderType, Answered, Odd, Read, ReadStart, ReadEnter, ReadGiveUp,
         ReadSeal, ReadRefused, ReadVector, ReadView, ReadAfter, ReadScanned,
         NextScan, ReadCheckSeal, ReadCheckLock, ReadReturn, Drop, RGoto
    <2>2. rview'[r] = files
      BY <1>0, <2>1 DEF ReaderInv
    <2>3. ans'[r] = {done}
      BY <1>5, <2>2
    <2>4. ans' = [ans EXCEPT ![r] = {done}]
      BY <1>2, <2>3
    <2>5. Abstract!Snapshot(r)
      BY <1>0, <2>1, <2>4 DEF Abstract!Snapshot
    <2>6. QED  BY <2>5 DEF Abstract!Next
  <1>6. QED  BY <1>3, <1>4, <1>5

\* withLock and withStableRead, with their crashes, retries and scans, behave
\* as a store with serial transactions and instantaneous reads.
THEOREM Refinement == Spec => ImplementsAtomicStore
  <1>1. IInv /\ [Next]_vars => [Abstract!Next]_Abstract!vars
    <2> SUFFICES ASSUME IInv, [Next]_vars PROVE [Abstract!Next]_Abstract!vars
      OBVIOUS
    <2>1. CASE UNCHANGED vars
      BY <2>1 DEF vars, store, readers, Abstract!vars, Answered, Odd
    <2>2. ASSUME NEW p \in Proc, Run(p) \/ Contend(p) \/ Fail(p) \/ Exit(p)
          PROVE  [Abstract!Next]_Abstract!vars
      BY <2>2, WriterRefines
    <2>3. ASSUME NEW r \in Reader, Read(r)
          PROVE  [Abstract!Next]_Abstract!vars
      BY <2>3, ReaderRefines
    <2>4. QED  BY <2>1, <2>2, <2>3 DEF Next
  <1>2. QED  BY <1>1, InitRefines, Invariance, PTL DEF Spec, ImplementsAtomicStore, Abstract!Spec

-----------------------------------------------------------------------------
(* The writers and their lock. *)

\* What a step of a writer does to the lock: take it free, reap it dead, give it
\* back, or die with it, and the last two only where he has it.
LEMMA WriterLocks ==
    ASSUME IInv, NEW p \in Proc, Run(p) \/ Contend(p) \/ Fail(p) \/ Exit(p)
    PROVE  \/ UNCHANGED locks
           \/ lock = NoProc /\ lockDead = 0 /\ lock' = p /\ lockDead' = 0
           \/ lockDead # 0 /\ lock' = NoProc /\ lockDead' = 0
           \/ HoldsLock(p) /\ lock' = NoProc /\ lockDead' = 0
           \/ HoldsLock(p) /\ lock' = p /\ lockDead' # 0
  <1>0. /\ lock = NoProc => lockDead = 0
        /\ pc[p] \notin {"idle", "acquire"} => HoldsLock(p)
        /\ faults \in Nat
    BY DEF IInv, LockInv, TypeOK, StoreType
  <1>1. CASE Acquire(p)
    BY <1>0, <1>1 DEF Acquire
  <1>2. CASE Reap(p)
    BY <1>2 DEF Reap
  <1>3. CASE Release(p)
    <2>1. HoldsLock(p)
      BY <1>0, <1>3 DEF Release
    <2>2. QED  BY <1>3, <2>1 DEF Release, HoldsLock
  <1>4. CASE Crash(p) \/ Exit(p)
    <2>1. Dies(p)
      BY <1>4 DEF Crash, Exit
    <2>2. faults' # 0
      BY <1>0, <2>1 DEF Dies
    <2>3. CASE HoldsLock(p)
      BY <2>1, <2>2, <2>3 DEF Dies, HoldsLock
    <2>4. CASE ~HoldsLock(p)
      BY <2>1, <2>4 DEF Dies, locks
    <2>5. QED  BY <2>3, <2>4
  <1>5. ASSUME ~Acquire(p), ~Reap(p), ~Release(p), ~Crash(p), ~Exit(p)
        PROVE  UNCHANGED locks
    BY <1>5 DEF Run, Contend, Fail, Request, GiveUp, CleanupCompletedEven, EntryPass,
       EntryReject, EntryReadOnly, NormalizeBegin, NormalizeComplete, Resume, ResumeRefused,
       BeginExhausted, Begin, BeginPrepare, BeginPublish, BeginClean, WritePrepare,
       WritePublish, WriteClean, CallbackReturn, CallbackThrow, ThrowKeepOdd, ThrowClean,
       ThrowComplete, ThrowStuck, CompletePrepare, CompletePublish, CompleteClean, SealEven,
       Publish, locks
  <1>6. QED  BY <1>1, <1>2, <1>3, <1>4, <1>5

\* Seen from its lock, withLock does what AtomicLock allows, and with StoreLock's
\* Refinement that is what the symlinks and reapers provide: nobody releases what
\* he has not, nobody takes what a dead writer left before it is reaped.
THEOREM LockIsAtomic == Spec => UsesAtomicLock
  <1>1. Init => WriterLock!Init
    BY DEF Init, WriterLock!Init
  <1>2. IInv /\ [Next]_vars => [WriterLock!Next]_(WriterLock!vars)
    <2> SUFFICES ASSUME IInv, [Next]_vars PROVE [WriterLock!Next]_(WriterLock!vars)
      OBVIOUS
    <2>1. CASE UNCHANGED locks
      BY <2>1 DEF locks, WriterLock!vars
    <2>2. CASE UNCHANGED vars
      BY <2>1, <2>2 DEF vars, locks
    <2>3. ASSUME NEW r \in Reader, Read(r) PROVE UNCHANGED locks
      BY <2>3 DEF Read, ReadStart, ReadEnter, ReadGiveUp, ReadSeal, ReadRefused, ReadVector,
         ReadView, ReadAfter, ReadScanned, ReadCheckSeal, ReadCheckLock, ReadReturn, Drop,
         RGoto, locks
    <2>4. ASSUME NEW p \in Proc, Run(p) \/ Contend(p) \/ Fail(p) \/ Exit(p)
          PROVE  [WriterLock!Next]_(WriterLock!vars)
      <3>1. p # NoProc
        BY ConstantAssumption
      <3>2. CASE lock = NoProc /\ lockDead = 0 /\ lock' = p /\ lockDead' = 0
        BY <3>2 DEF WriterLock!Next, WriterLock!Acquire
      <3>3. CASE lockDead # 0 /\ lock' = NoProc /\ lockDead' = 0
        BY <3>3 DEF WriterLock!Next, WriterLock!Reap
      <3>4. CASE HoldsLock(p) /\ lock' = NoProc /\ lockDead' = 0
        BY <3>1, <3>4 DEF HoldsLock, WriterLock!Next, WriterLock!Release
      <3>5. CASE HoldsLock(p) /\ lock' = p /\ lockDead' # 0
        BY <3>1, <3>5 DEF HoldsLock, WriterLock!Next, WriterLock!Die
      <3>6. QED  BY <2>1, <2>4, <3>2, <3>3, <3>4, <3>5, WriterLocks
    <2>5. QED  BY <2>1, <2>2, <2>3, <2>4 DEF Next
  <1>3. QED  BY <1>1, <1>2, Invariance, PTL DEF Spec, UsesAtomicLock, WriterLock!Spec

-----------------------------------------------------------------------------
(***************************************************************************)
(* The merge, which records what it does in transactions of this store,    *)
(* each of them one step: theorems about GithubMerge, for any runs of the  *)
(* request, any crashes, and whatever others do to GitHub and the clone.   *)
(***************************************************************************)
CONSTANTS Runner, RunFaults, MaxDrift
VARIABLES odd, moved, fetch, flying, clone, runPc, mem, runFaults, drift

Github == INSTANCE GithubMerge
              WITH MaxFaults <- RunFaults, pc <- runPc, faults <- runFaults

\* MergeAssumption of GithubMerge.
MergeConstants ==
    /\ {RunFaults, MaxDrift} \subseteq Nat
    /\ None \notin Runner \cup Github!Receipt \cup Github!Merge \cup {"AUTHORIZED", "OBSERVED"}

\* A pull request is merged once, and the base branch shows it.
MergedOnce ==
    /\ pr.state = "OPEN" <=> pr.merge = None
    /\ pr.merge # None => main # <<>>

\* Whoever has looked at the merge commit and goes on has found it exact.
Inspected(p) ==
    runPc[p] = "seal"
        \/ (runPc[p] \in {"promote", "rename", "remove", "unown"} /\ mem[p].checked) =>
        pr.merge # None /\ Github!MergeIsExact

\* What the private directory looks like at the steps of its owner.
Stage(l) == CASE l \in {"mkdir", "unown"} -> "owned"
              [] l = "bind" -> "unbound"
              [] l \in {"fetch", "promote", "rename"} -> "bound"
              [] l = "remove" -> "quarantine"
OwnerInv(p) ==
    /\ runPc[p] \in Github!Fetching => fetch = [stage |-> Stage(runPc[p]), by |-> p]
    /\ runPc[p] = "dispatch" => rec.reservation
    /\ runPc[p] = "finish" => rec.accepted

DirectoryInv == fetch.stage # "none" => fetch.by \in Runner

MergeIInv ==
    /\ Github!TypeOK
    /\ RecordsInOrder
    /\ ReceiptIsExact
    /\ Github!DispatchReserved
    /\ MergedOnce
    /\ DirectoryInv
    /\ \A p \in Runner : Inspected(p) /\ OwnerInv(p)

\* The invariant holds before anything has run.
LEMMA MergeInitIInv ==
    ASSUME MergeConstants
    PROVE  Github!Init => MergeIInv
  <1> SUFFICES ASSUME Github!Init PROVE MergeIInv  OBVIOUS
  <1>1. Github!TypeOK
    <2>1. main \in Seq({"merge", "other"})
      BY DEF Github!Init
    <2>2. mem \in [Runner -> [invoked : BOOLEAN, receipt : Github!Receipt \cup {None},
                           tracked : BOOLEAN, checked : BOOLEAN]]
      BY DEF Github!Init, Github!Blank
    <2>3. QED
      BY <2>1, <2>2 DEF MergeConstants, Github!Init, Github!TypeOK, Github!NoRecords, Github!PCs
  <1>2. RecordsInOrder /\ ReceiptIsExact /\ Github!DispatchReserved /\ MergedOnce /\ DirectoryInv
    BY
       DEF Github!Init, RecordsInOrder, ReceiptIsExact, Github!DispatchReserved, MergedOnce,
           DirectoryInv, Github!NoRecords
  <1>3. \A p \in Runner : Inspected(p) /\ OwnerInv(p)
    BY DEF Github!Init, Inspected, OwnerInv, Github!Fetching
  <1>4. QED  BY <1>1, <1>2, <1>3 DEF MergeIInv

Memory == [invoked : BOOLEAN, receipt : Github!Receipt \cup {None}, tracked : BOOLEAN, checked : BOOLEAN]

\* A process goes to another step, and remembers something.
Moves(p) ==
    /\ runPc' = [runPc EXCEPT ![p] = runPc'[p]] /\ runPc'[p] \in Github!PCs
    /\ mem' = [mem EXCEPT ![p] = mem'[p]] /\ mem'[p] \in Memory

\* A look at the world: nothing but the process moves, and where it goes it
\* knows what the invariant asks for.
Looked(p) ==
    /\ UNCHANGED <<Github!root, fetch, Github!world, flying, runFaults, drift>>
    /\ Moves(p)
    /\ runPc'[p] \in Github!Fetching => runPc[p] = "fetch" /\ runPc'[p] \in {"promote", "rename"}
    /\ runPc'[p] = "dispatch" => rec.reservation
    /\ runPc'[p] = "finish" => rec.accepted
    /\ runPc'[p] = "seal" \/ (runPc'[p] \in Github!Fetching /\ mem'[p].checked) =>
         Github!MergeIsExact

Looks(p) ==
    \/ Github!Start(p) \/ Github!Load(p) \/ Github!Boundary(p) \/ Github!Query(p)
    \/ Github!Before(p) \/ Github!LastLook(p) \/ Github!Answer(p)
    \/ Github!Evidence(p) \/ Github!Fetch(p) \/ Github!Verify(p) \/ Github!Reload(p)
    \/ Github!Revalidate(p)

Records(p) ==
    \/ Github!Checkpoint(p) \/ Github!Rebuild(p) \/ Github!Initial(p) \/ Github!Reserve(p)
    \/ Github!Authorize(p) \/ Github!Observe(p)
    \/ Github!SealReceipt(p) \/ Github!Accept(p) \/ Github!Finish(p)

Fetches(p) ==
    \/ Github!Acquire(p) \/ Github!Clean(p) \/ Github!MakeDirectory(p) \/ Github!Bind(p)
    \/ Github!Promote(p) \/ Github!Rename(p)
    \/ Github!Empty(p) \/ Github!Unown(p)

\* The steps of a run, by what they touch.
LEMMA StepCases ==
    ASSUME NEW p
    PROVE  Github!Step(p) <=> Looks(p) \/ Records(p) \/ Fetches(p) \/ Github!Dispatch(p)
  BY DEF Github!Step, Looks, Records, Fetches

\* Going on, learning and giving up are looks.
LEMMA Learning ==
    ASSUME Github!TypeOK, NEW p \in Runner, NEW m \in Memory,
           NEW l \in Github!PCs \ Github!Fetching, l \notin {"dispatch", "finish", "seal"},
           Github!Learn(p, m, l)
    PROVE  Looked(p)
  BY DEF Github!Learn, Looked, Moves, Github!TypeOK, Github!Goto, Github!Knows, Memory

\* To go on is a look.
LEMMA Proceeding ==
    ASSUME Github!TypeOK, NEW p \in Runner, NEW l \in Github!PCs \ Github!Fetching,
           l \notin {"dispatch", "finish", "seal"},
           Github!Proceed(p, l)
    PROVE  Looked(p)
  BY Learning DEF Github!Proceed, Github!TypeOK, Memory

\* A run that remembers nothing is in a state of the memory.
LEMMA Blanks == Github!Blank \in Memory
  BY DEF Github!Blank, Memory

\* To refuse is a look.
LEMMA Refusing ==
    ASSUME Github!TypeOK, NEW p \in Runner, Github!Refuse(p)
    PROVE  Looked(p)
  BY Blanks
     DEF Github!Refuse, Github!Idle, Looked, Moves, Github!TypeOK, Github!Goto, Github!Knows,
         Github!PCs, Github!Fetching

\* The steps that only look.
LEMMA Looking ==
    ASSUME MergeIInv, NEW p \in Runner, Looks(p)
    PROVE  Looked(p)
  <1>a. Github!TypeOK /\ mem[p] \in Memory /\ Github!Blank \in Memory
    BY Blanks DEF MergeIInv, Github!TypeOK, Memory
  <1>1. CASE Github!Start(p)
    BY <1>a, <1>1, Proceeding DEF Github!Start, Github!PCs, Github!Fetching
  <1>2. CASE Github!Load(p)
    <2>1. Github!ReadRecords \in Memory
      BY <1>a DEF Github!ReadRecords, Github!Blank, Memory, Github!TypeOK
    <2>2. \/ \E l \in {"rebuild", "boundary", "reserve", "revalidate", "query"} :
                Github!Learn(p, Github!ReadRecords, l)
          \/ Github!Learn(p, Github!ReadRecords, "finish") /\ rec.accepted
      BY <1>2 DEF Github!Load
    <2>3. CASE Github!Learn(p, Github!ReadRecords, "finish") /\ rec.accepted
      BY <1>a, <2>1, <2>3
         DEF Github!Learn, Looked, Moves, Github!TypeOK, Github!Goto, Github!Knows, Github!PCs,
            Github!Fetching, Memory
    <2>4. QED  BY <1>a, <2>1, <2>2, <2>3, Learning DEF Github!PCs, Github!Fetching
  <1>3. CASE Github!Boundary(p)
    <2>1. [mem[p] EXCEPT !.checked = ~odd] \in Memory
      BY <1>a DEF Memory, Github!TypeOK
    <2>2. Github!Refuse(p) \/ Github!Learn(p, [mem[p] EXCEPT !.checked = ~odd], "initial")
      BY <1>3 DEF Github!Boundary
    <2>3. QED  BY <1>a, <2>1, <2>2, Learning, Refusing DEF Github!PCs, Github!Fetching
  <1>4. CASE Github!Query(p)
    <2>1. Github!Refuse(p)
            \/ \E l \in {"evidence", "observe", "last", "before"} : Github!Learn(p, Github!Blank, l)
      BY <1>4 DEF Github!Query
    <2>2. QED  BY <1>a, <2>1, Learning, Refusing DEF Github!PCs, Github!Fetching
  <1>5. CASE Github!Before(p)
    <2>1. Github!Refuse(p) \/ Github!Proceed(p, "authorize")
      BY <1>5 DEF Github!Before
    <2>2. QED  BY <1>a, <2>1, Proceeding, Refusing DEF Github!PCs, Github!Fetching
  <1>6. CASE Github!LastLook(p)
    <2>1. Github!Refuse(p) \/ (Github!Proceed(p, "dispatch") /\ rec.reservation)
      BY <1>6 DEF Github!LastLook, Github!FinalObservation, Github!ExactRequest, Github!Anchored
    <2>2. QED
      BY <1>a, <2>1, Refusing
         DEF Github!Proceed, Github!Learn, Looked, Moves, Github!TypeOK, Github!Goto,
            Github!Knows, Github!PCs, Github!Fetching
  <1>7. CASE Github!Answer(p)
    BY <1>a, <1>7, Proceeding, Refusing DEF Github!Answer, Github!PCs, Github!Fetching
  <1>8. CASE Github!Evidence(p)
    <2>1. [Github!Blank EXCEPT !.tracked = clone.tracking] \in Memory
      BY <1>a DEF Github!Blank, Memory, Github!TypeOK
    <2>2. \/ Github!Refuse(p)
          \/ \E l \in {"verify", "acquire"} : Github!Learn(p, [Github!Blank EXCEPT !.tracked = clone.tracking], l)
      BY <1>8 DEF Github!Evidence
    <2>3. QED  BY <1>a, <2>1, <2>2, Learning, Refusing DEF Github!PCs, Github!Fetching
  <1>9. CASE Github!Fetch(p)
    <2>1. [mem[p] EXCEPT !.checked = Github!MergeIsExact] \in Memory
      BY <1>a DEF Memory, Github!MergeIsExact, Github!TypeOK, Github!Merge
    <2>2. QED
      BY <1>a, <1>9, <2>1
         DEF Github!Fetch, Github!Learn, Looked, Moves, Github!TypeOK, Github!Goto, Github!Knows,
             Github!PCs, Github!Fetching, Memory
  <1>10. CASE Github!Verify(p)
    <2>1. Github!Refuse(p) \/ (Github!Proceed(p, "seal") /\ Github!MergeIsExact)
      BY <1>10 DEF Github!Verify
    <2>2. QED
      BY <1>a, <2>1, Refusing
         DEF Github!Proceed, Github!Learn, Looked, Moves, Github!TypeOK, Github!Goto,
            Github!Knows, Github!PCs, Github!Fetching
  <1>11. CASE Github!Reload(p)
    <2>1. Github!ReadRecords \in Memory
      BY <1>a DEF Github!ReadRecords, Github!Blank, Memory, Github!TypeOK
    <2>2. Github!Refuse(p) \/ Github!Learn(p, Github!ReadRecords, "revalidate")
      BY <1>11 DEF Github!Reload
    <2>3. QED  BY <1>a, <2>1, <2>2, Learning, Refusing DEF Github!PCs, Github!Fetching
  <1>12. CASE Github!Revalidate(p)
    <2>1. Github!Refuse(p) \/ Github!Proceed(p, "accept")
      BY <1>12 DEF Github!Revalidate
    <2>2. QED  BY <1>a, <2>1, Proceeding, Refusing DEF Github!PCs, Github!Fetching
  <1>13. QED
    BY <1>1, <1>2, <1>3, <1>4, <1>5, <1>6, <1>7, <1>8, <1>9, <1>10, <1>11, <1>12 DEF Looks

\* What concerns one process is kept by what another one looks at.
LEMMA LookedInv ==
    ASSUME MergeIInv, NEW p \in Runner, Looked(p)
    PROVE  MergeIInv'
  <1>a. UNCHANGED <<rec, odd, moved, fetch, main, pr, clone, flying, runFaults, drift>> /\ Moves(p)
    BY DEF Looked, Github!root, Github!world
  <1>1. Github!TypeOK'
    <2>1. Github!TypeOK
      BY DEF MergeIInv
    <2>2. runPc' \in [Runner -> Github!PCs] /\ mem' \in [Runner -> Memory]
      BY <1>a, <2>1 DEF Moves, Github!TypeOK, Memory
    <2>3. QED  BY <1>a, <2>1, <2>2 DEF Github!TypeOK, Memory
  <1>2. (RecordsInOrder /\ ReceiptIsExact /\ Github!DispatchReserved /\ MergedOnce /\ DirectoryInv)'
    BY <1>a
       DEF MergeIInv, RecordsInOrder, ReceiptIsExact, Github!DispatchReserved, MergedOnce,
           DirectoryInv
  <1>3. \A q \in Runner : Inspected(q)' /\ OwnerInv(q)'
    <2>1. ASSUME NEW q \in Runner, q # p PROVE Inspected(q)' /\ OwnerInv(q)'
      <3>1. runPc'[q] = runPc[q] /\ mem'[q] = mem[q]
        BY <2>1, <1>a DEF Moves, MergeIInv, Github!TypeOK
      <3>2. QED  BY <1>a, <3>1 DEF MergeIInv, Inspected, OwnerInv, Github!MergeIsExact
    <2>2. Inspected(p)'
      BY <1>a DEF Looked, Inspected, Github!MergeIsExact, Github!Fetching
    <2>3. OwnerInv(p)'
      <3>1. runPc'[p] \in Github!Fetching => fetch = [stage |-> "bound", by |-> p]
              /\ Stage(runPc'[p]) = "bound"
        <4>1. OwnerInv(p)
          BY DEF MergeIInv
        <4>2. QED  BY <4>1 DEF Looked, OwnerInv, Github!Fetching, Stage
      <3>2. (runPc'[p] = "dispatch" => rec.reservation) /\ (runPc'[p] = "finish" => rec.accepted)
        BY DEF Looked
      <3>3. QED  BY <1>a, <3>1, <3>2 DEF OwnerInv
    <2>4. QED  BY <2>1, <2>2, <2>3
  <1>4. QED  BY <1>1, <1>2, <1>3 DEF MergeIInv

Records0 ==
    [intent : BOOLEAN, reservation : BOOLEAN, invocation : {None, "AUTHORIZED", "OBSERVED"},
     receipt : Github!Receipt \cup {None}, accepted : BOOLEAN, completion : BOOLEAN]

\* Whether a record may be what a transaction leaves: it is one of the request,
\* in order, keeps the reservation, and speaks of an exact merge.
Legal(r) ==
    /\ r \in Records0
    /\ r.completion => r.accepted
    /\ r.accepted => r.receipt # None
    /\ r.receipt # None => r.invocation # None
    /\ r.invocation # None => r.intent /\ r.reservation
    /\ r.receipt # None \/ r.accepted => pr.merge # None /\ Github!MergeIsExact
    /\ rec.reservation => r.reservation
    /\ rec.accepted => r.accepted
    /\ r.reservation => ~moved

\* The records there are, are legal.
LEMMA RecIsLegal == MergeIInv => Legal(rec)
  BY
     DEF MergeIInv, Legal, Github!TypeOK, Records0, RecordsInOrder, ReceiptIsExact,
         Github!MergeIsExact, Github!DispatchReserved

\* A transaction over legal records leaves the invariant.
Recorded(p) ==
    /\ UNCHANGED <<moved, fetch, main, pr, clone, flying, drift>>
    /\ Moves(p)
    /\ runPc'[p] \notin Github!Fetching \cup {"seal", "dispatch", "finish"}
    /\ odd' \in BOOLEAN /\ runFaults' \in Nat
    /\ Legal(rec')

\* A transaction that installs one legal record.
LEMMA Transacting ==
    ASSUME MergeIInv, NEW p \in Runner, NEW a,
           NEW l \in Github!PCs \ (Github!Fetching \cup {"seal", "dispatch", "finish"}),
           Legal(a), Github!Transaction(p, <<a>>, l)
    PROVE  Recorded(p)
  <1>a. Github!TypeOK /\ Github!Blank \in Memory /\ mem[p] \in Memory
    BY Blanks DEF MergeIInv, Github!TypeOK, Memory
  <1>1. rec' \in {rec, a}
    BY DEF Github!Transaction
  <1>2. Legal(rec')
    BY <1>1, RecIsLegal
  <1>3. UNCHANGED <<moved, fetch, main, pr, clone, flying, drift>>
    BY DEF Github!Transaction, Github!world
  <1>4. odd' \in BOOLEAN /\ runFaults' \in Nat
    <2>1. odd' \in BOOLEAN /\ (UNCHANGED runFaults \/ runFaults' = runFaults + 1)
      BY DEF Github!Transaction, Github!Dies
    <2>2. QED  BY <1>a, <2>1 DEF Github!TypeOK
  <1>5. Moves(p) /\ runPc'[p] \notin Github!Fetching \cup {"seal", "dispatch", "finish"}
    BY <1>a
       DEF Github!Transaction, Github!Dies, Github!Idle, Github!Goto, Github!Knows, Moves,
           Github!TypeOK, Github!PCs, Github!Fetching
  <1>6. QED  BY <1>2, <1>3, <1>4, <1>5 DEF Recorded

\* A transaction that installs two, or dies between them.
LEMMA TransactingTwo ==
    ASSUME MergeIInv, NEW p \in Runner, NEW a, NEW b,
           NEW l \in Github!PCs \ (Github!Fetching \cup {"seal", "dispatch", "finish"}),
           Legal(a), Legal(b), Github!Transaction(p, <<a, b>>, l)
    PROVE  Recorded(p)
  <1>a. Github!TypeOK /\ Github!Blank \in Memory /\ mem[p] \in Memory
    BY Blanks DEF MergeIInv, Github!TypeOK, Memory
  <1>1. rec' \in {rec, a, b}
    BY DEF Github!Transaction
  <1>2. Legal(rec')
    BY <1>1, RecIsLegal
  <1>3. UNCHANGED <<moved, fetch, main, pr, clone, flying, drift>>
    BY DEF Github!Transaction, Github!world
  <1>4. odd' \in BOOLEAN /\ runFaults' \in Nat
    <2>1. odd' \in BOOLEAN /\ (UNCHANGED runFaults \/ runFaults' = runFaults + 1)
      BY DEF Github!Transaction, Github!Dies
    <2>2. QED  BY <1>a, <2>1 DEF Github!TypeOK
  <1>5. Moves(p) /\ runPc'[p] \notin Github!Fetching \cup {"seal", "dispatch", "finish"}
    BY <1>a
       DEF Github!Transaction, Github!Dies, Github!Idle, Github!Goto, Github!Knows, Moves,
           Github!TypeOK, Github!PCs, Github!Fetching
  <1>6. QED  BY <1>2, <1>3, <1>4, <1>5 DEF Recorded

\* The recording steps refuse, or leave legal records.
LEMMA Recording ==
    ASSUME MergeConstants, MergeIInv, NEW p \in Runner, Records(p)
    PROVE  Looked(p) \/ Recorded(p)
  <1>a. Github!TypeOK /\ Legal(rec) /\ mem[p] \in Memory
    BY RecIsLegal DEF MergeIInv, Github!TypeOK, Memory
  <1>b. Github!Refuse(p) => Looked(p)
    BY <1>a, Refusing
  <1>c. rec \in Records0
    BY <1>a DEF Legal
  <1>d. None \notin Github!Receipt \cup {"AUTHORIZED", "OBSERVED"}
    BY DEF MergeConstants
  <1>1. CASE Github!Checkpoint(p)
    BY <1>a, <1>b, <1>1, Transacting DEF Github!Checkpoint, Github!PCs, Github!Fetching
  <1>2. CASE Github!Rebuild(p)
    <2>1. CASE Github!Refuse(p)
      BY <1>b, <2>1
    <2>2. CASE ~Github!Refuse(p)
      <3>1. Github!Transaction(p, <<[rec EXCEPT !.intent = TRUE]>>, "load")
        BY <1>2, <2>2 DEF Github!Rebuild
      <3>2. Legal([rec EXCEPT !.intent = TRUE])
        BY <1>a, <1>c DEF Legal, Records0
      <3>3. QED  BY <3>1, <3>2, Transacting DEF Github!PCs, Github!Fetching
    <2>3. QED  BY <2>1, <2>2
  <1>3. CASE Github!Initial(p)
    <2> DEFINE sealed == [rec EXCEPT !.intent = TRUE]
    <2>1. CASE Github!Refuse(p)
      BY <1>b, <2>1
    <2>2. CASE ~Github!Refuse(p)
      <3>1. Github!Transaction(p, <<sealed, Github!Reserved(sealed)>>, "load") /\ ~moved
        BY <1>3, <2>2 DEF Github!Initial, Github!PrepareIntent
      <3>2. Legal(sealed) /\ Legal(Github!Reserved(sealed))
        BY <1>a, <1>c, <3>1 DEF Legal, Records0, Github!Reserved
      <3> HIDE DEF sealed
      <3>3. QED  BY <3>1, <3>2, TransactingTwo DEF Github!PCs, Github!Fetching
    <2>3. QED  BY <2>1, <2>2
  <1>4. CASE Github!Reserve(p)
    <2>1. CASE Github!Refuse(p)
      BY <1>b, <2>1
    <2>2. CASE ~Github!Refuse(p)
      <3>1. Github!Transaction(p, <<Github!Reserved(rec)>>, "load") /\ ~moved
        BY <1>4, <2>2 DEF Github!Reserve
      <3>2. Legal(Github!Reserved(rec))
        BY <1>a, <1>c, <3>1 DEF Legal, Records0, Github!Reserved
      <3>3. QED  BY <3>1, <3>2, Transacting DEF Github!PCs, Github!Fetching
    <2>3. QED  BY <2>1, <2>2
  <1>5. CASE Github!Authorize(p)
    <2>1. CASE Github!Refuse(p)
      BY <1>b, <2>1
    <2>2. CASE ~Github!Refuse(p)
      <3>1. Github!Transaction(p, <<Github!Invoked("AUTHORIZED")>>, "last") /\ rec.reservation
              /\ rec.intent
        BY <1>5, <2>2 DEF Github!Authorize, Github!ExactRequest, Github!Anchored
      <3>2. Legal(Github!Invoked("AUTHORIZED"))
        BY <1>a, <1>c, <1>d, <3>1 DEF Legal, Records0, Github!Invoked
      <3>3. QED  BY <3>1, <3>2, Transacting DEF Github!PCs, Github!Fetching
    <2>3. QED  BY <2>1, <2>2
  <1>6. CASE Github!Observe(p)
    <2>1. CASE Github!Refuse(p)
      BY <1>b, <2>1
    <2>2. CASE ~Github!Refuse(p)
      <3>1. Github!Transaction(p, <<Github!Invoked("OBSERVED")>>, "evidence") /\ rec.reservation
              /\ rec.intent
        BY <1>6, <2>2 DEF Github!Observe, Github!ExactRequest, Github!Anchored
      <3>2. Legal(Github!Invoked("OBSERVED"))
        BY <1>a, <1>c, <1>d, <3>1 DEF Legal, Records0, Github!Invoked
      <3>3. QED  BY <3>1, <3>2, Transacting DEF Github!PCs, Github!Fetching
    <2>3. QED  BY <2>1, <2>2
  <1>7. CASE Github!SealReceipt(p)
    <2> DEFINE sealed == [rec EXCEPT !.receipt = [tracking |-> mem[p].tracked]]
    <2>1. CASE Github!Refuse(p)
      BY <1>b, <2>1
    <2>2. CASE ~Github!Refuse(p)
      <3>1. Github!Transaction(p, <<sealed>>, "reload") /\ rec.invocation # None
              /\ runPc[p] = "seal"
        BY <1>7, <2>2 DEF Github!SealReceipt
      <3>2. pr.merge # None /\ Github!MergeIsExact
        BY <3>1 DEF MergeIInv, Inspected
      <3>3. [tracking |-> mem[p].tracked] \in Github!Receipt
        BY <1>a DEF Memory, Github!Receipt
      <3>4. Legal(sealed)
        BY <1>a, <1>c, <3>1, <3>2, <3>3, <1>d DEF Legal, Records0
      <3> HIDE DEF sealed
      <3>5. QED  BY <3>1, <3>4, Transacting DEF Github!PCs, Github!Fetching
    <2>3. QED  BY <2>1, <2>2
  <1>8. CASE Github!Accept(p)
    <2>1. CASE Github!Refuse(p)
      BY <1>b, <2>1
    <2>2. CASE ~Github!Refuse(p)
      <3>1. /\ Github!Transaction(p, <<Github!Merged(rec), Github!Completed(Github!Merged(rec))>>, "idle")
            /\ rec.accepted \/ rec.receipt # None
        BY <1>8, <2>2 DEF Github!Accept, Github!ReceiptForEvent
      <3>2. Legal(Github!Merged(rec)) /\ Legal(Github!Completed(Github!Merged(rec)))
        BY <1>a, <1>c, <3>1 DEF Legal, Records0, Github!Merged, Github!Completed
      <3>3. QED  BY <3>1, <3>2, TransactingTwo DEF Github!PCs, Github!Fetching
    <2>3. QED  BY <2>1, <2>2
  <1>9. CASE Github!Finish(p)
    <2>1. CASE Github!Refuse(p)
      BY <1>b, <2>1
    <2>2. CASE ~Github!Refuse(p)
      <3>1. Github!Transaction(p, <<Github!Completed(rec)>>, "idle") /\ runPc[p] = "finish"
        BY <1>9, <2>2 DEF Github!Finish
      <3>2. rec.accepted
        BY <3>1 DEF MergeIInv, Inspected, OwnerInv
      <3>3. Legal(Github!Completed(rec))
        BY <1>a, <1>c, <3>2 DEF Legal, Records0, Github!Completed
      <3>4. QED  BY <3>1, <3>3, Transacting DEF Github!PCs, Github!Fetching
    <2>3. QED  BY <2>1, <2>2
  <1>10. QED
    BY <1>1, <1>2, <1>3, <1>4, <1>5, <1>6, <1>7, <1>8, <1>9 DEF Records

\* A transaction over legal records keeps the invariant.
LEMMA RecordedInv ==
    ASSUME MergeIInv, NEW p \in Runner, Recorded(p)
    PROVE  MergeIInv'
  <1>a. Github!TypeOK /\ UNCHANGED <<moved, fetch, main, pr, clone, flying, drift>> /\ Moves(p)
          /\ Legal(rec')
        /\ (Github!MergeIsExact' <=> Github!MergeIsExact)
    BY DEF MergeIInv, Recorded, Github!MergeIsExact
  <1>1. Github!TypeOK'
    <2>1. runPc' \in [Runner -> Github!PCs] /\ mem' \in [Runner -> Memory] /\ rec' \in Records0
      BY <1>a DEF Moves, Github!TypeOK, Memory, Legal
    <2>2. QED  BY <1>a, <2>1 DEF Github!TypeOK, Memory, Records0, Recorded
  <1>2. RecordsInOrder' /\ ReceiptIsExact'
    BY <1>a DEF Legal, RecordsInOrder, ReceiptIsExact, Github!MergeIsExact
  <1>3. Github!DispatchReserved'
    BY <1>a DEF MergeIInv, Legal, Github!DispatchReserved
  <1>4. MergedOnce' /\ DirectoryInv'
    BY <1>a DEF MergeIInv, MergedOnce, DirectoryInv
  <1>5. \A q \in Runner : Inspected(q)' /\ OwnerInv(q)'
    <2>1. ASSUME NEW q \in Runner, q # p PROVE Inspected(q)' /\ OwnerInv(q)'
      <3>1. runPc'[q] = runPc[q] /\ mem'[q] = mem[q]
        BY <2>1, <1>a DEF Moves, Github!TypeOK
      <3>2. Inspected(q)'
        BY <1>a, <3>1 DEF MergeIInv, Inspected, Github!MergeIsExact
      <3>3. OwnerInv(q)'
        BY <1>a, <3>1 DEF MergeIInv, OwnerInv, Legal
      <3>4. QED  BY <3>2, <3>3
    <2>2. Inspected(p)' /\ OwnerInv(p)'
      BY DEF Recorded, Inspected, OwnerInv, Github!Fetching
    <2>3. QED  BY <2>1, <2>2
  <1>6. QED  BY <1>1, <1>2, <1>3, <1>4, <1>5 DEF MergeIInv

\* A step at the private directory.
LEMMA FetchingInv ==
    ASSUME MergeIInv, NEW p \in Runner, Fetches(p)
    PROVE  MergeIInv'
  <1>a. Github!TypeOK /\ mem[p] \in Memory /\ Github!Blank \in Memory /\ OwnerInv(p)
          /\ Inspected(p) /\ DirectoryInv
    BY Blanks DEF MergeIInv, Github!TypeOK, Memory
  <1>b. CASE Looked(p)
    BY <1>b, LookedInv
  <1>c. /\ UNCHANGED <<Github!root, main, pr, flying, runFaults, drift>> /\ Moves(p)
        /\ clone' \in [has : BOOLEAN, tracking : BOOLEAN]
        /\ runPc'[p] \notin {"dispatch", "finish"}
        /\ runPc'[p] = "seal"
            \/ (runPc'[p] \in {"promote", "rename", "remove", "unown"} /\ mem'[p].checked) =>
             runPc[p] \in {"promote", "rename", "remove", "unown"} /\ mem[p].checked
        /\ \/ fetch' = fetch /\ runPc[p] = "promote" /\ runPc'[p] = "rename"
           \/ /\ fetch' = [stage |-> Stage(runPc'[p]), by |-> p] /\ runPc'[p] \in Github!Fetching
              /\ Github!Free \/ runPc[p] \in Github!Fetching
           \/ /\ runPc'[p] \notin Github!Fetching
              /\ Github!Orphaned \/ runPc[p] \in Github!Fetching
              /\ fetch'.stage \in {"none", "owned", "quarantine"}
              /\ fetch' \in [stage : {"none", "owned", "quarantine"}, by : Runner \cup {None}]
              /\ fetch'.stage # "none" => fetch'.by \in Runner
        \/ Looked(p)
    <2> USE <1>a DEF Github!TypeOK, Github!Goto, Github!Knows, Moves, Github!Advance, Github!Owner,
        Github!PCs, Github!Fetching, Github!world
    <2>1. CASE Github!Acquire(p)
      <3>1. Looked(p)
              \/ (runPc[p] = "acquire" /\ Github!Free /\ Github!Owner("owned", p) /\ Github!Advance(p, "mkdir"))
        BY <2>1, Refusing DEF Github!Acquire
      <3>2. QED  BY <3>1 DEF Stage, Memory
    <2>2. CASE Github!Clean(p)
      <3>1. /\ runPc[p] = "acquire" /\ Github!Orphaned
            /\ \/ Looked(p)
               \/ Github!Owner("quarantine", fetch.by) /\ Github!Advance(p, "acquire")
               \/ Github!Owner("owned", fetch.by) /\ Github!Advance(p, "acquire")
               \/ Github!Owner("none", None) /\ Github!Advance(p, "acquire")
        BY <2>2, Refusing DEF Github!Clean
      <3>2. fetch.by \in Runner
        BY <3>1 DEF Github!Orphaned, Github!Free, DirectoryInv
      <3>3. QED  BY <3>1, <3>2 DEF Memory
    <2>3. CASE Github!MakeDirectory(p)
      BY <2>3 DEF Github!MakeDirectory, Stage, Memory
    <2>4. CASE Github!Bind(p)
      BY <2>4 DEF Github!Bind, Stage, Memory
    <2>5. CASE Github!Promote(p)
      <3>1. [mem[p] EXCEPT !.checked = FALSE] \in Memory
        BY DEF Memory
      <3>2. CASE Github!BaseIsMerge
        <4>1. [clone EXCEPT !.has = TRUE] \in [has : BOOLEAN, tracking : BOOLEAN]
          OBVIOUS
        <4>2. /\ UNCHANGED <<Github!root, main, pr, flying, runFaults, drift, fetch, mem>>
              /\ runPc[p] = "promote" /\ runPc' = [runPc EXCEPT ![p] = "rename"]
              /\ clone' = [clone EXCEPT !.has = TRUE]
          BY <2>5, <3>2 DEF Github!Promote
        <4>3. mem' = [mem EXCEPT ![p] = mem'[p]]
          BY <4>2
        <4>4. runPc'[p] = "rename"
          BY <4>2
        <4>5. QED  BY <4>1, <4>2, <4>3, <4>4 DEF Memory
      <3>3. CASE ~Github!BaseIsMerge
        BY <2>5, <3>1, <3>3 DEF Github!Promote, Memory
      <3>4. QED  BY <3>2, <3>3
    <2>6. CASE Github!Rename(p)
      BY <2>6 DEF Github!Rename, Stage, Memory
    <2>7. CASE Github!Empty(p)
      BY <2>7 DEF Github!Empty, Stage, Memory
    <2>8. CASE Github!Unown(p)
      <3>1. [mem[p] EXCEPT !.checked = FALSE] \in Memory
        BY DEF Memory
      <3>2. CASE mem[p].checked
        <4>1. /\ UNCHANGED <<Github!root, main, pr, clone, flying, runFaults, drift>>
              /\ runPc[p] = "unown" /\ runPc' = [runPc EXCEPT ![p] = "seal"]
              /\ mem' = [mem EXCEPT ![p] = [mem[p] EXCEPT !.checked = FALSE]]
              /\ fetch' = [stage |-> "none", by |-> None]
          BY <2>8, <3>2 DEF Github!Unown
        <4>2. runPc'[p] = "seal" /\ mem'[p] \in Memory
          BY <3>1, <4>1
        <4>3. Moves(p)
          BY <4>1, <4>2
        <4>4. QED  BY <3>2, <4>1, <4>2, <4>3
      <3>3. CASE ~mem[p].checked
        BY <2>8, <3>3 DEF Github!Unown, Github!Idle, Memory
      <3>4. QED  BY <3>2, <3>3
    <2>9. QED
      BY <2>1, <2>2, <2>3, <2>4, <2>5, <2>6, <2>7, <2>8 DEF Fetches
  <1>1. CASE ~Looked(p)
    <2>a. /\ UNCHANGED <<rec, odd, moved, main, pr, flying, runFaults, drift>> /\ Moves(p)
          /\ (Github!MergeIsExact' <=> Github!MergeIsExact)
      BY <1>c, <1>1 DEF Github!root, Github!MergeIsExact
    <2>1. fetch' \in [stage : {"none", "owned", "unbound", "bound", "quarantine"}, by : Runner \cup {None}]
      BY <1>a, <1>c, <1>1 DEF Github!TypeOK, Stage, Github!Fetching
    <2>2. Github!TypeOK'
      <3>1. runPc' \in [Runner -> Github!PCs] /\ mem' \in [Runner -> Memory]
        BY <1>a, <2>a DEF Moves, Github!TypeOK, Memory
      <3>2. QED  BY <1>a, <1>c, <1>1, <2>a, <2>1, <3>1 DEF Github!TypeOK, Memory
    <2>3. (RecordsInOrder /\ ReceiptIsExact /\ Github!DispatchReserved /\ MergedOnce)'
      BY <2>a DEF MergeIInv, RecordsInOrder, ReceiptIsExact, Github!DispatchReserved, MergedOnce
    <2>4. DirectoryInv'
      BY <1>a, <1>c, <1>1 DEF DirectoryInv
    <2>5. ASSUME NEW q \in Runner, q # p PROVE Inspected(q)' /\ OwnerInv(q)'
      <3>1. runPc'[q] = runPc[q] /\ mem'[q] = mem[q] /\ OwnerInv(q) /\ Inspected(q)
        BY <1>a, <2>5, <2>a DEF Moves, Github!TypeOK, MergeIInv
      <3>2. Inspected(q)'
        BY <2>a, <3>1 DEF Inspected
      <3>3. runPc[q] \in Github!Fetching => ~Github!Free /\ ~Github!Orphaned /\ fetch.by = q
              /\ runPc[p] \notin Github!Fetching
        BY <1>a, <2>5, <3>1 DEF OwnerInv, Github!Orphaned, Github!Free, Stage, Github!Fetching
      <3>4. runPc[q] \in Github!Fetching => fetch' = fetch
        BY <1>c, <1>1, <3>3 DEF Github!Fetching
      <3>5. OwnerInv(q)'
        BY <2>a, <3>1, <3>4 DEF OwnerInv
      <3>6. QED  BY <3>2, <3>5
    <2>6. Inspected(p)'
      BY <1>a, <1>c, <1>1, <2>a DEF Inspected
    <2>7. OwnerInv(p)'
      BY <1>a, <1>c, <1>1 DEF OwnerInv, Github!Fetching, Stage
    <2>8. QED  BY <2>2, <2>3, <2>4, <2>5, <2>6, <2>7 DEF MergeIInv
  <1>2. QED  BY <1>b, <1>1

\* The command leaves, arrives or is lost.
LEMMA CommandInv ==
    ASSUME MergeConstants, MergeIInv, NEW p \in Runner,
           Github!Dispatch(p) \/ Github!Apply(p) \/ Github!Lose(p)
    PROVE  MergeIInv'
  <1>a. Github!TypeOK
    BY DEF MergeIInv
  <1>1. CASE Github!Dispatch(p)
    <2>a. /\ UNCHANGED <<rec, odd, moved, fetch, main, pr, clone, mem, runFaults, drift>>
          /\ runPc[p] = "dispatch" /\ runPc' = [runPc EXCEPT ![p] = "answer"]
          /\ flying' = flying \cup {p}
      BY <1>1 DEF Github!Dispatch, Github!Goto, Github!root, Github!world
    <2>1. Github!TypeOK'
      BY <1>a, <2>a DEF Github!TypeOK, Github!PCs
    <2>2. rec.reservation
      BY <2>a DEF MergeIInv, OwnerInv
    <2>3. (RecordsInOrder /\ ReceiptIsExact /\ Github!DispatchReserved /\ MergedOnce /\ DirectoryInv)'
      BY <2>a, <2>2
         DEF MergeIInv, RecordsInOrder, ReceiptIsExact, Github!DispatchReserved, MergedOnce,
             DirectoryInv
    <2>4. \A q \in Runner : Inspected(q)' /\ OwnerInv(q)'
      BY <1>a, <2>a
         DEF MergeIInv, Github!TypeOK, Inspected, OwnerInv, Github!MergeIsExact, Github!Fetching
    <2>5. QED  BY <2>1, <2>3, <2>4 DEF MergeIInv
  <1>2. CASE Github!Apply(p)
    <2>a. /\ UNCHANGED <<rec, odd, moved, fetch, clone, runPc, mem, runFaults, drift>>
          /\ p \in flying /\ flying' = flying \ {p}
          /\ \/ UNCHANGED <<pr, main>>
             \/ /\ pr.state = "OPEN"
                /\ pr' = [pr EXCEPT !.state = "MERGED",
                            !.merge = [squash |-> TRUE, candidate |-> TRUE, hand |-> FALSE]]
                /\ main' = Append(main, "merge")
      BY <1>2 DEF Github!Apply, Github!root
    <2>1. [squash |-> TRUE, candidate |-> TRUE, hand |-> FALSE] \in Github!Merge
            /\ None \notin Github!Merge
      BY DEF MergeConstants, Github!Merge
    <2>2. Github!TypeOK'
      <3>1. main' \in Seq({"merge", "other"})
        <4>1. main \in Seq({"merge", "other"})
          BY <1>a DEF Github!TypeOK
        <4>2. Append(main, "merge") \in Seq({"merge", "other"})
          BY <4>1
        <4>3. QED  BY <2>a, <4>1, <4>2
      <3>2. pr' \in [state : {"OPEN", "MERGED"}, head : BOOLEAN, body : BOOLEAN, merge : Github!Merge \cup {None}]
        BY <1>a, <2>a, <2>1 DEF Github!TypeOK
      <3>3. QED  BY <1>a, <2>a, <3>1, <3>2 DEF Github!TypeOK
    <2>3. rec.reservation
      BY <2>a DEF MergeIInv, Github!DispatchReserved
    <2>4. ASSUME pr' # pr
          PROVE  pr.merge = None /\ pr'.merge # None /\ pr'.state # "OPEN" /\ main' # <<>>
      <3>1. /\ pr.state = "OPEN" /\ main' = Append(main, "merge")
            /\ pr' = [pr EXCEPT !.state = "MERGED",
                        !.merge = [squash |-> TRUE, candidate |-> TRUE, hand |-> FALSE]]
        BY <2>a, <2>4
      <3>2. pr.merge = None
        BY <3>1 DEF MergeIInv, MergedOnce
      <3>3. pr'.merge # None /\ pr'.state # "OPEN"
        BY <1>a, <2>1, <3>1 DEF Github!TypeOK
      <3>4. main \in Seq({"merge", "other"})
        BY <1>a DEF Github!TypeOK
      <3>5. main' # <<>>
        BY <3>1, <3>4
      <3>6. QED  BY <3>2, <3>3, <3>5
    <2>5. pr' = pr => main' = main
      BY <1>a, <2>a DEF Github!TypeOK
    <2>6. MergedOnce' /\ Github!DispatchReserved' /\ RecordsInOrder' /\ DirectoryInv'
      BY <2>a, <2>3, <2>4, <2>5
         DEF MergeIInv, MergedOnce, Github!DispatchReserved, RecordsInOrder, DirectoryInv
    <2>7. ReceiptIsExact'
      BY <2>a, <2>4, <2>5 DEF MergeIInv, ReceiptIsExact
    <2>8. \A q \in Runner : Inspected(q)' /\ OwnerInv(q)'
      BY <2>a, <2>4, <2>5 DEF MergeIInv, Inspected, OwnerInv, Github!MergeIsExact
    <2>9. QED  BY <2>2, <2>6, <2>7, <2>8 DEF MergeIInv
  <1>3. CASE Github!Lose(p)
    <2>a. /\ UNCHANGED <<rec, odd, moved, fetch, main, pr, clone, runPc, mem, runFaults, drift>>
          /\ p \in flying /\ flying' = flying \ {p}
      BY <1>3 DEF Github!Lose, Github!root, Github!world
    <2>1. Github!TypeOK'
      BY <1>a, <2>a DEF Github!TypeOK
    <2>2. (RecordsInOrder /\ ReceiptIsExact /\ Github!DispatchReserved /\ MergedOnce /\ DirectoryInv)'
      BY <2>a
         DEF MergeIInv, RecordsInOrder, ReceiptIsExact, Github!DispatchReserved, MergedOnce,
             DirectoryInv
    <2>3. \A q \in Runner : Inspected(q)' /\ OwnerInv(q)'
      BY <2>a DEF MergeIInv, Inspected, OwnerInv, Github!MergeIsExact
    <2>4. QED  BY <2>1, <2>2, <2>3 DEF MergeIInv
  <1>4. QED  BY <1>1, <1>2, <1>3

\* A death, at the worst in the middle of a removal.
LEMMA CrashInv ==
    ASSUME MergeIInv, NEW p \in Runner, Github!Crash(p)
    PROVE  MergeIInv'
  <1>a. /\ UNCHANGED <<rec, odd, moved, main, pr, clone, flying, drift>> /\ Github!TypeOK
        /\ runPc' = [runPc EXCEPT ![p] = "idle"] /\ mem' = [mem EXCEPT ![p] = Github!Blank]
        /\ runFaults' = runFaults + 1
        /\ \/ fetch' = fetch
           \/ runPc[p] = "remove" /\ fetch' = [stage |-> "unbound", by |-> p]
        /\ (Github!MergeIsExact' <=> Github!MergeIsExact)
    BY
       DEF MergeIInv, Github!Crash, Github!Dies, Github!Idle, Github!Goto, Github!Knows,
           Github!Owner, Github!root, Github!world, Github!MergeIsExact
  <1>1. Github!TypeOK'
    <2>1. mem' \in [Runner -> Memory] /\ runPc' \in [Runner -> Github!PCs]
      BY <1>a, Blanks DEF Github!TypeOK, Github!PCs, Memory
    <2>2. QED  BY <1>a, <2>1 DEF Github!TypeOK, Memory
  <1>2. (RecordsInOrder /\ ReceiptIsExact /\ Github!DispatchReserved /\ MergedOnce /\ DirectoryInv)'
    BY <1>a
       DEF MergeIInv, RecordsInOrder, ReceiptIsExact, Github!DispatchReserved, MergedOnce,
           DirectoryInv
  <1>3. \A q \in Runner : Inspected(q)' /\ OwnerInv(q)'
    <2>1. ASSUME NEW q \in Runner, q # p PROVE Inspected(q)' /\ OwnerInv(q)'
      <3>1. runPc'[q] = runPc[q] /\ mem'[q] = mem[q] /\ OwnerInv(q) /\ OwnerInv(p) /\ Inspected(q)
        BY <1>a, <2>1 DEF Github!TypeOK, MergeIInv
      <3>2. runPc[q] \in Github!Fetching => fetch' = fetch
        BY <1>a, <2>1, <3>1 DEF OwnerInv, Github!Fetching
      <3>3. QED  BY <1>a, <3>1, <3>2 DEF Inspected, OwnerInv
    <2>2. runPc'[p] = "idle"
      BY <1>a DEF Github!TypeOK
    <2>3. Inspected(p)' /\ OwnerInv(p)'
      BY <2>2 DEF Inspected, OwnerInv, Github!Fetching
    <2>4. QED  BY <2>1, <2>3
  <1>4. QED  BY <1>1, <1>2, <1>3 DEF MergeIInv

\* What others do: the records stay in order, an exact merge stays one.
LEMMA OthersInv ==
    ASSUME MergeConstants, MergeIInv, Github!Others
    PROVE  MergeIInv'
  <1>a. Github!TypeOK
    BY DEF MergeIInv
  <1>b. /\ UNCHANGED <<odd, fetch, flying, runPc, mem, runFaults>> /\ drift' = drift + 1
    BY
       DEF Github!Others, Github!Drift, Github!PushMain, Github!HandMerge, Github!EditPr,
           Github!FetchClone, Github!OtherEvent, Github!SidebandsLost, Github!root
  <1>c. drift' \in Nat
    BY <1>a, <1>b DEF Github!TypeOK
  <1> SUFFICES Github!TypeOK'
                 /\ (RecordsInOrder /\ ReceiptIsExact /\ Github!DispatchReserved /\ MergedOnce /\ DirectoryInv)'
               /\ \A q \in Runner : Inspected(q)' /\ OwnerInv(q)'
    BY DEF MergeIInv
  <1>d. DirectoryInv'
    BY <1>b DEF MergeIInv, DirectoryInv
  <1>1. CASE Github!PushMain
    <2>a. UNCHANGED <<rec, moved, pr, clone>> /\ main' = Append(main, "other")
      BY <1>1 DEF Github!PushMain, Github!root
    <2>1. main \in Seq({"merge", "other"}) /\ main' \in Seq({"merge", "other"}) /\ main' # <<>>
      BY <1>a, <2>a DEF Github!TypeOK
    <2>2. main # <<>> => main'[1] = main[1]
      BY <2>a, <2>1
    <2>3. Github!TypeOK'
      BY <1>a, <1>b, <1>c, <2>a, <2>1 DEF Github!TypeOK
    <2>4. (RecordsInOrder /\ ReceiptIsExact /\ Github!DispatchReserved /\ MergedOnce)'
      BY <1>b, <2>a, <2>1, <2>2
         DEF MergeIInv, RecordsInOrder, ReceiptIsExact, Github!DispatchReserved, MergedOnce
    <2>5. \A q \in Runner : Inspected(q)' /\ OwnerInv(q)'
      BY <1>b, <2>a, <2>2 DEF MergeIInv, MergedOnce, Inspected, OwnerInv, Github!MergeIsExact
    <2>6. QED  BY <1>d, <2>3, <2>4, <2>5
  <1>2. CASE Github!HandMerge
    <2>1. PICK squash \in BOOLEAN :
             /\ pr' = [pr EXCEPT !.state = "MERGED",
                         !.merge = [squash |-> squash, candidate |-> pr.head, hand |-> TRUE]]
             /\ pr.state = "OPEN" /\ main' = Append(main, "merge")
             /\ UNCHANGED <<rec, moved, clone>>
      BY <1>2 DEF Github!HandMerge, Github!root
    <2>2. [squash |-> squash, candidate |-> pr.head, hand |-> TRUE] \in Github!Merge
            /\ None \notin Github!Merge
      BY <1>a DEF MergeConstants, Github!Merge, Github!TypeOK
    <2>3. pr.merge = None /\ pr'.merge # None /\ pr'.merge.hand /\ pr'.state = "MERGED"
      BY <1>a, <2>1, <2>2 DEF MergeIInv, MergedOnce, Github!TypeOK
    <2>4. main' \in Seq({"merge", "other"}) /\ main' # <<>>
      BY <1>a, <2>1 DEF Github!TypeOK
    <2>5. pr' \in [state : {"OPEN", "MERGED"}, head : BOOLEAN, body : BOOLEAN, merge : Github!Merge \cup {None}]
      BY <1>a, <2>1, <2>2 DEF Github!TypeOK
    <2>6. Github!TypeOK'
      BY <1>a, <1>b, <1>c, <2>1, <2>4, <2>5 DEF Github!TypeOK
    <2>7. (RecordsInOrder /\ ReceiptIsExact /\ Github!DispatchReserved /\ MergedOnce)'
      BY <1>b, <2>1, <2>3, <2>4
         DEF MergeIInv, RecordsInOrder, ReceiptIsExact, Github!DispatchReserved, MergedOnce
    <2>8. \A q \in Runner : Inspected(q)' /\ OwnerInv(q)'
      BY <1>b, <2>1, <2>3 DEF MergeIInv, Inspected, OwnerInv
    <2>9. QED  BY <1>d, <2>6, <2>7, <2>8
  <1>3. CASE Github!EditPr
    <2>1. pr' = [pr EXCEPT !.head = FALSE] \/ pr' = [pr EXCEPT !.body = ~@]
      BY <1>3 DEF Github!EditPr
    <2>2. UNCHANGED <<rec, moved, main, clone>>
      BY <1>3 DEF Github!EditPr, Github!root
    <2>3. /\ pr' \in [state : {"OPEN", "MERGED"}, head : BOOLEAN, body : BOOLEAN, merge : Github!Merge \cup {None}]
          /\ pr'.merge = pr.merge /\ pr'.state = pr.state
      BY <1>a, <2>1 DEF Github!TypeOK
    <2>4. Github!TypeOK'
      BY <1>a, <1>b, <1>c, <2>2, <2>3 DEF Github!TypeOK
    <2>5. (RecordsInOrder /\ ReceiptIsExact /\ Github!DispatchReserved /\ MergedOnce)'
      BY <1>b, <2>2, <2>3
         DEF MergeIInv, RecordsInOrder, ReceiptIsExact, Github!DispatchReserved, MergedOnce
    <2>6. \A q \in Runner : Inspected(q)' /\ OwnerInv(q)'
      BY <1>b, <2>2, <2>3 DEF MergeIInv, Inspected, OwnerInv, Github!MergeIsExact
    <2>7. QED  BY <1>d, <2>4, <2>5, <2>6
  <1>4. CASE Github!FetchClone
    <2>1. /\ UNCHANGED <<rec, moved, main, pr>>
          /\ clone' = [has |-> clone.has \/ Contains(main, "merge"), tracking |-> Github!BaseIsMerge]
      BY <1>4 DEF Github!FetchClone, Github!root, Github!Contains, Contains
    <2>2. clone' \in [has : BOOLEAN, tracking : BOOLEAN]
      BY <1>a, <2>1 DEF Github!TypeOK, Contains, Github!BaseIsMerge
    <2>3. Github!TypeOK'
      BY <1>a, <1>b, <1>c, <2>1, <2>2 DEF Github!TypeOK
    <2>4. (RecordsInOrder /\ ReceiptIsExact /\ Github!DispatchReserved /\ MergedOnce)'
      BY <1>b, <2>1
         DEF MergeIInv, RecordsInOrder, ReceiptIsExact, Github!DispatchReserved, MergedOnce
    <2>5. \A q \in Runner : Inspected(q)' /\ OwnerInv(q)'
      BY <1>b, <2>1 DEF MergeIInv, Inspected, OwnerInv, Github!MergeIsExact
    <2>6. QED  BY <1>d, <2>3, <2>4, <2>5
  <1>5. CASE Github!OtherEvent
    <2>1. UNCHANGED <<rec, main, pr, clone>> /\ moved' = TRUE /\ ~Github!Pending /\ ~rec.accepted
      BY <1>5 DEF Github!OtherEvent, Github!world
    <2>2. ~rec.reservation
      BY <2>1 DEF MergeIInv, RecordsInOrder, Github!Pending, Github!HasEvidence
    <2>3. Github!TypeOK'
      BY <1>a, <1>b, <1>c, <2>1 DEF Github!TypeOK
    <2>4. (RecordsInOrder /\ ReceiptIsExact /\ Github!DispatchReserved /\ MergedOnce)'
      BY <1>b, <2>1, <2>2
         DEF MergeIInv, RecordsInOrder, ReceiptIsExact, Github!DispatchReserved, MergedOnce
    <2>5. \A q \in Runner : Inspected(q)' /\ OwnerInv(q)'
      BY <1>b, <2>1 DEF MergeIInv, Inspected, OwnerInv, Github!MergeIsExact
    <2>6. QED  BY <1>d, <2>3, <2>4, <2>5
  <1>6. CASE Github!SidebandsLost
    <2>1. /\ UNCHANGED <<moved, main, pr, clone>> /\ ~rec.accepted
          /\ rec' = [Github!NoRecords EXCEPT !.reservation = rec.reservation]
      BY <1>6 DEF Github!SidebandsLost, Github!world
    <2>2. rec' \in Records0
      BY <1>a, <2>1 DEF Github!TypeOK, Github!NoRecords, Records0
    <2>3. Github!TypeOK'
      BY <1>a, <1>b, <1>c, <2>1, <2>2 DEF Github!TypeOK, Records0
    <2>4. (RecordsInOrder /\ ReceiptIsExact /\ Github!DispatchReserved /\ MergedOnce)'
      BY <1>b, <2>1
         DEF MergeIInv, RecordsInOrder, ReceiptIsExact, Github!DispatchReserved, MergedOnce,
             Github!NoRecords
    <2>5. \A q \in Runner : Inspected(q)' /\ OwnerInv(q)'
      BY <1>b, <2>1 DEF MergeIInv, Inspected, OwnerInv, Github!MergeIsExact, Github!NoRecords
    <2>6. QED  BY <1>d, <2>3, <2>4, <2>5
  <1>7. QED  BY <1>1, <1>2, <1>3, <1>4, <1>5, <1>6 DEF Github!Others

\* Every step keeps the invariant.
LEMMA MergeNextIInv ==
    ASSUME MergeConstants
    PROVE  MergeIInv /\ [Github!Next]_(Github!vars) => MergeIInv'
  <1> SUFFICES ASSUME MergeIInv, [Github!Next]_(Github!vars) PROVE MergeIInv'
    OBVIOUS
  <1>1. ASSUME NEW p \in Runner, Github!Step(p) PROVE MergeIInv'
    BY <1>1, StepCases, Looking, LookedInv, Recording, RecordedInv, FetchingInv, CommandInv
  <1>2. ASSUME NEW p \in Runner,
               Github!Apply(p) \/ Github!Lose(p) \/ Github!Crash(p) PROVE MergeIInv'
    BY <1>2, CommandInv, CrashInv
  <1>3. CASE Github!Others
    BY <1>3, OthersInv
  <1>4. CASE UNCHANGED Github!vars
    <2>1. UNCHANGED <<rec, odd, moved, fetch, main, pr, clone, flying, runPc, mem, runFaults, drift>>
      BY <1>4 DEF Github!vars, Github!root, Github!world
    <2>2. Github!TypeOK'
      BY <2>1 DEF MergeIInv, Github!TypeOK
    <2>3. (RecordsInOrder /\ ReceiptIsExact /\ Github!DispatchReserved /\ MergedOnce /\ DirectoryInv)'
      BY <2>1
         DEF MergeIInv, RecordsInOrder, ReceiptIsExact, Github!DispatchReserved, MergedOnce,
             DirectoryInv
    <2>4. \A q \in Runner : Inspected(q)' /\ OwnerInv(q)'
      BY <2>1 DEF MergeIInv, Inspected, OwnerInv, Github!MergeIsExact
    <2>5. QED  BY <2>2, <2>3, <2>4 DEF MergeIInv
  <1>5. QED  BY <1>1, <1>2, <1>3, <1>4 DEF Github!Next

\* Every reachable state satisfies the inductive invariant.
THEOREM MergeInvariance ==
    ASSUME MergeConstants
    PROVE  Github!Spec => []MergeIInv
  BY MergeInitIInv, MergeNextIInv, PTL DEF Github!Spec

\* Whatever runs retry and die, and whatever others do to the base branch, the
\* pull request and the clone: a sealed receipt speaks of the squash of the
\* candidate on exactly the expected head, and the records follow one another.
THEOREM ReceiptsAreExact ==
    ASSUME MergeConstants
    PROVE  Github!Spec => [](ReceiptIsExact /\ RecordsInOrder)
  <1>1. MergeIInv => ReceiptIsExact /\ RecordsInOrder
    BY DEF MergeIInv
  <1>2. QED  BY <1>1, MergeInvariance, PTL

\* Nothing reaches GitHub in the name of the request before the reservation is in
\* the event log, and the reservation was made on a log nobody else had moved.
THEOREM DispatchesAreReserved ==
    ASSUME MergeConstants
    PROVE  Github!Spec => []Github!DispatchReserved
  <1>1. MergeIInv => Github!DispatchReserved
    BY DEF MergeIInv
  <1>2. QED  BY <1>1, MergeInvariance, PTL

\* Of all runs of the request, one at a time is at the private object directory.
THEOREM OneFetches ==
    ASSUME MergeConstants
    PROVE  Github!Spec => []Github!FetchIsExclusive
  <1>1. MergeIInv => Github!FetchIsExclusive
    BY DEF MergeIInv, OwnerInv, Github!FetchIsExclusive
  <1>2. QED  BY <1>1, MergeInvariance, PTL
=============================================================================
