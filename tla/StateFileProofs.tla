---- MODULE StateFileProofs ----
(***************************************************************************)
(* Proofs about StateFile, for any requests and any number of failures and *)
(* crashes: its type invariant, its safety invariants, and that it         *)
(* implements DurableState.                                                *)
(***************************************************************************)
EXTENDS StateFile, TLAPS

\* Between Lock and the end of the save the request owns the store.
Owning == {"locked"} \cup InSave

\* A request that has not yet taken effect.
Before == {"idle", "waiting", "locked"} \cup InSave

\* The lock excludes: at most one request is between Lock and the end of its
\* save, and no reader is under way with it (store.go:25).
Exclusion ==
    /\ \A w \in Writers : pc[w] \in Owning => up /\ lock = w
    /\ \A r \in Readers : rpc[r] = "reading" =>
            up /\ \A w \in Writers : pc[w] \notin Owning

\* What memory, the temporary file and state.json hold, request by request.
Contents ==
    /\ file.whole
    /\ up => file.data \subseteq mem
    /\ mem \subseteq file.data \cup spilled \cup {w \in Writers : pc[w] \in InSave}
    /\ \A w \in Writers :
            /\ pc[w] \in InSave => w \in mem
            /\ pc[w] = "written" => tmp = Holding(mem)
            /\ pc[w] \in {"saved", "ok"} => w \in file.data /\ w \notin spilled
            /\ pc[w] \in Before => w \notin file.data /\ w \notin spilled

IInv == TypeOK /\ Exclusion /\ Contents /\ ReadsDurable

USE DEF InSave, Finished, Answered

-----------------------------------------------------------------------------

\* Every variable keeps the type its section declares.
LEMMA TypeInductive ==
    ASSUME TypeOK, [Next]_vars
    PROVE  TypeOK'
<1> USE BoundsAssumption, NoOneAssumption
    DEF TypeOK, WriterPc, ReaderPc, FileContents, Torn, Holding
<1>1. CASE UNCHANGED vars
  BY <1>1 DEF vars
<1>2. ASSUME NEW w \in Writers, Arrive(w)
      PROVE  TypeOK'
  BY <1>2 DEF Arrive
<1>3. ASSUME NEW w \in Writers, Lock(w) \/ Refuse(w) \/ Mutate(w)
      PROVE  TypeOK'
  BY <1>3 DEF Lock, Refuse, Mutate
<1>4. ASSUME NEW w \in Writers, Open(w) \/ Write(w) \/ Rename(w)
      PROVE  TypeOK'
  <2>1. \A S \in SUBSET Writers : Holding(S) \in FileContents
    BY ZenonT(30)
  <2>2. Torn \in FileContents
    OBVIOUS
  <2>3. tmp' \in FileContents /\ file' \in FileContents
    <3>1. tmp' \in {Torn, Holding(mem), Holding({})} /\ file' \in {tmp, file}
      BY <1>4 DEF Open, Write, Rename
    <3> QED
      BY <3>1, <2>1, <2>2 DEF TypeOK
  <2>4. pc' \in [Writers -> WriterPc]
    BY <1>4 DEF Open, Write, Rename
  <2>5. UNCHANGED <<up, rpc, lock, mem, saw, spilled, faults, crashes>>
    BY <1>4 DEF Open, Write, Rename
  <2> QED
    BY <2>3, <2>4, <2>5
<1>5. ASSUME NEW w \in Writers, SaveFails(w) \/ Unlock(w)
      PROVE  TypeOK'
  BY <1>5 DEF SaveFails, Unlock
<1>6. ASSUME NEW w \in Writers, Reply(w)
      PROVE  TypeOK'
  <2>1. ReplyTo(pc[w]) \in WriterPc
    BY DEF ReplyTo
  <2> QED
    BY <1>6, <2>1 DEF Reply
<1>7. ASSUME NEW r \in Readers, ArriveReader(r) \/ ReaderStep(r)
      PROVE  TypeOK'
  BY <1>7 DEF ArriveReader, ReaderStep, RLock, ReadAndRUnlock, ReplyReader
<1>8. CASE Crash
  <2>1. pc' \in [Writers -> WriterPc]
    BY <1>8 DEF Crash
  <2>2. rpc' \in [Readers -> ReaderPc]
    BY <1>8 DEF Crash
  <2>3. UNCHANGED <<tmp, file, saw, spilled, faults>>
    BY <1>8 DEF Crash
  <2>4. crashes' \in 0..MaxCrashes
    <3>1. crashes < MaxCrashes /\ crashes' = crashes + 1
      BY <1>8 DEF Crash
    <3> QED
      BY <3>1
  <2>5. up' = FALSE /\ mem' = {} /\ lock' = NoOne
    BY <1>8 DEF Crash
  <2> QED
    BY <2>1, <2>2, <2>3, <2>4, <2>5
<1>9. CASE Restart
  BY <1>9 DEF Restart
<1>10. CASE Quiescent
  BY <1>10 DEF Quiescent, vars
<1> QED
  BY <1>1, <1>2, <1>3, <1>4, <1>5, <1>6, <1>7, <1>8, <1>9, <1>10
  DEF Next, WriterStep

\* Only the owner of the store moves a request between Lock and the end of
\* its save, and it can become the owner only when nobody reads or writes.
LEMMA ExclusionInductive ==
    ASSUME TypeOK, Exclusion, [Next]_vars
    PROVE  Exclusion'
<1> USE NoOneAssumption DEF TypeOK, WriterPc, ReaderPc, Exclusion, Owning
<1>1. CASE UNCHANGED vars
  BY <1>1 DEF vars
<1>2. ASSUME NEW w \in Writers, Arrive(w)
      PROVE  Exclusion'
  BY <1>2 DEF Arrive
<1>3. ASSUME NEW w \in Writers, Lock(w)
      PROVE  Exclusion'
  BY <1>3 DEF Lock, Reading
<1>4. ASSUME NEW w \in Writers, Refuse(w) \/ Mutate(w)
      PROVE  Exclusion'
  BY <1>4 DEF Refuse, Mutate
<1>5. ASSUME NEW w \in Writers, Open(w) \/ Write(w) \/ Rename(w)
      PROVE  Exclusion'
  BY <1>5 DEF Open, Write, Rename
<1>6. ASSUME NEW w \in Writers, SaveFails(w) \/ Unlock(w)
      PROVE  Exclusion'
  BY <1>6 DEF SaveFails, Unlock
<1>7. ASSUME NEW w \in Writers, Reply(w)
      PROVE  Exclusion'
  BY <1>7 DEF Reply, ReplyTo
<1>8. ASSUME NEW r \in Readers, ArriveReader(r) \/ ReaderStep(r)
      PROVE  Exclusion'
  BY <1>8 DEF ArriveReader, ReaderStep, RLock, ReadAndRUnlock, ReplyReader
<1>9. CASE Crash
  BY <1>9 DEF Crash
<1>10. CASE Restart
  BY <1>10 DEF Restart
<1>11. CASE Quiescent
  BY <1>11 DEF Quiescent, vars
<1> QED
  BY <1>1, <1>2, <1>3, <1>4, <1>5, <1>6, <1>7, <1>8, <1>9, <1>10, <1>11
  DEF Next, WriterStep

\* The rename publishes exactly what memory holds, which is what was on disk,
\* what was spilled, and the owner's own change.
LEMMA ContentsInductive ==
    ASSUME TypeOK, Exclusion, Contents, [Next]_vars
    PROVE  Contents'
<1> USE NoOneAssumption
    DEF TypeOK, WriterPc, ReaderPc, FileContents, Holding, Exclusion, Owning,
        Contents, Before
<1>1. CASE UNCHANGED vars
  BY <1>1 DEF vars
<1>2. ASSUME NEW w \in Writers, Arrive(w)
      PROVE  Contents'
  BY <1>2 DEF Arrive
<1>3. ASSUME NEW w \in Writers, Lock(w) \/ Refuse(w)
      PROVE  Contents'
  BY <1>3 DEF Lock, Refuse
<1>4. ASSUME NEW w \in Writers, Mutate(w)
      PROVE  Contents'
  BY <1>4 DEF Mutate
<1>5. ASSUME NEW w \in Writers, Open(w)
      PROVE  Contents'
  BY <1>5 DEF Open
<1>6. ASSUME NEW w \in Writers, Write(w)
      PROVE  Contents'
  BY <1>6 DEF Write
<1>7. ASSUME NEW w \in Writers, Rename(w)
      PROVE  Contents'
  BY <1>7 DEF Rename
<1>8. ASSUME NEW w \in Writers, SaveFails(w)
      PROVE  Contents'
  BY <1>8 DEF SaveFails
<1>9. ASSUME NEW w \in Writers, Unlock(w)
      PROVE  Contents'
  BY <1>9 DEF Unlock
<1>10. ASSUME NEW w \in Writers, Reply(w)
       PROVE  Contents'
  BY <1>10 DEF Reply, ReplyTo
<1>11. ASSUME NEW r \in Readers, ArriveReader(r) \/ ReaderStep(r)
       PROVE  Contents'
  BY <1>11 DEF ArriveReader, ReaderStep, RLock, ReadAndRUnlock, ReplyReader
<1>12. CASE Crash
  BY <1>12 DEF Crash
<1>13. CASE Restart
  BY <1>13 DEF Restart
<1>14. CASE Quiescent
  BY <1>14 DEF Quiescent, vars
<1> QED
  BY <1>1, <1>2, <1>3, <1>4, <1>5, <1>6, <1>7, <1>8, <1>9, <1>10, <1>11,
     <1>12, <1>13, <1>14
  DEF Next, WriterStep

\* A reader copies memory when no save is under way.
LEMMA ReadsDurableInductive ==
    ASSUME TypeOK, Exclusion, Contents, ReadsDurable, [Next]_vars
    PROVE  ReadsDurable'
<1> USE NoOneAssumption
    DEF TypeOK, WriterPc, ReaderPc, FileContents, Holding, Exclusion, Owning,
        Contents, Before, ReadsDurable
<1>1. CASE UNCHANGED vars
  BY <1>1 DEF vars
<1>2. ASSUME NEW w \in Writers, Rename(w)
      PROVE  ReadsDurable'
  BY <1>2 DEF Rename
<1>3. ASSUME NEW w \in Writers, SaveFails(w)
      PROVE  ReadsDurable'
  BY <1>3 DEF SaveFails
<1>4. ASSUME NEW w \in Writers,
             \/ Arrive(w) \/ Lock(w) \/ Refuse(w) \/ Mutate(w)
             \/ Open(w) \/ Write(w) \/ Unlock(w) \/ Reply(w)
      PROVE  ReadsDurable'
  BY <1>4 DEF Arrive, Lock, Refuse, Mutate, Open, Write, Unlock, Reply
<1>5. ASSUME NEW r \in Readers, ReadAndRUnlock(r)
      PROVE  ReadsDurable'
  <2>1. mem \subseteq file.data \cup spilled
    BY <1>5 DEF ReadAndRUnlock
  <2> QED
    BY <1>5, <2>1 DEF ReadAndRUnlock
<1>6. ASSUME NEW r \in Readers, ArriveReader(r) \/ RLock(r) \/ ReplyReader(r)
      PROVE  ReadsDurable'
  BY <1>6 DEF ArriveReader, RLock, ReplyReader
<1>7. CASE Crash \/ Restart
  BY <1>7 DEF Crash, Restart
<1>8. CASE Quiescent
  BY <1>8 DEF Quiescent, vars
<1> QED
  BY <1>1, <1>2, <1>3, <1>4, <1>5, <1>6, <1>7, <1>8
  DEF Next, WriterStep, ReaderStep

-----------------------------------------------------------------------------

\* The inductive invariant holds in every reachable state.
THEOREM InductiveInvariant == Spec => []IInv
<1>1. Init => IInv
  <2> SUFFICES ASSUME Init PROVE IInv
    OBVIOUS
  <2>1. TypeOK
    BY BoundsAssumption
    DEF Init, TypeOK, WriterPc, ReaderPc, FileContents, Holding
  <2>2. Exclusion /\ Contents /\ ReadsDurable
    BY DEF Init, Exclusion, Owning, Contents, Before, Holding, ReadsDurable
  <2> QED
    BY <2>1, <2>2 DEF IInv
<1>2. IInv /\ [Next]_vars => IInv'
  BY TypeInductive, ExclusionInductive, ContentsInductive,
     ReadsDurableInductive DEF IInv
<1> QED
  BY <1>1, <1>2, PTL DEF Spec

\* Every variable stays in its type, for any writers, readers and bounds.
THEOREM TypeCorrect == Spec => []TypeOK
<1>1. IInv => TypeOK
  BY DEF IInv
<1> QED
  BY <1>1, InductiveInvariant, PTL

\* Success is answered only for what state.json holds, through every failure
\* and crash (state.go:57-72).
THEOREM AckedIsDurable == Spec => []AckedDurable
<1>1. IInv => AckedDurable
  BY DEF IInv, Contents, AckedDurable
<1> QED
  BY <1>1, InductiveInvariant, PTL

\* What a read returned is on disk or belongs to a failed save (store.go:25).
THEOREM ReadsAreDurable == Spec => []ReadsDurable
<1>1. IInv => ReadsDurable
  BY DEF IInv
<1> QED
  BY <1>1, InductiveInvariant, PTL

\* The hub can always be started again (store.go:40-42).
THEOREM AlwaysLoads == Spec => []RestartLoads
<1>1. IInv => RestartLoads
  BY DEF IInv, Contents, RestartLoads
<1> QED
  BY <1>1, InductiveInvariant, PTL

-----------------------------------------------------------------------------
(* Refinement.                                                             *)

\* Every step of the store is a step of DurableState or leaves it alone.
LEMMA StepRefines ==
    ASSUME IInv, IInv', [Next]_vars
    PROVE  [Abs!Next]_(Abs!vars)
<1> USE NoOneAssumption
    DEF IInv, TypeOK, WriterPc, ReaderPc, FileContents, Holding, Exclusion,
        Owning, Contents, Before, Visible
<1>1. UNCHANGED vars => UNCHANGED Abs!vars
  BY DEF vars, Abs!vars
<1>2. ASSUME NEW w \in Writers,
             Arrive(w) \/ Lock(w) \/ Refuse(w) \/ Open(w) \/ Write(w) \/ Unlock(w)
      PROVE  UNCHANGED Abs!vars
  BY <1>2 DEF Arrive, Lock, Refuse, Open, Write, Unlock, Abs!vars
<1>3. ASSUME NEW w \in Writers, Mutate(w)
      PROVE  UNCHANGED Abs!vars
  BY <1>3 DEF Mutate, Abs!vars
<1>4. ASSUME NEW w \in Writers, Rename(w)
      PROVE  Abs!Commit(w)
  BY <1>4 DEF Rename, Abs!Commit, Abs!Fresh
<1>5. ASSUME NEW w \in Writers, SaveFails(w)
      PROVE  Abs!Spill(w)
  BY <1>5 DEF SaveFails, Abs!Spill, Abs!Fresh
<1>6. ASSUME NEW w \in Writers, Reply(w)
      PROVE  Abs!Acknowledge(w) \/ UNCHANGED Abs!vars
  BY <1>6 DEF Reply, ReplyTo, Abs!Acknowledge, Abs!vars
<1>7. ASSUME NEW r \in Readers, ArriveReader(r) \/ RLock(r) \/ ReplyReader(r)
      PROVE  UNCHANGED Abs!vars
  BY <1>7 DEF ArriveReader, RLock, ReplyReader, Abs!vars
<1>8. ASSUME NEW r \in Readers, ReadAndRUnlock(r)
      PROVE  Abs!Observe(r)
  <2>1. /\ up
        /\ saw' = [saw EXCEPT ![r] = mem]
        /\ UNCHANGED <<up, pc, mem, file, spilled>>
    BY <1>8 DEF ReadAndRUnlock
  <2>2. \A w \in Writers : pc[w] \notin InSave
    BY <1>8 DEF ReadAndRUnlock
  <2>3. Visible = mem
    BY <2>2
  <2> QED
    BY <2>1, <2>3 DEF Abs!Observe
<1>9. Crash => Abs!Stop
  <2> SUFFICES ASSUME Crash PROVE Abs!Stop
    OBVIOUS
  <2>1. ASSUME NEW w \in Writers
        PROVE  pc'[w] = "ok" <=> pc[w] = "ok"
    <3>1. pc'[w] = IF pc[w] \in {"idle"} \cup Answered THEN pc[w] ELSE "lost"
      BY DEF Crash
    <3> QED
      BY <3>1
  <2>2. {w \in Writers : pc'[w] = "ok"} = {w \in Writers : pc[w] = "ok"}
    BY <2>1
  <2>3. up /\ up' = FALSE /\ mem' = {} /\ UNCHANGED <<file, spilled, saw>>
    BY DEF Crash
  <2> QED
    BY <2>2, <2>3 DEF Abs!Stop
<1>10. Restart => Abs!Start
  BY DEF Restart, Abs!Start
<1>11. Quiescent => UNCHANGED Abs!vars
  BY DEF Quiescent, vars, Abs!vars
<1> QED
  BY <1>1, <1>2, <1>3, <1>4, <1>5, <1>6, <1>7, <1>8, <1>9, <1>10, <1>11
  DEF Next, WriterStep, ReaderStep, Abs!Next

\* Seen through Visible, the store with its lock, temporary file and rename
\* behaves as DurableState.
THEOREM StateFileRefines == Spec => ImplementsDurableState
<1>1. Init => Abs!Init
  BY DEF Init, Abs!Init, Visible, Holding
<1>2. IInv /\ IInv' /\ [Next]_vars => [Abs!Next]_(Abs!vars)
  BY StepRefines
<1> QED
  BY <1>1, <1>2, InductiveInvariant, PTL DEF Spec, ImplementsDurableState, Abs!Spec
====
