---- MODULE StateFile ----
(***************************************************************************)
(* The hub's state store as handlers use it: FileStore guards one in-      *)
(* memory stateData with an RWMutex, and every mutating method rewrites    *)
(* state.json before it releases the lock (write state.json.tmp, rename).  *)
(*                                                                         *)
(* The data is abstracted to the set of the write requests applied to it:  *)
(* a request adds itself.  The control is kept step by step: taking the    *)
(* lock, changing memory, truncating and filling the temporary file,       *)
(* renaming it, the deferred unlock, the reply.  Each file operation can   *)
(* fail, and the process can be killed between any two steps.              *)
(***************************************************************************)
EXTENDS Naturals, FiniteSets

CONSTANTS Writers,      \* requests that call a mutating FileStore method
          Readers,      \* requests that call a method under RLock
          NoOne,        \* the write lock is free
          MaxFaults,    \* bound: file operations that fail
          MaxCrashes    \* bound: times the process is killed

ASSUME NoOneAssumption == NoOne \notin Writers
ASSUME BoundsAssumption == MaxFaults \in Nat /\ MaxCrashes \in Nat

VARIABLES up,           \* the process is running
          pc,           \* pc[w]: how far write request w is
          rpc,          \* rpc[r]: how far read request r is
          lock,         \* holder of FileStore.mu for writing
          mem,          \* stateFile.data
          tmp,          \* state.json.tmp
          file,         \* state.json
          saw,          \* saw[r]: the data reader r copied
          spilled,      \* history: requests whose save returned an error
          faults, crashes

vars == <<up, pc, rpc, lock, mem, tmp, file, saw, spilled, faults, crashes>>

Finished == {"saved", "failed", "refused"}
InSave == {"mutated", "opened", "written"}
Answered == {"ok", "error", "rejected", "lost"}
WriterPc == {"idle", "waiting", "locked"} \cup InSave \cup Finished \cup Answered
ReaderPc == {"idle", "waiting", "reading", "answering", "ok", "lost"}

\* A file is all of some contents, or what an interrupted write left behind.
\* No file at all loads as the defaults, that is as whole and without requests.
FileContents == [whole : BOOLEAN, data : SUBSET Writers]
Torn == [whole |-> FALSE, data |-> {}]
Holding(S) == [whole |-> TRUE, data |-> S]

Init ==
    /\ up = TRUE
    /\ pc = [w \in Writers |-> "idle"]
    /\ rpc = [r \in Readers |-> "idle"]
    /\ lock = NoOne
    /\ mem = {}
    /\ tmp = Holding({})
    /\ file = Holding({})
    /\ saw = [r \in Readers |-> {}]
    /\ spilled = {}
    /\ faults = 0
    /\ crashes = 0

Reading == {r \in Readers : rpc[r] = "reading"}

-----------------------------------------------------------------------------
(* A write request.                                                        *)

Arrive(w) ==
    /\ up
    /\ pc[w] = "idle"
    /\ pc' = [pc EXCEPT ![w] = "waiting"]
    /\ UNCHANGED <<up, rpc, lock, mem, tmp, file, saw, spilled, faults, crashes>>

\* s.mu.Lock() returns: no other writer and no reader holds the lock.
Lock(w) ==
    /\ up
    /\ pc[w] = "waiting"
    /\ lock = NoOne
    /\ Reading = {}
    /\ lock' = w
    /\ pc' = [pc EXCEPT ![w] = "locked"]
    /\ UNCHANGED <<up, rpc, mem, tmp, file, saw, spilled, faults, crashes>>

\* An early return: nothing found, or a version conflict. Nothing is saved.
Refuse(w) ==
    /\ up
    /\ pc[w] = "locked"
    /\ pc' = [pc EXCEPT ![w] = "refused"]
    /\ UNCHANGED <<up, rpc, lock, mem, tmp, file, saw, spilled, faults, crashes>>

\* The method changes s.state.data in place.
Mutate(w) ==
    /\ up
    /\ pc[w] = "locked"
    /\ mem' = mem \cup {w}
    /\ pc' = [pc EXCEPT ![w] = "mutated"]
    /\ UNCHANGED <<up, rpc, lock, tmp, file, saw, spilled, faults, crashes>>

\* Mutant: WriteFile is given f.path itself.
OpenInPlace(w) ==
    /\ up
    /\ pc[w] = "mutated"
    /\ file' = Torn
    /\ tmp' = Torn
    /\ pc' = [pc EXCEPT ![w] = "opened"]
    /\ UNCHANGED <<up, rpc, lock, mem, saw, spilled, faults, crashes>>

\* save marshals the data, and WriteFile truncates the temporary file...
Open(w) ==
    /\ up
    /\ pc[w] = "mutated"
    /\ tmp' = Torn
    /\ pc' = [pc EXCEPT ![w] = "opened"]
    /\ UNCHANGED <<up, rpc, lock, mem, file, saw, spilled, faults, crashes>>

\* ... and then fills it. The data is what was marshalled under the lock.
Write(w) ==
    /\ up
    /\ pc[w] = "opened"
    /\ tmp' = Holding(mem)
    /\ pc' = [pc EXCEPT ![w] = "written"]
    /\ UNCHANGED <<up, rpc, lock, mem, file, saw, spilled, faults, crashes>>

\* os.Rename replaces state.json in one step.
Rename(w) ==
    /\ up
    /\ pc[w] = "written"
    /\ file' = tmp
    /\ tmp' = Holding({})
    /\ pc' = [pc EXCEPT ![w] = "saved"]
    /\ UNCHANGED <<up, rpc, lock, mem, saw, spilled, faults, crashes>>

\* MkdirAll, WriteFile or Rename returns an error: save returns it, memory
\* keeps the change, and whatever was written of the temporary file stays.
SaveFails(w) ==
    /\ up
    /\ pc[w] \in InSave
    /\ faults < MaxFaults
    /\ faults' = faults + 1
    /\ spilled' = spilled \cup {w}
    /\ pc' = [pc EXCEPT ![w] = "failed"]
    /\ UNCHANGED <<up, rpc, lock, mem, tmp, file, saw, crashes>>

\* Mutant: the error path returns without unlocking.
UnlockOnSuccess(w) ==
    /\ up
    /\ lock = w
    /\ pc[w] \in Finished \ {"failed"}
    /\ lock' = NoOne
    /\ UNCHANGED <<up, pc, rpc, mem, tmp, file, saw, spilled, faults, crashes>>

\* The deferred s.mu.Unlock(), on every path.
Unlock(w) ==
    /\ up
    /\ lock = w
    /\ pc[w] \in Finished
    /\ lock' = NoOne
    /\ UNCHANGED <<up, pc, rpc, mem, tmp, file, saw, spilled, faults, crashes>>

\* Mutant: the handler drops the error of save.
ReplyIgnoringError(result) == IF result = "refused" THEN "rejected" ELSE "ok"

\* Mutant: the handler returns from its error paths without an answer.
ReplyOnSuccess(result) == IF result = "saved" THEN "ok" ELSE "none"

\* What the handler answers: 2xx, 500 (writeStoreError), or 404 and 409.
ReplyTo(result) ==
    CASE result = "saved" -> "ok"
      [] result = "failed" -> "error"
      [] OTHER -> "rejected"

Reply(w) ==
    /\ up
    /\ lock # w
    /\ pc[w] \in Finished
    /\ pc' = [pc EXCEPT ![w] = ReplyTo(pc[w])]
    /\ UNCHANGED <<up, rpc, lock, mem, tmp, file, saw, spilled, faults, crashes>>

-----------------------------------------------------------------------------
(* A read request.                                                         *)

ArriveReader(r) ==
    /\ up
    /\ rpc[r] = "idle"
    /\ rpc' = [rpc EXCEPT ![r] = "waiting"]
    /\ UNCHANGED <<up, pc, lock, mem, tmp, file, saw, spilled, faults, crashes>>

\* Mutant: the reading method takes no lock.
RLockSkipped(r) ==
    /\ up
    /\ rpc[r] = "waiting"
    /\ rpc' = [rpc EXCEPT ![r] = "reading"]
    /\ UNCHANGED <<up, pc, lock, mem, tmp, file, saw, spilled, faults, crashes>>

RLock(r) ==
    /\ up
    /\ rpc[r] = "waiting"
    /\ lock = NoOne
    /\ rpc' = [rpc EXCEPT ![r] = "reading"]
    /\ UNCHANGED <<up, pc, lock, mem, tmp, file, saw, spilled, faults, crashes>>

\* The method copies what it returns and its deferred RUnlock runs.
ReadAndRUnlock(r) ==
    /\ up
    /\ rpc[r] = "reading"
    /\ saw' = [saw EXCEPT ![r] = mem]
    /\ rpc' = [rpc EXCEPT ![r] = "answering"]
    /\ UNCHANGED <<up, pc, lock, mem, tmp, file, spilled, faults, crashes>>

ReplyReader(r) ==
    /\ up
    /\ rpc[r] = "answering"
    /\ rpc' = [rpc EXCEPT ![r] = "ok"]
    /\ UNCHANGED <<up, pc, lock, mem, tmp, file, saw, spilled, faults, crashes>>

-----------------------------------------------------------------------------
(* The process.                                                            *)

\* The process is killed. Memory and the requests under way are lost; the
\* files stay as they are.
Crash ==
    /\ up
    /\ crashes < MaxCrashes
    /\ crashes' = crashes + 1
    /\ up' = FALSE
    /\ mem' = {}
    /\ lock' = NoOne
    /\ pc' = [w \in Writers |->
                IF pc[w] \in {"idle"} \cup Answered THEN pc[w] ELSE "lost"]
    /\ rpc' = [r \in Readers |->
                IF rpc[r] \in {"idle", "ok"} THEN rpc[r] ELSE "lost"]
    /\ UNCHANGED <<tmp, file, saw, spilled, faults>>

\* OpenFiles: a state.json that does not parse stops the start.
Restart ==
    /\ ~up
    /\ file.whole
    /\ up' = TRUE
    /\ mem' = file.data
    /\ UNCHANGED <<pc, rpc, lock, tmp, file, saw, spilled, faults, crashes>>

\* Every request was answered: the hub waits for the next one.
Quiescent ==
    /\ up
    /\ \A w \in Writers : pc[w] \in Answered
    /\ \A r \in Readers : rpc[r] \in {"ok", "lost"}
    /\ UNCHANGED vars

WriterStep(w) ==
    \/ Lock(w) \/ Refuse(w) \/ Mutate(w) \/ Open(w) \/ Write(w) \/ Rename(w)
    \/ SaveFails(w) \/ Unlock(w) \/ Reply(w)

ReaderStep(r) == RLock(r) \/ ReadAndRUnlock(r) \/ ReplyReader(r)

Next ==
    \/ \E w \in Writers : Arrive(w) \/ WriterStep(w)
    \/ \E r \in Readers : ArriveReader(r) \/ ReaderStep(r)
    \/ Crash
    \/ Restart
    \/ Quiescent

Spec == Init /\ [][Next]_vars

\* A goroutine that can run does, and file operations return.  Each request is
\* answered once and requests are finitely many, so that nobody overtakes a
\* waiting one forever and weak fairness is enough for the lock.
Fairness ==
    /\ \A w \in Writers : WF_vars(WriterStep(w))
    /\ \A r \in Readers : WF_vars(ReaderStep(r))

FairSpec == Spec /\ Fairness

-----------------------------------------------------------------------------
(* Properties.                                                             *)

TypeOK ==
    /\ up \in BOOLEAN
    /\ pc \in [Writers -> WriterPc]
    /\ rpc \in [Readers -> ReaderPc]
    /\ lock \in Writers \cup {NoOne}
    /\ mem \in SUBSET Writers
    /\ tmp \in FileContents
    /\ file \in FileContents
    /\ saw \in [Readers -> SUBSET Writers]
    /\ spilled \in SUBSET Writers
    /\ faults \in 0..MaxFaults
    /\ crashes \in 0..MaxCrashes

\* A request answered with success is in state.json from then on, whatever is
\* killed and whatever else fails: the reply is sent after the rename
\* (state.go:57-72), later saves never drop it, and a restart loads it.
AckedDurable ==
    \A w \in Writers : pc[w] = "ok" => file.whole /\ w \in file.data

\* What a reader was shown is on disk already, unless the save of the request
\* that wrote it returned an error: no method reads stateData while the save
\* of another is under way (store.go:25, the RWMutex).
ReadsDurable ==
    \A r \in Readers : saw[r] \subseteq file.data \cup spilled

\* The hub always comes back: whenever it is down, state.json parses, so that
\* OpenFiles does not fail on it (store.go:40-42).
RestartLoads == ~up => file.whole

\* No request waits for the store forever, also after failed saves: every path
\* out of a method releases the lock (the deferred unlocks).
EveryRequestAnswered ==
    /\ \A w \in Writers : pc[w] = "waiting" ~> pc[w] \in Answered
    /\ \A r \in Readers : rpc[r] = "waiting" ~> rpc[r] \in {"ok", "lost"}

\* What other requests would see: the change of a request whose save is under
\* way is hidden by the lock.
Visible == mem \ {w \in Writers : pc[w] \in InSave}

Abs == INSTANCE DurableState WITH
           vol <- Visible,
           dur <- file.data,
           acked <- {w \in Writers : pc[w] = "ok"}

\* The store implements DurableState: a request takes effect at its rename, or
\* when its save fails (store.go:25, state.go:57-72).
ImplementsDurableState == Abs!Spec
====
