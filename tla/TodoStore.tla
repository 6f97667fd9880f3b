---- MODULE TodoStore ----
(***************************************************************************)
(* The todo list: FileStore's todo methods and the handlers of             *)
(* /api/v1/todos over them.  Updates and deletions are compare-and-swap on *)
(* the version the client last read.                                       *)
(*                                                                         *)
(* A mutating method runs under the store's lock and rewrites state.json   *)
(* before it returns, so it is one step here, with the outcomes that       *)
(* DurableState has and StateFile implements: it is committed (memory and  *)
(* disk), or its save fails (memory alone, and the handler answers 500).   *)
(* A kill between two steps loses what is in memory alone.                 *)
(***************************************************************************)
EXTENDS Naturals

CONSTANTS Owners,       \* users
          Texts,
          Statuses,
          Keep,         \* a field that a PATCH leaves out
          MaxId,        \* bound: todos ever created
          MaxVersion,   \* bound: version of one todo
          MaxFaults,    \* bound: saves that fail
          MaxCrashes    \* bound: times the process is killed

ASSUME KeepAssumption == Keep \notin Texts /\ Keep \notin Statuses
ASSUME BoundsAssumption ==
    /\ MaxId \in Nat /\ MaxVersion \in Nat
    /\ MaxFaults \in Nat /\ MaxCrashes \in Nat

VARIABLES up,           \* the process is running
          mem,          \* Todos and NextTodoID of stateFile.data
          disk,         \* the same in state.json
          issued,       \* history: the todos a client was ever sent
          acked,        \* history: those sent in answer to its POST or PATCH
          deleted,      \* history: ids that a DELETE took out, saved or not
          removed,      \* history: ids whose DELETE was answered 204
          forgotten,    \* history: a kill lost a change that was in memory alone
          faults, crashes

vars == <<up, mem, disk, issued, acked, deleted, removed, forgotten, faults, crashes>>

\* Ids and versions are positive: pathID and the handlers refuse others.
Positive == Nat \ {0}
Todo == [id : Positive, owner : Owners, text : Texts, status : Statuses,
         version : Positive]
Data == [todos : SUBSET Todo, next : Positive]
Patch == {p \in [text : Texts \cup {Keep}, status : Statuses \cup {Keep}] :
            p.text # Keep \/ p.status # Keep}

Init ==
    /\ up = TRUE
    /\ mem = [todos |-> {}, next |-> 1]
    /\ disk = mem
    /\ issued = {}
    /\ acked = {}
    /\ deleted = {}
    /\ removed = {}
    /\ forgotten = FALSE
    /\ faults = 0
    /\ crashes = 0

\* Mutant: the change is answered before it is saved.
CommitLater(data) ==
    /\ mem' = data
    /\ UNCHANGED <<disk, faults>>

\* save returns nil: memory and state.json hold the new data.
Commit(data) ==
    /\ mem' = data
    /\ disk' = data
    /\ UNCHANGED faults

\* save returns an error: nothing undoes the change in memory.
Spill(data) ==
    /\ faults < MaxFaults
    /\ faults' = faults + 1
    /\ mem' = data
    /\ UNCHANGED disk

\* A change of the client's request reaches it, or the reply is lost.
Tell(todo) ==
    \/ issued' = issued \cup {todo} /\ acked' = acked \cup {todo}
    \/ UNCHANGED <<issued, acked>>

-----------------------------------------------------------------------------
(* The handlers.                                                           *)

\* todoIndex: the todo of that id, if the user owns it.
Found(owner, id) == {t \in mem.todos : t.id = id /\ t.owner = owner}

\* GET /todos, GET /todos/{id}, and the todos of a snapshot.
ReadTodos(owner) ==
    /\ up
    /\ issued' = issued \cup {t \in mem.todos : t.owner = owner}
    /\ UNCHANGED <<up, mem, disk, acked, deleted, removed, forgotten, faults, crashes>>

\* NextTodoID.
NextId(data) == data.next

\* Mutant: the version is left at Go's zero value.
ZeroVersion == 0

FirstVersion == 1

AddTodo(owner, text, status) ==
    LET todo == [id |-> NextId(mem), owner |-> owner, text |-> text,
                 status |-> status, version |-> FirstVersion]
        data == [todos |-> mem.todos \cup {todo}, next |-> mem.next + 1]
    IN  /\ up
        /\ mem.next <= MaxId
        /\ \/ Commit(data) /\ Tell(todo)
           \/ Spill(data) /\ UNCHANGED <<issued, acked>>
        /\ UNCHANGED <<up, deleted, removed, forgotten, crashes>>

\* Mutant: a version at least as new as the stored one will do.
VersionNotOlder(stored, version) == version >= stored.version - 1

\* The version sent is the version stored; a conflict (409) changes nothing.
VersionMatches(stored, version) == version = stored.version

Sent(field, old) == IF field = Keep THEN old ELSE field

\* Mutant: the update forgets todo.Version++.
PatchedSameVersion(todo, patch) ==
    [todo EXCEPT !.text = Sent(patch.text, @), !.status = Sent(patch.status, @)]

\* UpdateTodo's new todo: the fields sent, and the next version.
Patched(todo, patch) ==
    [id |-> todo.id, owner |-> todo.owner, text |-> Sent(patch.text, todo.text),
     status |-> Sent(patch.status, todo.status), version |-> todo.version + 1]

UpdateTodo(owner, id, version, patch) ==
    /\ up
    /\ \E t \in Found(owner, id) :
        LET data == [mem EXCEPT !.todos = (@ \ {t}) \cup {Patched(t, patch)}]
        IN  /\ VersionMatches(t, version)
            /\ t.version < MaxVersion
            /\ \/ Commit(data) /\ Tell(Patched(t, patch))
               \/ Spill(data) /\ UNCHANGED <<issued, acked>>
    /\ UNCHANGED <<up, deleted, removed, forgotten, crashes>>

\* Mutant: DeleteTodo answers before it saves.
DeleteUnsaved(owner, id, version) ==
    /\ up
    /\ \E t \in Found(owner, id) :
        /\ VersionMatches(t, version)
        /\ mem' = [mem EXCEPT !.todos = @ \ {t}]
        /\ deleted' = deleted \cup {id}
        /\ removed' = removed \cup {id}
    /\ UNCHANGED <<up, disk, issued, acked, forgotten, faults, crashes>>

DeleteTodo(owner, id, version) ==
    /\ up
    /\ \E t \in Found(owner, id) :
        LET data == [mem EXCEPT !.todos = @ \ {t}]
        IN  /\ VersionMatches(t, version)
            /\ deleted' = deleted \cup {id}
            /\ \/ Commit(data) /\ removed' \in {removed, removed \cup {id}}
               \/ Spill(data) /\ UNCHANGED removed
    /\ UNCHANGED <<up, issued, acked, forgotten, crashes>>

-----------------------------------------------------------------------------
(* The rest of the hub and the process.                                    *)

\* A request about devices, messages or users saves: save writes all of the
\* data, todos included.
SaveElsewhere ==
    /\ up
    /\ Commit(mem)
    /\ UNCHANGED <<up, issued, acked, deleted, removed, forgotten, crashes>>

Crash ==
    /\ up
    /\ crashes < MaxCrashes
    /\ crashes' = crashes + 1
    /\ up' = FALSE
    /\ UNCHANGED <<mem, disk, issued, acked, deleted, removed, forgotten, faults>>

\* The hub is started again: load reads state.json. The saved NextTodoID is
\* positive, so that normalize leaves it.
Restart ==
    /\ ~up
    /\ up' = TRUE
    /\ mem' = disk
    /\ forgotten' = (forgotten \/ mem # disk)
    /\ UNCHANGED <<disk, issued, acked, deleted, removed, faults, crashes>>

\* A client sends the id and the version of a todo it was sent (app.js:313-348).
Next ==
    \/ \E o \in Owners : ReadTodos(o)
    \/ \E o \in Owners, text \in Texts, s \in Statuses : AddTodo(o, text, s)
    \/ \E o \in Owners, t \in issued, p \in Patch : UpdateTodo(o, t.id, t.version, p)
    \/ \E o \in Owners, t \in issued : DeleteTodo(o, t.id, t.version)
    \/ SaveElsewhere
    \/ Crash
    \/ Restart

Spec == Init /\ [][Next]_vars

-----------------------------------------------------------------------------
(* Properties.                                                             *)

TypeOK ==
    /\ up \in BOOLEAN
    /\ mem \in Data
    /\ disk \in Data
    /\ issued \in SUBSET Todo
    /\ acked \in SUBSET Todo
    /\ deleted \in SUBSET Positive
    /\ removed \in SUBSET Positive
    /\ forgotten \in BOOLEAN
    /\ faults \in 0..MaxFaults
    /\ crashes \in 0..MaxCrashes

\* The id and the version a client sends identify the todo it read: whatever
\* it was sent earlier, in whatever order, the stored todo of that id and
\* version is the very same. It is what makes the compare-and-swap of
\* UpdateTodo and DeleteTodo (todos.go:56, 79) prevent lost updates, and it
\* holds until a kill loses a change that readers were shown.
VersionIdentifiesContent ==
    forgotten \/ \A t \in issued, s \in mem.todos :
                    t.id = s.id /\ t.version = s.version => t = s

\* Requests that take effect replace exactly the todo their author had read.
ReplacesWhatWasRead ==
    \A o \in Owners, t \in issued :
        \/ DeleteTodo(o, t.id, t.version)
        \/ \E p \in Patch : UpdateTodo(o, t.id, t.version, p)
        => t \in mem.todos

\* The same as a client sees it: failed saves, kills and lost replies make it
\* overwrite nothing it had not read, until a kill loses a change that readers
\* were shown (todolist.md:5).
LostOnlyWhenForgotten == [][forgotten \/ ReplacesWhatWasRead]_vars

\* A todo that was answered as saved stays, in memory and in what a restart
\* loads, until a user deletes it, and never falls back to an earlier version,
\* through failed saves and crashes.
AckedNeverRegresses ==
    \A t \in acked, data \in {mem, disk} :
        /\ t.id \in deleted \/ \E s \in data.todos : s.id = t.id
        /\ \A s \in data.todos : s.id = t.id => s.version >= t.version

\* A todo whose deletion was answered never comes back, and its id is not
\* given to another.
RemovedStaysRemoved ==
    \A s \in mem.todos \cup disk.todos : s.id \notin removed

\* A claim of the documentation, that the code does not keep.

\* Clients that change a todo at the same time never overwrite each other
\* (todolist.md:5).
NoLostUpdate == [][ReplacesWhatWasRead]_vars
====
