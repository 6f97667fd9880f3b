---- MODULE TodoStoreProofs ----
(***************************************************************************)
(* Proofs about TodoStore, for any users, texts and bounds.  That a        *)
(* version identifies a content is proved until a kill loses a change that *)
(* was in memory alone: afterwards it is false (run todo_lost_update).     *)
(* The durability of answered requests has no such condition.              *)
(***************************************************************************)
EXTENDS TodoStore, TLAPS

\* What is stored in one place: ids are unique and below the next one.
Orderly(data) ==
    /\ \A s \in data.todos : s.id < data.next
    /\ \A s, t \in data.todos : s.id = t.id => s = t

\* Nothing answered is missing from it.
KeepsAnswers(data) ==
    /\ \A t \in acked :
        /\ t.id < data.next
        /\ t.id \in deleted \/ \E s \in data.todos : s.id = t.id
        /\ \A s \in data.todos : s.id = t.id => s.version >= t.version
    /\ \A id \in removed :
        /\ id < data.next
        /\ \A s \in data.todos : s.id # id

Answers ==
    /\ Orderly(mem) /\ Orderly(disk)
    /\ KeepsAnswers(mem) /\ KeepsAnswers(disk)

\* What clients were sent is what was stored, no newer than what is stored.
Views ==
    \/ forgotten
    \/ \A t \in issued :
        /\ t.id < mem.next
        /\ \A s \in mem.todos :
            t.id = s.id => /\ t.version <= s.version
                           /\ t.version = s.version => t = s

-----------------------------------------------------------------------------
(* Facts about the operations.                                             *)

\* A new todo is one, with the id that follows all others.
LEMMA AddedTyped ==
    ASSUME TypeOK, NEW o \in Owners, NEW text \in Texts, NEW st \in Statuses
    PROVE  LET todo == [id |-> NextId(mem), owner |-> o, text |-> text,
                        status |-> st, version |-> FirstVersion]
               data == [todos |-> mem.todos \cup {todo}, next |-> mem.next + 1]
           IN  todo \in Todo /\ data \in Data
<1> DEFINE todo == [id |-> NextId(mem), owner |-> o, text |-> text,
                    status |-> st, version |-> FirstVersion]
<1>1. mem.todos \in SUBSET Todo /\ mem.next \in Positive /\ mem.next + 1 \in Positive
  BY DEF TypeOK, Data, Positive
<1>2. todo \in Todo
  BY <1>1 DEF Todo, NextId, FirstVersion, Positive
<1>3. mem.todos \cup {todo} \in SUBSET Todo
  BY <1>1, <1>2
<1> QED
  BY <1>1, <1>2, <1>3 DEF Data

\* A patch keeps the id and the owner, and takes the next version.
LEMMA PatchedTyped ==
    ASSUME NEW t \in Todo, NEW p \in Patch
    PROVE  /\ Patched(t, p) \in Todo
           /\ Patched(t, p).id = t.id
           /\ Patched(t, p).owner = t.owner
           /\ Patched(t, p).version = t.version + 1
<1>1. /\ t.id \in Positive /\ t.owner \in Owners /\ t.text \in Texts
      /\ t.status \in Statuses /\ t.version \in Positive
  BY DEF Todo
<1>2. p.text \in Texts \cup {Keep} /\ p.status \in Statuses \cup {Keep}
  BY DEF Patch
<1>3. /\ Sent(p.text, t.text) \in Texts
      /\ Sent(p.status, t.status) \in Statuses
      /\ t.version + 1 \in Positive
  BY <1>1, <1>2 DEF Sent, Positive
<1> QED
  BY <1>1, <1>3 DEF Patched, Todo

\* The shapes of a step, with the formulas of the actions expanded.
Saving(data) ==
    \/ disk' = data /\ UNCHANGED faults
    \/ faults < MaxFaults /\ faults' = faults + 1 /\ UNCHANGED disk

Adding(todo, data) ==
    /\ todo.id = mem.next /\ todo.version = 1
    /\ data.todos = mem.todos \cup {todo} /\ data.next = mem.next + 1
    /\ mem' = data
    /\ Saving(data)
    /\ \/ disk' = data /\ issued' = issued \cup {todo} /\ acked' = acked \cup {todo}
       \/ UNCHANGED <<issued, acked>>
    /\ up /\ UNCHANGED <<up, deleted, removed, forgotten, crashes>>

Updating(t, new, data) ==
    /\ new.id = t.id /\ new.owner = t.owner /\ new.version = t.version + 1
    /\ data.todos = (mem.todos \ {t}) \cup {new} /\ data.next = mem.next
    /\ mem' = data
    /\ Saving(data)
    /\ \/ disk' = data /\ issued' = issued \cup {new} /\ acked' = acked \cup {new}
       \/ UNCHANGED <<issued, acked>>
    /\ up /\ UNCHANGED <<up, deleted, removed, forgotten, crashes>>

Deleting(t, data) ==
    /\ deleted' = deleted \cup {t.id}
    /\ data.todos = mem.todos \ {t} /\ data.next = mem.next
    /\ mem' = data
    /\ Saving(data)
    /\ \/ disk' = data /\ removed' = removed \cup {t.id}
       \/ UNCHANGED removed
    /\ up /\ UNCHANGED <<up, issued, acked, forgotten, crashes>>

\* AddTodo adds one new todo.
LEMMA AddShape ==
    ASSUME TypeOK, NEW o \in Owners, NEW text \in Texts, NEW st \in Statuses,
           AddTodo(o, text, st)
    PROVE  \E todo \in Todo, data \in Data : Adding(todo, data)
<1> DEFINE todo == [id |-> NextId(mem), owner |-> o, text |-> text,
                    status |-> st, version |-> FirstVersion]
           data == [todos |-> mem.todos \cup {todo}, next |-> mem.next + 1]
<1>1. todo \in Todo /\ data \in Data
  BY AddedTyped
<1>2. /\ todo.id = mem.next /\ todo.version = 1
      /\ data.todos = mem.todos \cup {todo} /\ data.next = mem.next + 1
  BY DEF NextId, FirstVersion
<1>3. /\ mem' = data
      /\ Saving(data)
      /\ \/ disk' = data /\ issued' = issued \cup {todo} /\ acked' = acked \cup {todo}
         \/ UNCHANGED <<issued, acked>>
      /\ up /\ UNCHANGED <<up, deleted, removed, forgotten, crashes>>
  BY DEF AddTodo, Commit, Spill, Tell, Saving
<1> HIDE DEF todo, data
<1> QED
  BY <1>1, <1>2, <1>3 DEF Adding

\* UpdateTodo replaces the todo whose version was given.
LEMMA UpdateShape ==
    ASSUME TypeOK, NEW o \in Owners, NEW id, NEW version, NEW p \in Patch,
           UpdateTodo(o, id, version, p)
    PROVE  \E t \in mem.todos, new \in Todo, data \in Data :
             /\ t.id = id /\ t.owner = o /\ t.version = version
             /\ Updating(t, new, data)
<1>1. PICK t \in Found(o, id) :
        LET data == [mem EXCEPT !.todos = (@ \ {t}) \cup {Patched(t, p)}]
        IN  /\ VersionMatches(t, version)
            /\ t.version < MaxVersion
            /\ \/ Commit(data) /\ Tell(Patched(t, p))
               \/ Spill(data) /\ UNCHANGED <<issued, acked>>
  BY DEF UpdateTodo
<1> DEFINE new == Patched(t, p)
           data == [mem EXCEPT !.todos = (@ \ {t}) \cup {new}]
<1>2. t \in mem.todos /\ t.id = id /\ t.owner = o /\ t.version = version
  BY <1>1 DEF Found, VersionMatches
<1>3. mem.todos \in SUBSET Todo /\ mem.next \in Positive
  BY DEF TypeOK, Data
<1>4. /\ new \in Todo /\ new.id = t.id /\ new.owner = t.owner
      /\ new.version = t.version + 1
  BY <1>2, <1>3, PatchedTyped
<1>5. data = [todos |-> (mem.todos \ {t}) \cup {new}, next |-> mem.next]
  <2>1. mem = [todos |-> mem.todos, next |-> mem.next]
    BY DEF TypeOK, Data
  <2> HIDE DEF new
  <2> QED
    BY <2>1
<1>6. data.todos = (mem.todos \ {t}) \cup {new} /\ data.next = mem.next
  BY <1>5
<1>7. data \in Data
  <2> DEFINE rest == (mem.todos \ {t}) \cup {new}
  <2>1. rest \in SUBSET Todo
    BY <1>3, <1>4
  <2> HIDE DEF rest
  <2> QED
    BY <1>3, <1>5, <2>1 DEF Data, rest
<1>8. /\ mem' = data
      /\ Saving(data)
      /\ \/ disk' = data /\ issued' = issued \cup {new} /\ acked' = acked \cup {new}
         \/ UNCHANGED <<issued, acked>>
      /\ up /\ UNCHANGED <<up, deleted, removed, forgotten, crashes>>
  BY <1>1 DEF UpdateTodo, Commit, Spill, Tell, Saving
<1> HIDE DEF new, data
<1> QED
  BY <1>2, <1>4, <1>6, <1>7, <1>8 DEF Updating

\* DeleteTodo takes away the todo whose version was given.
LEMMA DeleteShape ==
    ASSUME TypeOK, NEW o \in Owners, NEW id, NEW version,
           DeleteTodo(o, id, version)
    PROVE  \E t \in mem.todos, data \in Data :
             /\ t.id = id /\ t.owner = o /\ t.version = version
             /\ Deleting(t, data)
<1>1. PICK t \in Found(o, id) :
        LET data == [mem EXCEPT !.todos = @ \ {t}]
        IN  /\ VersionMatches(t, version)
            /\ deleted' = deleted \cup {id}
            /\ \/ Commit(data) /\ removed' \in {removed, removed \cup {id}}
               \/ Spill(data) /\ UNCHANGED removed
  BY DEF DeleteTodo
<1> DEFINE data == [mem EXCEPT !.todos = @ \ {t}]
<1>2. t \in mem.todos /\ t.id = id /\ t.owner = o /\ t.version = version
  BY <1>1 DEF Found, VersionMatches
<1>3. data = [todos |-> mem.todos \ {t}, next |-> mem.next]
  BY DEF TypeOK, Data
<1>4. data \in Data
  BY <1>3 DEF TypeOK, Data
<1>5. data.todos = mem.todos \ {t} /\ data.next = mem.next
  BY <1>3
<1>6. /\ mem' = data
      /\ deleted' = deleted \cup {t.id}
      /\ Saving(data)
      /\ \/ disk' = data /\ removed' = removed \cup {t.id}
         \/ UNCHANGED removed
      /\ up /\ UNCHANGED <<up, issued, acked, forgotten, crashes>>
  BY <1>1, <1>2 DEF DeleteTodo, Commit, Spill, Saving
<1> HIDE DEF data
<1> QED
  BY <1>2, <1>4, <1>5, <1>6 DEF Deleting

-----------------------------------------------------------------------------
(* The invariants.                                                         *)

\* The initial state is typed.
LEMMA TypeInit == Init => TypeOK
<1> SUFFICES ASSUME Init
             PROVE  TypeOK
  OBVIOUS
<1>1. up \in BOOLEAN /\ forgotten \in BOOLEAN
  BY Zenon DEF Init
<1>2. /\ mem \in Data /\ disk \in Data
      /\ faults \in 0..MaxFaults /\ crashes \in 0..MaxCrashes
  BY BoundsAssumption DEF Init, Data, Positive
<1>3. issued = {} /\ acked = {} /\ deleted = {} /\ removed = {}
  BY DEF Init
<1> QED
  BY <1>1, <1>2, <1>3 DEF TypeOK

\* Every step keeps the types.
LEMMA TypeInductive ==
    ASSUME TypeOK, [Next]_vars
    PROVE  TypeOK'
<1> USE BoundsAssumption
<1>0. /\ mem.todos \in SUBSET Todo
      /\ \A t \in Todo : t.id \in Positive
  BY DEF TypeOK, Data, Todo
<1>1. ASSUME NEW o \in Owners, ReadTodos(o)
      PROVE  TypeOK'
  BY <1>0, <1>1 DEF ReadTodos, TypeOK
<1>2. ASSUME NEW o \in Owners, NEW text \in Texts, NEW st \in Statuses,
             AddTodo(o, text, st)
      PROVE  TypeOK'
  <2>1. PICK todo \in Todo, data \in Data : Adding(todo, data)
    BY <1>2, AddShape
  <2> QED
    BY <1>0, <2>1 DEF Adding, Saving, TypeOK
<1>3. ASSUME NEW o \in Owners, NEW t \in issued, NEW p \in Patch,
             UpdateTodo(o, t.id, t.version, p)
      PROVE  TypeOK'
  <2>1. PICK old \in mem.todos, new \in Todo, data \in Data :
           Updating(old, new, data)
    BY <1>3, UpdateShape
  <2> QED
    BY <1>0, <2>1 DEF Updating, Saving, TypeOK
<1>4. ASSUME NEW o \in Owners, NEW t \in issued, DeleteTodo(o, t.id, t.version)
      PROVE  TypeOK'
  <2>1. PICK old \in mem.todos, data \in Data : Deleting(old, data)
    BY <1>4, DeleteShape
  <2> QED
    BY <1>0, <2>1 DEF Deleting, Saving, TypeOK
<1>5. CASE Crash
  <2>1. crashes \in 0..MaxCrashes /\ crashes < MaxCrashes /\ crashes' = crashes + 1
    BY <1>5 DEF Crash, TypeOK
  <2>2. crashes' \in 0..MaxCrashes
    BY <2>1
  <2> QED
    BY <1>5, <2>2 DEF Crash, TypeOK
<1>6. CASE Restart
  BY <1>0, <1>6 DEF Restart, TypeOK
<1>7. CASE UNCHANGED vars
  BY <1>0, <1>7 DEF vars, TypeOK
<1>8. CASE SaveElsewhere
  BY <1>0, <1>8 DEF SaveElsewhere, Commit, TypeOK
<1> QED
  BY <1>1, <1>2, <1>3, <1>4, <1>5, <1>6, <1>7, <1>8 DEF Next

\* An operation keeps the answers that memory or disk kept, and adds its own
\* only when it saves to both.
LEMMA AnswersInductive ==
    ASSUME TypeOK, Answers, [Next]_vars
    PROVE  Answers'
<1> USE DEF Answers, Orderly, KeepsAnswers
<1>0. /\ mem.todos \subseteq Todo /\ disk.todos \subseteq Todo
      /\ mem.next \in Nat /\ disk.next \in Nat
      /\ \A t \in Todo : t.id \in Nat /\ t.version \in Nat
      /\ acked \subseteq Todo /\ removed \subseteq Nat
  BY DEF TypeOK, Data, Todo, Positive
<1>1. ASSUME NEW o \in Owners, ReadTodos(o)
      PROVE  Answers'
  BY <1>0, <1>1 DEF ReadTodos
<1>2. ASSUME NEW o \in Owners, NEW text \in Texts, NEW st \in Statuses,
             AddTodo(o, text, st)
      PROVE  Answers'
  <2>1. PICK todo \in Todo, data \in Data : Adding(todo, data)
    BY <1>2, AddShape
  <2> QED
    BY <1>0, <2>1 DEF Adding, Saving
<1>3. ASSUME NEW o \in Owners, NEW t \in issued, NEW p \in Patch,
             UpdateTodo(o, t.id, t.version, p)
      PROVE  Answers'
  <2>1. PICK old \in mem.todos, new \in Todo, data \in Data :
           Updating(old, new, data)
    BY <1>3, UpdateShape
  <2> QED
    BY <1>0, <2>1 DEF Updating, Saving
<1>4. ASSUME NEW o \in Owners, NEW t \in issued, DeleteTodo(o, t.id, t.version)
      PROVE  Answers'
  <2>1. PICK old \in mem.todos, data \in Data : Deleting(old, data)
    BY <1>4, DeleteShape
  <2>2. /\ mem'.todos = mem.todos \ {old} /\ mem'.next = mem.next
        /\ disk' \in {mem', disk}
        /\ acked' = acked
        /\ deleted' = deleted \cup {old.id}
        /\ removed' = removed \/ (disk' = mem' /\ removed' = removed \cup {old.id})
    BY <2>1 DEF Deleting, Saving
  <2>3. Orderly(mem)' /\ Orderly(disk)'
    BY <2>2
  <2>4. /\ old.id \in Nat /\ old.id < mem.next
        /\ \A s \in mem.todos \ {old} : s.id # old.id
    BY <1>0
  <2>5. KeepsAnswers(mem)'
    BY <2>2, <2>4
  <2>6. KeepsAnswers(disk)'
    BY <2>2, <2>5
  <2> QED
    BY <2>3, <2>5, <2>6
<1>5. CASE Crash
  BY <1>0, <1>5 DEF Crash
<1>6. CASE Restart
  BY <1>0, <1>6 DEF Restart
<1>7. CASE UNCHANGED vars
  BY <1>0, <1>7 DEF vars
<1>8. CASE SaveElsewhere
  BY <1>0, <1>8 DEF SaveElsewhere, Commit
<1> QED
  BY <1>1, <1>2, <1>3, <1>4, <1>5, <1>6, <1>7, <1>8 DEF Next

\* A new todo's id was never sent to anybody, and an updated todo's version is
\* above all versions of it that were.
LEMMA ViewsInductive ==
    ASSUME TypeOK, Answers, Views, [Next]_vars
    PROVE  Views'
<1> USE DEF Views, Answers, Orderly
<1>0. /\ forgotten \in BOOLEAN
      /\ mem.todos \subseteq Todo /\ mem.next \in Nat
      /\ \A t \in Todo : t.id \in Nat /\ t.version \in Nat
      /\ issued \subseteq Todo
  BY DEF TypeOK, Data, Todo, Positive
<1>1. ASSUME NEW o \in Owners, ReadTodos(o)
      PROVE  Views'
  BY <1>0, <1>1 DEF ReadTodos
<1>2. ASSUME NEW o \in Owners, NEW text \in Texts, NEW st \in Statuses,
             AddTodo(o, text, st)
      PROVE  Views'
  <2>1. PICK todo \in Todo, data \in Data : Adding(todo, data)
    BY <1>2, AddShape
  <2> QED
    BY <1>0, <2>1 DEF Adding, Saving
<1>3. ASSUME NEW o \in Owners, NEW t \in issued, NEW p \in Patch,
             UpdateTodo(o, t.id, t.version, p)
      PROVE  Views'
  <2>1. PICK old \in mem.todos, new \in Todo, data \in Data :
           Updating(old, new, data)
    BY <1>3, UpdateShape
  <2> QED
    BY <1>0, <2>1 DEF Updating, Saving
<1>4. ASSUME NEW o \in Owners, NEW t \in issued, DeleteTodo(o, t.id, t.version)
      PROVE  Views'
  <2>1. PICK old \in mem.todos, data \in Data : Deleting(old, data)
    BY <1>4, DeleteShape
  <2> QED
    BY <1>0, <2>1 DEF Deleting, Saving
<1>5. CASE Crash
  BY <1>0, <1>5 DEF Crash
<1>6. CASE Restart
  BY <1>0, <1>6 DEF Restart
<1>7. CASE UNCHANGED vars
  BY <1>0, <1>7 DEF vars
<1>8. CASE SaveElsewhere
  BY <1>0, <1>8 DEF SaveElsewhere, Commit
<1> QED
  BY <1>1, <1>2, <1>3, <1>4, <1>5, <1>6, <1>7, <1>8 DEF Next

-----------------------------------------------------------------------------
(* The theorems.                                                           *)

\* Every reachable state of the todo list is typed (todos.go:27-85).
THEOREM TypeCorrect == Spec => []TypeOK
<1>1. Init => TypeOK
  BY TypeInit
<1>2. TypeOK /\ [Next]_vars => TypeOK'
  BY TypeInductive
<1> QED
  BY <1>1, <1>2, PTL DEF Spec

\* What was answered outlives failed saves and crashes, whatever their number.
THEOREM AnswersKept == Spec => []Answers
<1>1. Init => Answers
  BY DEF Init, Answers, Orderly, KeepsAnswers
<1>2. TypeOK /\ Answers /\ [Next]_vars => Answers'
  BY AnswersInductive
<1> QED
  BY <1>1, <1>2, TypeCorrect, PTL DEF Spec

\* A todo answered as saved never falls back to an earlier version, for any
\* number of failed saves and crashes (state.go:57-72, todos.go:65).
THEOREM AckedVersionsKept == Spec => []AckedNeverRegresses
<1>1. Answers => AckedNeverRegresses
  BY DEF Answers, KeepsAnswers, AckedNeverRegresses
<1> QED
  BY <1>1, AnswersKept, PTL

\* A deletion answered with 204 is final (todos.go:83-84).
THEOREM DeletionIsFinal == Spec => []RemovedStaysRemoved
<1>1. Answers => RemovedStaysRemoved
  BY DEF Answers, KeepsAnswers, RemovedStaysRemoved
<1> QED
  BY <1>1, AnswersKept, PTL

\* The invariant behind the compare-and-swap.
LEMMA ViewsKept == Spec => [](TypeOK /\ Views)
<1> DEFINE Inv == TypeOK /\ Answers /\ Views
<1>1. Init => Inv
  <2>1. Init => TypeOK
    BY TypeInit
  <2> QED
    BY <2>1 DEF Init, Answers, Orderly, KeepsAnswers, Views
<1>2. Inv /\ [Next]_vars => Inv'
  BY TypeInductive, AnswersInductive, ViewsInductive
<1>3. Inv => TypeOK /\ Views
  OBVIOUS
<1> QED
  BY <1>1, <1>2, <1>3, PTL DEF Spec

\* Until a kill loses a change that was in memory alone, the id and the version
\* that a client was sent identify the todo it was sent (todos.go:56, 79).
THEOREM VersionsIdentify == Spec => []VersionIdentifiesContent
<1>1. Views => VersionIdentifiesContent
  BY DEF Views, VersionIdentifiesContent
<1> QED
  BY <1>1, ViewsKept, PTL

\* Until then no update or deletion replaces a todo that its author had not
\* read (todolist.md:5).
THEOREM NoUpdateIsLost == Spec => LostOnlyWhenForgotten
<1> DEFINE Step == forgotten \/ ReplacesWhatWasRead
<1>1. TypeOK /\ Views => Step
  <2> SUFFICES ASSUME TypeOK, Views, ~forgotten,
                      NEW o \in Owners, NEW t \in issued,
                      \/ DeleteTodo(o, t.id, t.version)
                      \/ \E p \in Patch : UpdateTodo(o, t.id, t.version, p)
               PROVE  t \in mem.todos
    BY DEF ReplacesWhatWasRead
  <2>1. \E s \in mem.todos : s.id = t.id /\ s.version = t.version
    BY UpdateShape, DeleteShape
  <2> QED
    BY <2>1 DEF Views
<1>2. Spec => [](TypeOK /\ Views)
  BY ViewsKept
<1> HIDE DEF Step
<1>3. [](TypeOK /\ Views) => [][Step]_vars
  BY <1>1, PTL
<1> QED
  BY <1>2, <1>3, PTL DEF LostOnlyWhenForgotten, Step
====
