---- MODULE SessionsProofs ----
(***************************************************************************)
(* Proof about Sessions, for any devices, users and requests: what a       *)
(* request is answered belonged to who sent it at one moment of it.        *)
(***************************************************************************)
EXTENDS Sessions, TLAPS

Requests == Snapshots \cup Listings
Progress == {"idle", "arrived", "authenticated", "found", "gathering", "gathered",
             "ok", "refused"}

Typed ==
    /\ owner \in [Devices -> Users \cup {Nobody, Gone}]
    /\ pc \in [Requests -> Progress]
    /\ from \in [Requests -> Devices \cup Users \cup {Nobody}]
    /\ session \in [Requests -> SUBSET (Devices \cup Users)]
    /\ result \in [Requests -> [todos : SUBSET (Devices \cup Users),
                                reports : SUBSET (Devices \cup Users)]]
    /\ since \in [Requests -> SUBSET SUBSET (Devices \cup Users)]
    /\ \A q \in Snapshots : pc[q] # "idle" => from[q] \in Devices

\* What q should find now is among what it should have found, and so is what it
\* keeps of what it found, until it is answered with it.
Sound(q) ==
    /\ UnderWay(q) => Due(q, from[q], owner) \in since[q]
    /\ q \in Snapshots =>
        /\ pc[q] = "authenticated" => session[q] \in since[q]
        /\ pc[q] = "ok" => result[q].todos \in since[q]
    /\ q \in Listings =>
        /\ pc[q] \in {"found", "gathering"} => \E own \in since[q] : session[q] \subseteq own
        /\ pc[q] \in {"gathered", "ok"} => \E own \in since[q] : result[q].reports \subseteq own

IInv == Typed /\ \A q \in Requests : Sound(q)

-----------------------------------------------------------------------------
(* What a step leaves to a request.                                        *)

\* A request that goes no further stays sound, if it should have found what
\* there is now.
LEMMA SoundKept ==
    ASSUME NEW q \in Requests, Sound(q),
           pc'[q] = pc[q], from'[q] = from[q], session'[q] = session[q], result'[q] = result[q],
           since[q] \subseteq since'[q],
           UnderWay(q) => Due(q, from[q], owner') \in since'[q]
    PROVE  Sound(q)'
<1>1. UnderWay(q)' <=> UnderWay(q)
  BY DEF UnderWay
<1>2. UnderWay(q)' => Due(q, from[q], owner)' \in since'[q]
  BY <1>1 DEF Due
<1>3. Due(q, from[q], owner)' = Due(q, from'[q], owner')
  BY DEF Due
<1>4. QED
  BY <1>1, <1>2, <1>3 DEF Sound

\* A step that changes no request and no owner.
LEMMA RequestsKept ==
    ASSUME IInv, UNCHANGED <<owner, pc, from, session, result, since>>
    PROVE  IInv'
<1>1. Typed'
  BY DEF IInv, Typed
<1>2. \A q \in Requests : Sound(q)'
  BY SoundKept DEF IInv, Sound
<1>3. QED
  BY <1>1, <1>2 DEF IInv

\* The device's owner, or the user's devices.
LEMMA DueTyped ==
    ASSUME NEW own \in [Devices -> Users \cup {Nobody, Gone}], NEW q \in Requests, NEW sender,
           q \in Snapshots => sender \in Devices
    PROVE  Due(q, sender, own) \in SUBSET (Devices \cup Users)
  BY DEF Due

\* A change of ownership adds what it makes due to each request under way.
LEMMA SetOwnerKeeps ==
    ASSUME IInv, NEW d \in Devices, NEW u \in Users \cup {Nobody, Gone}, SetOwner(d, u),
           UNCHANGED <<pc, from, session, result>>
    PROVE  IInv'
<1>1. Typed /\ \A q \in Requests : Sound(q)
  BY DEF IInv
<1>2. owner' \in [Devices -> Users \cup {Nobody, Gone}]
  BY <1>1 DEF SetOwner, Typed
<1>3. \A q \in Requests : since'[q] =
        IF UnderWay(q) THEN since[q] \cup {Due(q, from[q], owner')} ELSE since[q]
  BY <1>1 DEF SetOwner, Typed
<1>4. Typed'
  <2>1. \A q \in Requests : UnderWay(q) => Due(q, from[q], owner') \in SUBSET (Devices \cup Users)
    <3>1. SUFFICES ASSUME NEW q \in Requests, UnderWay(q)
                   PROVE  Due(q, from[q], owner') \in SUBSET (Devices \cup Users)
      OBVIOUS
    <3>2. q \in Snapshots => from[q] \in Devices
      BY <1>1, <3>1 DEF Typed, UnderWay
    <3>3. QED
      BY <1>2, <3>2, DueTyped
  <2>2. \A q \in Requests : since'[q] \in SUBSET SUBSET (Devices \cup Users)
    <3>1. \A q \in Requests : since[q] \in SUBSET SUBSET (Devices \cup Users)
      BY <1>1 DEF Typed
    <3>2. TAKE q \in Requests
    <3>3. CASE UnderWay(q)
      <4>1. since'[q] = since[q] \cup {Due(q, from[q], owner')}
        BY <1>3, <3>3
      <4>2. QED
        BY <2>1, <3>1, <3>3, <4>1
    <3>4. CASE ~UnderWay(q)
      BY <1>3, <3>1, <3>4
    <3>5. QED
      BY <3>3, <3>4
  <2>3. since' \in [Requests -> SUBSET SUBSET (Devices \cup Users)]
    <3>1. DOMAIN since = Requests
      BY <1>1 DEF Typed
    <3>2. since' = [q \in Requests |-> since'[q]]
      BY <3>1 DEF SetOwner
    <3>3. QED
      BY <2>2, <3>2
  <2>4. QED
    BY <1>1, <1>2, <2>3 DEF Typed
<1>5. ASSUME NEW q \in Requests
      PROVE  Sound(q)'
  <2>1. since[q] \subseteq since'[q] /\ (UnderWay(q) => Due(q, from[q], owner') \in since'[q])
    BY <1>3
  <2>2. QED
    BY <1>1, <2>1, SoundKept
<1>6. QED
  BY <1>4, <1>5 DEF IInv

\* A step of one request, which is typed and sound after it.
LEMMA OneRequest ==
    ASSUME IInv, NEW p \in Requests, UNCHANGED owner,
           \A q \in Requests : q # p => /\ pc'[q] = pc[q] /\ from'[q] = from[q]
                                        /\ session'[q] = session[q] /\ result'[q] = result[q]
                                        /\ since'[q] = since[q],
           Typed', Sound(p)'
    PROVE  IInv'
<1>1. ASSUME NEW q \in Requests, q # p
      PROVE  Sound(q)'
  <2>1. Sound(q)
    BY DEF IInv
  <2>2. UnderWay(q) => Due(q, from[q], owner') \in since'[q]
    BY <1>1, <2>1 DEF Sound
  <2>3. QED
    BY <1>1, <2>1, <2>2, SoundKept
<1>2. QED
  BY <1>1 DEF IInv

-----------------------------------------------------------------------------
(* The steps of requests.                                                  *)

\* Arrive: what is due now is what the request should have found.
LEMMA ArriveKeeps ==
    ASSUME IInv, NEW p \in Requests, NEW sender \in Devices \cup Users,
           p \in Snapshots => sender \in Devices, Arrive(p, sender)
    PROVE  IInv'
<1>1. Typed
  BY DEF IInv
<1>2. /\ pc' = [pc EXCEPT ![p] = "arrived"] /\ from' = [from EXCEPT ![p] = sender]
      /\ since' = [since EXCEPT ![p] = {Due(p, sender, owner)}]
      /\ UNCHANGED <<owner, session, result>>
  BY DEF Arrive
<1>3. Due(p, sender, owner) \in SUBSET (Devices \cup Users)
  BY <1>1, DueTyped DEF Typed
<1>4. /\ pc'[p] = "arrived" /\ from'[p] = sender /\ since'[p] = {Due(p, sender, owner)}
      /\ \A q \in Requests : q # p => pc'[q] = pc[q] /\ from'[q] = from[q] /\ since'[q] = since[q]
  BY <1>1, <1>2 DEF Typed
<1>5. Typed'
  <2>1. pc' \in [Requests -> Progress]
    BY <1>1, <1>2 DEF Typed, Progress
  <2>2. from' \in [Requests -> Devices \cup Users \cup {Nobody}]
    BY <1>1, <1>2 DEF Typed
  <2>3. since' \in [Requests -> SUBSET SUBSET (Devices \cup Users)]
    BY <1>1, <1>2, <1>3 DEF Typed
  <2>4. \A q \in Snapshots : pc'[q] # "idle" => from'[q] \in Devices
    BY <1>1, <1>4 DEF Typed, Requests
  <2>5. QED
    BY <1>1, <1>2, <2>1, <2>2, <2>3, <2>4 DEF Typed
<1>6. Sound(p)'
  <2>1. Due(p, from[p], owner)' = Due(p, sender, owner)
    BY <1>2, <1>4 DEF Due
  <2>2. QED
    BY <1>4, <2>1 DEF Sound
<1>7. QED
  BY <1>2, <1>4, <1>5, <1>6, OneRequest

\* A request that was authenticated, found its devices, read or was refused.
LEMMA OneGoesOn ==
    ASSUME IInv, NEW p \in Requests, pc[p] # "idle", NEW step \in Progress \ {"idle"},
           pc' = [pc EXCEPT ![p] = step], UNCHANGED <<owner, from, since>>,
           session' \in [Requests -> SUBSET (Devices \cup Users)],
           result' \in [Requests -> [todos : SUBSET (Devices \cup Users),
                                     reports : SUBSET (Devices \cup Users)]],
           \A q \in Requests : q # p => session'[q] = session[q] /\ result'[q] = result[q],
           Sound(p)'
    PROVE  IInv'
<1>1. Typed
  BY DEF IInv
<1>2. \A q \in Requests : q # p => pc'[q] = pc[q]
  BY <1>1 DEF Typed
<1>3. Typed'
  <2>1. pc' \in [Requests -> Progress]
    BY <1>1 DEF Typed
  <2>2. \A q \in Snapshots : pc'[q] # "idle" => from'[q] \in Devices
    BY <1>1, <1>2 DEF Typed, Requests
  <2>3. QED
    BY <1>1, <2>1, <2>2 DEF Typed
<1>4. QED
  BY <1>2, <1>3, OneRequest

\* Authenticate: the owner in the record is what is due at that moment.
LEMMA AuthenticateKeeps ==
    ASSUME IInv, NEW p \in Snapshots, Authenticate(p)
    PROVE  IInv'
<1>1. Typed /\ Sound(p) /\ p \in Requests
  BY DEF IInv, Requests
<1>2. /\ pc[p] = "arrived" /\ owner[from[p]] # Gone
      /\ session' = [session EXCEPT ![p] = RecordOwner(from[p])]
      /\ pc' = [pc EXCEPT ![p] = "authenticated"]
      /\ UNCHANGED <<owner, from, result, since>>
  BY DEF Authenticate
<1>3. from[p] \in Devices /\ owner[from[p]] \in Users \cup {Nobody, Gone}
  BY <1>1, <1>2 DEF Typed
<1>4. RecordOwner(from[p]) = Due(p, from[p], owner)
  BY <1>2 DEF RecordOwner, Due
<1>5. RecordOwner(from[p]) \in SUBSET (Devices \cup Users)
  BY <1>2, <1>3 DEF RecordOwner
<1>6. RecordOwner(from[p]) \in since[p]
  BY <1>1, <1>2, <1>4 DEF Sound, UnderWay
<1>7. session' \in [Requests -> SUBSET (Devices \cup Users)] /\ session'[p] = RecordOwner(from[p])
  BY <1>1, <1>2, <1>5 DEF Typed
<1>8. \A q \in Requests : q # p => session'[q] = session[q]
  BY <1>1, <1>2 DEF Typed
<1>9. Sound(p)'
  <2>1. pc'[p] = "authenticated" /\ p \notin Listings
    BY <1>1, <1>2, RequestsAssumption DEF Typed
  <2>2. Due(p, from[p], owner)' = Due(p, from[p], owner)
    BY <1>2 DEF Due
  <2>3. QED
    BY <1>2, <1>4, <1>6, <1>7, <2>1, <2>2 DEF Sound
<1>10. QED
  BY <1>1, <1>2, <1>7, <1>8, <1>9, OneGoesOn DEF Typed, Progress

\* A request that is refused was answered nothing.
LEMMA RefuseKeeps ==
    ASSUME IInv, NEW p \in Requests, pc[p] # "idle", pc' = [pc EXCEPT ![p] = "refused"],
           UNCHANGED <<owner, from, session, result, since>>
    PROVE  IInv'
<1>1. Typed
  BY DEF IInv
<1>2. pc'[p] = "refused"
  BY <1>1 DEF Typed
<1>3. Sound(p)'
  BY <1>2 DEF Sound, UnderWay
<1>4. QED
  BY <1>1, <1>3, OneGoesOn DEF Typed, Progress

\* ReadTodos: of the owner that the middleware found.
LEMMA ReadTodosKeeps ==
    ASSUME IInv, NEW p \in Snapshots, ReadTodos(p)
    PROVE  IInv'
<1>1. Typed /\ Sound(p) /\ p \in Requests
  BY DEF IInv, Requests
<1>2. /\ pc[p] = "authenticated" /\ result' = [result EXCEPT ![p].todos = session[p]]
      /\ pc' = [pc EXCEPT ![p] = "ok"] /\ UNCHANGED <<owner, from, session, since>>
  BY DEF ReadTodos
<1>3. session[p] \in SUBSET (Devices \cup Users) /\ session[p] \in since[p]
  BY <1>1, <1>2 DEF Typed, Sound
<1>4. result' \in [Requests -> [todos : SUBSET (Devices \cup Users),
                                reports : SUBSET (Devices \cup Users)]]
  BY <1>1, <1>2, <1>3 DEF Typed
<1>5. result'[p].todos = session[p] /\ \A q \in Requests : q # p => result'[q] = result[q]
  BY <1>1, <1>2 DEF Typed
<1>6. Sound(p)'
  <2>1. pc'[p] = "ok" /\ p \notin Listings
    BY <1>1, <1>2, RequestsAssumption DEF Typed
  <2>2. QED
    BY <1>2, <1>3, <1>5, <2>1 DEF Sound, UnderWay
<1>7. QED
  BY <1>1, <1>2, <1>4, <1>5, <1>6, OneGoesOn DEF Typed, Progress

\* FindDevice and FindDevices: the devices, or some, that are due at that moment.
LEMMA FindKeeps ==
    ASSUME IInv, NEW p \in Listings, NEW found \in SUBSET OwnerDevices(from[p]),
           NEW step \in {"found", "gathering"},
           pc[p] = "arrived", session' = [session EXCEPT ![p] = found],
           pc' = [pc EXCEPT ![p] = step], UNCHANGED <<owner, from, result, since>>
    PROVE  IInv'
<1>1. Typed /\ Sound(p) /\ p \in Requests /\ p \notin Snapshots
  BY RequestsAssumption DEF IInv, Requests
<1>2. Due(p, from[p], owner) \in since[p] /\ found \subseteq Due(p, from[p], owner)
  BY <1>1 DEF Sound, UnderWay, Due, OwnerDevices
<1>3. found \in SUBSET (Devices \cup Users)
  BY DEF OwnerDevices
<1>4. session' \in [Requests -> SUBSET (Devices \cup Users)] /\ session'[p] = found
  BY <1>1, <1>3 DEF Typed
<1>5. \A q \in Requests : q # p => session'[q] = session[q]
  BY <1>1 DEF Typed
<1>6. Sound(p)'
  <2>1. pc'[p] \in {"found", "gathering"}
    BY <1>1 DEF Typed
  <2>2. Due(p, from[p], owner)' = Due(p, from[p], owner)
    BY DEF Due
  <2>3. QED
    BY <1>1, <1>2, <1>4, <2>1, <2>2 DEF Sound
<1>7. QED
  BY <1>1, <1>4, <1>5, <1>6, OneGoesOn DEF Typed, Progress

\* ReadLog: of the devices that were found.
LEMMA ReadLogKeeps ==
    ASSUME IInv, NEW p \in Listings, ReadLog(p)
    PROVE  IInv'
<1>1. Typed /\ Sound(p) /\ p \in Requests /\ p \notin Snapshots
  BY RequestsAssumption DEF IInv, Requests
<1> DEFINE read == session[p] \cap reported
           step == IF pc[p] = "found" THEN "ok" ELSE "gathered"
<1>2. /\ pc[p] \in {"found", "gathering"} /\ result' = [result EXCEPT ![p].reports = read]
      /\ pc' = [pc EXCEPT ![p] = step] /\ UNCHANGED <<owner, from, session, since>>
  BY DEF ReadLog
<1>3. read \in SUBSET (Devices \cup Users)
  BY <1>1 DEF Typed
<1>4. \E own \in since[p] : read \subseteq own
  BY <1>1, <1>2 DEF Sound
<1>5. step \in {"ok", "gathered"}
  OBVIOUS
<1> HIDE DEF read, step
<1>6. result' \in [Requests -> [todos : SUBSET (Devices \cup Users),
                                reports : SUBSET (Devices \cup Users)]]
  BY <1>1, <1>2, <1>3 DEF Typed
<1>7. result'[p].reports = read /\ \A q \in Requests : q # p => result'[q] = result[q]
  BY <1>1, <1>2 DEF Typed
<1>8. Sound(p)'
  <2>1. pc'[p] \in {"ok", "gathered"}
    BY <1>1, <1>2, <1>5 DEF Typed
  <2>2. Due(p, from[p], owner)' = Due(p, from[p], owner)
    BY <1>2 DEF Due
  <2>3. Due(p, from[p], owner) \in since[p]
    BY <1>1, <1>2 DEF Sound, UnderWay
  <2>4. QED
    BY <1>1, <1>2, <1>4, <1>7, <2>1, <2>2, <2>3 DEF Sound
<1>9. QED
  BY <1>1, <1>2, <1>5, <1>6, <1>7, <1>8, OneGoesOn DEF Typed, Progress

\* AnswerSnapshot: with the reports that were read.
LEMMA AnswerSnapshotKeeps ==
    ASSUME IInv, NEW p \in Listings, AnswerSnapshot(p)
    PROVE  IInv'
<1>1. Typed /\ Sound(p) /\ p \in Requests /\ p \notin Snapshots
  BY RequestsAssumption DEF IInv, Requests
<1>2. /\ pc[p] = "gathered" /\ pc' = [pc EXCEPT ![p] = "ok"]
      /\ UNCHANGED <<owner, from, session, result, since>>
  BY DEF AnswerSnapshot
<1>3. pc'[p] = "ok"
  BY <1>1, <1>2 DEF Typed
<1>4. Sound(p)'
  BY <1>1, <1>2, <1>3 DEF Sound, UnderWay
<1>5. QED
  BY <1>1, <1>2, <1>4, OneGoesOn DEF Typed, Progress

-----------------------------------------------------------------------------
(* The invariant.                                                          *)

\* The initial state satisfies the invariant.
LEMMA InitInvariant == Init => IInv
<1> SUFFICES ASSUME Init
             PROVE  IInv
  OBVIOUS
<1>1. Typed
  BY DEF Init, Typed, Progress, Requests, Nothing
<1>2. \A q \in Requests : pc[q] = "idle"
  BY DEF Init, Requests
<1>3. \A q \in Requests : Sound(q)
  BY <1>2 DEF Sound, UnderWay
<1>4. QED
  BY <1>1, <1>3 DEF IInv

\* Every step keeps the invariant.
LEMMA NextInvariant == IInv /\ [Next]_vars => IInv'
<1> SUFFICES ASSUME IInv, [Next]_vars
             PROVE  IInv'
  OBVIOUS
<1>1. ASSUME NEW d \in Devices, Hello(d)
      PROVE  IInv'
  BY <1>1, SetOwnerKeeps DEF Hello
<1>2. ASSUME NEW d \in Devices, AddTelemetry(d)
      PROVE  IInv'
  BY <1>2, RequestsKept DEF AddTelemetry
<1>3. ASSUME NEW u \in Users, NEW d \in Devices, Bind(u, d)
      PROVE  IInv'
  BY <1>3, SetOwnerKeeps DEF Bind
<1>4. ASSUME NEW u \in Users, NEW d \in Devices, Delete(u, d)
      PROVE  IInv'
  BY <1>4, SetOwnerKeeps DEF Delete
<1>5. ASSUME NEW q \in Snapshots, NEW d \in Devices, Arrive(q, d)
      PROVE  IInv'
  BY <1>5, ArriveKeeps DEF Requests
<1>6. ASSUME NEW q \in Snapshots, Authenticate(q)
      PROVE  IInv'
  BY <1>6, AuthenticateKeeps
<1>7. ASSUME NEW q \in Snapshots, RefuseDevice(q)
      PROVE  IInv'
  BY <1>7, RefuseKeeps DEF RefuseDevice, Requests
<1>8. ASSUME NEW q \in Requests, WeatherFails(q)
      PROVE  IInv'
  BY <1>8, RefuseKeeps DEF WeatherFails
<1>9. ASSUME NEW q \in Snapshots, ReadTodos(q)
      PROVE  IInv'
  BY <1>9, ReadTodosKeeps
<1>10. ASSUME NEW q \in Listings, NEW u \in Users, Arrive(q, u)
       PROVE  IInv'
  BY <1>10, ArriveKeeps, RequestsAssumption DEF Requests
<1>11. ASSUME NEW q \in Listings, NEW d \in Devices, FindDevice(q, d)
       PROVE  IInv'
  BY <1>11, FindKeeps DEF FindDevice
<1>12. ASSUME NEW q \in Listings, FindDevices(q)
       PROVE  IInv'
  BY <1>12, FindKeeps DEF FindDevices
<1>13. ASSUME NEW q \in Listings, ReadLog(q)
       PROVE  IInv'
  BY <1>13, ReadLogKeeps
<1>14. ASSUME NEW q \in Listings, AnswerSnapshot(q)
       PROVE  IInv'
  BY <1>14, AnswerSnapshotKeeps
<1>15. ASSUME UNCHANGED vars
       PROVE  IInv'
  BY <1>15, RequestsKept DEF vars
<1>16. QED
  BY <1>1, <1>2, <1>3, <1>4, <1>5, <1>6, <1>7, <1>8, <1>9, <1>10, <1>11, <1>12, <1>13,
     <1>14, <1>15 DEF Next, Requests

\* The invariant holds in every reachable state.
THEOREM InductiveInvariant == Spec => []IInv
  BY InitInvariant, NextInvariant, PTL DEF Spec

\* A device is shown todos of a user who owned it during its request, and a user
\* reports of devices that were theirs, all at one moment of the request.
THEOREM AnswersBelong == Spec => []AnswersOfTheAsker
<1>1. IInv => AnswersOfTheAsker
  <2> SUFFICES ASSUME IInv
               PROVE  AnswersOfTheAsker
    OBVIOUS
  <2>1. \A q \in Snapshots \cup Listings : Sound(q)
    BY DEF IInv, Requests
  <2>2. TodosOfAnOwner
    BY <2>1 DEF Sound, TodosOfAnOwner
  <2>3. ReportsOfOwnDevices
    BY <2>1 DEF Sound, ReportsOfOwnDevices
  <2>4. QED
    BY <2>2, <2>3 DEF AnswersOfTheAsker
<1>2. QED
  BY <1>1, InductiveInvariant, PTL
====
