---- MODULE Sessions ----
(***************************************************************************)
(* Reads that use what an earlier step of the same request found out: the  *)
(* middleware reads the device record, and device/snapshot lists the todos *)
(* of the owner in it after it has waited for the weather; a user's lists  *)
(* of telemetry read the owned devices under the lock and the log after    *)
(* it, and the user's snapshot then waits for the weather too.  Meanwhile  *)
(* devices are greeted, bound, deleted and bound again.                    *)
(*                                                                         *)
(* The registry is cut down to who owns a device (DeviceRegistry); a todo  *)
(* is known by the user it belongs to, a report by its device.  Pending    *)
(* messages belong to the device: they are DeviceInbox's.                  *)
(***************************************************************************)
EXTENDS Naturals, FiniteSets

CONSTANTS Devices, Users,
          Snapshots,    \* requests for device/snapshot or device/todos
          Listings,     \* requests for the snapshot or a device's telemetry, of users
          Nobody,       \* the device has a record and no owner
          Gone,         \* the device has no record
          MaxBinds      \* bound: times a device is bound

ASSUME OwnersAssumption == Nobody \notin Users /\ Gone \notin Users /\ Nobody # Gone
ASSUME RequestsAssumption == Snapshots \cap Listings = {}
ASSUME BoundsAssumption == MaxBinds \in Nat

VARIABLES owner,        \* owner[d]: the registry's OwnerID of d
          reported,     \* the devices with reports in the log
          pc,           \* pc[q]: how far request q is
          from,         \* from[q]: the device, or the user, that sent q
          session,      \* session[q]: the OwnerID the middleware found, the devices a list found
          result,       \* result[q]: what q was answered
          since,        \* history: since[q], what q should have found since it came
          binds

vars == <<owner, reported, pc, from, session, result, since, binds>>

Nothing == [todos |-> {}, reports |-> {}]

Init ==
    /\ owner = [d \in Devices |-> Gone]
    /\ reported = {}
    /\ pc = [q \in Snapshots \cup Listings |-> "idle"]
    /\ from = [q \in Snapshots \cup Listings |-> Nobody]
    /\ session = [q \in Snapshots \cup Listings |-> {}]
    /\ result = [q \in Snapshots \cup Listings |-> Nothing]
    /\ since = [q \in Snapshots \cup Listings |-> {}]
    /\ binds = 0

-----------------------------------------------------------------------------
(* The registry and the log, as far as the reads see them.                 *)

UnderWay(q) == pc[q] \notin {"idle", "ok", "refused"}

\* The OwnerID of the device that sent q, or the devices of the user who did.
Due(q, sender, own) ==
    IF q \in Snapshots THEN {own[sender]} \ {Nobody, Gone}
    ELSE {d \in Devices : own[d] = sender}

\* The owner of a device changes; requests under way may find either.
SetOwner(d, u) ==
    /\ owner' = [owner EXCEPT ![d] = u]
    /\ since' = [q \in DOMAIN since |->
          IF UnderWay(q) THEN since[q] \cup {Due(q, from[q], owner')} ELSE since[q]]

Hello(d) ==
    /\ owner[d] = Gone
    /\ SetOwner(d, Nobody)
    /\ UNCHANGED <<reported, pc, from, session, result, binds>>

Bind(u, d) ==
    /\ owner[d] = Nobody
    /\ binds < MaxBinds
    /\ binds' = binds + 1
    /\ SetOwner(d, u)
    /\ UNCHANGED <<reported, pc, from, session, result>>

Delete(u, d) ==
    /\ owner[d] = u
    /\ SetOwner(d, Gone)
    /\ UNCHANGED <<reported, pc, from, session, result, binds>>

AddTelemetry(d) ==
    /\ owner[d] # Gone
    /\ reported' = reported \cup {d}
    /\ UNCHANGED <<owner, pc, from, session, result, since, binds>>

Arrive(q, sender) ==
    /\ pc[q] = "idle"
    /\ pc' = [pc EXCEPT ![q] = "arrived"]
    /\ from' = [from EXCEPT ![q] = sender]
    /\ since' = [since EXCEPT ![q] = {Due(q, sender, owner)}]
    /\ UNCHANGED <<owner, reported, session, result, binds>>

-----------------------------------------------------------------------------
(* A device's snapshot.                                                    *)

\* Mutant: the record that an earlier request of the device read is kept.
RecordCached(d) ==
    LET earlier == {p \in Snapshots : from[p] = d /\ pc[p] = "ok"}
    IN  IF earlier # {} THEN session[CHOOSE p \in earlier : TRUE] ELSE {owner[d]} \ {Nobody}

\* The OwnerID of the record that DeviceByCredentials returns.
RecordOwner(d) == {owner[d]} \ {Nobody}

\* requireDeviceAuth: the record goes into the context of the request.
Authenticate(q) ==
    /\ pc[q] = "arrived"
    /\ owner[from[q]] # Gone
    /\ session' = [session EXCEPT ![q] = RecordOwner(from[q])]
    /\ pc' = [pc EXCEPT ![q] = "authenticated"]
    /\ UNCHANGED <<owner, reported, from, result, since, binds>>

\* 401 for a device without a record.
RefuseDevice(q) ==
    /\ pc[q] = "arrived"
    /\ owner[from[q]] = Gone
    /\ pc' = [pc EXCEPT ![q] = "refused"]
    /\ UNCHANGED <<owner, reported, from, session, result, since, binds>>

\* The weather returns an error: 502, for a device and for a user's snapshot.
WeatherFails(q) ==
    /\ pc[q] \in {"authenticated", "gathered"}
    /\ pc' = [pc EXCEPT ![q] = "refused"]
    /\ UNCHANGED <<owner, reported, from, session, result, since, binds>>

\* The weather is there: the todos of the owner that the middleware found.
ReadTodos(q) ==
    /\ pc[q] = "authenticated"
    /\ result' = [result EXCEPT ![q].todos = session[q]]
    /\ pc' = [pc EXCEPT ![q] = "ok"]
    /\ UNCHANGED <<owner, reported, from, session, since, binds>>

-----------------------------------------------------------------------------
(* A user's lists of telemetry and snapshots.                              *)

\* ownerDeviceIDsLocked, and the owner check of DeviceTelemetry for one of them.
OwnerDevices(u) == {d \in Devices : owner[d] = u}

\* DeviceTelemetry, under RLock: the device that was asked for.
FindDevice(q, d) ==
    /\ pc[q] = "arrived"
    /\ session' = [session EXCEPT ![q] = OwnerDevices(from[q]) \cap {d}]
    /\ pc' = [pc EXCEPT ![q] = "found"]
    /\ UNCHANGED <<owner, reported, from, result, since, binds>>

\* Snapshot, under RLock: all devices of the user. Their todos and messages are
\* theirs by the OwnerID in each.
FindDevices(q) ==
    /\ pc[q] = "arrived"
    /\ session' = [session EXCEPT ![q] = OwnerDevices(from[q])]
    /\ pc' = [pc EXCEPT ![q] = "gathering"]
    /\ UNCHANGED <<owner, reported, from, result, since, binds>>

\* After RUnlock: the log, filtered by these devices.
ReadLog(q) ==
    /\ pc[q] \in {"found", "gathering"}
    /\ result' = [result EXCEPT ![q].reports = session[q] \cap reported]
    /\ pc' = [pc EXCEPT ![q] = IF @ = "found" THEN "ok" ELSE "gathered"]
    /\ UNCHANGED <<owner, reported, from, session, since, binds>>

\* SnapshotService.Get has the weather, and the snapshot is answered.
AnswerSnapshot(q) ==
    /\ pc[q] = "gathered"
    /\ pc' = [pc EXCEPT ![q] = "ok"]
    /\ UNCHANGED <<owner, reported, from, session, result, since, binds>>

Next ==
    \/ \E d \in Devices : Hello(d) \/ AddTelemetry(d)
    \/ \E u \in Users, d \in Devices : Bind(u, d) \/ Delete(u, d)
    \/ \E q \in Snapshots :
         \/ \E d \in Devices : Arrive(q, d)
         \/ Authenticate(q) \/ RefuseDevice(q) \/ WeatherFails(q) \/ ReadTodos(q)
    \/ \E q \in Listings :
         \/ \E u \in Users : Arrive(q, u)
         \/ \E d \in Devices : FindDevice(q, d)
         \/ FindDevices(q) \/ ReadLog(q) \/ AnswerSnapshot(q) \/ WeatherFails(q)

Spec == Init /\ [][Next]_vars

-----------------------------------------------------------------------------
(* Properties.                                                             *)

\* A device is shown todos only of a user who owned it while its request was
\* under way: a user who deletes a device is rid of it when the requests of
\* that moment are over (middleware.go:53, snapshot.go:36).
TodosOfAnOwner ==
    \A q \in Snapshots : pc[q] = "ok" => result[q].todos \in since[q]

\* A user is shown reports only of devices that were theirs while the request
\* was under way, and all of them at one moment, although the log is read
\* after the lock is released (telemetry.go:21-33, messages.go:9-21).
ReportsOfOwnDevices ==
    \A q \in Listings : pc[q] = "ok" =>
        \E own \in since[q] : result[q].reports \subseteq own

\* What is answered belonged to the asking device or user at one moment of the
\* request, however long it waited between its reads.
AnswersOfTheAsker == TodosOfAnOwner /\ ReportsOfOwnDevices
====
