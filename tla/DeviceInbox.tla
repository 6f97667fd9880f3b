---- MODULE DeviceInbox ----
(***************************************************************************)
(* The device inbox: users queue messages for their devices, a device      *)
(* polls for pending ones, shows them and acknowledges them.  FileStore's  *)
(* message methods, with the handlers of devices/{id}/messages and         *)
(* device/messages over them, and as much of the device registry as they   *)
(* depend on: who owns a device.                                           *)
(*                                                                         *)
(* A mutating method is one step that commits or spills (DurableState).    *)
(* Creating a message is two: the handler checks the owner of the device   *)
(* before it reads the body, and stores the message afterwards.            *)
(***************************************************************************)
EXTENDS Integers, FiniteSets, Sequences

CONSTANTS Devices, Users, Bodies,
          Nobody,       \* the device has a record and no owner
          Gone,         \* the device has no record
          MaxMessages,  \* maxMessages: messages kept, over all users
          Limit,        \* messages a device asks for at once
          MaxId,        \* bound: messages ever created
          MaxBinds,     \* bound: times a device is bound
          MaxFaults,    \* bound: saves that fail
          MaxCrashes    \* bound: times the process is killed

ASSUME OwnersAssumption == Nobody \notin Users /\ Gone \notin Users /\ Nobody # Gone
ASSUME SizesAssumption == MaxMessages \in Nat \ {0} /\ Limit \in Nat \ {0}
ASSUME BoundsAssumption ==
    MaxId \in Nat /\ MaxBinds \in Nat /\ MaxFaults \in Nat /\ MaxCrashes \in Nat

VARIABLES up,           \* the process is running
          mem,          \* Messages, NextMessageID and the OwnerIDs of stateFile.data
          disk,         \* the same in state.json
          creating,     \* requests between the ownership check and the store
          shown,        \* history: shown[d], the messages d ever pulled
          acked,        \* history: ids whose ack was answered 200
          forgotten,    \* history: a kill lost messages, or changes to them, that
                        \* were in memory alone
          binds, faults, crashes

vars == <<up, mem, disk, creating, shown, acked, forgotten, binds, faults, crashes>>

Content == [id : Nat \ {0}, owner : Users, device : Devices, body : Bodies]
Message == [id : Nat \ {0}, owner : Users, device : Devices, body : Bodies,
            status : {"pending", "acked"}]
ContentOf(m) == [id |-> m.id, owner |-> m.owner, device |-> m.device, body |-> m.body]
Elements(s) == {s[i] : i \in DOMAIN s}

Init ==
    /\ up = TRUE
    /\ mem = [msgs |-> <<>>, next |-> 1, owner |-> [d \in Devices |-> Gone]]
    /\ disk = mem
    /\ creating = {}
    /\ shown = [d \in Devices |-> {}]
    /\ acked = {}
    /\ forgotten = FALSE
    /\ binds = 0
    /\ faults = 0
    /\ crashes = 0

\* Mutant: the change is answered before it is saved.
CommitLater(data) ==
    /\ mem' = data
    /\ UNCHANGED <<disk, faults>>

Commit(data) ==
    /\ mem' = data
    /\ disk' = data
    /\ UNCHANGED faults

\* The error of save is returned, and memory keeps the change.
Spill(data) ==
    /\ faults < MaxFaults
    /\ faults' = faults + 1
    /\ mem' = data
    /\ UNCHANGED disk

-----------------------------------------------------------------------------
(* The registry, as far as messages depend on it (DeviceRegistry).         *)

\* These methods save, and save writes all of the data, messages included.
SetOwner(d, who) ==
    LET data == [mem EXCEPT !.owner[d] = who] IN Commit(data) \/ Spill(data)

Hello(d) ==
    /\ up
    /\ SetOwner(d, IF mem.owner[d] = Gone THEN Nobody ELSE mem.owner[d])
    /\ UNCHANGED <<up, creating, shown, acked, forgotten, binds, crashes>>

Bind(u, d) ==
    /\ up
    /\ mem.owner[d] = Nobody
    /\ binds < MaxBinds
    /\ binds' = binds + 1
    /\ SetOwner(d, u)
    /\ UNCHANGED <<up, creating, shown, acked, forgotten, crashes>>

\* DeleteDevice leaves the messages of the device where they are.
Delete(u, d) ==
    /\ up
    /\ mem.owner[d] = u
    /\ SetOwner(d, Gone)
    /\ UNCHANGED <<up, creating, shown, acked, forgotten, binds, crashes>>

-----------------------------------------------------------------------------
(* POST /devices/{id}/messages.                                            *)

\* Devices.Get finds the device under this user.
CheckOwner(u, d) ==
    /\ up
    /\ mem.owner[d] = u
    /\ creating' = creating \cup {<<u, d>>}
    /\ UNCHANGED <<up, mem, disk, shown, acked, forgotten, binds, faults, crashes>>

\* The body does not arrive, or is refused.
RejectBody(u, d) ==
    /\ up
    /\ <<u, d>> \in creating
    /\ creating' = creating \ {<<u, d>>}
    /\ UNCHANGED <<up, mem, disk, shown, acked, forgotten, binds, faults, crashes>>

\* The last maxMessages, whoever they are for and whatever their status.
Trimmed(msgs) ==
    IF Len(msgs) > MaxMessages
    THEN SubSeq(msgs, Len(msgs) - MaxMessages + 1, Len(msgs))
    ELSE msgs

\* Mutant: the id of the last message is given once more.
IdOfLast(data) == IF data.msgs = <<>> THEN 1 ELSE data.msgs[Len(data.msgs)].id

\* NextMessageID.
NextId(data) == data.next

AddDeviceMessage(u, d, body) ==
    LET msg == [id |-> NextId(mem), owner |-> u, device |-> d, body |-> body,
                status |-> "pending"]
        data == [mem EXCEPT !.msgs = Trimmed(Append(@, msg)), !.next = @ + 1]
    IN  /\ up
        /\ <<u, d>> \in creating
        /\ mem.next <= MaxId
        /\ creating' = creating \ {<<u, d>>}
        /\ Commit(data) \/ Spill(data)
        /\ UNCHANGED <<up, shown, acked, forgotten, binds, crashes>>

-----------------------------------------------------------------------------
(* The device: GET /device/messages and POST /device/messages/ack.         *)

IsPendingFor(m, d) == m.device = d /\ m.status = "pending"

\* The places of the pending messages of d.
PendingAt(d) == {i \in DOMAIN mem.msgs : IsPendingFor(mem.msgs[i], d)}

\* Mutant: the limit is applied before the filter.
PendingOfFirst(d) == {mem.msgs[i] : i \in {j \in PendingAt(d) : j <= Limit}}

\* Mutant: the newest are returned instead of the oldest.
NewestPending(d) ==
    {mem.msgs[i] : i \in {j \in PendingAt(d) :
                            Cardinality({k \in PendingAt(d) : k > j}) < Limit}}

\* PendingDeviceMessages: the pending messages of the device, the oldest first,
\* until there are as many as it asks for.
PendingDeviceMessages(d) ==
    {mem.msgs[i] : i \in {j \in PendingAt(d) :
                            Cardinality({k \in PendingAt(d) : k < j}) < Limit}}

Pull(d) ==
    /\ up
    /\ mem.owner[d] # Gone
    /\ shown' = [shown EXCEPT ![d] = @ \cup {ContentOf(m) : m \in PendingDeviceMessages(d)}]
    /\ UNCHANGED <<up, mem, disk, creating, acked, forgotten, binds, faults, crashes>>

\* Mutant: all messages of the device are acknowledged.
AckedAll(m, d, ids) == IF m.device = d THEN [m EXCEPT !.status = "acked"] ELSE m

\* AckDeviceMessages on one message.
Acked(m, d, ids) ==
    IF m.device = d /\ m.id \in ids THEN [m EXCEPT !.status = "acked"] ELSE m

\* The ids found are answered as acked_ids, the others as missing_ids; the
\* data is saved in either case.
AckDeviceMessages(d, ids) ==
    LET data == [mem EXCEPT !.msgs = [i \in DOMAIN @ |-> Acked(@[i], d, ids)]]
        found == {m.id : m \in {n \in Elements(mem.msgs) : n.device = d /\ n.id \in ids}}
    IN  /\ up
        /\ mem.owner[d] # Gone
        /\ ids # {}
        /\ \/ Commit(data) /\ acked' \in {acked, acked \cup found}
           \/ Spill(data) /\ UNCHANGED acked
        /\ UNCHANGED <<up, creating, shown, forgotten, binds, crashes>>

-----------------------------------------------------------------------------
(* The process.                                                            *)

Crash ==
    /\ up
    /\ crashes < MaxCrashes
    /\ crashes' = crashes + 1
    /\ up' = FALSE
    /\ creating' = {}
    /\ UNCHANGED <<mem, disk, shown, acked, forgotten, binds, faults>>

Restart ==
    /\ ~up
    /\ up' = TRUE
    /\ mem' = disk
    /\ forgotten' = (forgotten \/ mem.msgs # disk.msgs \/ mem.next # disk.next)
    /\ UNCHANGED <<disk, creating, shown, acked, binds, faults, crashes>>

\* A device acknowledges messages it has shown.
ShownIds(d) == {c.id : c \in shown[d]}

Next ==
    \/ \E d \in Devices :
         \/ Hello(d)
         \/ Pull(d)
         \/ \E ids \in SUBSET ShownIds(d) : AckDeviceMessages(d, ids)
    \/ \E u \in Users, d \in Devices :
         \/ Bind(u, d) \/ CheckOwner(u, d) \/ RejectBody(u, d)
         \/ \E b \in Bodies : AddDeviceMessage(u, d, b)
         \/ Delete(u, d)
    \/ Crash
    \/ Restart

Spec == Init /\ [][Next]_vars

\* A device polls, and acknowledges what it shows; whoever runs the hub starts
\* it again.
Fairness ==
    /\ \A d \in Devices : WF_vars(Pull(d))
    /\ \A d \in Devices : WF_vars(AckDeviceMessages(d, ShownIds(d)))
    /\ WF_vars(Restart)

FairSpec == Spec /\ Fairness

-----------------------------------------------------------------------------
(* Properties.                                                             *)

InboxData == [msgs : Seq(Message), next : Nat \ {0},
              owner : [Devices -> Users \cup {Nobody, Gone}]]

TypeOK ==
    /\ up \in BOOLEAN
    /\ mem \in InboxData /\ Len(mem.msgs) <= MaxMessages
    /\ disk \in InboxData /\ Len(disk.msgs) <= MaxMessages
    /\ creating \in SUBSET (Users \X Devices)
    /\ shown \in [Devices -> SUBSET Content]
    /\ acked \in SUBSET (Nat \ {0})
    /\ forgotten \in BOOLEAN
    /\ binds \in 0..MaxBinds
    /\ faults \in 0..MaxFaults
    /\ crashes \in 0..MaxCrashes

\* Messages stay in the order of their ids and no id is used twice, through
\* retention, failed saves and crashes (messages.go:98-111).
IdsIncrease ==
    \A data \in {mem, disk} :
        /\ \A i, j \in DOMAIN data.msgs : i < j => data.msgs[i].id < data.msgs[j].id
        /\ \A i \in DOMAIN data.msgs : data.msgs[i].id < data.next

\* The log of messages is well formed, in memory and in what a restart loads:
\* no longer than maxMessages, in order, and below the next id.
WellFormed == TypeOK /\ IdsIncrease

\* A message whose ack was answered is never pending again, so that the device
\* is not handed it a second time, not even by a hub that was killed.
AckedStaysAcked ==
    \A m \in Elements(mem.msgs) \cup Elements(disk.msgs) :
        m.id \in acked => m.status = "acked"

\* A message that counts as acked was pulled, with this content, by the device
\* it is for (message.md:11), until a kill loses a message that was pulled: its
\* id then goes to another, which a late acknowledgement takes for the first.
AckedWasShown ==
    forgotten \/ \A m \in Elements(mem.msgs) :
        m.status = "acked" => ContentOf(m) \in shown[m.device]

\* A device gets its messages in order: while one is pending that it has not
\* got, it has got none that is newer (messages.go:120-128), under the same
\* condition.
NoneOvertaken ==
    forgotten \/ \A m \in Elements(mem.msgs) : m.status = "pending" =>
        \/ ContentOf(m) \in shown[m.device]
        \/ \A c \in shown[m.device] : c.id < m.id

\* A message stays pending forever only if the device is gone: it is
\* acknowledged in the end, or makes room for newer ones, also behind more
\* pending messages than the device asks for at once.
PendingIsHandled ==
    \A id \in 1..MaxId, d \in Devices :
        (\E m \in Elements(mem.msgs) : m.id = id /\ IsPendingFor(m, d))
            ~> \/ ~ \E m \in Elements(mem.msgs) : m.id = id /\ IsPendingFor(m, d)
               \/ mem.owner[d] = Gone

\* A claim of the documentation, that the code does not keep.

\* A device that a user owns is handed the messages of that user: queries are
\* isolated by owner_id and by device_id (docs, the plan of the storage, line 63).
OnlyItsOwnersMessages ==
    [][\A d \in Devices : \A c \in shown'[d] \ shown[d] :
         mem.owner[d] \in Users => c.owner = mem.owner[d]]_vars
====
