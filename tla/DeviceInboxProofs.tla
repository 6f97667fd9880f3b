---- MODULE DeviceInboxProofs ----
(***************************************************************************)
(* Proofs about DeviceInbox, for any devices, users, messages, retention   *)
(* and limit, and any number of failed saves and kills: its log of         *)
(* messages is well formed, and its three safety invariants hold.          *)
(***************************************************************************)
EXTENDS DeviceInbox, FiniteSetTheorems, SequenceTheorems, TLAPS

\* Messages are in the order of their ids, below the next one.
Ordered(data) ==
    /\ \A i, j \in DOMAIN data.msgs : i < j => data.msgs[i].id < data.msgs[j].id
    /\ \A i \in DOMAIN data.msgs : data.msgs[i].id < data.next

\* An id that counts as acked was given to a message before, and is not given
\* again.
AckedSettled(data) ==
    /\ \A id \in acked : id < data.next
    /\ \A i \in DOMAIN data.msgs : data.msgs[i].id \in acked => data.msgs[i].status = "acked"

\* What holds in memory and in state.json alike, so that a restart keeps it.
Sound(data) == Ordered(data) /\ AckedSettled(data)

\* What a device has pulled has an id that was given to a message, and no other
\* message has that id.
ShownKnown ==
    \A d \in Devices : \A c \in shown[d] :
        /\ c.id < mem.next
        /\ \A i \in DOMAIN mem.msgs : mem.msgs[i].id = c.id => ContentOf(mem.msgs[i]) = c

\* The two invariants about what was shown, message by message.
ShownIfAcked ==
    \A i \in DOMAIN mem.msgs :
        mem.msgs[i].status = "acked" => ContentOf(mem.msgs[i]) \in shown[mem.msgs[i].device]

NewerNotShown ==
    \A i \in DOMAIN mem.msgs : mem.msgs[i].status = "pending" =>
        \/ ContentOf(mem.msgs[i]) \in shown[mem.msgs[i].device]
        \/ \A c \in shown[mem.msgs[i].device] : c.id < mem.msgs[i].id

\* While no kill lost a change of memory, devices have shown what is in memory.
Shown == ShownKnown /\ ShownIfAcked /\ NewerNotShown

IInv ==
    /\ TypeOK
    /\ Sound(mem)
    /\ Sound(disk)
    /\ forgotten \/ Shown

-----------------------------------------------------------------------------
(* Messages and the log of them.                                           *)

\* The fields of a message, and of what a device shows of it.
LEMMA MessageTyped ==
    ASSUME NEW m \in Message
    PROVE  /\ m.id \in Nat \ {0} /\ m.owner \in Users /\ m.device \in Devices
           /\ m.body \in Bodies /\ m.status \in {"pending", "acked"}
           /\ ContentOf(m) \in Content /\ ContentOf(m).id = m.id
  BY DEF Message, Content, ContentOf

\* The fields of the data, and its messages.
LEMMA DataTyped ==
    ASSUME NEW data \in InboxData
    PROVE  /\ data.msgs \in Seq(Message) /\ data.next \in Nat \ {0}
           /\ data.owner \in [Devices -> Users \cup {Nobody, Gone}]
           /\ Len(data.msgs) \in Nat /\ DOMAIN data.msgs = 1..Len(data.msgs)
           /\ \A i \in DOMAIN data.msgs : data.msgs[i] \in Message
<1>1. /\ data.msgs \in Seq(Message) /\ data.next \in Nat \ {0}
      /\ data.owner \in [Devices -> Users \cup {Nobody, Gone}]
  BY DEF InboxData
<1>2. QED
  BY <1>1

\* Retention drops messages from the front, and keeps the one just appended.
LEMMA TrimmedKeepsLast ==
    ASSUME NEW msgs \in Seq(Message), NEW m \in Message,
           NEW t, t = Trimmed(Append(msgs, m))
    PROVE  /\ t \in Seq(Message)
           /\ Len(t) <= MaxMessages
           /\ Len(t) \in 1..(Len(msgs) + 1)
           /\ \A i \in 1..Len(t) :
                t[i] = IF i = Len(t) THEN m ELSE msgs[i + Len(msgs) + 1 - Len(t)]
<1> DEFINE all == Append(msgs, m)
<1>1. /\ all \in Seq(Message) /\ Len(all) = Len(msgs) + 1 /\ Len(msgs) \in Nat
      /\ \A i \in 1..Len(msgs) : all[i] = msgs[i]
      /\ all[Len(msgs) + 1] = m
  OBVIOUS
<1>2. MaxMessages \in Nat \ {0}
  BY SizesAssumption
<1> HIDE DEF all
<1>3. CASE Len(all) > MaxMessages
  <2> DEFINE first == Len(all) - MaxMessages + 1
  <2>1. t = SubSeq(all, first, Len(all))
    BY <1>3 DEF Trimmed, all
  <2>2. /\ first \in Int /\ Len(all) \in Int
        /\ \A i \in first..Len(all) : all[i] \in Message
    BY <1>1, <1>2, <1>3
  <2>3. /\ t \in Seq(Message)
        /\ Len(t) = MaxMessages
        /\ \A i \in 1..MaxMessages : t[i] = all[Len(all) - MaxMessages + i]
    BY <1>1, <1>2, <1>3, <2>1, <2>2, SubSeqProperties
  <2>4. ASSUME NEW i \in 1..MaxMessages
        PROVE  t[i] = IF i = MaxMessages THEN m ELSE msgs[i + Len(msgs) + 1 - MaxMessages]
    <3>1. t[i] = all[Len(all) - MaxMessages + i]
      BY <2>3
    <3>2. CASE i = MaxMessages
      <4>1. Len(all) - MaxMessages + i = Len(msgs) + 1
        BY <1>1, <1>2, <3>2
      <4>2. QED
        BY <1>1, <3>1, <3>2, <4>1
    <3>3. CASE i # MaxMessages
      <4>1. /\ Len(all) - MaxMessages + i \in 1..Len(msgs)
            /\ Len(all) - MaxMessages + i = i + Len(msgs) + 1 - MaxMessages
        BY <1>1, <1>2, <1>3, <3>3
      <4>2. QED
        BY <1>1, <3>1, <3>3, <4>1
    <3>4. QED
      BY <3>2, <3>3
  <2>5. Len(t) <= MaxMessages /\ Len(t) \in 1..(Len(msgs) + 1)
    BY <1>1, <1>2, <1>3, <2>3
  <2>6. QED
    BY <2>3, <2>4, <2>5
<1>4. CASE Len(all) <= MaxMessages
  <2>1. t = all
    BY <1>1, <1>2, <1>4 DEF Trimmed, all
  <2>2. QED
    BY <1>1, <1>2, <1>4, <2>1
<1>5. QED
  BY <1>1, <1>2, <1>3, <1>4

\* What is due to a device next is a message that is pending for it, and no
\* pending one that is not due comes before it.
LEMMA OldestAreDue ==
    ASSUME TypeOK, NEW d \in Devices
    PROVE  /\ \A m \in PendingDeviceMessages(d) : \E i \in PendingAt(d) : m = mem.msgs[i]
           /\ \A i, j \in PendingAt(d) :
                mem.msgs[j] \in PendingDeviceMessages(d) /\ i < j
                    /\ (\A k, l \in DOMAIN mem.msgs : mem.msgs[k] = mem.msgs[l] => k = l)
                    => mem.msgs[i] \in PendingDeviceMessages(d)
<1> DEFINE Before(j) == {k \in PendingAt(d) : k < j}
<1>1. /\ Len(mem.msgs) \in Nat /\ DOMAIN mem.msgs = 1..Len(mem.msgs)
      /\ PendingAt(d) \subseteq 1..Len(mem.msgs)
  BY DataTyped DEF TypeOK, PendingAt
<1>2. IsFiniteSet(PendingAt(d))
  <2>1. IsFiniteSet(1..Len(mem.msgs))
    BY <1>1, FS_Interval
  <2>2. QED
    BY <1>1, <2>1, FS_Subset
<1>3. PendingDeviceMessages(d) =
        {mem.msgs[i] : i \in {j \in PendingAt(d) : Cardinality(Before(j)) < Limit}}
  BY DEF PendingDeviceMessages
<1>4. ASSUME NEW i \in PendingAt(d), NEW j \in PendingAt(d), i < j,
             Cardinality(Before(j)) < Limit
      PROVE  Cardinality(Before(i)) < Limit
  <2>1. Before(i) \subseteq Before(j)
    BY <1>1, <1>4
  <2>2. IsFiniteSet(Before(j)) /\ IsFiniteSet(Before(i))
    <3>1. Before(i) \subseteq PendingAt(d) /\ Before(j) \subseteq PendingAt(d)
      OBVIOUS
    <3>2. QED
      BY <1>2, <3>1, FS_Subset
  <2> HIDE DEF Before
  <2>3. Cardinality(Before(i)) <= Cardinality(Before(j))
    BY <2>1, <2>2, FS_Subset
  <2>4. Cardinality(Before(i)) \in Nat /\ Cardinality(Before(j)) \in Nat
    BY <2>2, FS_CardinalityType
  <2>5. QED
    BY <1>4, <2>3, <2>4, SizesAssumption
<1> HIDE DEF Before
<1>5. QED
  BY <1>1, <1>3, <1>4 DEF PendingAt

-----------------------------------------------------------------------------

\* The hub starts with no messages.
LEMMA InitInvariant == Init => IInv
<1> SUFFICES ASSUME Init
             PROVE  IInv
  OBVIOUS
<1>1. /\ mem = [msgs |-> <<>>, next |-> 1, owner |-> [d \in Devices |-> Gone]]
      /\ disk = mem
  BY DEF Init
<1>2. mem.msgs = <<>> /\ mem.next = 1 /\ mem \in InboxData
  <2>1. <<>> \in Seq(Message)
    OBVIOUS
  <2>2. QED
    BY <1>1, <2>1 DEF InboxData
<1>3. /\ mem \in InboxData /\ Len(mem.msgs) <= MaxMessages
      /\ disk \in InboxData /\ Len(disk.msgs) <= MaxMessages
  BY <1>1, <1>2, SizesAssumption
<1>4. up \in BOOLEAN /\ forgotten \in BOOLEAN
  BY Zenon DEF Init
<1>5. TypeOK
  BY <1>3, <1>4, BoundsAssumption DEF Init, TypeOK
<1>6. Sound(mem) /\ Sound(disk)
  BY <1>1, <1>2 DEF Init, Sound, Ordered, AckedSettled
<1>7. Shown
  BY <1>2 DEF Init, Shown, ShownKnown, ShownIfAcked, NewerNotShown
<1>8. QED
  BY <1>5, <1>6, <1>7 DEF IInv

\* A step that leaves the messages in memory and what was shown and acked alone
\* keeps the invariant, whether or not it saves.
LEMMA MemoryKept ==
    ASSUME IInv, TypeOK', UNCHANGED <<shown, acked, forgotten>>,
           mem'.msgs = mem.msgs, mem'.next = mem.next, disk' \in {mem', disk}
    PROVE  IInv'
<1>1. Sound(mem)' /\ Sound(disk)'
  BY DEF IInv, Sound, Ordered, AckedSettled
<1>2. Shown => Shown'
  BY DEF Shown, ShownKnown, ShownIfAcked, NewerNotShown
<1>3. QED
  BY <1>1, <1>2 DEF IInv

\* Greetings, bindings and deletions of devices leave the messages as they are,
\* and save them, or fail to.
LEMMA RegistryInvariant ==
    ASSUME IInv, NEW d \in Devices, Hello(d) \/ \E u \in Users : Bind(u, d) \/ Delete(u, d)
    PROVE  IInv'
<1>1. PICK who \in Users \cup {Nobody, Gone} : SetOwner(d, who)
  <2>1. ASSUME Hello(d)
        PROVE  \E who \in Users \cup {Nobody, Gone} : SetOwner(d, who)
    <3>1. mem.owner[d] \in Users \cup {Nobody, Gone}
      BY DataTyped DEF IInv, TypeOK
    <3>2. QED
      BY <2>1, <3>1 DEF Hello
  <2>2. QED
    BY <2>1 DEF Bind, Delete
<1>2. UNCHANGED <<up, creating, shown, acked, forgotten, crashes>>
  BY DEF Hello, Bind, Delete
<1>3. /\ mem' = [mem EXCEPT !.owner[d] = who]
      /\ \/ disk' = mem' /\ faults' = faults
         \/ disk' = disk /\ faults < MaxFaults /\ faults' = faults + 1
  BY <1>1 DEF SetOwner, Commit, Spill
<1>4. mem' \in InboxData /\ mem'.msgs = mem.msgs /\ mem'.next = mem.next
  BY <1>3 DEF IInv, TypeOK, InboxData
<1>5. binds' \in 0..MaxBinds /\ faults' \in 0..MaxFaults
  <2>1. binds' \in 0..MaxBinds
    BY BoundsAssumption DEF Hello, Bind, Delete, IInv, TypeOK
  <2>2. faults' \in 0..MaxFaults
    BY <1>3, BoundsAssumption DEF IInv, TypeOK
  <2>3. QED
    BY <2>1, <2>2
<1>6. disk' \in {mem', disk}
  BY <1>3
<1>7. TypeOK'
  BY <1>2, <1>4, <1>5, <1>6 DEF IInv, TypeOK
<1>8. QED
  BY <1>2, <1>4, <1>6, <1>7, MemoryKept

\* A request that checks the owner, or ends there, changes no message.
LEMMA CreatingInvariant ==
    ASSUME IInv, NEW u \in Users, NEW d \in Devices, CheckOwner(u, d) \/ RejectBody(u, d)
    PROVE  IInv'
<1>1. creating' \in SUBSET (Users \X Devices)
  BY DEF CheckOwner, RejectBody, IInv, TypeOK
<1>2. UNCHANGED <<up, mem, disk, shown, acked, forgotten, binds, faults, crashes>>
  BY DEF CheckOwner, RejectBody
<1>3. TypeOK'
  BY <1>1, <1>2 DEF IInv, TypeOK
<1>4. QED
  BY <1>2, <1>3, MemoryKept

\* A new message goes to the end of the log, with an id above all that were
\* shown or acked; a save that fails leaves state.json as it was.
LEMMA AddInvariant ==
    ASSUME IInv, NEW u \in Users, NEW d \in Devices, NEW b \in Bodies,
           AddDeviceMessage(u, d, b)
    PROVE  IInv'
<1> DEFINE msg == [id |-> mem.next, owner |-> u, device |-> d, body |-> b,
                   status |-> "pending"]
           t == Trimmed(Append(mem.msgs, msg))
<1>1. /\ mem \in InboxData /\ disk \in InboxData
      /\ mem.msgs \in Seq(Message) /\ mem.next \in Nat \ {0}
      /\ Len(mem.msgs) \in Nat /\ DOMAIN mem.msgs = 1..Len(mem.msgs)
      /\ \A i \in DOMAIN mem.msgs : mem.msgs[i] \in Message
  BY DataTyped DEF IInv, TypeOK
<1>2. /\ mem' = [mem EXCEPT !.msgs = t, !.next = mem.next + 1]
      /\ \/ disk' = mem' /\ faults' = faults
         \/ disk' = disk /\ faults < MaxFaults /\ faults' = faults + 1
      /\ creating' = creating \ {<<u, d>>}
      /\ UNCHANGED <<up, shown, acked, forgotten, binds, crashes>>
  BY DEF AddDeviceMessage, NextId, Commit, Spill
<1>3. msg \in Message
  BY <1>1 DEF Message
<1>4. msg.id = mem.next /\ msg.status = "pending" /\ msg.device = d /\ ContentOf(msg).id = mem.next
  BY DEF ContentOf
<1> HIDE DEF msg
<1>5. /\ t \in Seq(Message) /\ Len(t) <= MaxMessages /\ Len(t) \in 1..(Len(mem.msgs) + 1)
      /\ \A i \in 1..Len(t) :
            t[i] = IF i = Len(t) THEN msg ELSE mem.msgs[i + Len(mem.msgs) + 1 - Len(t)]
  BY <1>1, <1>3, TrimmedKeepsLast
<1> HIDE DEF t
<1>6. mem'.msgs = t /\ mem'.next = mem.next + 1 /\ mem' \in InboxData
  <2>1. mem.next + 1 \in Nat \ {0}
    BY <1>1
  <2>2. t \in Seq(Message) /\ mem \in InboxData
    BY <1>1, <1>5
  <2>3. mem' = [mem EXCEPT !.msgs = t, !.next = mem.next + 1]
    BY <1>2
  <2>4. QED
    BY <2>1, <2>2, <2>3 DEF InboxData
<1>7. TypeOK'
  <2>1. disk' \in InboxData /\ Len(disk'.msgs) <= MaxMessages
    BY <1>1, <1>2, <1>5, <1>6 DEF IInv, TypeOK
  <2>2. faults' \in 0..MaxFaults
    BY <1>2, BoundsAssumption DEF IInv, TypeOK
  <2>3. QED
    BY <1>2, <1>5, <1>6, <2>1, <2>2 DEF IInv, TypeOK
<1> DEFINE was(i) == i + Len(mem.msgs) + 1 - Len(t)
<1>8. /\ DOMAIN t = 1..Len(t) /\ t[Len(t)] = msg
      /\ \A i \in 1..Len(t) : i # Len(t) => was(i) \in DOMAIN mem.msgs /\ t[i] = mem.msgs[was(i)]
      /\ \A i, j \in 1..Len(t) : i < j => was(i) < was(j)
  BY <1>1, <1>5
<1> HIDE DEF was
<1>9. Ordered(mem)'
  <2>1. Ordered(mem)
    BY DEF IInv, Sound
  <2>2. \A i \in 1..Len(t) : i # Len(t) => t[i].id < mem.next /\ t[i].id \in Nat
    <3>1. \A i \in DOMAIN mem.msgs : mem.msgs[i].id \in Nat
      BY <1>1, MessageTyped
    <3>2. QED
      BY <1>8, <2>1, <3>1 DEF Ordered
  <2>3. \A i, j \in DOMAIN t : i < j => t[i].id < t[j].id
    <3>1. TAKE i, j \in DOMAIN t
    <3>2. HAVE i < j
    <3>3. i \in 1..Len(t) /\ j \in 1..Len(t)
      BY <1>8
    <3>4. i # Len(t)
      BY <3>2, <3>3
    <3>5. CASE j = Len(t)
      BY <1>4, <1>8, <2>2, <3>3, <3>4, <3>5
    <3>6. CASE j # Len(t)
      BY <1>8, <2>1, <3>2, <3>3, <3>4, <3>6 DEF Ordered
    <3>7. QED
      BY <3>5, <3>6
  <2>4. \A i \in DOMAIN t : t[i].id < mem.next + 1
    <3>1. TAKE i \in DOMAIN t
    <3>2. mem.next \in Nat
      BY <1>1
    <3>3. t[i].id \in Nat /\ t[i].id <= mem.next
      <4>1. CASE i = Len(t)
        <5>1. t[i].id = mem.next
          BY <1>4, <1>8, <4>1
        <5>2. QED
          BY <3>2, <5>1
      <4>2. CASE i # Len(t)
        <5>1. i \in 1..Len(t)
          BY <1>8
        <5>2. t[i].id < mem.next /\ t[i].id \in Nat
          BY <2>2, <4>2, <5>1
        <5>3. QED
          BY <3>2, <5>2
      <4>3. QED
        BY <4>1, <4>2
    <3>4. QED
      BY <3>2, <3>3
  <2>5. QED
    BY <1>6, <2>3, <2>4 DEF Ordered
<1>10. AckedSettled(mem)'
  <2>1. AckedSettled(mem) /\ acked' = acked /\ acked \subseteq Nat
    BY <1>2 DEF IInv, Sound, TypeOK
  <2>2. \A id \in acked : id < mem.next /\ id < mem.next + 1
    BY <1>1, <2>1 DEF AckedSettled
  <2>3. \A i \in DOMAIN t : t[i].id \in acked => t[i].status = "acked"
    <3>1. TAKE i \in DOMAIN t
    <3>2. CASE i = Len(t)
      <4>1. t[i].id = mem.next /\ mem.next \in Nat
        BY <1>1, <1>4, <1>8, <3>2
      <4>2. mem.next \notin acked
        BY <2>2, <4>1
      <4>3. QED
        BY <4>1, <4>2
    <3>3. CASE i # Len(t)
      BY <1>8, <2>1, <3>3 DEF AckedSettled
    <3>4. QED
      BY <3>2, <3>3
  <2>4. QED
    BY <1>6, <2>1, <2>2, <2>3 DEF AckedSettled
<1>11. Sound(disk)'
  BY <1>2, <1>9, <1>10 DEF IInv, Sound, Ordered, AckedSettled
<1>12. ASSUME Shown
       PROVE  Shown'
  <2>1. shown' = shown /\ \A e \in Devices : \A c \in shown[e] : c.id \in Nat /\ c.id < mem.next
    BY <1>2, <1>12 DEF Shown, ShownKnown, IInv, TypeOK, Content
  <2>2. ShownKnown'
    <3>1. ASSUME NEW e \in Devices, NEW c \in shown[e], NEW i \in DOMAIN t, t[i].id = c.id
          PROVE  ContentOf(t[i]) = c
      <4>1. c.id # mem.next
        <5>1. c.id < mem.next /\ c.id \in Nat /\ mem.next \in Nat
          BY <1>1, <2>1
        <5>2. QED
          BY <5>1
      <4>2. i \in 1..Len(t) /\ i # Len(t)
        BY <1>4, <1>8, <3>1, <4>1
      <4>3. was(i) \in DOMAIN mem.msgs /\ t[i] = mem.msgs[was(i)]
        BY <1>8, <4>2
      <4>4. QED
        BY <1>12, <3>1, <4>3 DEF Shown, ShownKnown
    <3>2. \A e \in Devices : \A c \in shown[e] : c.id < mem.next + 1
      BY <1>1, <2>1
    <3>3. QED
      BY <1>6, <2>1, <3>1, <3>2 DEF ShownKnown
  <2>3. ShownIfAcked'
    <3>1. ASSUME NEW i \in DOMAIN t, t[i].status = "acked"
          PROVE  ContentOf(t[i]) \in shown[t[i].device]
      <4>1. i # Len(t)
        BY <1>4, <1>8, <3>1
      <4>2. QED
        BY <1>8, <1>12, <3>1, <4>1 DEF Shown, ShownIfAcked
    <3>2. QED
      BY <1>6, <2>1, <3>1 DEF ShownIfAcked
  <2>4. NewerNotShown'
    <3>1. ASSUME NEW i \in DOMAIN t, t[i].status = "pending"
          PROVE  \/ ContentOf(t[i]) \in shown[t[i].device]
                 \/ \A c \in shown[t[i].device] : c.id < t[i].id
      <4>1. CASE i = Len(t)
        BY <1>4, <1>8, <2>1, <4>1
      <4>2. CASE i # Len(t)
        BY <1>8, <1>12, <3>1, <4>2 DEF Shown, NewerNotShown
      <4>3. QED
        BY <4>1, <4>2
    <3>2. QED
      BY <1>6, <2>1, <3>1 DEF NewerNotShown
  <2>5. QED
    BY <2>2, <2>3, <2>4 DEF Shown
<1>13. QED
  BY <1>2, <1>7, <1>9, <1>10, <1>11, <1>12 DEF IInv, Sound

-----------------------------------------------------------------------------

\* A log in order has no message twice.
LEMMA NoneTwice ==
    ASSUME TypeOK, Ordered(mem)
    PROVE  \A i, j \in DOMAIN mem.msgs : mem.msgs[i].id = mem.msgs[j].id => i = j
<1>1. /\ DOMAIN mem.msgs = 1..Len(mem.msgs) /\ Len(mem.msgs) \in Nat
      /\ \A i \in DOMAIN mem.msgs : mem.msgs[i].id \in Nat
  BY DataTyped, MessageTyped DEF TypeOK
<1> SUFFICES ASSUME NEW i \in DOMAIN mem.msgs, NEW j \in DOMAIN mem.msgs,
                    mem.msgs[i].id = mem.msgs[j].id
             PROVE  i = j
  OBVIOUS
<1>2. ~(mem.msgs[i].id < mem.msgs[j].id) /\ ~(mem.msgs[j].id < mem.msgs[i].id)
  BY <1>1
<1>3. ~(i < j) /\ ~(j < i)
  BY <1>2 DEF Ordered
<1>4. QED
  BY <1>1, <1>3

\* A pull hands the device the oldest pending messages, none before an older one.
LEMMA PullInvariant == ASSUME IInv, NEW d \in Devices, Pull(d) PROVE IInv'
<1> DEFINE new == {ContentOf(m) : m \in PendingDeviceMessages(d)}
<1>1. /\ shown' = [shown EXCEPT ![d] = @ \cup new]
      /\ UNCHANGED <<up, mem, disk, creating, acked, forgotten, binds, faults, crashes>>
  BY DEF Pull
<1>2. /\ shown \in [Devices -> SUBSET Content]
      /\ DOMAIN mem.msgs = 1..Len(mem.msgs) /\ Len(mem.msgs) \in Nat
      /\ \A i \in DOMAIN mem.msgs : mem.msgs[i] \in Message
  BY DataTyped DEF IInv, TypeOK
<1>3. \A i \in DOMAIN mem.msgs : /\ mem.msgs[i].id \in Nat
                                 /\ ContentOf(mem.msgs[i]) \in Content
                                 /\ ContentOf(mem.msgs[i]).id = mem.msgs[i].id
  BY <1>2, MessageTyped
<1>4. \A c \in new : \E i \in PendingAt(d) :
            c = ContentOf(mem.msgs[i]) /\ mem.msgs[i] \in PendingDeviceMessages(d)
  <2>1. TAKE c \in new
  <2>2. PICK m \in PendingDeviceMessages(d) : c = ContentOf(m)
    OBVIOUS
  <2>3. QED
    BY <2>2, OldestAreDue DEF IInv
<1>5. PendingAt(d) \subseteq DOMAIN mem.msgs
  BY DEF PendingAt
<1>6. \A i, j \in DOMAIN mem.msgs : mem.msgs[i].id = mem.msgs[j].id => i = j
  BY NoneTwice DEF IInv, Sound
<1>7. new \subseteq Content
  BY <1>3, <1>4, <1>5
<1>8. \A e \in Devices : shown'[e] = IF e = d THEN shown[d] \cup new ELSE shown[e]
  BY <1>1, <1>2
<1>9. \A m \in PendingDeviceMessages(d) : ContentOf(m) \in shown'[d]
  BY <1>8
<1> HIDE DEF new
<1>10. TypeOK'
  <2>1. shown' \in [Devices -> SUBSET Content]
    BY <1>1, <1>2, <1>7
  <2>2. QED
    BY <1>1, <2>1 DEF IInv, TypeOK
<1>11. Sound(mem)' /\ Sound(disk)'
  BY <1>1 DEF IInv, Sound, Ordered, AckedSettled
<1>12. ASSUME Shown
       PROVE  Shown'
  <2>1. ShownKnown'
    <3>1. \A c \in new : /\ c.id < mem.next
                         /\ \A i \in DOMAIN mem.msgs : mem.msgs[i].id = c.id
                                => ContentOf(mem.msgs[i]) = c
      <4>1. TAKE c \in new
      <4>2. PICK j \in PendingAt(d) : c = ContentOf(mem.msgs[j])
        BY <1>4
      <4>3. j \in DOMAIN mem.msgs /\ c.id = mem.msgs[j].id
        BY <1>3, <1>5, <4>2
      <4>4. c.id < mem.next
        BY <4>3 DEF IInv, Sound, Ordered
      <4>5. QED
        BY <1>6, <4>2, <4>3, <4>4
    <3>2. QED
      BY <1>1, <1>8, <1>12, <3>1 DEF Shown, ShownKnown
  <2>2. ShownIfAcked'
    BY <1>1, <1>2, <1>8, <1>12, MessageTyped DEF Shown, ShownIfAcked
  <2>3. ASSUME NEW i \in DOMAIN mem.msgs, mem.msgs[i].status = "pending",
               ContentOf(mem.msgs[i]) \notin shown'[mem.msgs[i].device],
               NEW c \in shown'[mem.msgs[i].device]
        PROVE  c.id < mem.msgs[i].id
    <3>1. CASE c \in shown[mem.msgs[i].device]
      <4>1. ContentOf(mem.msgs[i]) \notin shown[mem.msgs[i].device]
        BY <1>2, <1>8, <2>3, MessageTyped
      <4>2. QED
        BY <1>12, <2>3, <3>1, <4>1 DEF Shown, NewerNotShown
    <3>2. CASE c \notin shown[mem.msgs[i].device]
      <4>1. mem.msgs[i].device = d /\ c \in new
        BY <1>2, <1>8, <2>3, <3>2, MessageTyped
      <4>2. PICK j \in PendingAt(d) :
                c = ContentOf(mem.msgs[j]) /\ mem.msgs[j] \in PendingDeviceMessages(d)
        BY <1>4, <4>1
      <4>3. mem.msgs[i] \notin PendingDeviceMessages(d)
        BY <1>9, <2>3, <4>1
      <4>4. i \in PendingAt(d)
        BY <2>3, <4>1 DEF PendingAt, IsPendingFor
      <4>5. \A k, l \in DOMAIN mem.msgs : mem.msgs[k] = mem.msgs[l] => k = l
        BY <1>6
      <4>6. ~(i < j)
        BY <4>2, <4>3, <4>4, <4>5, OldestAreDue DEF IInv
      <4>7. i # j
        BY <4>2, <4>3
      <4>8. j < i /\ j \in DOMAIN mem.msgs
        BY <1>2, <1>5, <4>4, <4>6, <4>7
      <4>9. mem.msgs[j].id < mem.msgs[i].id
        BY <4>8 DEF IInv, Sound, Ordered
      <4>10. QED
        BY <1>3, <4>2, <4>8, <4>9
    <3>3. QED
      BY <3>1, <3>2
  <2>4. NewerNotShown'
    BY <1>1, <2>3 DEF NewerNotShown
  <2>5. QED
    BY <2>1, <2>2, <2>4 DEF Shown
<1>13. QED
  BY <1>1, <1>10, <1>11, <1>12 DEF IInv

-----------------------------------------------------------------------------

\* An acknowledgement changes the status of a message, and nothing else of it.
LEMMA AckedTyped ==
    ASSUME NEW m \in Message, NEW d, NEW ids
    PROVE  LET a == Acked(m, d, ids)
           IN  /\ a \in Message /\ a.id = m.id /\ a.device = m.device
               /\ ContentOf(a) = ContentOf(m)
               /\ a.status = IF m.device = d /\ m.id \in ids THEN "acked" ELSE m.status
  BY DEF Acked, Message, ContentOf

\* An acknowledgement settles the messages it finds, which the device has
\* shown, before it counts; a save that fails lets none count.
LEMMA AckInvariant ==
    ASSUME IInv, NEW d \in Devices, NEW ids \in SUBSET ShownIds(d), AckDeviceMessages(d, ids)
    PROVE  IInv'
<1> DEFINE t == [i \in DOMAIN mem.msgs |-> Acked(mem.msgs[i], d, ids)]
           found == {m.id : m \in {n \in Elements(mem.msgs) : n.device = d /\ n.id \in ids}}
<1>1. /\ mem \in InboxData /\ disk \in InboxData /\ Len(mem.msgs) <= MaxMessages
      /\ mem.msgs \in Seq(Message) /\ mem.next \in Nat \ {0}
      /\ Len(mem.msgs) \in Nat /\ DOMAIN mem.msgs = 1..Len(mem.msgs)
      /\ \A i \in DOMAIN mem.msgs : mem.msgs[i] \in Message
      /\ acked \in SUBSET (Nat \ {0})
  BY DataTyped DEF IInv, TypeOK
<1>2. /\ mem' = [mem EXCEPT !.msgs = t]
      /\ \/ disk' = mem' /\ faults' = faults /\ acked' \in {acked, acked \cup found}
         \/ disk' = disk /\ faults < MaxFaults /\ faults' = faults + 1 /\ acked' = acked
      /\ UNCHANGED <<up, creating, shown, forgotten, binds, crashes>>
  BY DEF AckDeviceMessages, Commit, Spill
<1>3. /\ DOMAIN t = DOMAIN mem.msgs
      /\ \A i \in DOMAIN mem.msgs :
            /\ t[i] \in Message /\ t[i].id = mem.msgs[i].id
            /\ t[i].device = mem.msgs[i].device
            /\ ContentOf(t[i]) = ContentOf(mem.msgs[i])
            /\ t[i].status = IF mem.msgs[i].device = d /\ mem.msgs[i].id \in ids
                             THEN "acked" ELSE mem.msgs[i].status
  BY <1>1, AckedTyped
<1>4. t \in Seq(Message) /\ Len(t) = Len(mem.msgs)
  <2>1. t \in [1..Len(mem.msgs) -> Message]
    BY <1>1, <1>3
  <2>2. QED
    BY <1>1, <2>1
<1>5. \A id \in found : \E i \in DOMAIN mem.msgs :
            id = mem.msgs[i].id /\ mem.msgs[i].device = d /\ id \in ids
  BY DEF Elements
<1>6. \A i \in DOMAIN mem.msgs : mem.msgs[i].id \in Nat \ {0}
  BY <1>1, MessageTyped
<1> HIDE DEF t, found
<1>7. mem'.msgs = t /\ mem'.next = mem.next /\ mem' \in InboxData
  BY <1>1, <1>2, <1>4 DEF InboxData
<1>8. acked' \subseteq acked \cup found
  BY <1>2
<1>9. TypeOK'
  <2>1. disk' \in InboxData /\ Len(disk'.msgs) <= MaxMessages
    BY <1>1, <1>2, <1>4, <1>7 DEF IInv, TypeOK
  <2>2. faults' \in 0..MaxFaults
    BY <1>2, BoundsAssumption DEF IInv, TypeOK
  <2>3. acked' \in SUBSET (Nat \ {0})
    BY <1>1, <1>5, <1>6, <1>8
  <2>4. QED
    BY <1>1, <1>2, <1>4, <1>7, <2>1, <2>2, <2>3 DEF IInv, TypeOK
<1>10. Ordered(mem) /\ AckedSettled(mem)
  BY DEF IInv, Sound
<1>11. Ordered(mem)'
  BY <1>3, <1>7, <1>10 DEF Ordered
<1>12. \A i, j \in DOMAIN mem.msgs : mem.msgs[i].id = mem.msgs[j].id => i = j
  BY NoneTwice, <1>10 DEF IInv
<1>13. AckedSettled(mem)'
  <2>1. ASSUME NEW id \in acked'
        PROVE  id < mem.next
    BY <1>5, <1>8, <1>10 DEF AckedSettled, Ordered
  <2>2. ASSUME NEW i \in DOMAIN t, t[i].id \in acked'
        PROVE  t[i].status = "acked"
    <3>1. CASE mem.msgs[i].id \in acked
      BY <1>3, <1>10, <2>2, <3>1 DEF AckedSettled
    <3>2. CASE mem.msgs[i].id \in found
      <4>1. mem.msgs[i].device = d /\ mem.msgs[i].id \in ids
        BY <1>3, <1>5, <1>12, <2>2, <3>2
      <4>2. QED
        BY <1>3, <2>2, <4>1
    <3>3. QED
      BY <1>3, <1>8, <2>2, <3>1, <3>2
  <2>3. QED
    BY <1>7, <2>1, <2>2 DEF AckedSettled
<1>14. Sound(disk)'
  <2>1. CASE disk' = mem'
    BY <1>11, <1>13, <2>1 DEF Sound, Ordered, AckedSettled
  <2>2. CASE disk' = disk /\ acked' = acked
    BY <2>2 DEF IInv, Sound, Ordered, AckedSettled
  <2>3. QED
    BY <1>2, <2>1, <2>2
<1>15. ASSUME Shown
       PROVE  Shown'
  <2>1. shown' = shown
    BY <1>2
  <2>2. ShownKnown'
    BY <1>3, <1>7, <1>15, <2>1 DEF Shown, ShownKnown
  <2>3. ASSUME NEW i \in DOMAIN t, t[i].status = "acked"
        PROVE  ContentOf(t[i]) \in shown[t[i].device]
    <3>1. CASE mem.msgs[i].status = "acked"
      BY <1>3, <1>15, <3>1 DEF Shown, ShownIfAcked
    <3>2. CASE mem.msgs[i].device = d /\ mem.msgs[i].id \in ids
      <4>1. PICK c \in shown[d] : c.id = mem.msgs[i].id
        BY <3>2 DEF ShownIds
      <4>2. ContentOf(mem.msgs[i]) = c
        BY <1>3, <1>15, <4>1 DEF Shown, ShownKnown
      <4>3. QED
        BY <1>3, <3>2, <4>1, <4>2
    <3>3. QED
      BY <1>3, <2>3, <3>1, <3>2
  <2>4. ShownIfAcked'
    BY <1>7, <2>1, <2>3 DEF ShownIfAcked
  <2>5. ASSUME NEW i \in DOMAIN t, t[i].status = "pending"
        PROVE  \/ ContentOf(t[i]) \in shown[t[i].device]
               \/ \A c \in shown[t[i].device] : c.id < t[i].id
    <3>1. mem.msgs[i].status = "pending"
      BY <1>3, <2>5
    <3>2. QED
      BY <1>3, <1>15, <3>1 DEF Shown, NewerNotShown
  <2>6. NewerNotShown'
    BY <1>7, <2>1, <2>5 DEF NewerNotShown
  <2>7. QED
    BY <2>2, <2>4, <2>6 DEF Shown
<1>16. QED
  BY <1>2, <1>9, <1>11, <1>13, <1>14, <1>15 DEF IInv, Sound

-----------------------------------------------------------------------------

\* A kill loses the requests under way, and leaves state.json alone.
LEMMA CrashInvariant == ASSUME IInv, Crash PROVE IInv'
<1>1. crashes' \in 0..MaxCrashes /\ up' \in BOOLEAN /\ creating' = {}
  <2>1. up' \in BOOLEAN /\ creating' = {}
    BY Zenon DEF Crash
  <2>2. crashes' \in 0..MaxCrashes
    BY BoundsAssumption DEF Crash, IInv, TypeOK
  <2>3. QED
    BY <2>1, <2>2
<1>2. UNCHANGED <<mem, disk, shown, acked, forgotten, binds, faults>>
  BY DEF Crash
<1>3. TypeOK'
  BY <1>1, <1>2 DEF IInv, TypeOK
<1>4. QED
  BY <1>2, <1>3, MemoryKept

\* A restart loads what state.json holds, or makes it known that memory had more.
LEMMA RestartInvariant == ASSUME IInv, Restart PROVE IInv'
<1>1. /\ mem' = disk /\ disk' = disk
      /\ UNCHANGED <<creating, shown, acked, binds, faults, crashes>>
  BY DEF Restart
<1>2. /\ up' \in BOOLEAN /\ forgotten' \in BOOLEAN
      /\ ~forgotten' => (~forgotten /\ mem'.msgs = mem.msgs /\ mem'.next = mem.next)
  <2>1. up' = TRUE /\ forgotten' = (forgotten \/ mem.msgs # disk.msgs \/ mem.next # disk.next)
    BY DEF Restart
  <2>2. up' \in BOOLEAN /\ forgotten' \in BOOLEAN
    BY <2>1, Zenon
  <2>3. ~forgotten' => (~forgotten /\ mem.msgs = disk.msgs /\ mem.next = disk.next)
    BY <2>1, Zenon
  <2>4. QED
    BY <1>1, <2>2, <2>3
<1>3. TypeOK'
  BY <1>1, <1>2 DEF IInv, TypeOK
<1>4. Sound(mem)' /\ Sound(disk)'
  BY <1>1 DEF IInv, Sound, Ordered, AckedSettled
<1>5. ASSUME ~forgotten'
      PROVE  Shown'
  <2>1. Shown /\ mem'.msgs = mem.msgs /\ mem'.next = mem.next /\ shown' = shown
    BY <1>1, <1>2, <1>5 DEF IInv
  <2>2. QED
    BY <2>1 DEF Shown, ShownKnown, ShownIfAcked, NewerNotShown
<1>6. QED
  BY <1>3, <1>4, <1>5 DEF IInv

\* Every step keeps the invariant.
LEMMA NextInvariant == IInv /\ [Next]_vars => IInv'
<1> SUFFICES ASSUME IInv, [Next]_vars
             PROVE  IInv'
  OBVIOUS
<1>1. ASSUME NEW d \in Devices,
             Pull(d) \/ \E ids \in SUBSET ShownIds(d) : AckDeviceMessages(d, ids)
      PROVE  IInv'
  BY <1>1, PullInvariant, AckInvariant
<1>2. ASSUME NEW d \in Devices, Hello(d)
      PROVE  IInv'
  BY <1>2, RegistryInvariant
<1>3. ASSUME NEW u \in Users, NEW d \in Devices,
             \/ Bind(u, d) \/ Delete(u, d) \/ CheckOwner(u, d) \/ RejectBody(u, d)
             \/ \E b \in Bodies : AddDeviceMessage(u, d, b)
      PROVE  IInv'
  BY <1>3, RegistryInvariant, CreatingInvariant, AddInvariant
<1>4. CASE UNCHANGED vars
  <2>1. TypeOK'
    BY <1>4 DEF vars, IInv, TypeOK
  <2>2. QED
    BY <1>4, <2>1, MemoryKept DEF vars
<1>5. QED
  BY <1>1, <1>2, <1>3, <1>4, CrashInvariant, RestartInvariant DEF Next

-----------------------------------------------------------------------------

\* The log of messages is in order, what was acked is settled, and devices have
\* shown what counts as acked, in every state.
THEOREM InductiveInvariant == Spec => []IInv
  BY InitInvariant, NextInvariant, PTL DEF Spec

\* Messages keep their order and no id is used twice, whatever retention drops
\* and a restart brings back (messages.go:98-111).
THEOREM LogWellFormed == Spec => []WellFormed
<1>1. IInv => WellFormed
  BY DEF IInv, Sound, Ordered, WellFormed, IdsIncrease
<1>2. QED
  BY <1>1, InductiveInvariant, PTL

\* A message whose ack was answered is never handed out again.
THEOREM AcksLast == Spec => []AckedStaysAcked
<1>1. IInv => AckedStaysAcked
  BY DEF IInv, Sound, AckedSettled, AckedStaysAcked, Elements
<1>2. QED
  BY <1>1, InductiveInvariant, PTL

\* What counts as acked was pulled, with its content, by its device
\* (message.md:11), until a kill loses a change.
THEOREM AcksFollowPulls == Spec => []AckedWasShown
<1>1. IInv => AckedWasShown
  BY DEF IInv, Shown, ShownIfAcked, AckedWasShown, Elements
<1>2. QED
  BY <1>1, InductiveInvariant, PTL

\* No message overtakes another on its way to a device (messages.go:120-128),
\* until a kill loses a change.
THEOREM PullsInOrder == Spec => []NoneOvertaken
<1>1. IInv => NoneOvertaken
  BY DEF IInv, Shown, NewerNotShown, NoneOvertaken, Elements
<1>2. QED
  BY <1>1, InductiveInvariant, PTL
====
