---- MODULE DeviceRegistryProofs ----
(***************************************************************************)
(* Proofs about DeviceRegistry and the users it saves, for any devices,    *)
(* users, tokens, codes and secrets, and any number of failed saves and    *)
(* kills: its type invariant and all of its safety invariants.             *)
(*                                                                         *)
(* The invariants that the runs check speak of a hub that serves.  What is *)
(* inductive holds of memory and of state.json alike, whether or not the   *)
(* process is up: each part below is stated of both, so that a restart,    *)
(* which makes one the other, keeps it.                                    *)
(***************************************************************************)
EXTENDS DeviceRegistry, TLAPS

\* A code names one device at most, and none that has an owner.
CodesName(reg) ==
    \A d, e \in Devices :
        reg[d] # Absent /\ reg[d].code # NoCode =>
            /\ reg[d].owner = Nobody
            /\ (reg[e] # Absent /\ reg[e].code = reg[d].code) => d = e

\* No record has another secret than the one its device stored.
SecretsKept(reg) ==
    \A d \in Devices : kept[d] # NoSecret /\ reg[d] # Absent => reg[d].secret = kept[d]

\* A device somebody was told to own is theirs.
OwnedKept(reg) ==
    \A d \in Devices : owned[d] # Nobody => reg[d] # Absent /\ reg[d].owner = owned[d]

\* What the device shows is what the record says, until it expires.
Live(d) == promised[d].code # NoCode /\ now <= promised[d].until
PromisesKept(reg) ==
    \A d \in Devices : Live(d) =>
        /\ reg[d] # Absent
        /\ reg[d].code = promised[d].code
        /\ reg[d].expires = promised[d].until

OwnersIn(reg, list) ==
    \A d \in Devices : reg[d] # Absent => reg[d].owner \in Ids(list) \cup {Nobody}

TokensIn(list) ==
    \A t \in Tokens : signsIn[t] # Nobody => UserOf(list, t) = signsIn[t]

StuckInv ==
    stuck => /\ up
             /\ \A c \in Codes : \E d \in Devices : mem[d] # Absent /\ mem[d].code = c

\* What holds of a registry and of the users saved with it.
Sound(reg, list) ==
    /\ CodesName(reg)
    /\ SecretsKept(reg)
    /\ OwnedKept(reg)
    /\ PromisesKept(reg)
    /\ OwnersIn(reg, list)
    /\ TokensIn(list)

IInv ==
    /\ TypeOK
    /\ Sound(mem, users)
    /\ Sound(disk, savedUsers)
    /\ StuckInv

-----------------------------------------------------------------------------

\* The hub starts with nothing in memory, on disk or promised.
LEMMA InitInvariant == Init => IInv
<1> SUFFICES ASSUME Init
             PROVE  IInv
  OBVIOUS
<1>1. TypeOK
  <2>1. AccountsTypeOK
    <3>1. users = <<>> /\ savedUsers = <<>> /\ <<>> \in Seq(User)
      BY DEF Init, AccountsInit
    <3>2. QED
      BY <3>1 DEF Init, AccountsInit, AccountsTypeOK
  <2>2. mem \in Registry /\ disk \in Registry
    BY DEF Init, Registry
  <2>3. promised \in [Devices -> Promise]
    BY DEF Init, Promise, NoPromise
  <2>4. /\ up \in BOOLEAN /\ stuck \in BOOLEAN
        /\ now \in 0..MaxTime /\ faults \in 0..MaxFaults /\ crashes \in 0..MaxCrashes
    <3>1. up = TRUE /\ stuck = FALSE /\ now = 0 /\ faults = 0 /\ crashes = 0
      BY DEF Init
    <3>2. up \in BOOLEAN /\ stuck \in BOOLEAN
      BY <3>1, Zenon
    <3>3. QED
      BY <3>1, <3>2, BoundsAssumption
  <2>5. /\ drawn \in SUBSET Secrets
        /\ kept \in [Devices -> Secrets \cup {NoSecret}]
        /\ owned \in [Devices -> Users \cup {Nobody}]
    BY DEF Init
  <2>6. QED
    BY <2>1, <2>2, <2>3, <2>4, <2>5 DEF TypeOK
<1>2. mem = disk /\ users = <<>> /\ savedUsers = <<>> /\ \A d \in Devices : mem[d] = Absent
  BY DEF Init, AccountsInit
<1>3. Sound(mem, users) /\ Sound(disk, savedUsers)
  BY <1>2 DEF Init, AccountsInit, Sound, CodesName, SecretsKept, OwnedKept, PromisesKept,
     Live, NoPromise, OwnersIn, TokensIn
<1>4. StuckInv
  BY DEF Init, StuckInv
<1>5. QED
  BY <1>1, <1>3, <1>4 DEF IInv

\* A record is not Absent, and has its four fields.
LEMMA RecordTyped ==
    ASSUME NEW r \in Record
    PROVE  /\ r # Absent
           /\ r.secret \in Secrets
           /\ r.owner \in Users \cup {Nobody}
           /\ r.code \in Codes \cup {NoCode}
           /\ r.expires \in Nat
  BY DistinctAssumption DEF Record

\* What a save leaves in state.json is sound: all of memory, or what was there.
LEMMA SaveSound ==
    ASSUME Sound(mem, users)',
           \/ disk' = mem' /\ savedUsers' = users'
           \/ Sound(disk, savedUsers)'
    PROVE  Sound(disk, savedUsers)'
  BY DEF Sound, CodesName, SecretsKept, OwnedKept, PromisesKept, Live, OwnersIn, TokensIn

\* The hub promises nothing new: what is in force was in force before.
NoNewPromise ==
    /\ UNCHANGED <<kept, signsIn>>
    /\ \A d \in Devices : Live(d)' => Live(d) /\ promised'[d] = promised[d]
    /\ \A d \in Devices : owned'[d] # Nobody => owned'[d] = owned[d]

\* What is kept, where nothing new is promised, stays sound.
LEMMA MemKept ==
    ASSUME Sound(mem, users), NoNewPromise, mem' = mem, users' = users
    PROVE  Sound(mem, users)'
<1>1. CodesName(mem)' /\ SecretsKept(mem)'
  BY DEF Sound, NoNewPromise, CodesName, SecretsKept
<1>2. OwnedKept(mem)' /\ PromisesKept(mem)'
  BY DEF Sound, NoNewPromise, OwnedKept, PromisesKept
<1>3. OwnersIn(mem, users)' /\ TokensIn(users)'
  BY DEF Sound, NoNewPromise, OwnersIn, TokensIn
<1>4. QED
  BY <1>1, <1>2, <1>3 DEF Sound

\* While nothing new is told, what state.json says stays sound.
LEMMA DiskKept ==
    ASSUME Sound(disk, savedUsers), NoNewPromise, disk' = disk, savedUsers' = savedUsers
    PROVE  Sound(disk, savedUsers)'
<1>1. CodesName(disk)' /\ SecretsKept(disk)'
  BY DEF Sound, NoNewPromise, CodesName, SecretsKept
<1>2. OwnedKept(disk)' /\ PromisesKept(disk)'
  BY DEF Sound, NoNewPromise, OwnedKept, PromisesKept
<1>3. OwnersIn(disk, savedUsers)' /\ TokensIn(savedUsers)'
  BY DEF Sound, NoNewPromise, OwnersIn, TokensIn
<1>4. QED
  BY <1>1, <1>2, <1>3 DEF Sound

-----------------------------------------------------------------------------

\* A hello keeps the invariant: its record has the secret it sent or was given,
\* and a code no other record has, or it is the record there was.
LEMMA HelloInvariant ==
    ASSUME IInv, NEW d \in Devices, NEW s \in SecretsOf(d), NEW c \in Codes \cup {NoCode},
           Hello(d, s, c)
    PROVE  IInv'
<1> DEFINE r == Greeted(d, s, c)
<1>1. /\ mem' = [mem EXCEPT ![d] = r]
      /\ \/ disk' = mem' /\ savedUsers' = users' /\ faults' = faults
         \/ /\ disk' = disk /\ savedUsers' = savedUsers
            /\ kept' = kept /\ promised' = promised
            /\ faults < MaxFaults /\ faults' = faults + 1
      /\ UNCHANGED <<up, stuck, now, owned, crashes, accountVars>> \/ savedUsers' = users'
      /\ UNCHANGED <<up, stuck, now, owned, crashes, users, made, signsIn>>
      /\ drawn' = drawn \cup {s}
      /\ ~stuck
  BY DEF Hello, Commit, Spill, NoUserCreated, Serving, accountVars
<1>2. /\ kept' \in {kept, [kept EXCEPT ![d] = s]}
      /\ promised' \in {promised,
            [promised EXCEPT ![d] = IF r.owner = Nobody
                                    THEN [code |-> r.code, until |-> r.expires]
                                    ELSE NoPromise]}
  BY DEF Hello, ReceiveHello, Commit, IInv, TypeOK, Registry
<1>3. /\ mem \in Registry /\ disk \in Registry
      /\ kept \in [Devices -> Secrets \cup {NoSecret}]
      /\ promised \in [Devices -> Promise]
      /\ owned \in [Devices -> Users \cup {Nobody}]
      /\ now \in Nat
  BY BoundsAssumption DEF IInv, TypeOK
<1>4. s \in Secrets
  BY <1>3 DEF SecretsOf
<1>5. /\ r \in Record /\ r.secret = s
      /\ \/ /\ NeedsCode(d) /\ r.owner = Nobody /\ r.code = c /\ c \in FreeCodes(mem)
            /\ r.expires = now + TTL
         \/ ~NeedsCode(d) /\ mem[d] # Absent /\ r = mem[d]
  <2>1. CASE NeedsCode(d)
    <3>1. r = [secret |-> s, owner |-> Nobody, code |-> c, expires |-> now + TTL]
      BY <2>1 DEF Greeted
    <3>2. c \in FreeCodes(mem) /\ c \in Codes
      BY <2>1 DEF Hello, FreeCodes
    <3>3. now + TTL \in Nat
      BY <1>3, BoundsAssumption
    <3>4. QED
      BY <2>1, <3>1, <3>2, <3>3, <1>4 DEF Record
  <2>2. CASE ~NeedsCode(d)
    <3>1. mem[d] # Absent /\ r = mem[d] /\ mem[d].secret = s
      BY <2>2 DEF Greeted, NeedsCode, Hello, Accepts
    <3>2. r \in Record
      BY <3>1, <1>3 DEF Registry
    <3>3. QED
      BY <3>1, <3>2, <2>2
  <2>3. QED
    BY <2>1, <2>2
<1>6. mem' \in Registry /\ disk' \in Registry
  BY <1>1, <1>3, <1>5 DEF Registry
<1>7. \A e \in Devices : mem'[e] = IF e = d THEN r ELSE mem[e]
  BY <1>1, <1>3 DEF Registry
<1> HIDE DEF r
<1>8. TypeOK'
  <2>1. r.code \in Codes \cup {NoCode} /\ r.expires \in Nat
    BY <1>5, RecordTyped
  <2>2. promised' \in [Devices -> Promise]
    BY <1>2, <1>3, <2>1 DEF Promise, NoPromise
  <2>3. kept' \in [Devices -> Secrets \cup {NoSecret}] /\ drawn' \subseteq Secrets
    BY <1>1, <1>2, <1>3, <1>4 DEF IInv, TypeOK
  <2>4. AccountsTypeOK' /\ faults' \in 0..MaxFaults
    BY <1>1, BoundsAssumption DEF IInv, TypeOK, AccountsTypeOK
  <2>5. QED
    BY <1>1, <1>6, <2>2, <2>3, <2>4 DEF IInv, TypeOK
<1>9. CodesName(mem)'
  <2>1. r # Absent /\ r.code \in Codes \cup {NoCode}
    BY <1>5, RecordTyped
  <2>2. CodesName(mem)
    BY DEF IInv, Sound
  <2>3. CASE NeedsCode(d)
    <3>1. \A e \in Devices : mem[e] # Absent => mem[e].code # r.code
      BY <1>5, <2>3 DEF FreeCodes, Stored
    <3>2. QED
      BY <1>5, <1>7, <2>1, <2>2, <2>3, <3>1 DEF CodesName
  <2>4. CASE ~NeedsCode(d)
    BY <1>5, <1>7, <2>2, <2>4 DEF CodesName
  <2>5. QED
    BY <2>3, <2>4
<1>10. SecretsKept(mem)'
  <2>1. kept'[d] # NoSecret => r.secret = kept'[d]
    BY <1>2, <1>3, <1>5 DEF SecretsOf
  <2>2. \A e \in Devices \ {d} : kept'[e] = kept[e]
    BY <1>2, <1>3
  <2>3. SecretsKept(mem)
    BY DEF IInv, Sound
  <2>4. QED
    BY <1>7, <2>1, <2>2, <2>3 DEF SecretsKept
<1>11. OwnedKept(mem)'
  <2>1. owned[d] # Nobody => r = mem[d]
    BY <1>5 DEF IInv, Sound, OwnedKept, NeedsCode
  <2>2. QED
    BY <1>1, <1>7, <2>1 DEF IInv, Sound, OwnedKept
<1>12. PromisesKept(mem)'
  <2>1. r # Absent
    BY <1>5, RecordTyped
  <2>2. Live(d) => r = mem[d]
    BY <1>5, <1>3 DEF IInv, Sound, PromisesKept, Live, NeedsCode, Expired, Promise
  <2>3. Live(d)' => r.code = promised'[d].code /\ r.expires = promised'[d].until
    BY <1>1, <1>2, <1>3, <2>2 DEF IInv, Sound, PromisesKept, Live, NoPromise
  <2>4. \A e \in Devices \ {d} : Live(e)' => Live(e) /\ promised'[e] = promised[e]
    BY <1>1, <1>2, <1>3 DEF Live
  <2>5. QED
    BY <1>7, <2>1, <2>3, <2>4 DEF IInv, Sound, PromisesKept
<1>13. OwnersIn(mem, users)' /\ TokensIn(users)'
  <2>1. users' = users /\ signsIn' = signsIn
    BY <1>1
  <2>2. OwnersIn(mem, users)'
    <3>1. OwnersIn(mem, users) /\ Ids(users)' = Ids(users)
      BY <2>1 DEF IInv, Sound
    <3>2. QED
      BY <1>5, <1>7, <3>1 DEF OwnersIn
  <2>3. TokensIn(users)'
    BY <2>1 DEF IInv, Sound, TokensIn, UserOf, FirstWith, WithToken
  <2>4. QED
    BY <2>2, <2>3
<1>14. Sound(mem, users)'
  BY <1>9, <1>10, <1>11, <1>12, <1>13 DEF Sound
<1>15. Sound(disk, savedUsers)'
  <2>1. \/ disk' = mem' /\ savedUsers' = users'
        \/ disk' = disk /\ savedUsers' = savedUsers /\ NoNewPromise
    BY <1>1 DEF NoNewPromise, Live
  <2>2. QED
    BY <1>14, <2>1, SaveSound, DiskKept DEF IInv
<1>16. StuckInv'
  BY <1>1 DEF StuckInv
<1>17. QED
  BY <1>8, <1>14, <1>15, <1>16 DEF IInv

\* Who signs in with a token is a user of the list.
LEMMA UserOfTyped ==
    ASSUME NEW list \in Seq(User), NEW t, UserOf(list, t) # Nobody
    PROVE  UserOf(list, t) \in Ids(list) /\ UserOf(list, t) \in Users
<1>1. PICK i \in DOMAIN list : UserOf(list, t) = list[i].id
  BY DEF UserOf, FirstWith, WithToken
<1>2. list[i] \in User
  OBVIOUS
<1>3. QED
  BY <1>1, <1>2 DEF Ids, User

\* A bind keeps the invariant: it gives the one record with the code an owner,
\* who is a user, and takes the code and the promise of it away.
LEMMA BindInvariant ==
    ASSUME IInv, NEW u \in SignedIn, NEW c \in Codes, BindDevice(u, c)
    PROVE  IInv'
<1>1. PICK d \in Holders(mem, c) :
        /\ \/ /\ Commit([mem EXCEPT ![d] = BoundTo(@, u)])
              /\ owned' \in {owned, [owned EXCEPT ![d] = u]}
           \/ Spill([mem EXCEPT ![d] = BoundTo(@, u)]) /\ UNCHANGED owned
        /\ Withdraw(d)
  BY DEF BindDevice
<1>2. /\ d \in Devices /\ mem[d] # Absent /\ mem[d].owner = Nobody
  BY DEF Holders, Stored, BindDevice, BindAnswer
<1> DEFINE r == BoundTo(mem[d], u)
<1>3. /\ mem \in Registry /\ disk \in Registry
      /\ promised \in [Devices -> Promise]
      /\ owned \in [Devices -> Users \cup {Nobody}]
      /\ faults \in 0..MaxFaults
  BY DEF IInv, TypeOK
<1>4. u \in Users /\ u \in Ids(users) /\ u # Nobody
  BY UserOfTyped DEF IInv, TypeOK, AccountsTypeOK, SignedIn
<1>5. /\ r \in Record /\ r.secret = mem[d].secret
      /\ r.owner = u /\ r.code = NoCode
  <2>1. mem[d] \in Record
    BY <1>2, <1>3 DEF Registry
  <2>2. QED
    BY <1>4, <2>1 DEF BoundTo, Record
<1>6. /\ mem' = [mem EXCEPT ![d] = r]
      /\ \A e \in Devices : mem'[e] = IF e = d THEN r ELSE mem[e]
      /\ mem' \in Registry
  <2>1. mem' = [mem EXCEPT ![d] = r]
    BY <1>1 DEF Commit, Spill
  <2>2. QED
    BY <1>2, <1>3, <1>5, <2>1 DEF Registry
<1> HIDE DEF r
<1>7. /\ \/ disk' = mem' /\ savedUsers' = users' /\ faults' = faults
         \/ /\ disk' = disk /\ savedUsers' = savedUsers /\ owned' = owned
            /\ faults < MaxFaults /\ faults' = faults + 1
      /\ owned' \in {owned, [owned EXCEPT ![d] = u]}
      /\ promised' = [promised EXCEPT ![d] = NoPromise]
      /\ UNCHANGED <<up, stuck, now, drawn, kept, crashes, users, made, signsIn>>
      /\ ~stuck
  BY <1>1, <1>6 DEF BindDevice, Commit, Spill, Withdraw, NoUserCreated, Serving, r
<1>8. TypeOK'
  <2>1. disk' \in Registry /\ owned' \in [Devices -> Users \cup {Nobody}]
    BY <1>2, <1>3, <1>4, <1>6, <1>7
  <2>2. promised' \in [Devices -> Promise]
    BY <1>3, <1>7 DEF Promise, NoPromise
  <2>3. faults' \in 0..MaxFaults
    BY <1>3, <1>7, BoundsAssumption
  <2>4. AccountsTypeOK'
    BY <1>7 DEF IInv, TypeOK, AccountsTypeOK
  <2>5. QED
    BY <1>6, <1>7, <2>1, <2>2, <2>3, <2>4 DEF IInv, TypeOK
<1>9. /\ promised'[d] = NoPromise
      /\ \A e \in Devices \ {d} : promised'[e] = promised[e]
      /\ \A e \in Devices : Live(e)' => e # d /\ Live(e) /\ promised'[e] = promised[e]
  BY <1>2, <1>3, <1>7 DEF Live, NoPromise
<1>10. CodesName(mem)' /\ SecretsKept(mem)'
  BY <1>2, <1>5, <1>6, <1>7 DEF IInv, Sound, CodesName, SecretsKept
<1>11. OwnedKept(mem)'
  BY <1>2, <1>3, <1>5, <1>6, <1>7, RecordTyped DEF IInv, Sound, OwnedKept
<1>12. PromisesKept(mem)'
  BY <1>6, <1>9 DEF IInv, Sound, PromisesKept
<1>13. OwnersIn(mem, users)' /\ TokensIn(users)'
  <2>1. OwnersIn(mem, users) /\ TokensIn(users) /\ users' = users /\ signsIn' = signsIn
    BY <1>7 DEF IInv, Sound
  <2>2. OwnersIn(mem, users)'
    BY <1>4, <1>5, <1>6, <2>1 DEF OwnersIn
  <2>3. QED
    BY <2>1, <2>2 DEF TokensIn
<1>14. Sound(mem, users)'
  BY <1>10, <1>11, <1>12, <1>13 DEF Sound
<1>15. Sound(disk, savedUsers)'
  <2>1. \/ disk' = mem' /\ savedUsers' = users'
        \/ disk' = disk /\ savedUsers' = savedUsers /\ NoNewPromise
    BY <1>7, <1>9 DEF NoNewPromise
  <2>2. QED
    BY <1>14, <2>1, SaveSound, DiskKept DEF IInv
<1>16. StuckInv'
  BY <1>7 DEF StuckInv
<1>17. QED
  BY <1>8, <1>14, <1>15, <1>16 DEF IInv

\* A deletion keeps the invariant: whoever was told to own the device is the
\* one who deletes it.
LEMMA DeleteInvariant ==
    ASSUME IInv, NEW u \in SignedIn, NEW d \in Devices, DeleteDevice(u, d)
    PROVE  IInv'
<1>1. /\ mem \in Registry /\ disk \in Registry
      /\ promised \in [Devices -> Promise]
      /\ owned \in [Devices -> Users \cup {Nobody}]
      /\ faults \in 0..MaxFaults
      /\ mem[d] # Absent /\ mem[d].owner = u
  BY DEF IInv, TypeOK, DeleteDevice, OwnedBy
<1>2. /\ mem' = [mem EXCEPT ![d] = Absent]
      /\ mem' \in Registry
      /\ \A e \in Devices : mem'[e] = IF e = d THEN Absent ELSE mem[e]
  <2>1. mem' = [mem EXCEPT ![d] = Absent]
    BY DEF DeleteDevice, Commit, Spill
  <2>2. QED
    BY <1>1, <2>1 DEF Registry
<1>3. /\ \/ disk' = mem' /\ savedUsers' = users' /\ faults' = faults
         \/ /\ disk' = disk /\ savedUsers' = savedUsers
            /\ faults < MaxFaults /\ faults' = faults + 1
      /\ owned' = [owned EXCEPT ![d] = IF @ = u THEN Nobody ELSE @]
      /\ promised' = [promised EXCEPT ![d] = NoPromise]
      /\ UNCHANGED <<up, stuck, now, drawn, kept, crashes, users, made, signsIn>>
      /\ ~stuck
  BY <1>2 DEF DeleteDevice, Commit, Spill, Withdraw, NoUserCreated, Serving
<1>4. owned'[d] = Nobody /\ \A e \in Devices \ {d} : owned'[e] = owned[e]
  <2>1. owned[d] \in {Nobody, u}
    BY <1>1 DEF IInv, Sound, OwnedKept
  <2>2. QED
    BY <1>1, <1>3, <2>1
<1>5. /\ promised'[d] = NoPromise
      /\ \A e \in Devices \ {d} : promised'[e] = promised[e]
      /\ \A e \in Devices : Live(e)' => e # d /\ Live(e) /\ promised'[e] = promised[e]
  BY <1>1, <1>3 DEF Live, NoPromise
<1>6. TypeOK'
  <2>1. disk' \in Registry /\ owned' \in [Devices -> Users \cup {Nobody}]
    BY <1>1, <1>2, <1>3
  <2>2. promised' \in [Devices -> Promise]
    BY <1>1, <1>3 DEF Promise, NoPromise
  <2>3. faults' \in 0..MaxFaults
    BY <1>1, <1>3, BoundsAssumption
  <2>4. AccountsTypeOK'
    BY <1>3 DEF IInv, TypeOK, AccountsTypeOK
  <2>5. QED
    BY <1>2, <1>3, <2>1, <2>2, <2>3, <2>4 DEF IInv, TypeOK
<1>7. CodesName(mem)' /\ SecretsKept(mem)'
  BY <1>2, <1>3 DEF IInv, Sound, CodesName, SecretsKept
<1>8. OwnedKept(mem)' /\ PromisesKept(mem)'
  BY <1>2, <1>4, <1>5 DEF IInv, Sound, OwnedKept, PromisesKept
<1>9. OwnersIn(mem, users)' /\ TokensIn(users)'
  <2>1. OwnersIn(mem, users) /\ TokensIn(users) /\ users' = users /\ signsIn' = signsIn
    BY <1>3 DEF IInv, Sound
  <2>2. QED
    BY <1>2, <2>1 DEF OwnersIn, TokensIn
<1>10. Sound(mem, users)'
  BY <1>7, <1>8, <1>9 DEF Sound
<1>11. Sound(disk, savedUsers)'
  <2>1. \/ disk' = mem' /\ savedUsers' = users'
        \/ disk' = disk /\ savedUsers' = savedUsers /\ NoNewPromise
    BY <1>3, <1>4, <1>5 DEF NoNewPromise
  <2>2. QED
    BY <1>10, <2>1, SaveSound, DiskKept DEF IInv
<1>12. StuckInv'
  BY <1>3 DEF StuckInv
<1>13. QED
  BY <1>6, <1>10, <1>11, <1>12 DEF IInv

\* A save of what is in memory keeps the invariant, whether or not it fails.
LEMMA SaveInvariant ==
    ASSUME IInv, Commit(mem) \/ Spill(mem), NoUserCreated, ~stuck,
           UNCHANGED <<up, stuck, now, drawn, kept, promised, owned, crashes>>
    PROVE  IInv'
<1>1. /\ mem' = mem /\ users' = users /\ NoNewPromise
      /\ \/ disk' = mem' /\ savedUsers' = users' /\ faults' = faults
         \/ /\ disk' = disk /\ savedUsers' = savedUsers
            /\ faults < MaxFaults /\ faults' = faults + 1
  BY DEF Commit, Spill, NoUserCreated, NoNewPromise, Live
<1>2. Sound(mem, users)'
  BY <1>1, MemKept DEF IInv
<1>3. Sound(disk, savedUsers)'
  BY <1>1, <1>2, SaveSound, DiskKept DEF IInv
<1>4. TypeOK'
  <2>1. disk' \in Registry /\ mem' \in Registry
    BY <1>1 DEF IInv, TypeOK
  <2>2. faults' \in 0..MaxFaults
    BY <1>1, BoundsAssumption DEF IInv, TypeOK
  <2>3. AccountsTypeOK'
    BY <1>1 DEF IInv, TypeOK, AccountsTypeOK, NoUserCreated
  <2>4. QED
    BY <2>1, <2>2, <2>3 DEF IInv, TypeOK
<1>5. QED
  BY <1>2, <1>3, <1>4 DEF IInv, StuckInv

-----------------------------------------------------------------------------

\* A user who is appended changes nothing for a token that signed somebody in:
\* the first user with it stays the first.
LEMMA AppendedUser ==
    ASSUME NEW list \in Seq(User), NEW x \in User, NEW t, UserOf(list, t) # Nobody
    PROVE  UserOf(Append(list, x), t) = UserOf(list, t)
<1> DEFINE more == Append(list, x)
<1>1. /\ Len(more) = Len(list) + 1 /\ Len(list) \in Nat
      /\ DOMAIN list = 1..Len(list) /\ DOMAIN more = 1..Len(more)
      /\ \A i \in DOMAIN list : more[i] = list[i]
  OBVIOUS
<1>2. PICK i \in FirstWith(list, t) : TRUE
  BY DEF UserOf
<1> HIDE DEF more
<1>3. i \in FirstWith(more, t)
  BY <1>1, <1>2 DEF FirstWith, WithToken
<1>4. \A j \in FirstWith(list, t) : j = i
  BY <1>1, <1>2 DEF FirstWith, WithToken
<1>5. \A j \in FirstWith(more, t) : j = i
  BY <1>1, <1>3 DEF FirstWith, WithToken
<1>6. (CHOOSE j \in FirstWith(list, t) : TRUE) = i /\ (CHOOSE j \in FirstWith(more, t) : TRUE) = i
  BY <1>2, <1>3, <1>4, <1>5
<1>7. UserOf(list, t) = list[i].id /\ UserOf(more, t) = more[i].id
  BY <1>2, <1>3, <1>6 DEF UserOf
<1>8. QED
  BY <1>1, <1>2, <1>7 DEF FirstWith, WithToken, more

\* A new user keeps the invariant, also one whose save fails: devices have the
\* owners they had, and a token the user it had.
LEMMA CreateUserInvariant ==
    ASSUME IInv, NEW u \in Users, NEW t \in Tokens, CreateUser(u, t)
    PROVE  IInv'
<1> DEFINE x == [id |-> u, token |-> t]
<1>1. /\ users \in Seq(User) /\ x \in User
      /\ signsIn \in [Tokens -> Users \cup {Nobody}]
      /\ faults \in 0..MaxFaults
  BY DEF IInv, TypeOK, AccountsTypeOK, User
<1>2. /\ users' = Append(users, x)
      /\ made' = made \cup {u}
      /\ mem' = mem
      /\ UNCHANGED <<up, stuck, now, drawn, kept, promised, owned, crashes>>
      /\ ~stuck
      /\ \/ /\ disk' = mem' /\ savedUsers' = users' /\ faults' = faults
            /\ AnswerCreated(t)
         \/ /\ disk' = disk /\ savedUsers' = savedUsers /\ signsIn' = signsIn
            /\ faults < MaxFaults /\ faults' = faults + 1
  BY DEF CreateUser, AddUser, Commit, Spill, Serving
<1>3. users' \in Seq(User)
  BY <1>1, <1>2
<1>4. /\ \A v \in Tokens : signsIn'[v] = signsIn[v]
                           \/ (signsIn[v] = Nobody /\ signsIn'[v] = UserOf(users', v))
      /\ signsIn' \in [Tokens -> Users \cup {Nobody}]
  <2>1. UserOf(users', t) \in Users \cup {Nobody}
    BY <1>3, UserOfTyped
  <2>2. CASE signsIn' = signsIn
    BY <1>1, <2>2
  <2>3. CASE signsIn' = [signsIn EXCEPT ![t] =
                           IF @ = Nobody THEN UserOf(users', t) ELSE @]
    BY <1>1, <2>1, <2>3
  <2>4. QED
    BY <1>2, <2>2, <2>3 DEF AnswerCreated
<1>5. TypeOK'
  <2>1. disk' \in Registry /\ mem' \in Registry
    BY <1>2 DEF IInv, TypeOK
  <2>2. faults' \in 0..MaxFaults
    BY <1>1, <1>2, BoundsAssumption
  <2>3. savedUsers' \in Seq(User) /\ made' \in SUBSET Users
    BY <1>2, <1>3 DEF IInv, TypeOK, AccountsTypeOK
  <2>4. QED
    BY <1>2, <1>3, <1>4, <2>1, <2>2, <2>3 DEF IInv, TypeOK, AccountsTypeOK
<1>6. CodesName(mem)' /\ SecretsKept(mem)'
  BY <1>2 DEF IInv, Sound, CodesName, SecretsKept
<1>7. OwnedKept(mem)' /\ PromisesKept(mem)'
  BY <1>2 DEF IInv, Sound, OwnedKept, PromisesKept, Live
<1>8. OwnersIn(mem, users)'
  <2>1. Ids(users) \subseteq Ids(users')
    <3>1. /\ DOMAIN users \subseteq DOMAIN Append(users, x)
          /\ \A i \in DOMAIN users : Append(users, x)[i] = users[i]
      BY <1>1
    <3>2. QED
      BY <1>2, <3>1 DEF Ids
  <2>2. OwnersIn(mem, users)
    BY DEF IInv, Sound
  <2>3. QED
    BY <1>2, <2>1, <2>2 DEF OwnersIn
<1>9. TokensIn(users)'
  <2>1. TokensIn(users)
    BY DEF IInv, Sound
  <2>2. \A v \in Tokens : UserOf(users, v) # Nobody => UserOf(users', v) = UserOf(users, v)
    BY <1>1, <1>2, AppendedUser
  <2>3. QED
    BY <1>4, <2>1, <2>2 DEF TokensIn
<1>10. Sound(mem, users)'
  BY <1>6, <1>7, <1>8, <1>9 DEF Sound
<1>11. Sound(disk, savedUsers)'
  <2>1. \/ disk' = mem' /\ savedUsers' = users'
        \/ disk' = disk /\ savedUsers' = savedUsers /\ NoNewPromise
    BY <1>2 DEF NoNewPromise, Live
  <2>2. QED
    BY <1>10, <2>1, SaveSound, DiskKept DEF IInv
<1>12. StuckInv'
  BY <1>2 DEF StuckInv
<1>13. QED
  BY <1>5, <1>10, <1>11, <1>12 DEF IInv

-----------------------------------------------------------------------------

\* The search for a code keeps the store's lock only when no code is free.
LEMMA HelloLoopsInvariant ==
    ASSUME IInv, NEW d \in Devices, NEW s \in SecretsOf(d), HelloLoops(d, s)
    PROVE  IInv'
<1>1. UNCHANGED <<up, now, mem, disk, drawn, kept, promised, owned, faults, crashes,
                  users, savedUsers, made, signsIn>> /\ stuck' = TRUE /\ up
  BY DEF HelloLoops, Serving, accountVars
<1>2. NoNewPromise
  BY <1>1 DEF NoNewPromise, Live
<1>3. Sound(mem, users)' /\ Sound(disk, savedUsers)'
  BY <1>1, <1>2, MemKept, DiskKept DEF IInv
<1>4. TypeOK'
  BY <1>1 DEF IInv, TypeOK, AccountsTypeOK
<1>5. StuckInv'
  <2>1. \A c \in Codes : \E e \in Devices : mem[e] # Absent /\ mem[e].code = c
    BY DEF HelloLoops, FreeCodes, Stored
  <2>2. QED
    BY <1>1, <2>1 DEF StuckInv
<1>6. QED
  BY <1>3, <1>4, <1>5 DEF IInv

\* With time promises only run out.
LEMMA TickInvariant == ASSUME IInv, Tick PROVE IInv'
<1>1. /\ UNCHANGED <<up, stuck, mem, disk, drawn, kept, promised, owned, faults, crashes,
                     users, savedUsers, made, signsIn>>
      /\ now' = now + 1 /\ now < MaxTime
  BY DEF Tick, accountVars
<1>2. now \in Nat /\ now' \in 0..MaxTime /\ promised \in [Devices -> Promise]
  BY <1>1, BoundsAssumption DEF IInv, TypeOK
<1>3. NoNewPromise
  BY <1>1, <1>2 DEF NoNewPromise, Live, Promise
<1>4. Sound(mem, users)' /\ Sound(disk, savedUsers)'
  BY <1>1, <1>3, MemKept, DiskKept DEF IInv
<1>5. TypeOK'
  BY <1>1, <1>2 DEF IInv, TypeOK, AccountsTypeOK
<1>6. StuckInv'
  BY <1>1 DEF IInv, StuckInv
<1>7. QED
  BY <1>4, <1>5, <1>6 DEF IInv

\* A kill loses nothing that state.json does not lack already.
LEMMA CrashInvariant == ASSUME IInv, Crash PROVE IInv'
<1>1. /\ UNCHANGED <<now, mem, disk, drawn, kept, promised, owned, faults,
                     users, savedUsers, made, signsIn>>
      /\ up' = FALSE /\ stuck' = FALSE /\ crashes < MaxCrashes /\ crashes' = crashes + 1
  BY DEF Crash, accountVars
<1>2. NoNewPromise
  BY <1>1 DEF NoNewPromise, Live
<1>3. Sound(mem, users)' /\ Sound(disk, savedUsers)'
  BY <1>1, <1>2, MemKept, DiskKept DEF IInv
<1>4. TypeOK'
  <2>1. crashes' \in 0..MaxCrashes
    BY <1>1, BoundsAssumption DEF IInv, TypeOK
  <2>2. QED
    BY <1>1, <2>1 DEF IInv, TypeOK, AccountsTypeOK
<1>5. QED
  BY <1>1, <1>3, <1>4 DEF IInv, StuckInv

\* A restart makes memory what state.json holds, which is sound.
LEMMA RestartInvariant == ASSUME IInv, Restart PROVE IInv'
<1>1. /\ UNCHANGED <<stuck, now, disk, drawn, kept, promised, owned, faults, crashes,
                     savedUsers, made, signsIn>>
      /\ ~up /\ up' = TRUE /\ mem' = disk /\ users' = savedUsers
  BY DEF Restart
<1>2. NoNewPromise
  BY <1>1 DEF NoNewPromise, Live
<1>3. Sound(disk, savedUsers)'
  BY <1>1, <1>2, DiskKept DEF IInv
<1>4. Sound(mem, users)'
  BY <1>1, <1>3 DEF Sound, CodesName, SecretsKept, OwnedKept, PromisesKept, Live,
     OwnersIn, TokensIn
<1>5. TypeOK'
  BY <1>1 DEF IInv, TypeOK, AccountsTypeOK
<1>6. StuckInv'
  BY <1>1 DEF IInv, StuckInv
<1>7. QED
  BY <1>3, <1>4, <1>5, <1>6 DEF IInv

\* A step that changes no variable.
LEMMA StutterInvariant == ASSUME IInv, UNCHANGED vars PROVE IInv'
<1>1. NoNewPromise /\ mem' = mem /\ disk' = disk /\ users' = users /\ savedUsers' = savedUsers
  BY DEF vars, NoNewPromise, Live
<1>2. Sound(mem, users)' /\ Sound(disk, savedUsers)'
  BY <1>1, MemKept, DiskKept DEF IInv
<1>3. TypeOK' /\ StuckInv'
  BY DEF vars, IInv, TypeOK, AccountsTypeOK, StuckInv
<1>4. QED
  BY <1>2, <1>3 DEF IInv

\* Every step keeps the invariant.
LEMMA NextInvariant == IInv /\ [Next]_vars => IInv'
<1> SUFFICES ASSUME IInv, [Next]_vars
             PROVE  IInv'
  OBVIOUS
<1>1. ASSUME NEW d \in Devices, NEW s \in SecretsOf(d),
             (\E c \in Codes \cup {NoCode} : Hello(d, s, c)) \/ HelloLoops(d, s)
      PROVE  IInv'
  BY <1>1, HelloInvariant, HelloLoopsInvariant
<1>2. ASSUME NEW u \in SignedIn, NEW c \in Codes, BindDevice(u, c)
      PROVE  IInv'
  BY <1>2, BindInvariant
<1>3. ASSUME NEW u \in SignedIn, NEW d \in Devices, UpdateDevice(u, d) \/ DeleteDevice(u, d)
      PROVE  IInv'
  BY <1>3, DeleteInvariant, SaveInvariant DEF UpdateDevice, Serving
<1>4. ASSUME NEW u \in Users, NEW t \in Tokens, CreateUser(u, t)
      PROVE  IInv'
  BY <1>4, CreateUserInvariant
<1>5. SaveElsewhere => IInv'
  BY SaveInvariant DEF SaveElsewhere, Serving
<1>6. QED
  BY <1>1, <1>2, <1>3, <1>4, <1>5, TickInvariant, CrashInvariant, RestartInvariant,
     StutterInvariant DEF Next

-----------------------------------------------------------------------------

\* Memory and state.json each hold what was promised to devices and users, in
\* every state, for any number of failed saves and kills.
THEOREM InductiveInvariant == Spec => []IInv
  BY InitInvariant, NextInvariant, PTL DEF Spec

\* Records, secrets, promises and users keep their types.
THEOREM TypeCorrect == Spec => []TypeOK
<1>1. IInv => TypeOK
  BY DEF IInv
<1>2. QED
  BY <1>1, InductiveInvariant, PTL

\* BindDevice cannot pick the wrong record: no code is in two of them, and none
\* in one that has an owner (devices.go:97-101).
THEOREM CodesUnique == Spec => []CodeNamesOneDevice
<1>1. IInv => CodeNamesOneDevice
  <2>1. ASSUME NEW reg, CodesName(reg)
        PROVE  \A c \in Codes : /\ \A d, e \in Holders(reg, c) : d = e
                                /\ \A d \in Holders(reg, c) : reg[d].owner = Nobody
    BY <2>1, DistinctAssumption DEF CodesName, Holders, Stored
  <2>2. QED
    BY <2>1 DEF IInv, Sound, CodeNamesOneDevice
<1>2. QED
  BY <1>1, InductiveInvariant, PTL

\* No device is locked out of the hub with the secret it stored
\* (devices.go:59).
THEOREM SecretsAccepted == Spec => []KeptSecretAccepted
<1>1. IInv => KeptSecretAccepted
  BY DEF IInv, Sound, SecretsKept, KeptSecretAccepted, Accepts
<1>2. QED
  BY <1>1, InductiveInvariant, PTL

\* A code that a device shows binds it and no other, until it expires.
THEOREM PromisesBind == Spec => []PromisedCodeBinds
<1>1. IInv => PromisedCodeBinds
  <2> SUFFICES ASSUME IInv, NEW d \in Devices, Live(d)
               PROVE  /\ BindAnswer(promised[d].code) = "bound"
                      /\ Holders(mem, promised[d].code) = {d}
    BY DEF PromisedCodeBinds, Live
  <2>1. /\ mem[d] # Absent /\ mem[d].code = promised[d].code
        /\ mem[d].code # NoCode /\ mem[d].expires = promised[d].until
    BY DEF IInv, Sound, PromisesKept, Live
  <2>2. Holders(mem, promised[d].code) = {d}
    BY <2>1 DEF IInv, Sound, CodesName, Holders, Stored
  <2>3. mem[d].owner = Nobody
    BY <2>1 DEF IInv, Sound, CodesName
  <2>4. ~Expired(mem[d])
    <3>1. now \in Nat /\ promised[d].until \in Nat
      BY BoundsAssumption DEF IInv, TypeOK, Promise
    <3>2. QED
      BY <2>1, <3>1 DEF Live, Expired
  <2>5. QED
    BY <2>2, <2>3, <2>4 DEF BindAnswer
<1>2. QED
  BY <1>1, InductiveInvariant, PTL

\* Nothing but their own deletion takes a device from a user who was told that
\* it is theirs.
THEOREM OwnersStay == Spec => []ToldOwnersOwn
<1>1. IInv => ToldOwnersOwn
  BY DEF IInv, Sound, OwnedKept, ToldOwnersOwn
<1>2. QED
  BY <1>1, InductiveInvariant, PTL

\* Devices and users are saved together: no owner is unknown after a kill
\* (state.go:62).
THEOREM OwnersExist == Spec => []OwnersAreUsers
<1>1. IInv => OwnersAreUsers
  BY DEF IInv, Sound, OwnersIn, OwnersAreUsers, Stored
<1>2. QED
  BY <1>1, InductiveInvariant, PTL

\* A token signs in the same user for ever (users.go:10-20).
THEOREM TokensKeepUsers == Spec => []TokenKeepsItsUser
<1>1. IInv => TokenKeepsItsUser
  BY DEF IInv, Sound, TokensIn, TokenKeepsItsUser
<1>2. QED
  BY <1>1, InductiveInvariant, PTL

\* The hub is stuck in the search for a code only when unbound devices hold all
\* of them (devices.go:173-189).
THEOREM StuckWhenFull == Spec => []StuckOnlyWhenFull
<1>1. IInv => StuckOnlyWhenFull
  BY DistinctAssumption
  DEF IInv, Sound, StuckInv, CodesName, StuckOnlyWhenFull, Holders, Stored
<1>2. QED
  BY <1>1, InductiveInvariant, PTL
====
