---- MODULE DeviceRegistry ----
(***************************************************************************)
(* Device records, their secrets, their bind codes and their owners:       *)
(* FileStore's device methods with the handlers of device/hello and        *)
(* devices/bind, devices/{id} over them; and the users (Accounts), who are *)
(* in the same data and are saved with it.                                 *)
(*                                                                         *)
(* As in TodoStore, a mutating method is one step that commits or spills   *)
(* (DurableState); a reply of success may still be lost on its way.  The   *)
(* devices and the users of the model are honest: a device sends the       *)
(* secret it was given and a user types any code.                          *)
(***************************************************************************)
EXTENDS Accounts, FiniteSets

CONSTANTS Devices,      \* device ids
          Codes,        \* bind codes (six digits in the code)
          Secrets,      \* bound: secrets the hub generates
          NoCode, NoSecret, Absent,
          TTL,          \* bindCodeTTL
          MaxTime,      \* bound: the clock
          MaxFaults,    \* bound: saves that fail
          MaxCrashes    \* bound: times the process is killed

ASSUME DistinctAssumption ==
    /\ NoCode \notin Codes
    /\ NoSecret \notin Secrets
    /\ Absent \notin [secret : Secrets, owner : Users \cup {Nobody},
                      code : Codes \cup {NoCode}, expires : Nat]
ASSUME BoundsAssumption ==
    TTL \in Nat /\ MaxTime \in Nat /\ MaxFaults \in Nat /\ MaxCrashes \in Nat

VARIABLES up,           \* the process is running
          stuck,        \* uniqueBindCode loops, with the store's lock held
          now,          \* the clock
          mem,          \* mem[d]: the record of d in stateFile.data
          disk,         \* the same in state.json
          drawn,        \* history: the secrets generated so far
          kept,         \* kept[d]: the secret that device d has stored
          promised,     \* promised[d]: the code that d last received, and until when
          owned,        \* owned[d]: the user last told that d is bound to them
          faults, crashes

vars == <<up, stuck, now, mem, disk, drawn, kept, promised, owned, faults, crashes,
          users, savedUsers, made, signsIn>>

Record == [secret : Secrets, owner : Users \cup {Nobody},
           code : Codes \cup {NoCode}, expires : Nat]
Registry == [Devices -> Record \cup {Absent}]

Stored(reg) == {d \in Devices : reg[d] # Absent}
Holders(reg, c) == {d \in Stored(reg) : reg[d].code = c}

\* What a device shows: a code and when it expires.
Promise == [code : Codes \cup {NoCode}, until : Nat]
NoPromise == [code |-> NoCode, until |-> 0]

Init ==
    /\ up = TRUE
    /\ stuck = FALSE
    /\ now = 0
    /\ mem = [d \in Devices |-> Absent]
    /\ disk = mem
    /\ drawn = {}
    /\ kept = [d \in Devices |-> NoSecret]
    /\ promised = [d \in Devices |-> NoPromise]
    /\ owned = [d \in Devices |-> Nobody]
    /\ faults = 0
    /\ crashes = 0
    /\ AccountsInit

Serving == up /\ ~stuck

\* Mutant: a method saves only the list that it changed.
CommitChanged(reg) ==
    /\ mem' = reg
    /\ disk' = reg
    /\ savedUsers' = IF users' = users THEN savedUsers ELSE users'
    /\ UNCHANGED faults

\* save writes all of the data.
Commit(reg) ==
    /\ mem' = reg
    /\ disk' = reg
    /\ savedUsers' = users'
    /\ UNCHANGED faults

\* The error of save is returned, and memory keeps the change.
Spill(reg) ==
    /\ faults < MaxFaults
    /\ faults' = faults + 1
    /\ mem' = reg
    /\ UNCHANGED <<disk, savedUsers>>

\* What a method on devices leaves alone.
NoUserCreated == UNCHANGED <<users, made, signsIn>>

\* The hub's promises about d end with an attempt to bind or delete it.
Withdraw(d) == promised' = [promised EXCEPT ![d] = NoPromise]

-----------------------------------------------------------------------------
(* POST /device/hello.                                                     *)

\* Mutant: a code is not compared with those in use.
AnyCode(reg) == Codes

\* Mutant: randomDigits never draws the last digit.
FewerCodes(reg) ==
    Codes \ ({CHOOSE c \in Codes : TRUE} \cup {reg[d].code : d \in Stored(reg)})

\* The codes uniqueBindCode can return: those no record holds, expired or not.
FreeCodes(reg) == Codes \ {reg[d].code : d \in Stored(reg)}

Expired(r) == now > r.expires

\* Mutant: every hello of an unbound device gets a new code.
NeedsCodeAlways(d) == mem[d] # Absent => mem[d].owner = Nobody

\* A new record, or an unbound one whose code is missing or has expired.
NeedsCode(d) ==
    mem[d] # Absent =>
        mem[d].owner = Nobody /\ (mem[d].code = NoCode \/ Expired(mem[d]))

\* The secret of the request: the stored one, or else the handler draws one.
SecretsOf(d) == IF kept[d] = NoSecret THEN Secrets \ drawn ELSE {kept[d]}

\* Mutant: a hello without a secret is let through and replaces the stored one.
AcceptsNewSecret(d, s) ==
    mem[d] # Absent => mem[d].secret = s \/ kept[d] = NoSecret

\* HelloDevice does not refuse the request (401).
Accepts(d, s) == mem[d] # Absent => mem[d].secret = s

\* Mutant: the new secret is answered and not stored.
GreetedWithoutSecret(d, s, code) ==
    IF NeedsCode(d)
    THEN [secret |-> NoSecret, owner |-> Nobody, code |-> code, expires |-> now + TTL]
    ELSE mem[d]

\* The record that HelloDevice saves. LastSeenAt is left out.
Greeted(d, s, code) ==
    IF NeedsCode(d)
    THEN [secret |-> s, owner |-> Nobody, code |-> code, expires |-> now + TTL]
    ELSE mem[d]

\* The device stores its secret, and shows its code.
ReceiveHello(d, s, r) ==
    /\ kept' = [kept EXCEPT ![d] = s]
    /\ promised' = [promised EXCEPT ![d] =
          IF r.owner = Nobody
          THEN [code |-> r.code, until |-> r.expires]
          ELSE NoPromise]

Hello(d, s, code) ==
    LET reg == [mem EXCEPT ![d] = Greeted(d, s, code)]
    IN  /\ Serving
        /\ NoUserCreated
        /\ Accepts(d, s)
        /\ IF NeedsCode(d) THEN code \in FreeCodes(mem) ELSE code = NoCode
        /\ drawn' = drawn \cup {s}
        /\ \/ Commit(reg) /\ (ReceiveHello(d, s, reg[d]) \/ UNCHANGED <<kept, promised>>)
           \/ Spill(reg) /\ UNCHANGED <<kept, promised>>
        /\ UNCHANGED <<up, stuck, now, owned, crashes>>

\* uniqueBindCode never finds a code: the hub serves nobody any more.
HelloLoops(d, s) ==
    /\ Serving
    /\ Accepts(d, s)
    /\ NeedsCode(d)
    /\ FreeCodes(mem) = {}
    /\ stuck' = TRUE
    /\ UNCHANGED <<up, now, mem, disk, drawn, kept, promised, owned, faults, crashes, accountVars>>

-----------------------------------------------------------------------------
(* The user's side.                                                        *)

\* What POST /devices/bind answers to a code.
BindAnswer(c) ==
    IF Holders(mem, c) = {} THEN "not found"
    ELSE IF \E d \in Holders(mem, c) : mem[d].owner # Nobody \/ Expired(mem[d])
    THEN "conflict"
    ELSE "bound"

\* BindDevice sets the owner and clears the code.
BoundTo(r, u) == [r EXCEPT !.owner = u, !.code = NoCode, !.expires = 0]

BindDevice(u, c) ==
    /\ Serving
    /\ NoUserCreated
    /\ BindAnswer(c) = "bound"
    /\ \E d \in Holders(mem, c) :
        LET reg == [mem EXCEPT ![d] = BoundTo(@, u)]
        IN  /\ \/ Commit(reg) /\ owned' \in {owned, [owned EXCEPT ![d] = u]}
               \/ Spill(reg) /\ UNCHANGED owned
            /\ Withdraw(d)
    /\ UNCHANGED <<up, stuck, now, drawn, kept, crashes>>

\* Mutant: UpdateDevice writes the record of any device.
AnyUser(d, u) == mem[d] # Absent

OwnedBy(d, u) == mem[d] # Absent /\ mem[d].owner = u

\* PATCH /devices/{id}: the name is left out, and the save is not.
UpdateDevice(u, d) ==
    /\ Serving
    /\ NoUserCreated
    /\ OwnedBy(d, u)
    /\ Commit(mem) \/ Spill(mem)
    /\ UNCHANGED <<up, stuck, now, drawn, kept, promised, owned, crashes>>

DeleteDevice(u, d) ==
    LET reg == [mem EXCEPT ![d] = Absent]
    IN  /\ Serving
        /\ NoUserCreated
        /\ OwnedBy(d, u)
        /\ Commit(reg) \/ Spill(reg)
        /\ Withdraw(d)
        /\ owned' = [owned EXCEPT ![d] = IF @ = u THEN Nobody ELSE @]
        /\ UNCHANGED <<up, stuck, now, drawn, kept, crashes>>

-----------------------------------------------------------------------------
(* The rest of the hub, the process and the clock.                         *)

\* POST /admin/users.
CreateUser(u, t) ==
    /\ Serving
    /\ AddUser(u, t)
    /\ \/ Commit(mem) /\ AnswerCreated(t)
       \/ Spill(mem) /\ UNCHANGED signsIn
    /\ UNCHANGED <<up, stuck, now, drawn, kept, promised, owned, crashes>>

\* A request about todos or messages saves: save writes all of the data, device
\* records and users included.
SaveElsewhere ==
    /\ Serving
    /\ NoUserCreated
    /\ Commit(mem)
    /\ UNCHANGED <<up, stuck, now, drawn, kept, promised, owned, crashes>>

Tick ==
    /\ now < MaxTime
    /\ now' = now + 1
    /\ UNCHANGED <<up, stuck, mem, disk, drawn, kept, promised, owned, faults, crashes, accountVars>>

Crash ==
    /\ up
    /\ crashes < MaxCrashes
    /\ crashes' = crashes + 1
    /\ up' = FALSE
    /\ stuck' = FALSE
    /\ UNCHANGED <<now, mem, disk, drawn, kept, promised, owned, faults, accountVars>>

Restart ==
    /\ ~up
    /\ up' = TRUE
    /\ mem' = disk
    /\ users' = savedUsers
    /\ UNCHANGED <<stuck, now, disk, drawn, kept, promised, owned, faults, crashes,
                   savedUsers, made, signsIn>>

Next ==
    \/ \E d \in Devices : \E s \in SecretsOf(d) :
         \/ \E c \in Codes \cup {NoCode} : Hello(d, s, c)
         \/ HelloLoops(d, s)
    \/ \E u \in SignedIn, c \in Codes : BindDevice(u, c)
    \/ \E u \in SignedIn, d \in Devices : UpdateDevice(u, d) \/ DeleteDevice(u, d)
    \/ \E u \in Users, t \in Tokens : CreateUser(u, t)
    \/ SaveElsewhere
    \/ Tick
    \/ Crash
    \/ Restart

Spec == Init /\ [][Next]_vars

-----------------------------------------------------------------------------
(* Properties.                                                             *)

TypeOK ==
    /\ up \in BOOLEAN
    /\ stuck \in BOOLEAN
    /\ now \in 0..MaxTime
    /\ mem \in Registry
    /\ disk \in Registry
    /\ drawn \in SUBSET Secrets
    /\ kept \in [Devices -> Secrets \cup {NoSecret}]
    /\ promised \in [Devices -> Promise]
    /\ owned \in [Devices -> Users \cup {Nobody}]
    /\ faults \in 0..MaxFaults
    /\ crashes \in 0..MaxCrashes
    /\ AccountsTypeOK

\* A code names one device at most, and no device that has an owner: BindDevice
\* takes the first record with the code (devices.go:97-101), and there is no
\* second one, in memory and in what a restart loads.
CodeNamesOneDevice ==
    \A reg \in {mem, disk} : \A c \in Codes :
        /\ \A d, e \in Holders(reg, c) : d = e
        /\ \A d \in Holders(reg, c) : reg[d].owner = Nobody

\* A device that stored its secret is never refused: its record, whenever there
\* is one, has that secret, also after it was deleted and created again, and
\* after a restart (devices.go:59).
KeptSecretAccepted ==
    up => \A d \in Devices : kept[d] # NoSecret => Accepts(d, kept[d])

\* A code that a device received binds that device until it expires, whatever
\* fails in between, unless a user binds or deletes the device first
\* (devices.go:63-69: a code is replaced only when it has expired).
PromisedCodeBinds ==
    Serving => \A d \in Devices :
        promised[d].code # NoCode /\ now <= promised[d].until =>
            /\ BindAnswer(promised[d].code) = "bound"
            /\ Holders(mem, promised[d].code) = {d}

\* A user who was told that a device is bound to them owns it until they delete
\* it: no other bind, hello, failed save or restart takes it away.
ToldOwnersOwn ==
    up => \A d \in Devices : owned[d] # Nobody =>
        mem[d] # Absent /\ mem[d].owner = owned[d]

\* An owner is a user of the same data, in memory and in what a restart loads:
\* no failed save of a user and no kill leaves a device to somebody who does not
\* exist (state.go:62: all lists are saved together).
OwnersAreUsers ==
    /\ \A d \in Stored(mem) : mem[d].owner \in Ids(users) \cup {Nobody}
    /\ \A d \in Stored(disk) : disk[d].owner \in Ids(savedUsers) \cup {Nobody}

\* A token that was answered 201 signs in the same user for ever, also when it
\* was used before that answer, in a creation that failed or that is repeated,
\* and after kills (users.go:10-20: the list keeps its order).
TokenKeepsItsUser ==
    up => \A t \in Tokens : signsIn[t] # Nobody => UserOf(users, t) = signsIn[t]

\* The search for a bind code ends while any code is free: the hub is stuck
\* only when every code is held by a device nobody bound, and then also behind
\* codes that have expired, the one of the very device included
\* (devices.go:173-189).
StuckOnlyWhenFull ==
    stuck => \A c \in Codes : \E d \in Holders(mem, c) : mem[d].owner = Nobody

\* A claim of the documentation, that the code does not keep.

\* A device that never received a secret can still be given one (auth.md:78).
FirstHelloAccepted ==
    up => \A d \in Devices : \A s \in SecretsOf(d) :
        kept[d] = NoSecret => Accepts(d, s)
====
