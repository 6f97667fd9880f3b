---- MODULE Accounts ----
(***************************************************************************)
(* The users of the hub: the list in stateFile.data that CreateUser        *)
(* appends to, and the token by which a request is one user's.             *)
(* DeviceRegistry saves the list together with the devices.                *)
(***************************************************************************)
EXTENDS Naturals, Sequences

CONSTANTS Users,        \* user ids; no id is drawn twice
          Tokens,       \* tokens that the administrator gives to users
          Nobody

ASSUME NobodyAssumption == Nobody \notin Users

VARIABLES users,        \* Users of stateFile.data, the oldest first
          savedUsers,   \* the same in state.json
          made,         \* history: the ids drawn so far
          signsIn       \* signsIn[t]: whom t signed in when it was first answered 201

accountVars == <<users, savedUsers, made, signsIn>>

User == [id : Users, token : Tokens]

AccountsInit ==
    /\ users = <<>>
    /\ savedUsers = <<>>
    /\ made = {}
    /\ signsIn = [t \in Tokens |-> Nobody]

Ids(list) == {list[i].id : i \in DOMAIN list}
WithToken(list, t) == {i \in DOMAIN list : list[i].token = t}

\* Mutant: the search goes on to the last user with the token.
LastUserOf(list, t) ==
    LET last == {i \in WithToken(list, t) : \A j \in WithToken(list, t) : j <= i}
    IN  IF last = {} THEN Nobody ELSE list[CHOOSE i \in last : TRUE].id

\* UserByTokenHash: the first user with the token. Nobody is a 401.
FirstWith(list, t) == {i \in WithToken(list, t) : \A j \in WithToken(list, t) : i <= j}
UserOf(list, t) ==
    IF FirstWith(list, t) = {} THEN Nobody
    ELSE list[CHOOSE i \in FirstWith(list, t) : TRUE].id

\* The users who can send a request that requireUserAuth lets through.
SignedIn == {UserOf(users, t) : t \in Tokens} \ {Nobody}

\* CreateUser appends, whether or not a user has the token already.
AddUser(u, t) ==
    /\ u \notin made
    /\ made' = made \cup {u}
    /\ users' = Append(users, [id |-> u, token |-> t])

\* 201: the token works. The reply may be lost.
AnswerCreated(t) ==
    signsIn' \in {signsIn,
                 [signsIn EXCEPT ![t] = IF @ = Nobody THEN UserOf(users', t) ELSE @]}

AccountsTypeOK ==
    /\ users \in Seq(User)
    /\ savedUsers \in Seq(User)
    /\ made \in SUBSET Users
    /\ signsIn \in [Tokens -> Users \cup {Nobody}]
====
