---- MODULE WeatherCache ----
(***************************************************************************)
(* The weather: Cache.Current over QWeatherClient.Current.  A request      *)
(* reads the clock, then takes the cache's mutex, and holds it while it    *)
(* fetches the current weather, the hourly and the daily forecast one      *)
(* after the other.  Each fetch takes its time, and can fail or time out.  *)
(* Without a provider the stored weather is answered (Lifecycle has the    *)
(* process that chooses, and the fairness).                                *)
(***************************************************************************)
EXTENDS Naturals, Sequences

CONSTANTS Requests,     \* requests for the weather or for a snapshot
          NoOne,        \* the mutex is free
          TTL,          \* Cache.ttl
          Calls,        \* calls to the service that make one weather
          MaxTime       \* bound: the clock

ASSUME NoOneAssumption == NoOne \notin Requests
ASSUME SizesAssumption == TTL \in Nat \ {0} /\ Calls \in Nat \ {0} /\ MaxTime \in Nat

VARIABLES now,          \* the clock
          pc,           \* pc[r]: how far request r is
          arrived,      \* arrived[r]: the clock as r read it, before the lock
          lock,         \* holder of Cache.mu
          value,        \* Cache.value: when each part of it was fetched
          expiresAt,    \* Cache.expiresAt, 0 while there is no value
          parts,        \* parts[r]: when r got the parts it fetched so far
          answer,       \* answer[r]: the weather that r was answered
          fetches       \* history: arrived[r] of each r that stored a weather

vars == <<now, pc, arrived, lock, value, expiresAt, parts, answer, fetches>>

Weather == [1..Calls -> 0..MaxTime]
Answered == {"ok", "failed", "stored"}

Init ==
    /\ now = 0
    /\ pc = [r \in Requests |-> "idle"]
    /\ arrived = [r \in Requests |-> 0]
    /\ lock = NoOne
    /\ value = <<>>
    /\ expiresAt = 0
    /\ parts = [r \in Requests |-> <<>>]
    /\ answer = [r \in Requests |-> <<>>]
    /\ fetches = <<>>

\* WeatherService.Get without a provider: the weather in the store.
GetStored(r) ==
    /\ pc[r] = "idle"
    /\ pc' = [pc EXCEPT ![r] = "stored"]
    /\ UNCHANGED <<now, arrived, lock, value, expiresAt, parts, answer, fetches>>

\* now := c.clock(), before c.mu.Lock().
Arrive(r) ==
    /\ pc[r] = "idle"
    /\ pc' = [pc EXCEPT ![r] = "waiting"]
    /\ arrived' = [arrived EXCEPT ![r] = now]
    /\ UNCHANGED <<now, lock, value, expiresAt, parts, answer, fetches>>

\* Mutant: the mutex is not taken.
LockSkipped(r) ==
    /\ pc[r] = "waiting"
    /\ lock' = r
    /\ pc' = [pc EXCEPT ![r] = "locked"]
    /\ UNCHANGED <<now, arrived, value, expiresAt, parts, answer, fetches>>

Lock(r) ==
    /\ pc[r] = "waiting"
    /\ lock = NoOne
    /\ lock' = r
    /\ pc' = [pc EXCEPT ![r] = "locked"]
    /\ UNCHANGED <<now, arrived, value, expiresAt, parts, answer, fetches>>

\* Mutant: the clock is read again under the lock.
FreshNow(r) == expiresAt # 0 /\ now < expiresAt

\* Mutant: the time zero is taken for a time that never comes.
FreshForever(r) == expiresAt = 0 \/ arrived[r] < expiresAt

\* The value had not expired when r came.
Fresh(r) == expiresAt # 0 /\ arrived[r] < expiresAt

Hit(r) ==
    /\ pc[r] = "locked"
    /\ Fresh(r)
    /\ answer' = [answer EXCEPT ![r] = value]
    /\ pc' = [pc EXCEPT ![r] = "ok"]
    /\ lock' = NoOne
    /\ UNCHANGED <<now, arrived, value, expiresAt, parts, fetches>>

Miss(r) ==
    /\ pc[r] = "locked"
    /\ ~Fresh(r)
    /\ pc' = [pc EXCEPT ![r] = "fetching"]
    /\ UNCHANGED <<now, arrived, lock, value, expiresAt, parts, answer, fetches>>

\* The service answers the next call.
FetchPart(r) ==
    /\ pc[r] = "fetching"
    /\ Len(parts[r]) < Calls
    /\ parts' = [parts EXCEPT ![r] = Append(@, now)]
    /\ UNCHANGED <<now, pc, arrived, lock, value, expiresAt, answer, fetches>>

\* Mutant: the error path does not unlock.
FetchFailsLocked(r) ==
    /\ pc[r] = "fetching"
    /\ Len(parts[r]) < Calls
    /\ pc' = [pc EXCEPT ![r] = "failed"]
    /\ UNCHANGED <<now, arrived, lock, value, expiresAt, parts, answer, fetches>>

\* A call fails, times out, or its client is gone: 502, and the cache stays as
\* it is.
FetchFails(r) ==
    /\ pc[r] = "fetching"
    /\ Len(parts[r]) < Calls
    /\ pc' = [pc EXCEPT ![r] = "failed"]
    /\ lock' = NoOne
    /\ UNCHANGED <<now, arrived, value, expiresAt, parts, answer, fetches>>

\* Mutant: the lifetime starts when the weather is stored.
ExpiryFromNow(r) == now + TTL

\* now.Add(c.ttl), with the clock as r read it.
Expiry(r) == arrived[r] + TTL

Store(r) ==
    /\ pc[r] = "fetching"
    /\ Len(parts[r]) = Calls
    /\ value' = parts[r]
    /\ expiresAt' = Expiry(r)
    /\ answer' = [answer EXCEPT ![r] = parts[r]]
    /\ fetches' = Append(fetches, arrived[r])
    /\ pc' = [pc EXCEPT ![r] = "ok"]
    /\ lock' = NoOne
    /\ UNCHANGED <<now, arrived, parts>>

Tick ==
    /\ now < MaxTime
    /\ now' = now + 1
    /\ UNCHANGED <<pc, arrived, lock, value, expiresAt, parts, answer, fetches>>

Step(r) == Lock(r) \/ Hit(r) \/ Miss(r) \/ FetchPart(r) \/ FetchFails(r) \/ Store(r)

Next ==
    \/ \E r \in Requests : GetStored(r) \/ Arrive(r) \/ Step(r)
    \/ Tick

Spec == Init /\ [][Next]_vars

-----------------------------------------------------------------------------
(* Properties.                                                             *)

TypeOK ==
    /\ now \in 0..MaxTime
    /\ pc \in [Requests -> {"idle", "waiting", "locked", "fetching"} \cup Answered]
    /\ arrived \in [Requests -> 0..MaxTime]
    /\ lock \in Requests \cup {NoOne}
    /\ value \in Weather \cup {<<>>}
    /\ expiresAt \in 0..(MaxTime + TTL)
    /\ parts \in [Requests -> Seq(0..MaxTime)]
    /\ \A r \in Requests : Len(parts[r]) <= Calls
    /\ answer \in [Requests -> Weather \cup {<<>>}]
    /\ \A r \in Requests : pc[r] = "ok" <=> answer[r] # <<>>
    /\ fetches \in Seq(0..MaxTime)

\* No part of a weather that is answered had been in the cache for the TTL when
\* the request came, however long the fetch or the wait for the lock took; a
\* failed fetch is never answered with an expired weather (weather.md:50-51).
AnswersFresh ==
    \A r \in Requests : pc[r] = "ok" =>
        \A p \in DOMAIN answer[r] : arrived[r] < answer[r][p] + TTL

\* Requests that come within one TTL cause one fetch: the others wait for it,
\* also those that were waiting when it ended (weather.md:48).
OneFetchPerTTL ==
    \A i, j \in DOMAIN fetches : i < j => fetches[i] + TTL <= fetches[j]

\* The weather in the cache is never replaced by an older one: a slow fetch
\* does not overwrite what a later one stored.
NeverOlder ==
    [][value # <<>> => \A p \in DOMAIN value : value[p] <= value'[p]]_vars
====
