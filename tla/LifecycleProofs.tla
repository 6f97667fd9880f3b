---- MODULE LifecycleProofs ----
(***************************************************************************)
(* Proofs about WeatherCache and about the process around it (Lifecycle),  *)
(* for any requests, lifetime, number of calls and times: what is answered *)
(* is fresh, one fetch serves a lifetime, and nothing in the cache is      *)
(* replaced by something older.                                            *)
(*                                                                         *)
(* The process may start, cut off and end the requests for the weather at  *)
(* any time, and they remain a behaviour of WeatherCache, so that what is  *)
(* proved of it holds in the process; and no configuration is refused for  *)
(* what it leaves out.                                                     *)
(***************************************************************************)
EXTENDS Lifecycle, TLAPS

-----------------------------------------------------------------------------
(* The cache.                                                              *)

\* Who is between Lock and the unlock holds the mutex, and has found the value
\* expired once it fetches. Nobody else has begun to fetch.
Holding ==
    \A r \in Requests :
        /\ pc[r] \in {"locked", "fetching"} => lock = r
        /\ pc[r] = "fetching" => ~Fresh(r)
        /\ pc[r] \in {"idle", "waiting", "locked"} => parts[r] = <<>>

\* No clock value is from the future, and what r fetches it fetches after it
\* came and after what is in the cache was fetched.
Timely ==
    /\ \A r \in Requests :
        /\ arrived[r] <= now
        /\ pc[r] = "fetching" => \A p \in DOMAIN parts[r] :
            /\ arrived[r] <= parts[r][p] /\ parts[r][p] <= now
            /\ \A q \in DOMAIN value : value[q] <= parts[r][p]
    /\ \A q \in DOMAIN value : value[q] <= now

\* The value expires a lifetime after its fetch began, and no part of it is older.
Cached ==
    /\ expiresAt # 0 => fetches # <<>> /\ value # <<>>
    /\ fetches # <<>> => expiresAt = fetches[Len(fetches)] + TTL
    /\ \A q \in DOMAIN value : expiresAt <= value[q] + TTL

IInv == TypeOK /\ Holding /\ Timely /\ Cached /\ AnswersFresh /\ OneFetchPerTTL

USE SizesAssumption, NoOneAssumption

-----------------------------------------------------------------------------
(* The invariant holds at first, and every action keeps it.                *)

\* The cache starts empty and unlocked.
LEMMA InitInvariant == Init => IInv
  BY SMT DEF Init, IInv, TypeOK, Holding, Timely, Cached, AnswersFresh,
             OneFetchPerTTL, Answered, Weather

\* What Append adds is the last element; the others stay in their places.
LEMMA Appended ==
    ASSUME NEW S, NEW s \in Seq(S), NEW x \in S
    PROVE  /\ Append(s, x) \in Seq(S) /\ Append(s, x) # <<>>
           /\ Len(Append(s, x)) = Len(s) + 1
           /\ Append(s, x)[Len(s) + 1] = x
           /\ \A i \in DOMAIN Append(s, x) :
                i = Len(s) + 1 \/ (i \in DOMAIN s /\ Append(s, x)[i] = s[i])
<1>1. /\ Append(s, x) \in Seq(S) /\ Len(Append(s, x)) = Len(s) + 1
      /\ Append(s, x)[Len(s) + 1] = x /\ Len(s) \in Nat
      /\ \A i \in 1..Len(s) : Append(s, x)[i] = s[i]
  OBVIOUS
<1> DEFINE t == Append(s, x)
<1>2. DOMAIN s = 1..Len(s) /\ DOMAIN t = 1..Len(t)
  BY <1>1
<1>3. \A i \in 1..(Len(s) + 1) : i = Len(s) + 1 \/ i \in 1..Len(s)
  BY <1>1
<1>4. t # <<>>
  BY <1>1
<1> HIDE DEF t
<1>5. \A i \in DOMAIN t : i = Len(s) + 1 \/ (i \in DOMAIN s /\ t[i] = s[i])
  BY <1>1, <1>2, <1>3 DEF t
<1> QED
  BY <1>1, <1>4, <1>5 DEF t

\* What the types say of the cache: it is empty, or a whole weather.
LEMMA ValueTyped ==
    ASSUME TypeOK
    PROVE  \A q \in DOMAIN value : value \in Weather /\ q \in 1..Calls /\ value[q] \in Nat
<1>1. CASE value \in Weather
  BY <1>1 DEF Weather
<1>2. CASE value = <<>>
  BY <1>2
<1> QED
  BY <1>1, <1>2 DEF TypeOK

\* And of the requests, whose parts are clock values.
LEMMA RequestTyped ==
    ASSUME TypeOK, NEW r \in Requests
    PROVE  /\ parts[r] \in Seq(0..MaxTime) /\ arrived[r] \in 0..MaxTime
           /\ now \in 0..MaxTime
           /\ \A p \in DOMAIN parts[r] : parts[r][p] \in Nat
<1>1. parts[r] \in Seq(0..MaxTime) /\ arrived[r] \in 0..MaxTime /\ now \in 0..MaxTime
  BY DEF TypeOK
<1> QED
  BY <1>1

\* A request that does not hold the mutex, before and after, and is not
\* answered from the cache: it changes its own progress alone.
LEMMA OutsideStep ==
    ASSUME IInv, NEW r \in Requests, GetStored(r) \/ Arrive(r) \/ Lock(r)
    PROVE  IInv'
<1>1. TypeOK'
  BY DEF IInv, TypeOK, GetStored, Arrive, Lock, Answered
<1>2. Holding'
  BY DEF IInv, TypeOK, Holding, GetStored, Arrive, Lock, Answered, Fresh
<1>3. Timely'
  <2>1. /\ UNCHANGED <<now, value, parts>>
        /\ \A q \in Requests : arrived'[q] = arrived[q] \/ arrived'[q] = now
        /\ \A q \in Requests :
              pc'[q] = "fetching" => pc[q] = "fetching" /\ arrived'[q] = arrived[q]
    BY DEF IInv, TypeOK, GetStored, Arrive, Lock
  <2>2. now <= now
    BY DEF IInv, TypeOK
  <2> QED
    BY <2>1, <2>2 DEF IInv, Timely
<1>4. Cached' /\ OneFetchPerTTL'
  BY DEF IInv, TypeOK, Cached, OneFetchPerTTL, GetStored, Arrive, Lock
<1>5. AnswersFresh'
  BY DEF IInv, TypeOK, AnswersFresh, GetStored, Arrive, Lock, Answered
<1> QED
  BY <1>1, <1>2, <1>3, <1>4, <1>5 DEF IInv

\* A hit answers what the cache has, which has not expired for this clock.
LEMMA HitStep ==
    ASSUME IInv, NEW r \in Requests, Hit(r)
    PROVE  IInv'
<1>1. /\ value \in Weather /\ value # <<>>
      /\ \A p \in DOMAIN value : arrived[r] < value[p] + TTL
  BY DEF IInv, TypeOK, Cached, Hit, Fresh, Weather
<1>2. TypeOK'
  <2>1. /\ answer' \in [Requests -> Weather \cup {<<>>}]
        /\ \A q \in Requests : pc'[q] = "ok" <=> answer'[q] # <<>>
    BY <1>1 DEF IInv, TypeOK, Hit
  <2> QED
    BY <2>1 DEF IInv, TypeOK, Hit, Answered
<1>3. Holding'
  BY DEF IInv, TypeOK, Holding, Hit, Answered, Fresh
<1>4. Timely' /\ Cached' /\ OneFetchPerTTL'
  BY DEF IInv, TypeOK, Timely, Cached, OneFetchPerTTL, Hit, Answered
<1>5. AnswersFresh'
  BY <1>1 DEF IInv, TypeOK, AnswersFresh, Hit, Answered
<1> QED
  BY <1>2, <1>3, <1>4, <1>5 DEF IInv

\* Who finds the value expired keeps the lock and fetches.
LEMMA MissStep ==
    ASSUME IInv, NEW r \in Requests, Miss(r)
    PROVE  IInv'
<1>1. TypeOK'
  BY DEF IInv, TypeOK, Miss, Answered
<1>2. Holding'
  BY DEF IInv, TypeOK, Holding, Miss, Answered, Fresh
<1>3. Timely'
  BY DEF IInv, TypeOK, Holding, Timely, Miss, Answered
<1>4. Cached' /\ OneFetchPerTTL'
  BY DEF IInv, TypeOK, Cached, OneFetchPerTTL, Miss
<1>5. AnswersFresh'
  BY DEF IInv, TypeOK, AnswersFresh, Miss, Answered
<1> QED
  BY <1>1, <1>2, <1>3, <1>4, <1>5 DEF IInv

\* What a call brings is as new as the clock, and so newer than the cache.
LEMMA FetchPartStep ==
    ASSUME IInv, NEW r \in Requests, FetchPart(r)
    PROVE  IInv'
<1>1. /\ parts[r] \in Seq(0..MaxTime) /\ now \in 0..MaxTime
      /\ parts' = [parts EXCEPT ![r] = Append(parts[r], now)]
  BY DEF IInv, TypeOK, FetchPart
<1>2. /\ parts'[r] \in Seq(0..MaxTime)
      /\ Len(parts'[r]) = Len(parts[r]) + 1
      /\ \A p \in DOMAIN parts'[r] :
            parts'[r][p] = now \/ (p \in DOMAIN parts[r] /\ parts'[r][p] = parts[r][p])
  <2>1. parts'[r] = Append(parts[r], now)
    BY <1>1 DEF IInv, TypeOK
  <2>2. /\ Append(parts[r], now) \in Seq(0..MaxTime)
        /\ Len(Append(parts[r], now)) = Len(parts[r]) + 1
        /\ Append(parts[r], now)[Len(parts[r]) + 1] = now
        /\ \A p \in DOMAIN Append(parts[r], now) :
              \/ p = Len(parts[r]) + 1
              \/ p \in DOMAIN parts[r] /\ Append(parts[r], now)[p] = parts[r][p]
    BY <1>1, Appended
  <2> QED
    BY <2>1, <2>2
<1>3. TypeOK'
  <2>1. /\ parts' \in [Requests -> Seq(0..MaxTime)]
        /\ \A q \in Requests : q # r => parts'[q] = parts[q]
    BY <1>1, <1>2 DEF IInv, TypeOK
  <2>2. \A q \in Requests : Len(parts'[q]) <= Calls
    BY <1>1, <1>2, <2>1 DEF IInv, TypeOK, FetchPart
  <2> QED
    BY <2>1, <2>2 DEF IInv, TypeOK, FetchPart
<1>4. Holding'
  BY <1>1 DEF IInv, TypeOK, Holding, FetchPart, Answered, Fresh
<1>5. Timely'
  <2>1. /\ UNCHANGED <<now, pc, arrived, value>>
        /\ \A q \in Requests : q # r => parts'[q] = parts[q]
    BY <1>1 DEF IInv, TypeOK, FetchPart
  <2>2. now <= now /\ pc[r] = "fetching"
    BY <1>1 DEF FetchPart
  <2>3. ASSUME NEW p \in DOMAIN parts'[r]
        PROVE  /\ arrived[r] <= parts'[r][p] /\ parts'[r][p] <= now
               /\ \A q \in DOMAIN value : value[q] <= parts'[r][p]
    BY <1>2, <2>2 DEF IInv, Timely
  <2>4. ASSUME NEW q \in Requests, q # r, pc[q] = "fetching", NEW p \in DOMAIN parts[q]
        PROVE  /\ arrived[q] <= parts[q][p] /\ parts[q][p] <= now
               /\ \A k \in DOMAIN value : value[k] <= parts[q][p]
    BY <2>4 DEF IInv, Timely
  <2>5. /\ \A q \in Requests : arrived[q] <= now
        /\ \A q \in DOMAIN value : value[q] <= now
    BY DEF IInv, Timely
  <2> QED
    BY <2>1, <2>3, <2>4, <2>5 DEF Timely
<1>6. Cached' /\ OneFetchPerTTL' /\ AnswersFresh'
  BY DEF IInv, TypeOK, Cached, OneFetchPerTTL, AnswersFresh, FetchPart
<1> QED
  BY <1>3, <1>4, <1>5, <1>6 DEF IInv

\* A call that fails unlocks and leaves the cache as it is.
LEMMA FetchFailsStep ==
    ASSUME IInv, NEW r \in Requests, FetchFails(r)
    PROVE  IInv'
<1>1. TypeOK'
  BY DEF IInv, TypeOK, FetchFails, Answered
<1>2. Holding'
  BY DEF IInv, TypeOK, Holding, FetchFails, Answered, Fresh
<1>3. Timely' /\ Cached' /\ OneFetchPerTTL'
  BY DEF IInv, TypeOK, Timely, Cached, OneFetchPerTTL, FetchFails, Answered
<1>4. AnswersFresh'
  BY DEF IInv, TypeOK, AnswersFresh, FetchFails, Answered
<1> QED
  BY <1>1, <1>2, <1>3, <1>4 DEF IInv

\* What is stored: a whole weather, none of it older than the request, and none
\* of it older than what it replaces. The request came after all of that expired.
LEMMA StoredValue ==
    ASSUME IInv, NEW r \in Requests, Store(r)
    PROVE  /\ parts[r] \in Weather /\ parts[r] # <<>>
           /\ \A p \in DOMAIN parts[r] :
                /\ arrived[r] <= parts[r][p] /\ parts[r][p] <= now
                /\ \A q \in DOMAIN value : value[q] <= parts[r][p]
           /\ \A i \in DOMAIN fetches : fetches[i] + TTL <= arrived[r]
<1>1. /\ parts[r] \in Seq(0..MaxTime) /\ Len(parts[r]) = Calls
      /\ pc[r] = "fetching" /\ arrived[r] \in 0..MaxTime
  BY DEF IInv, TypeOK, Store
<1>2. parts[r] \in Weather /\ parts[r] # <<>>
  BY <1>1 DEF Weather
<1>3. \A p \in DOMAIN parts[r] :
          /\ arrived[r] <= parts[r][p] /\ parts[r][p] <= now
          /\ \A q \in DOMAIN value : value[q] <= parts[r][p]
  BY <1>1 DEF IInv, Timely
<1>4. \A i \in DOMAIN fetches : fetches[i] + TTL <= arrived[r]
  <2>1. fetches # <<>> => fetches[Len(fetches)] + TTL <= arrived[r]
    BY <1>1 DEF IInv, TypeOK, Holding, Cached, Fresh
  <2>2. fetches \in Seq(0..MaxTime)
    BY DEF IInv, TypeOK
  <2> SUFFICES ASSUME NEW i \in DOMAIN fetches
               PROVE  fetches[i] + TTL <= arrived[r]
    OBVIOUS
  <2>3. /\ Len(fetches) \in DOMAIN fetches /\ fetches # <<>>
        /\ i = Len(fetches) \/ i < Len(fetches)
    BY <2>2
  <2>4. i < Len(fetches) => fetches[i] + TTL <= fetches[Len(fetches)]
    BY <2>3 DEF IInv, OneFetchPerTTL
  <2>5. fetches[i] \in Nat /\ fetches[Len(fetches)] \in Nat
    BY <2>2, <2>3
  <2> QED
    BY <1>1, <2>1, <2>3, <2>4, <2>5
<1> QED
  BY <1>2, <1>3, <1>4

\* The new value expires a lifetime after its fetch began.
LEMMA StoreStep ==
    ASSUME IInv, NEW r \in Requests, Store(r)
    PROVE  IInv'
<1>1. /\ parts[r] \in Weather /\ parts[r] # <<>>
      /\ \A p \in DOMAIN parts[r] :
            arrived[r] <= parts[r][p] /\ parts[r][p] <= now /\ parts[r][p] \in Nat
      /\ arrived[r] \in 0..MaxTime
      /\ \A i \in DOMAIN fetches : fetches[i] + TTL <= arrived[r]
  BY StoredValue, RequestTyped DEF IInv
<1>2. /\ fetches' \in Seq(0..MaxTime) /\ fetches' # <<>>
      /\ Len(fetches') = Len(fetches) + 1
      /\ fetches'[Len(fetches')] = arrived[r]
      /\ \A i \in DOMAIN fetches' :
            i = Len(fetches') \/ (i \in DOMAIN fetches /\ fetches'[i] = fetches[i])
  <2>1. fetches \in Seq(0..MaxTime) /\ fetches' = Append(fetches, arrived[r])
    BY DEF IInv, TypeOK, Store
  <2> QED
    BY <1>1, <2>1, Appended
<1>3. TypeOK'
  <2>1. /\ answer' \in [Requests -> Weather \cup {<<>>}]
        /\ \A q \in Requests : pc'[q] = "ok" <=> answer'[q] # <<>>
    BY <1>1 DEF IInv, TypeOK, Store
  <2>2. expiresAt' \in 0..(MaxTime + TTL)
    BY <1>1 DEF Store, Expiry
  <2> QED
    BY <1>1, <1>2, <2>1, <2>2 DEF IInv, TypeOK, Store, Answered
<1>4. Holding'
  BY DEF IInv, TypeOK, Holding, Store, Fresh
<1>5. Timely'
  <2>1. \A q \in Requests : pc'[q] # "fetching"
    BY DEF IInv, TypeOK, Holding, Store
  <2> QED
    BY <1>1, <2>1 DEF IInv, TypeOK, Timely, Store
<1>6. Cached'
  BY <1>1, <1>2 DEF Cached, Store, Expiry, Weather
<1>7. OneFetchPerTTL'
  <2> SUFFICES ASSUME NEW i \in DOMAIN fetches', NEW j \in DOMAIN fetches', i < j
               PROVE  fetches'[i] + TTL <= fetches'[j]
    BY DEF OneFetchPerTTL
  <2>1. DOMAIN fetches' = 1..Len(fetches') /\ i # Len(fetches')
    BY <1>2
  <2>2. i \in DOMAIN fetches /\ fetches'[i] = fetches[i]
    BY <1>2, <2>1
  <2>3. CASE j = Len(fetches')
    BY <1>1, <1>2, <2>2, <2>3
  <2>4. CASE j # Len(fetches')
    BY <1>2, <2>2, <2>4 DEF IInv, OneFetchPerTTL
  <2> QED
    BY <2>3, <2>4
<1>8. AnswersFresh'
  BY <1>1 DEF IInv, TypeOK, AnswersFresh, Store
<1> QED
  BY <1>3, <1>4, <1>5, <1>6, <1>7, <1>8 DEF IInv

\* Time passes, and nothing else.
LEMMA TickStep ==
    ASSUME IInv, Tick
    PROVE  IInv'
<1>1. TypeOK' /\ Holding'
  BY DEF IInv, TypeOK, Holding, Tick, Fresh
<1>2. Timely'
  BY DEF IInv, TypeOK, Timely, Tick, Weather
<1>3. Cached' /\ OneFetchPerTTL' /\ AnswersFresh'
  BY DEF IInv, TypeOK, Cached, OneFetchPerTTL, AnswersFresh, Tick
<1> QED
  BY <1>1, <1>2, <1>3 DEF IInv

\* A step that changes nothing of the cache keeps the invariant.
LEMMA StutterStep ==
    ASSUME IInv, UNCHANGED vars
    PROVE  IInv'
  BY DEF IInv, vars, TypeOK, Holding, Timely, Cached, AnswersFresh,
         OneFetchPerTTL, Fresh

\* Every step of the cache keeps the invariant.
LEMMA NextInvariant == IInv /\ [Next]_vars => IInv'
<1> SUFFICES ASSUME IInv, [Next]_vars PROVE IInv'
  OBVIOUS
<1>1. ASSUME NEW r \in Requests, GetStored(r) \/ Arrive(r) \/ Step(r)
      PROVE  IInv'
  BY <1>1, OutsideStep, HitStep, MissStep, FetchPartStep, FetchFailsStep,
     StoreStep DEF Step
<1> QED
  BY <1>1, TickStep, StutterStep DEF Next

-----------------------------------------------------------------------------
(* The theorems.                                                           *)

\* Each program counter, the mutex, the clock and the cache fit together.
THEOREM InductiveInvariant == Spec => []IInv
  BY InitInvariant, NextInvariant, PTL DEF Spec

\* Every variable has its type in every reachable state.
THEOREM TypeCorrect == Spec => []TypeOK
<1>1. IInv => TypeOK
  BY DEF IInv
<1> QED
  BY <1>1, InductiveInvariant, PTL

\* No answer has a part that had been in the cache for the lifetime when the
\* request came, whatever it waited for (cache.go:36-52).
THEOREM AnswersAreFresh == Spec => []AnswersFresh
<1>1. IInv => AnswersFresh
  BY DEF IInv
<1> QED
  BY <1>1, InductiveInvariant, PTL

\* Fetches that succeed began a lifetime apart, at least (cache.go:42-51).
THEOREM FetchesAreRare == Spec => []OneFetchPerTTL
<1>1. IInv => OneFetchPerTTL
  BY DEF IInv
<1> QED
  BY <1>1, InductiveInvariant, PTL

\* A step replaces what is in the cache by nothing older.
LEMMA StepReplacesOlder ==
    IInv /\ [Next]_vars =>
        [value # <<>> => \A p \in DOMAIN value : value[p] <= value'[p]]_vars
<1> SUFFICES ASSUME IInv, Next, value # <<>>, NEW p \in DOMAIN value
             PROVE  value[p] <= value'[p]
  OBVIOUS
<1>1. value \in Weather /\ p \in 1..Calls /\ value[p] \in Nat
  BY ValueTyped DEF IInv
<1>2. ASSUME NEW r \in Requests, Store(r)
      PROVE  value[p] <= value'[p]
  <2>1. parts[r] \in Weather /\ value' = parts[r]
    BY <1>2, StoredValue DEF Store
  <2>2. p \in DOMAIN parts[r]
    BY <1>1, <2>1 DEF Weather
  <2> QED
    BY <1>2, <2>1, <2>2, StoredValue
<1>3. CASE UNCHANGED value
  BY <1>1, <1>3
<1> QED
  BY <1>2, <1>3 DEF Next, Step, GetStored, Arrive, Lock, Hit, Miss, FetchPart,
                    FetchFails, Tick

\* The cache never goes back to an older weather (cache.go:46-52).
THEOREM CacheMovesForward == Spec => NeverOlder
<1>1. Spec => [][Next]_vars
  BY DEF Spec
<1> QED
  BY <1>1, InductiveInvariant, StepReplacesOlder, PTL DEF NeverOlder

-----------------------------------------------------------------------------
(* The process.                                                            *)

\* The first step of the process and every later one is one of the cache, or
\* none.
LEMMA ProcessStep == [LifeNext]_allVars => [Next]_vars
<1> SUFFICES ASSUME [LifeNext]_allVars PROVE [Next]_vars
  OBVIOUS
<1>1. ASSUME NEW r \in Requests, Accept(r) \/ Serve(r)
      PROVE  Next
  BY <1>1 DEF Accept, Serve, Next
<1>2. CASE TimePasses
  BY <1>2 DEF TimePasses, Next
<1>3. CASE \/ Start \/ Refuse \/ Signal \/ ShutdownDone \/ ShutdownTimesOut
           \/ StartFails \/ ServerStops \/ Kill \/ Exited
  BY <1>3 DEF Start, Refuse, Signal, ShutdownDone, ShutdownTimesOut, StartFails,
              ServerStops, Kill, Exited, End, allVars
<1>4. CASE UNCHANGED allVars
  BY <1>4 DEF allVars
<1> QED
  BY <1>1, <1>2, <1>3, <1>4 DEF LifeNext

\* The process does to the cache what WeatherCache does.
THEOREM ProcessRefinesCache == LifeSpec => Spec
<1>1. Init0 => Init
  BY DEF Init0
<1>2. LifeSpec => Init0 /\ [][LifeNext]_allVars
  BY PTL DEF LifeSpec
<1> QED
  BY <1>1, <1>2, ProcessStep, PTL DEF Spec

\* In the process too: no expired answer, one fetch per lifetime, and nothing
\* in the cache that is replaced by something older (cache.go:36-52).
THEOREM ProcessAnswersFresh ==
    LifeSpec => [](TypeOK /\ AnswersFresh /\ OneFetchPerTTL) /\ NeverOlder
  BY ProcessRefinesCache, TypeCorrect, AnswersAreFresh, FetchesAreRare,
     CacheMovesForward, PTL

-----------------------------------------------------------------------------
(* The start.                                                              *)

\* What is not accepted is invalid, or is required and has no default.
LEMMA NotAccepted ==
    ASSUME NEW f \in Files, ~Accepted(f)
    PROVE  \/ \E k \in Settings : f[k] = "invalid"
           \/ \E k \in Required : f[k] # "valid"
<1>1. f \in [Settings -> {"absent", "blank", "valid", "invalid"}]
  <2>1. ASSUME NEW odd \in SUBSET Settings, f \in FilesWith(odd)
        PROVE  f \in [Settings -> {"absent", "blank", "valid", "invalid"}]
    <3>1. PICK how \in [odd -> {"absent", "blank", "invalid"}] :
              f = [k \in Settings |-> IF k \in odd THEN how[k] ELSE "valid"]
      BY <2>1 DEF FilesWith
    <3>2. QED
      BY <3>1
  <2>2. CASE f = [k \in Settings |-> "absent"]
    BY <2>2
  <2> DEFINE Few == {s \in SUBSET Settings : Cardinality(s) <= Unusual}
  <2>3. CASE f \in UNION {FilesWith(odd) : odd \in Few}
    <3>1. PICK files \in {FilesWith(odd) : odd \in Few} : f \in files
      BY <2>3
    <3>2. PICK odd \in Few : files = FilesWith(odd)
      BY <3>1
    <3>3. QED
      BY <2>1, <3>1, <3>2
  <2>4. QED
    BY <2>2, <2>3 DEF Files
<1>2. PICK k \in Settings :
          /\ Loaded(f)[k] # "valid"
          /\ (k = "provider" => Loaded(f)["provider"] # "manual")
  <2>1. StorageFiles \subseteq Settings \ {"provider"}
    BY DEF Settings, Defaulted, StorageFiles
  <2>2. {"provider"} \cup Ranges \cup Required \subseteq Settings
    BY DEF Settings, Defaulted
  <2> QED
    BY <2>1, <2>2 DEF Accepted
<1>3. Loaded(f)[k] = IF f[k] \in {"absent", "blank"} THEN Default(k) ELSE f[k]
  BY DEF Loaded
<1>4. CASE f[k] = "invalid"
  BY <1>4
<1>5. CASE f[k] \in {"absent", "blank"} /\ k \in Defaulted
  <2>1. k # "provider"
    BY <1>5 DEF Defaulted, StorageFiles, Ranges, Free
  <2>2. Default(k) = "valid"
    BY <1>5, <2>1 DEF Default
  <2> QED
    BY <1>2, <1>3, <1>5, <2>2
<1>6. CASE f[k] \in {"absent", "blank"} /\ k = "provider"
  <2>1. Default("provider") = "manual"
    <3>1. "provider" \notin Defaulted
      BY DEF Defaulted, StorageFiles, Ranges, Free
    <3> QED
      BY <3>1 DEF Default
  <2>2. Loaded(f)["provider"] = "manual"
    BY <1>3, <1>6, <2>1
  <2> QED
    BY <1>2, <1>6, <2>2
<1>7. CASE f[k] \in {"absent", "blank"} /\ k \in Required
  BY <1>7
<1>8. CASE f[k] = "valid"
  BY <1>2, <1>3, <1>8
<1>9. k = "provider" \/ k \in Defaulted \/ k \in Required
  BY <1>2 DEF Settings
<1>10. f[k] \in {"absent", "blank", "valid", "invalid"}
  BY <1>1, <1>2
<1> QED
  BY <1>4, <1>5, <1>6, <1>7, <1>8, <1>9, <1>10

\* Before the start setup is the file, and a refused one is never changed.
StartInv ==
    /\ stage \in {"starting", "serving", "draining", "exited"}
    /\ stage = "starting" => setup \in Files
    /\ stage # "exited" => status = "running"
    /\ RefusedForCause

\* Every step of the process keeps what is known of its start.
LEMMA StartInvStep == StartInv /\ [LifeNext]_allVars => StartInv'
<1> SUFFICES ASSUME StartInv, [LifeNext]_allVars PROVE StartInv'
  OBVIOUS
<1>1. CASE Start
  BY <1>1 DEF StartInv, Start, RefusedForCause
<1>2. CASE Refuse
  <2>1. setup' = setup /\ status' = "refused" /\ stage' = "exited" /\ setup \in Files
    BY <1>2 DEF Refuse, End, StartInv
  <2>2. \/ \E k \in Settings : setup[k] = "invalid"
        \/ \E k \in Required : setup[k] # "valid"
    BY <1>2, <2>1, NotAccepted DEF Refuse
  <2> QED
    BY <2>1, <2>2 DEF StartInv, RefusedForCause
<1>3. CASE \E r \in Requests : Accept(r) \/ Serve(r)
  BY <1>3 DEF Accept, Serve, processVars, StartInv, RefusedForCause
<1>4. CASE TimePasses \/ UNCHANGED allVars \/ Exited
  BY <1>4 DEF TimePasses, Exited, allVars, processVars, StartInv, RefusedForCause
<1>5. CASE Signal
  BY <1>5 DEF Signal, StartInv, RefusedForCause
<1>6. CASE ShutdownDone \/ ShutdownTimesOut \/ StartFails \/ ServerStops \/ Kill
  BY <1>6 DEF ShutdownDone, ShutdownTimesOut, StartFails, ServerStops, Kill, End,
              StartInv, RefusedForCause
<1> QED
  BY <1>1, <1>2, <1>3, <1>4, <1>5, <1>6 DEF LifeNext

\* For any number of settings that are missing or wrong: a start is refused
\* only for a setting that is wrong, or that has no default (config.go:100-132).
THEOREM RefusalsHaveCause == LifeSpec => []RefusedForCause
<1>1. Init0 => StartInv
  BY DEF Init0, StartInv, RefusedForCause
<1>2. StartInv => RefusedForCause
  BY DEF StartInv
<1>3. LifeSpec => Init0 /\ [][LifeNext]_allVars
  BY PTL DEF LifeSpec
<1> QED
  BY <1>1, <1>2, <1>3, StartInvStep, PTL
====
