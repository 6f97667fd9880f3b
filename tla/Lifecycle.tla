---- MODULE Lifecycle ----
(***************************************************************************)
(* The life of the process (main) around the requests for the weather      *)
(* (WeatherCache): reading the configuration and opening the files,        *)
(* serving, the shutdown after a signal, which waits for the requests      *)
(* under way and for no longer than its limit, and the ends that wait for  *)
(* nothing.                                                                *)
(***************************************************************************)
EXTENDS WeatherCache, FiniteSets

CONSTANTS Unusual       \* bound: settings that are not both given and valid

ASSUME UnusualAssumption == Unusual \in Nat

VARIABLES stage,        \* how far main is
          setup,        \* the configuration file, then what main made of it
          status        \* how the process ended

processVars == <<stage, setup, status>>
allVars == <<vars, processVars>>

StorageFiles == {"data_file", "telemetry_file"}
Ranges == {"hours", "days", "cache_ttl", "timeout"}
Required == {"api_host", "credential", "location"}
\* What the start takes as it is.
Free == {"addr", "lang", "unit"}
Defaulted == StorageFiles \cup Ranges \cup Free
Unchecked == {"credential", "location"} \cup Free
Settings == {"provider"} \cup Defaulted \cup Required

\* The files that have every setting as it should be, but for those in odd.
FilesWith(odd) ==
    {[k \in Settings |-> IF k \in odd THEN how[k] ELSE "valid"] :
        how \in {h \in [odd -> {"absent", "blank", "invalid"}] :
                    \A k \in odd \cap Unchecked : h[k] # "invalid"}}

\* A missing or blank file is one that gives no setting; "credential" stands for
\* api_key and bearer_token, of which one is enough, and api_token is no part of
\* the start.  A "valid" provider is qweather, an "invalid" storage file is one
\* that OpenFiles cannot open or read.
Files ==
    (UNION {FilesWith(odd) : odd \in {s \in SUBSET Settings : Cardinality(s) <= Unusual}})
        \cup {[k \in Settings |-> "absent"]}

-----------------------------------------------------------------------------
(* The start.                                                              *)

\* config.Default(): manual weather, and nothing for what qweather requires.
Default(k) ==
    CASE k = "provider" -> "manual"
      [] k \in Defaulted -> "valid"
      [] OTHER -> "blank"

\* Mutant: fillDefaults forgets a setting that only qweather reads.
LoadedWithoutTimeout(f) ==
    [k \in Settings |->
        IF f[k] = "absent" \/ (f[k] = "blank" /\ k # "timeout") THEN Default(k) ELSE f[k]]

\* Load: the file is decoded over the defaults, and fillDefaults puts them in
\* again for what the file has as an empty string.
Loaded(f) ==
    [k \in Settings |-> IF f[k] \in {"absent", "blank"} THEN Default(k) ELSE f[k]]

\* OpenFiles, NewWeatherProvider and NewQWeatherClient return no error.
Accepted(f) ==
    /\ \A k \in StorageFiles : Loaded(f)[k] = "valid"
    /\ \/ Loaded(f)["provider"] = "manual"
       \/ \A k \in {"provider"} \cup Ranges \cup Required : Loaded(f)[k] = "valid"

Init0 == Init /\ stage = "starting" /\ setup \in Files /\ status = "running"

End(how) ==
    /\ stage' = "exited"
    /\ status' = how
    /\ UNCHANGED <<vars, setup>>

Start ==
    /\ stage = "starting"
    /\ Accepted(setup)
    /\ stage' = "serving"
    /\ setup' = IF Loaded(setup)["provider"] = "manual" THEN "manual" ELSE "qweather"
    /\ UNCHANGED <<vars, status>>

\* One of them returns an error: os.Exit(1).
Refuse ==
    /\ stage = "starting"
    /\ ~Accepted(setup)
    /\ End("refused")

-----------------------------------------------------------------------------
(* Serving, and the end of it.                                             *)

\* While Shutdown waits, requests still come on connections opened before.
Accept(r) ==
    /\ stage \in {"serving", "draining"}
    /\ IF setup = "manual" THEN GetStored(r) ELSE Arrive(r)
    /\ UNCHANGED processVars

\* The handlers go on while Shutdown waits.
Serve(r) ==
    /\ stage \in {"serving", "draining"}
    /\ Step(r)
    /\ UNCHANGED processVars

TimePasses ==
    /\ stage \in {"serving", "draining"}
    /\ Tick
    /\ UNCHANGED processVars

\* SIGINT or SIGTERM: Shutdown closes the listener. A second one is not read.
Signal ==
    /\ stage = "serving"
    /\ stage' = "draining"
    /\ UNCHANGED <<vars, setup, status>>

UnderWay == {r \in Requests : pc[r] \notin {"idle"} \cup Answered}

\* No connection has a request under way: Shutdown returns nil, and main ends.
ShutdownDone ==
    /\ stage = "draining"
    /\ UnderWay = {}
    /\ End("ok")

\* The 10 seconds are over, whatever is under way: os.Exit(1).
ShutdownTimesOut ==
    /\ stage = "draining"
    /\ End("failed")

\* ensureEtc returns an error, or the reading of the configuration (a setting
\* that is not known, say), or OpenFiles.
StartFails == stage = "starting" /\ End("failed")

\* ListenAndServe returns another error than ErrServerClosed.
ServerStops == stage = "serving" /\ End("failed")

Kill == stage # "exited" /\ End("failed")

Exited == stage = "exited" /\ UNCHANGED allVars

LifeNext ==
    \/ Start \/ Refuse
    \/ \E r \in Requests : Accept(r) \/ Serve(r)
    \/ TimePasses
    \/ Signal \/ ShutdownDone \/ ShutdownTimesOut
    \/ StartFails \/ ServerStops \/ Kill
    \/ Exited

\* r waits for the service.
Calling(r) == pc[r] = "fetching" /\ Len(parts[r]) < Calls

\* A goroutine that can run does. A call to the service may hang, and nothing
\* is assumed about the limit of Shutdown. Requests are finitely many, so that
\* nobody overtakes a waiting one forever.
LifeSpec ==
    /\ Init0
    /\ [][LifeNext]_allVars
    /\ \A r \in Requests : WF_allVars(Serve(r) /\ ~Calling(r))
    /\ WF_allVars(ShutdownDone)

-----------------------------------------------------------------------------
(* Properties.                                                             *)

\* A setting that the file leaves out or leaves empty never stops the start, be
\* it of the storage or of the weather: the hub refuses a file only for what
\* stands in it, or for what qweather requires and has no default
\* (config.go:100-132, docs/weather.md:31-46).
RefusedForCause ==
    status = "refused" =>
        \/ \E k \in Settings : setup[k] = "invalid"
        \/ \E k \in Required : setup[k] # "valid"

\* While no call hangs, as the http.Client's timeout sees to unless it is set to
\* zero, every request is answered or the process ends: also behind fetches
\* that fail, and while it shuts down (cache.go:39-50).
EveryRequestAnswered ==
    (\A r \in Requests : []<>~Calling(r)) =>
        \A r \in Requests : pc[r] = "waiting" ~> (pc[r] \in Answered \/ stage = "exited")

\* While no call hangs, a shutdown ends without its limit: all requests under
\* way finish, those that come meanwhile and those behind fetches that fail
\* included. The limit is needed for calls that hang only (main.go:67-74).
DrainsWithoutLimit ==
    (\A r \in Requests : []<>~Calling(r)) => (stage = "draining" ~> stage = "exited")
====
