---- MODULE DurableState ----
(***************************************************************************)
(* What the hub's state store promises to the handlers that use it, with   *)
(* the lock, the temporary file and the rename left out.                   *)
(*                                                                         *)
(* The contents of the store are the set of the requests applied to it.    *)
(* A request takes effect in one step.  Either it is committed: it is      *)
(* visible and on disk at once, together with everything that was visible  *)
(* before it.  Or its save failed: it is spilled, i.e. visible to the      *)
(* other requests but not on disk, and the caller is told of an error.     *)
(* When the process stops, what was only visible is forgotten.             *)
(*                                                                         *)
(* StateFile implements this specification (theorem StateFileRefines of    *)
(* StateFileProofs), and the components that model what the store holds    *)
(* (TodoStore, DeviceRegistry, DeviceInbox) are written on top of it: each *)
(* of their operations commits or spills.                                  *)
(***************************************************************************)
CONSTANTS Writers,    \* requests that change the state
          Readers     \* requests that only read it

VARIABLES up,         \* the process is running
          vol,        \* what a request that runs now would see
          dur,        \* what a restart would load
          spilled,    \* requests that were visible although their save failed
          acked,      \* requests whose client was told of success
          saw         \* saw[r]: what reader r was shown

vars == <<up, vol, dur, spilled, acked, saw>>

Init ==
    /\ up = TRUE
    /\ vol = {}
    /\ dur = {}
    /\ spilled = {}
    /\ acked = {}
    /\ saw = [r \in Readers |-> {}]

Fresh(w) == w \notin dur \cup spilled

\* The request takes effect, and everything visible is on disk with it.
Commit(w) ==
    /\ up
    /\ Fresh(w)
    /\ vol' = vol \cup {w}
    /\ dur' = vol \cup {w}
    /\ UNCHANGED <<up, spilled, acked, saw>>

\* The request takes effect in memory alone.
Spill(w) ==
    /\ up
    /\ Fresh(w)
    /\ vol' = vol \cup {w}
    /\ spilled' = spilled \cup {w}
    /\ UNCHANGED <<up, dur, acked, saw>>

\* Only a committed request is acknowledged.
Acknowledge(w) ==
    /\ up
    /\ w \in dur \ spilled
    /\ acked' = acked \cup {w}
    /\ UNCHANGED <<up, vol, dur, spilled, saw>>

Observe(r) ==
    /\ up
    /\ saw' = [saw EXCEPT ![r] = vol]
    /\ UNCHANGED <<up, vol, dur, spilled, acked>>

Stop ==
    /\ up
    /\ up' = FALSE
    /\ vol' = {}
    /\ UNCHANGED <<dur, spilled, acked, saw>>

Start ==
    /\ ~up
    /\ up' = TRUE
    /\ vol' = dur
    /\ UNCHANGED <<dur, spilled, acked, saw>>

Next ==
    \/ \E w \in Writers : Commit(w) \/ Spill(w) \/ Acknowledge(w)
    \/ \E r \in Readers : Observe(r)
    \/ Stop
    \/ Start

Spec == Init /\ [][Next]_vars
====
