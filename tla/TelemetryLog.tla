---- MODULE TelemetryLog ----
(***************************************************************************)
(* Telemetry: devices report measurements, alone or in batches, and the    *)
(* store appends them to telemetry.jsonl, one line each; users list the    *)
(* recent ones.                                                            *)
(*                                                                         *)
(* An append is two writes, the JSON and the line feed, under the store's  *)
(* lock; a batch takes the lock for each of its items.  Either write can   *)
(* fail, the first one halfway, and the process can be killed between      *)
(* them.  Lists are read without the lock, so also between them.           *)
(***************************************************************************)
EXTENDS Naturals, Sequences, FiniteSets

CONSTANTS Requests,     \* POSTs of telemetry
          Devices,
          DeviceOf,     \* DeviceOf[r]: the device that sends r
          Size,         \* Size[r]: the items of r; a single report has one
          MaxTelemetry, \* maxTelemetry: the lines that loadRecent returns
          Limit,        \* the limit of a list
          Damaged,      \* a line that is not one JSON value
          MaxFaults,    \* bound: writes that fail
          MaxCrashes    \* bound: times the process is killed

ASSUME RequestsAssumption ==
    \A r \in Requests : DeviceOf[r] \in Devices /\ Size[r] \in Nat \ {0}
ASSUME SizesAssumption == MaxTelemetry \in Nat \ {0} /\ Limit \in Nat \ {0}
ASSUME BoundsAssumption == MaxFaults \in Nat /\ MaxCrashes \in Nat

Report == [id : Nat \ {0}, req : Requests, item : Nat \ {0}]
ASSUME DamagedAssumption == Damaged \notin Report

VARIABLES up,           \* the process is running
          log,          \* telemetry.jsonl: its lines, and whether the last one ended
          nextId,       \* nextTelemetryID
          pc,           \* pc[r]: how far request r is
          stored,       \* stored[r]: the items of r appended so far, as answered
          view,         \* view[d]: the list of d last read, and what was due in it
          faults, crashes

vars == <<up, log, nextId, pc, stored, view, faults, crashes>>

Elements(s) == {s[i] : i \in DOMAIN s}
WholeAt(file) == {i \in DOMAIN file.lines : file.lines[i] # Damaged}
Whole(file) == {file.lines[i] : i \in WholeAt(file)}
Readable(file) == \A i \in DOMAIN file.lines : file.lines[i] # Damaged

\* The reports that were answered with 201.
AckedReports == UNION {Elements(stored[r]) : r \in {q \in Requests : pc[q] = "ok"}}

Init ==
    /\ up = TRUE
    /\ log = [lines |-> <<>>, ended |-> TRUE]
    /\ nextId = 1
    /\ pc = [r \in Requests |-> "ready"]
    /\ stored = [r \in Requests |-> <<>>]
    /\ view = [d \in Devices |-> [items |-> {}, due |-> {}]]
    /\ faults = 0
    /\ crashes = 0

-----------------------------------------------------------------------------
(* Appending.                                                              *)

\* Bytes that are written after a line without its line feed continue it.
Written(file, line) ==
    IF file.ended
    THEN [lines |-> Append(file.lines, line), ended |-> FALSE]
    ELSE [file EXCEPT !.lines[Len(file.lines)] = Damaged]

LineEnded(file) == [file EXCEPT !.ended = TRUE]

\* The store's lock is held from the first write of an append to its end.
Unlocked == \A r \in Requests : pc[r] # "writing"

NextReport(r) == [id |-> nextId, req |-> r, item |-> Len(stored[r]) + 1]

\* AddTelemetry: the JSON of the next item of r.
WriteReport(r) ==
    /\ up
    /\ pc[r] = "ready"
    /\ Unlocked
    /\ log' = Written(log, NextReport(r))
    /\ pc' = [pc EXCEPT ![r] = "writing"]
    /\ UNCHANGED <<up, nextId, stored, view, faults, crashes>>

\* The file does not open, or takes only part of the JSON.
WriteReportFails(r) ==
    /\ up
    /\ pc[r] = "ready"
    /\ Unlocked
    /\ faults < MaxFaults
    /\ faults' = faults + 1
    /\ log' \in {log, Written(log, Damaged)}
    /\ pc' = [pc EXCEPT ![r] = "error"]
    /\ UNCHANGED <<up, nextId, stored, view, crashes>>

\* Mutant: the answer is sent when the first item is stored.
AfterOneItem(r) == "ok"

\* CreateBatch goes on to the next item, or the handler answers 201.
AfterItem(r) == IF Len(stored[r]) + 1 < Size[r] THEN "ready" ELSE "ok"

\* Mutant: the line feed is forgotten.
EndLineNever(r) ==
    /\ up
    /\ pc[r] = "writing"
    /\ nextId' = nextId + 1
    /\ stored' = [stored EXCEPT ![r] = Append(@, NextReport(r))]
    /\ pc' = [pc EXCEPT ![r] = AfterItem(r)]
    /\ UNCHANGED <<up, log, view, faults, crashes>>

\* The line feed, then the next id.
EndLine(r) ==
    /\ up
    /\ pc[r] = "writing"
    /\ log' = LineEnded(log)
    /\ nextId' = nextId + 1
    /\ stored' = [stored EXCEPT ![r] = Append(@, NextReport(r))]
    /\ pc' = [pc EXCEPT ![r] = AfterItem(r)]
    /\ UNCHANGED <<up, view, faults, crashes>>

\* The handler answers 500 for the whole batch; the items before stay.
EndLineFails(r) ==
    /\ up
    /\ pc[r] = "writing"
    /\ faults < MaxFaults
    /\ faults' = faults + 1
    /\ pc' = [pc EXCEPT ![r] = "error"]
    /\ UNCHANGED <<up, log, nextId, stored, view, crashes>>

-----------------------------------------------------------------------------
(* Reading.                                                                *)

\* loadRecent, when every line of the file parses: the places of the last ones.
RecentAt(file) == {i \in DOMAIN file.lines : Len(file.lines) < i + MaxTelemetry}
Recent(file) == {file.lines[i] : i \in RecentAt(file)}

\* The places of the recent reports of d.
ReportsAt(file, d) == {i \in RecentAt(file) : DeviceOf[file.lines[i].req] = d}

\* Mutant: the limit is applied to the lines of all devices.
ListedOfAll(file, d) ==
    IF Readable(file)
    THEN {file.lines[i] : i \in {j \in ReportsAt(file, d) : Len(file.lines) < j + Limit}}
    ELSE {}

\* DeviceTelemetry: the newest reports of the device, from the last one on until
\* there are as many as the limit. An error of loadRecent is an empty list.
ListedAt(file, d) ==
    {i \in ReportsAt(file, d) : Cardinality({j \in ReportsAt(file, d) : j > i}) < Limit}
Listed(file, d) ==
    IF Readable(file) THEN {file.lines[i] : i \in ListedAt(file, d)} ELSE {}

List(d) ==
    /\ up
    /\ view' = [view EXCEPT ![d] =
          [items |-> Listed(log, d),
           due |-> {x \in AckedReports : DeviceOf[x.req] = d}]]
    /\ UNCHANGED <<up, log, nextId, pc, stored, faults, crashes>>

-----------------------------------------------------------------------------
(* The process.                                                            *)

Crash ==
    /\ up
    /\ crashes < MaxCrashes
    /\ crashes' = crashes + 1
    /\ up' = FALSE
    /\ pc' = [r \in Requests |-> IF pc[r] \in {"ok", "error"} THEN pc[r]
                                 ELSE IF pc[r] = "ready" /\ stored[r] = <<>>
                                 THEN "ready" ELSE "lost"]
    /\ UNCHANGED <<log, nextId, stored, view, faults>>

\* Mutant: the id follows the number of lines that were loaded.
NextIdByCount(file) == Cardinality(RecentAt(file)) + 1

\* nextTelemetryID: the id after the largest that was loaded.
NextIdOf(file) ==
    CHOOSE n \in {1} \cup {x.id + 1 : x \in Recent(file)} : \A x \in Recent(file) : x.id < n

\* OpenFiles: a line that does not parse stops the start.
Restart ==
    /\ ~up
    /\ Readable(log)
    /\ up' = TRUE
    /\ nextId' = NextIdOf(log)
    /\ UNCHANGED <<log, pc, stored, view, faults, crashes>>

Next ==
    \/ \E r \in Requests :
         WriteReport(r) \/ WriteReportFails(r) \/ EndLine(r) \/ EndLineFails(r)
    \/ \E d \in Devices : List(d)
    \/ Crash
    \/ Restart

Spec == Init /\ [][Next]_vars

-----------------------------------------------------------------------------
(* Properties.                                                             *)

TypeOK ==
    /\ up \in BOOLEAN
    /\ log \in [lines : Seq(Report \cup {Damaged}), ended : BOOLEAN]
    /\ nextId \in Nat \ {0}
    /\ pc \in [Requests -> {"ready", "writing", "ok", "error", "lost"}]
    /\ stored \in [Requests -> Seq(Report)]
    /\ view \in [Devices -> [items : SUBSET Report, due : SUBSET Report]]
    /\ faults \in 0..MaxFaults
    /\ crashes \in 0..MaxCrashes

\* No two lines have the same id, and ids grow along the file, although an id
\* is used again after a failed append and the next one is worked out from the
\* last lines after a restart (telemetry.go:66-69, store.go:62-70).
IdsIncrease ==
    \A i, j \in WholeAt(log) : i < j => log.lines[i].id < log.lines[j].id

\* The file holds reports and damaged lines, and its ids are in order.
WellFormed == TypeOK /\ IdsIncrease

\* A failed write and a kill cost one answered report each, at most: the one
\* that is appended to the line they leave open (telemetry_log.go:71-81).
LossIsBounded ==
    Cardinality(AckedReports \ Whole(log)) <= faults + crashes

Undisturbed == faults = 0 /\ crashes = 0

\* While no write fails and nothing is killed: a batch is in the log up to some
\* item, in its order, and all of it when it was answered with 201, whatever
\* is appended between its items (service/telemetry.go:21-31).
BatchesInOrder ==
    Undisturbed => \A r \in Requests :
        LET items == {i \in WholeAt(log) : log.lines[i].req = r}
        IN  /\ \A i \in items : log.lines[i].item = Cardinality({j \in items : j <= i})
            /\ pc[r] = "ok" => Cardinality(items) = Size[r]
                               /\ {log.lines[i] : i \in items} = Elements(stored[r])

\* While no write fails and nothing is killed: a list has every report of the
\* device that was answered before, or as many newer ones as it may have, or
\* maxTelemetry newer ones of any device keep it from it, although the file is
\* read while others append to it (telemetry.go:21-50).
ListsComplete ==
    Undisturbed => \A d \in Devices : \A x \in view[d].due :
        \/ x \in view[d].items
        \/ Cardinality(view[d].items) = Limit
        \/ Cardinality({y \in Whole(log) : y.id > x.id}) >= MaxTelemetry

\* A claim of the documentation, that the code does not keep.

\* The hub reads the recent reports when it starts (telemetry.md:117), whatever
\* failed before: the file loads.
StartReadsLog == ~up => Readable(log)
====
