# TinyPanel Hub: specifications

TLA+ models of the hub in `src/`: a Go server that keeps todos, devices,
messages and telemetry for a few users and their small panels, and a web page
over its API. Each module is translated from the code; the documents in
`src/docs` are used for what the program promises, never for what it does.

    tlc -config TodoStore.cfg MCTodoStore      model-check one run
    tlapm TodoStoreProofs.tla                  check the proofs of one module

`PROJECT.json` lists the runs with their module and configuration, the lines of
code each definition stands for, the hazards and the findings.

## 1. The system

| Component | Code | State it keeps | Operations |
|---|---|---|---|
| State store | `store/store.go`, `store/state.go` | `stateFile.data`, `state.json`, `state.json.tmp`, one `RWMutex` | lock, change, `save`, unlock; `load` |
| Todos | `store/todos.go` and its handlers | `Todos`, `NextTodoID` | list, get, create, update and delete by compare-and-swap |
| Device registry | `store/devices.go` and its handlers | `Devices`: secret, owner, bind code and its expiry | hello, bind, rename, delete, authenticate |
| Device inbox | `store/messages.go` and its handlers | `Messages`, `NextMessageID` | send, pull, acknowledge, retention of the last 100 |
| Telemetry | `store/telemetry.go`, `store/telemetry_log.go` | `telemetry.jsonl`, `nextTelemetryID` | report, batch, list, `loadRecent` |
| Weather | `weather/cache.go`, `weather/qweather.go` | the last weather and its expiry, one mutex | `Current` |
| Snapshots | `httpapi/snapshot.go`, `service/snapshot.go` | none; the record that the middleware read | device and user snapshot |
| Authentication and users | `httpapi/middleware.go`, `httpapi/auth.go`, `store/users.go` | `Users`, the administrator's token | check token or device secret, create user |
| HTTP plumbing | `httpapi/router.go`, `request.go`, `response.go`, ... | none | routing, decoding, status codes |
| Process | `cmd/tinypanel-hub/main.go`, `app/app.go`, `config/config.go` | configuration | read the configuration, start, shut down within 10 s |
| Web page | `webui/dist/app.js` | lists and selection of the page, calls under way | buttons, `fetch` and what follows it |

**How they interact.** `net/http` runs each request in a goroutine. A handler
authenticates (one read under the store's lock), decodes, calls a service, which
calls one or two `FileStore` methods. A mutating method takes the write lock,
changes the data in place and rewrites `state.json` before it unlocks. All
components but telemetry share this file, so a save for one of them writes what
the others have in memory. Telemetry goes to a log of its own, appended under the
same lock and read without it. A snapshot waits for the weather, whose cache
holds its mutex during up to three calls to a service; a shutdown waits for all of
them. The page asks the hub for
lists after every change, and answers may overtake each other.

**What is hard in it.**

- `save` can fail after the change was made in memory; nothing undoes it.
  The client is told 500, every other client sees the change, and a restart
  forgets it. Most hazards in `PROJECT.json` start here.
- The process can be killed between any two steps of a save or an append.
- A reply can be lost: the client then does not know whether it was served. For
  the first hello of a device the reply holds the only copy of its secret.
- Versions, secrets, codes and ids are read in one request and used in a later
  one, with any number of changes and restarts between.
- One request reads twice: the ownership check before a message is stored, the
  device record before the weather, the owned devices before the log, the clock
  before the lock.
- A call to the weather service that is slow or hangs holds up every request for
  the weather behind it, and the shutdown.
- Limits: six-digit codes that are searched for under the lock, the last 100
  messages of all users, the last 500 lines of the log.

**What makes each component correct.** Store: an answered change survives, a
reader sees no unsaved one (but of failed saves), the file always loads, nobody
waits forever. Todos: compare-and-swap loses no update, ids are
not reused. Registry: a stored secret is accepted, a shown code binds that
device until it expires, ownership that was told lasts. Users: an owner exists,
a token signs in one user for ever. Inbox: in order, acked
only if shown, never again once acked, handled in the end. Telemetry: ids are
unique, a failure costs one report, lists are complete. Weather: never expired,
one fetch per lifetime, never replaced by an older one. Snapshots: what is
answered belonged to the asking device or user at some moment of the request.
Process: it refuses a configuration only for what stands in it, and a shutdown
needs its limit only for calls that hang. Page: the selection settles, what is acted on is shown, or was just bound.

## 2. Modules

| Module | Models | Atomic step |
|---|---|---|
| `StateFile` | `FileStore.mu`, `load` and `save`, and the requests around them | one file operation, lock, unlock or reply |
| `DurableState` | what the store promises: commit, or spill into memory | one request |
| `TodoStore` | todos, handlers and store methods | one method call, with its reply |
| `Accounts` | the list of users, sign-in by token, `CreateUser` | part of `DeviceRegistry`'s |
| `DeviceRegistry` | hello, bind, rename, delete, the clock; with `Accounts` | one method call, with its reply |
| `DeviceInbox` | messages | the same; sending a message in two steps |
| `TelemetryLog` | the log and `loadRecent` | one `Write` to the file |
| `WeatherCache` | `Cache.Current` over `QWeatherClient.Current`, the stored weather | lock, one call, store |
| `Lifecycle` | `main`, `config.Load`, `NewHandler` around `WeatherCache` | one step of `main`, or one of a request |
| `Sessions` | reads that use what an earlier step of the request read | one read |
| `WebPanel` | the devices' part of the page and what the hub answers it | one handler up to its `fetch`, or one answer |
| `StateFileProofs`, `TodoStoreProofs`, `DeviceRegistryProofs`, `DeviceInboxProofs`, `TelemetryLogProofs`, `LifecycleProofs`, `SessionsProofs`, `WebPanelProofs` | theorems about the module of that name (`LifecycleProofs`: and about `WeatherCache`) | |
| `MC...` | symmetry sets and the sizes of the telemetry batches | |

**How they fit together.** `StateFile` has the store's control at the grain of
file operations, with the data reduced to the set of requests applied to it.
It implements `DurableState` (checked and proved). `TodoStore`, `DeviceRegistry`
and `DeviceInbox` are written at the level of `DurableState`: the operators
`Commit` and `Spill` in each of them are its two ways for a request to take
effect, and `Crash` and `Restart` its `Stop` and `Start`. `Sessions` and
`DeviceInbox` carry a cut-down registry (who owns a device) whose steps are those
of `DeviceRegistry` with the secrets and codes removed. `DeviceRegistry` extends
`Accounts`: both lists are in `stateFile.data`, and its `Commit` saves both, as
`save` does, so that users and owners are lost and kept together. `Lifecycle`
extends `WeatherCache`: its requests are accepted, served and cut off by the
process. A setting of the configuration is absent, blank, valid or invalid. All
settings are there but `api_token`, which has no part in the start; `api_key` and
`bearer_token` are one, as either is enough. `WebPanel` carries an even
smaller one (the devices of one user), and of the token whether its field is empty.

**Correspondence.** Variables named `mem` and `disk` are parts of
`stateFile.data` and of `state.json`. An action has the name of the store method
it models, and the handler's checks before and reply after it are in it; a
handler that does nothing (404, 409, 401) is a guard that fails, unless the
refusal changes a request's progress. Replies that arrive change what the client
knows (`issued`, `acked`, `kept`, `promised`, `owned`, `shown`); a lost reply is
the disjunct that leaves these alone. Variables marked "history" exist only for
the properties. Names, texts and measurements are model values. Operators with a comment
"Mutant:" are plausible bugs, used to test that a property can fail; no
specification formula uses them.

## 3. Runs

Every bound is a constant in the `.cfg`, and stands as a guard in the action it
limits (never a state constraint, so that liveness is not distorted).

| Run | Specification | What it shows |
|---|---|---|
| `state_file` | `StateFile!FairSpec` | `AckedDurable`, `ReadsDurable`, `RestartLoads`, refinement of `DurableState`, `EveryRequestAnswered` |
| `todo_store` | `TodoStore!Spec` | versions identify content until a kill forgets a change that was shown; answered todos never regress; deletions are final |
| `todo_lost_update` | `TodoStore!Spec` | violation: an update is lost after a failed save and a kill |
| `device_registry` | `DeviceRegistry!Spec` | secrets, codes, tokens, ownership; owners are users; the hub is stuck only when all codes are held |
| `registry_lockout` | `DeviceRegistry!Spec` | violation: the first hello fails and the device can never get a secret |
| `device_inbox` | `DeviceInbox!FairSpec` | a well formed log, order, acknowledgement; pending messages are handled |
| `inbox_rebound` | `DeviceInbox!Spec` | violation: a device that another user has bound is handed a message of its former user |
| `telemetry_log` | `TelemetryLog!Spec` | unique ids, bounded loss, batches in order, complete lists |
| `telemetry_start` | `TelemetryLog!Spec` | violation: after one failed write the hub does not start |
| `weather_cache` | `Lifecycle!LifeSpec` | no expired answer, one fetch per lifetime, never older; no start refused for a setting left out; while no call hangs every request is answered and a shutdown ends without its limit |
| `sessions` | `Sessions!Spec` | snapshots of devices and of users, and lists, answer what belonged to the asker during the request |
| `web_panel` | `WebPanel!Spec` | the page settles, also after failed calls; actions go to the device it shows, or to the one just bound |

**Why the bounds are enough to be worth running.** For the safety properties the
runs are the first check, and the proofs of section 4, for all values of these
constants, the second. For liveness and the violations there is only the run.

- `state_file`: three writers let one hold the lock, one wait and one come after
  a failed save of the first; one fault and one kill give every order of the two.
- `todo_store`: two users; two ids, so that an id could be reused; two versions,
  so that one is superseded; a failed save before or after a kill. The lost
  update needs one user; it comes with a creation that is forgotten, whose id and
  version are given again, as with an update.
- `device_registry`: two devices and only two codes, so that the search for a
  code fails; the lifetime of a code is one tick and the clock reaches four, so
  codes expire and are replaced twice; a failed save and two kills let a
  forgotten record be created again. Two users and two tokens: two users get
  different tokens or the same one, in either order, and a creation fails, is
  forgotten and is repeated.
- `device_inbox`: the log keeps two messages, the device asks for one at a time
  and three are created: retention evicts pending ones, and a pull leaves some.
- `telemetry_log`: the log's window is three, lists are limited to two, and two
  batches of two items and two single reports are sent by two devices, so that
  both limits cut and other reports land inside a batch. The list a client gets
  is a set: ids increase along the log, so that its order says nothing more.
- `weather_cache`: two calls per weather of three (the third adds only length);
  lifetime of two ticks, clock up to three: expiry during a fetch and during a
  wait. Three requests: one fetches, one waits, one comes later, also while
  the process shuts down. Up to two settings are not both given and valid, which
  combines each with each; a file that gives none is there too.
- `sessions`: two devices, two users, two bindings: a device changes hands
  between the two reads of a request.
- `web_panel`: two clicks, each of which makes up to four calls, which are served
  and answered in any order; one failing call and one change in another browser;
  the page starts with or without a token, and to enter or remove it is a click.

**Deadlock** is checked, except in `device_registry` (and its violation run),
where `uniqueBindCode` really stops the hub, and in the two runs of the log,
where the hub may really not start again. `Quiescent` in `StateFile` is the hub
that waits for further requests, `Exited` in `Lifecycle` the process that ended.
In the others there is always something a client may do.

**Symmetry** is used only in runs without liveness.

**Fairness.** `StateFile`: each request that can take a step does
(goroutines are scheduled, file operations return); Go's mutex is fair to
waiters, and with finitely many requests weak fairness says no more than that.
`Lifecycle`: the same for every step of a request but a call to the service: its
timeout may be set to zero, so that a call may hang, and the two liveness
properties say in their premise that none does for ever. `Shutdown` returns once
no request is under way; nothing is assumed about its limit, which may
strike at any time, nor about signals, errors and kills.
`DeviceInbox`: a device polls and acknowledges what it was handed (the
documented use), and someone restarts the hub; without these nothing handles a
message. Nothing is assumed about users, other devices, faults or kills.

## 4. Proofs

All theorems hold for every value of the constants that satisfies the `ASSUME`s
of the module (model values are distinct; the bounds are naturals, so they
may be arbitrarily large).

**`StateFileProofs`.** The safety properties are not inductive: that an answered
change is on disk depends on what is in the temporary file when it is renamed.
`InductiveInvariant` says what each program counter implies: who is between
`locked` and the unlock holds the lock, nobody reads meanwhile, memory is the
file plus the spilled requests and the holder's own change, the temporary file
holds memory when it is about to be renamed, `state.json` is whole. From it
`AckedIsDurable`, `ReadsAreDurable`, `AlwaysLoads` and `TypeCorrect`. With it
`StateFileRefines` maps each step to one of `DurableState`: the rename is
`Commit`, the failing save is `Spill`, the reply after a rename `Acknowledge`,
the copy under the read lock `Observe`, all else a stutter. The mapping hides
from `vol` the change of a request whose save is under way; that nobody can read
it is the point of the lock, and the reason why `ReadsAreDurable` holds.

**`TodoStoreProofs`.** Three strengthenings. `Orderly`: in memory and on disk
ids are unique and below the next one. `KeepsAnswers`: an answered todo is in both,
in its version or a later one, or was deleted, and its id and those of answered
deletions are below both counters, so that no restart gives them out again; it
yields `AckedVersionsKept` and `DeletionIsFinal` through kills. `Views`: until a
change is forgotten, the stored todo of an id that was sent has a later version
or is the one sent; it yields `VersionsIdentify` and from it the action property
`NoUpdateIsLost`. `forgotten` becomes true when a restart loads something else
than what was in memory; the run `todo_lost_update` shows that the condition is
needed.

**`DeviceRegistryProofs`.** What the runs check speaks of a hub that serves. What
is inductive, `Sound(reg, list)`, is stated of memory and of `state.json` alike,
so that a restart, which makes one the other, keeps it: no two records have one
code and none with an owner has any, a record has no other secret than its
device stored, ownership and codes that were told are there, owners are in the
list of users, tokens lead to the user they signed in. A save that fails changes
only memory, and is told to nobody; a save that succeeds makes the two equal.
`StuckInv` says that a search that never ends has found all codes held; it stays
so because the stuck search keeps the lock. From this follow all the invariants
of the run, those about users included.

**`DeviceInboxProofs`.** Again one predicate for memory and disk: `Ordered` (ids
increase along the log, below the next one) and `AckedSettled` (an acknowledged
id is below both counters, and its message, if it is there, is acked). The two
properties about what a device was shown need `ShownKnown`: no stored message
has the id of another one that was pulled. It breaks when a kill loses a change,
because ids are then given again, and so these two hold until `forgotten`. A pull
answers the first pending messages (lemmas about places in the log), which is
why nothing is overtaken.

**`TelemetryLogProofs`.** `OpenLine` says what the last line is before it has its
line feed: the report of the one request that writes, or what a fault or a kill
left there. With it `IdsBelowNext` passes a restart, which reads only the last
lines, as ids increase. `LossCounted` counts the answered reports that are not
in the log, plus one if the open line will cost the next; a step changes this
sum by no more than the fault it adds. While nothing has failed (`Undisturbed`),
`InOrder` says that the lines of a request are, in their order, its stored items
and the one under way, and `ListsComplete` follows from counting places: a
report that a list leaves out has as many later ones of its device in the
window as the list may hold, or is not in the window.

**`LifecycleProofs`.** The clock is read before the cache's mutex is taken, so
that the properties need to know what happened between the two. `Holding`: who is
between lock and unlock holds the mutex, and who fetches has found the value
expired. `Timely`: what a request fetches it fetches after it came, and after all
that is in the cache was fetched. `Cached`: the value expires a lifetime after
the last successful fetch began, and no part of it is older than that fetch. From
them `AnswersAreFresh`, `FetchesAreRare` and `CacheMovesForward`.
`ProcessRefinesCache`: each step of the process is one of `WeatherCache` or
changes nothing of it, which carries these results over to the process
(`ProcessAnswersFresh`). `RefusalsHaveCause` needs that `setup` is one of the
files until the start and is left alone by a refusal.

**`SessionsProofs`.** `AnswersOfTheAsker` is about the end of a request. The
invariant follows it from its start: what a request should find now is among
what it should have found since it came, and so is what it keeps of what it
found. A device that changes hands adds to that history and takes nothing
from it.

**`WebPanelProofs`.** Answers come in any order, so the invariant is about the
calls under way. `Selection`: if the page did ask when it last meant to, a new
list is under way, or the selection is listed and shown, or the page has an error
or no device in place of the list. `Shown`: what a click would act on is shown as
selected, or is `bound`, the device bound last while no list has come since.
Neither needs an order of answers, or calls that succeed. They give
`SelectionIsShown` and the action property `ActsOnWhatIsShown`, whose only
exception is real: `bindDevice` selects the device and leaves the rest to a list,
which takes its time, may fail, or is not asked for if the token has been removed
(`app.js:141-144`). If the device is in the old list all the same (it was deleted
in another browser and is now bound again), rename, delete and send go to it while
the page shows another one. The run reaches this.
`PageCurrent`: the list that was asked for last brings what the hub has, unless a
bind or delete was served whose answer is still to come (a new list follows
it); and each box was asked last for the selected device. This does need that no
call overtakes one of its kind: `LastRemoved` says what the last call of a kind
is when a call is taken away.

**Only model-checked.** Liveness, which is out of the prover's reach:
`EveryRequestAnswered` in `StateFile` and in `Lifecycle`, `DrainsWithoutLimit`,
`PendingIsHandled`. Every other property of a passing run is a theorem. A
violation needs no proof, its counterexample is one. That `TodoStore`,
`DeviceRegistry` and `DeviceInbox` follow `DurableState` is the way they are written
(`Commit`, `Spill`); it is neither checked nor proved.

## 5. Findings

1. **A lost update** (`todo_lost_update`). A save fails; the new version stays in
   memory and is read. After a kill the same version number is given to
   another content, and a compare-and-swap of the first reader succeeds on it
   (`state.go:71`; `docs/todolist.md:5` promises otherwise).
   In the shortest trace that change is a creation, whose id is used again.
2. **A device locked out** (`registry_lockout`). When the save or the reply of the
   first hello fails, the record has a secret nobody knows: each further
   hello is 401, and an unbound record cannot be deleted (`devices.go:86`;
   `docs/auth.md:78`).
3. **Messages change hands** (`inbox_rebound`). `PendingDeviceMessages` filters by
   device alone and `DeleteDevice` keeps the messages, so that the device hands a
   message of its former user to the next (`messages.go:121`;
   `docs/重构计划.md:63`). It makes no difference whether the message was stored
   before the deletion or, its owner checked before, after it (`messages.go:24`).
4. **No start after a torn line** (`telemetry_start`). One append that failed
   halfway makes `loadRecent` fail for the whole file: lists are empty and the
   next start fails (`store.go:44`; `docs/telemetry.md:117`).

Seen while modelling and not run: a code that was used is answered 404, where
`docs/message.md:162` has 409; the second hello of an unbound device reports the
full lifetime of a code that expires sooner (`devices.go:162`); with a reused
message id a device acknowledges a message it was not shown (hence the condition in
`AckedWasShown`); a device's snapshot that waits for the weather still lists the
todos of the owner the middleware found (`snapshot.go:36`); a second user may be
given the token of the first, and is then never signed in by it (`users.go:14`);
with a timeout of `0s` one hanging call keeps all requests for the weather
waiting (`app.go:44`), and with the default of 5 s for each of three calls the 10 s
of `Shutdown` may end before a waiting request is served (`main.go:67`); the
page's boxes may show the data of a device selected before (hence `overtaken`);
between the answer to a bind and the next list the page may act on a device it
does not show (hence `bound`).

## 6. Not modelled

- A power failure: `save` does not sync, so a rename may survive without its
  data. It needs a model of the file system's write order.
- Files written by earlier versions, which `normalize` completes: what it gives
  `next_message_id` is below the ids in use once retention has evicted messages.
- Two hubs on one directory: nothing in the code handles it.
- HTTP plumbing: decoding, validation, status codes beyond those a client acts on,
  the limits of lists (`queryInt`), the administrator's token. Stateless.
- The inside of `http.Server.Shutdown`: `Lifecycle` takes from it that it returns
  nil when no request is under way. Durations: the 5 s and 10 s are orders of events.
- The parsing of the weather service's answers and the building of its requests.
- A user's own list of messages and the choice of parts in a snapshot: reads
  that change nothing and are not combined with other reads.
- Lines of 1 MiB in the log: the effect is that of a damaged line.
- In `Sessions` the saves of the registry do not fail; that they may is in
  `DeviceRegistry` and `DeviceInbox`. `Sessions` has no kill: a request that is
  cut off answers nothing.
- In the page: a change from the token of one user to that of another, or to one
  that is wrong; the weather, todos and snapshot boxes. The todo buttons send the
  id and version last read, as `TodoStore`'s clients do. These would add calls to a
  run that is already the largest.

## 7. Plan

Done: all stateful components, each with the proof of its type invariant and of
its safety and action properties; two refinements, proved. What is left:

1. The modules that share `state.json` against `DurableState`: a refinement in
   which `vol` and `dur` are the requests that memory and disk reflect.
2. The cut-down ownership in `Sessions` and `DeviceInbox` as an image of
   `DeviceRegistry`: each step of the registry maps to one of theirs or to none.
3. A power failure during a save, for which `StateFile` needs a model of what the
   file system orders.
