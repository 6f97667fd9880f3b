---- MODULE WebPanel ----
(***************************************************************************)
(* The web page (app.js), as far as it is about devices: the list of the   *)
(* user's devices, the selected one, and the two boxes with its messages   *)
(* and its telemetry.                                                      *)
(*                                                                         *)
(* A handler of the page runs up to its fetch, and goes on when the answer *)
(* is there; in between other handlers run, the hub serves calls in any    *)
(* order, and answers overtake each other.  The page asks for new lists    *)
(* after each change, unless the field of the user's token is empty by     *)
(* then.                                                                   *)
(***************************************************************************)
EXTENDS Naturals, Sequences, SequencesExt

CONSTANTS Devices,
          None,         \* no device is selected
          MaxClicks,    \* bound: what the user does
          MaxFailures,  \* bound: calls whose answer does not arrive
          MaxElsewhere  \* bound: devices bound or deleted in another browser

ASSUME NoneAssumption == None \notin Devices
ASSUME BoundsAssumption ==
    MaxClicks \in Nat /\ MaxFailures \in Nat /\ MaxElsewhere \in Nat

VARIABLES owned,        \* the hub: the devices of the user
          devices,      \* state.devices
          selected,     \* state.selectedDeviceID
          buttons,      \* the devices with a button in devicesList
          hero,         \* the device that updateHero showed
          token,        \* there is a token in the field of the user's token
          box,          \* box[b]: the device whose data b shows, or Error
          calls,        \* the calls under way, in the order of their start
          bound,        \* history: the device last bound, until a list arrives
          asked,        \* history: the last refreshDevices did ask for a list
          overtaken,    \* history: a call returned before an earlier one like it
          clicks, failures, elsewhere

vars == <<owned, devices, selected, buttons, hero, token, box, calls, bound,
          asked, overtaken, clicks, failures, elsewhere>>
page == <<devices, selected, buttons, hero, box, bound>>

Boxes == {"messages", "telemetry"}
Error == "error"
\* A call: its answer is none, ok or error, and the list it brings.  Without a
\* token all that the hub ever answers is 401.
To(kind, d) ==
    [kind |-> kind, device |-> d, answer |-> IF token THEN "none" ELSE "error", list |-> {}]

\* The call of refreshDevices, which returns at once without a token.
ListCalls == IF token THEN <<To("list", None)>> ELSE <<>>

\* selectedDevice().
SelectedDevice == IF selected \in devices THEN selected ELSE None

\* init: the selection is what localStorage had, and refreshDevices is called.
Init ==
    /\ owned \in SUBSET Devices
    /\ devices = {}
    /\ selected \in Devices \cup {None}
    /\ buttons = {}
    /\ hero = None
    /\ box = [b \in Boxes |-> None]
    /\ token \in BOOLEAN
    /\ calls = ListCalls
    /\ bound = None
    /\ asked = token
    /\ overtaken = FALSE
    /\ clicks = 0
    /\ failures = 0
    /\ elsewhere = 0

Refreshes(d) == <<To("messages", d), To("telemetry", d)>>

-----------------------------------------------------------------------------
(* The user's clicks.                                                      *)

Click ==
    /\ clicks < MaxClicks
    /\ clicks' = clicks + 1
    /\ UNCHANGED <<owned, overtaken, failures, elsewhere>>

\* The token is entered in its field, or removed.
EnterToken ==
    /\ Click
    /\ token' = ~token
    /\ UNCHANGED <<page, calls, asked>>

\* Mutant: the handler of the button does not call updateHero.
SelectWithoutHero(d) ==
    /\ d \in buttons
    /\ Click
    /\ selected' = d
    /\ buttons' = devices
    /\ calls' = calls \o Refreshes(d)
    /\ UNCHANGED <<devices, hero, token, box, bound, asked>>

\* The buttons of devicesList are those of state.devices when it was rendered.
SelectDevice(d) ==
    /\ d \in buttons
    /\ Click
    /\ selected' = d
    /\ buttons' = devices
    /\ hero' = d
    /\ calls' = calls \o Refreshes(d)
    /\ UNCHANGED <<devices, token, box, bound, asked>>

\* refreshDevices and bindDevice, which does not need a selection.
ListDevices ==
    /\ Click
    /\ calls' = calls \o ListCalls
    /\ asked' = token
    /\ UNCHANGED <<page, token>>

BindDevice(d) ==
    /\ Click
    /\ calls' = Append(calls, To("bind", d))
    /\ UNCHANGED <<page, token, asked>>

\* renameDevice, deleteDevice after its confirmation, and sendMessage.
ActOnSelected(kind) ==
    /\ SelectedDevice # None
    /\ Click
    /\ calls' = Append(calls, To(kind, SelectedDevice))
    /\ UNCHANGED <<page, token, asked>>

\* refreshMessages and refreshTelemetry: without a selection a hint is shown.
RefreshBox(b) ==
    /\ Click
    /\ IF SelectedDevice = None
       THEN box' = [box EXCEPT ![b] = None] /\ UNCHANGED calls
       ELSE calls' = Append(calls, To(b, SelectedDevice)) /\ UNCHANGED box
    /\ UNCHANGED <<devices, selected, buttons, hero, token, bound, asked>>

\* saveTokens, loadMe and createUser: the page shows the selection again.
UpdateHero ==
    /\ hero' = SelectedDevice
    /\ UNCHANGED <<owned, devices, selected, buttons, token, box, calls, bound,
                   asked, overtaken, clicks, failures, elsewhere>>

-----------------------------------------------------------------------------
(* The hub.                                                                *)

Answered(i, answer, list) ==
    calls' = [calls EXCEPT ![i].answer = answer, ![i].list = list]

\* Lists of devices and telemetry are answered with 200; the telemetry of a
\* device of another user is null, on which the page throws.  The rest is 404
\* for a device that is not the user's; a bind is refused if the code is wrong.
Serve(i) ==
    LET c == calls[i]
        mine == c.device \in owned
    IN  /\ c.answer = "none"
        /\ \/ c.kind = "list" /\ Answered(i, "ok", owned) /\ UNCHANGED owned
           \/ c.kind = "bind" /\ Answered(i, "error", {}) /\ UNCHANGED owned
           \/ /\ c.kind = "bind" /\ ~mine
              /\ Answered(i, "ok", {})
              /\ owned' = owned \cup {c.device}
           \/ /\ c.kind = "delete"
              /\ Answered(i, IF mine THEN "ok" ELSE "error", {})
              /\ owned' = owned \ {c.device}
           \/ /\ c.kind \in Boxes \cup {"rename", "send"}
              /\ Answered(i, IF mine THEN "ok" ELSE "error", {})
              /\ UNCHANGED owned
        /\ UNCHANGED <<page, token, asked, overtaken, clicks, failures, elsewhere>>

\* The call fails: it does not reach the hub, or its answer not the page.
CallFails(i) ==
    /\ failures < MaxFailures
    /\ failures' = failures + 1
    /\ calls[i].answer # "error"
    /\ Answered(i, "error", {})
    /\ UNCHANGED <<owned, page, token, asked, overtaken, clicks, elsewhere>>

\* The user binds or deletes a device in another browser.
ChangedElsewhere(d) ==
    /\ elsewhere < MaxElsewhere
    /\ elsewhere' = elsewhere + 1
    /\ owned' = IF d \in owned THEN owned \ {d} ELSE owned \cup {d}
    /\ UNCHANGED <<page, token, calls, asked, overtaken, clicks, failures>>

-----------------------------------------------------------------------------
(* The page goes on with an answer.                                        *)

\* The call is over, and the handler makes the next ones.
Return(i, next) ==
    /\ overtaken' = (overtaken \/ \E j \in 1..(i - 1) : calls[j].kind = calls[i].kind)
    /\ calls' = RemoveAt(calls, i) \o next
    /\ UNCHANGED <<owned, token, clicks, failures, elsewhere>>

\* The handler goes on with refreshDevices.
ReturnToList(i) ==
    /\ Return(i, ListCalls)
    /\ asked' = token

\* Mutant: a device that is no longer listed stays selected.
SelectionAsItWas(list) ==
    IF selected # None \/ list = {} THEN {selected} ELSE list

\* The selection stays if it is listed; else it is the first device, if any.
Selections(list) ==
    IF selected \in list THEN {selected} ELSE IF list = {} THEN {None} ELSE list

\* Mutant: the boxes are left as they are.
NothingToRefresh(d) == <<>>

\* What refreshDevices asks for when it has a selection.
RefreshesOf(d) == IF d = None THEN <<>> ELSE Refreshes(d)

ListArrives(i) ==
    /\ calls[i].kind = "list" /\ calls[i].answer = "ok"
    /\ devices' = calls[i].list
    /\ buttons' = calls[i].list
    /\ selected' \in Selections(calls[i].list)
    /\ hero' = IF selected' \in devices' THEN selected' ELSE None
    /\ bound' = None
    /\ Return(i, RefreshesOf(selected'))
    /\ UNCHANGED <<box, asked>>

\* The device is selected, and shown as such when the list has arrived.
BindArrives(i) ==
    /\ calls[i].kind = "bind" /\ calls[i].answer = "ok"
    /\ selected' = calls[i].device
    /\ bound' = calls[i].device
    /\ ReturnToList(i)
    /\ UNCHANGED <<devices, buttons, hero, box>>

DeleteArrives(i) ==
    /\ calls[i].kind = "delete" /\ calls[i].answer = "ok"
    /\ selected' = None
    /\ ReturnToList(i)
    /\ UNCHANGED <<devices, buttons, hero, box, bound>>

RenameArrives(i) ==
    /\ calls[i].kind = "rename" /\ calls[i].answer = "ok"
    /\ ReturnToList(i)
    /\ UNCHANGED page

\* The messages of the device that is selected by now are refreshed.
SendArrives(i) ==
    /\ calls[i].kind = "send" /\ calls[i].answer = "ok"
    /\ IF SelectedDevice = None
       THEN Return(i, <<>>) /\ box' = [box EXCEPT !["messages"] = None]
       ELSE Return(i, <<To("messages", SelectedDevice)>>) /\ UNCHANGED box
    /\ UNCHANGED <<devices, selected, buttons, hero, bound, asked>>

\* renderMessages, and the rendering of telemetry.
BoxArrives(i) ==
    /\ calls[i].kind \in Boxes /\ calls[i].answer = "ok"
    /\ box' = [box EXCEPT ![calls[i].kind] = calls[i].device]
    /\ Return(i, <<>>)
    /\ UNCHANGED <<devices, selected, buttons, hero, bound, asked>>

\* The catch of each handler: the error is shown in place of the list, or, for
\* a bind, beside it.
ErrorArrives(i) ==
    LET kind == calls[i].kind
    IN  /\ calls[i].answer = "error"
        /\ buttons' = IF kind \in {"list", "rename", "delete"} THEN {} ELSE buttons
        /\ box' = [b \in Boxes |->
                     IF kind = b \/ (kind = "send" /\ b = "messages") THEN Error ELSE box[b]]
        /\ Return(i, <<>>)
        /\ UNCHANGED <<devices, selected, hero, bound, asked>>

Next ==
    \/ \E d \in Devices : SelectDevice(d) \/ BindDevice(d) \/ ChangedElsewhere(d)
    \/ EnterToken \/ ListDevices \/ UpdateHero
    \/ \E kind \in {"rename", "delete", "send"} : ActOnSelected(kind)
    \/ \E b \in Boxes : RefreshBox(b)
    \/ \E i \in DOMAIN calls :
         \/ Serve(i) \/ CallFails(i)
         \/ ListArrives(i) \/ BindArrives(i) \/ DeleteArrives(i) \/ RenameArrives(i)
         \/ SendArrives(i) \/ BoxArrives(i) \/ ErrorArrives(i)

Spec == Init /\ [][Next]_vars

-----------------------------------------------------------------------------
(* Properties.                                                             *)

\* Every call has returned, and the last refreshDevices did ask for a list.
Settled == calls = <<>> /\ asked

\* When the page is settled, in whatever order the calls returned and whichever
\* failed, it shows the selected device as such and the device is one of its
\* list; else the page has an error or no device where the list is, and with no
\* failed call there is nothing to select (app.js:150-169).
SelectionSettles ==
    Settled =>
        \/ hero = selected /\ selected \in devices
        \/ /\ buttons = {}
           /\ failures = 0 => devices = {} /\ selected = None /\ hero = None

\* When the page is settled, no call has failed, no answer overtook one like it
\* and no device changed in another browser, the page shows the hub's devices,
\* and the boxes the data of the selected one or an error (app.js:143-163,
\* 187-197).
PageSettles ==
    Settled /\ failures = 0 /\ ~overtaken /\ elsewhere = 0 =>
        /\ devices = owned
        /\ \A b \in Boxes : selected # None => box[b] \in {selected, Error}

\* A device is renamed or deleted and a message is sent only to the device the
\* page shows as selected, or to the one that was bound last while no list has
\* arrived since: bindDevice selects it, and leaves showing it to the list.
\* Failed calls, lists under way and changes elsewhere make no further exception
\* (app.js:141-144, 201-236).
ActsOnShownDevice ==
    [][\A kind \in {"rename", "delete", "send"} :
         ActOnSelected(kind) => SelectedDevice \in {hero, bound}]_vars
====
