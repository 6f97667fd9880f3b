---- MODULE WebPanelProofs ----
(***************************************************************************)
(* Proofs about WebPanel, for any devices, number of clicks, failures and  *)
(* changes elsewhere: what the page shows when its calls have returned,    *)
(* and which device it acts on.                                            *)
(***************************************************************************)
EXTENDS WebPanel, TLAPS

Kinds == {"list", "bind", "rename", "delete", "send"} \cup Boxes
Call == [kind : Kinds, device : Devices \cup {None}, answer : {"none", "ok", "error"},
         list : SUBSET Devices]

Typed ==
    /\ owned \in SUBSET Devices
    /\ devices \in SUBSET Devices
    /\ selected \in Devices \cup {None}
    /\ buttons \in SUBSET devices
    /\ hero \in Devices \cup {None}
    /\ box \in [Boxes -> Devices \cup {None, Error}]
    /\ calls \in Seq(Call)
    /\ \A c \in Range(calls) : c.kind # "list" => c.device \in Devices
    /\ bound \in Devices \cup {None}
    /\ token \in BOOLEAN /\ asked \in BOOLEAN /\ overtaken \in BOOLEAN
    /\ clicks \in Nat /\ failures \in Nat /\ elsewhere \in Nat

\* A call of this kind is under way.
Calling(s, kind) == \E c \in Range(s) : c.kind = kind

\* The call of this kind that was made last, if any, is in S.
LastIn(s, kind, S) ==
    \A i \in DOMAIN s :
        s[i].kind = kind /\ (\A j \in DOMAIN s : j > i => s[j].kind # kind) => s[i] \in S

\* If the last refreshDevices did ask, a new list is under way, or the page shows
\* the selection, or an error or no device where the list is.
Selection ==
    /\ failures = 0 => \A c \in Range(calls) : c.kind = "list" => c.answer # "error"
    /\ asked => \/ Calling(calls, "list")
                \/ hero = selected /\ selected \in devices
                \/ /\ buttons = {}
                   /\ failures = 0 => devices = {} /\ selected = None /\ hero = None

\* What a click acts on is shown, or it was bound and no list has come since.
Shown == SelectedDevice \in {None, hero, bound}

\* The hub has bound or deleted a device, and the page does not know yet.
Changed(s) == \E c \in Range(s) : c.kind \in {"bind", "delete"} /\ c.answer = "ok"

\* What the last list brings, or has brought, is what the hub has.
Current(own) == {c \in Call : c.answer = "none" \/ c.list = own}
ListCurrent ==
    \/ Changed(calls)
    \/ /\ LastIn(calls, "list", Current(owned))
       /\ ~Calling(calls, "list") => devices = owned

\* What a box was asked for last is the selected device.
About(d) == {c \in Call : c.device = d}
BoxCurrent(b) ==
    \/ Calling(calls, "list")
    \/ selected = None
    \/ /\ LastIn(calls, b, About(selected))
       /\ ~Calling(calls, b) => box[b] \in {selected, Error}

PageCurrent ==
    asked /\ failures = 0 /\ ~overtaken /\ elsewhere = 0 => ListCurrent /\ \A b \in Boxes : BoxCurrent(b)

IInv == Typed /\ Selection /\ Shown /\ PageCurrent

-----------------------------------------------------------------------------
(* Sequences of calls: what adding calls, and taking one away, does to the *)
(* last call of a kind.                                                    *)

\* A sequence of calls, its places and its elements.
LEMMA Elements ==
    ASSUME NEW s \in Seq(Call)
    PROVE  /\ Len(s) \in Nat /\ DOMAIN s = 1..Len(s)
           /\ \A i \in 1..Len(s) : s[i] \in Call
           /\ Range(s) = {s[i] : i \in 1..Len(s)}
  BY DEF Range

\* The calls before and after the place where they meet.
LEMMA Joined ==
    ASSUME NEW s \in Seq(Call), NEW t \in Seq(Call), NEW r, r = s \o t
    PROVE  /\ r \in Seq(Call)
           /\ Len(r) = Len(s) + Len(t)
           /\ \A i \in 1..Len(s) : i \in 1..Len(r) /\ r[i] = s[i]
           /\ \A i \in 1..Len(t) : i + Len(s) \in 1..Len(r) /\ r[i + Len(s)] = t[i]
           /\ \A i \in 1..Len(r) : \/ i \in 1..Len(s)
                                   \/ i - Len(s) \in 1..Len(t) /\ r[i] = t[i - Len(s)]
<1>1. Len(s) \in Nat /\ Len(t) \in Nat
  BY Elements
<1> QED
  BY <1>1

\* The calls of two sequences are those of both.
LEMMA JoinedElements ==
    ASSUME NEW s \in Seq(Call), NEW t \in Seq(Call), NEW r, r = s \o t
    PROVE  Range(r) = Range(s) \cup Range(t)
<1>1. r \in Seq(Call) /\ Len(s) \in Nat /\ Len(t) \in Nat
  BY Joined, Elements
<1>2. /\ Range(r) = {r[i] : i \in 1..Len(r)}
      /\ Range(s) = {s[i] : i \in 1..Len(s)}
      /\ Range(t) = {t[i] : i \in 1..Len(t)}
  BY <1>1, Elements
<1>3. ASSUME NEW i \in 1..Len(r) PROVE r[i] \in Range(s) \cup Range(t)
  <2>1. CASE i \in 1..Len(s)
    BY <2>1, <1>2, Joined
  <2>2. CASE i - Len(s) \in 1..Len(t) /\ r[i] = t[i - Len(s)]
    BY <2>2, <1>2
  <2> QED
    BY <2>1, <2>2, Joined
<1>4. ASSUME NEW i \in 1..Len(s) PROVE s[i] \in Range(r)
  <2>1. i \in 1..Len(r) /\ r[i] = s[i]
    BY Joined
  <2> QED
    BY <1>2, <2>1
<1>5. ASSUME NEW i \in 1..Len(t) PROVE t[i] \in Range(r)
  <2>1. i + Len(s) \in 1..Len(r) /\ r[i + Len(s)] = t[i]
    BY Joined
  <2> QED
    BY <1>2, <2>1
<1>6. Range(r) \subseteq Range(s) \cup Range(t)
  BY <1>2, <1>3
<1>7. Range(s) \subseteq Range(r) /\ Range(t) \subseteq Range(r)
  BY <1>2, <1>4, <1>5
<1> QED
  BY <1>6, <1>7

\* Calls of other kinds do not matter; of this kind, the new ones do.
LEMMA LastJoined ==
    ASSUME NEW s \in Seq(Call), NEW t \in Seq(Call), NEW r, r = s \o t,
           NEW kind, NEW S,
           \/ LastIn(s, kind, S) /\ ~Calling(t, kind)
           \/ LastIn(t, kind, S) /\ Calling(t, kind)
    PROVE  LastIn(r, kind, S)
<1>1. r \in Seq(Call) /\ Len(s) \in Nat /\ Len(t) \in Nat /\ Len(r) \in Nat
  BY Joined, Elements
<1>2. /\ DOMAIN r = 1..Len(r) /\ DOMAIN s = 1..Len(s) /\ DOMAIN t = 1..Len(t)
      /\ Range(t) = {t[i] : i \in 1..Len(t)}
  BY <1>1, Elements
<1> SUFFICES ASSUME NEW i \in 1..Len(r), r[i].kind = kind,
                    \A j \in 1..Len(r) : j > i => r[j].kind # kind
             PROVE  r[i] \in S
  BY <1>2 DEF LastIn
<1>3. CASE Calling(t, kind)
  <2>1. PICK j \in 1..Len(t) : t[j].kind = kind
    BY <1>2, <1>3 DEF Calling
  <2>2. LastIn(t, kind, S)
    BY <1>3
  <2>3. ~(j + Len(s) > i)
    BY <2>1, Joined
  <2>4. i \notin 1..Len(s)
    BY <2>1, <2>3, <1>1
  <2>5. i - Len(s) \in 1..Len(t) /\ r[i] = t[i - Len(s)]
    BY <2>4, Joined
  <2>6. ASSUME NEW m \in 1..Len(t), m > i - Len(s) PROVE t[m].kind # kind
    <3>1. m + Len(s) \in 1..Len(r) /\ r[m + Len(s)] = t[m]
      BY Joined
    <3>2. m + Len(s) > i
      BY <2>6, <1>1
    <3> QED
      BY <3>1, <3>2
  <2> QED
    BY <1>2, <2>2, <2>5, <2>6 DEF LastIn
<1>4. CASE ~Calling(t, kind)
  <2>1. LastIn(s, kind, S)
    BY <1>4
  <2>2. ASSUME i - Len(s) \in 1..Len(t), r[i] = t[i - Len(s)] PROVE FALSE
    BY <2>2, <1>2, <1>4 DEF Calling
  <2>3. i \in 1..Len(s) /\ r[i] = s[i]
    BY <2>2, Joined
  <2>4. ASSUME NEW j \in 1..Len(s), j > i PROVE s[j].kind # kind
    <3>1. j \in 1..Len(r) /\ r[j] = s[j]
      BY Joined
    <3> QED
      BY <2>4, <3>1
  <2> QED
    BY <1>2, <2>1, <2>3, <2>4 DEF LastIn
<1> QED
  BY <1>3, <1>4

\* The calls without the one at place i.
LEMMA Removed ==
    ASSUME NEW s \in Seq(Call), NEW i \in 1..Len(s), NEW r, r = RemoveAt(s, i)
    PROVE  /\ r \in Seq(Call)
           /\ Len(r) = Len(s) - 1
           /\ \A j \in 1..Len(r) : j < i => r[j] = s[j]
           /\ \A j \in 1..Len(r) : j >= i => r[j] = s[j + 1]
           /\ \A j \in 1..Len(s) : j > i => j - 1 \in 1..Len(r) /\ r[j - 1] = s[j]
<1> DEFINE a == SubSeq(s, 1, i - 1)
           b == SubSeq(s, i + 1, Len(s))
<1>1. Len(s) \in Nat /\ i \in Nat /\ i >= 1 /\ i <= Len(s)
  BY Elements
<1>2. a \in Seq(Call) /\ Len(a) = i - 1 /\ \A j \in 1..(i - 1) : a[j] = s[j]
  BY <1>1
<1>3. b \in Seq(Call) /\ Len(b) = Len(s) - i /\ \A j \in 1..(Len(s) - i) : b[j] = s[j + i]
  BY <1>1
<1>4. r = a \o b
  BY DEF RemoveAt
<1> HIDE DEF a, b
<1>5. /\ r \in Seq(Call) /\ Len(r) = Len(a) + Len(b)
      /\ \A j \in 1..Len(a) : j \in 1..Len(r) /\ r[j] = a[j]
      /\ \A j \in 1..Len(b) : j + Len(a) \in 1..Len(r) /\ r[j + Len(a)] = b[j]
  <2>1. a \in Seq(Call) /\ b \in Seq(Call)
    BY <1>2, <1>3
  <2> QED
    BY ONLY <1>4, <2>1, Joined
<1>6. Len(r) = Len(s) - 1
  BY <1>1, <1>2, <1>3, <1>5
<1>7. ASSUME NEW j \in 1..Len(r), j < i PROVE r[j] = s[j]
  <2>1. j \in 1..(i - 1)
    BY <1>1, <1>6, <1>7
  <2> QED
    BY <1>2, <1>5, <2>1
<1>8. ASSUME NEW j \in 1..Len(r), j >= i PROVE r[j] = s[j + 1]
  <2> DEFINE m == j - (i - 1)
  <2>1. m \in 1..(Len(s) - i) /\ m + Len(a) = j /\ m + i = j + 1
    BY <1>1, <1>2, <1>6, <1>8
  <2> HIDE DEF m
  <2>2. r[m + Len(a)] = b[m] /\ b[m] = s[m + i]
    BY <1>3, <1>5, <2>1
  <2> QED
    BY <2>1, <2>2
<1>9. ASSUME NEW j \in 1..Len(s), j > i PROVE j - 1 \in 1..Len(r) /\ r[j - 1] = s[j]
  <2> DEFINE m == j - 1
  <2>1. m \in 1..Len(r) /\ m >= i /\ m + 1 = j
    BY <1>1, <1>6, <1>9
  <2> HIDE DEF m
  <2>2. r[m] = s[m + 1]
    BY <1>8, <2>1
  <2>3. r[m] = s[j]
    BY <2>1, <2>2
  <2> QED
    BY <2>1, <2>3 DEF m
<1> QED
  BY <1>5, <1>6, <1>7, <1>8, <1>9

\* Only the call that is taken away is missing.
LEMMA RemovedElements ==
    ASSUME NEW s \in Seq(Call), NEW i \in 1..Len(s), NEW r, r = RemoveAt(s, i)
    PROVE  Range(r) \subseteq Range(s) /\ Range(s) \subseteq Range(r) \cup {s[i]}
<1>1. r \in Seq(Call) /\ Len(s) \in Nat /\ Len(r) = Len(s) - 1
  BY Removed, Elements
<1>2. /\ Range(r) = {r[j] : j \in 1..Len(r)}
      /\ Range(s) = {s[j] : j \in 1..Len(s)}
  BY <1>1, Elements
<1>3. ASSUME NEW j \in 1..Len(r) PROVE r[j] \in Range(s)
  <2>1. j \in 1..Len(s) /\ j + 1 \in 1..Len(s)
    BY <1>1
  <2>2. r[j] = s[j] \/ r[j] = s[j + 1]
    BY <1>1, Removed
  <2> QED
    BY <1>2, <2>1, <2>2
<1>4. ASSUME NEW j \in 1..Len(s), j # i PROVE s[j] \in Range(r)
  <2>1. CASE j < i
    <3>1. j \in 1..Len(r)
      BY <1>1, <2>1
    <3> QED
      BY <1>2, <2>1, <3>1, Removed
  <2>2. CASE j > i
    <3>1. j - 1 \in 1..Len(r) /\ r[j - 1] = s[j]
      BY <2>2, Removed
    <3> QED
      BY <1>2, <3>1
  <2> QED
    BY <1>1, <1>4, <2>1, <2>2
<1> QED
  BY <1>2, <1>3, <1>4

\* Unless the call overtook one of its kind, the last call is what it was.
LEMMA LastRemoved ==
    ASSUME NEW s \in Seq(Call), NEW i \in 1..Len(s), NEW r, r = RemoveAt(s, i),
           NEW kind, NEW S, LastIn(s, kind, S),
           s[i].kind = kind => \A j \in 1..(i - 1) : s[j].kind # kind
    PROVE  LastIn(r, kind, S) /\ (s[i].kind = kind /\ ~Calling(r, kind) => s[i] \in S)
<1>1. r \in Seq(Call) /\ Len(s) \in Nat /\ Len(r) = Len(s) - 1
  BY Removed, Elements
<1>2. /\ Range(r) = {r[j] : j \in 1..Len(r)}
      /\ DOMAIN s = 1..Len(s) /\ DOMAIN r = 1..Len(r)
  BY <1>1, Elements
<1>3. ASSUME NEW m \in 1..Len(r), r[m].kind = kind,
             \A j \in 1..Len(r) : j > m => r[j].kind # kind
      PROVE  r[m] \in S
  <2>1. CASE m < i
    <3>1. r[m] = s[m] /\ m \in 1..Len(s) /\ m \in 1..(i - 1)
      BY <1>1, <2>1, Removed
    <3>2. s[i].kind # kind
      BY <1>3, <3>1
    <3>3. ASSUME NEW j \in 1..Len(s), j > m PROVE s[j].kind # kind
      <4>1. CASE j < i
        <5>1. j \in 1..Len(r)
          BY <1>1, <4>1
        <5>2. r[j] = s[j]
          BY <4>1, <5>1, Removed
        <5> QED
          BY <1>3, <3>3, <5>1, <5>2
      <4>2. CASE j > i
        <5>1. j - 1 \in 1..Len(r) /\ r[j - 1] = s[j]
          BY <4>2, Removed
        <5>2. j - 1 > m
          BY <1>1, <2>1, <4>2
        <5> QED
          BY <1>3, <5>1, <5>2
      <4>3. CASE j = i
        BY <3>2, <4>3
      <4> QED
        BY <1>1, <4>1, <4>2, <4>3
    <3> QED
      BY <1>2, <1>3, <3>1, <3>3 DEF LastIn
  <2>2. CASE m >= i
    <3>1. r[m] = s[m + 1] /\ m + 1 \in 1..Len(s)
      BY <1>1, <2>2, Removed
    <3>2. ASSUME NEW j \in 1..Len(s), j > m + 1 PROVE s[j].kind # kind
      <4>1. j > i /\ j - 1 > m
        BY <1>1, <2>2, <3>2
      <4>2. j - 1 \in 1..Len(r) /\ r[j - 1] = s[j]
        BY <4>1, Removed
      <4> QED
        BY <1>3, <4>1, <4>2
    <3> QED
      BY <1>2, <1>3, <3>1, <3>2 DEF LastIn
  <2> QED
    BY <1>1, <2>1, <2>2
<1>4. ASSUME s[i].kind = kind, ~Calling(r, kind) PROVE s[i] \in S
  <2>1. ASSUME NEW j \in 1..Len(s), j > i PROVE s[j].kind # kind
    <3>1. j - 1 \in 1..Len(r) /\ r[j - 1] = s[j]
      BY <2>1, Removed
    <3>2. s[j] \in Range(r)
      BY <1>2, <3>1
    <3> QED
      BY <1>4, <3>2 DEF Calling
  <2> QED
    BY <1>2, <1>4, <2>1 DEF LastIn
<1> QED
  BY <1>2, <1>3, <1>4 DEF LastIn

-----------------------------------------------------------------------------
(* The calls that the handlers make.                                       *)

\* If every call of a kind is in S, the last one is.
LEMMA AllIn ==
    ASSUME NEW s \in Seq(Call), NEW kind, NEW S,
           \A c \in Range(s) : c.kind = kind => c \in S
    PROVE  LastIn(s, kind, S)
  BY Elements DEF LastIn

\* No call at all.
LEMMA NoCall ==
    /\ <<>> \in Seq(Call)
    /\ Range(<<>>) = {}
    /\ \A kind : ~Calling(<<>>, kind)
  BY DEF Range, Calling

\* refreshDevices asks for a list, or, without a token, for nothing.
LEMMA ListCall ==
    ASSUME NEW t, t = ListCalls
    PROVE  /\ t \in Seq(Call)
           /\ \A c \in Range(t) : c.kind = "list" /\ c.answer = "none" /\ token
           /\ token => Calling(t, "list")
<1> DEFINE c == To("list", None)
<1>1. CASE token
  <2>1. c \in Call /\ c.kind = "list" /\ c.answer = "none"
    BY <1>1 DEF To, Call, Kinds
  <2>2. t = <<c>>
    BY <1>1 DEF ListCalls
  <2> HIDE DEF c
  <2>3. t \in Seq(Call) /\ Len(t) = 1 /\ t[1] = c
    BY <2>1, <2>2
  <2>4. Range(t) = {c}
    <3>1. Range(t) = {t[j] : j \in 1..1}
      BY <2>3, Elements
    <3> QED
      BY <2>3, <3>1
  <2> QED
    BY <1>1, <2>1, <2>3, <2>4 DEF Calling
<1>2. CASE ~token
  <2>1. t = <<>>
    BY <1>2 DEF ListCalls
  <2> QED
    BY <1>2, <2>1, NoCall
<1> QED
  BY <1>1, <1>2

\* A call about a device.
LEMMA DeviceCall ==
    ASSUME NEW kind \in Kinds, NEW d \in Devices, NEW t, t = <<To(kind, d)>>
    PROVE  /\ t \in Seq(Call)
           /\ Range(t) = {To(kind, d)}
           /\ \A c \in Range(t) : c.kind = kind /\ c.device = d
<1>1. To(kind, d) \in Call
  BY DEF To, Call
<1>2. t \in Seq(Call) /\ Len(t) = 1 /\ t[1] = To(kind, d)
  BY <1>1
<1>3. Range(t) = {To(kind, d)}
  <2>1. Range(t) = {t[j] : j \in 1..1}
    BY <1>2, Elements
  <2> QED
    BY <1>2, <2>1
<1>4. To(kind, d).kind = kind /\ To(kind, d).device = d
  BY DEF To
<1> QED
  BY <1>2, <1>3, <1>4

\* The boxes are asked for together, for one device.
LEMMA RefreshCalls ==
    ASSUME NEW d \in Devices, NEW t, t = Refreshes(d)
    PROVE  /\ t \in Seq(Call)
           /\ \A c \in Range(t) : c.kind \in Boxes /\ c.device = d
           /\ \A b \in Boxes : Calling(t, b)
           /\ ~Calling(t, "list")
<1> DEFINE m == To("messages", d)
           n == To("telemetry", d)
<1>1. m \in Call /\ n \in Call
  BY DEF To, Call, Kinds, Boxes
<1>2. m.kind = "messages" /\ m.device = d /\ n.kind = "telemetry" /\ n.device = d
  BY DEF To
<1>3. t = <<m, n>>
  BY DEF Refreshes
<1> HIDE DEF m, n
<1>4. t \in Seq(Call) /\ Len(t) = 2 /\ t[1] = m /\ t[2] = n
  BY <1>1, <1>3
<1>5. Range(t) = {m, n}
  <2>1. Range(t) = {t[j] : j \in 1..2}
    BY <1>4, Elements
  <2> QED
    BY <1>4, <2>1
<1> QED
  BY <1>2, <1>4, <1>5 DEF Calling, Boxes

\* A handler goes on with an answer, and makes further calls.
LEMMA Returned ==
    ASSUME Typed, NEW i \in DOMAIN calls, NEW next \in Seq(Call), Return(i, next)
    PROVE  /\ calls' \in Seq(Call)
           /\ calls[i] \in Range(calls)
           /\ calls[i] \in Call
           /\ Range(next) \subseteq Range(calls')
           /\ Range(calls') \subseteq Range(calls) \cup Range(next)
           /\ Range(calls) \subseteq Range(calls') \cup {calls[i]}
           /\ overtaken' \in BOOLEAN
           /\ ~overtaken' => ~overtaken
           /\ UNCHANGED <<owned, token, clicks, failures, elsewhere>>
<1> DEFINE s == calls
           r == RemoveAt(s, i)
<1>1. s \in Seq(Call) /\ i \in 1..Len(s)
  BY Elements DEF Typed
<1>2. s[i] \in Call /\ s[i] \in Range(s)
  BY <1>1, Elements
<1>3. /\ r \in Seq(Call)
      /\ Range(r) \subseteq Range(s) /\ Range(s) \subseteq Range(r) \cup {s[i]}
  BY ONLY <1>1, Removed, RemovedElements
<1>4. calls' = r \o next
  BY DEF Return
<1> HIDE DEF r
<1>5. calls' \in Seq(Call) /\ Range(calls') = Range(r) \cup Range(next)
  BY ONLY <1>3, <1>4, next \in Seq(Call), Joined, JoinedElements
<1>6. overtaken' \in BOOLEAN /\ (~overtaken' => ~overtaken)
  BY DEF Return, Typed
<1>7. UNCHANGED <<owned, token, clicks, failures, elsewhere>>
  BY DEF Return
<1> QED
  BY <1>2, <1>3, <1>5, <1>6, <1>7

\* The last call of a kind is what it was, or the call that returned was it.
LEMMA LastReturned ==
    ASSUME Typed, NEW i \in DOMAIN calls, NEW next \in Seq(Call), Return(i, next),
           ~overtaken', NEW kind, NEW S, LastIn(calls, kind, S),
           \A c \in Range(next) : c.kind = kind => c \in S
    PROVE  LastIn(calls', kind, S)
           /\ (calls[i].kind = kind /\ ~Calling(calls', kind) => calls[i] \in S)
<1> DEFINE s == calls
           r == RemoveAt(s, i)
<1>1. s \in Seq(Call) /\ i \in 1..Len(s)
  BY Elements DEF Typed
<1>2. s[i].kind = kind => \A j \in 1..(i - 1) : s[j].kind # kind
  BY DEF Return
<1>3. LastIn(r, kind, S) /\ (s[i].kind = kind /\ ~Calling(r, kind) => s[i] \in S)
  BY ONLY <1>1, <1>2, LastIn(s, kind, S), LastRemoved
<1>4. r \in Seq(Call)
  BY ONLY <1>1, Removed
<1>5. calls' = r \o next
  BY DEF Return
<1> HIDE DEF r
<1>6. Range(calls') = Range(r) \cup Range(next)
  BY ONLY <1>4, <1>5, next \in Seq(Call), JoinedElements
<1>7. LastIn(next, kind, S)
  BY AllIn
<1>8. LastIn(calls', kind, S)
  BY <1>3, <1>4, <1>5, <1>7, LastJoined
<1>9. Calling(r, kind) => Calling(calls', kind)
  BY <1>6 DEF Calling
<1> QED
  BY <1>3, <1>8, <1>9

\* A new list is asked for last: it will be the hub's, and the boxes follow.
LEMMA ListAsked ==
    ASSUME token, NEW s \in Seq(Call), calls' = s \o ListCalls
    PROVE  Calling(calls', "list") /\ ListCurrent' /\ \A b \in Boxes : BoxCurrent(b)'
<1> DEFINE t == ListCalls
<1>1. /\ t \in Seq(Call)
      /\ \A c \in Range(t) : c.kind = "list" /\ c.answer = "none"
      /\ Calling(t, "list")
  BY ListCall
<1>2. calls' = s \o t
  OBVIOUS
<1> HIDE DEF t
<1>3. Range(calls') = Range(s) \cup Range(t)
  BY ONLY <1>1, <1>2, s \in Seq(Call), JoinedElements
<1>4. Calling(calls', "list")
  BY <1>1, <1>3 DEF Calling
<1>5. \A c \in Range(t) : c \in Call
  BY <1>1, Elements
<1>6. LastIn(t, "list", Current(owned'))
  BY <1>1, <1>5, AllIn DEF Current
<1>7. LastIn(calls', "list", Current(owned'))
  BY <1>1, <1>2, <1>6, LastJoined
<1>8. ListCurrent'
  BY <1>4, <1>7 DEF ListCurrent
<1>9. \A b \in Boxes : BoxCurrent(b)'
  BY <1>4 DEF BoxCurrent
<1> QED
  BY <1>4, <1>8, <1>9

-----------------------------------------------------------------------------
(* What a step leaves as it was.                                           *)

\* Calls about devices are added.
LEMMA ListKept ==
    ASSUME Typed, ListCurrent, NEW next \in Seq(Call), calls' = calls \o next,
           \A c \in Range(next) : c.kind # "list", UNCHANGED <<owned, devices>>
    PROVE  ListCurrent'
<1>1. calls \in Seq(Call)
  BY DEF Typed
<1>2. Range(calls') = Range(calls) \cup Range(next)
  BY <1>1, JoinedElements
<1>3. CASE Changed(calls)
  <2>1. Changed(calls')
    BY <1>2, <1>3 DEF Changed
  <2> QED
    BY <2>1 DEF ListCurrent
<1>4. CASE LastIn(calls, "list", Current(owned)) /\ (~Calling(calls, "list") => devices = owned)
  <2>1. ~Calling(next, "list")
    BY DEF Calling
  <2>2. LastIn(calls', "list", Current(owned))
    BY <1>1, <1>4, <2>1, LastJoined
  <2>3. Calling(calls, "list") => Calling(calls', "list")
    BY <1>2 DEF Calling
  <2> QED
    BY <1>4, <2>2, <2>3 DEF ListCurrent
<1> QED
  BY <1>3, <1>4 DEF ListCurrent

\* A box stays current when the calls added are about the selected device.
LEMMA BoxKept ==
    ASSUME Typed, NEW b \in Boxes, BoxCurrent(b), NEW next \in Seq(Call),
           calls' = calls \o next, UNCHANGED <<selected, box>>,
           \A c \in Range(next) : c.device = selected
    PROVE  BoxCurrent(b)'
<1>1. calls \in Seq(Call)
  BY DEF Typed
<1>2. Range(calls') = Range(calls) \cup Range(next)
  BY <1>1, JoinedElements
<1>3. \A kind : Calling(calls, kind) => Calling(calls', kind)
  BY <1>2 DEF Calling
<1>4. CASE LastIn(calls, b, About(selected)) /\ (~Calling(calls, b) => box[b] \in {selected, Error})
  <2>1. \A c \in Range(next) : c \in About(selected)
    BY Elements DEF About
  <2>2. LastIn(next, b, About(selected))
    BY <2>1, AllIn
  <2>3. LastIn(calls', b, About(selected))
    BY <1>1, <1>4, <2>2, LastJoined
  <2> QED
    BY <1>3, <1>4, <2>3 DEF BoxCurrent
<1> QED
  BY <1>3, <1>4 DEF BoxCurrent

\* Another call than a list, a bind or a delete returns.
LEMMA ListStays ==
    ASSUME Typed, ListCurrent, NEW i \in DOMAIN calls, NEW next \in Seq(Call),
           Return(i, next), ~overtaken',
           calls[i].kind # "list", calls[i].kind \in {"bind", "delete"} => calls[i].answer # "ok",
           \A c \in Range(next) : c.kind # "list", UNCHANGED devices
    PROVE  ListCurrent'
<1>1. Range(calls) \subseteq Range(calls') \cup {calls[i]} /\ owned' = owned
  BY Returned
<1>2. CASE Changed(calls)
  <2>1. PICK c \in Range(calls) : c.kind \in {"bind", "delete"} /\ c.answer = "ok"
    BY <1>2 DEF Changed
  <2>2. c \in Range(calls')
    BY <1>1, <2>1
  <2>3. Changed(calls')
    BY <2>1, <2>2 DEF Changed
  <2> QED
    BY <2>3 DEF ListCurrent
<1>3. CASE LastIn(calls, "list", Current(owned)) /\ (~Calling(calls, "list") => devices = owned)
  <2>1. LastIn(calls', "list", Current(owned))
    BY <1>3, LastReturned
  <2>2. Calling(calls, "list") => Calling(calls', "list")
    BY <1>1 DEF Calling
  <2> QED
    BY <1>1, <1>3, <2>1, <2>2 DEF ListCurrent
<1> QED
  BY <1>2, <1>3 DEF ListCurrent

\* A box shows what it was asked for last, or an error.
LEMMA BoxStays ==
    ASSUME Typed, NEW b \in Boxes, BoxCurrent(b), NEW i \in DOMAIN calls,
           NEW next \in Seq(Call), Return(i, next), ~overtaken', UNCHANGED selected,
           calls[i].kind # "list",
           \/ box'[b] = Error
           \/ calls[i].kind = b /\ box'[b] = calls[i].device
           \/ calls[i].kind # b /\ box'[b] = box[b]
           \/ selected = None
           \/ Calling(calls, "list"),
           \A c \in Range(next) : c.kind = b => c.device = selected
    PROVE  BoxCurrent(b)'
<1>1. /\ Range(calls) \subseteq Range(calls') \cup {calls[i]}
      /\ Range(next) \subseteq Range(calls')
  BY Returned
<1>2. CASE Calling(calls, "list")
  <2>1. Calling(calls', "list")
    BY <1>1, <1>2 DEF Calling
  <2> QED
    BY <2>1 DEF BoxCurrent
<1>3. CASE selected = None
  BY <1>3 DEF BoxCurrent
<1>4. CASE /\ selected # None /\ ~Calling(calls, "list")
           /\ LastIn(calls, b, About(selected))
           /\ ~Calling(calls, b) => box[b] \in {selected, Error}
  <2>1. \A c \in Range(next) : c.kind = b => c \in About(selected)
    BY Elements DEF About
  <2>2. /\ LastIn(calls', b, About(selected))
        /\ calls[i].kind = b /\ ~Calling(calls', b) => calls[i] \in About(selected)
    BY <1>4, <2>1, LastReturned
  <2>3. ASSUME ~Calling(calls', b) PROVE box'[b] \in {selected, Error}
    <3>1. CASE calls[i].kind = b
      BY <1>4, <2>2, <2>3, <3>1 DEF About
    <3>2. CASE calls[i].kind # b
      <4>1. ~Calling(calls, b)
        BY <1>1, <2>3, <3>2 DEF Calling
      <4> QED
        BY <1>4, <3>2, <4>1
    <3> QED
      BY <3>1, <3>2
  <2> QED
    BY <2>2, <2>3 DEF BoxCurrent
<1> QED
  BY <1>2, <1>3, <1>4 DEF BoxCurrent

-----------------------------------------------------------------------------
(* One lemma for each action.                                              *)

\* The page starts with its first list under way, or without a token.
LEMMA InitTyped == Init => IInv
<1> SUFFICES ASSUME Init PROVE IInv
  OBVIOUS
<1>1. /\ calls \in Seq(Call)
      /\ \A c \in Range(calls) : c.kind = "list" /\ c.answer = "none"
      /\ token => Calling(calls, "list")
  <2>1. calls = ListCalls
    BY DEF Init
  <2> QED
    BY <2>1, ListCall
<1>2. Typed
  BY <1>1 DEF Init, Typed
<1>3. asked => token
  BY DEF Init
<1>4. Selection
  BY <1>1, <1>3 DEF Selection
<1>5. Shown
  BY DEF Init, Shown, SelectedDevice
<1>6. \A c \in Range(calls) : c \in Current(owned)
  <2>1. \A c \in Range(calls) : c \in Call
    BY <1>1, Elements
  <2> QED
    BY <1>1, <2>1 DEF Current
<1>7. LastIn(calls, "list", Current(owned))
  BY <1>1, <1>6, AllIn
<1>8. PageCurrent
  BY <1>1, <1>3, <1>7 DEF PageCurrent, ListCurrent, BoxCurrent
<1> QED
  BY <1>2, <1>4, <1>5, <1>8 DEF IInv

\* A handler adds calls to those under way.
LEMMA CallsMade ==
    ASSUME Typed, NEW next \in Seq(Call), calls' = calls \o next,
           \A c \in Range(next) : c.kind # "list" => c.device \in Devices,
           \A c \in Range(next) : c.kind = "list" => c.answer = "none"
    PROVE  /\ calls' \in Seq(Call)
           /\ Range(calls') = Range(calls) \cup Range(next)
           /\ \A c \in Range(calls') : c.kind # "list" => c.device \in Devices
           /\ \A c \in Range(calls') : c.kind = "list" => (c.answer # "error" \/ c \in Range(calls))
<1>1. calls \in Seq(Call) /\ \A c \in Range(calls) : c.kind # "list" => c.device \in Devices
  BY DEF Typed
<1>2. calls' \in Seq(Call) /\ Range(calls') = Range(calls) \cup Range(next)
  BY <1>1, Joined, JoinedElements
<1> QED
  BY <1>1, <1>2

\* A selected device is shown, and its boxes are asked for.
LEMMA SelectDeviceKeeps ==
    ASSUME IInv, NEW d \in Devices, SelectDevice(d) PROVE IInv'
<1> DEFINE t == Refreshes(d)
<1>1. /\ t \in Seq(Call)
      /\ \A c \in Range(t) : c.kind \in Boxes /\ c.device = d
      /\ \A b \in Boxes : Calling(t, b)
      /\ ~Calling(t, "list")
  BY RefreshCalls
<1> HIDE DEF t
<1>2. /\ d \in buttons /\ selected' = d /\ buttons' = devices /\ hero' = d
      /\ calls' = calls \o t
      /\ clicks' = clicks + 1
      /\ UNCHANGED <<owned, devices, token, box, bound, asked, overtaken, failures, elsewhere>>
  BY DEF SelectDevice, Click, t
<1>3. Typed /\ Selection /\ Shown /\ PageCurrent
  BY DEF IInv
<1>4. \A c \in Range(t) : c.kind # "list"
  BY <1>1 DEF Calling
<1>5. /\ calls' \in Seq(Call)
      /\ Range(calls') = Range(calls) \cup Range(t)
      /\ \A c \in Range(calls') : c.kind # "list" => c.device \in Devices
  BY <1>1, <1>2, <1>3, <1>4, CallsMade
<1>6. d \in devices
  BY <1>2, <1>3 DEF Typed
<1>7. Typed'
  BY <1>2, <1>3, <1>5 DEF Typed
<1>8. Selection' /\ Shown'
  <2>1. Selection'
    BY <1>2, <1>3, <1>4, <1>5, <1>6 DEF Selection
  <2>2. Shown'
    BY <1>2 DEF Shown, SelectedDevice
  <2> QED
    BY <2>1, <2>2
<1>9. ASSUME asked, failures = 0, ~overtaken, elsewhere = 0 PROVE ListCurrent'
  <2>1. ListCurrent
    BY <1>3, <1>9 DEF PageCurrent
  <2> QED
    BY <1>1, <1>2, <1>3, <1>4, <2>1, ListKept
<1>10. ASSUME NEW b \in Boxes PROVE BoxCurrent(b)'
  <2>1. \A c \in Range(t) : c \in About(d)
    BY <1>1, Elements DEF About
  <2>2. LastIn(t, b, About(d))
    BY <1>1, <2>1, AllIn
  <2>3. LastIn(calls', b, About(d))
    BY <1>1, <1>2, <1>3, <2>2, LastJoined DEF Typed
  <2>4. Calling(calls', b)
    BY <1>1, <1>5 DEF Calling
  <2> QED
    BY <1>2, <2>3, <2>4 DEF BoxCurrent
<1>11. PageCurrent'
  BY <1>2, <1>9, <1>10 DEF PageCurrent
<1> QED
  BY <1>7, <1>8, <1>11 DEF IInv

\* A new list is asked for, or it is known that none was.
LEMMA ListDevicesKeeps == ASSUME IInv, ListDevices PROVE IInv'
<1> DEFINE t == ListCalls
<1>1. /\ t \in Seq(Call)
      /\ \A c \in Range(t) : c.kind = "list" /\ c.answer = "none"
  BY ListCall
<1>2. Typed /\ Selection /\ Shown
  BY DEF IInv
<1>3. calls' = calls \o t
  BY DEF ListDevices
<1> HIDE DEF t
<1>4. /\ calls' \in Seq(Call)
      /\ \A c \in Range(calls') : c.kind # "list" => c.device \in Devices
      /\ \A c \in Range(calls') : c.kind = "list" => (c.answer # "error" \/ c \in Range(calls))
  BY <1>1, <1>2, <1>3, CallsMade
<1>5. /\ clicks' = clicks + 1 /\ asked' = token
      /\ UNCHANGED <<owned, devices, selected, buttons, hero, token, box, bound, overtaken,
                     failures, elsewhere>>
  BY DEF ListDevices, Click, page
<1>6. asked' => Calling(calls', "list") /\ ListCurrent' /\ \A b \in Boxes : BoxCurrent(b)'
  BY <1>2, <1>3, <1>5, ListAsked DEF Typed, t
<1>7. Typed'
  BY <1>2, <1>4, <1>5 DEF Typed
<1>8. Selection'
  BY <1>2, <1>4, <1>5, <1>6 DEF Selection
<1>9. Shown'
  BY <1>2, <1>5 DEF Shown, SelectedDevice
<1>10. PageCurrent'
  BY <1>6 DEF PageCurrent
<1> QED
  BY <1>7, <1>8, <1>9, <1>10 DEF IInv

\* The token is entered or removed: nothing else changes.
LEMMA EnterTokenKeeps == ASSUME IInv, EnterToken PROVE IInv'
<1>1. /\ clicks' = clicks + 1 /\ token' = ~token
      /\ UNCHANGED <<owned, devices, selected, buttons, hero, box, calls, bound, asked,
                     overtaken, failures, elsewhere>>
  BY DEF EnterToken, Click, page
<1>2. Typed /\ Selection /\ Shown /\ PageCurrent
  BY DEF IInv
<1>3. Typed'
  <2>1. token' \in BOOLEAN
    BY <1>1
  <2>2. clicks' \in Nat
    BY <1>1, <1>2 DEF Typed
  <2> QED
    BY <1>1, <1>2, <2>1, <2>2 DEF Typed
<1>4. Selection' /\ Shown'
  BY <1>1, <1>2 DEF Selection, Shown, SelectedDevice
<1>5. PageCurrent'
  BY <1>1, <1>2 DEF PageCurrent, ListCurrent, BoxCurrent
<1> QED
  BY <1>3, <1>4, <1>5 DEF IInv

\* A call about a device, which leaves the page as it is.
LEMMA DeviceCallKeeps ==
    ASSUME IInv, NEW kind \in Kinds \ {"list"}, NEW d \in Devices,
           kind \in Boxes => d = selected, calls' = Append(calls, To(kind, d)),
           UNCHANGED <<owned, page, token, asked, overtaken, failures, elsewhere>>,
           clicks' = clicks + 1
    PROVE  IInv'
<1> DEFINE t == <<To(kind, d)>>
<1>1. /\ t \in Seq(Call)
      /\ \A c \in Range(t) : c.kind = kind /\ c.device = d
  BY DeviceCall
<1>2. Typed /\ Selection /\ Shown /\ PageCurrent
  BY DEF IInv
<1>3. calls' = calls \o t
  BY <1>2 DEF Typed
<1> HIDE DEF t
<1>4. /\ calls' \in Seq(Call)
      /\ Range(calls') = Range(calls) \cup Range(t)
      /\ \A c \in Range(calls') : c.kind # "list" => c.device \in Devices
      /\ \A c \in Range(calls') : c.kind = "list" => (c.answer # "error" \/ c \in Range(calls))
  BY <1>1, <1>2, <1>3, CallsMade
<1>5. UNCHANGED <<owned, devices, selected, buttons, hero, token, box, bound, asked, overtaken,
                 failures, elsewhere>>
  BY DEF page
<1>6. Typed'
  BY <1>2, <1>4, <1>5 DEF Typed
<1>7. Calling(calls, "list") => Calling(calls', "list")
  BY <1>4 DEF Calling
<1>8. Selection' /\ Shown'
  <2>1. Selection'
    BY <1>2, <1>4, <1>5, <1>7 DEF Selection
  <2>2. Shown'
    BY <1>2, <1>5 DEF Shown, SelectedDevice
  <2> QED
    BY <2>1, <2>2
<1>9. ASSUME asked, failures = 0, ~overtaken, elsewhere = 0
      PROVE  ListCurrent' /\ \A b \in Boxes : BoxCurrent(b)'
  <2>1. ListCurrent /\ \A b \in Boxes : BoxCurrent(b)
    BY <1>2, <1>9 DEF PageCurrent
  <2>2. ListCurrent'
    BY <1>1, <1>2, <1>3, <1>5, <2>1, ListKept
  <2>3. ASSUME NEW b \in Boxes PROVE BoxCurrent(b)'
    <3>1. CASE kind \in Boxes
      <4>1. \A c \in Range(t) : c.device = selected
        BY <1>1, <3>1
      <4> QED
        BY <1>1, <1>2, <1>3, <1>5, <2>1, <4>1, BoxKept
    <3>2. CASE kind \notin Boxes
      <4>1. ~Calling(t, b)
        BY <1>1, <3>2 DEF Calling
      <4>2. calls \in Seq(Call)
        BY <1>2 DEF Typed
      <4>3. LastIn(calls, b, About(selected)) => LastIn(calls', b, About(selected))
        BY <1>1, <1>3, <4>1, <4>2, LastJoined
      <4>4. Calling(calls, b) => Calling(calls', b)
        BY <1>4 DEF Calling
      <4>5. BoxCurrent(b)
        BY <2>1
      <4> QED
        BY <1>5, <1>7, <4>3, <4>4, <4>5 DEF BoxCurrent
    <3> QED
      BY <3>1, <3>2
  <2> QED
    BY <2>2, <2>3
<1>10. PageCurrent'
  BY <1>5, <1>9 DEF PageCurrent
<1> QED
  BY <1>6, <1>8, <1>10 DEF IInv

\* What is acted on is one of the devices.
LEMMA SelectedIsDevice ==
    ASSUME Typed
    PROVE  /\ SelectedDevice \in Devices \cup {None}
           /\ SelectedDevice # None => SelectedDevice = selected /\ selected \in Devices
           /\ SelectedDevice = None => selected \notin devices
  BY NoneAssumption DEF Typed, SelectedDevice

\* A bind is under way, and the page is as it was.
LEMMA BindDeviceKeeps ==
    ASSUME IInv, NEW d \in Devices, BindDevice(d) PROVE IInv'
<1>1. /\ calls' = Append(calls, To("bind", d)) /\ clicks' = clicks + 1
      /\ UNCHANGED <<owned, page, token, asked, overtaken, failures, elsewhere>>
  BY DEF BindDevice, Click
<1>2. "bind" \in Kinds \ {"list"} /\ "bind" \notin Boxes
  BY DEF Kinds, Boxes
<1> QED
  BY <1>1, <1>2, DeviceCallKeeps

\* A call about the selected device changes nothing of the page.
LEMMA ActOnSelectedKeeps ==
    ASSUME IInv, NEW kind \in {"rename", "delete", "send"}, ActOnSelected(kind) PROVE IInv'
<1>1. /\ calls' = Append(calls, To(kind, SelectedDevice)) /\ clicks' = clicks + 1
      /\ UNCHANGED <<owned, page, token, asked, overtaken, failures, elsewhere>>
  BY DEF ActOnSelected, Click
<1>2. kind \in Kinds \ {"list"} /\ kind \notin Boxes
  BY DEF Kinds, Boxes
<1>3. SelectedDevice \in Devices
  BY SelectedIsDevice DEF ActOnSelected, IInv
<1> QED
  BY <1>1, <1>2, <1>3, DeviceCallKeeps

\* While a list is under way, the boxes may show anything; without one, no
\* device is selected if none of the listed ones is.
LEMMA NothingSelected ==
    ASSUME IInv, SelectedDevice = None, asked, failures = 0
    PROVE  Calling(calls, "list") \/ selected = None
  BY SelectedIsDevice DEF IInv, Selection

\* A box is asked for, for the selected device, or shows a hint.
LEMMA RefreshBoxKeeps ==
    ASSUME IInv, NEW b \in Boxes, RefreshBox(b) PROVE IInv'
<1>1. Typed /\ Selection /\ Shown /\ PageCurrent
  BY DEF IInv
<1>2. clicks' = clicks + 1 /\ UNCHANGED <<owned, devices, selected, buttons, hero, token, bound, asked,
                                         overtaken, failures, elsewhere>>
  BY DEF RefreshBox, Click
<1>3. CASE SelectedDevice = None
  <2>1. box' = [box EXCEPT ![b] = None] /\ calls' = calls
    BY <1>3 DEF RefreshBox
  <2>2. Typed'
    <3>1. box' \in [Boxes -> Devices \cup {None, Error}]
      BY <1>1, <2>1 DEF Typed
    <3> QED
      BY <1>1, <1>2, <2>1, <3>1 DEF Typed
  <2>3. Selection' /\ Shown'
    BY <1>1, <1>2, <2>1 DEF Selection, Shown, SelectedDevice
  <2>4. ASSUME asked, failures = 0, ~overtaken, elsewhere = 0
        PROVE  ListCurrent' /\ \A x \in Boxes : BoxCurrent(x)'
    <3>1. ListCurrent'
      BY <1>1, <1>2, <2>1, <2>4 DEF PageCurrent, ListCurrent
    <3>2. Calling(calls, "list") \/ selected = None
      BY <1>3, <2>4, NothingSelected
    <3> QED
      BY <1>2, <2>1, <3>1, <3>2 DEF BoxCurrent
  <2>5. PageCurrent'
    BY <1>2, <2>4 DEF PageCurrent
  <2> QED
    BY <2>2, <2>3, <2>5 DEF IInv
<1>4. CASE SelectedDevice # None
  <2>1. calls' = Append(calls, To(b, SelectedDevice)) /\ box' = box
    BY <1>4 DEF RefreshBox
  <2>2. SelectedDevice = selected /\ selected \in Devices
    BY <1>1, <1>4, SelectedIsDevice
  <2>3. b \in Kinds \ {"list"}
    BY DEF Kinds, Boxes
  <2>4. UNCHANGED page
    BY <1>2, <2>1 DEF page
  <2> QED
    BY <1>2, <2>1, <2>2, <2>3, <2>4, DeviceCallKeeps
<1> QED
  BY <1>3, <1>4

\* The selection is shown again.
LEMMA UpdateHeroKeeps == ASSUME IInv, UpdateHero PROVE IInv'
<1>1. /\ hero' = SelectedDevice
      /\ UNCHANGED <<owned, devices, selected, buttons, token, box, calls, bound, asked,
                     overtaken, clicks, failures, elsewhere>>
  BY DEF UpdateHero
<1>2. Typed /\ Selection /\ Shown /\ PageCurrent
  BY DEF IInv
<1>3. Typed'
  <2>1. hero' \in Devices \cup {None}
    BY <1>1, <1>2, SelectedIsDevice
  <2> QED
    BY <1>1, <1>2, <2>1 DEF Typed
<1>4. Selection' /\ Shown'
  <2>1. Selection'
    BY <1>1, <1>2 DEF Selection, SelectedDevice
  <2>2. Shown'
    BY <1>1 DEF Shown, SelectedDevice
  <2> QED
    BY <2>1, <2>2
<1>5. PageCurrent'
  BY <1>1, <1>2 DEF PageCurrent, ListCurrent, BoxCurrent
<1> QED
  BY <1>3, <1>4, <1>5 DEF IInv

\* A change elsewhere ends what is known of the list.
LEMMA ChangedElsewhereKeeps ==
    ASSUME IInv, NEW d \in Devices, ChangedElsewhere(d) PROVE IInv'
<1>1. /\ elsewhere' = elsewhere + 1
      /\ owned' = IF d \in owned THEN owned \ {d} ELSE owned \cup {d}
      /\ UNCHANGED <<devices, selected, buttons, hero, token, box, calls, bound, asked,
                     overtaken, clicks, failures>>
  BY DEF ChangedElsewhere, page
<1>2. Typed /\ Selection /\ Shown
  BY DEF IInv
<1>3. Typed' /\ elsewhere' # 0
  <2>1. owned' \in SUBSET Devices
    BY <1>1, <1>2 DEF Typed
  <2>2. elsewhere' \in Nat /\ elsewhere' # 0
    BY <1>1, <1>2 DEF Typed
  <2> QED
    BY <1>1, <1>2, <2>1, <2>2 DEF Typed
<1>4. Selection' /\ Shown'
  BY <1>1, <1>2 DEF Selection, Shown, SelectedDevice
<1> QED
  BY <1>3, <1>4 DEF IInv, PageCurrent

\* The answer to a call: neither its kind nor its device changes.
LEMMA AnsweredCall ==
    ASSUME Typed, NEW i \in DOMAIN calls, NEW answer \in {"ok", "error"},
           NEW list \in SUBSET Devices, Answered(i, answer, list)
    PROVE  /\ i \in 1..Len(calls)
           /\ calls' \in Seq(Call) /\ Len(calls') = Len(calls)
           /\ \A j \in 1..Len(calls) : j # i => calls'[j] = calls[j]
           /\ calls'[i].kind = calls[i].kind /\ calls'[i].device = calls[i].device
           /\ calls'[i].answer = answer /\ calls'[i].list = list
<1>1. calls \in Seq(Call) /\ i \in 1..Len(calls) /\ calls[i] \in Call
  BY Elements DEF Typed
<1> DEFINE one == [calls EXCEPT ![i].answer = answer]
           c == [calls[i] EXCEPT !.answer = answer]
           d == [c EXCEPT !.list = list]
<1>2. /\ c \in Call
      /\ c.answer = answer /\ c.kind = calls[i].kind /\ c.device = calls[i].device
  BY <1>1 DEF Call
<1>3. /\ d \in Call /\ d.answer = answer /\ d.list = list
      /\ d.kind = calls[i].kind /\ d.device = calls[i].device
  <2> HIDE DEF c
  <2> QED
    BY <1>2 DEF Call
<1>4. /\ one \in Seq(Call) /\ Len(one) = Len(calls) /\ one[i] = c
      /\ \A j \in 1..Len(calls) : j # i => one[j] = calls[j]
  BY <1>1, <1>2
<1>5. calls' = [one EXCEPT ![i] = [@ EXCEPT !.list = list]]
  BY <1>1 DEF Answered
<1> HIDE DEF one
<1>6. calls' = [one EXCEPT ![i] = d]
  BY <1>4, <1>5
<1> HIDE DEF c, d
<1>7. /\ calls' \in Seq(Call) /\ Len(calls') = Len(one) /\ calls'[i] = d
      /\ \A j \in 1..Len(one) : j # i => calls'[j] = one[j]
  BY <1>1, <1>3, <1>4, <1>6
<1> QED
  BY <1>1, <1>3, <1>4, <1>7

\* An answer changes one call, and not its kind.
LEMMA AnsweredElements ==
    ASSUME Typed, NEW i \in DOMAIN calls, NEW answer \in {"ok", "error"},
           NEW list \in SUBSET Devices, Answered(i, answer, list)
    PROVE  /\ calls[i] \in Range(calls) /\ calls'[i] \in Range(calls') /\ calls'[i] \in Call
           /\ \A c \in Range(calls) : c = calls[i] \/ c \in Range(calls')
           /\ \A c \in Range(calls') : c = calls'[i] \/ c \in Range(calls)
           /\ \A kind : Calling(calls', kind) <=> Calling(calls, kind)
<1>1. /\ i \in 1..Len(calls)
      /\ calls' \in Seq(Call) /\ Len(calls') = Len(calls)
      /\ \A j \in 1..Len(calls) : j # i => calls'[j] = calls[j]
      /\ calls'[i].kind = calls[i].kind
  BY AnsweredCall
<1>2. /\ Range(calls) = {calls[j] : j \in 1..Len(calls)}
      /\ Range(calls') = {calls'[j] : j \in 1..Len(calls)}
      /\ calls'[i] \in Call
  <2>1. calls \in Seq(Call)
    BY DEF Typed
  <2> QED
    BY <1>1, <2>1, Elements
<1>3. /\ calls[i] \in Range(calls) /\ calls'[i] \in Range(calls')
      /\ \A c \in Range(calls) : c = calls[i] \/ c \in Range(calls')
      /\ \A c \in Range(calls') : c = calls'[i] \/ c \in Range(calls)
  BY <1>1, <1>2
<1> QED
  BY <1>1, <1>2, <1>3 DEF Calling

\* The last call of a kind stays the last one when it is answered.
LEMMA LastAnswered ==
    ASSUME Typed, NEW i \in DOMAIN calls, NEW answer \in {"ok", "error"},
           NEW list \in SUBSET Devices, Answered(i, answer, list),
           NEW kind, NEW S, LastIn(calls, kind, S),
           calls[i].kind = kind => (calls[i] \in S => calls'[i] \in S)
    PROVE  LastIn(calls', kind, S)
<1>1. /\ i \in 1..Len(calls)
      /\ calls' \in Seq(Call) /\ Len(calls') = Len(calls)
      /\ \A j \in 1..Len(calls) : j # i => calls'[j] = calls[j]
      /\ calls'[i].kind = calls[i].kind
  BY AnsweredCall
<1>2. DOMAIN calls = 1..Len(calls) /\ DOMAIN calls' = 1..Len(calls)
  <2>1. calls \in Seq(Call)
    BY DEF Typed
  <2> QED
    BY <1>1, <2>1, Elements
<1>3. \A j \in 1..Len(calls) : calls'[j].kind = calls[j].kind
  BY <1>1
<1> SUFFICES ASSUME NEW m \in 1..Len(calls), calls'[m].kind = kind,
                    \A j \in 1..Len(calls) : j > m => calls'[j].kind # kind
             PROVE  calls'[m] \in S
  BY <1>2 DEF LastIn
<1>4. calls[m].kind = kind /\ \A j \in 1..Len(calls) : j > m => calls[j].kind # kind
  BY <1>3
<1>5. calls[m] \in S
  BY <1>2, <1>4 DEF LastIn
<1> QED
  BY <1>1, <1>4, <1>5

\* A served list is current; a served bind or delete is not known to the page.
LEMMA ServeKeeps ==
    ASSUME IInv, NEW i \in DOMAIN calls, Serve(i) PROVE IInv'
<1>1. Typed /\ Selection /\ Shown /\ PageCurrent
  BY DEF IInv
<1>2. UNCHANGED <<devices, selected, buttons, hero, token, box, bound, asked, overtaken, clicks,
                 failures, elsewhere>>
  BY DEF Serve, page
<1>3. PICK answer \in {"ok", "error"}, list \in SUBSET Devices :
          /\ Answered(i, answer, list)
          /\ owned' \in SUBSET Devices
          /\ calls[i].kind = "list" => answer = "ok" /\ list = owned
          /\ owned' = owned \/ (calls[i].kind \in {"bind", "delete"} /\ answer = "ok")
  <2>1. calls[i].kind # "list" => calls[i].device \in Devices
    <3>1. calls \in Seq(Call)
      BY <1>1 DEF Typed
    <3>2. calls[i] \in Range(calls)
      BY <3>1, Elements
    <3> QED
      BY <1>1, <3>2 DEF Typed
  <2>2. CASE calls[i].kind = "list" /\ Answered(i, "ok", owned) /\ UNCHANGED owned
    BY <1>1, <2>2 DEF Typed
  <2>3. CASE calls[i].kind = "bind" /\ Answered(i, "error", {}) /\ UNCHANGED owned
    BY <1>1, <2>3 DEF Typed
  <2>4. CASE /\ calls[i].kind = "bind"
             /\ Answered(i, "ok", {})
             /\ owned' = owned \cup {calls[i].device}
    <3>1. owned' \in SUBSET Devices
      BY <1>1, <2>1, <2>4 DEF Typed
    <3> QED
      BY <2>4, <3>1
  <2>5. CASE /\ calls[i].kind = "delete" /\ calls[i].device \in owned
             /\ Answered(i, "ok", {})
             /\ owned' = owned \ {calls[i].device}
    <3>1. owned' \in SUBSET Devices
      BY <1>1, <2>5 DEF Typed
    <3> QED
      BY <2>5, <3>1
  <2>6. CASE /\ calls[i].kind = "delete" /\ calls[i].device \notin owned
             /\ Answered(i, "error", {})
             /\ owned' = owned \ {calls[i].device}
    <3>1. owned' = owned /\ owned' \in SUBSET Devices
      BY <1>1, <2>6 DEF Typed
    <3> QED
      BY <2>6, <3>1
  <2>7. CASE /\ calls[i].kind \in Boxes \cup {"rename", "send"}
             /\ Answered(i, IF calls[i].device \in owned THEN "ok" ELSE "error", {})
             /\ UNCHANGED owned
    <3>1. calls[i].kind # "list" /\ owned' \in SUBSET Devices
      BY <1>1, <2>7 DEF Boxes, Typed
    <3> QED
      BY <2>7, <3>1
  <2> QED
    BY <2>2, <2>3, <2>4, <2>5, <2>6, <2>7 DEF Serve
<1>4. /\ calls' \in Seq(Call)
      /\ calls'[i].kind = calls[i].kind /\ calls'[i].device = calls[i].device
      /\ calls'[i].answer = answer /\ calls'[i].list = list
  BY <1>1, <1>3, AnsweredCall
<1>5. /\ calls[i] \in Range(calls) /\ calls'[i] \in Range(calls') /\ calls'[i] \in Call
      /\ \A c \in Range(calls) : c = calls[i] \/ c \in Range(calls')
      /\ \A c \in Range(calls') : c = calls'[i] \/ c \in Range(calls)
      /\ \A kind : Calling(calls', kind) <=> Calling(calls, kind)
  BY <1>1, <1>3, AnsweredElements
<1>6. Typed'
  <2>1. \A c \in Range(calls') : c.kind # "list" => c.device \in Devices
    BY <1>1, <1>4, <1>5 DEF Typed
  <2> QED
    BY <1>1, <1>2, <1>3, <1>4, <2>1 DEF Typed
<1>7. Selection' /\ Shown'
  <2>1. Selection'
    BY <1>1, <1>2, <1>3, <1>4, <1>5 DEF Selection
  <2>2. Shown'
    BY <1>1, <1>2 DEF Shown, SelectedDevice
  <2> QED
    BY <2>1, <2>2
<1>8. ASSUME ListCurrent PROVE ListCurrent'
  <2>1. CASE Changed(calls)
    <3>1. PICK c \in Range(calls) : c.kind \in {"bind", "delete"} /\ c.answer = "ok"
      BY <2>1 DEF Changed
    <3>2. c # calls[i]
      BY <3>1 DEF Serve
    <3>3. Changed(calls')
      BY <1>5, <3>1, <3>2 DEF Changed
    <3> QED
      BY <3>3 DEF ListCurrent
  <2>2. CASE calls[i].kind \in {"bind", "delete"} /\ answer = "ok"
    BY <1>4, <1>5, <2>2 DEF Changed, ListCurrent
  <2>3. CASE /\ LastIn(calls, "list", Current(owned))
             /\ ~Calling(calls, "list") => devices = owned
             /\ owned' = owned
    <3>1. calls[i].kind = "list" => calls'[i] \in Current(owned)
      BY <1>3, <1>4, <1>5 DEF Current
    <3>2. LastIn(calls', "list", Current(owned))
      BY <1>1, <1>3, <2>3, <3>1, LastAnswered
    <3> QED
      BY <1>2, <1>5, <2>3, <3>2 DEF ListCurrent
  <2> QED
    BY <1>3, <1>8, <2>1, <2>2, <2>3 DEF ListCurrent
<1>9. ASSUME NEW b \in Boxes, BoxCurrent(b) PROVE BoxCurrent(b)'
  <2>1. calls[i] \in About(selected) => calls'[i] \in About(selected)
    BY <1>4, <1>5 DEF About
  <2>2. LastIn(calls, b, About(selected)) => LastIn(calls', b, About(selected))
    BY <1>1, <1>3, <2>1, LastAnswered
  <2> QED
    BY <1>2, <1>5, <1>9, <2>2 DEF BoxCurrent
<1>10. PageCurrent'
  BY <1>1, <1>2, <1>8, <1>9 DEF PageCurrent
<1> QED
  BY <1>6, <1>7, <1>10 DEF IInv

\* A call that fails ends what is known of the list and the boxes.
LEMMA CallFailsKeeps ==
    ASSUME IInv, NEW i \in DOMAIN calls, CallFails(i) PROVE IInv'
<1>1. Typed /\ Selection /\ Shown
  BY DEF IInv
<1>2. /\ failures' = failures + 1 /\ Answered(i, "error", {})
      /\ UNCHANGED <<owned, devices, selected, buttons, hero, token, box, bound, asked,
                     overtaken, clicks, elsewhere>>
  BY DEF CallFails, page
<1>3. /\ calls' \in Seq(Call)
      /\ calls'[i].kind = calls[i].kind /\ calls'[i].device = calls[i].device
  BY <1>1, <1>2, AnsweredCall
<1>4. /\ calls[i] \in Range(calls)
      /\ \A c \in Range(calls') : c = calls'[i] \/ c \in Range(calls)
      /\ \A kind : Calling(calls', kind) <=> Calling(calls, kind)
  BY <1>1, <1>2, AnsweredElements
<1>5. failures' \in Nat /\ failures' # 0
  BY <1>1, <1>2 DEF Typed
<1>6. Typed'
  <2>1. \A c \in Range(calls') : c.kind # "list" => c.device \in Devices
    BY <1>1, <1>3, <1>4 DEF Typed
  <2> QED
    BY <1>1, <1>2, <1>3, <1>5, <2>1 DEF Typed
<1>7. Selection' /\ Shown'
  BY <1>1, <1>2, <1>4, <1>5 DEF Selection, Shown, SelectedDevice
<1> QED
  BY <1>5, <1>6, <1>7 DEF IInv, PageCurrent

-----------------------------------------------------------------------------
(* The page goes on with an answer.                                        *)

\* What every answer leaves well typed.
LEMMA ReturnTyped ==
    ASSUME Typed, NEW i \in DOMAIN calls, NEW next \in Seq(Call), Return(i, next),
           \A c \in Range(next) : c.kind # "list" => c.device \in Devices,
           \A c \in Range(next) : c.kind = "list" => c.answer = "none"
    PROVE  /\ calls' \in Seq(Call)
           /\ \A c \in Range(calls') : c.kind # "list" => c.device \in Devices
           /\ \A c \in Range(calls') : c.kind = "list" => (c.answer # "error" \/ c \in Range(calls))
           /\ overtaken' \in BOOLEAN
           /\ calls[i].kind # "list" => calls[i].device \in Devices
           /\ UNCHANGED <<owned, token, clicks, failures, elsewhere>>
<1>1. /\ calls' \in Seq(Call)
      /\ calls[i] \in Range(calls)
      /\ Range(calls') \subseteq Range(calls) \cup Range(next)
      /\ overtaken' \in BOOLEAN
      /\ UNCHANGED <<owned, token, clicks, failures, elsewhere>>
  BY Returned
<1>2. \A c \in Range(calls) : c.kind # "list" => c.device \in Devices
  BY DEF Typed
<1> QED
  BY <1>1, <1>2

\* With a list come calls for the boxes of the selection, if any.
LEMMA RefreshesOfCalls ==
    ASSUME NEW d \in Devices \cup {None}, NEW t, t = RefreshesOf(d)
    PROVE  /\ t \in Seq(Call)
           /\ \A c \in Range(t) : c.kind \in Boxes /\ c.device \in Devices /\ c.device = d
           /\ \A c \in Range(t) : c.kind # "list"
           /\ d # None => \A b \in Boxes : Calling(t, b)
<1>1. CASE d = None
  <2>1. t = <<>>
    BY <1>1 DEF RefreshesOf
  <2> QED
    BY <1>1, <2>1, NoCall
<1>2. CASE d # None
  <2>1. t = Refreshes(d) /\ d \in Devices
    BY <1>2 DEF RefreshesOf
  <2>2. /\ t \in Seq(Call)
        /\ \A c \in Range(t) : c.kind \in Boxes /\ c.device = d
        /\ \A b \in Boxes : Calling(t, b)
        /\ ~Calling(t, "list")
    BY <2>1, RefreshCalls
  <2>3. \A c \in Range(t) : c.kind # "list"
    BY <2>2 DEF Calling
  <2> QED
    BY <2>1, <2>2, <2>3
<1> QED
  BY <1>1, <1>2

\* The list settles the selection, which is shown.
LEMMA ListArrivesKeeps ==
    ASSUME IInv, NEW i \in DOMAIN calls, ListArrives(i) PROVE IInv'
<1> DEFINE t == RefreshesOf(selected')
           list == calls[i].list
<1>1. Typed /\ Selection /\ Shown /\ PageCurrent
  BY DEF IInv
<1>2. /\ calls[i].kind = "list" /\ calls[i].answer = "ok"
      /\ devices' = list /\ buttons' = list /\ bound' = None
      /\ UNCHANGED <<box, asked>>
      /\ selected' \in Selections(list)
      /\ hero' = IF selected' \in devices' THEN selected' ELSE None
      /\ Return(i, t)
  BY DEF ListArrives
<1>3. calls \in Seq(Call) /\ i \in 1..Len(calls) /\ calls[i] \in Call /\ list \in SUBSET Devices
  <2>1. calls \in Seq(Call)
    BY <1>1 DEF Typed
  <2>2. i \in 1..Len(calls) /\ calls[i] \in Call
    BY <2>1, Elements
  <2> QED
    BY <2>1, <2>2 DEF Call
<1> HIDE DEF list
<1>4. /\ selected' \in Devices \cup {None}
      /\ selected' \in list \/ (list = {} /\ selected' = None)
  BY <1>1, <1>2, <1>3 DEF Selections, Typed
<1>5. /\ t \in Seq(Call)
      /\ \A c \in Range(t) : c.kind \in Boxes /\ c.device \in Devices /\ c.device = selected'
      /\ \A c \in Range(t) : c.kind # "list"
      /\ selected' # None => \A b \in Boxes : Calling(t, b)
  BY <1>4, RefreshesOfCalls
<1> HIDE DEF t
<1>6. /\ calls' \in Seq(Call)
      /\ \A c \in Range(calls') : c.kind # "list" => c.device \in Devices
      /\ \A c \in Range(calls') : c.kind = "list" => (c.answer # "error" \/ c \in Range(calls))
      /\ overtaken' \in BOOLEAN
      /\ UNCHANGED <<owned, token, clicks, failures, elsewhere>>
  BY <1>1, <1>2, <1>5, ReturnTyped
<1>7. /\ Range(t) \subseteq Range(calls')
      /\ Range(calls) \subseteq Range(calls') \cup {calls[i]}
      /\ ~overtaken' => ~overtaken
  BY <1>1, <1>2, <1>5, Returned
<1>8. Typed'
  BY <1>1, <1>2, <1>3, <1>4, <1>6 DEF Typed
<1>9. Selection' /\ Shown'
  <2>1. Selection'
    BY <1>1, <1>2, <1>4, <1>6 DEF Selection
  <2>2. Shown'
    BY <1>2 DEF Shown, SelectedDevice
  <2> QED
    BY <2>1, <2>2
<1>10. ASSUME asked, failures = 0, ~overtaken', elsewhere = 0 PROVE ListCurrent'
  <2>1. ListCurrent
    BY <1>1, <1>7, <1>10 DEF PageCurrent
  <2>2. CASE Changed(calls)
    <3>1. PICK c \in Range(calls) : c.kind \in {"bind", "delete"} /\ c.answer = "ok"
      BY <2>2 DEF Changed
    <3>2. c \in Range(calls')
      BY <1>2, <1>7, <3>1
    <3>3. Changed(calls')
      BY <3>1, <3>2 DEF Changed
    <3> QED
      BY <3>3 DEF ListCurrent
  <2>3. CASE LastIn(calls, "list", Current(owned))
    <3>1. \A c \in Range(t) : c.kind = "list" => c \in Current(owned)
      BY <1>5
    <3>2. /\ LastIn(calls', "list", Current(owned))
          /\ ~Calling(calls', "list") => calls[i] \in Current(owned)
      BY <1>1, <1>2, <1>5, <1>10, <2>3, <3>1, LastReturned
    <3>3. ~Calling(calls', "list") => devices' = owned
      BY <1>2, <3>2 DEF Current, list
    <3> QED
      BY <1>6, <3>2, <3>3 DEF ListCurrent
  <2> QED
    BY <2>1, <2>2, <2>3 DEF ListCurrent
<1>11. ASSUME NEW b \in Boxes PROVE BoxCurrent(b)'
  <2>1. CASE selected' = None
    BY <2>1 DEF BoxCurrent
  <2>2. CASE selected' # None
    <3> DEFINE r == RemoveAt(calls, i)
    <3>1. r \in Seq(Call)
      BY <1>3, Removed
    <3>2. calls' = r \o t
      BY <1>2 DEF Return
    <3> HIDE DEF r
    <3>3. Calling(t, b) /\ Calling(calls', b)
      BY <1>5, <1>7, <2>2 DEF Calling
    <3>4. \A c \in Range(t) : c \in About(selected')
      BY <1>5, Elements DEF About
    <3>5. LastIn(t, b, About(selected'))
      BY <1>5, <3>4, AllIn
    <3>6. LastIn(calls', b, About(selected'))
      BY <1>5, <3>1, <3>2, <3>3, <3>5, LastJoined
    <3> QED
      BY <3>3, <3>6 DEF BoxCurrent
  <2> QED
    BY <2>1, <2>2
<1>12. PageCurrent'
  BY <1>2, <1>6, <1>10, <1>11 DEF PageCurrent
<1> QED
  BY <1>8, <1>9, <1>12 DEF IInv

\* A handler that goes on with a new list: it keeps the selection, clears it, or
\* selects the device that was bound.
LEMMA NewListKeeps ==
    ASSUME IInv, NEW i \in DOMAIN calls, ReturnToList(i),
           selected' \in Devices \cup {None}, bound' \in Devices \cup {None},
           \/ selected' \in {None, bound'}
           \/ UNCHANGED <<selected, bound>>,
           UNCHANGED <<devices, buttons, hero, box>>
    PROVE  IInv'
<1> DEFINE t == ListCalls
<1>1. Typed /\ Selection /\ Shown
  BY DEF IInv
<1>2. /\ t \in Seq(Call)
      /\ \A c \in Range(t) : c.kind = "list" /\ c.answer = "none"
  BY ListCall
<1>3. Return(i, t) /\ asked' = token
  BY DEF ReturnToList
<1>4. asked' => Calling(calls', "list") /\ ListCurrent' /\ \A b \in Boxes : BoxCurrent(b)'
  <2> DEFINE r == RemoveAt(calls, i)
  <2>1. i \in 1..Len(calls) /\ calls \in Seq(Call)
    BY <1>1, Elements DEF Typed
  <2>2. r \in Seq(Call)
    BY <2>1, Removed
  <2>3. calls' = r \o ListCalls
    BY <1>3 DEF Return
  <2> HIDE DEF r, t
  <2> QED
    BY <1>3, <2>2, <2>3, ListAsked
<1> HIDE DEF t
<1>5. /\ calls' \in Seq(Call)
      /\ \A c \in Range(calls') : c.kind # "list" => c.device \in Devices
      /\ \A c \in Range(calls') : c.kind = "list" => (c.answer # "error" \/ c \in Range(calls))
      /\ overtaken' \in BOOLEAN
      /\ UNCHANGED <<owned, token, clicks, failures, elsewhere>>
  BY <1>1, <1>2, <1>3, ReturnTyped
<1>6. Typed'
  BY <1>1, <1>3, <1>5 DEF Typed
<1>7. Selection'
  BY <1>1, <1>4, <1>5 DEF Selection
<1>8. Shown'
  BY <1>1 DEF Shown, SelectedDevice
<1>9. PageCurrent'
  BY <1>4 DEF PageCurrent
<1> QED
  BY <1>6, <1>7, <1>8, <1>9 DEF IInv

\* After a bind, a delete or a rename a list is asked for.
LEMMA ChangeArrivesKeeps ==
    ASSUME IInv, NEW i \in DOMAIN calls, BindArrives(i) \/ DeleteArrives(i) \/ RenameArrives(i)
    PROVE  IInv'
<1>1. calls[i] \in Range(calls) /\ Typed
  BY Elements DEF IInv, Typed
<1>2. CASE BindArrives(i)
  <2>1. /\ selected' \in Devices \cup {None} /\ bound' \in Devices \cup {None}
        /\ selected' = bound'
    BY <1>1, <1>2 DEF BindArrives, Typed
  <2> QED
    BY <1>2, <2>1, NewListKeeps DEF BindArrives
<1>3. CASE DeleteArrives(i)
  <2>1. /\ selected' \in Devices \cup {None} /\ bound' \in Devices \cup {None}
        /\ selected' = None
    BY <1>1, <1>3 DEF DeleteArrives, Typed
  <2> QED
    BY <1>3, <2>1, NewListKeeps DEF DeleteArrives
<1>4. CASE RenameArrives(i)
  <2>1. /\ selected' \in Devices \cup {None} /\ bound' \in Devices \cup {None}
        /\ UNCHANGED <<devices, selected, buttons, hero, box, bound>>
    BY <1>1, <1>4 DEF RenameArrives, page, Typed
  <2> QED
    BY <1>4, <2>1, NewListKeeps DEF RenameArrives
<1> QED
  BY <1>2, <1>3, <1>4

\* Any other answer: the selection is what it was, and a box shows the device
\* it was asked for, or an error.
LEMMA OtherReturns ==
    ASSUME IInv, NEW i \in DOMAIN calls, NEW next \in Seq(Call), Return(i, next),
           calls[i].kind = "list" => failures # 0 /\ buttons' = {},
           calls[i].kind # "list" => buttons' \in {buttons, {}},
           calls[i].kind \in {"bind", "delete"} => calls[i].answer # "ok",
           \A c \in Range(next) : /\ c.kind \in Boxes
                                  /\ c.device = selected /\ c.device \in Devices,
           UNCHANGED <<devices, selected, hero, bound, asked>>, buttons' \in SUBSET devices,
           box' \in [Boxes -> Devices \cup {None, Error}],
           asked /\ failures = 0 =>
               \A b \in Boxes :
                   \/ box'[b] = Error
                   \/ calls[i].kind = b /\ box'[b] = calls[i].device
                   \/ calls[i].kind # b /\ box'[b] = box[b]
                   \/ selected = None
                   \/ Calling(calls, "list")
    PROVE  IInv'
<1>1. Typed /\ Selection /\ Shown /\ PageCurrent
  BY DEF IInv
<1>2. \A c \in Range(next) : c.kind # "list"
  BY DEF Boxes
<1>3. /\ calls' \in Seq(Call)
      /\ \A c \in Range(calls') : c.kind # "list" => c.device \in Devices
      /\ \A c \in Range(calls') : c.kind = "list" => (c.answer # "error" \/ c \in Range(calls))
      /\ overtaken' \in BOOLEAN
      /\ UNCHANGED <<owned, token, clicks, failures, elsewhere>>
  BY <1>1, <1>2, ReturnTyped
<1>4. /\ Range(calls) \subseteq Range(calls') \cup {calls[i]}
      /\ ~overtaken' => ~overtaken
  BY <1>1, Returned
<1>5. Typed'
  BY <1>1, <1>3 DEF Typed
<1>6. calls[i].kind # "list" => (Calling(calls, "list") => Calling(calls', "list"))
  BY <1>4 DEF Calling
<1>7. Selection' /\ Shown'
  <2>1. failures = 0 => \A c \in Range(calls') : c.kind = "list" => c.answer # "error"
    BY <1>1, <1>3 DEF Selection
  <2>2. ASSUME calls[i].kind = "list" PROVE Selection'
    BY <1>3, <2>1, <2>2 DEF Selection
  <2>3. ASSUME calls[i].kind # "list" PROVE Selection'
    BY <1>1, <1>3, <1>6, <2>1, <2>3 DEF Selection
  <2>4. Shown'
    BY <1>1 DEF Shown, SelectedDevice
  <2> QED
    BY <2>2, <2>3, <2>4
<1>8. ASSUME asked, failures = 0, ~overtaken', elsewhere = 0
      PROVE  ListCurrent' /\ \A b \in Boxes : BoxCurrent(b)'
  <2>1. ListCurrent /\ \A b \in Boxes : BoxCurrent(b)
    BY <1>1, <1>4, <1>8 DEF PageCurrent
  <2>2. ListCurrent'
    BY <1>1, <1>2, <1>8, <2>1, ListStays
  <2>3. ASSUME NEW b \in Boxes PROVE BoxCurrent(b)'
    BY <1>1, <1>8, <2>1, BoxStays
  <2> QED
    BY <2>2, <2>3
<1>9. PageCurrent'
  BY <1>3, <1>8 DEF PageCurrent
<1> QED
  BY <1>5, <1>7, <1>9 DEF IInv

\* After a message the box of messages is asked for.
LEMMA SendArrivesKeeps ==
    ASSUME IInv, NEW i \in DOMAIN calls, SendArrives(i) PROVE IInv'
<1>1. Typed
  BY DEF IInv
<1>2. /\ calls[i].kind = "send" /\ UNCHANGED <<devices, selected, buttons, hero, bound, asked>>
      /\ buttons' \in SUBSET devices
  BY <1>1 DEF SendArrives, Typed
<1>3. CASE SelectedDevice = None
  <2>1. Return(i, <<>>) /\ box' = [box EXCEPT !["messages"] = None]
    BY <1>3 DEF SendArrives
  <2>2. /\ box' \in [Boxes -> Devices \cup {None, Error}]
    BY <1>1, <2>1 DEF Typed
  <2>3. asked /\ failures = 0 => Calling(calls, "list") \/ selected = None
    BY <1>3, NothingSelected
  <2> QED
    BY <1>2, <2>1, <2>2, <2>3, NoCall, OtherReturns
<1>4. CASE SelectedDevice # None
  <2> DEFINE t == <<To("messages", selected)>>
  <2>1. SelectedDevice = selected /\ selected \in Devices
    BY <1>1, <1>4, SelectedIsDevice
  <2>2. /\ t \in Seq(Call)
        /\ \A c \in Range(t) : c.kind = "messages" /\ c.device = selected
    <3>1. "messages" \in Kinds
      BY DEF Kinds, Boxes
    <3>2. t = <<To("messages", selected)>>
      OBVIOUS
    <3> HIDE DEF t
    <3> QED
      BY <2>1, <3>1, <3>2, DeviceCall
  <2>3. Return(i, t) /\ box' = box
    BY <1>4, <2>1 DEF SendArrives
  <2> HIDE DEF t
  <2>4. \A b \in Boxes : calls[i].kind # b /\ box'[b] = box[b]
    BY <1>2, <2>3 DEF Boxes
  <2>5. box' \in [Boxes -> Devices \cup {None, Error}]
    BY <1>1, <2>3 DEF Typed
  <2>6. \A c \in Range(t) : /\ c.kind \in Boxes
                            /\ c.device = selected /\ c.device \in Devices
    BY <2>1, <2>2 DEF Boxes
  <2> QED
    BY <1>2, <2>2, <2>3, <2>4, <2>5, <2>6, OtherReturns
<1> QED
  BY <1>3, <1>4

\* A box shows the device it was asked for.
LEMMA BoxArrivesKeeps ==
    ASSUME IInv, NEW i \in DOMAIN calls, BoxArrives(i) PROVE IInv'
<1>1. Typed
  BY DEF IInv
<1>2. /\ calls[i].kind \in Boxes
      /\ box' = [box EXCEPT ![calls[i].kind] = calls[i].device]
      /\ Return(i, <<>>)
      /\ UNCHANGED <<devices, selected, buttons, hero, bound, asked>>
  BY DEF BoxArrives
<1>3. calls[i].kind # "list" /\ calls[i].kind \notin {"bind", "delete"}
  BY <1>2 DEF Boxes
<1>4. calls[i].device \in Devices
  <2>1. calls[i] \in Range(calls)
    BY <1>1, Elements DEF Typed
  <2> QED
    BY <1>1, <1>3, <2>1 DEF Typed
<1>5. /\ box' \in [Boxes -> Devices \cup {None, Error}]
      /\ \A b \in Boxes : \/ calls[i].kind = b /\ box'[b] = calls[i].device
                          \/ calls[i].kind # b /\ box'[b] = box[b]
  BY <1>1, <1>2, <1>4 DEF Typed
<1>6. buttons' \in SUBSET devices
  BY <1>1, <1>2 DEF Typed
<1> QED
  BY <1>2, <1>3, <1>5, <1>6, NoCall, OtherReturns

\* An error is shown in place of what was asked for.
LEMMA ErrorArrivesKeeps ==
    ASSUME IInv, NEW i \in DOMAIN calls, ErrorArrives(i) PROVE IInv'
<1>1. Typed /\ Selection
  BY DEF IInv
<1>2. /\ calls[i].answer = "error"
      /\ buttons' = IF calls[i].kind \in {"list", "rename", "delete"} THEN {} ELSE buttons
      /\ box' = [b \in Boxes |->
                   IF calls[i].kind = b \/ (calls[i].kind = "send" /\ b = "messages")
                   THEN Error ELSE box[b]]
      /\ Return(i, <<>>)
      /\ UNCHANGED <<devices, selected, hero, bound, asked>>
  BY DEF ErrorArrives
<1>3. calls[i].kind = "list" => failures # 0 /\ buttons' = {}
  <2>1. calls[i] \in Range(calls)
    BY <1>1, Elements DEF Typed
  <2> QED
    BY <1>1, <1>2, <2>1 DEF Selection
<1>4. \A b \in Boxes : \/ box'[b] = Error
                       \/ calls[i].kind # b /\ box'[b] = box[b]
  BY <1>2
<1>5. box' \in [Boxes -> Devices \cup {None, Error}]
  <2>1. \A b \in Boxes : box[b] \in Devices \cup {None, Error}
    BY <1>1 DEF Typed
  <2>2. \A b \in Boxes : box'[b] \in Devices \cup {None, Error}
    BY <1>4, <2>1
  <2>3. box' = [b \in Boxes |-> box'[b]]
    BY <1>2
  <2> QED
    BY <2>2, <2>3
<1>6. buttons' \in SUBSET devices
  BY <1>1, <1>2 DEF Typed
<1> QED
  BY <1>2, <1>3, <1>4, <1>5, <1>6, NoCall, OtherReturns

-----------------------------------------------------------------------------
(* The theorems.                                                           *)

\* Every step keeps the invariant.
LEMMA NextInvariant == IInv /\ [Next]_vars => IInv'
<1> SUFFICES ASSUME IInv, [Next]_vars PROVE IInv'
  OBVIOUS
<1>1. CASE \E d \in Devices : SelectDevice(d) \/ BindDevice(d) \/ ChangedElsewhere(d)
  BY <1>1, SelectDeviceKeeps, BindDeviceKeeps, ChangedElsewhereKeeps
<1>2. CASE EnterToken \/ ListDevices \/ UpdateHero
  BY <1>2, EnterTokenKeeps, ListDevicesKeeps, UpdateHeroKeeps
<1>3. CASE \E kind \in {"rename", "delete", "send"} : ActOnSelected(kind)
  BY <1>3, ActOnSelectedKeeps
<1>4. CASE \E b \in Boxes : RefreshBox(b)
  BY <1>4, RefreshBoxKeeps
<1>5. CASE \E i \in DOMAIN calls : Serve(i) \/ CallFails(i)
  BY <1>5, ServeKeeps, CallFailsKeeps
<1>6. CASE \E i \in DOMAIN calls :
             ListArrives(i) \/ BindArrives(i) \/ DeleteArrives(i) \/ RenameArrives(i)
  BY <1>6, ListArrivesKeeps, ChangeArrivesKeeps
<1>7. CASE \E i \in DOMAIN calls : SendArrives(i) \/ BoxArrives(i) \/ ErrorArrives(i)
  BY <1>7, SendArrivesKeeps, BoxArrivesKeeps, ErrorArrivesKeeps
<1>8. CASE UNCHANGED vars
  BY <1>8 DEF vars, IInv, Typed, Selection, Shown, SelectedDevice, PageCurrent,
                  ListCurrent, BoxCurrent
<1> QED
  BY <1>1, <1>2, <1>3, <1>4, <1>5, <1>6, <1>7, <1>8 DEF Next

\* For any number of clicks, answers in any order, failures and changes in
\* other browsers, with a token or without.
THEOREM InductiveInvariant == Spec => []IInv
  BY InitTyped, NextInvariant, PTL DEF Spec

\* When every call has returned and the last refreshDevices did ask, the page
\* shows the selected device as such and it is one of its list, in whatever order
\* the calls returned and whichever failed; else it has an error or no device
\* where the list is, and with no failed call nothing to select (app.js:150-169).
THEOREM SelectionIsShown == Spec => []SelectionSettles
<1>1. IInv => SelectionSettles
  BY NoCall DEF IInv, Selection, SelectionSettles, Settled
<1> QED
  BY <1>1, InductiveInvariant, PTL

\* When every call has returned and the last refreshDevices did ask, no call has
\* failed, no answer overtook one like it and nothing changed elsewhere, the page
\* shows the devices the hub has, and the boxes the data of the selected one, or
\* an error (app.js:143-163, 187-197).
THEOREM PageIsCurrent == Spec => []PageSettles
<1>1. ASSUME IInv PROVE PageSettles
  <2> SUFFICES ASSUME calls = <<>>, asked, failures = 0, ~overtaken, elsewhere = 0
               PROVE  /\ devices = owned
                      /\ \A b \in Boxes : selected # None => box[b] \in {selected, Error}
    BY DEF PageSettles, Settled
  <2>1. /\ ListCurrent /\ \A b \in Boxes : BoxCurrent(b)
        /\ \A kind : ~Calling(calls, kind)
        /\ ~Changed(calls)
    BY <1>1, NoCall DEF IInv, PageCurrent, Changed
  <2> QED
    BY <2>1 DEF ListCurrent, BoxCurrent
<1> QED
  BY <1>1, InductiveInvariant, PTL

\* A device is renamed or deleted and a message is sent only to the device the
\* page shows as selected, or to the one that was bound last while no list has
\* arrived since (app.js:141-144, 201-236); whatever calls are under way, failed
\* or were not made, and whatever changed elsewhere.
THEOREM ActsOnWhatIsShown == Spec => ActsOnShownDevice
<1>1. ASSUME IInv, NEW kind \in {"rename", "delete", "send"}, ActOnSelected(kind)
      PROVE  SelectedDevice \in {hero, bound}
  BY <1>1 DEF IInv, Shown, ActOnSelected
<1>2. IInv => \A kind \in {"rename", "delete", "send"} :
                 ActOnSelected(kind) => SelectedDevice \in {hero, bound}
  BY <1>1
<1> QED
  BY <1>2, InductiveInvariant, PTL DEF ActsOnShownDevice
====
