---- MODULE TelemetryLogProofs ----
(***************************************************************************)
(* Proofs about TelemetryLog, for any requests, batch sizes, retention and *)
(* limit, and any number of failed writes and kills: its log is well       *)
(* formed, a failure costs one report at most, and while nothing fails     *)
(* batches are in order and lists complete.                                *)
(***************************************************************************)
EXTENDS TelemetryLog, FiniteSetTheorems, SequenceTheorems, WellFoundedInduction, TLAPS

LastLine(file) == file.lines[Len(file.lines)]
Writing(r) == pc[r] = "writing"

\* The lock, and what the line without its line feed is.
OpenLine ==
    /\ \A r, q \in Requests : Writing(r) /\ Writing(q) => r = q
    /\ \A r \in Requests : Writing(r) => up /\ ~log.ended
    /\ ~log.ended =>
        /\ log.lines # <<>>
        /\ LastLine(log) # Damaged =>
            /\ LastLine(log).item = Len(stored[LastLine(log).req]) + 1
            /\ \A r \in Requests : Writing(r) => LastLine(log) = NextReport(r)

\* What was stored of a request is its first items.
StoredItems ==
    \A r \in Requests : \A i \in DOMAIN stored[r] :
        stored[r][i].req = r /\ stored[r][i].item = i

\* Ids increase along the file, and the next one is above them: only the line
\* that has no line feed yet may have it already.
IdsBelowNext ==
    up => \A i \in WholeAt(log) :
        \/ log.lines[i].id < nextId
        \/ log.lines[i].id = nextId /\ i = Len(log.lines) /\ ~log.ended

Stored == UNION {Elements(stored[r]) : r \in Requests}
Lost == Stored \ Whole(log)

\* The line feed of this line will store the report that it holds.
Safe == log.ended \/ \E r \in Requests : Writing(r) /\ LastLine(log) # Damaged

\* Each failed write and kill loses a report, or has left a line open that will.
LossCounted ==
    /\ IsFiniteSet(Lost)
    /\ Cardinality(Lost) + (IF Safe THEN 0 ELSE 1) <= faults + crashes

\* The lines of r, while nothing failed: the stored items and the one under way.
ItemsAt(r) == {i \in WholeAt(log) : log.lines[i].req = r}
UnderWay(r) == IF Writing(r) THEN {NextReport(r)} ELSE {}
Ahead(r) == IF Writing(r) THEN 1 ELSE 0

InOrder ==
    /\ Readable(log)
    /\ Safe
    /\ \A r \in Requests :
        /\ \A i \in ItemsAt(r) :
            log.lines[i].item = Cardinality({j \in ItemsAt(r) : j <= i})
        /\ Cardinality(ItemsAt(r)) = Len(stored[r]) + Ahead(r)
        /\ {log.lines[i] : i \in ItemsAt(r)} = Elements(stored[r]) \cup UnderWay(r)
        /\ pc[r] = "ok" => Len(stored[r]) = Size[r]
        /\ pc[r] \in {"ready", "writing"} => Len(stored[r]) < Size[r]

IInv ==
    /\ WellFormed
    /\ OpenLine
    /\ StoredItems
    /\ IdsBelowNext
    /\ LossCounted
    /\ Undisturbed => InOrder
    /\ ListsComplete

-----------------------------------------------------------------------------
(* Lines and files.                                                        *)

Line == Report \cup {Damaged}
File == [lines : Seq(Line), ended : BOOLEAN]

\* A report is not damaged, and has its three fields.
LEMMA ReportTyped ==
    ASSUME NEW x \in Report
    PROVE  x # Damaged /\ x.id \in Nat \ {0} /\ x.req \in Requests /\ x.item \in Nat \ {0}
  BY DamagedAssumption DEF Report

\* The lines of a file, by their places.
LEMMA FileTyped ==
    ASSUME NEW file \in File
    PROVE  /\ file.lines \in Seq(Line) /\ Len(file.lines) \in Nat
           /\ DOMAIN file.lines = 1..Len(file.lines)
           /\ \A i \in DOMAIN file.lines : file.lines[i] \in Line
           /\ \A i \in WholeAt(file) : i \in DOMAIN file.lines /\ file.lines[i] \in Report
<1>1. file.lines \in Seq(Line)
  BY DEF File
<1>2. QED
  BY <1>1 DEF WholeAt, Line

\* A report goes to a new line, or damages the line without a line feed.
LEMMA WrittenLines ==
    ASSUME NEW file \in File, NEW line \in Line, file.ended \/ file.lines # <<>>,
           NEW w, w = Written(file, line)
    PROVE  /\ w \in File /\ ~w.ended /\ w.lines # <<>>
           /\ file.ended =>
                /\ Len(w.lines) = Len(file.lines) + 1
                /\ w.lines[Len(w.lines)] = line
                /\ \A i \in 1..Len(file.lines) : w.lines[i] = file.lines[i]
           /\ ~file.ended =>
                /\ Len(w.lines) = Len(file.lines)
                /\ w.lines[Len(w.lines)] = Damaged
                /\ \A i \in 1..Len(file.lines) : i # Len(file.lines) => w.lines[i] = file.lines[i]
<1>1. /\ file.lines \in Seq(Line) /\ Len(file.lines) \in Nat
      /\ DOMAIN file.lines = 1..Len(file.lines) /\ file.ended \in BOOLEAN
  BY FileTyped DEF File
<1>2. CASE file.ended
  <2>1. w.lines = Append(file.lines, line) /\ w.ended = FALSE /\ w = [lines |-> w.lines, ended |-> w.ended]
    BY <1>2 DEF Written
  <2>2. /\ Append(file.lines, line) \in Seq(Line)
        /\ Len(Append(file.lines, line)) = Len(file.lines) + 1
        /\ Append(file.lines, line)[Len(file.lines) + 1] = line
        /\ \A i \in 1..Len(file.lines) : Append(file.lines, line)[i] = file.lines[i]
    BY <1>1
  <2>3. w \in File
    BY <2>1, <2>2 DEF File
  <2>4. w.lines # <<>>
    BY <1>1, <2>1, <2>2
  <2>5. QED
    BY <1>2, <2>1, <2>2, <2>3, <2>4
<1>3. CASE ~file.ended
  <2> DEFINE n == Len(file.lines)
             l == [file.lines EXCEPT ![n] = Damaged]
  <2>1. w = [file EXCEPT !.lines = l]
    BY <1>3 DEF Written
  <2>2. n \in 1..n
    BY <1>1, <1>3
  <2>3. /\ l \in Seq(Line) /\ Len(l) = n /\ l[n] = Damaged
        /\ \A i \in 1..n : i # n => l[i] = file.lines[i]
    <3>1. Damaged \in Line
      BY DEF Line
    <3>2. l \in [1..n -> Line]
      <4>1. file.lines \in [1..n -> Line]
        BY <1>1
      <4>2. QED
        BY <3>1, <4>1
    <3>3. l \in Seq(Line) /\ Len(l) = n
      BY <1>1, <3>2
    <3>4. l[n] = Damaged /\ \A i \in 1..n : i # n => l[i] = file.lines[i]
      BY <1>1, <2>2
    <3>5. QED
      BY <3>3, <3>4
  <2> HIDE DEF l
  <2>4. w.lines = l /\ w.ended = file.ended /\ w \in File
    BY <2>1, <2>3 DEF File
  <2>5. w.lines # <<>>
    BY <2>2, <2>3, <2>4
  <2>6. QED
    BY <1>3, <2>3, <2>4, <2>5
<1>4. QED
  BY <1>1, <1>2, <1>3

\* The id that a restart works out is above those of all lines, though it reads
\* the last ones only.
LEMMA NextIdAbove ==
    ASSUME NEW file \in File, Readable(file),
           \A i, j \in DOMAIN file.lines : i < j => file.lines[i].id < file.lines[j].id
    PROVE  /\ NextIdOf(file) \in Nat \ {0}
           /\ \A i \in DOMAIN file.lines : file.lines[i].id < NextIdOf(file)
<1> DEFINE Candidates == {1} \cup {x.id + 1 : x \in Recent(file)}
           Above(n) == \A x \in Recent(file) : x.id < n
<1>1. /\ Len(file.lines) \in Nat /\ DOMAIN file.lines = 1..Len(file.lines)
      /\ \A i \in DOMAIN file.lines : file.lines[i] \in Report /\ file.lines[i].id \in Nat \ {0}
  BY FileTyped, ReportTyped DEF Readable, Line
<1>2. \A x \in Recent(file) : \E i \in DOMAIN file.lines : x = file.lines[i]
  BY DEF Recent, RecentAt
<1>3. Candidates \subseteq Nat \ {0}
  BY <1>1, <1>2
<1>4. \E n \in Candidates : Above(n)
  <2>1. CASE Len(file.lines) = 0
    <3>1. Recent(file) = {}
      BY <1>1, <1>2, <2>1
    <3>2. QED
      BY <3>1
  <2>2. CASE Len(file.lines) # 0
    <3> DEFINE k == Len(file.lines)
    <3>1. k \in DOMAIN file.lines /\ k \in RecentAt(file)
      BY <1>1, <2>2, SizesAssumption DEF RecentAt
    <3>2. file.lines[k] \in Recent(file)
      BY <3>1 DEF Recent
    <3>3. \A i \in DOMAIN file.lines : file.lines[i].id < file.lines[k].id + 1
      <4>1. TAKE i \in DOMAIN file.lines
      <4>2. i < k \/ i = k
        BY <1>1
      <4>3. file.lines[i].id \in Nat /\ file.lines[k].id \in Nat
        BY <1>1, <3>1
      <4>4. file.lines[i].id < file.lines[k].id \/ file.lines[i].id = file.lines[k].id
        BY <3>1, <4>2
      <4>5. QED
        BY <4>3, <4>4
    <3>4. Above(file.lines[k].id + 1)
      BY <1>2, <3>3
    <3>5. QED
      BY <3>2, <3>4
  <2>3. QED
    BY <2>1, <2>2
<1>5. NextIdOf(file) = CHOOSE n \in Candidates : Above(n)
  BY DEF NextIdOf
<1> HIDE DEF Candidates
<1>6. NextIdOf(file) \in Candidates /\ Above(NextIdOf(file))
  BY <1>4, <1>5
<1>7. NextIdOf(file) \in Nat \ {0}
  BY <1>3, <1>6
<1>8. \A i \in DOMAIN file.lines : file.lines[i].id < NextIdOf(file)
  <2>1. TAKE i \in DOMAIN file.lines
  <2> DEFINE k == Len(file.lines)
  <2>2. k \in DOMAIN file.lines /\ k \in RecentAt(file)
    BY <1>1, SizesAssumption DEF RecentAt
  <2>3. file.lines[k].id < NextIdOf(file)
    BY <1>6, <2>2 DEF Recent
  <2>4. i = k \/ file.lines[i].id < file.lines[k].id
    BY <1>1, <2>2
  <2>5. file.lines[i].id \in Nat /\ file.lines[k].id \in Nat
    BY <1>1, <2>2
  <2>6. QED
    BY <1>7, <2>3, <2>4, <2>5
<1>9. QED
  BY <1>7, <1>8

-----------------------------------------------------------------------------
(* Counting places.                                                        *)

\* A set of numbers has a least one.
LEMMA LeastOf ==
    ASSUME NEW S, S \subseteq Nat, S # {}
    PROVE  \E x \in S : \A y \in S : x <= y
<1> DEFINE Less == OpToRel(<, Nat)
<1>1. \A y, x \in Nat : y < x => <<y, x>> \in Less
  BY DEF OpToRel
<1>2. IsWellFoundedOn(Less, Nat)
  BY NatLessThanWellFounded
<1> HIDE DEF Less
<1>3. PICK x \in S : \A y \in S : <<y, x>> \notin Less
  BY <1>2, WFMin
<1>4. \A y \in S : x <= y
  <2>1. TAKE y \in S
  <2>2. x \in Nat /\ y \in Nat
    OBVIOUS
  <2>3. ~(y < x)
    BY <1>1, <1>3, <2>2, Zenon
  <2>4. QED
    BY <2>2, <2>3
<1>5. QED
  BY <1>4

\* A bounded set of numbers has a greatest one.
LEMMA GreatestOf ==
    ASSUME NEW n \in Nat, NEW S, S \subseteq 1..n, S # {}
    PROVE  \E x \in S : \A y \in S : y <= x
<1> DEFINE T == {n - y : y \in S}
<1>1. T \subseteq Nat /\ T # {}
  <2>1. \A y \in S : n - y \in Nat
    OBVIOUS
  <2>2. QED
    BY <2>1
<1> HIDE DEF T
<1>2. PICK z \in T : \A y \in T : z <= y
  BY <1>1, LeastOf
<1> USE DEF T
<1>3. PICK x \in S : z = n - x
  OBVIOUS
<1>4. \A y \in S : n - x <= n - y
  BY <1>2, <1>3
<1>5. \A y \in S : y <= x
  BY <1>4
<1>6. QED
  BY <1>5

\* Among places R of which at least k are above i, exactly k have fewer than k
\* above them.
LEMMA LastPlaces ==
    ASSUME NEW n \in Nat, NEW R, R \subseteq 1..n, NEW k \in Nat \ {0}, NEW i \in R,
           ~(Cardinality({j \in R : j > i}) < k)
    PROVE  Cardinality({h \in R : Cardinality({j \in R : j > h}) < k}) = k
<1> DEFINE Above(h) == {j \in R : j > h}
           Full == {h \in R : ~(Cardinality(Above(h)) < k)}
           Last == {h \in R : Cardinality(Above(h)) < k}
<1>1. IsFiniteSet(1..n)
  BY FS_Interval
<1>2. \A h \in R : IsFiniteSet(Above(h)) /\ Cardinality(Above(h)) \in Nat
  <2>1. TAKE h \in R
  <2>2. Above(h) \in SUBSET (1..n)
    OBVIOUS
  <2>3. QED
    BY <1>1, <2>2, FS_Subset, FS_CardinalityType
<1>3. PICK m \in Full : \A h \in Full : h <= m
  <2>1. Full \subseteq 1..n /\ Full # {}
    OBVIOUS
  <2> HIDE DEF Full
  <2>2. QED
    BY <2>1, GreatestOf
<1>4. m \in R /\ Cardinality(Above(m)) >= k
  <2>1. m \in R /\ ~(Cardinality(Above(m)) < k)
    BY <1>3
  <2>2. QED
    BY <1>2, <2>1
<1>5. Above(m) \subseteq Last
  <2>1. SUFFICES ASSUME NEW h \in R, h > m
                 PROVE  Cardinality(Above(h)) < k
    OBVIOUS
  <2>2. h \notin Full
    BY <1>3, <1>4, <2>1
  <2>3. QED
    BY <2>2
<1>6. Last \subseteq Above(m)
  <2>1. SUFFICES ASSUME NEW h \in Last, ~(h > m)
                 PROVE  FALSE
    OBVIOUS
  <2>2. Above(m) \in SUBSET Above(h)
    <3>1. \A j \in R : j > m => j > h
      BY <1>4, <2>1
    <3>2. QED
      BY <3>1
  <2>3. h \in R /\ Cardinality(Above(h)) < k
    BY <2>1
  <2>4. Cardinality(Above(m)) <= Cardinality(Above(h))
    BY <1>2, <2>2, <2>3, FS_Subset
  <2>5. QED
    BY <1>2, <1>4, <2>3, <2>4
<1>7. Above(m) = Last
  BY <1>5, <1>6
<1>8. PICK t \in Above(m) : \A h \in Above(m) : t <= h
  <2>1. Above(m) # {}
    BY <1>4, FS_EmptySet
  <2>2. R \subseteq Nat /\ Above(m) \subseteq R
    OBVIOUS
  <2> HIDE DEF Above
  <2>3. QED
    BY <2>1, <2>2, LeastOf
<1>9. t \in R /\ t > m /\ t \notin Above(t)
  BY <1>4, <1>8
<1>10. Above(m) = Above(t) \cup {t}
  <2>1. m \in Nat /\ t \in Nat /\ R \subseteq Nat
    BY <1>4, <1>9
  <2>2. \A h \in R : h > m <=> h > t \/ h = t
    BY <1>8, <1>9, <2>1
  <2>3. QED
    BY <1>9, <2>2
<1>11. Cardinality(Above(t)) < k
  BY <1>7, <1>8
<1>12. Cardinality(Above(m)) = Cardinality(Above(t)) + 1
  <2> HIDE DEF Above
  <2>1. QED
    BY <1>2, <1>9, <1>10, FS_AddElement
<1>13. Cardinality(Above(m)) = k
  BY <1>2, <1>4, <1>9, <1>11, <1>12
<1>14. QED
  BY <1>7, <1>13

Increasing(file) ==
    \A i, j \in WholeAt(file) : i < j => file.lines[i].id < file.lines[j].id

\* When ids increase, as many reports as places: no report is there twice.
LEMMA PlacesCounted ==
    ASSUME NEW file \in File, Increasing(file), NEW S \in SUBSET WholeAt(file)
    PROVE  /\ IsFiniteSet(S) /\ IsFiniteSet({file.lines[i] : i \in S})
           /\ Cardinality({file.lines[i] : i \in S}) = Cardinality(S)
<1> DEFINE T == {file.lines[i] : i \in S}
           f == [i \in S |-> file.lines[i]]
<1>1. WholeAt(file) \subseteq 1..Len(file.lines) /\ Len(file.lines) \in Nat
  BY FileTyped
<1>2. IsFiniteSet(S)
  <2>1. S \in SUBSET (1..Len(file.lines))
    BY <1>1
  <2>2. IsFiniteSet(1..Len(file.lines))
    BY <1>1, FS_Interval
  <2>3. QED
    BY <2>1, <2>2, FS_Subset
<1>3. \A i, j \in S : f[i] = f[j] => i = j
  <2>1. SUFFICES ASSUME NEW i \in S, NEW j \in S, file.lines[i] = file.lines[j]
                 PROVE  i = j
    OBVIOUS
  <2>2. i \in Nat /\ j \in Nat
    BY <1>1
  <2>3. file.lines[i].id \in Nat
    <3>1. file.lines[i] \in Report
      BY FileTyped
    <3>2. QED
      BY <3>1, ReportTyped
  <2>4. ~(i < j) /\ ~(j < i)
    BY <2>1, <2>3 DEF Increasing
  <2>5. QED
    BY <2>2, <2>4
<1>4. f \in [S -> T] /\ \A t \in T : \E i \in S : f[i] = t
  OBVIOUS
<1> HIDE DEF f
<1>5. f \in Bijection(S, T)
  BY <1>3, <1>4 DEF Bijection, Injection, Surjection, IsInjective
<1>6. ExistsBijection(S, T)
  BY <1>5 DEF ExistsBijection
<1> HIDE DEF T
<1>7. IsFiniteSet(T) /\ Cardinality(T) = Cardinality(S)
  BY <1>2, <1>6, FS_Bijection
<1>8. QED
  BY <1>2, <1>7 DEF T

\* What a list of a file that loads has: a report of the device is in it, or it
\* has as many as it may, or as many newer reports as are loaded are in the file.
LEMMA ListedEnough ==
    ASSUME NEW file \in File, Readable(file), Increasing(file), NEW d \in Devices,
           NEW i \in DOMAIN file.lines, DeviceOf[file.lines[i].req] = d
    PROVE  \/ file.lines[i] \in Listed(file, d)
           \/ Cardinality(Listed(file, d)) = Limit
           \/ Cardinality({y \in Whole(file) : y.id > file.lines[i].id}) >= MaxTelemetry
<1> DEFINE n == Len(file.lines)
           Newer == {y \in Whole(file) : y.id > file.lines[i].id}
<1>1. n \in Nat /\ DOMAIN file.lines = 1..n /\ WholeAt(file) = 1..n
  <2>1. n \in Nat /\ DOMAIN file.lines = 1..n
    BY FileTyped
  <2>2. WholeAt(file) = DOMAIN file.lines
    BY DEF Readable, WholeAt
  <2>3. QED
    BY <2>1, <2>2
<1>2. i \in 1..n
  BY <1>1
<1>3. CASE i \notin RecentAt(file)
  <2> DEFINE S == (i + 1)..n
             T == {file.lines[j] : j \in S}
  <2>1. i + MaxTelemetry <= n
    BY <1>1, <1>2, <1>3, SizesAssumption DEF RecentAt
  <2>2. Cardinality(S) = n - i
    <3>1. i + 1 \in Int /\ n \in Int /\ ~(i + 1 > n) /\ n - (i + 1) + 1 = n - i
      BY <1>1, <1>2, <2>1, SizesAssumption
    <3>2. Cardinality(S) = IF i + 1 > n THEN 0 ELSE n - (i + 1) + 1
      BY <3>1, FS_Interval
    <3>3. QED
      BY <3>1, <3>2
  <2>3. S \in SUBSET WholeAt(file)
    BY <1>1, <1>2
  <2>4. IsFiniteSet(T) /\ Cardinality(T) = n - i
    BY <2>2, <2>3, PlacesCounted
  <2>5. T \in SUBSET Newer
    <3>1. SUFFICES ASSUME NEW j \in S
                   PROVE  file.lines[j] \in Newer
      OBVIOUS
    <3>2. j \in WholeAt(file) /\ i \in WholeAt(file) /\ i < j
      BY <1>1, <1>2
    <3>3. file.lines[i].id < file.lines[j].id
      BY <3>2 DEF Increasing
    <3>4. file.lines[i].id \in Nat /\ file.lines[j].id \in Nat
      <4>1. file.lines[i] \in Report /\ file.lines[j] \in Report
        BY <3>2, FileTyped
      <4>2. QED
        BY <4>1, ReportTyped
    <3>5. QED
      BY <3>2, <3>3, <3>4 DEF Whole
  <2>6. IsFiniteSet(Newer)
    <3>1. IsFiniteSet(Whole(file))
      BY PlacesCounted DEF Whole
    <3>2. Newer \in SUBSET Whole(file)
      OBVIOUS
    <3>3. QED
      BY <3>1, <3>2, FS_Subset
  <2> HIDE DEF S, T, Newer
  <2>7. Cardinality(T) <= Cardinality(Newer)
    BY <2>5, <2>6, FS_Subset
  <2>8. Cardinality(Newer) \in Nat
    BY <2>6, FS_CardinalityType
  <2>9. Cardinality(Newer) >= MaxTelemetry
    BY <1>1, <1>2, <2>1, <2>4, <2>7, <2>8, SizesAssumption
  <2>10. QED
    BY <2>9 DEF Newer
<1>4. CASE i \in RecentAt(file) /\ i \in ListedAt(file, d)
  BY <1>4 DEF Listed
<1>5. CASE i \in RecentAt(file) /\ i \notin ListedAt(file, d)
  <2> DEFINE R == ReportsAt(file, d)
  <2>1. R \subseteq 1..n /\ i \in R
    BY <1>1, <1>5 DEF ReportsAt, RecentAt
  <2>2. ~(Cardinality({j \in R : j > i}) < Limit)
    BY <1>5, <2>1 DEF ListedAt
  <2>3. ListedAt(file, d) = {h \in R : Cardinality({j \in R : j > h}) < Limit}
    BY DEF ListedAt
  <2> HIDE DEF R
  <2>4. Cardinality(ListedAt(file, d)) = Limit
    BY <1>1, <2>1, <2>2, <2>3, SizesAssumption, LastPlaces
  <2>5. ListedAt(file, d) \in SUBSET WholeAt(file)
    BY <1>1, <2>1, <2>3
  <2>6. Listed(file, d) = {file.lines[j] : j \in ListedAt(file, d)}
    BY DEF Listed
  <2>7. QED
    BY <2>4, <2>5, <2>6, PlacesCounted
<1>6. QED
  BY <1>3, <1>4, <1>5

-----------------------------------------------------------------------------
(* What a write does to the log.                                           *)

\* The types of a state, with the file's.
LEMMA StateTyped ==
    ASSUME TypeOK
    PROVE  /\ log \in File /\ log.ended \in BOOLEAN
           /\ nextId \in Nat \ {0}
           /\ faults \in Nat /\ crashes \in Nat
           /\ \A r \in Requests : /\ stored[r] \in Seq(Report) /\ Len(stored[r]) \in Nat
                                  /\ NextReport(r) \in Report
<1>1. log \in File
  BY DEF TypeOK, File, Line
<1>2. \A r \in Requests : /\ stored[r] \in Seq(Report) /\ Len(stored[r]) \in Nat
                          /\ NextReport(r) \in Report
  <2>1. TAKE r \in Requests
  <2>2. stored[r] \in Seq(Report)
    BY DEF TypeOK
  <2>3. Len(stored[r]) + 1 \in Nat \ {0}
    BY <2>2
  <2>4. nextId \in Nat \ {0}
    BY DEF TypeOK
  <2>5. QED
    BY <2>2, <2>3, <2>4 DEF NextReport, Report
<1>3. nextId \in Nat \ {0} /\ faults \in Nat /\ crashes \in Nat
  BY BoundsAssumption DEF TypeOK
<1>4. QED
  BY <1>1, <1>2, <1>3 DEF File

\* A write damages no line of a stored report: the line that it may continue
\* holds a report that is not stored yet.
LEMMA WrittenKeepsStored ==
    ASSUME TypeOK, OpenLine, StoredItems, NEW line \in Line, NEW w, w = Written(log, line)
    PROVE  Stored \cap Whole(log) \subseteq Whole(w)
<1>1. SUFFICES ASSUME NEW r \in Requests, NEW k \in DOMAIN stored[r], NEW i \in WholeAt(log),
                      log.lines[i] = stored[r][k]
               PROVE  log.lines[i] \in Whole(w)
  BY DEF Stored, Elements, Whole
<1>2. log \in File /\ stored[r] \in Seq(Report)
  BY StateTyped
<1>3. /\ Len(log.lines) \in Nat /\ DOMAIN log.lines = 1..Len(log.lines)
      /\ i \in 1..Len(log.lines) /\ log.lines[i] \in Report
  BY <1>2, FileTyped
<1>4. log.ended \/ i # Len(log.lines)
  <2>1. SUFFICES ASSUME ~log.ended, i = Len(log.lines)
                 PROVE  FALSE
    OBVIOUS
  <2>2. LastLine(log) = stored[r][k] /\ LastLine(log) # Damaged
    BY <1>1, <1>3, <2>1, ReportTyped DEF LastLine
  <2>3. LastLine(log).item = Len(stored[LastLine(log).req]) + 1
    BY <2>1, <2>2 DEF OpenLine
  <2>4. stored[r][k].req = r /\ stored[r][k].item = k
    BY DEF StoredItems
  <2>5. k = Len(stored[r]) + 1
    BY <2>2, <2>3, <2>4
  <2>6. k \in 1..Len(stored[r]) /\ Len(stored[r]) \in Nat
    BY <1>2
  <2>7. QED
    BY <2>5, <2>6
<1>5. log.ended \/ log.lines # <<>>
  BY DEF OpenLine
<1>6. i \in 1..Len(w.lines) /\ w.lines[i] = log.lines[i] /\ w \in File
  BY <1>2, <1>3, <1>4, <1>5, WrittenLines
<1>7. i \in WholeAt(w)
  BY <1>3, <1>6, FileTyped, ReportTyped DEF WholeAt
<1>8. QED
  BY <1>6, <1>7 DEF Whole

\* After a write ids increase, and the next one is at most that of its line.
LEMMA WrittenIds ==
    ASSUME TypeOK, IdsIncrease, IdsBelowNext, OpenLine, up,
           NEW line \in Line, line # Damaged => line.id = nextId,
           NEW w, w = Written(log, line)
    PROVE  /\ Increasing(w)
           /\ \A i \in WholeAt(w) :
                w.lines[i].id < nextId \/ (w.lines[i].id = nextId /\ i = Len(w.lines))
<1>1. log \in File /\ nextId \in Nat
  BY StateTyped
<1>2. log.ended \/ log.lines # <<>>
  BY DEF OpenLine
<1>3. w \in File /\ Len(w.lines) \in Nat /\ DOMAIN w.lines = 1..Len(w.lines)
      /\ WholeAt(w) \subseteq 1..Len(w.lines)
  <2>1. w \in File
    BY <1>1, <1>2, WrittenLines
  <2>2. QED
    BY <2>1, FileTyped
<1>4. \A i \in WholeAt(w) : i # Len(w.lines) =>
        i \in WholeAt(log) /\ w.lines[i] = log.lines[i] /\ log.lines[i].id < nextId
  <2>1. SUFFICES ASSUME NEW i \in WholeAt(w), i # Len(w.lines)
                 PROVE  i \in WholeAt(log) /\ w.lines[i] = log.lines[i] /\ log.lines[i].id < nextId
    OBVIOUS
  <2>2. /\ Len(log.lines) \in Nat /\ DOMAIN log.lines = 1..Len(log.lines)
        /\ i \in 1..Len(w.lines) /\ w.lines[i] # Damaged
    BY <1>1, <1>3, FileTyped DEF WholeAt
  <2>3. /\ i \in 1..Len(log.lines) /\ w.lines[i] = log.lines[i]
        /\ log.ended \/ i # Len(log.lines)
    <3>1. CASE log.ended
      BY <1>1, <1>2, <1>3, <2>1, <2>2, <3>1, WrittenLines
    <3>2. CASE ~log.ended
      BY <1>1, <1>2, <1>3, <2>1, <2>2, <3>2, WrittenLines
    <3>3. QED
      BY <3>1, <3>2
  <2>4. i \in WholeAt(log)
    BY <2>2, <2>3 DEF WholeAt
  <2>5. log.lines[i].id < nextId
    BY <2>3, <2>4 DEF IdsBelowNext
  <2>6. QED
    BY <2>3, <2>4, <2>5
<1>5. \A i \in WholeAt(w) : i = Len(w.lines) => w.lines[i].id = nextId
  BY <1>1, <1>2, WrittenLines DEF WholeAt
<1>6. Increasing(w)
  <2>1. SUFFICES ASSUME NEW i \in WholeAt(w), NEW j \in WholeAt(w), i < j
                 PROVE  w.lines[i].id < w.lines[j].id
    BY DEF Increasing
  <2>2. i # Len(w.lines)
    BY <1>3, <2>1
  <2>3. CASE j = Len(w.lines)
    BY <1>4, <1>5, <2>2, <2>3
  <2>4. CASE j # Len(w.lines)
    BY <1>4, <2>1, <2>2, <2>4 DEF IdsIncrease
  <2>5. QED
    BY <2>3, <2>4
<1>7. QED
  BY <1>4, <1>5, <1>6

-----------------------------------------------------------------------------
(* The steps, whatever failed before.                                      *)

\* The parts of the invariant that hold through failures and kills.
Always == WellFormed /\ OpenLine /\ StoredItems /\ IdsBelowNext /\ LossCounted

\* A step that loses no other report, and counts a failure if it leaves a line
\* that the next report will be lost to.
LEMMA LossKept ==
    ASSUME TypeOK, TypeOK', LossCounted, Lost' \subseteq Lost,
           \/ faults' + crashes' = faults + crashes + 1
           \/ faults' + crashes' = faults + crashes /\ (Safe => Safe')
    PROVE  LossCounted'
<1>1. faults + crashes \in Nat /\ faults' + crashes' \in Nat
  <2>1. faults \in 0..MaxFaults /\ crashes \in 0..MaxCrashes
    BY DEF TypeOK
  <2>2. faults' \in 0..MaxFaults /\ crashes' \in 0..MaxCrashes
    BY DEF TypeOK
  <2>3. faults \in Nat /\ crashes \in Nat /\ faults' \in Nat /\ crashes' \in Nat
    <3>1. \A m \in Nat : \A n \in 0..m : n \in Nat
      OBVIOUS
    <3>2. QED
      BY <2>1, <2>2, <3>1, BoundsAssumption, Zenon
  <2>4. \A m, n \in Nat : m + n \in Nat
    OBVIOUS
  <2>5. QED
    BY <2>3, <2>4, Zenon
<1>2. IsFiniteSet(Lost) /\ Cardinality(Lost) + (IF Safe THEN 0 ELSE 1) <= faults + crashes
  BY DEF LossCounted
<1>3. IsFiniteSet(Lost') /\ Cardinality(Lost') <= Cardinality(Lost)
  BY <1>2, FS_Subset
<1>4. Cardinality(Lost) \in Nat /\ Cardinality(Lost') \in Nat
  BY <1>2, <1>3, FS_CardinalityType
<1>5. Cardinality(Lost') + (IF Safe' THEN 0 ELSE 1) <= faults' + crashes'
  <2>1. CASE faults' + crashes' = faults + crashes + 1
    BY <1>1, <1>2, <1>3, <1>4, <2>1
  <2>2. CASE faults' + crashes' = faults + crashes /\ (Safe => Safe')
    BY <1>1, <1>2, <1>3, <1>4, <2>2
  <2>3. QED
    BY <2>1, <2>2
<1>6. QED
  BY <1>3, <1>5 DEF LossCounted

\* A step that writes nothing and stores nothing.
LEMMA LogKept ==
    ASSUME Always, TypeOK', UNCHANGED <<log, stored>>,
           \A q \in Requests : Writing(q)' => Writing(q) /\ up' /\ nextId' = nextId,
           \/ faults' + crashes' = faults + crashes + 1
           \/ faults' + crashes' = faults + crashes /\ UNCHANGED pc
    PROVE  IdsIncrease' /\ OpenLine' /\ StoredItems' /\ LossCounted'
<1>1. IdsIncrease'
  BY DEF Always, WellFormed, IdsIncrease, WholeAt
<1>2. OpenLine'
  <2>1. OpenLine
    BY DEF Always
  <2>2. \A q \in Requests : Writing(q)' => NextReport(q)' = NextReport(q)
    BY DEF NextReport
  <2>3. QED
    BY <2>1, <2>2 DEF OpenLine, LastLine
<1>3. StoredItems'
  BY DEF Always, StoredItems
<1>4. LossCounted'
  <2>1. Lost' = Lost
    BY DEF Lost, Stored, Whole, WholeAt
  <2>2. UNCHANGED pc => (Safe => Safe')
    BY DEF Safe, Writing, LastLine
  <2>3. TypeOK /\ LossCounted
    BY DEF Always, WellFormed
  <2>4. QED
    BY <2>1, <2>2, <2>3, LossKept
<1>5. QED
  BY <1>1, <1>2, <1>3, <1>4

\* WriteReport: the report's id is free.
LEMMA WriteReportAlways ==
    ASSUME Always, NEW r \in Requests, WriteReport(r)
    PROVE  Always'
<1>1. TypeOK /\ OpenLine /\ StoredItems /\ IdsBelowNext /\ LossCounted /\ IdsIncrease
  BY DEF Always, WellFormed
<1> DEFINE x == NextReport(r)
<1>2. log \in File /\ x \in Report /\ x \in Line /\ x # Damaged
  BY <1>1, StateTyped, ReportTyped DEF Line
<1>3. x.id = nextId /\ x.req = r /\ x.item = Len(stored[r]) + 1
  BY DEF NextReport
<1>4. up = TRUE /\ log' = Written(log, x)
  BY DEF WriteReport
<1>5. /\ pc[r] = "ready" /\ Unlocked /\ pc' = [pc EXCEPT ![r] = "writing"]
      /\ UNCHANGED <<up, nextId, stored, view, faults, crashes>>
  BY DEF WriteReport
<1> HIDE DEF x
<1>6. log.ended \/ log.lines # <<>>
  BY <1>1 DEF OpenLine
<1>7. log' \in File /\ ~log'.ended /\ log'.lines # <<>>
  BY <1>2, <1>4, <1>6, WrittenLines
<1>8. TypeOK'
  <2>1. log' \in [lines : Seq(Report \cup {Damaged}), ended : BOOLEAN]
    BY <1>7 DEF File, Line
  <2>2. pc' \in [Requests -> {"ready", "writing", "ok", "error", "lost"}]
    BY <1>1, <1>5 DEF TypeOK
  <2>3. QED
    BY <1>1, <1>5, <2>1, <2>2 DEF TypeOK
<1>9. IdsIncrease' /\ IdsBelowNext'
  <2>1. Increasing(log') /\ \A i \in WholeAt(log') :
          log'.lines[i].id < nextId \/ (log'.lines[i].id = nextId /\ i = Len(log'.lines))
    BY <1>1, <1>2, <1>3, <1>4, WrittenIds
  <2>2. IdsIncrease'
    BY <2>1 DEF Increasing, IdsIncrease, WholeAt
  <2>3. IdsBelowNext'
    BY <1>5, <1>7, <2>1 DEF IdsBelowNext, WholeAt
  <2>4. QED
    BY <2>2, <2>3
<1>10. \A q \in Requests : ~Writing(q) /\ (Writing(q)' <=> q = r)
  BY <1>1, <1>5 DEF TypeOK, Unlocked, Writing
<1>11. LastLine(log)' = IF log.ended THEN x ELSE Damaged
  BY <1>2, <1>4, <1>6, WrittenLines DEF LastLine
<1>12. OpenLine'
  <2>1. NextReport(r)' = x
    BY <1>5 DEF NextReport, x
  <2>2. \A q \in Requests : Writing(q)' => up' /\ ~log'.ended
    BY <1>4, <1>5, <1>7
  <2>3. LastLine(log)' # Damaged => LastLine(log)' = x
    BY <1>11
  <2>4. x.item = Len(stored'[x.req]) + 1
    BY <1>3, <1>5
  <2>5. QED
    BY <1>7, <1>10, <2>1, <2>2, <2>3, <2>4 DEF OpenLine
<1>13. LossCounted'
  <2>1. Stored \cap Whole(log) \subseteq Whole(log')
    BY <1>1, <1>2, <1>4, WrittenKeepsStored
  <2>2. Stored' = Stored /\ Whole(log)' = Whole(log')
    BY <1>5 DEF Stored, Elements, Whole, WholeAt
  <2>3. Lost' \subseteq Lost
    BY <2>1, <2>2 DEF Lost
  <2>4. Safe => Safe'
    BY <1>2, <1>10, <1>11 DEF Safe
  <2>5. faults' + crashes' = faults + crashes
    BY <1>5
  <2>6. QED
    BY <1>1, <1>8, <2>3, <2>4, <2>5, LossKept
<1>14. StoredItems'
  BY <1>1, <1>5 DEF StoredItems
<1>15. QED
  BY <1>8, <1>9, <1>12, <1>13, <1>14 DEF Always, WellFormed

\* WriteReportFails: the file does not open, or has a damaged line at its end.
LEMMA WriteReportFailsAlways ==
    ASSUME Always, NEW r \in Requests, WriteReportFails(r)
    PROVE  Always'
<1>1. TypeOK /\ OpenLine /\ StoredItems /\ IdsBelowNext /\ LossCounted /\ IdsIncrease
  BY DEF Always, WellFormed
<1>2. up = TRUE
  BY DEF WriteReportFails
<1>3. /\ Unlocked /\ pc' = [pc EXCEPT ![r] = "error"]
      /\ faults < MaxFaults /\ faults' = faults + 1
      /\ UNCHANGED <<up, nextId, stored, view, crashes>>
  BY DEF WriteReportFails
<1>4. log' = log \/ log' = Written(log, Damaged)
  BY DEF WriteReportFails
<1>5. log \in File /\ Damaged \in Line /\ (log.ended \/ log.lines # <<>>)
  BY <1>1, StateTyped DEF OpenLine, Line
<1>6. TypeOK'
  <2>1. log' \in [lines : Seq(Report \cup {Damaged}), ended : BOOLEAN]
    BY <1>4, <1>5, WrittenLines DEF File, Line
  <2>2. pc' \in [Requests -> {"ready", "writing", "ok", "error", "lost"}]
    BY <1>1, <1>3 DEF TypeOK
  <2>3. faults' \in 0..MaxFaults
    <3>1. faults \in 0..MaxFaults
      BY <1>1 DEF TypeOK
    <3>2. QED
      BY <1>3, <3>1, BoundsAssumption
  <2>4. QED
    BY <1>1, <1>3, <2>1, <2>2, <2>3 DEF TypeOK
<1>7. \A q \in Requests : ~Writing(q) /\ ~Writing(q)'
  BY <1>1, <1>3 DEF TypeOK, Unlocked, Writing
<1>8. faults' + crashes' = faults + crashes + 1
  <2>1. faults \in Nat /\ crashes \in Nat
    BY <1>1, StateTyped
  <2>2. QED
    BY <1>3, <2>1
<1>9. CASE log' = log
  <2>1. IdsIncrease' /\ OpenLine' /\ StoredItems' /\ LossCounted'
    BY <1>3, <1>6, <1>7, <1>8, <1>9, LogKept
  <2>2. IdsBelowNext'
    BY <1>1, <1>3, <1>9 DEF IdsBelowNext, WholeAt
  <2>3. QED
    BY <1>6, <2>1, <2>2 DEF Always, WellFormed
<1>10. CASE log' = Written(log, Damaged)
  <2>1. ~log'.ended /\ log'.lines # <<>> /\ LastLine(log)' = Damaged
    BY <1>5, <1>10, WrittenLines DEF LastLine
  <2>2. IdsIncrease' /\ IdsBelowNext'
    <3>1. Increasing(log') /\ \A i \in WholeAt(log') :
            log'.lines[i].id < nextId \/ (log'.lines[i].id = nextId /\ i = Len(log'.lines))
      BY <1>1, <1>2, <1>5, <1>10, WrittenIds
    <3>2. IdsIncrease'
      BY <3>1 DEF Increasing, IdsIncrease, WholeAt
    <3>3. IdsBelowNext'
      BY <1>3, <2>1, <3>1 DEF IdsBelowNext, WholeAt
    <3>4. QED
      BY <3>2, <3>3
  <2>3. OpenLine'
    BY <1>7, <2>1 DEF OpenLine
  <2>4. StoredItems'
    BY <1>1, <1>3 DEF StoredItems
  <2>5. LossCounted'
    <3>1. Stored \cap Whole(log) \subseteq Whole(log')
      BY <1>1, <1>5, <1>10, WrittenKeepsStored
    <3>2. Stored' = Stored /\ Whole(log)' = Whole(log')
      BY <1>3 DEF Stored, Elements, Whole, WholeAt
    <3>3. Lost' \subseteq Lost
      BY <3>1, <3>2 DEF Lost
    <3>4. QED
      BY <1>1, <1>6, <1>8, <3>3, LossKept
  <2>6. QED
    BY <1>6, <2>2, <2>3, <2>4, <2>5 DEF Always, WellFormed
<1>11. QED
  BY <1>4, <1>9, <1>10

\* The elements of a sequence that grows.
LEMMA AppendedElements ==
    ASSUME NEW s \in Seq(Report), NEW x \in Report
    PROVE  Elements(Append(s, x)) = Elements(s) \cup {x}
<1> DEFINE t == Append(s, x)
           n == Len(s)
<1>1. /\ n \in Nat /\ DOMAIN s = 1..n /\ DOMAIN t = 1..(n + 1)
      /\ t[n + 1] = x /\ \A i \in 1..n : t[i] = s[i]
  OBVIOUS
<1> HIDE DEF t
<1>2. \A i \in 1..(n + 1) : i \in 1..n \/ i = n + 1
  BY <1>1
<1>3. n + 1 \in 1..(n + 1) /\ \A i \in 1..n : i \in 1..(n + 1)
  BY <1>1
<1> HIDE DEF n
<1>4. {t[i] : i \in 1..(n + 1)} = {s[i] : i \in 1..n} \cup {x}
  BY <1>1, <1>2, <1>3
<1>5. QED
  BY <1>1, <1>4 DEF Elements, t

\* EndLine: the report is stored, and lost if its line was damaged.
LEMMA EndLineAlways ==
    ASSUME Always, NEW r \in Requests, EndLine(r)
    PROVE  Always'
<1>1. TypeOK /\ OpenLine /\ StoredItems /\ IdsBelowNext /\ LossCounted /\ IdsIncrease
  BY DEF Always, WellFormed
<1> DEFINE x == NextReport(r)
<1>2. x \in Report /\ log \in File /\ nextId \in Nat \ {0} /\ stored[r] \in Seq(Report)
  BY <1>1, StateTyped
<1>3. x.req = r /\ x.item = Len(stored[r]) + 1
  BY DEF NextReport
<1>4. up = TRUE
  BY DEF EndLine
<1>5. /\ pc[r] = "writing" /\ log' = LineEnded(log) /\ nextId' = nextId + 1
      /\ stored' = [stored EXCEPT ![r] = Append(@, x)]
      /\ pc' = [pc EXCEPT ![r] = AfterItem(r)]
      /\ UNCHANGED <<up, view, faults, crashes>>
  BY DEF EndLine
<1> HIDE DEF x
<1>6. log'.lines = log.lines /\ log'.ended = TRUE /\ log' \in File
  BY <1>2, <1>5 DEF LineEnded, File
<1>7. \A q \in Requests : stored'[q] = IF q = r THEN Append(stored[r], x) ELSE stored[q]
  BY <1>1, <1>5 DEF TypeOK
<1>8. /\ Append(stored[r], x) \in Seq(Report) /\ Len(stored[r]) \in Nat
      /\ DOMAIN stored[r] = 1..Len(stored[r])
      /\ DOMAIN Append(stored[r], x) = 1..(Len(stored[r]) + 1)
      /\ Append(stored[r], x)[Len(stored[r]) + 1] = x
      /\ \A i \in DOMAIN stored[r] : Append(stored[r], x)[i] = stored[r][i]
  BY <1>2
<1>9. AfterItem(r) \in {"ready", "ok"}
  BY DEF AfterItem
<1>10. \A q \in Requests : (Writing(q) <=> q = r) /\ ~Writing(q)'
  BY <1>1, <1>5, <1>9 DEF TypeOK, OpenLine, Writing
<1>11. ~log.ended
  BY <1>1, <1>10 DEF OpenLine
<1>12. TypeOK'
  <2>1. log' \in [lines : Seq(Report \cup {Damaged}), ended : BOOLEAN]
    BY <1>6 DEF File, Line
  <2>2. pc' \in [Requests -> {"ready", "writing", "ok", "error", "lost"}]
    BY <1>1, <1>5, <1>9 DEF TypeOK
  <2>3. stored' \in [Requests -> Seq(Report)]
    BY <1>1, <1>5, <1>8 DEF TypeOK
  <2>4. nextId' \in Nat \ {0}
    BY <1>2, <1>5
  <2>5. QED
    BY <1>1, <1>5, <2>1, <2>2, <2>3, <2>4 DEF TypeOK
<1>13. IdsIncrease' /\ IdsBelowNext'
  <2>1. IdsIncrease'
    BY <1>1, <1>6 DEF IdsIncrease, WholeAt
  <2>2. \A i \in WholeAt(log) : log.lines[i].id < nextId + 1
    <3>1. TAKE i \in WholeAt(log)
    <3>2. log.lines[i].id < nextId \/ log.lines[i].id = nextId
      BY <1>1, <1>4 DEF IdsBelowNext
    <3>3. log.lines[i].id \in Nat
      BY <1>2, FileTyped, ReportTyped
    <3>4. QED
      BY <1>2, <3>2, <3>3
  <2>3. IdsBelowNext'
    BY <1>5, <1>6, <2>2 DEF IdsBelowNext, WholeAt
  <2>4. QED
    BY <2>1, <2>3
<1>14. OpenLine'
  BY <1>6, <1>10 DEF OpenLine
<1>15. StoredItems'
  <2>1. SUFFICES ASSUME NEW q \in Requests, NEW i \in DOMAIN stored'[q]
                 PROVE  stored'[q][i].req = q /\ stored'[q][i].item = i
    BY DEF StoredItems
  <2>2. CASE q = r /\ i = Len(stored[r]) + 1
    BY <1>3, <1>7, <1>8, <2>2
  <2>3. CASE q = r /\ i # Len(stored[r]) + 1
    <3>1. i \in DOMAIN stored[r]
      <4>1. i \in DOMAIN Append(stored[r], x)
        BY <1>7, <2>1, <2>3
      <4>2. i \in 1..(Len(stored[r]) + 1)
        BY <1>8, <4>1
      <4>3. QED
        BY <1>8, <2>3, <4>2
    <3>2. stored'[q][i] = stored[r][i]
      BY <1>7, <1>8, <2>3, <3>1
    <3>3. QED
      BY <1>1, <2>3, <3>1, <3>2 DEF StoredItems
  <2>4. CASE q # r
    BY <1>1, <1>7, <2>1, <2>4 DEF StoredItems
  <2>5. QED
    BY <2>2, <2>3, <2>4
<1>16. LossCounted'
  <2>1. Stored' = Stored \cup {x}
    <3>1. Elements(stored'[r]) = Elements(stored[r]) \cup {x}
      BY <1>2, <1>7, AppendedElements
    <3>2. \A q \in Requests : q # r => Elements(stored'[q]) = Elements(stored[q])
      BY <1>7 DEF Elements
    <3> DEFINE Now == {Elements(stored[q]) : q \in Requests}
               Then == {Elements(stored'[q]) : q \in Requests}
    <3>3. UNION Then = (UNION Now) \cup {x}
      <4> HIDE DEF Elements
      <4>1. QED
        BY <3>1, <3>2
    <3>4. Stored' = UNION Then
      BY DEF Stored, Elements
    <3>5. QED
      BY <3>3, <3>4 DEF Stored
  <2>2. Whole(log)' = Whole(log)
    BY <1>6 DEF Whole, WholeAt
  <2>3. Safe'
    BY <1>6 DEF Safe
  <2>4. faults' + crashes' = faults + crashes
    BY <1>5
  <2>5. CASE LastLine(log) # Damaged
    <3>1. LastLine(log) = x
      BY <1>1, <1>10, <1>11, <2>5 DEF OpenLine, x
    <3>2. x \in Whole(log)
      <4>1. Len(log.lines) \in DOMAIN log.lines
        BY <1>1, <1>2, <1>11, FileTyped DEF OpenLine
      <4>2. Len(log.lines) \in WholeAt(log)
        BY <2>5, <4>1 DEF WholeAt, LastLine
      <4>3. QED
        BY <3>1, <4>2 DEF Whole, LastLine
    <3>3. Lost' \subseteq Lost
      BY <2>1, <2>2, <3>2 DEF Lost
    <3>4. QED
      BY <1>1, <1>12, <2>3, <2>4, <3>3, LossKept
  <2>6. CASE LastLine(log) = Damaged
    <3>1. ~Safe
      BY <1>11, <2>6 DEF Safe
    <3>2. IsFiniteSet(Lost) /\ Cardinality(Lost) + 1 <= faults + crashes
      BY <1>1, <3>1 DEF LossCounted
    <3>3. IsFiniteSet(Lost \cup {x}) /\ Cardinality(Lost \cup {x}) <= Cardinality(Lost) + 1
      <4>1. Cardinality(Lost) \in Nat
        BY <3>2, FS_CardinalityType
      <4>2. QED
        BY <3>2, <4>1, FS_AddElement
    <3>4. Lost' \in SUBSET (Lost \cup {x})
      BY <2>1, <2>2 DEF Lost
    <3>5. IsFiniteSet(Lost') /\ Cardinality(Lost') <= Cardinality(Lost \cup {x})
      BY <3>3, <3>4, FS_Subset
    <3>6. /\ Cardinality(Lost) \in Nat /\ Cardinality(Lost') \in Nat
          /\ Cardinality(Lost \cup {x}) \in Nat
      BY <3>2, <3>3, <3>5, FS_CardinalityType
    <3>7. faults + crashes \in Nat
      BY <1>1, StateTyped
    <3>8. Cardinality(Lost') <= faults' + crashes'
      BY <2>4, <3>2, <3>3, <3>5, <3>6, <3>7
    <3>9. QED
      BY <2>3, <3>5, <3>6, <3>8 DEF LossCounted
  <2>7. QED
    BY <2>5, <2>6
<1>17. QED
  BY <1>12, <1>13, <1>14, <1>15, <1>16 DEF Always, WellFormed

\* EndLineFails: the line stays open, and counts as a failure.
LEMMA EndLineFailsAlways ==
    ASSUME Always, NEW r \in Requests, EndLineFails(r)
    PROVE  Always'
<1>1. TypeOK /\ IdsBelowNext /\ OpenLine
  BY DEF Always, WellFormed
<1>2. /\ pc' = [pc EXCEPT ![r] = "error"] /\ faults < MaxFaults /\ faults' = faults + 1
      /\ UNCHANGED <<up, log, nextId, stored, view, crashes>>
  BY DEF EndLineFails
<1>3. faults \in 0..MaxFaults /\ faults \in Nat /\ crashes \in Nat
  BY <1>1, StateTyped DEF TypeOK
<1>4. TypeOK'
  <2>1. pc' \in [Requests -> {"ready", "writing", "ok", "error", "lost"}]
    BY <1>1, <1>2 DEF TypeOK
  <2>2. faults' \in 0..MaxFaults
    BY <1>2, <1>3, BoundsAssumption
  <2>3. QED
    BY <1>1, <1>2, <2>1, <2>2 DEF TypeOK
<1>5. faults' + crashes' = faults + crashes + 1
  BY <1>2, <1>3
<1>6. \A q \in Requests : Writing(q)' => Writing(q)
  BY <1>1, <1>2 DEF TypeOK, Writing
<1>7. \A q \in Requests : Writing(q) => up
  BY <1>1 DEF OpenLine
<1>8. IdsIncrease' /\ OpenLine' /\ StoredItems' /\ LossCounted'
  <2>1. \A q \in Requests : Writing(q)' => Writing(q) /\ up' /\ nextId' = nextId
    BY <1>2, <1>6, <1>7
  <2>2. QED
    BY <1>2, <1>4, <1>5, <2>1, LogKept
<1>9. IdsBelowNext'
  BY <1>1, <1>2 DEF IdsBelowNext, WholeAt
<1>10. QED
  BY <1>4, <1>8, <1>9 DEF Always, WellFormed

\* List reads whole lines of the log.
LEMMA ListAlways ==
    ASSUME Always, NEW d \in Devices, List(d)
    PROVE  Always'
<1>1. TypeOK /\ IdsBelowNext /\ OpenLine
  BY DEF Always, WellFormed
<1> DEFINE due == {x \in AckedReports : DeviceOf[x.req] = d}
<1>2. /\ view' = [view EXCEPT ![d] = [items |-> Listed(log, d), due |-> due]]
      /\ UNCHANGED <<up, log, nextId, pc, stored, faults, crashes>>
  BY DEF List
<1>3. Listed(log, d) \subseteq Report
  <2>1. log \in File
    BY <1>1, StateTyped
  <2>2. ASSUME Readable(log), NEW i \in ListedAt(log, d)
        PROVE  log.lines[i] \in Report
    <3>1. i \in DOMAIN log.lines
      BY <2>2 DEF ListedAt, ReportsAt, RecentAt
    <3>2. log.lines[i] \in Line
      BY <2>1, <3>1, FileTyped
    <3>3. QED
      BY <2>2, <3>1, <3>2 DEF Readable, Line
  <2>3. QED
    BY <2>2 DEF Listed
<1>4. due \subseteq Report
  <2>1. \A r \in Requests : Elements(stored[r]) \subseteq Report
    <3>1. TAKE r \in Requests
    <3>2. stored[r] \in Seq(Report)
      BY <1>1, StateTyped
    <3>3. QED
      BY <3>2 DEF Elements
  <2>2. QED
    BY <2>1 DEF AckedReports
<1> HIDE DEF due
<1>5. TypeOK'
  <2>1. view' \in [Devices -> [items : SUBSET Report, due : SUBSET Report]]
    BY <1>1, <1>2, <1>3, <1>4 DEF TypeOK
  <2>2. QED
    BY <1>1, <1>2, <2>1 DEF TypeOK
<1>6. IdsIncrease' /\ OpenLine' /\ StoredItems' /\ LossCounted'
  <2>1. \A q \in Requests : Writing(q)' => Writing(q) /\ up' /\ nextId' = nextId
    BY <1>1, <1>2 DEF OpenLine, Writing
  <2>2. faults' + crashes' = faults + crashes /\ UNCHANGED pc
    BY <1>2
  <2>3. QED
    BY <1>2, <1>5, <2>1, <2>2, LogKept
<1>7. IdsBelowNext'
  BY <1>1, <1>2 DEF IdsBelowNext, WholeAt
<1>8. QED
  BY <1>5, <1>6, <1>7 DEF Always, WellFormed

\* Crash: the line under way stays open, and counts as a failure.
LEMMA CrashAlways ==
    ASSUME Always, Crash
    PROVE  Always'
<1>1. TypeOK
  BY DEF Always, WellFormed
<1>2. crashes < MaxCrashes /\ crashes' = crashes + 1 /\ UNCHANGED <<log, nextId, stored, view, faults>>
  BY DEF Crash
<1>3. up' = FALSE
  BY DEF Crash
<1>4. pc' = [r \in Requests |-> IF pc[r] \in {"ok", "error"} THEN pc[r]
                                ELSE IF pc[r] = "ready" /\ stored[r] = <<>>
                                THEN "ready" ELSE "lost"]
  BY DEF Crash
<1>5. crashes \in 0..MaxCrashes /\ faults \in Nat /\ crashes \in Nat
  BY <1>1, StateTyped DEF TypeOK
<1>6. TypeOK'
  <2>1. pc' \in [Requests -> {"ready", "writing", "ok", "error", "lost"}]
    BY <1>1, <1>4 DEF TypeOK
  <2>2. crashes' \in 0..MaxCrashes
    BY <1>2, <1>5, BoundsAssumption
  <2>3. QED
    BY <1>1, <1>2, <1>3, <2>1, <2>2 DEF TypeOK
<1>7. \A q \in Requests : ~Writing(q)'
  BY <1>4 DEF Writing
<1>8. faults' + crashes' = faults + crashes + 1
  BY <1>2, <1>5
<1>9. IdsIncrease' /\ OpenLine' /\ StoredItems' /\ LossCounted'
  BY <1>2, <1>6, <1>7, <1>8, LogKept
<1>10. IdsBelowNext'
  BY <1>3 DEF IdsBelowNext
<1>11. QED
  BY <1>6, <1>9, <1>10 DEF Always, WellFormed

\* Restart: the next id is above those of all lines.
LEMMA RestartAlways ==
    ASSUME Always, Restart
    PROVE  Always'
<1>1. TypeOK /\ OpenLine /\ IdsIncrease
  BY DEF Always, WellFormed
<1>2. Readable(log) /\ nextId' = NextIdOf(log) /\ UNCHANGED <<log, pc, stored, view, faults, crashes>>
  BY DEF Restart
<1>3. ~up /\ up' = TRUE
  BY DEF Restart
<1>4. log \in File
  BY <1>1, StateTyped
<1>5. WholeAt(log) = DOMAIN log.lines
  BY <1>2 DEF Readable, WholeAt
<1>6. nextId' \in Nat \ {0} /\ \A i \in DOMAIN log.lines : log.lines[i].id < nextId'
  <2>1. \A i, j \in DOMAIN log.lines : i < j => log.lines[i].id < log.lines[j].id
    BY <1>1, <1>5 DEF IdsIncrease
  <2>2. QED
    BY <1>2, <1>4, <2>1, NextIdAbove
<1>7. TypeOK'
  BY <1>1, <1>2, <1>3, <1>6 DEF TypeOK
<1>8. IdsIncrease' /\ OpenLine' /\ StoredItems' /\ LossCounted'
  <2>1. \A q \in Requests : ~Writing(q)'
    BY <1>1, <1>2, <1>3 DEF OpenLine, Writing
  <2>2. faults' + crashes' = faults + crashes /\ UNCHANGED pc
    BY <1>2
  <2>3. QED
    BY <1>2, <1>7, <2>1, <2>2, LogKept
<1>9. IdsBelowNext'
  BY <1>2, <1>5, <1>6 DEF IdsBelowNext, WholeAt
<1>10. QED
  BY <1>7, <1>8, <1>9 DEF Always, WellFormed

-----------------------------------------------------------------------------
(* The steps, while nothing failed.                                        *)

\* The lines of a request are finitely many, and a prefix of them too.
LEMMA ItemsFinite ==
    ASSUME TypeOK, NEW r \in Requests
    PROVE  IsFiniteSet(ItemsAt(r)) /\ Cardinality(ItemsAt(r)) \in Nat
<1>1. log \in File
  BY StateTyped
<1>2. Len(log.lines) \in Nat /\ ItemsAt(r) \in SUBSET (1..Len(log.lines))
  BY <1>1, FileTyped DEF ItemsAt
<1>3. IsFiniteSet(1..Len(log.lines))
  BY <1>2, FS_Interval
<1>4. IsFiniteSet(ItemsAt(r))
  BY <1>2, <1>3, FS_Subset
<1>5. QED
  BY <1>4, FS_CardinalityType

\* WriteReport: the next item of the request goes to the end.
LEMMA WriteReportInOrder ==
    ASSUME Always, InOrder, NEW r \in Requests, WriteReport(r)
    PROVE  InOrder'
<1>1. TypeOK /\ OpenLine
  BY DEF Always, WellFormed
<1> DEFINE x == NextReport(r)
           n == Len(log.lines)
<1>2. log \in File /\ x \in Report /\ x \in Line /\ x # Damaged /\ stored[r] \in Seq(Report)
  BY <1>1, StateTyped, ReportTyped DEF Line
<1>3. x.req = r /\ x.item = Len(stored[r]) + 1
  BY DEF NextReport
<1>4. /\ pc[r] = "ready" /\ Unlocked /\ log' = Written(log, x)
      /\ pc' = [pc EXCEPT ![r] = "writing"]
      /\ UNCHANGED <<nextId, stored>>
  BY DEF WriteReport
<1>5. NextReport(r)' = x
  BY <1>4 DEF NextReport
<1> HIDE DEF x
<1>6. log.ended
  BY <1>4 DEF InOrder, Safe, Unlocked, Writing
<1>7. log' \in File
  BY <1>2, <1>4, <1>6, WrittenLines
<1>8. /\ n \in Nat /\ Len(log'.lines) = n + 1 /\ log'.lines[n + 1] = x
      /\ \A i \in 1..n : log'.lines[i] = log.lines[i]
  <2>1. n \in Nat
    BY <1>2, FileTyped
  <2>2. QED
    BY <1>2, <1>4, <1>6, <2>1, WrittenLines
<1>9. DOMAIN log.lines = 1..n /\ DOMAIN log'.lines = 1..(n + 1)
  BY <1>2, <1>7, <1>8, FileTyped
<1>10. WholeAt(log) = 1..n /\ WholeAt(log)' = 1..(n + 1) /\ Readable(log)'
  <2>1. \A i \in 1..n : log.lines[i] # Damaged
    BY <1>9 DEF InOrder, Readable
  <2>2. \A i \in 1..(n + 1) : log'.lines[i] # Damaged
    BY <1>2, <1>8, <2>1
  <2>3. QED
    BY <1>9, <2>1, <2>2 DEF WholeAt, Readable
<1> HIDE DEF n
<1>11. \A q \in Requests : Writing(q)' <=> q = r
  BY <1>1, <1>4 DEF TypeOK, Unlocked, Writing
<1>12. Safe'
  <2>1. LastLine(log)' = x
    BY <1>8 DEF LastLine
  <2>2. QED
    BY <1>2, <1>11, <2>1 DEF Safe
<1>13. \A q \in Requests : ItemsAt(q)' = ItemsAt(q) \cup (IF q = r THEN {n + 1} ELSE {})
  BY <1>3, <1>8, <1>10 DEF ItemsAt
<1>14. \A q \in Requests : \A i \in ItemsAt(q) : i \in 1..n
  BY <1>10 DEF ItemsAt
<1>15. \A q \in Requests : pc'[q] = "ok" => pc[q] = "ok"
  BY <1>1, <1>4 DEF TypeOK
<1>16. \A q \in Requests : pc'[q] \in {"ready", "writing"} => pc[q] \in {"ready", "writing"}
  BY <1>1, <1>4 DEF TypeOK
<1>17. ASSUME NEW q \in Requests
       PROVE  /\ \A i \in ItemsAt(q)' :
                    log'.lines[i].item = Cardinality({j \in ItemsAt(q)' : j <= i})
              /\ Cardinality(ItemsAt(q)') = Len(stored'[q]) + Ahead(q)'
              /\ {log'.lines[i] : i \in ItemsAt(q)'} = Elements(stored'[q]) \cup UnderWay(q)'
  <2>1. /\ \A i \in ItemsAt(q) : log.lines[i].item = Cardinality({j \in ItemsAt(q) : j <= i})
        /\ Cardinality(ItemsAt(q)) = Len(stored[q])
        /\ {log.lines[i] : i \in ItemsAt(q)} = Elements(stored[q])
    <3>1. Ahead(q) = 0 /\ UnderWay(q) = {}
      BY <1>4 DEF Unlocked, Writing, UnderWay, Ahead
    <3>2. Len(stored[q]) \in Nat
      BY <1>1, StateTyped
    <3>3. Cardinality(ItemsAt(q)) = Len(stored[q]) + Ahead(q)
      BY DEF InOrder
    <3>4. Cardinality(ItemsAt(q)) = Len(stored[q])
      BY <3>1, <3>2, <3>3
    <3>5. {log.lines[i] : i \in ItemsAt(q)} = Elements(stored[q]) \cup UnderWay(q)
      BY DEF InOrder
    <3>6. \A i \in ItemsAt(q) : log.lines[i].item = Cardinality({j \in ItemsAt(q) : j <= i})
      BY DEF InOrder
    <3>7. QED
      BY <3>1, <3>4, <3>5, <3>6
  <2>2. CASE q # r
    <3>1. ItemsAt(q)' = ItemsAt(q) /\ UnderWay(q)' = {} /\ Ahead(q)' = 0
      BY <1>11, <1>13, <2>2 DEF UnderWay, Ahead
    <3>2. Len(stored[q]) \in Nat
      BY <1>1, StateTyped
    <3>3. \A i \in ItemsAt(q) : log'.lines[i] = log.lines[i]
      BY <1>8, <1>14
    <3>4. QED
      BY <1>4, <2>1, <3>1, <3>2, <3>3
  <2>3. CASE q = r
    <3>1. ItemsAt(q)' = ItemsAt(q) \cup {n + 1} /\ n + 1 \notin ItemsAt(q)
      BY <1>8, <1>13, <1>14, <2>3
    <3>2. UnderWay(q)' = {x} /\ Ahead(q)' = 1
      BY <1>5, <1>11, <2>3 DEF UnderWay, Ahead
    <3>3. IsFiniteSet(ItemsAt(q)) /\ Cardinality(ItemsAt(q)) \in Nat
      BY <1>1, ItemsFinite
    <3>4. Cardinality(ItemsAt(q)') = Len(stored[q]) + 1
      <4>1. Cardinality(ItemsAt(q) \cup {n + 1}) = Cardinality(ItemsAt(q)) + 1
        BY <3>1, <3>3, FS_AddElement
      <4>2. QED
        BY <2>1, <3>1, <4>1
    <3>5. \A i \in ItemsAt(q) : {j \in ItemsAt(q)' : j <= i} = {j \in ItemsAt(q) : j <= i}
      <4>1. \A i \in ItemsAt(q) : ~(n + 1 <= i)
        BY <1>8, <1>14
      <4>2. QED
        BY <3>1, <4>1
    <3>6. {j \in ItemsAt(q)' : j <= n + 1} = ItemsAt(q)'
      <4>1. \A i \in ItemsAt(q)' : i <= n + 1
        BY <1>8, <1>14, <3>1
      <4>2. QED
        BY <4>1
    <3>7. \A i \in ItemsAt(q) : log'.lines[i] = log.lines[i]
      BY <1>8, <1>14
    <3>8. ASSUME NEW i \in ItemsAt(q)'
          PROVE  log'.lines[i].item = Cardinality({j \in ItemsAt(q)' : j <= i})
      <4>1. CASE i \in ItemsAt(q)
        BY <2>1, <3>5, <3>7, <4>1
      <4>2. CASE i = n + 1
        BY <1>3, <1>8, <2>3, <3>4, <3>6, <4>2
      <4>3. QED
        BY <3>1, <3>8, <4>1, <4>2
    <3>9. {log'.lines[i] : i \in ItemsAt(q)'} = Elements(stored[q]) \cup {x}
      BY <1>8, <2>1, <3>1, <3>7
    <3>10. QED
      BY <1>4, <3>2, <3>4, <3>8, <3>9
  <2>4. QED
    BY <2>2, <2>3
<1>18. ASSUME NEW q \in Requests
       PROVE  /\ pc'[q] = "ok" => Len(stored'[q]) = Size[q]
              /\ pc'[q] \in {"ready", "writing"} => Len(stored'[q]) < Size[q]
  BY <1>4, <1>15, <1>16 DEF InOrder
<1>19. QED
  BY <1>10, <1>12, <1>17, <1>18 DEF InOrder

\* EndLine: the item is stored, and the request goes on or is answered.
LEMMA EndLineInOrder ==
    ASSUME Always, InOrder, NEW r \in Requests, EndLine(r)
    PROVE  InOrder'
<1>1. TypeOK /\ OpenLine
  BY DEF Always, WellFormed
<1> DEFINE x == NextReport(r)
<1>2. x \in Report /\ stored[r] \in Seq(Report)
  BY <1>1, StateTyped
<1>3. /\ pc[r] = "writing" /\ log' = LineEnded(log)
      /\ stored' = [stored EXCEPT ![r] = Append(@, x)]
      /\ pc' = [pc EXCEPT ![r] = AfterItem(r)]
  BY DEF EndLine
<1>4. UnderWay(r) = {x}
  BY <1>3 DEF UnderWay, Writing
<1> HIDE DEF x
<1>5. log'.lines = log.lines /\ log'.ended = TRUE
  BY <1>1, <1>3, StateTyped DEF LineEnded, File
<1>6. Readable(log)' /\ Safe' /\ \A q \in Requests : ItemsAt(q)' = ItemsAt(q)
  BY <1>5 DEF InOrder, Readable, Safe, ItemsAt, WholeAt
<1>7. \A q \in Requests : stored'[q] = IF q = r THEN Append(stored[r], x) ELSE stored[q]
  BY <1>1, <1>3 DEF TypeOK
<1>8. Len(stored[r]) \in Nat /\ Len(stored'[r]) = Len(stored[r]) + 1
  <2>1. stored'[r] = Append(stored[r], x)
    BY <1>7
  <2>2. QED
    BY <1>2, <2>1
<1>9. AfterItem(r) \in {"ready", "ok"}
  BY DEF AfterItem
<1>10. \A q \in Requests : (Writing(q) <=> q = r) /\ ~Writing(q)'
  BY <1>1, <1>3, <1>9 DEF TypeOK, OpenLine, Writing
<1>11. \A q \in Requests : Elements(stored'[q]) = Elements(stored[q]) \cup UnderWay(q)
  <2>1. TAKE q \in Requests
  <2>2. CASE q = r
    BY <1>2, <1>4, <1>7, <2>2, AppendedElements
  <2>3. CASE q # r
    BY <1>7, <1>10, <2>3 DEF UnderWay
  <2>4. QED
    BY <2>2, <2>3
<1>12. ASSUME NEW q \in Requests
       PROVE  /\ Cardinality(ItemsAt(q)') = Len(stored'[q]) + Ahead(q)'
              /\ {log'.lines[i] : i \in ItemsAt(q)'} = Elements(stored'[q]) \cup UnderWay(q)'
              /\ \A i \in ItemsAt(q)' :
                    log'.lines[i].item = Cardinality({j \in ItemsAt(q)' : j <= i})
  <2>1. UnderWay(q)' = {}
    BY <1>10 DEF UnderWay
  <2>2. Len(stored'[q]) \in Nat /\ Len(stored'[q]) = Len(stored[q]) + Ahead(q)
    <3>1. CASE q = r
      <4>1. Ahead(q) = 1
        BY <1>10, <3>1 DEF Ahead
      <4>2. QED
        BY <1>8, <3>1, <4>1
    <3>2. CASE q # r
      <4>1. Len(stored[q]) \in Nat
        BY <1>1, StateTyped
      <4>2. stored'[q] = stored[q] /\ Ahead(q) = 0
        BY <1>7, <1>10, <3>2 DEF Ahead
      <4>3. QED
        BY <4>1, <4>2
    <3>3. QED
      BY <3>1, <3>2
  <2>3. Cardinality(ItemsAt(q)) = Len(stored[q]) + Ahead(q)
    BY DEF InOrder
  <2>4. {log.lines[i] : i \in ItemsAt(q)} = Elements(stored[q]) \cup UnderWay(q)
    BY DEF InOrder
  <2>5. \A i \in ItemsAt(q) : log.lines[i].item = Cardinality({j \in ItemsAt(q) : j <= i})
    BY DEF InOrder
  <2>6. Cardinality(ItemsAt(q)') = Len(stored'[q]) + Ahead(q)'
    <3>1. Ahead(q)' = 0
      BY <1>10 DEF Ahead
    <3>2. Cardinality(ItemsAt(q)') = Len(stored'[q])
      BY <1>6, <2>2, <2>3
    <3>3. QED
      BY <2>2, <3>1, <3>2
  <2>7. {log'.lines[i] : i \in ItemsAt(q)'} = Elements(stored'[q]) \cup UnderWay(q)'
    BY <1>5, <1>6, <1>11, <2>1, <2>4
  <2>8. QED
    BY <1>5, <1>6, <2>5, <2>6, <2>7
<1>13. ASSUME NEW q \in Requests
       PROVE  /\ pc'[q] = "ok" => Len(stored'[q]) = Size[q]
              /\ pc'[q] \in {"ready", "writing"} => Len(stored'[q]) < Size[q]
  <2>1. CASE q # r
    <3>1. pc'[q] = pc[q] /\ stored'[q] = stored[q]
      BY <1>1, <1>3, <1>7, <2>1 DEF TypeOK
    <3>2. QED
      BY <3>1 DEF InOrder
  <2>2. CASE q = r
    <3>1. pc'[r] = AfterItem(r)
      BY <1>1, <1>3 DEF TypeOK
    <3>2. Len(stored[r]) < Size[r] /\ Size[r] \in Nat
      BY <1>3, RequestsAssumption DEF InOrder
    <3>3. CASE Len(stored[r]) + 1 < Size[r]
      BY <1>8, <2>2, <3>1, <3>3 DEF AfterItem
    <3>4. CASE ~(Len(stored[r]) + 1 < Size[r])
      <4>1. pc'[r] = "ok"
        BY <3>1, <3>4 DEF AfterItem
      <4>2. Len(stored'[r]) = Size[r]
        BY <1>8, <3>2, <3>4
      <4>3. QED
        BY <2>2, <4>1, <4>2
    <3>5. QED
      BY <3>3, <3>4
  <2>3. QED
    BY <2>1, <2>2
<1>14. QED
  BY <1>6, <1>12, <1>13 DEF InOrder

\* Lists that were read stay complete while reports are only added to the file.
LEMMA ListsKept ==
    ASSUME ListsComplete, Undisturbed, TypeOK', UNCHANGED view,
           Whole(log) \subseteq Whole(log)'
    PROVE  ListsComplete'
<1>1. log' \in File
  BY DEF TypeOK, File, Line
<1>2. IsFiniteSet(Whole(log'))
  <2>1. WholeAt(log') \in SUBSET (1..Len(log'.lines)) /\ Len(log'.lines) \in Nat
    BY <1>1, FileTyped
  <2>2. IsFiniteSet(1..Len(log'.lines))
    BY <2>1, FS_Interval
  <2>3. IsFiniteSet(WholeAt(log'))
    BY <2>1, <2>2, FS_Subset
  <2> DEFINE f == [i \in WholeAt(log') |-> log'.lines[i]]
  <2>4. f \in Surjection(WholeAt(log'), Whole(log'))
    BY DEF Surjection, Whole
  <2> HIDE DEF f
  <2>5. QED
    BY <2>3, <2>4, FS_Surjection
<1>3. Whole(log)' = Whole(log')
  BY DEF Whole, WholeAt
<1>4. SUFFICES ASSUME NEW d \in Devices, NEW x \in view[d].due
               PROVE  \/ x \in view[d].items
                      \/ Cardinality(view[d].items) = Limit
                      \/ Cardinality({y \in Whole(log') : y.id > x.id}) >= MaxTelemetry
  BY <1>3 DEF ListsComplete
<1> DEFINE Before == {y \in Whole(log) : y.id > x.id}
           After == {y \in Whole(log') : y.id > x.id}
<1>5. \/ x \in view[d].items
      \/ Cardinality(view[d].items) = Limit
      \/ Cardinality(Before) >= MaxTelemetry
  BY DEF ListsComplete
<1>6. Cardinality(Before) >= MaxTelemetry => Cardinality(After) >= MaxTelemetry
  <2>1. Before \in SUBSET After /\ After \in SUBSET Whole(log')
    BY <1>3
  <2> HIDE DEF Before, After
  <2>2. IsFiniteSet(After) /\ IsFiniteSet(Before)
    BY <1>2, <2>1, FS_Subset
  <2>3. Cardinality(Before) <= Cardinality(After)
    BY <2>1, <2>2, FS_Subset
  <2>4. Cardinality(Before) \in Nat /\ Cardinality(After) \in Nat
    BY <2>2, FS_CardinalityType
  <2>5. QED
    BY <2>3, <2>4, SizesAssumption
<1>7. QED
  BY <1>5, <1>6

\* A list that is read is complete: what was answered is in the file.
LEMMA ListComplete ==
    ASSUME Always, InOrder, ListsComplete, Undisturbed, NEW d \in Devices, List(d)
    PROVE  ListsComplete'
<1>1. TypeOK /\ IdsIncrease
  BY DEF Always, WellFormed
<1> DEFINE due == {x \in AckedReports : DeviceOf[x.req] = d}
<1>2. view' = [view EXCEPT ![d] = [items |-> Listed(log, d), due |-> due]]
  BY DEF List
<1>3. UNCHANGED <<up, log, nextId, pc, stored, faults, crashes>>
  BY DEF List
<1>4. log \in File /\ Readable(log) /\ Increasing(log)
  BY <1>1, StateTyped DEF InOrder, Increasing, IdsIncrease
<1>5. ASSUME NEW x \in due
      PROVE  \/ x \in Listed(log, d)
             \/ Cardinality(Listed(log, d)) = Limit
             \/ Cardinality({y \in Whole(log) : y.id > x.id}) >= MaxTelemetry
  <2>1. PICK r \in Requests : x \in Elements(stored[r])
    BY DEF AckedReports
  <2>2. {log.lines[i] : i \in ItemsAt(r)} = Elements(stored[r]) \cup UnderWay(r)
    BY DEF InOrder
  <2>3. PICK i \in ItemsAt(r) : x = log.lines[i]
    BY <2>1, <2>2
  <2>4. i \in DOMAIN log.lines /\ DeviceOf[log.lines[i].req] = d
    BY <1>5, <2>3 DEF ItemsAt, WholeAt
  <2>5. QED
    BY <1>4, <2>3, <2>4, ListedEnough
<1> HIDE DEF due
<1>6. \A e \in Devices : view'[e] = IF e = d THEN [items |-> Listed(log, d), due |-> due] ELSE view[e]
  BY <1>1, <1>2 DEF TypeOK
<1>7. Whole(log)' = Whole(log)
  BY <1>3 DEF Whole, WholeAt
<1>8. ASSUME NEW e \in Devices, NEW x \in view'[e].due
      PROVE  \/ x \in view'[e].items
             \/ Cardinality(view'[e].items) = Limit
             \/ Cardinality({y \in Whole(log) : y.id > x.id}) >= MaxTelemetry
  <2>1. CASE e = d
    <3>1. view'[e].due = due /\ view'[e].items = Listed(log, d)
      BY <1>6, <2>1
    <3>2. QED
      BY <1>5, <1>8, <3>1
  <2>2. CASE e # d
    <3>1. view'[e] = view[e]
      BY <1>6, <2>2
    <3>2. QED
      BY <1>8, <3>1 DEF ListsComplete
  <2>3. QED
    BY <2>1, <2>2
<1>9. QED
  BY <1>7, <1>8 DEF ListsComplete

-----------------------------------------------------------------------------
(* The invariant.                                                          *)

\* Restart, and a step that changes nothing, keep what was written in order.
LEMMA InOrderKept ==
    ASSUME Always, InOrder, UNCHANGED <<log, pc, stored>>, ~up \/ nextId' = nextId
    PROVE  InOrder'
<1>1. \A q \in Requests : /\ ItemsAt(q)' = ItemsAt(q) /\ Ahead(q)' = Ahead(q)
                          /\ UnderWay(q)' = UnderWay(q)
  <2>1. TAKE q \in Requests
  <2>2. ~Writing(q) \/ nextId' = nextId
    BY DEF Always, OpenLine
  <2>3. Writing(q)' <=> Writing(q)
    BY DEF Writing
  <2>4. UnderWay(q)' = UnderWay(q)
    BY <2>2, <2>3 DEF UnderWay, NextReport
  <2>5. Ahead(q)' = Ahead(q)
    BY <2>3 DEF Ahead
  <2>6. QED
    BY <2>4, <2>5 DEF ItemsAt, WholeAt
<1>2. Readable(log)' /\ Safe'
  BY DEF InOrder, Readable, Safe, Writing, LastLine
<1>3. QED
  BY <1>1, <1>2 DEF InOrder

\* The initial state satisfies the invariant.
LEMMA InitInvariant == Init => IInv
<1> SUFFICES ASSUME Init
             PROVE  IInv
  OBVIOUS
<1>1. /\ up = TRUE /\ log.lines = <<>> /\ log.ended = TRUE /\ nextId = 1
      /\ pc = [r \in Requests |-> "ready"] /\ stored = [r \in Requests |-> <<>>]
      /\ view = [d \in Devices |-> [items |-> {}, due |-> {}]] /\ faults = 0 /\ crashes = 0
  BY DEF Init
<1>2. TypeOK
  <2>1. log \in [lines : Seq(Report \cup {Damaged}), ended : BOOLEAN]
    BY DEF Init
  <2>2. stored \in [Requests -> Seq(Report)] /\ nextId \in Nat \ {0} /\ up \in BOOLEAN
    BY <1>1
  <2>3. view \in [Devices -> [items : SUBSET Report, due : SUBSET Report]]
    BY <1>1
  <2>4. pc \in [Requests -> {"ready", "writing", "ok", "error", "lost"}]
    BY <1>1
  <2>5. faults \in 0..MaxFaults /\ crashes \in 0..MaxCrashes
    BY <1>1, BoundsAssumption
  <2>6. QED
    BY <2>1, <2>2, <2>3, <2>4, <2>5 DEF TypeOK
<1>3. WholeAt(log) = {} /\ Readable(log) /\ Len(log.lines) = 0
  BY <1>1 DEF WholeAt, Readable
<1>4. WellFormed /\ IdsBelowNext
  BY <1>2, <1>3 DEF WellFormed, IdsIncrease, IdsBelowNext
<1>5. \A r \in Requests : /\ stored[r] = <<>> /\ DOMAIN stored[r] = {} /\ Len(stored[r]) = 0
                          /\ Elements(stored[r]) = {}
  BY <1>1 DEF Elements
<1>6. \A r \in Requests : pc[r] = "ready" /\ ~Writing(r)
  BY <1>1 DEF Writing
<1>7. OpenLine /\ StoredItems /\ Safe
  BY <1>1, <1>5, <1>6 DEF OpenLine, StoredItems, Safe
<1>8. LossCounted
  <2>1. Lost = {}
    BY <1>5 DEF Lost, Stored
  <2>2. QED
    BY <1>1, <1>7, <2>1, FS_EmptySet DEF LossCounted
<1>9. InOrder
  <2>1. ASSUME NEW r \in Requests
        PROVE  ItemsAt(r) = {} /\ UnderWay(r) = {} /\ Ahead(r) = 0 /\ 0 < Size[r]
    BY <1>3, <1>6, RequestsAssumption DEF ItemsAt, UnderWay, Ahead
  <2>2. Cardinality({}) = 0
    BY FS_EmptySet
  <2>3. ASSUME NEW r \in Requests
        PROVE  /\ \A i \in ItemsAt(r) :
                    log.lines[i].item = Cardinality({j \in ItemsAt(r) : j <= i})
               /\ Cardinality(ItemsAt(r)) = Len(stored[r]) + Ahead(r)
               /\ {log.lines[i] : i \in ItemsAt(r)} = Elements(stored[r]) \cup UnderWay(r)
               /\ pc[r] = "ok" => Len(stored[r]) = Size[r]
               /\ pc[r] \in {"ready", "writing"} => Len(stored[r]) < Size[r]
    <3>1. ItemsAt(r) = {} /\ UnderWay(r) = {} /\ Elements(stored[r]) = {}
      BY <1>5, <2>1
    <3>2. Cardinality(ItemsAt(r)) = 0 /\ Ahead(r) = 0 /\ Len(stored[r]) = 0 /\ 0 < Size[r]
      BY <1>5, <2>1, <2>2
    <3>3. pc[r] = "ready"
      BY <1>6
    <3>4. QED
      BY <3>1, <3>2, <3>3
  <2>4. QED
    BY <1>3, <1>7, <2>3 DEF InOrder
<1>10. ListsComplete
  BY <1>1 DEF ListsComplete
<1>11. QED
  BY <1>4, <1>7, <1>8, <1>9, <1>10 DEF IInv

\* Every step keeps the invariant.
LEMMA NextInvariant == IInv /\ [Next]_vars => IInv'
<1> SUFFICES ASSUME IInv, [Next]_vars
             PROVE  IInv'
  OBVIOUS
<1>1. Always /\ (Undisturbed => InOrder) /\ ListsComplete
  BY DEF IInv, Always
<1>2. TypeOK
  BY <1>1 DEF Always, WellFormed
<1>3. SUFFICES Always' /\ (Undisturbed' => InOrder') /\ ListsComplete'
  BY DEF IInv, Always
<1>4. ASSUME NEW r \in Requests, WriteReport(r)
      PROVE  Always' /\ (Undisturbed' => InOrder') /\ ListsComplete'
  <2>1. Always'
    BY <1>1, <1>4, WriteReportAlways
  <2>2. Undisturbed' => Undisturbed
    BY <1>4 DEF WriteReport, Undisturbed
  <2>3. Undisturbed' => InOrder'
    BY <1>1, <1>4, <2>2, WriteReportInOrder
  <2>4. Undisturbed' => ListsComplete'
    <3>1. SUFFICES ASSUME Undisturbed
                   PROVE  ListsComplete'
      BY <2>2
    <3>2. log.ended /\ UNCHANGED view /\ log' = Written(log, NextReport(r))
      BY <1>1, <1>4, <3>1 DEF InOrder, Safe, WriteReport, Unlocked, Writing
    <3>3. Whole(log) \subseteq Whole(log)'
      <4>1. log \in File /\ NextReport(r) \in Line
        BY <1>2, StateTyped DEF Line
      <4>2. log' \in File /\ Len(log'.lines) = Len(log.lines) + 1
        BY <3>2, <4>1, WrittenLines
      <4>3. \A i \in 1..Len(log.lines) : log'.lines[i] = log.lines[i]
        BY <3>2, <4>1, WrittenLines
      <4>4. /\ Len(log.lines) \in Nat /\ DOMAIN log.lines = 1..Len(log.lines)
            /\ DOMAIN log'.lines = 1..Len(log'.lines)
        BY <4>1, <4>2, FileTyped
      <4>5. \A i \in WholeAt(log) : i \in WholeAt(log)' /\ log'.lines[i] = log.lines[i]
        BY <4>2, <4>3, <4>4 DEF WholeAt
      <4>6. QED
        BY <4>5 DEF Whole
    <3>4. TypeOK'
      BY <2>1 DEF Always, WellFormed
    <3>5. QED
      BY <1>1, <3>1, <3>2, <3>3, <3>4, ListsKept
  <2>5. ~Undisturbed' => ListsComplete'
    BY DEF ListsComplete
  <2>6. QED
    BY <2>1, <2>3, <2>4, <2>5
<1>5. ASSUME NEW r \in Requests, WriteReportFails(r)
      PROVE  Always' /\ (Undisturbed' => InOrder') /\ ListsComplete'
  <2>1. ~Undisturbed'
    <3>1. faults \in Nat /\ faults' = faults + 1
      BY <1>2, <1>5, StateTyped DEF WriteReportFails
    <3>2. faults' # 0
      BY <3>1
    <3>3. QED
      BY <3>2 DEF Undisturbed
  <2>2. QED
    BY <1>1, <1>5, <2>1, WriteReportFailsAlways DEF ListsComplete
<1>6. ASSUME NEW r \in Requests, EndLine(r)
      PROVE  Always' /\ (Undisturbed' => InOrder') /\ ListsComplete'
  <2>1. Always'
    BY <1>1, <1>6, EndLineAlways
  <2>2. Undisturbed' => Undisturbed
    BY <1>6 DEF EndLine, Undisturbed
  <2>3. Undisturbed' => InOrder'
    BY <1>1, <1>6, <2>2, EndLineInOrder
  <2>4. Undisturbed' => ListsComplete'
    <3>1. log'.lines = log.lines /\ UNCHANGED view
      BY <1>2, <1>6, StateTyped DEF EndLine, LineEnded, File
    <3>2. Whole(log) \subseteq Whole(log)'
      BY <3>1 DEF Whole, WholeAt
    <3>3. TypeOK'
      BY <2>1 DEF Always, WellFormed
    <3>4. QED
      BY <1>1, <2>2, <3>1, <3>2, <3>3, ListsKept
  <2>5. ~Undisturbed' => ListsComplete'
    BY DEF ListsComplete
  <2>6. QED
    BY <2>1, <2>3, <2>4, <2>5
<1>7. ASSUME NEW r \in Requests, EndLineFails(r)
      PROVE  Always' /\ (Undisturbed' => InOrder') /\ ListsComplete'
  <2>1. ~Undisturbed'
    <3>1. faults \in Nat /\ faults' = faults + 1
      BY <1>2, <1>7, StateTyped DEF EndLineFails
    <3>2. faults' # 0
      BY <3>1
    <3>3. QED
      BY <3>2 DEF Undisturbed
  <2>2. QED
    BY <1>1, <1>7, <2>1, EndLineFailsAlways DEF ListsComplete
<1>8. ASSUME NEW d \in Devices, List(d)
      PROVE  Always' /\ (Undisturbed' => InOrder') /\ ListsComplete'
  <2>1. Always'
    BY <1>1, <1>8, ListAlways
  <2>2. (Undisturbed' => Undisturbed) /\ UNCHANGED <<log, pc, stored, nextId>>
    BY <1>8 DEF List, Undisturbed
  <2>3. Undisturbed' => InOrder'
    BY <1>1, <2>2, InOrderKept
  <2>4. Undisturbed' => ListsComplete'
    BY <1>1, <1>8, <2>2, ListComplete
  <2>5. ~Undisturbed' => ListsComplete'
    BY DEF ListsComplete
  <2>6. QED
    BY <2>1, <2>3, <2>4, <2>5
<1>9. ASSUME Crash
      PROVE  Always' /\ (Undisturbed' => InOrder') /\ ListsComplete'
  <2>1. ~Undisturbed'
    <3>1. crashes \in Nat /\ crashes' = crashes + 1
      BY <1>2, <1>9, StateTyped DEF Crash
    <3>2. crashes' # 0
      BY <3>1
    <3>3. QED
      BY <3>2 DEF Undisturbed
  <2>2. QED
    BY <1>1, <1>9, <2>1, CrashAlways DEF ListsComplete
<1>10. ASSUME Restart
       PROVE  Always' /\ (Undisturbed' => InOrder') /\ ListsComplete'
  <2>1. Always'
    BY <1>1, <1>10, RestartAlways
  <2>2. (Undisturbed' => Undisturbed) /\ ~up /\ UNCHANGED <<log, pc, stored, view>>
    BY <1>10 DEF Restart, Undisturbed
  <2>3. Undisturbed' => InOrder'
    BY <1>1, <2>2, InOrderKept
  <2>4. Undisturbed' => ListsComplete'
    <3>1. Whole(log) \subseteq Whole(log)' /\ TypeOK'
      BY <2>1, <2>2 DEF Whole, WholeAt, Always, WellFormed
    <3>2. QED
      BY <1>1, <2>2, <3>1, ListsKept
  <2>5. ~Undisturbed' => ListsComplete'
    BY DEF ListsComplete
  <2>6. QED
    BY <2>1, <2>3, <2>4, <2>5
<1>11. ASSUME UNCHANGED vars
       PROVE  Always' /\ (Undisturbed' => InOrder') /\ ListsComplete'
  <2>1. UNCHANGED <<up, log, nextId, pc, stored, view, faults, crashes>>
    BY <1>11 DEF vars
  <2>2. TypeOK'
    BY <1>2, <2>1 DEF TypeOK
  <2>3. IdsIncrease' /\ OpenLine' /\ StoredItems' /\ LossCounted'
    <3>1. \A q \in Requests : Writing(q)' => Writing(q) /\ up' /\ nextId' = nextId
      BY <1>1, <2>1 DEF Always, OpenLine, Writing
    <3>2. faults' + crashes' = faults + crashes /\ UNCHANGED pc
      BY <2>1
    <3>3. QED
      BY <1>1, <2>1, <2>2, <3>1, <3>2, LogKept
  <2>4. IdsBelowNext'
    BY <1>1, <2>1 DEF Always, IdsBelowNext, WholeAt
  <2>5. Undisturbed' => InOrder'
    BY <1>1, <2>1, InOrderKept DEF Undisturbed
  <2>6. ListsComplete'
    BY <1>1, <2>1 DEF ListsComplete, Undisturbed, Whole, WholeAt
  <2>7. QED
    BY <2>2, <2>3, <2>4, <2>5, <2>6 DEF Always, WellFormed
<1>12. QED
  BY <1>4, <1>5, <1>6, <1>7, <1>8, <1>9, <1>10, <1>11 DEF Next

\* The invariant holds in every reachable state.
THEOREM InductiveInvariant == Spec => []IInv
  BY InitInvariant, NextInvariant, PTL DEF Spec

\* Lines are reports or damaged, and ids increase along telemetry.jsonl, although
\* a failed append leaves its id free and a restart reads the last lines only.
THEOREM LogWellFormed == Spec => []WellFormed
<1>1. IInv => WellFormed
  BY DEF IInv
<1>2. QED
  BY <1>1, InductiveInvariant, PTL

\* Each failed write and each kill costs one answered report, at most.
THEOREM LossBounded == Spec => []LossIsBounded
<1>1. IInv => LossIsBounded
  <2> SUFFICES ASSUME IInv
               PROVE  LossIsBounded
    OBVIOUS
  <2>1. IsFiniteSet(Lost) /\ Cardinality(Lost) + (IF Safe THEN 0 ELSE 1) <= faults + crashes
    BY DEF IInv, LossCounted
  <2>2. (AckedReports \ Whole(log)) \in SUBSET Lost
    BY DEF AckedReports, Lost, Stored
  <2>3. /\ IsFiniteSet(AckedReports \ Whole(log))
        /\ Cardinality(AckedReports \ Whole(log)) <= Cardinality(Lost)
    BY <2>1, <2>2, FS_Subset
  <2>4. Cardinality(AckedReports \ Whole(log)) \in Nat /\ Cardinality(Lost) \in Nat
    BY <2>1, <2>3, FS_CardinalityType
  <2>5. faults \in Nat /\ crashes \in Nat
    BY StateTyped DEF IInv, WellFormed
  <2>6. Cardinality(Lost) <= faults + crashes
    BY <2>1, <2>4, <2>5
  <2>7. QED
    BY <2>3, <2>4, <2>5, <2>6 DEF LossIsBounded
<1>2. QED
  BY <1>1, InductiveInvariant, PTL

\* While nothing fails, a batch is in the log up to some item and in its order,
\* and all of it once it was answered, whatever is appended between its items.
THEOREM BatchesOrdered == Spec => []BatchesInOrder
<1>1. IInv => BatchesInOrder
  <2> SUFFICES ASSUME IInv, Undisturbed, NEW r \in Requests
               PROVE  /\ \A i \in ItemsAt(r) :
                            log.lines[i].item = Cardinality({j \in ItemsAt(r) : j <= i})
                      /\ pc[r] = "ok" => Cardinality(ItemsAt(r)) = Size[r]
                                         /\ {log.lines[i] : i \in ItemsAt(r)} = Elements(stored[r])
    BY DEF BatchesInOrder, ItemsAt
  <2>1. InOrder
    BY DEF IInv
  <2>2. pc[r] = "ok" => Ahead(r) = 0 /\ UnderWay(r) = {}
    BY DEF Ahead, UnderWay, Writing
  <2>3. pc[r] = "ok" => Cardinality(ItemsAt(r)) = Size[r]
    <3>1. Size[r] \in Nat
      BY RequestsAssumption
    <3>2. QED
      BY <2>1, <2>2, <3>1 DEF InOrder
  <2>4. pc[r] = "ok" => {log.lines[i] : i \in ItemsAt(r)} = Elements(stored[r])
    BY <2>1, <2>2 DEF InOrder
  <2>5. QED
    BY <2>1, <2>3, <2>4 DEF InOrder
<1>2. QED
  BY <1>1, InductiveInvariant, PTL

\* While nothing fails, a list misses an answered report of the device only when
\* it has as many as it may, or maxTelemetry newer ones are in the file.
THEOREM ListsAreComplete == Spec => []ListsComplete
<1>1. IInv => ListsComplete
  BY DEF IInv
<1>2. QED
  BY <1>1, InductiveInvariant, PTL
====
