----------------------- MODULE StationSelectionProofs -----------------------
(***************************************************************************)
(* Proofs about StationSelection, for any scene, any number of stations    *)
(* and any rows in their files.                                            *)
(*                                                                         *)
(* The argument: through all removals the records are rows of the file in  *)
(* their order, every usable row among them (Matches), and those a filter  *)
(* is past are good.  The interval has thirteen hours when its loop ends,  *)
(* six of the day's first part and seven of its second (IntervalFits).  So *)
(* what validateStationData accepts is what is acceptable, and no station  *)
(* that is would have been passed over.                                    *)
(***************************************************************************)
EXTENDS StationSelection, SequenceTheorems, WellFoundedInduction, TLAPS

\* The distance of a time from a scene, as DistanceToScene has it.
Away(t, h, mi) == Magnitude(60 * t - 100 * (60 * h + mi))

Mild(row) == Magnitude(row.temp) \in MIN_AIR_TEMP_VALUE..MAX_AIR_TEMP_VALUE

\* The records the temperature filter, and the wind filter, are past.
TempPast == {j \in DOMAIN records : \/ stage \in {"wind", "interval", "chosen", "died"}
                                    \/ stage = "temperature" /\ j < i}
WindPast == {j \in DOMAIN records : \/ stage \in {"interval", "chosen", "died"}
                                    \/ stage = "wind" /\ j < i}

AtLeastMin(wind) == IF wind < MIN_WIND_SPEED_VALUE THEN MIN_WIND_SPEED_VALUE ELSE wind

MildRows == {k \in DOMAIN file : Mild(file[k])}
UsableRows == {k \in DOMAIN file : Usable(file[k])}

\* f[j] is the row of the record at j.
Matches(f) ==
    /\ RecordsAreRows(f)
    /\ \A j \in DOMAIN records :
          /\ records[j].temp = Magnitude(file[f[j]].temp)
          /\ records[j].wind = IF j \in WindPast THEN AtLeastMin(file[f[j]].wind) ELSE file[f[j]].wind
          /\ j \in TempPast => f[j] \in MildRows
          /\ j \in WindPast => f[j] \in UsableRows
    /\ \A k \in UsableRows : \E j \in DOMAIN records : f[j] = k

RecordsFit == \E f \in [DOMAIN records -> DOMAIN file] : Matches(f)

\* Between two stations nothing is left of the one before.
TurnsAreClean == /\ stage \in {"next", "none"} => file = <<>> /\ records = <<>>
                 /\ stage \in {"next", "none", "reading"} => i = 1

\* The hours of the interval, as far as it has got.
IntervalFits ==
    stage \in {"interval", "chosen", "died"} =>
        /\ \A k \in 1..Len(interval) : interval[k] = HourAt(5 + k)
        /\ cursor = (scene.hour + 6 + Len(interval)) % 24
        /\ scene.hour >= 5 => Len(interval) <= 13

\* What the stages after validateStationData stand for.
Outcomes == /\ ~passed
            /\ stage = "chosen" => Acceptable(file)

SelectionInvariant == TypeOK /\ RecordsFit /\ TurnsAreClean /\ IntervalFits /\ Outcomes

-----------------------------------------------------------------------------
LEMMA ConstantsFit ==
    /\ Hours \subseteq 0..23 /\ Minutes \subseteq 0..59 /\ MaxStations \in Nat /\ MaxRows \in Nat
    /\ HeapHours \in Nat /\ HeapHours > 13
    /\ \A h \in Hours : RowsAt(h) \subseteq RowValues
BY SelectionAssumption

\* What is left without the element at k, and where it is.
LEMMA RemoveAtFacts ==
    ASSUME NEW S, NEW s \in Seq(S), NEW k \in 1..Len(s)
    PROVE  /\ RemoveAt(s, k) \in Seq(S) /\ Len(RemoveAt(s, k)) = Len(s) - 1
           /\ \A j \in 1..Len(s) - 1 : RemoveAt(s, k)[j] = IF j < k THEN s[j] ELSE s[j + 1]
<1> DEFINE a == SubSeq(s, 1, k - 1)
           b == SubSeq(s, k + 1, Len(s))
<1>1. /\ a \in Seq(S) /\ Len(a) = k - 1
      /\ \A j \in 1..k - 1 : a[j] = s[j]
  OBVIOUS
<1>2. /\ b \in Seq(S) /\ Len(b) = Len(s) - k
      /\ \A j \in 1..Len(s) - k : b[j] = s[k + j]
  OBVIOUS
<1>3. RemoveAt(s, k) = a \o b
  BY DEF RemoveAt
<1> HIDE DEF a, b
<1>4. a \o b \in Seq(S) /\ Len(a \o b) = Len(s) - 1
  <2>1. a \in Seq(S) /\ b \in Seq(S) /\ Len(a) + Len(b) = Len(s) - 1
    BY <1>1, <1>2
  <2>2. a \o b \in Seq(S) /\ Len(a \o b) = Len(a) + Len(b)
    BY <2>1, ConcatProperties
  <2> QED BY <2>1, <2>2
<1>5. \A j \in 1..Len(s) - 1 : (a \o b)[j] = IF j < k THEN s[j] ELSE s[j + 1]
  <2> SUFFICES ASSUME NEW j \in 1..Len(s) - 1
               PROVE  (a \o b)[j] = IF j < k THEN s[j] ELSE s[j + 1]
    OBVIOUS
  <2>1. (a \o b)[j] = IF j <= k - 1 THEN a[j] ELSE b[j - (k - 1)]
    <3>1. j \in 1..Len(a) + Len(b) /\ Len(a) = k - 1
      BY <1>1, <1>2
    <3> QED BY <1>1, <1>2, <3>1, ConcatProperties
  <2>2. CASE j < k
    <3>1. j <= k - 1 /\ j \in 1..k - 1
      BY <2>2
    <3> QED BY <1>1, <2>1, <2>2, <3>1
  <2>3. CASE ~ (j < k)
    <3>1. /\ j - (k - 1) \in 1..Len(s) - k /\ k + (j - (k - 1)) = j + 1
          /\ ~ (j <= k - 1) /\ ~ (j < k)
      BY <2>3
    <3> QED BY <1>2, <2>1, <2>3, <3>1
  <2> QED BY <2>2, <2>3
<1> QED BY <1>3, <1>4, <1>5

LEMMA RecordFields ==
    ASSUME NEW r \in RecordValues
    PROVE  r.time \in Times /\ r.wind \in Nat /\ r.temp \in Nat /\ r.measured \in Int
BY DEF RecordValues

LEMMA RecordWithWind ==
    ASSUME NEW r \in RecordValues, NEW w \in Nat
    PROVE  LET e == [r EXCEPT !.wind = w]
           IN  /\ e \in RecordValues /\ e.wind = w
               /\ e.time = r.time /\ e.temp = r.temp /\ e.measured = r.measured
<1> DEFINE e == [r EXCEPT !.wind = w]
<1> DEFINE Made(a, b, c, d) == [time |-> a, wind |-> b, temp |-> c, measured |-> d]
<1>1. DOMAIN r = {"time", "wind", "temp", "measured"}
  BY DEF RecordValues
<1>2. e = Made(r.time, w, r.temp, r.measured)
  BY <1>1 DEF RecordValues
<1>3. r.time \in Times /\ r.temp \in Nat /\ r.measured \in Int
  BY RecordFields
<1>4. e \in RecordValues
  <2>1. \A a \in Times, c \in Nat, d \in Int : Made(a, w, c, d) \in RecordValues
    BY DEF RecordValues
  <2> HIDE DEF e, Made
  <2> QED BY <1>2, <1>3, <2>1
<1>5. e.wind = w /\ e.time = r.time /\ e.temp = r.temp /\ e.measured = r.measured
  <2> HIDE DEF e
  <2> QED BY <1>2
<1> QED BY <1>4, <1>5

LEMMA MagnitudeIsNat == ASSUME NEW z \in Int PROVE Magnitude(z) \in Nat
BY DEF Magnitude

\* The distance of a time from a scene.
LEMMA TimeIsAway ==
    ASSUME NEW t \in Times, NEW h \in 0..23, NEW mi \in 0..59
    PROVE  Away(t, h, mi) \in Nat
<1>1. 60 * t - 100 * (60 * h + mi) \in Int
  BY DEF Times
<1> QED BY <1>1, MagnitudeIsNat DEF Away

LEMMA DistanceIsNat ==
    ASSUME NEW r \in RecordValues, scene.hour \in 0..23, scene.minute \in 0..59
    PROVE  DistanceToScene(r) \in Nat
<1>1. r.time \in Times
  BY RecordFields
<1>2. Away(r.time, scene.hour, scene.minute) \in Nat
  BY <1>1, TimeIsAway
<1> QED BY <1>2 DEF DistanceToScene, Away

LEMMA ValuesFit ==
    ASSUME TypeOK
    PROVE  /\ scene.hour \in 0..23 /\ scene.minute \in 0..59
           /\ DOMAIN records = 1..Len(records) /\ Len(records) \in Nat
           /\ DOMAIN file = 1..Len(file) /\ Len(file) \in Nat
           /\ \A j \in DOMAIN records : records[j] \in RecordValues
           /\ \A k \in DOMAIN file : file[k] \in RowValues
           /\ DOMAIN interval = 1..Len(interval) /\ Len(interval) \in Nat
           /\ i \in Nat \ {0}
           /\ records \in Seq(RecordValues) /\ file \in Seq(RowValues)
<1>1. scene.hour \in 0..23 /\ scene.minute \in 0..59
  <2>1. scene.hour \in Hours /\ scene.minute \in Minutes
    BY DEF TypeOK
  <2> QED BY <2>1, ConstantsFit
<1>2. /\ records \in Seq(RecordValues) /\ file \in Seq(RowValues) /\ interval \in Seq(0..2300)
      /\ i \in 1..Len(records) + 1
  BY DEF TypeOK
<1> QED BY <1>1, <1>2

LEMMA SelectionInit == Init => SelectionInvariant
<1> SUFFICES ASSUME Init PROVE SelectionInvariant
  OBVIOUS
<1>1. TypeOK
  <2>1. file \in Seq(RowValues) /\ records \in Seq(RecordValues)
    BY DEF Init
  <2>2. i \in 1..Len(records) + 1 /\ interval \in Seq(0..2300) /\ Len(interval) <= HeapHours
    BY ConstantsFit DEF Init
  <2>3. station \in 0..nearby /\ nearby \in 0..MaxStations
    BY ConstantsFit DEF Init
  <2>4. scene \in [hour : Hours, minute : Minutes] /\ stage = "next" /\ cursor \in 0..23
    BY DEF Init
  <2>5. passed \in BOOLEAN
    BY DEF Init
  <2> QED BY <2>1, <2>2, <2>3, <2>4, <2>5 DEF TypeOK
<1>2. RecordsFit
  <2> DEFINE f == [j \in {} |-> j]
  <2>1. DOMAIN records = {} /\ DOMAIN file = {}
    BY DEF Init
  <2>2. f \in [DOMAIN records -> DOMAIN file]
    BY <2>1
  <2>3. Matches(f)
    BY <2>1 DEF Matches, RecordsAreRows, UsableRows
  <2> QED BY <2>2, <2>3 DEF RecordsFit
<1>3. TurnsAreClean /\ IntervalFits /\ Outcomes
  BY DEF Init, TurnsAreClean, IntervalFits, Outcomes
<1> QED BY <1>1, <1>2, <1>3 DEF SelectionInvariant

\* A step that leaves the records alone and moves no filter.
LEMMA RecordsStay ==
    ASSUME SelectionInvariant, UNCHANGED <<records, file, scene, TempPast, WindPast>>
    PROVE  RecordsFit'
<1>1. PICK f \in [DOMAIN records -> DOMAIN file] : Matches(f)
  BY DEF SelectionInvariant, RecordsFit
<1>2. UNCHANGED <<records, file, TempPast, WindPast, UsableRows, MildRows>>
  <2>1. file' = file /\ scene' = scene
    OBVIOUS
  <2>2. UsableRows' = UsableRows
    BY <2>1 DEF UsableRows, Usable, HourAt
  <2>3. MildRows' = MildRows
    BY <2>1 DEF MildRows, Mild
  <2> QED BY <2>2, <2>3
<1>3. RecordsAreRows(f)'
  BY <1>1, <1>2 DEF Matches, RecordsAreRows
<1>4. Matches(f)'
  BY <1>1, <1>2, <1>3 DEF Matches
<1> QED BY <1>1, <1>2, <1>4 DEF RecordsFit

-----------------------------------------------------------------------------
(***************************************************************************)
(* readStation                                                             *)
(***************************************************************************)
LEMMA OpenStationStep ==
    ASSUME SelectionInvariant, OpenStation
    PROVE  SelectionInvariant'
<1>1. /\ stage = "next" /\ stage' = "reading" /\ station' = station + 1 /\ station < nearby
      /\ UNCHANGED <<scene, nearby, file, records, i, interval, cursor, passed>>
  BY DEF OpenStation
<1>2. TypeOK'
  <2>1. station' \in 0..nearby'
    BY <1>1, ConstantsFit DEF SelectionInvariant, TypeOK
  <2> QED BY <1>1, <2>1 DEF SelectionInvariant, TypeOK
<1>3. RecordsFit'
  <2>1. TempPast' = TempPast /\ WindPast' = WindPast
    BY <1>1 DEF TempPast, WindPast
  <2> QED BY <1>1, <2>1, RecordsStay
<1>4. TurnsAreClean' /\ IntervalFits' /\ Outcomes'
  BY <1>1 DEF SelectionInvariant, TurnsAreClean, IntervalFits, Outcomes
<1> QED BY <1>2, <1>3, <1>4 DEF SelectionInvariant

LEMMA RecordIsTyped == ASSUME NEW row \in RowValues PROVE Record(row) \in RecordValues
<1>1. Magnitude(row.temp) \in Nat
  BY DEF Magnitude, RowValues
<1> QED BY <1>1 DEF Record, ParseAirTemp, RecordValues, RowValues

LEMMA ReadRowStep ==
    ASSUME SelectionInvariant, NEW row \in RowsAt(scene.hour), ReadRow(row)
    PROVE  SelectionInvariant'
<1>1. /\ stage = "reading" /\ file' = Append(file, row) /\ records' = Append(records, Record(row))
      /\ UNCHANGED <<scene, nearby, station, stage, i, interval, cursor, passed>>
  BY DEF ReadRow
<1>2. row \in RowValues /\ Record(row) \in RecordValues
  <2>1. scene.hour \in Hours
    BY DEF SelectionInvariant, TypeOK
  <2> QED BY <2>1, ConstantsFit, RecordIsTyped
<1>3. /\ file \in Seq(RowValues) /\ records \in Seq(RecordValues) /\ i = 1
      /\ TypeOK
  BY <1>1 DEF SelectionInvariant, TypeOK, TurnsAreClean
<1>N. PICK n \in Nat, m \in Nat : n = Len(file) /\ m = Len(records)
  BY <1>3
<1>4. /\ DOMAIN file = 1..n /\ DOMAIN records = 1..m
      /\ file' \in Seq(RowValues) /\ Len(file') = n + 1 /\ DOMAIN file' = 1..n + 1
      /\ records' \in Seq(RecordValues) /\ Len(records') = m + 1 /\ DOMAIN records' = 1..m + 1
      /\ file'[n + 1] = row /\ \A k \in 1..n : file'[k] = file[k]
      /\ records'[m + 1] = Record(row) /\ \A j \in 1..m : records'[j] = records[j]
  BY <1>1, <1>2, <1>3, <1>N
<1>5. TypeOK'
  <2>1. i' \in 1..Len(records') + 1
    <3>1. i' = 1 /\ Len(records') = m + 1
      BY <1>1, <1>3, <1>4
    <3> QED BY <3>1
  <2>2. file' \in Seq(RowValues)
    BY <1>4
  <2>3. records' \in Seq(RecordValues)
    BY <1>4
  <2>4. UNCHANGED <<scene, nearby, station, stage, interval, cursor, passed>>
    BY <1>1
  <2> QED BY <1>3, <2>1, <2>2, <2>3, <2>4 DEF TypeOK
<1>6. RecordsFit'
  <2>1. PICK f \in [1..m -> 1..n] : Matches(f)
    BY <1>4 DEF SelectionInvariant, RecordsFit
  <2>2. /\ TempPast = {} /\ WindPast = {} /\ TempPast' = {} /\ WindPast' = {}
    BY <1>1 DEF TempPast, WindPast
  <2>M. /\ \A j, k \in 1..m : j < k => f[j] < f[k]
        /\ \A j \in 1..m : /\ records[j].time = file[f[j]].time
                          /\ records[j].measured = file[f[j]].temp
                          /\ records[j].temp = Magnitude(file[f[j]].temp)
                          /\ records[j].wind = file[f[j]].wind
    BY <1>4, <2>1, <2>2 DEF Matches, RecordsAreRows
  <2> DEFINE g == [j \in 1..m + 1 |-> IF j = m + 1 THEN n + 1 ELSE f[j]]
  <2>3. g \in [1..m + 1 -> 1..n + 1] /\ g[m + 1] = n + 1 /\ \A j \in 1..m : g[j] = f[j] /\ f[j] \in 1..n
    BY <1>4, <2>1
  <2> HIDE DEF g
  <2>4. RecordsAreRows(g)'
    <3>1. \A j, k \in 1..m + 1 : j < k => g[j] < g[k]
      <4> SUFFICES ASSUME NEW j \in 1..m + 1, NEW k \in 1..m + 1, j < k PROVE g[j] < g[k]
        OBVIOUS
      <4>1. CASE k = m + 1
        BY <1>4, <2>3, <4>1
      <4>2. CASE k # m + 1
        <5>1. j \in 1..m /\ k \in 1..m
          BY <1>4, <4>2
        <5> QED BY <1>4, <2>M, <2>3, <5>1
      <4> QED BY <4>1, <4>2
    <3>2. ASSUME NEW j \in 1..m + 1
          PROVE  records'[j].time = file'[g[j]].time /\ records'[j].measured = file'[g[j]].temp
      <4>1. CASE j = m + 1
        BY <1>4, <2>3, <4>1 DEF Record
      <4>2. CASE j # m + 1
        <5>1. j \in 1..m
          BY <1>4, <4>2
        <5>2. records'[j] = records[j] /\ g[j] = f[j] /\ file'[f[j]] = file[f[j]]
          BY <1>4, <2>3, <5>1
        <5> QED BY <2>M, <5>1, <5>2
      <4> QED BY <4>1, <4>2
    <3> QED BY <1>4, <3>1, <3>2 DEF RecordsAreRows
  <2>5. ASSUME NEW j \in 1..m + 1
        PROVE  records'[j].temp = Magnitude(file'[g[j]].temp) /\ records'[j].wind = file'[g[j]].wind
    <3>1. CASE j = m + 1
      BY <1>4, <2>3, <3>1 DEF Record, ParseAirTemp
    <3>2. CASE j # m + 1
      <4>1. j \in 1..m
        BY <1>4, <3>2
      <4>2. records'[j] = records[j] /\ g[j] = f[j] /\ file'[f[j]] = file[f[j]]
        BY <1>4, <2>3, <4>1
      <4> QED BY <2>M, <4>1, <4>2
    <3> QED BY <3>1, <3>2
  <2>6. ASSUME NEW k \in UsableRows' PROVE \E j \in 1..m + 1 : g[j] = k
    <3>1. k \in 1..n + 1
      BY <1>4, <2>6 DEF UsableRows
    <3>2. CASE k = n + 1
      BY <1>4, <2>3, <3>2
    <3>3. CASE k # n + 1
      <4>1. k \in 1..n /\ file'[k] = file[k]
        BY <1>4, <3>1, <3>3
      <4>2. k \in UsableRows
        BY <1>1, <1>4, <2>6, <4>1 DEF UsableRows, Usable, HourAt
      <4>3. PICK j \in 1..m : f[j] = k
        BY <1>4, <2>1, <4>2 DEF Matches
      <4> QED BY <1>4, <2>3, <4>3
    <3> QED BY <3>2, <3>3
  <2>7. Matches(g)'
    BY <1>4, <2>2, <2>4, <2>5, <2>6 DEF Matches
  <2> QED BY <1>4, <2>3, <2>7 DEF RecordsFit
<1>7. TurnsAreClean' /\ IntervalFits' /\ Outcomes'
  BY <1>1, <1>3 DEF SelectionInvariant, TurnsAreClean, IntervalFits, Outcomes
<1> QED BY <1>5, <1>6, <1>7 DEF SelectionInvariant

LEMMA ReadEnds ==
    ASSUME SelectionInvariant, ReadDone \/ NoStationData \/ NoStation
    PROVE  SelectionInvariant'
<1>1. /\ stage \in {"reading", "next"} /\ stage' \in {"temperature", "next", "none"}
      /\ stage' # "temperature" => file = <<>>
      /\ i = 1
      /\ UNCHANGED <<scene, nearby, station, file, records, i, interval, cursor, passed>>
  BY DEF ReadDone, NoStationData, NoStation, SelectionInvariant, TurnsAreClean
<1>2. TypeOK'
  BY <1>1 DEF SelectionInvariant, TypeOK
<1>3. RecordsFit'
  <2>1. TempPast = {} /\ WindPast = {} /\ WindPast' = {}
    BY <1>1 DEF TempPast, WindPast
  <2>2. TempPast' = {}
    BY <1>1, ValuesFit DEF TempPast, SelectionInvariant
  <2> QED BY <1>1, <2>1, <2>2, RecordsStay
<1>4. file = <<>> => records = <<>>
  <2> SUFFICES ASSUME file = <<>> PROVE records = <<>>
    OBVIOUS
  <2>1. PICK f \in [DOMAIN records -> DOMAIN file] : Matches(f)
    BY DEF SelectionInvariant, RecordsFit
  <2>2. DOMAIN records = {}
    <3>1. DOMAIN file = {}
      OBVIOUS
    <3> QED BY <2>1, <3>1
  <2>3. records \in Seq(RecordValues)
    BY DEF SelectionInvariant, TypeOK
  <2> QED BY <2>2, <2>3, EmptySeq
<1>5. TurnsAreClean' /\ IntervalFits' /\ Outcomes'
  BY <1>1, <1>4 DEF SelectionInvariant, TurnsAreClean, IntervalFits, Outcomes
<1> QED BY <1>2, <1>3, <1>5 DEF SelectionInvariant

-----------------------------------------------------------------------------
(***************************************************************************)
(* The filters                                                             *)
(***************************************************************************)

\* A removal takes the record of a row that is not usable: the others keep
\* their rows, and no filter loses its place.
LEMMA RemovalFits ==
    ASSUME SelectionInvariant, stage \in {"temperature", "wind"}, i \in 1..Len(records),
           NEW f \in [DOMAIN records -> DOMAIN file], Matches(f), f[i] \notin UsableRows,
           RemoveRecord, UNCHANGED <<scene, stage, file>>
    PROVE  /\ records' \in Seq(RecordValues) /\ Len(records') = Len(records) - 1
           /\ i' = i /\ RecordsFit'
<1>1. /\ records \in Seq(RecordValues) /\ records' = RemoveAt(records, i) /\ i' = i
      /\ scene' = scene /\ stage' = stage /\ file' = file
  BY DEF SelectionInvariant, TypeOK, RemoveRecord
<1>N. PICK m \in Nat, c \in Nat, D \in {DOMAIN file} :
         m = Len(records) /\ c = i /\ c \in 1..m /\ D = DOMAIN file
  BY <1>1
<1>S. PICK s \in [1..m - 1 -> Nat] : \A j \in 1..m - 1 : s[j] = IF j < c THEN j ELSE j + 1
  <2> DEFINE t == [j \in 1..m - 1 |-> IF j < c THEN j ELSE j + 1]
  <2>1. t \in [1..m - 1 -> Nat] /\ \A j \in 1..m - 1 : t[j] = IF j < c THEN j ELSE j + 1
    BY <1>N
  <2> QED BY <2>1
<1>2. /\ DOMAIN records = 1..m
      /\ records' \in Seq(RecordValues) /\ Len(records') = m - 1 /\ DOMAIN records' = 1..m - 1
      /\ \A j \in 1..m - 1 : records'[j] = records[s[j]]
  <2>1. /\ records' \in Seq(RecordValues) /\ Len(records') = m - 1
        /\ \A j \in 1..m - 1 : records'[j] = IF j < c THEN records[j] ELSE records[j + 1]
    BY <1>1, <1>N, RemoveAtFacts
  <2> QED BY <1>1, <1>N, <1>S, <2>1
<1>3. DOMAIN file' = D /\ UsableRows' = UsableRows /\ MildRows' = MildRows /\ UsableRows \subseteq D
  <2>1. file' = file /\ scene' = scene
    BY <1>1
  <2>2. UsableRows' = UsableRows
    BY <2>1 DEF UsableRows, Usable, HourAt
  <2>3. MildRows' = MildRows
    BY <2>1 DEF MildRows, Mild
  <2> QED BY <1>N, <2>1, <2>2, <2>3 DEF UsableRows
<1>4. \A j \in 1..m - 1 : s[j] \in 1..m /\ s[j] # c
  BY <1>N, <1>S
<1>5. /\ TempPast' = {j \in 1..m - 1 : s[j] \in TempPast}
      /\ WindPast' = {j \in 1..m - 1 : s[j] \in WindPast}
  <2>1. \A j \in 1..m - 1 : j < c <=> s[j] < c
    BY <1>N, <1>S
  <2>2. \A j \in 1..m - 1 : s[j] \in 1..m
    BY <1>4
  <2>3. TempPast' = {j \in 1..m - 1 : stage = "wind" \/ (stage = "temperature" /\ j < c)}
    BY <1>1, <1>2, <1>N DEF TempPast
  <2>4. TempPast = {j \in 1..m : stage = "wind" \/ (stage = "temperature" /\ j < c)}
    BY <1>2, <1>N DEF TempPast
  <2>5. WindPast' = {j \in 1..m - 1 : stage = "wind" /\ j < c}
    BY <1>1, <1>2, <1>N DEF WindPast
  <2>6. WindPast = {j \in 1..m : stage = "wind" /\ j < c}
    BY <1>2, <1>N DEF WindPast
  <2>7. TempPast' = {j \in 1..m - 1 : s[j] \in TempPast}
    BY <2>1, <2>2, <2>3, <2>4
  <2>8. WindPast' = {j \in 1..m - 1 : s[j] \in WindPast}
    BY <2>1, <2>2, <2>5, <2>6
  <2> QED BY <2>7, <2>8
<1> DEFINE g == [j \in 1..m - 1 |-> f[s[j]]]
<1>6. g \in [1..m - 1 -> D] /\ \A j \in 1..m - 1 : g[j] = f[s[j]]
  BY <1>2, <1>4, <1>N
<1>7. \A j, k \in 1..m - 1 : j < k => s[j] < s[k]
  BY <1>N, <1>S
<1>M. /\ \A j, k \in 1..m : j < k => f[j] < f[k]
      /\ \A j \in 1..m :
            /\ records[j].time = file[f[j]].time
            /\ records[j].measured = file[f[j]].temp
            /\ records[j].temp = Magnitude(file[f[j]].temp)
            /\ records[j].wind = IF j \in WindPast THEN AtLeastMin(file[f[j]].wind)
                                 ELSE file[f[j]].wind
            /\ j \in TempPast => f[j] \in MildRows
            /\ j \in WindPast => f[j] \in UsableRows
      /\ \A k \in UsableRows : \E j \in 1..m : f[j] = k
  <2>1. DOMAIN records = 1..m
    BY <1>2
  <2> QED BY <2>1 DEF Matches, RecordsAreRows
<1>8. \A k \in UsableRows : \E j \in 1..m - 1 : g[j] = k
  <2> SUFFICES ASSUME NEW k \in UsableRows PROVE \E j \in 1..m - 1 : g[j] = k
    OBVIOUS
  <2>1. PICK j \in 1..m : f[j] = k
    BY <1>M
  <2>2. j # c
    BY <1>N, <2>1
  <2>3. CASE j < c
    <3>1. j \in 1..m - 1 /\ s[j] = j
      BY <1>N, <1>S, <2>3
    <3> QED BY <1>6, <2>1, <3>1
  <2>4. CASE j > c
    <3>1. j - 1 \in 1..m - 1 /\ s[j - 1] = j
      BY <1>N, <1>S, <2>4
    <3> QED BY <1>6, <2>1, <3>1
  <2> QED BY <1>N, <2>2, <2>3, <2>4
<1> HIDE DEF g
<1>9. Matches(g)'
  <2>1. \A j, k \in 1..m - 1 : j < k => g[j] < g[k]
    <3> SUFFICES ASSUME NEW j \in 1..m - 1, NEW k \in 1..m - 1, j < k PROVE g[j] < g[k]
      OBVIOUS
    <3>1. s[j] \in 1..m /\ s[k] \in 1..m /\ s[j] < s[k] /\ g[j] = f[s[j]] /\ g[k] = f[s[k]]
      BY <1>4, <1>6, <1>7
    <3>2. \A a, b \in 1..m : a < b => f[a] < f[b]
      BY <1>M
    <3> QED BY <3>1, <3>2
  <2>2. ASSUME NEW j \in 1..m - 1
        PROVE  /\ records'[j].time = file'[g[j]].time
               /\ records'[j].measured = file'[g[j]].temp
               /\ records'[j].temp = Magnitude(file'[g[j]].temp)
               /\ records'[j].wind = IF j \in WindPast' THEN AtLeastMin(file'[g[j]].wind)
                                     ELSE file'[g[j]].wind
               /\ j \in TempPast' => g[j] \in MildRows'
               /\ j \in WindPast' => g[j] \in UsableRows'
    <3>1. s[j] \in 1..m /\ records'[j] = records[s[j]] /\ g[j] = f[s[j]] /\ file' = file
      BY <1>1, <1>2, <1>4, <1>6
    <3>2. /\ (j \in TempPast') <=> s[j] \in TempPast
          /\ (j \in WindPast') <=> s[j] \in WindPast
      BY <1>5
    <3>3. UsableRows' = UsableRows /\ MildRows' = MildRows
      BY <1>3
    <3>4. /\ records[s[j]].time = file[f[s[j]]].time
          /\ records[s[j]].measured = file[f[s[j]]].temp
          /\ records[s[j]].temp = Magnitude(file[f[s[j]]].temp)
          /\ records[s[j]].wind = IF s[j] \in WindPast THEN AtLeastMin(file[f[s[j]]].wind)
                                  ELSE file[f[s[j]]].wind
          /\ s[j] \in TempPast => f[s[j]] \in MildRows
          /\ s[j] \in WindPast => f[s[j]] \in UsableRows
      BY <1>M, <3>1
    <3> QED BY <3>1, <3>2, <3>3, <3>4
  <2>3. RecordsAreRows(g)'
    BY <1>2, <2>1, <2>2 DEF RecordsAreRows
  <2> QED BY <1>2, <1>3, <1>8, <2>2, <2>3 DEF Matches
<1>10. RecordsFit'
  BY <1>2, <1>3, <1>6, <1>9 DEF RecordsFit
<1> QED BY <1>1, <1>2, <1>10, <1>N

\* Types after a turn of a filter.
LEMMA TurnIsTyped ==
    ASSUME SelectionInvariant, stage \in {"temperature", "wind"}, i \in 1..Len(records),
           UNCHANGED <<scene, nearby, station, stage, file, interval, cursor, passed>>,
           records' \in Seq(RecordValues),
           \/ Len(records') = Len(records) /\ i' = i + 1
           \/ Len(records') = Len(records) - 1 /\ i' = i
    PROVE  TypeOK' /\ TurnsAreClean' /\ IntervalFits' /\ Outcomes'
<1>1. i' \in 1..Len(records') + 1
  <2>1. Len(records) \in Nat
    BY ValuesFit DEF SelectionInvariant
  <2> QED BY <2>1
<1>2. TypeOK'
  BY <1>1 DEF SelectionInvariant, TypeOK
<1>3. stage' \notin {"next", "none", "reading", "interval", "chosen", "died"} /\ passed' = passed
  OBVIOUS
<1>4. TurnsAreClean' /\ IntervalFits' /\ Outcomes'
  BY <1>3 DEF SelectionInvariant, TurnsAreClean, IntervalFits, Outcomes
<1> QED BY <1>2, <1>4

LEMMA TemperatureTurnStep ==
    ASSUME SelectionInvariant, TemperatureTurn
    PROVE  SelectionInvariant'
<1>1. /\ stage = "temperature" /\ i <= Len(records)
      /\ UNCHANGED <<scene, nearby, station, stage, file, interval, cursor, passed>>
  BY DEF TemperatureTurn
<1>2. /\ i \in 1..Len(records) /\ i \in DOMAIN records /\ records[i] \in RecordValues
      /\ DOMAIN records = 1..Len(records)
  BY <1>1, ValuesFit DEF SelectionInvariant
<1>3. PICK f \in [DOMAIN records -> DOMAIN file] : Matches(f)
  BY DEF SelectionInvariant, RecordsFit
<1>4. /\ f[i] \in DOMAIN file /\ records[i].temp = Magnitude(file[f[i]].temp)
      /\ records[i].temp \in Nat
  <2>1. f[i] \in DOMAIN file
    BY <1>2, <1>3
  <2>2. records[i].temp = Magnitude(file[f[i]].temp)
    BY <1>2, <1>3 DEF Matches
  <2>3. records[i].temp \in Nat
    BY <1>2, RecordFields
  <2> QED BY <2>1, <2>2, <2>3
<1>T. PICK t \in Nat : t = records[i].temp /\ t = Magnitude(file[f[i]].temp)
  BY <1>4
<1>5. CASE records[i].temp < MIN_AIR_TEMP_VALUE \/ records[i].temp > MAX_AIR_TEMP_VALUE
  <2>1. RemoveRecord
    BY <1>5 DEF TemperatureTurn
  <2>2. f[i] \notin UsableRows
    <3>1. t < MIN_AIR_TEMP_VALUE \/ t > MAX_AIR_TEMP_VALUE
      BY <1>5, <1>T
    <3>2. ~ (t \in MIN_AIR_TEMP_VALUE..MAX_AIR_TEMP_VALUE)
      BY <3>1 DEF MIN_AIR_TEMP_VALUE, MAX_AIR_TEMP_VALUE
    <3> QED BY <1>T, <3>2 DEF UsableRows, Usable
  <2>3. /\ records' \in Seq(RecordValues) /\ Len(records') = Len(records) - 1
        /\ i' = i /\ RecordsFit'
    BY <1>1, <1>2, <1>3, <2>1, <2>2, RemovalFits
  <2> QED BY <1>1, <1>2, <2>3, TurnIsTyped DEF SelectionInvariant
<1>6. CASE ~ (records[i].temp < MIN_AIR_TEMP_VALUE \/ records[i].temp > MAX_AIR_TEMP_VALUE)
  <2>1. i' = i + 1 /\ records' = records
    BY <1>6 DEF TemperatureTurn
  <2>2. f[i] \in MildRows
    <3>1. ~ (t < MIN_AIR_TEMP_VALUE \/ t > MAX_AIR_TEMP_VALUE)
      BY <1>6, <1>T
    <3>2. t \in MIN_AIR_TEMP_VALUE..MAX_AIR_TEMP_VALUE
      BY <3>1 DEF MIN_AIR_TEMP_VALUE, MAX_AIR_TEMP_VALUE
    <3> QED BY <1>4, <1>T, <3>2 DEF MildRows, Mild
  <2>3. TempPast' = TempPast \cup {i} /\ WindPast' = {} /\ WindPast = {}
    BY <1>1, <1>2, <2>1 DEF TempPast, WindPast
  <2>4. UsableRows' = UsableRows /\ MildRows' = MildRows
    BY <1>1 DEF UsableRows, Usable, HourAt, MildRows, Mild
  <2>5. RecordsAreRows(f)'
    BY <1>1, <1>3, <2>1 DEF Matches, RecordsAreRows
  <2>6. \A j \in DOMAIN records : j \in TempPast' => f[j] \in MildRows
    BY <1>3, <2>2, <2>3 DEF Matches
  <2>7. Matches(f)'
    BY <1>1, <1>3, <2>1, <2>3, <2>4, <2>5, <2>6 DEF Matches
  <2>8. RecordsFit'
    BY <1>1, <2>1, <2>7 DEF RecordsFit
  <2>9. records' \in Seq(RecordValues)
    BY <2>1, ValuesFit DEF SelectionInvariant
  <2> QED BY <1>1, <1>2, <2>1, <2>8, <2>9, TurnIsTyped DEF SelectionInvariant
<1> QED BY <1>5, <1>6

LEMMA TemperatureDoneStep ==
    ASSUME SelectionInvariant, TemperatureDone
    PROVE  SelectionInvariant'
<1>1. /\ stage = "temperature" /\ i > Len(records) /\ stage' = "wind" /\ i' = 1
      /\ UNCHANGED <<scene, nearby, station, file, records, interval, cursor, passed>>
  BY DEF TemperatureDone
<1>2. DOMAIN records = 1..Len(records) /\ Len(records) \in Nat /\ i \in Nat
  BY ValuesFit DEF SelectionInvariant
<1>3. TempPast' = TempPast /\ WindPast' = WindPast
  BY <1>1, <1>2 DEF TempPast, WindPast
<1>4. RecordsFit'
  BY <1>1, <1>3, RecordsStay
<1>5. TypeOK'
  BY <1>1, <1>2 DEF SelectionInvariant, TypeOK
<1>6. TurnsAreClean' /\ IntervalFits' /\ Outcomes'
  BY <1>1 DEF SelectionInvariant, TurnsAreClean, IntervalFits, Outcomes
<1> QED BY <1>4, <1>5, <1>6 DEF SelectionInvariant

LEMMA WindTurnStep ==
    ASSUME SelectionInvariant, WindTurn
    PROVE  SelectionInvariant'
<1>1. /\ stage = "wind" /\ i <= Len(records)
      /\ UNCHANGED <<scene, nearby, station, stage, file, interval, cursor, passed>>
  BY DEF WindTurn
<1>2. /\ i \in 1..Len(records) /\ i \in DOMAIN records /\ records[i] \in RecordValues
      /\ DOMAIN records = 1..Len(records) /\ records \in Seq(RecordValues)
  BY <1>1, ValuesFit DEF SelectionInvariant
<1>3. PICK f \in [DOMAIN records -> DOMAIN file] : Matches(f)
  BY DEF SelectionInvariant, RecordsFit
<1>4. TempPast = DOMAIN records /\ i \notin WindPast
  BY <1>1, <1>2 DEF TempPast, WindPast
<1>5. /\ f[i] \in DOMAIN file /\ f[i] \in MildRows
      /\ records[i].time = file[f[i]].time /\ records[i].wind = file[f[i]].wind
  BY <1>2, <1>3, <1>4 DEF Matches, RecordsAreRows
<1>6. MainHours = {HourAt(0), HourAt(1)}
  BY DEF MainHours
<1>7. CASE TooWindy(records[i])
  <2>1. RemoveRecord
    BY <1>7 DEF WindTurn
  <2>2. f[i] \notin UsableRows
    BY <1>5, <1>6, <1>7 DEF UsableRows, Usable, TooWindy
  <2>3. /\ records' \in Seq(RecordValues) /\ Len(records') = Len(records) - 1
        /\ i' = i /\ RecordsFit'
    BY <1>1, <1>2, <1>3, <2>1, <2>2, RemovalFits
  <2> QED BY <1>1, <1>2, <2>3, TurnIsTyped DEF SelectionInvariant
<1>8. CASE ~TooWindy(records[i])
  <2>1. i' = i + 1 /\ records' = [records EXCEPT ![i].wind = AtLeastMin(records[i].wind)]
    BY <1>8 DEF WindTurn, AtLeastMin
  <2>2. f[i] \in UsableRows
    BY <1>5, <1>6, <1>8 DEF UsableRows, Usable, TooWindy, MildRows, Mild
  <2>3. AtLeastMin(records[i].wind) \in Nat
    <3>1. PICK w \in Nat : w = records[i].wind
      BY <1>2, RecordFields
    <3> QED BY <3>1 DEF AtLeastMin, MIN_WIND_SPEED_VALUE
  <2>4. /\ records' \in Seq(RecordValues) /\ Len(records') = Len(records)
        /\ DOMAIN records' = DOMAIN records
        /\ \A j \in DOMAIN records : j # i => records'[j] = records[j]
        /\ records'[i].time = records[i].time /\ records'[i].temp = records[i].temp
        /\ records'[i].measured = records[i].measured
        /\ records'[i].wind = AtLeastMin(records[i].wind)
    <3> DEFINE r == [records[i] EXCEPT !.wind = AtLeastMin(records[i].wind)]
    <3>1. /\ r \in RecordValues /\ r.time = records[i].time /\ r.temp = records[i].temp
          /\ r.measured = records[i].measured /\ r.wind = AtLeastMin(records[i].wind)
      <4>1. PICK rec \in RecordValues, w \in Nat : rec = records[i] /\ w = AtLeastMin(records[i].wind)
        BY <1>2, <2>3
      <4> QED BY <4>1, RecordWithWind
    <3>2. records' = [records EXCEPT ![i] = r]
      BY <2>1
    <3> HIDE DEF r
    <3> QED BY <1>2, <3>1, <3>2
  <2>5. /\ TempPast' = DOMAIN records
        /\ WindPast' = WindPast \cup {i}
    BY <1>1, <1>2, <2>1, <2>4 DEF TempPast, WindPast
  <2>6. UsableRows' = UsableRows /\ MildRows' = MildRows /\ file' = file
    BY <1>1 DEF UsableRows, Usable, HourAt, MildRows, Mild
  <2>7. \A j \in DOMAIN records :
           /\ records'[j].time = file[f[j]].time
           /\ records'[j].measured = file[f[j]].temp
           /\ records'[j].temp = Magnitude(file[f[j]].temp)
           /\ records'[j].wind = IF j \in WindPast' THEN AtLeastMin(file[f[j]].wind)
                                 ELSE file[f[j]].wind
           /\ f[j] \in MildRows
           /\ j \in WindPast' => f[j] \in UsableRows
    <3> SUFFICES ASSUME NEW j \in DOMAIN records
                 PROVE  /\ records'[j].time = file[f[j]].time
                        /\ records'[j].measured = file[f[j]].temp
                        /\ records'[j].temp = Magnitude(file[f[j]].temp)
                        /\ records'[j].wind = IF j \in WindPast' THEN AtLeastMin(file[f[j]].wind)
                                              ELSE file[f[j]].wind
                        /\ f[j] \in MildRows
                        /\ j \in WindPast' => f[j] \in UsableRows
      OBVIOUS
    <3>1. /\ records[j].time = file[f[j]].time
          /\ records[j].measured = file[f[j]].temp
          /\ records[j].temp = Magnitude(file[f[j]].temp)
          /\ records[j].wind = IF j \in WindPast THEN AtLeastMin(file[f[j]].wind)
                               ELSE file[f[j]].wind
          /\ f[j] \in MildRows
          /\ j \in WindPast => f[j] \in UsableRows
      BY <1>3, <1>4 DEF Matches, RecordsAreRows
    <3>2. CASE j = i
      BY <1>5, <2>2, <2>4, <2>5, <3>1, <3>2
    <3>3. CASE j # i
      BY <2>4, <2>5, <3>1, <3>3
    <3> QED BY <3>2, <3>3
  <2>8. RecordsAreRows(f)'
    BY <1>3, <2>4, <2>6, <2>7 DEF Matches, RecordsAreRows
  <2>9. Matches(f)'
    BY <1>3, <2>4, <2>6, <2>7, <2>8 DEF Matches
  <2>10. RecordsFit'
    BY <2>4, <2>6, <2>9 DEF RecordsFit
  <2> QED BY <1>1, <1>2, <2>1, <2>4, <2>10, TurnIsTyped DEF SelectionInvariant
<1> QED BY <1>7, <1>8

-----------------------------------------------------------------------------
(***************************************************************************)
(* The interval of hours, and what is made of it                           *)
(***************************************************************************)

\* The hour the loop of getHoursInterval ends at.
LEMMA HoursAhead ==
    ASSUME NEW h \in 0..23
    PROVE  JavaRem(JavaRem(h - 6, 24) + 1, 24) = h - 5
<1>1. CASE h >= 6
  <2>1. JavaRem(h - 6, 24) = h - 6
    BY <1>1 DEF JavaRem
  <2>2. JavaRem(h - 5, 24) = h - 5
    BY <1>1 DEF JavaRem
  <2> QED BY <2>1, <2>2
<1>2. CASE h < 6
  <2>1. JavaRem(h - 6, 24) = h - 6
    BY <1>2 DEF JavaRem
  <2>2. JavaRem(h - 5, 24) = h - 5
    BY <1>2 DEF JavaRem
  <2>3. h - 6 + 1 = h - 5
    OBVIOUS
  <2> QED BY <2>1, <2>2, <2>3
<1> QED BY <1>1, <1>2

LEMMA WindDoneStep ==
    ASSUME SelectionInvariant, WindDone
    PROVE  SelectionInvariant'
<1>1. /\ stage = "wind" /\ i > Len(records) /\ stage' = "interval" /\ interval' = <<>>
      /\ cursor' = UpperBound
      /\ UNCHANGED <<scene, nearby, station, file, records, i, passed>>
  BY DEF WindDone
<1>2. DOMAIN records = 1..Len(records) /\ Len(records) \in Nat /\ i \in Nat /\ scene.hour \in 0..23
  BY ValuesFit DEF SelectionInvariant
<1>3. cursor' = (scene.hour + 6) % 24 /\ cursor' \in 0..23
  <2>1. PICK h \in 0..23 : h = scene.hour
    BY <1>2
  <2>2. JavaRem(h + 6, 24) = (h + 6) % 24
    BY DEF JavaRem
  <2>3. (h + 6) % 24 \in 0..23
    OBVIOUS
  <2> QED BY <1>1, <2>1, <2>2, <2>3 DEF UpperBound
<1>4. TempPast' = TempPast /\ WindPast' = WindPast
  BY <1>1, <1>2 DEF TempPast, WindPast
<1>5. RecordsFit'
  BY <1>1, <1>4, RecordsStay
<1>6. Len(interval') = 0 /\ interval' \in Seq(0..2300)
  BY <1>1
<1>7. TypeOK'
  BY <1>1, <1>3, <1>6, ConstantsFit DEF SelectionInvariant, TypeOK
<1>8. IntervalFits'
  <2>1. scene'.hour = scene.hour
    BY <1>1
  <2>2. cursor' = (scene'.hour + 6 + Len(interval')) % 24
    <3>1. PICK h \in 0..23 : h = scene.hour
      BY <1>2
    <3>2. h + 6 = h + 6 + 0
      OBVIOUS
    <3>3. cursor' = (h + 6) % 24
      BY <1>3, <3>1
    <3>4. cursor' = (h + 6 + 0) % 24
      BY <3>2, <3>3
    <3> QED BY <1>6, <2>1, <3>1, <3>4
  <2> QED BY <1>6, <2>2 DEF IntervalFits
<1>9. TurnsAreClean' /\ Outcomes'
  BY <1>1 DEF SelectionInvariant, TurnsAreClean, Outcomes
<1> QED BY <1>5, <1>7, <1>8, <1>9 DEF SelectionInvariant

LEMMA AddHourStep ==
    ASSUME SelectionInvariant, AddHour
    PROVE  SelectionInvariant'
<1>1. /\ stage = "interval" /\ ~IntervalIsDone /\ Len(interval) < HeapHours
      /\ interval' = Append(interval, 100 * cursor) /\ cursor' = (cursor + 1) % 24
      /\ UNCHANGED <<scene, nearby, station, stage, file, records, i, passed>>
  BY DEF AddHour
<1>2. /\ cursor \in 0..23 /\ interval \in Seq(0..2300) /\ scene.hour \in 0..23
      /\ Len(interval) \in Nat
  BY ValuesFit DEF SelectionInvariant, TypeOK
<1>N. PICK n \in Nat, h \in 0..23 : n = Len(interval) /\ h = scene.hour
  BY <1>2
<1>3. /\ interval' \in Seq(0..2300) /\ Len(interval') = n + 1
      /\ interval'[n + 1] = 100 * cursor /\ \A k \in 1..n : interval'[k] = interval[k]
  <2>1. PICK v \in 0..2300 : v = 100 * cursor
    BY <1>2
  <2>2. interval' = Append(interval, v)
    BY <1>1, <2>1
  <2>3. Append(interval, v) \in Seq(0..2300) /\ Len(Append(interval, v)) = Len(interval) + 1
    BY <1>2, AppendProperties
  <2>4. Append(interval, v)[Len(interval) + 1] = v
    BY <1>2, AppendProperties
  <2>5. \A k \in 1..Len(interval) : Append(interval, v)[k] = interval[k]
    BY <1>2, AppendProperties
  <2>6. interval' \in Seq(0..2300) /\ Len(interval') = n + 1
    BY <1>N, <2>2, <2>3
  <2>7. interval'[n + 1] = 100 * cursor
    BY <1>N, <2>1, <2>2, <2>4
  <2>8. \A k \in 1..n : interval'[k] = interval[k]
    BY <1>N, <2>2, <2>5
  <2> QED BY <2>6, <2>7, <2>8
<1>4. cursor' \in 0..23
  BY <1>1, <1>2
<1>5. TypeOK'
  <2>1. Len(interval') <= HeapHours
    <3>1. n < HeapHours /\ Len(interval') = n + 1 /\ HeapHours \in Nat
      BY <1>1, <1>3, <1>N, ConstantsFit
    <3> QED BY <3>1
  <2>2. interval' \in Seq(0..2300)
    BY <1>3
  <2>3. TypeOK /\ UNCHANGED <<scene, nearby, station, stage, file, records, i, passed>>
    BY <1>1 DEF SelectionInvariant
  <2> QED BY <1>4, <2>1, <2>2, <2>3 DEF TypeOK
<1>6. RecordsFit'
  <2>1. TempPast' = TempPast /\ WindPast' = WindPast
    BY <1>1 DEF TempPast, WindPast
  <2> QED BY <1>1, <2>1, RecordsStay
<1>7. /\ cursor = (h + 6 + n) % 24
      /\ h >= 5 => n <= 13
      /\ \A k \in 1..n : interval[k] = HourAt(5 + k)
  BY <1>1, <1>N DEF SelectionInvariant, IntervalFits
<1>8. IntervalFits'
  <2>1. cursor' = (h + 6 + (n + 1)) % 24
    <3>1. \A a \in Nat : ((a % 24) + 1) % 24 = (a + 1) % 24
      OBVIOUS
    <3> QED BY <1>1, <1>7, <3>1
  <2>2. h >= 5 => n + 1 <= 13
    <3>1. h >= 5 => cursor # h - 5
      <4>1. cursor # JavaRem(JavaRem(h - 6, 24) + 1, 24)
        BY <1>1, <1>N DEF IntervalIsDone, LowerBound
      <4>2. h >= 5 => JavaRem(JavaRem(h - 6, 24) + 1, 24) = h - 5
        BY HoursAhead
      <4> QED BY <4>1, <4>2
    <3>2. h >= 5 /\ n = 13 => (h + 6 + n) % 24 = h - 5
      OBVIOUS
    <3> QED BY <1>7, <3>1, <3>2
  <2>3. \A k \in 1..n + 1 : interval'[k] = HourAt(5 + k)'
    <3> SUFFICES ASSUME NEW k \in 1..n + 1 PROVE interval'[k] = HourAt(5 + k)'
      OBVIOUS
    <3>1. HourAt(5 + k)' = HourAt(5 + k)
      BY <1>1 DEF HourAt
    <3>2. CASE k = n + 1
      <4>1. h + (5 + k) = h + 6 + n
        BY <3>2
      <4> QED BY <1>3, <1>7, <1>N, <3>1, <3>2, <4>1 DEF HourAt
    <3>3. CASE k # n + 1
      <4>1. k \in 1..n
        BY <3>3
      <4> QED BY <1>3, <1>7, <3>1, <4>1
    <3> QED BY <3>2, <3>3
  <2>4. Len(interval') = n + 1 /\ scene'.hour = h
    BY <1>1, <1>3, <1>N
  <2> QED BY <2>1, <2>2, <2>3, <2>4 DEF IntervalFits
<1>9. TurnsAreClean' /\ Outcomes'
  BY <1>1 DEF SelectionInvariant, TurnsAreClean, Outcomes
<1> QED BY <1>5, <1>6, <1>8, <1>9 DEF SelectionInvariant

\* When the loop ends, the interval has six hours of the first part of the day
\* and seven of the second.
LEMMA IntervalIsWhole ==
    ASSUME SelectionInvariant, stage = "interval", IntervalIsDone
    PROVE  /\ scene.hour \in 5..23 /\ Len(interval) = 13 /\ MidIndex = 6
           /\ {interval[k] : k \in 1..6} = {HourAt(d) : d \in 6..11}
           /\ {interval[k] : k \in 7..13} = {HourAt(d) : d \in 12..18}
<1>1. scene.hour \in 0..23 /\ Len(interval) \in Nat /\ cursor \in 0..23
  BY ValuesFit DEF SelectionInvariant, TypeOK
<1>N. PICK n \in Nat, h \in 0..23 : n = Len(interval) /\ h = scene.hour
  BY <1>1
<1>2. /\ cursor = (h + 6 + n) % 24
      /\ h >= 5 => n <= 13
      /\ \A k \in 1..n : interval[k] = HourAt(5 + k)
  BY <1>N DEF SelectionInvariant, IntervalFits
<1>3. cursor = h - 5 /\ h >= 5
  <2>1. cursor = JavaRem(JavaRem(h - 6, 24) + 1, 24)
    BY <1>N DEF IntervalIsDone, LowerBound
  <2>2. JavaRem(JavaRem(h - 6, 24) + 1, 24) = h - 5
    BY HoursAhead
  <2>3. cursor = h - 5
    BY <2>1, <2>2
  <2> QED BY <1>1, <2>3
<1>4. n = 13
  BY <1>2, <1>3
<1>5. MidIndex = 6
  <2>1. MidIndex = 13 \div 2
    BY <1>4, <1>N DEF MidIndex
  <2>2. 13 \div 2 = 6
    OBVIOUS
  <2> QED BY <2>1, <2>2
<1>6. {interval[k] : k \in 1..6} = {HourAt(d) : d \in 6..11}
  <2>1. \A k \in 1..6 : interval[k] = HourAt(5 + k) /\ 5 + k \in 6..11
    BY <1>2, <1>4
  <2>2. \A d \in 6..11 : d - 5 \in 1..6 /\ 5 + (d - 5) = d
    OBVIOUS
  <2> QED BY <2>1, <2>2
<1>7. {interval[k] : k \in 7..13} = {HourAt(d) : d \in 12..18}
  <2>1. \A k \in 7..13 : interval[k] = HourAt(5 + k) /\ 5 + k \in 12..18
    BY <1>2, <1>4
  <2>2. \A d \in 12..18 : d - 5 \in 7..13 /\ 5 + (d - 5) = d
    OBVIOUS
  <2> QED BY <2>1, <2>2
<1> QED BY <1>3, <1>4, <1>5, <1>6, <1>7, <1>N

\* What validateStationData accepts is what is acceptable.
LEMMA ValidIsAcceptable ==
    ASSUME SelectionInvariant, stage = "interval", IntervalIsDone
    PROVE  Valid <=> Acceptable(file)
<1>1. PICK f \in [DOMAIN records -> DOMAIN file] : Matches(f)
  BY DEF SelectionInvariant, RecordsFit
<1>2. /\ \A j \in DOMAIN records : f[j] \in UsableRows /\ records[j].time = file[f[j]].time
      /\ \A k \in UsableRows : \E j \in DOMAIN records : f[j] = k
  <2>1. WindPast = DOMAIN records
    BY DEF WindPast
  <2> QED BY <1>1, <2>1 DEF Matches, RecordsAreRows
<1>3. ASSUME NEW part
      PROVE  HasHours({HourAt(d) : d \in part})
                <=> \E k \in DOMAIN file : Usable(file[k]) /\ \E d \in part : file[k].time = HourAt(d)
  <2>1. ASSUME HasHours({HourAt(d) : d \in part})
        PROVE  \E k \in DOMAIN file : Usable(file[k]) /\ \E d \in part : file[k].time = HourAt(d)
    <3>1. PICK j \in DOMAIN records : \E d \in part : records[j].time = HourAt(d)
      BY <2>1 DEF HasHours
    <3>2. f[j] \in DOMAIN file /\ Usable(file[f[j]]) /\ file[f[j]].time = records[j].time
      BY <1>2 DEF UsableRows
    <3> QED BY <3>1, <3>2
  <2>2. ASSUME NEW k \in DOMAIN file, Usable(file[k]), NEW d \in part, file[k].time = HourAt(d)
        PROVE  HasHours({HourAt(e) : e \in part})
    <3>1. PICK j \in DOMAIN records : f[j] = k
      BY <1>2, <2>2 DEF UsableRows
    <3>2. records[j].time = HourAt(d)
      BY <1>2, <2>2, <3>1
    <3> QED BY <3>2 DEF HasHours
  <2> QED BY <2>1, <2>2
<1>4. /\ MainHours = {HourAt(d) : d \in 0..1}
      /\ {interval[k] : k \in 1..MidIndex} = {HourAt(d) : d \in 6..11}
      /\ {interval[k] : k \in MidIndex + 1..Len(interval)} = {HourAt(d) : d \in 12..18}
  <2>1. MidIndex = 6 /\ MidIndex + 1 = 7 /\ Len(interval) = 13
    BY IntervalIsWhole
  <2> QED BY <2>1, IntervalIsWhole DEF MainHours
<1>5. Valid <=> /\ HasHours({HourAt(d) : d \in 0..1})
                /\ HasHours({HourAt(d) : d \in 6..11})
                /\ HasHours({HourAt(d) : d \in 12..18})
  BY <1>4 DEF Valid
<1> DEFINE Covered(part) ==
        \E k \in DOMAIN file : Usable(file[k]) /\ \E d \in part : file[k].time = HourAt(d)
<1>6. Acceptable(file) <=> Covered(0..1) /\ Covered(6..11) /\ Covered(12..18)
  BY DEF Acceptable
<1>7. /\ HasHours({HourAt(d) : d \in 0..1}) <=> Covered(0..1)
      /\ HasHours({HourAt(d) : d \in 6..11}) <=> Covered(6..11)
      /\ HasHours({HourAt(d) : d \in 12..18}) <=> Covered(12..18)
  BY <1>3
<1> HIDE DEF Covered
<1> QED BY <1>5, <1>6, <1>7

LEMMA AnswerStep ==
    ASSUME SelectionInvariant, Choose \/ OutOfMemory
    PROVE  SelectionInvariant'
<1>1. /\ stage = "interval" /\ stage' \in {"chosen", "died"}
      /\ UNCHANGED <<scene, nearby, station, file, records, i, interval, cursor, passed>>
  BY DEF Choose, OutOfMemory
<1>2. TypeOK'
  BY <1>1 DEF SelectionInvariant, TypeOK
<1>3. RecordsFit'
  <2>1. TempPast' = TempPast /\ WindPast' = WindPast
    BY <1>1 DEF TempPast, WindPast
  <2> QED BY <1>1, <2>1, RecordsStay
<1>4. TurnsAreClean' /\ IntervalFits'
  <2>1. \A d : HourAt(d)' = HourAt(d)
    BY <1>1 DEF HourAt
  <2> QED BY <1>1, <2>1 DEF SelectionInvariant, TurnsAreClean, IntervalFits
<1>5. Outcomes'
  <2>1. stage' = "chosen" => Acceptable(file)
    BY <1>1, ValidIsAcceptable DEF Choose, OutOfMemory
  <2>2. Acceptable(file)' <=> Acceptable(file)
    BY <1>1 DEF Acceptable, Usable, HourAt
  <2> QED BY <1>1, <2>1, <2>2 DEF SelectionInvariant, Outcomes
<1> QED BY <1>2, <1>3, <1>4, <1>5 DEF SelectionInvariant

LEMMA RejectStep ==
    ASSUME SelectionInvariant, Reject
    PROVE  SelectionInvariant'
<1>1. /\ stage = "interval" /\ stage' = "next" /\ passed' = (passed \/ Acceptable(file))
      /\ file' = <<>> /\ records' = <<>> /\ i' = 1 /\ interval' = <<>> /\ cursor' = 0
      /\ UNCHANGED <<scene, nearby, station>>
  BY DEF Reject
<1>2. ~Acceptable(file)
  BY <1>1, ValidIsAcceptable DEF Reject
<1>3. passed' = FALSE
  BY <1>1, <1>2 DEF SelectionInvariant, Outcomes
<1>4. TypeOK'
  <2>1. /\ file' \in Seq(RowValues) /\ interval' \in Seq(0..2300) /\ Len(interval') = 0
        /\ records' \in Seq(RecordValues)
        /\ Len(records') = 0
    BY <1>1
  <2> QED BY <1>1, <1>3, <2>1, ConstantsFit DEF SelectionInvariant, TypeOK
<1>5. RecordsFit'
  <2> DEFINE f == [j \in {} |-> j]
  <2>1. DOMAIN records' = {} /\ DOMAIN file' = {}
    BY <1>1
  <2>2. f \in [DOMAIN records' -> DOMAIN file']
    BY <2>1
  <2>3. Matches(f)'
    BY <2>1 DEF Matches, RecordsAreRows, UsableRows
  <2> QED BY <2>2, <2>3 DEF RecordsFit
<1>6. TurnsAreClean' /\ IntervalFits' /\ Outcomes'
  BY <1>1, <1>3 DEF TurnsAreClean, IntervalFits, Outcomes
<1> QED BY <1>4, <1>5, <1>6 DEF SelectionInvariant

-----------------------------------------------------------------------------
(***************************************************************************)
(* The results                                                             *)
(***************************************************************************)

\* The invariant above holds of every search.
THEOREM SelectionInvariantHolds == Spec => []SelectionInvariant
<1>1. SelectionInvariant /\ [Next]_vars => SelectionInvariant'
  <2> SUFFICES ASSUME SelectionInvariant, [Next]_vars PROVE SelectionInvariant'
    OBVIOUS
  <2>1. CASE UNCHANGED vars
    <3>1. UNCHANGED <<scene, nearby, station, stage, file, records, i, interval, cursor, passed>>
      BY <2>1 DEF vars
    <3>2. TypeOK' /\ TurnsAreClean'
      BY <3>1 DEF SelectionInvariant, TypeOK, TurnsAreClean
    <3>3. RecordsFit'
      <4>1. TempPast' = TempPast /\ WindPast' = WindPast
        BY <3>1 DEF TempPast, WindPast
      <4> QED BY <3>1, <4>1, RecordsStay
    <3>4. IntervalFits' /\ Outcomes'
      <4>1. \A d : HourAt(d)' = HourAt(d)
        BY <3>1 DEF HourAt
      <4>2. Acceptable(file)' <=> Acceptable(file)
        BY <3>1 DEF Acceptable, Usable, HourAt
      <4> QED BY <3>1, <4>1, <4>2 DEF SelectionInvariant, IntervalFits, Outcomes
    <3> QED BY <3>2, <3>3, <3>4 DEF SelectionInvariant
  <2>2. CASE OpenStation
    BY <2>2, OpenStationStep
  <2>3. ASSUME NEW row \in RowsAt(scene.hour), ReadRow(row) PROVE SelectionInvariant'
    BY <2>3, ReadRowStep
  <2>4. CASE ReadDone \/ NoStationData \/ NoStation
    BY <2>4, ReadEnds
  <2>5. CASE TemperatureTurn
    BY <2>5, TemperatureTurnStep
  <2>6. CASE TemperatureDone
    BY <2>6, TemperatureDoneStep
  <2>7. CASE WindTurn
    BY <2>7, WindTurnStep
  <2>8. CASE WindDone
    BY <2>8, WindDoneStep
  <2>9. CASE AddHour
    BY <2>9, AddHourStep
  <2>10. CASE Choose \/ OutOfMemory
    BY <2>10, AnswerStep
  <2>11. CASE Reject
    BY <2>11, RejectStep
  <2> QED BY <2>1, <2>2, <2>3, <2>4, <2>5, <2>6, <2>7, <2>8, <2>9, <2>10, <2>11 DEF Next
<1> QED BY <1>1, SelectionInit, PTL DEF Spec

\* The values of the variables; no filter's index leaves its array.
THEOREM SelectionTypes == Spec => []TypeOK
<1>1. SelectionInvariant => TypeOK
  BY DEF SelectionInvariant
<1> QED BY <1>1, SelectionInvariantHolds, PTL

LEMMA InvariantImpliesNearest == SelectionInvariant => NearestAcceptableStationIsChosen
<1> SUFFICES ASSUME SelectionInvariant PROVE NearestAcceptableStationIsChosen
  OBVIOUS
<1>1. ~passed /\ (stage = "chosen" => Acceptable(file))
  BY DEF SelectionInvariant, Outcomes
<1>2. ASSUME stage = "chosen"
      PROVE  \E f \in [DOMAIN records -> DOMAIN file] :
                /\ RecordsAreRows(f)
                /\ {f[j] : j \in DOMAIN records} = {k \in DOMAIN file : Usable(file[k])}
  <2>1. PICK f \in [DOMAIN records -> DOMAIN file] : Matches(f)
    BY DEF SelectionInvariant, RecordsFit
  <2>2. WindPast = DOMAIN records
    BY <1>2 DEF WindPast
  <2>3. {f[j] : j \in DOMAIN records} = UsableRows
    BY <2>1, <2>2 DEF Matches, UsableRows
  <2> QED BY <2>1, <2>3 DEF Matches, UsableRows
<1> QED BY <1>1, <1>2 DEF NearestAcceptableStationIsChosen

\* selectStation answers the nearest station whose usable rows cover the day,
\* with exactly those rows, and passes none over.
THEOREM NearestAcceptableStation == Spec => []NearestAcceptableStationIsChosen
BY InvariantImpliesNearest, SelectionInvariantHolds, PTL

-----------------------------------------------------------------------------
(***************************************************************************)
(* The record R works with                                                 *)
(***************************************************************************)
LEMMA NaturalsHaveMinimum ==
    ASSUME NEW T, T \subseteq Nat, T # {}
    PROVE  \E a \in T : \A b \in T : a <= b
<1> DEFINE R == OpToRel(<, Nat)
<1>1. PICK a \in T : \A b \in T : ~ (<<b, a>> \in R)
  <2>1. IsWellFoundedOn(R, Nat)
    BY NatLessThanWellFounded
  <2> HIDE DEF R
  <2> QED BY <2>1, WFMin
<1>2. \A b \in T : ~ (b < a)
  BY <1>1 DEF OpToRel
<1> QED BY <1>2

\* The record R chooses is one of those nearest to the scene.
LEMMA SceneRecordIsNearest ==
    ASSUME SelectionInvariant, DOMAIN records # {}
    PROVE  \E k \in DOMAIN records :
              /\ SceneRecord = records[k]
              /\ \A j \in DOMAIN records : DistanceToScene(records[k]) <= DistanceToScene(records[j])
<1> DEFINE distance(j) == DistanceToScene(records[j])
<1>1. \A j \in DOMAIN records : distance(j) \in Nat
  <2> SUFFICES ASSUME NEW j \in DOMAIN records PROVE DistanceToScene(records[j]) \in Nat
    OBVIOUS
  <2>1. records[j] \in RecordValues /\ scene.hour \in 0..23 /\ scene.minute \in 0..59
    BY ValuesFit DEF SelectionInvariant
  <2> QED BY <2>1, DistanceIsNat
<1>2. DOMAIN records \subseteq Nat
  BY ValuesFit DEF SelectionInvariant
<1> HIDE DEF distance
<1>3. PICK d \in Nat : /\ \E j \in DOMAIN records : distance(j) = d
                       /\ \A j \in DOMAIN records : d <= distance(j)
  <2> DEFINE T == {distance(j) : j \in DOMAIN records}
  <2>1. T \subseteq Nat /\ T # {}
    BY <1>1
  <2>2. PICK d \in T : \A b \in T : d <= b
    <3> HIDE DEF T
    <3> QED BY <2>1, NaturalsHaveMinimum
  <2> QED BY <1>1, <2>2
<1>4. PICK k \in DOMAIN records : /\ distance(k) = d
                                 /\ \A j \in DOMAIN records : distance(j) = d => k <= j
  <2> DEFINE K == {j \in DOMAIN records : distance(j) = d}
  <2>1. K \subseteq Nat /\ K # {}
    BY <1>2, <1>3
  <2>2. PICK k \in K : \A j \in K : k <= j
    <3> HIDE DEF K
    <3> QED BY <2>1, NaturalsHaveMinimum
  <2> QED BY <2>2
<1> DEFINE First(j) == \A m \in DOMAIN records :
                           /\ distance(j) <= distance(m)
                           /\ distance(j) = distance(m) => j <= m
<1>5. First(k)
  BY <1>3, <1>4
<1>6. SceneRecord = records[CHOOSE j \in DOMAIN records : First(j)]
  BY DEF SceneRecord, distance
<1>7. PICK c \in DOMAIN records : c = (CHOOSE j \in DOMAIN records : First(j)) /\ First(c)
  <2> HIDE DEF First
  <2> QED BY <1>4, <1>5
<1>8. SceneRecord = records[c]
  BY <1>6, <1>7
<1>9. \A m \in DOMAIN records : distance(c) <= distance(m)
  BY <1>7
<1> QED BY <1>8, <1>9 DEF distance

\* The distance of a main hour.
LEMMA MainHourIsNear ==
    ASSUME NEW h \in 0..22, NEW mi \in 0..59, NEW d \in 0..1
    PROVE  /\ Away(100 * ((h + d) % 24), h, mi) <= 6000
           /\ mi # 0 => Away(100 * ((h + d) % 24), h, mi) < 6000
<1>1. (h + d) % 24 = h + d
  OBVIOUS
<1>2. 60 * (100 * (h + d)) - 100 * (60 * h + mi) = 6000 * d - 100 * mi
  OBVIOUS
<1>3. d = 0 \/ d = 1
  OBVIOUS
<1> QED BY <1>1, <1>2, <1>3 DEF Magnitude, Away

IsFullHour(t) == t % 100 = 0
IsNear(t, h, mi) == Away(t, h, mi) < 6000

\* A full hour that is less than an hour away is a main hour.
LEMMA NearIsMainHour ==
    ASSUME NEW t \in Times, NEW h \in 0..22, NEW mi \in 1..59, IsFullHour(t), IsNear(t, h, mi)
    PROVE  t = 100 * ((h + 0) % 24) \/ t = 100 * ((h + 1) % 24)
<1>1. t = 100 * (t \div 100) /\ t \div 100 \in 0..23
  BY DEF Times, IsFullHour
<1>2. PICK q \in 0..23 : t = 100 * q
  BY <1>1
<1>3. 60 * t - 100 * (60 * h + mi) = 6000 * (q - h) - 100 * mi
  BY <1>2
<1>4. Magnitude(6000 * (q - h) - 100 * mi) < 6000
  BY <1>3 DEF Away, IsNear
<1>5. q - h = 0 \/ q - h = 1
  BY <1>4 DEF Magnitude
<1>6. (h + 0) % 24 = h /\ (h + 1) % 24 = h + 1
  OBVIOUS
<1> QED BY <1>2, <1>5, <1>6

LEMMA InvariantImpliesUsable == SelectionInvariant => SceneRecordIsUsable
<1> SUFFICES ASSUME SelectionInvariant, stage = "chosen", scene.hour < 23
             PROVE  /\ DistanceToScene(SceneRecord) <= 60 * 100
                    /\ scene.minute # 0 /\ (\A k \in DOMAIN file : file[k].time % 100 = 0)
                          => SceneRecord.wind \in MIN_WIND_SPEED_VALUE..MAX_WIND_SPEED_VALUE
  BY DEF SceneRecordIsUsable
<1>1. PICK f \in [DOMAIN records -> DOMAIN file] : Matches(f)
  BY DEF SelectionInvariant, RecordsFit
<1>2. /\ \A j \in DOMAIN records : /\ f[j] \in UsableRows
                                  /\ records[j].time = file[f[j]].time
                                  /\ records[j].wind = AtLeastMin(file[f[j]].wind)
      /\ \A k \in UsableRows : \E j \in DOMAIN records : f[j] = k
  <2>1. WindPast = DOMAIN records
    BY DEF WindPast
  <2> QED BY <1>1, <2>1 DEF Matches, RecordsAreRows
<1>3. PICK h \in 0..22, mi \in 0..59 : h = scene.hour /\ mi = scene.minute
  <2>1. scene.hour \in 0..23 /\ scene.minute \in 0..59
    BY ValuesFit DEF SelectionInvariant
  <2>2. scene.hour \in 0..22
    BY <2>1
  <2> QED BY <2>1, <2>2
<1>4. \A j \in DOMAIN records :
         /\ records[j].time \in Times
         /\ DistanceToScene(records[j]) = Away(records[j].time, h, mi)
         /\ DistanceToScene(records[j]) \in Nat
  <2> SUFFICES ASSUME NEW j \in DOMAIN records
               PROVE  /\ records[j].time \in Times
                      /\ DistanceToScene(records[j])
                            = Away(records[j].time, h, mi)
                      /\ DistanceToScene(records[j]) \in Nat
    OBVIOUS
  <2>1. records[j] \in RecordValues /\ scene.hour \in 0..23 /\ scene.minute \in 0..59
    BY ValuesFit DEF SelectionInvariant
  <2>2. records[j].time \in Times
    BY <2>1, RecordFields
  <2>3. DistanceToScene(records[j]) = Away(records[j].time, h, mi)
    BY <1>3 DEF DistanceToScene, Away
  <2>4. DistanceToScene(records[j]) \in Nat
    BY <2>1, DistanceIsNat
  <2> QED BY <2>2, <2>3, <2>4
<1>5. PICK j \in DOMAIN records, d \in 0..1 : records[j].time = HourAt(d)
  <2>1. PICK k \in DOMAIN file : Usable(file[k]) /\ \E d \in 0..1 : file[k].time = HourAt(d)
    BY DEF SelectionInvariant, Outcomes, Acceptable
  <2>2. k \in UsableRows
    BY <2>1 DEF UsableRows
  <2>3. PICK j \in DOMAIN records : f[j] = k
    BY <1>2, <2>2
  <2> QED BY <1>2, <2>1, <2>3
<1>6. PICK c \in DOMAIN records :
         /\ SceneRecord = records[c]
         /\ \A m \in DOMAIN records : DistanceToScene(records[c]) <= DistanceToScene(records[m])
  <2>1. DOMAIN records # {}
    BY <1>5
  <2> QED BY <2>1, SceneRecordIsNearest
<1>7. /\ DistanceToScene(records[j]) <= 6000
      /\ mi # 0 => DistanceToScene(records[j]) < 6000
  <2>1. records[j].time = 100 * ((h + d) % 24)
    BY <1>3, <1>5 DEF HourAt
  <2>2. DistanceToScene(records[j]) = Away(100 * ((h + d) % 24), h, mi)
    <3>1. DistanceToScene(records[j]) = Away(records[j].time, h, mi)
      BY <1>4
    <3> QED BY <2>1, <3>1
  <2> QED BY <2>2, MainHourIsNear
<1>8. /\ DistanceToScene(records[c]) \in Int /\ DistanceToScene(records[j]) \in Int
      /\ DistanceToScene(records[c]) <= DistanceToScene(records[j])
  BY <1>4, <1>6
<1>9. DistanceToScene(SceneRecord) <= 60 * 100
  BY <1>6, <1>7, <1>8
<1>10. ASSUME scene.minute # 0, \A k \in DOMAIN file : file[k].time % 100 = 0
       PROVE  SceneRecord.wind \in MIN_WIND_SPEED_VALUE..MAX_WIND_SPEED_VALUE
  <2>1. DistanceToScene(records[c]) < 6000
    BY <1>3, <1>7, <1>8, <1>10
  <2>2. f[c] \in DOMAIN file /\ records[c].time % 100 = 0
    BY <1>2, <1>10
  <2>3. records[c].time \in {HourAt(0), HourAt(1)}
    <3>1. records[c].time \in Times /\ IsFullHour(records[c].time)
      BY <1>4, <2>2 DEF IsFullHour
    <3>2. IsNear(records[c].time, h, mi)
      BY <1>4, <2>1 DEF IsNear
    <3>3. \/ records[c].time = 100 * ((h + 0) % 24)
          \/ records[c].time = 100 * ((h + 1) % 24)
      <4>1. mi \in 1..59
        BY <1>3, <1>10
      <4> QED BY <3>1, <3>2, <4>1, NearIsMainHour
    <3>5. HourAt(0) = 100 * ((h + 0) % 24) /\ HourAt(1) = 100 * ((h + 1) % 24)
      BY <1>3 DEF HourAt
    <3> QED BY <3>3, <3>5
  <2>4. file[f[c]].wind \in Nat /\ ~ (file[f[c]].wind > MAX_WIND_SPEED_VALUE)
    <3>1. Usable(file[f[c]]) /\ file[f[c]].time = records[c].time
      BY <1>2 DEF UsableRows
    <3>2. file[f[c]].wind \in Nat
      <4>1. file[f[c]] \in RowValues
        BY <2>2, ValuesFit DEF SelectionInvariant
      <4> QED BY <4>1 DEF RowValues
    <3> QED BY <2>3, <3>1, <3>2 DEF Usable
  <2>5. SceneRecord.wind = AtLeastMin(file[f[c]].wind)
    BY <1>2, <1>6
  <2> QED BY <2>4, <2>5 DEF AtLeastMin, MIN_WIND_SPEED_VALUE, MAX_WIND_SPEED_VALUE
<1> QED BY <1>9, <1>10

\* The record R takes is at most an hour from the scene, and has a measured
\* wind speed when the station reports on full hours.
THEOREM SceneRecordsAreUsable == Spec => []SceneRecordIsUsable
BY InvariantImpliesUsable, SelectionInvariantHolds, PTL

=============================================================================
