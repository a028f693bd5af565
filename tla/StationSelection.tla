-------------------------- MODULE StationSelection --------------------------
(***************************************************************************)
(* Which weather station a scene gets: WeatherStation.selectStation goes   *)
(* through the stations around the scene, nearest first, filters the       *)
(* records of each one and takes the first station whose records cover the *)
(* day.  What it chooses is read by the R script, which works with the     *)
(* ONE record nearest to the scene centre time.                            *)
(*                                                                         *)
(* A row is what a line of a station's file says: the time as hhmm, the    *)
(* wind speed in tenths of m/s and the air temperature in tenths of a      *)
(* degree, 9999 when it is missing.                                        *)
(***************************************************************************)
EXTENDS Integers, SequencesExt

CONSTANTS Hours, Minutes,   \* of the scene centre time
          MaxStations,      \* bound: stations in the region
          RowsAt(_),        \* the rows a station may have, for a scene hour
          MaxRows,          \* bound: rows of the day in a station's file
          HeapHours         \* bound: list elements the Java heap holds

\* hhmm, as a number.
Times == 0..2359

\* Rows of a file, and the records made of them.
RowValues == [time : Times, wind : Nat, temp : Int]
RecordValues == [time : Times, wind : Nat, temp : Nat, measured : Int]

ASSUME SelectionAssumption ==
    /\ Hours \subseteq 0..23 /\ Minutes \subseteq 0..59
    /\ MaxStations \in Nat
    /\ HeapHours \in Nat /\ HeapHours > 13
    /\ \A h \in Hours : RowsAt(h) \subseteq RowValues
    /\ MaxRows \in Nat

\* In tenths, as the rows.
MIN_WIND_SPEED_VALUE == 3
MAX_WIND_SPEED_VALUE == 310
MIN_AIR_TEMP_VALUE   == 50
MAX_AIR_TEMP_VALUE   == 550

VARIABLES scene,      \* hour and minute of the scene centre time
          nearby,     \* how many stations are in the region
          station,    \* the station the loop of selectStation is at; 0 before it
          stage,      \* what is done with it
          file,       \* its rows
          records,    \* its records, as far as they are filtered
          i,          \* the index of the filter, from 1
          interval,   \* the list getHoursInterval builds
          cursor,     \* its loop variable
          passed      \* history: was an acceptable station passed over?

vars == <<scene, nearby, station, stage, file, records, i, interval, cursor, passed>>

Init == /\ scene \in [hour : Hours, minute : Minutes]
        /\ nearby \in 0..MaxStations
        /\ station = 0
        /\ stage = "next"
        /\ file = <<>>
        /\ records = <<>>
        /\ i = 1
        /\ interval = <<>>
        /\ cursor = 0
        /\ passed = FALSE

-----------------------------------------------------------------------------
(***************************************************************************)
(* readStation                                                             *)
(***************************************************************************)

Magnitude(n) == IF n < 0 THEN -n ELSE n

\* The sign is taken with substring(0, 0), which is empty, and the first
\* character is dropped: what is parsed is the magnitude.
ParseAirTemp(temp) == Magnitude(temp)

\* getHourlyData, with the measured temperature kept beside for reference.
Record(row) == [time |-> row.time, wind |-> row.wind,
                temp |-> ParseAirTemp(row.temp), measured |-> row.temp]

\* The file of the next station is downloaded and unpacked.
OpenStation ==
    /\ stage = "next" /\ station < nearby
    /\ station' = station + 1
    /\ stage' = "reading"
    /\ UNCHANGED <<scene, nearby, file, records, i, interval, cursor, passed>>

\* One row of the day; the file is in the order of time.  Each field of the
\* record is a non-empty text, so removeNonRepresentativeRecords keeps it.
ReadRow(row) ==
    /\ stage = "reading" /\ Len(file) < MaxRows
    /\ file # <<>> => Last(file).time <= row.time
    /\ file' = Append(file, row)
    /\ records' = Append(records, Record(row))
    /\ UNCHANGED <<scene, nearby, station, stage, i, interval, cursor, passed>>

\* readStation answers the records.
ReadDone ==
    /\ stage = "reading" /\ file # <<>>
    /\ stage' = "temperature"
    /\ UNCHANGED <<scene, nearby, station, file, records, i, interval, cursor, passed>>

\* It answers null, without rows of the day, or throws: the next station.
NoStationData ==
    /\ stage = "reading" /\ file = <<>>
    /\ stage' = "next"
    /\ UNCHANGED <<scene, nearby, station, file, records, i, interval, cursor, passed>>

-----------------------------------------------------------------------------
(***************************************************************************)
(* The filters, one turn of a loop at a time                               *)
(***************************************************************************)

\* Mutant: no i-- after the removal.
RemoveRecord_Skips == /\ records' = RemoveAt(records, i)
                      /\ i' = i + 1

\* adjustedStationData.remove(i), and i-- against the i++ of the loop.
RemoveRecord == /\ records' = RemoveAt(records, i)
                /\ i' = i

TemperatureTurn ==
    /\ stage = "temperature" /\ i <= Len(records)
    /\ IF records[i].temp < MIN_AIR_TEMP_VALUE \/ records[i].temp > MAX_AIR_TEMP_VALUE
       THEN RemoveRecord
       ELSE i' = i + 1 /\ UNCHANGED records
    /\ UNCHANGED <<scene, nearby, station, stage, file, interval, cursor, passed>>

TemperatureDone ==
    /\ stage = "temperature" /\ i > Len(records)
    /\ stage' = "wind"
    /\ i' = 1
    /\ UNCHANGED <<scene, nearby, station, file, records, interval, cursor, passed>>

\* hhmm of the full hour that lies d hours after the scene hour, on one clock.
HourAt(d) == 100 * ((scene.hour + d) % 24)

\* Mutant: three main hours.
MainHours_Three == {HourAt(d) : d \in 0..2}

\* getMainHours.
MainHours == {HourAt(d) : d \in 0..1}

\* A missing wind speed is 999.9 m/s; outside the main hours it is kept.
TooWindy(r) == r.time \in MainHours /\ r.wind > MAX_WIND_SPEED_VALUE

\* Mutant: i-- without the removal.
WindTurn_KeepsRecord ==
    /\ stage = "wind" /\ i <= Len(records)
    /\ IF TooWindy(records[i]) THEN UNCHANGED <<i, records>>
       ELSE /\ records' = [records EXCEPT ![i].wind =
                              IF @ < MIN_WIND_SPEED_VALUE THEN MIN_WIND_SPEED_VALUE ELSE @]
            /\ i' = i + 1
    /\ UNCHANGED <<scene, nearby, station, stage, file, interval, cursor, passed>>

WindTurn ==
    /\ stage = "wind" /\ i <= Len(records)
    /\ IF TooWindy(records[i]) THEN RemoveRecord
       ELSE /\ records' = [records EXCEPT ![i].wind =
                              IF @ < MIN_WIND_SPEED_VALUE THEN MIN_WIND_SPEED_VALUE ELSE @]
            /\ i' = i + 1
    /\ UNCHANGED <<scene, nearby, station, stage, file, interval, cursor, passed>>

-----------------------------------------------------------------------------
(***************************************************************************)
(* validateStationData                                                     *)
(***************************************************************************)

\* The % of Java has the sign of its left operand.
JavaRem(a, b) == IF a < 0 THEN -((-a) % b) ELSE a % b

LowerBound == JavaRem(scene.hour - 6, 24)
UpperBound == JavaRem(scene.hour + 6, 24)

\* The loop of getHoursInterval starts at the upper bound ...
WindDone ==
    /\ stage = "wind" /\ i > Len(records)
    /\ stage' = "interval"
    /\ interval' = <<>>
    /\ cursor' = UpperBound
    /\ UNCHANGED <<scene, nearby, station, file, records, i, passed>>

\* ... and goes round the clock until it is past the lower bound.
IntervalIsDone == cursor = JavaRem(LowerBound + 1, 24)

AddHour ==
    /\ stage = "interval" /\ ~IntervalIsDone
    /\ Len(interval) < HeapHours
    /\ interval' = Append(interval, 100 * cursor)
    /\ cursor' = (cursor + 1) % 24
    /\ UNCHANGED <<scene, nearby, station, stage, file, records, i, passed>>

\* The list has filled the heap: an OutOfMemoryError is no Exception, nobody
\* catches it, and PreProcessMain ends without a station file.
OutOfMemory ==
    /\ stage = "interval" /\ ~IntervalIsDone
    /\ Len(interval) = HeapHours
    /\ stage' = "died"
    /\ UNCHANGED <<scene, nearby, station, file, records, i, interval, cursor, passed>>

HasHours(hours) == \E k \in DOMAIN records : records[k].time \in hours

\* Mutant: the middle hour belongs to the first part.
MidIndex_RoundsUp == (Len(interval) + 1) \div 2

MidIndex == Len(interval) \div 2

Valid == /\ HasHours(MainHours)
         /\ HasHours({interval[k] : k \in 1..MidIndex})
         /\ HasHours({interval[k] : k \in MidIndex + 1..Len(interval)})

-----------------------------------------------------------------------------
(***************************************************************************)
(* What selectStation answers, and what is expected of it                  *)
(***************************************************************************)

\* The rows that may be used, and whether they cover the day: a main hour, one
\* of the six full hours from six hours after the scene on, and one of the
\* seven full hours after those.
Usable(row) ==
    /\ Magnitude(row.temp) \in MIN_AIR_TEMP_VALUE..MAX_AIR_TEMP_VALUE
    /\ ~(row.time \in {HourAt(0), HourAt(1)} /\ row.wind > MAX_WIND_SPEED_VALUE)

Acceptable(rows) ==
    \A part \in {0..1, 6..11, 12..18} : \E k \in DOMAIN rows :
        Usable(rows[k]) /\ \E d \in part : rows[k].time = HourAt(d)

Choose ==
    /\ stage = "interval" /\ IntervalIsDone /\ Valid
    /\ stage' = "chosen"
    /\ UNCHANGED <<scene, nearby, station, file, records, i, interval, cursor, passed>>

\* The next station; the variables of the turn are gone.
Reject ==
    /\ stage = "interval" /\ IntervalIsDone /\ ~Valid
    /\ stage' = "next"
    /\ passed' = (passed \/ Acceptable(file))
    /\ file' = <<>> /\ records' = <<>> /\ i' = 1
    /\ interval' = <<>> /\ cursor' = 0
    /\ UNCHANGED <<scene, nearby, station>>

\* The list of stations is empty or used up: null, and no station file.
NoStation ==
    /\ stage = "next" /\ station = nearby
    /\ stage' = "none"
    /\ UNCHANGED <<scene, nearby, station, file, records, i, interval, cursor, passed>>

Next == \/ OpenStation \/ (\E row \in RowsAt(scene.hour) : ReadRow(row))
        \/ ReadDone \/ NoStationData
        \/ TemperatureTurn \/ TemperatureDone
        \/ WindTurn \/ WindDone
        \/ AddHour \/ OutOfMemory
        \/ Choose \/ Reject \/ NoStation

\* One thread, whose steps follow one another.
Spec == Init /\ [][Next]_vars /\ WF_vars(Next)

-----------------------------------------------------------------------------
(***************************************************************************)
(* What R makes of it: Algoritmo_29112017.R reads the records back and     *)
(* takes the first of those nearest to the scene centre time.              *)
(***************************************************************************)

\* Distance from hour.image = (hour + minute / 60) * 100, in 60ths of an hhmm
\* unit.
DistanceToScene(r) ==
    Magnitude(60 * r.time - 100 * (60 * scene.hour + scene.minute))

\* hour.image.station
SceneRecord ==
    records[CHOOSE k \in DOMAIN records : \A m \in DOMAIN records :
        /\ DistanceToScene(records[k]) <= DistanceToScene(records[m])
        /\ DistanceToScene(records[k]) = DistanceToScene(records[m]) => k <= m]

-----------------------------------------------------------------------------
(***************************************************************************)
(* Properties                                                              *)
(***************************************************************************)

\* Values of the variables; the index never leaves the array by more than one.
TypeOK ==
    /\ scene \in [hour : Hours, minute : Minutes]
    /\ nearby \in 0..MaxStations /\ station \in 0..nearby
    /\ stage \in {"next", "reading", "temperature", "wind", "interval",
                 "chosen", "none", "died"}
    /\ file \in Seq(RowValues)
    /\ records \in Seq(RecordValues)
    /\ i \in 1..Len(records) + 1
    /\ interval \in Seq(0..2300) /\ Len(interval) <= HeapHours
    /\ cursor \in 0..23
    /\ passed \in BOOLEAN

\* The records are rows of the file, in their order; f[j] is the row of the
\* record at j.
RecordsAreRows(f) ==
    /\ \A j, k \in DOMAIN records : j < k => f[j] < f[k]
    /\ \A j \in DOMAIN records : /\ records[j].time = file[f[j]].time
                                /\ records[j].measured = file[f[j]].temp

\* The nearest station whose usable rows cover the day is chosen, with all of
\* those rows and in their order; without such a station there is no answer.
\* No acceptable station is lost to a filter, an index or a part of the day.
NearestAcceptableStationIsChosen ==
    /\ stage = "chosen" =>
          /\ ~passed /\ Acceptable(file)
          /\ \E f \in [DOMAIN records -> DOMAIN file] :
                /\ RecordsAreRows(f)
                /\ {f[j] : j \in DOMAIN records} = {k \in DOMAIN file : Usable(file[k])}
    /\ stage = "none" => ~passed

\* The record R works with is at most one hour from the scene, up to the last
\* hour of the day.  It has a wind speed, not the number that stands for a
\* missing one, if the station reports on full hours and the scene is not on
\* one.
SceneRecordIsUsable ==
    stage = "chosen" /\ scene.hour < 23 =>
        /\ DistanceToScene(SceneRecord) <= 60 * 100
        /\ scene.minute # 0 /\ (\A k \in DOMAIN file : file[k].time % 100 = 0)
              => SceneRecord.wind \in MIN_WIND_SPEED_VALUE..MAX_WIND_SPEED_VALUE

\* The search ends, with an answer, or with the program when the scene is one
\* before 05:00.
EverySearchEnds ==
    <>(stage \in {"chosen", "none"} \/ (stage = "died" /\ scene.hour < 5))

\* FTPStationOperator:469-471: formatAirTemp makes the temperature of a record
\* with the sign "-" a negative one.
TemperaturesAreThoseMeasured ==
    stage = "chosen" => \A k \in DOMAIN records : records[k].temp = records[k].measured
=============================================================================
