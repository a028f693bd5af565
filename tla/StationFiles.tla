---------------------------- MODULE StationFiles ----------------------------
(***************************************************************************)
(* How PreProcessMain, started by get-station-data.sh, comes to the data   *)
(* of a weather station: it downloads the list of the stations of a year,  *)
(* then the files of one station after another, unpacks and reads them,    *)
(* until one is acceptable.  All of this happens under fixed names in      *)
(* /tmp, where searches that failed or were killed have left their files.  *)
(*                                                                         *)
(* Searches run on one machine, in one network namespace.  What keeps them *)
(* apart is not a lock but the debugger port that every JVM is started     *)
(* with: a JVM that cannot bind it ends at once.  Where /tmp is shared but *)
(* the network is not (containers), nothing keeps them apart.              *)
(*                                                                         *)
(* wget, the servers and the disk are nondeterministic: wget's exit status *)
(* is not looked at, so a download ends with whatever it has written.      *)
(***************************************************************************)
EXTENDS Naturals, Sequences

CONSTANTS Searches,    \* runs of get-station-data.sh
          Years,       \* that DATE_FORMAT prints for the scenes
          N,           \* stations in the region of a scene, 1 the nearest
          Good,        \* those whose rows of the day pass selectStation, by year
          Nobody,
          NoStation,   \* no answer (yet)
          NoneFit      \* null: "Was not possible found a station data ..."

Stations == 1..N

ASSUME StationsAssumption ==
    /\ N \in Nat
    /\ Good \in [Years -> SUBSET Stations]
    /\ Nobody \notin Searches
    /\ {NoStation, NoneFit} \cap Stations = {} /\ NoStation # NoneFit

VARIABLES
    port,     \* the search whose JVM listens at port 4000
    csv,      \* <year>-stations.csv in /tmp, by year
    dir,      \* the directory <year> in /tmp, by year
    gz, txt,  \* the files of a station in it, packed and unpacked
    pc, year, \* of each search
    order,    \* orderedStations of findNearestStation
    at,       \* how many of them selectStation has begun
    lines,    \* what readStationFile has read
    answer,   \* the station whose data PreProcessMain writes down
    broken    \* history: stations of which no whole file was got and unpacked

files  == <<csv, dir, gz, txt>>
choice == <<order, at, lines, answer, broken>>
vars   == <<port, files, pc, year, choice>>

\* A file: the search that has begun it, and how far it came.
Absent   == [by |-> Nobody, content |-> "absent"]
Part(s)  == [by |-> s, content |-> "part"]
Whole(s) == [by |-> s, content |-> "whole"]
Bad(s)   == [by |-> s, content |-> "malformed"]

Files == {Absent} \cup UNION {{Part(s), Whole(s)} : s \in Searches}

Live(s) == pc[s] \notin {"idle", "ended"}

\* The station that selectStation is at.
Current(s) == order[s][at[s]]

\* A list that was cut off lacks stations, and has one with a wrong place.
Orders == UNION {{o \in [1..k -> Stations] : \A i, j \in 1..k : o[i] = o[j] => i = j}
                    : k \in 0..N}

Init == /\ port = Nobody
        /\ csv = [y \in Years |-> Absent]
        /\ dir = [y \in Years |-> FALSE]
        /\ gz  = [y \in Years |-> [n \in Stations |-> Absent]]
        /\ txt = [y \in Years |-> [n \in Stations |-> Absent]]
        /\ pc = [s \in Searches |-> "idle"]
        /\ year \in [Searches -> Years]
        /\ order = [s \in Searches |-> <<>>]
        /\ at = [s \in Searches |-> 0]
        /\ lines = [s \in Searches |-> Absent]
        /\ answer = [s \in Searches |-> NoStation]
        /\ broken = [s \in Searches |-> {}]

-----------------------------------------------------------------------------
Goto(s, p) == pc' = [pc EXCEPT ![s] = p]

\* The JVM ends, in whatever way: its port is free again, its files stay.
Exit(s) == Goto(s, "ended") /\ port' = Nobody

\* Mutant: Without the debugger, nothing keeps two searches apart.
StartSearch_NoPort(s) ==
    /\ pc[s] = "idle"
    /\ port' = s
    /\ Goto(s, "started")
    /\ UNCHANGED <<files, year, choice>>

\* get-station-data.sh:21.
StartSearch(s) ==
    /\ pc[s] = "idle"
    /\ port = Nobody
    /\ port' = s
    /\ Goto(s, "started")
    /\ UNCHANGED <<files, year, choice>>

\* The JVM ends with "bind failed"; the script makes a blank station file.
PortRefused(s) ==
    /\ pc[s] = "idle"
    /\ port # Nobody
    /\ Goto(s, "ended")
    /\ UNCHANGED <<port, files, year, choice>>

\* The configuration, the MTL file or the bounding box cannot be read, or
\* wget cannot be started: doDownloadStationCSVFile returns FALSE, getStations
\* null, and findNearestStation ends in a NullPointerException.
NoList(s) ==
    /\ pc[s] = "started"
    /\ Exit(s)
    /\ UNCHANGED <<files, year, choice>>

\* wget -O empties an older list.
BeginList(s) ==
    /\ pc[s] = "started"
    /\ csv' = [csv EXCEPT ![year[s]] = Part(s)]
    /\ Goto(s, "fetching list")
    /\ UNCHANGED <<port, dir, gz, txt, year, choice>>

EndList(s) ==
    /\ pc[s] = "fetching list"
    /\ \E f \in {Part(s), Whole(s), Bad(s)} : csv' = [csv EXCEPT ![year[s]] = f]
    /\ Goto(s, "reading list")
    /\ UNCHANGED <<port, dir, gz, txt, year, choice>>

\* A line without three fields: ArrayIndexOutOfBoundsException, up to main.
ListIsMalformed(s) ==
    /\ pc[s] = "reading list"
    /\ csv[year[s]].content = "malformed"
    /\ Exit(s)
    /\ UNCHANGED <<files, year, choice>>

\* readStationCSVFile, and the sorting by distance of findNearestStation.
ReadList(s) ==
    /\ pc[s] = "reading list"
    /\ csv[year[s]].content \in {"part", "whole"}
    /\ \E o \in Orders : /\ csv[year[s]].content = "whole" => o = [i \in 1..N |-> i]
                         /\ order' = [order EXCEPT ![s] = o]
    /\ csv' = [csv EXCEPT ![year[s]] = Absent]
    /\ Goto(s, "next")
    /\ UNCHANGED <<port, dir, gz, txt, year, at, lines, answer, broken>>

-----------------------------------------------------------------------------
(* readStation, for one station after another *)

\* Mutant: An index that may go one too far.
NextStation_PastTheEnd(s) ==
    /\ pc[s] = "next"
    /\ at[s] < N
    /\ at' = [at EXCEPT ![s] = @ + 1]
    /\ Goto(s, "station")
    /\ UNCHANGED <<port, files, year, order, lines, answer, broken>>

\* createDirectory, and getUnformattedStationFile, which deletes an older .gz.
NextStation(s) ==
    /\ pc[s] = "next"
    /\ at[s] < Len(order[s])
    /\ at' = [at EXCEPT ![s] = @ + 1]
    /\ dir' = [dir EXCEPT ![year[s]] = TRUE]
    /\ gz' = [gz EXCEPT ![year[s]][order[s][at[s] + 1]] = Absent]
    /\ Goto(s, "station")
    /\ UNCHANGED <<port, csv, txt, year, order, lines, answer, broken>>

\* An exception in readStation is caught in selectStation, which goes on.
\* The directory of the year stays behind.
GiveUpStation(s) ==
    /\ broken' = [broken EXCEPT ![s] = @ \cup {Current(s)}]
    /\ Goto(s, "next")

\* Mutant: A file that an earlier search has unpacked is not downloaded again.
BeginStation_Reuses(s) ==
    /\ pc[s] = "station"
    /\ IF txt[year[s]][Current(s)] = Absent
       THEN gz' = [gz EXCEPT ![year[s]][Current(s)] = Part(s)] /\ Goto(s, "fetching")
       ELSE UNCHANGED gz /\ Goto(s, "reading")
    /\ UNCHANGED <<port, csv, dir, txt, year, choice>>

BeginStation(s) ==
    /\ pc[s] = "station"
    /\ gz' = [gz EXCEPT ![year[s]][Current(s)] = Part(s)]
    /\ Goto(s, "fetching")
    /\ UNCHANGED <<port, csv, dir, txt, year, choice>>

NoWget(s) ==
    /\ pc[s] = "station"
    /\ GiveUpStation(s)
    /\ UNCHANGED <<port, files, year, order, at, lines, answer>>

\* downloadUnformattedStationFile returns TRUE however wget has ended.
EndStation(s) ==
    /\ pc[s] = "fetching"
    /\ \E f \in {Part(s), Whole(s)} : gz' = [gz EXCEPT ![year[s]][Current(s)] = f]
    /\ Goto(s, "unpacking")
    /\ UNCHANGED <<port, csv, dir, txt, year, choice>>

UnGzip(s) ==
    /\ pc[s] = "unpacking"
    /\ gz[year[s]][Current(s)].content = "whole"
    /\ txt' = [txt EXCEPT ![year[s]][Current(s)] = gz[year[s]][Current(s)]]
    /\ gz' = [gz EXCEPT ![year[s]][Current(s)] = Absent]
    /\ Goto(s, "reading")
    /\ UNCHANGED <<port, csv, dir, year, choice>>

\* Mutant: What could be unpacked is taken for the whole.
UnGzipFails_GoesOn(s) ==
    /\ pc[s] = "unpacking"
    /\ txt' = [txt EXCEPT ![year[s]][Current(s)] = Part(s)]
    /\ Goto(s, "reading")
    /\ UNCHANGED <<port, csv, dir, gz, year, choice>>

\* No header at all: nothing was opened for writing.  Otherwise the part that
\* could be unpacked and written stays, beside the .gz.
UnGzipFails(s) ==
    /\ pc[s] = "unpacking"
    /\ \/ gz[year[s]][Current(s)].content = "part" /\ UNCHANGED txt
       \/ txt' = [txt EXCEPT ![year[s]][Current(s)] = Part(s)]
    /\ GiveUpStation(s)
    /\ UNCHANGED <<port, csv, dir, gz, year, order, at, lines, answer>>

\* Mutant: File.delete for the directory, which fails unless it is empty.
ReadStation_DeletesOnlyItsFile(s) ==
    /\ pc[s] = "reading"
    /\ lines' = [lines EXCEPT ![s] = txt[year[s]][Current(s)]]
    /\ txt' = [txt EXCEPT ![year[s]][Current(s)] = Absent]
    /\ dir' = [dir EXCEPT ![year[s]] = \E n \in Stations : gz[year[s]][n] # Absent \/ txt'[year[s]][n] # Absent]
    /\ Goto(s, "judging")
    /\ UNCHANGED <<port, csv, gz, year, order, at, answer, broken>>

\* readStationFile, deleteFile and deleteDirectory: with the directory goes
\* everything that was in it.
ReadStation(s) ==
    /\ pc[s] = "reading"
    /\ lines' = [lines EXCEPT ![s] = txt[year[s]][Current(s)]]
    /\ dir' = [dir EXCEPT ![year[s]] = FALSE]
    /\ gz'  = [gz EXCEPT ![year[s]] = [n \in Stations |-> Absent]]
    /\ txt' = [txt EXCEPT ![year[s]] = [n \in Stations |-> Absent]]
    /\ Goto(s, "judging")
    /\ UNCHANGED <<port, csv, year, order, at, answer, broken>>

\* The data pass the filters of selectStation; RWrapper saves them.
Accept(s) ==
    /\ pc[s] = "judging"
    /\ Current(s) \in Good[year[s]]
    /\ answer' = [answer EXCEPT ![s] = Current(s)]
    /\ Exit(s)
    /\ UNCHANGED <<files, year, order, at, lines, broken>>

Reject(s) ==
    /\ pc[s] = "judging"
    /\ Current(s) \notin Good[year[s]]
    /\ Goto(s, "next")
    /\ UNCHANGED <<port, files, year, choice>>

\* Mutant: The exception ends the loop of selectStation instead of one turn of it.
Exhausted_AfterAFailure(s) ==
    /\ pc[s] = "next"
    /\ at[s] = Len(order[s]) \/ (at[s] > 0 /\ Current(s) \in broken[s])
    /\ answer' = [answer EXCEPT ![s] = NoneFit]
    /\ Exit(s)
    /\ UNCHANGED <<files, year, order, at, lines, broken>>

\* No station is left.
Exhausted(s) ==
    /\ pc[s] = "next"
    /\ at[s] = Len(order[s])
    /\ answer' = [answer EXCEPT ![s] = NoneFit]
    /\ Exit(s)
    /\ UNCHANGED <<files, year, order, at, lines, broken>>

\* The machine or the container is stopped, with wget and everything in it.
Kill ==
    /\ \E s \in Searches : Live(s)
    /\ port' = Nobody
    /\ pc' = [s \in Searches |-> IF Live(s) THEN "ended" ELSE pc[s]]
    /\ UNCHANGED <<files, year, choice>>

Step(s) == \/ StartSearch(s) \/ PortRefused(s)
           \/ NoList(s) \/ BeginList(s) \/ EndList(s)
           \/ ListIsMalformed(s) \/ ReadList(s)
           \/ NextStation(s) \/ BeginStation(s) \/ NoWget(s) \/ EndStation(s)
           \/ UnGzip(s) \/ UnGzipFails(s) \/ ReadStation(s)
           \/ Accept(s) \/ Reject(s) \/ Exhausted(s)

Next == Kill \/ \E s \in Searches : Step(s)

Spec == Init /\ [][Next]_vars

-----------------------------------------------------------------------------
\* The kinds of values of each variable.
TypeOK ==
    /\ port \in Searches \cup {Nobody}
    /\ csv \in [Years -> Files \cup {Bad(s) : s \in Searches}]
    /\ dir \in [Years -> BOOLEAN]
    /\ gz \in [Years -> [Stations -> Files]]
    /\ txt \in [Years -> [Stations -> Files]]
    /\ pc \in [Searches -> {"idle", "started", "fetching list", "reading list",
                            "next", "station", "fetching", "unpacking",
                            "reading", "judging", "ended"}]
    /\ year \in [Searches -> Years]
    /\ order \in [Searches -> Orders]
    /\ at \in [Searches -> 0..N]
    /\ \A s \in Searches : at[s] <= Len(order[s])
    /\ lines \in [Searches -> Files]
    /\ answer \in [Searches -> Stations \cup {NoStation, NoneFit}]
    /\ broken \in [Searches -> SUBSET Stations]

\* The list a search reads is its own, and the rows it judges are those of the
\* whole file that it has downloaded itself, although every search works under
\* the same names and finds what searches before it have left there.
ReadsWhatItFetched ==
    \A s \in Searches :
        /\ pc[s] = "reading list" => csv[year[s]] \in {Part(s), Whole(s), Bad(s)}
        /\ pc[s] = "judging" => lines[s] = Whole(s)

\* The data saved are of the first station of the list that is acceptable and
\* could be got, and a search finds none only if there is none: a station is
\* passed over for its rows or for a failure of this search, and for nothing
\* that other searches have left behind.
NearestReadableIsChosen ==
    \A s \in Searches :
        LET fit == {i \in DOMAIN order[s] : order[s][i] \in Good[year[s]] \ broken[s]}
        IN  /\ answer[s] \in Stations =>
                  /\ answer[s] = Current(s)
                  /\ at[s] \in fit /\ \A i \in fit : at[s] <= i
            /\ answer[s] = NoneFit => fit = {}

\* A search that saves data leaves /tmp without any file of its year, those of
\* the searches that have failed before it included.
FoundCleansTheYear ==
    [][\A s \in Searches :
          answer[s] = NoStation /\ answer'[s] \in Stations =>
              /\ csv[year[s]] = Absent
              /\ ~dir[year[s]]
              /\ \A n \in Stations : gz[year[s]][n] = Absent /\ txt[year[s]][n] = Absent]_vars

=============================================================================
