------------------------- MODULE StationFilesProofs -------------------------
(***************************************************************************)
(* Proofs about StationFiles for any number of searches, years and         *)
(* stations.                                                               *)
(*                                                                         *)
(* The argument is the debugger port: a search that lives holds it         *)
(* (PortIsExclusive), so a step of one search finds all the others not     *)
(* begun or ended, and what it knows of the files (FilesOf) no other       *)
(* search can undo.  What it has chosen (ChoiceOf) follows from that by    *)
(* the steps of one search alone.                                          *)
(***************************************************************************)
EXTENDS StationFiles, TLAPS

PortIsExclusive == \A s \in Searches : Live(s) => port = s

AtAStation(s) == pc[s] \in {"station", "fetching", "unpacking", "reading", "judging"}

\* What a search that lives knows of the files of its year.
FilesOf(s) ==
    /\ pc[s] = "fetching list" => csv[year[s]] = Part(s)
    /\ pc[s] = "reading list" => csv[year[s]] \in {Part(s), Whole(s), Bad(s)}
    /\ pc[s] = "next" \/ AtAStation(s) => csv[year[s]] = Absent
    /\ AtAStation(s) => at[s] \in 1..Len(order[s])
    /\ pc[s] = "fetching" => gz[year[s]][Current(s)] = Part(s)
    /\ pc[s] = "unpacking" => gz[year[s]][Current(s)] \in {Part(s), Whole(s)}
    /\ pc[s] = "reading" => txt[year[s]][Current(s)] = Whole(s)
    /\ pc[s] = "judging" => /\ lines[s] = Whole(s)
                            /\ ~dir[year[s]]
                            /\ \A n \in Stations : gz[year[s]][n] = Absent /\ txt[year[s]][n] = Absent

FilesAreKept == \A s \in Searches : Live(s) => FilesOf(s)

\* Before it has read a list, a search has chosen nothing.
ChoiceIsOpen ==
    \A s \in Searches :
        pc[s] \in {"idle", "started", "fetching list", "reading list"} =>
            order[s] = <<>> /\ at[s] = 0 /\ broken[s] = {} /\ answer[s] = NoStation

\* The inductive invariant.
FilesInvariant == TypeOK /\ PortIsExclusive /\ FilesAreKept /\ ChoiceIsOpen

-----------------------------------------------------------------------------
LEMMA OrderFacts ==
    ASSUME NEW o \in Orders
    PROVE  /\ o \in Seq(Stations) /\ Len(o) \in 0..N /\ DOMAIN o = 1..Len(o)
           /\ \A i \in 1..Len(o) : o[i] \in Stations
           /\ \A i, j \in 1..Len(o) : o[i] = o[j] => i = j
<1>1. PICK k \in 0..N : /\ o \in [1..k -> Stations]
                        /\ \A i, j \in 1..k : o[i] = o[j] => i = j
  BY DEF Orders
<1>2. k \in Nat /\ DOMAIN o = 1..k
  BY <1>1, StationsAssumption
<1>3. o \in Seq(Stations) /\ Len(o) = k
  BY <1>1, <1>2
<1> QED BY <1>1, <1>2, <1>3

LEMMA FilesHoldFiles ==
    \A s \in Searches : Part(s) \in Files /\ Whole(s) \in Files /\ Absent \in Files
BY DEF Files

LEMMA InitTypes == Init => TypeOK
<1> SUFFICES ASSUME Init PROVE TypeOK
  OBVIOUS
<1>1. <<>> \in Orders
  <2>1. <<>> \in [1..0 -> Stations]
    OBVIOUS
  <2> QED BY <2>1, StationsAssumption DEF Orders
<1>2. Absent \in Files
  BY DEF Files
<1> QED BY <1>1, <1>2, StationsAssumption DEF Init, TypeOK

\* A search at a station is at one of its list.
LEMMA CurrentIsAStation ==
    ASSUME FilesInvariant, NEW s \in Searches, AtAStation(s)
    PROVE  Current(s) \in Stations /\ year[s] \in Years
<1>1. at[s] \in 1..Len(order[s])
  BY DEF FilesInvariant, FilesAreKept, FilesOf, AtAStation, Live
<1> QED BY <1>1, OrderFacts DEF FilesInvariant, TypeOK, Current

LEMMA TypesOf ==
    ASSUME TypeOK, NEW s \in Searches
    PROVE  /\ year[s] \in Years
           /\ order[s] \in Orders /\ Len(order[s]) \in 0..N
           /\ \A i \in 1..Len(order[s]) : order[s][i] \in Stations
           /\ at[s] \in 0..N /\ at[s] \in Nat /\ at[s] <= Len(order[s])
<1>1. year[s] \in Years /\ order[s] \in Orders /\ at[s] \in 0..N /\ at[s] <= Len(order[s])
  BY DEF TypeOK
<1>2. at[s] \in Nat
  BY <1>1, StationsAssumption
<1> QED BY <1>1, <1>2, OrderFacts

\* The steps whose types take more than a look.
LEMMA EndListTypes ==
    ASSUME TypeOK, NEW s \in Searches, EndList(s)
    PROVE  TypeOK'
<1>1. PICK f \in {Part(s), Whole(s), Bad(s)} : csv' = [csv EXCEPT ![year[s]] = f]
  BY DEF EndList
<1>2. f \in Files \cup {Bad(t) : t \in Searches}
  BY <1>1, FilesHoldFiles
<1>3. csv' \in [Years -> Files \cup {Bad(t) : t \in Searches}]
  BY <1>1, <1>2 DEF TypeOK
<1> QED BY <1>3 DEF EndList, TypeOK, Goto, choice

LEMMA ReadListTypes ==
    ASSUME FilesInvariant, NEW s \in Searches, ReadList(s)
    PROVE  TypeOK'
<1> TypeOK
  BY DEF FilesInvariant
<1>1. PICK o \in Orders : order' = [order EXCEPT ![s] = o]
  BY DEF ReadList
<1>2. at[s] = 0 /\ at' = at
  BY DEF ReadList, FilesInvariant, ChoiceIsOpen
<1>3. Len(o) >= 0
  BY OrderFacts, StationsAssumption
<1>4. order' \in [Searches -> Orders]
  BY <1>1 DEF TypeOK
<1>5. \A t \in Searches : at'[t] <= Len(order'[t])
  BY <1>1, <1>2, <1>3 DEF TypeOK
<1>6. csv' \in [Years -> Files \cup {Bad(t) : t \in Searches}]
  BY FilesHoldFiles DEF ReadList, TypeOK
<1> QED BY <1>2, <1>4, <1>5, <1>6 DEF ReadList, TypeOK, Goto

LEMMA NextStationTypes ==
    ASSUME TypeOK, NEW s \in Searches, NextStation(s)
    PROVE  TypeOK'
<1> DEFINE next == at[s] + 1
<1>1. at[s] < Len(order[s])
  BY DEF NextStation
<1>2. next \in 1..Len(order[s]) /\ next \in 0..N /\ next <= Len(order[s])
  BY <1>1, TypesOf, StationsAssumption
<1>3. order[s][next] \in Stations
  BY <1>2, TypesOf
<1>4. at' = [at EXCEPT ![s] = next] /\ gz' = [gz EXCEPT ![year[s]][order[s][next]] = Absent]
  BY DEF NextStation
<1> HIDE DEF next
<1>5. gz' \in [Years -> [Stations -> Files]]
  BY <1>3, <1>4, FilesHoldFiles DEF TypeOK
<1>6. at' \in [Searches -> 0..N]
  BY <1>2, <1>4 DEF TypeOK
<1>7. \A t \in Searches : at'[t] <= Len(order[t])
  BY <1>2, <1>4 DEF TypeOK
<1> QED BY <1>5, <1>6, <1>7 DEF NextStation, TypeOK, Goto

LEMMA UnGzipFailsTypes ==
    ASSUME FilesInvariant, NEW s \in Searches, UnGzipFails(s)
    PROVE  TypeOK'
<1> TypeOK
  BY DEF FilesInvariant
<1>1. Current(s) \in Stations
  BY CurrentIsAStation DEF UnGzipFails, AtAStation
<1>2. txt' = txt \/ txt' = [txt EXCEPT ![year[s]][Current(s)] = Part(s)]
  BY DEF UnGzipFails
<1>3. txt \in [Years -> [Stations -> Files]] /\ year[s] \in Years /\ Part(s) \in Files
  BY FilesHoldFiles DEF TypeOK
<1>4. CASE txt' = txt
  BY <1>1, <1>3, <1>4 DEF UnGzipFails, GiveUpStation, TypeOK, Goto
<1>5. CASE txt' = [txt EXCEPT ![year[s]][Current(s)] = Part(s)]
  <2>1. txt' \in [Years -> [Stations -> Files]]
    BY <1>1, <1>3, <1>5
  <2>2. /\ pc' = [pc EXCEPT ![s] = "next"]
        /\ broken' = [broken EXCEPT ![s] = @ \cup {Current(s)}]
        /\ UNCHANGED <<port, csv, dir, gz, year, order, at, lines, answer>>
    BY DEF UnGzipFails, GiveUpStation, Goto
  <2>3. broken' \in [Searches -> SUBSET Stations]
    BY <1>1, <2>2 DEF TypeOK
  <2> QED BY <2>1, <2>2, <2>3 DEF TypeOK
<1> QED BY <1>2, <1>4, <1>5

LEMMA StepTypes == FilesInvariant /\ [Next]_vars => TypeOK'
<1> SUFFICES ASSUME FilesInvariant, [Next]_vars PROVE TypeOK'
  OBVIOUS
<1> TypeOK
  BY DEF FilesInvariant
<1> USE FilesHoldFiles DEF TypeOK, Goto, Exit, choice, files
<1>1. CASE UNCHANGED vars
  BY <1>1 DEF vars
<1>2. CASE Kill
  BY <1>2 DEF Kill
<1>3. ASSUME NEW s \in Searches, Step(s) PROVE TypeOK'
  <2>1. CASE StartSearch(s) \/ PortRefused(s) \/ NoList(s) \/ ListIsMalformed(s)
    BY <2>1 DEF StartSearch, PortRefused, NoList, ListIsMalformed
  <2>2. CASE BeginList(s)
    BY <2>2 DEF BeginList
  <2>3. CASE EndList(s)
    BY <2>3, EndListTypes
  <2>4. CASE ReadList(s)
    BY <2>4, ReadListTypes
  <2>5. CASE NextStation(s)
    BY <2>5, NextStationTypes
  <2>6. CASE BeginStation(s)
    BY <2>6 DEF BeginStation
  <2>7. CASE NoWget(s)
    <3>1. Current(s) \in Stations
      BY <2>7, CurrentIsAStation DEF NoWget, AtAStation
    <3> QED BY <2>7, <3>1 DEF NoWget, GiveUpStation
  <2>8. CASE EndStation(s)
    <3>1. PICK f \in Files : gz' = [gz EXCEPT ![year[s]][Current(s)] = f]
      BY <2>8 DEF EndStation
    <3> QED BY <2>8, <3>1 DEF EndStation
  <2>9. CASE UnGzip(s)
    <3>1. Current(s) \in Stations /\ year[s] \in Years
      BY <2>9, CurrentIsAStation DEF UnGzip, AtAStation
    <3> QED BY <2>9, <3>1 DEF UnGzip
  <2>10. CASE UnGzipFails(s)
    BY <2>10, UnGzipFailsTypes
  <2>11. CASE ReadStation(s)
    <3>1. Current(s) \in Stations /\ year[s] \in Years
      BY <2>11, CurrentIsAStation DEF ReadStation, AtAStation
    <3> QED BY <2>11, <3>1 DEF ReadStation
  <2>12. CASE Accept(s)
    <3>1. Current(s) \in Stations
      BY <2>12, CurrentIsAStation DEF Accept, AtAStation
    <3> QED BY <2>12, <3>1 DEF Accept
  <2>13. CASE Reject(s) \/ Exhausted(s)
    BY <2>13 DEF Reject, Exhausted
  <2> QED BY <1>3, <2>1, <2>2, <2>3, <2>4, <2>5, <2>6, <2>7, <2>8, <2>9, <2>10, <2>11, <2>12, <2>13 DEF Step
<1> QED BY <1>1, <1>2, <1>3 DEF Next

-----------------------------------------------------------------------------
\* Beside a search that lives, or that starts, no other one does.
LEMMA OthersAreAtRest ==
    ASSUME FilesInvariant, NEW s \in Searches, Step(s), pc[s] = "idle" => port = Nobody
    PROVE  \A t \in Searches \ {s} : ~Live(t)
<1>1. pc[s] # "ended"
  BY DEF Step, StartSearch, PortRefused, NoList, BeginList, EndList, ListIsMalformed, ReadList,
         NextStation, BeginStation, NoWget, EndStation, UnGzip, UnGzipFails, ReadStation,
         Accept, Reject, Exhausted
<1>2. port \in {s, Nobody}
  BY <1>1 DEF FilesInvariant, PortIsExclusive, Live
<1> QED BY <1>2, StationsAssumption DEF FilesInvariant, PortIsExclusive

\* What a step does to the port and to the other searches.
LEMMA StepOfOne ==
    ASSUME FilesInvariant, NEW s \in Searches, Step(s)
    PROVE  /\ \A t \in Searches \ {s} :
                 /\ pc'[t] = pc[t] /\ order'[t] = order[t] /\ at'[t] = at[t]
                 /\ broken'[t] = broken[t] /\ answer'[t] = answer[t]
           /\ year' = year
           /\ pc'[s] \notin {"idle", "ended"} => port' = s
<1> TypeOK
  BY DEF FilesInvariant
<1>1. Live(s) => port = s
  BY DEF FilesInvariant, PortIsExclusive
<1>2. CASE StartSearch(s) \/ PortRefused(s) \/ NoList(s) \/ ListIsMalformed(s) \/ Reject(s)
  BY <1>1, <1>2 DEF StartSearch, PortRefused, NoList, ListIsMalformed, Reject, TypeOK, Goto, Exit, choice, Live
<1>3. CASE BeginList(s) \/ EndList(s) \/ ReadList(s) \/ NextStation(s)
  BY <1>1, <1>3 DEF BeginList, EndList, ReadList, NextStation, TypeOK, Goto, choice, Live
<1>4. CASE BeginStation(s) \/ NoWget(s) \/ EndStation(s) \/ UnGzip(s)
  BY <1>1, <1>4 DEF BeginStation, NoWget, EndStation, UnGzip, GiveUpStation, TypeOK, Goto, choice, Live
<1>5. CASE UnGzipFails(s) \/ ReadStation(s)
  BY <1>1, <1>5 DEF UnGzipFails, ReadStation, GiveUpStation, TypeOK, Goto, choice, Live
<1>6. CASE Accept(s) \/ Exhausted(s)
  BY <1>1, <1>6 DEF Accept, Exhausted, TypeOK, Goto, Exit, choice, Live
<1> QED BY <1>2, <1>3, <1>4, <1>5, <1>6 DEF Step

LEMMA StepPort == FilesInvariant /\ [Next]_vars => PortIsExclusive'
<1> SUFFICES ASSUME FilesInvariant, [Next]_vars PROVE PortIsExclusive'
  OBVIOUS
<1> TypeOK /\ PortIsExclusive
  BY DEF FilesInvariant
<1>1. CASE UNCHANGED vars
  BY <1>1 DEF vars, PortIsExclusive, Live
<1>2. CASE Kill
  BY <1>2 DEF Kill, PortIsExclusive, Live
<1>3. ASSUME NEW s \in Searches, Step(s) PROVE PortIsExclusive'
  <2>1. CASE PortRefused(s)
    BY <2>1 DEF PortRefused, PortIsExclusive, Live, Goto, TypeOK
  <2>2. CASE ~PortRefused(s)
    <3>1. pc[s] = "idle" => port = Nobody
      BY <1>3, <2>2 DEF Step, StartSearch, PortRefused, NoList, BeginList, EndList, ListIsMalformed,
            ReadList, NextStation, BeginStation, NoWget, EndStation, UnGzip, UnGzipFails, ReadStation,
            Accept, Reject, Exhausted
    <3>2. \A t \in Searches \ {s} : ~Live(t)
      BY <1>3, <3>1, OthersAreAtRest
    <3> QED BY <1>3, <3>2, StepOfOne DEF PortIsExclusive, Live
  <2> QED BY <2>1, <2>2
<1> QED BY <1>1, <1>2, <1>3 DEF Next

-----------------------------------------------------------------------------
\* The download of the list: nothing but csv is touched.
LEMMA ListFiles ==
    ASSUME FilesInvariant, NEW s \in Searches,
           StartSearch(s) \/ BeginList(s) \/ EndList(s) \/ ReadList(s)
    PROVE  FilesOf(s)'
<1> TypeOK
  BY DEF FilesInvariant
<1>1. s \in DOMAIN pc /\ year[s] \in DOMAIN csv
  BY DEF TypeOK
<1>2. CASE StartSearch(s)
  BY <1>1, <1>2 DEF StartSearch, Goto, FilesOf, AtAStation
<1>3. CASE BeginList(s)
  BY <1>1, <1>3 DEF BeginList, Goto, choice, FilesOf, AtAStation
<1>4. CASE EndList(s)
  BY <1>1, <1>4 DEF EndList, Goto, choice, FilesOf, AtAStation
<1>5. CASE ReadList(s)
  BY <1>1, <1>5 DEF ReadList, Goto, FilesOf, AtAStation
<1> QED BY <1>2, <1>3, <1>4, <1>5

\* The download of a station's file, up to what is unpacked from it.
LEMMA StationFetched ==
    ASSUME FilesInvariant, NEW s \in Searches,
           NextStation(s) \/ BeginStation(s) \/ NoWget(s) \/ EndStation(s)
    PROVE  FilesOf(s)'
<1> TypeOK
  BY DEF FilesInvariant
<1>1. s \in DOMAIN pc /\ s \in DOMAIN at /\ year[s] \in DOMAIN gz
  BY DEF TypeOK
<1>2. FilesOf(s)
  BY DEF FilesInvariant, FilesAreKept, Live, NextStation, BeginStation, NoWget, EndStation
<1>3. csv[year[s]] = Absent
  BY <1>2 DEF FilesOf, AtAStation, NextStation, BeginStation, NoWget, EndStation
<1>4. CASE NextStation(s)
  <2>1. at[s] + 1 \in 1..Len(order[s])
    BY <1>4, TypesOf, StationsAssumption DEF NextStation
  <2> QED BY <1>1, <1>3, <1>4, <2>1 DEF NextStation, Goto, FilesOf, AtAStation
<1>5. CASE BeginStation(s) \/ NoWget(s) \/ EndStation(s)
  <2>1. Current(s) \in DOMAIN gz[year[s]]
    BY <1>5, CurrentIsAStation DEF BeginStation, NoWget, EndStation, AtAStation, TypeOK
  <2>2. at[s] \in 1..Len(order[s])
    BY <1>2, <1>5 DEF FilesOf, AtAStation, BeginStation, NoWget, EndStation
  <2>3. CASE BeginStation(s)
    BY <1>1, <1>3, <2>1, <2>2, <2>3 DEF BeginStation, Goto, choice, FilesOf, AtAStation, Current
  <2>4. CASE NoWget(s)
    BY <1>1, <1>3, <2>4 DEF NoWget, GiveUpStation, Goto, files, FilesOf, AtAStation
  <2>5. CASE EndStation(s)
    BY <1>1, <1>3, <2>1, <2>2, <2>5 DEF EndStation, Goto, choice, FilesOf, AtAStation, Current
  <2> QED BY <1>5, <2>3, <2>4, <2>5
<1> QED BY <1>4, <1>5

\* From the packed file to the rows.
LEMMA StationRead ==
    ASSUME FilesInvariant, NEW s \in Searches,
           UnGzip(s) \/ UnGzipFails(s) \/ ReadStation(s) \/ Reject(s)
    PROVE  FilesOf(s)'
<1> TypeOK
  BY DEF FilesInvariant
<1>1. /\ s \in DOMAIN pc /\ s \in DOMAIN lines
      /\ year[s] \in DOMAIN txt /\ year[s] \in DOMAIN gz /\ year[s] \in DOMAIN dir
  BY DEF TypeOK
<1>2. FilesOf(s) /\ AtAStation(s)
  BY DEF FilesInvariant, FilesAreKept, Live, AtAStation, UnGzip, UnGzipFails, ReadStation, Reject
<1>3. csv[year[s]] = Absent /\ at[s] \in 1..Len(order[s])
  BY <1>2 DEF FilesOf
<1>4. Current(s) \in DOMAIN txt[year[s]]
  BY <1>2, CurrentIsAStation DEF TypeOK
<1>5. CASE UnGzip(s)
  <2>1. gz[year[s]][Current(s)] = Whole(s)
    BY <1>2, <1>5 DEF UnGzip, FilesOf, Part, Whole
  <2> QED BY <1>1, <1>3, <1>4, <1>5, <2>1 DEF UnGzip, Goto, choice, FilesOf, AtAStation, Current
<1>6. CASE UnGzipFails(s)
  BY <1>1, <1>3, <1>6 DEF UnGzipFails, GiveUpStation, Goto, FilesOf, AtAStation
<1>7. CASE ReadStation(s)
  <2>1. txt[year[s]][Current(s)] = Whole(s)
    BY <1>2, <1>7 DEF ReadStation, FilesOf
  <2> QED BY <1>1, <1>3, <1>7, <2>1 DEF ReadStation, Goto, FilesOf, AtAStation
<1>8. CASE Reject(s)
  BY <1>1, <1>3, <1>8 DEF Reject, Goto, files, choice, FilesOf, AtAStation
<1> QED BY <1>5, <1>6, <1>7, <1>8

LEMMA StepFiles == FilesInvariant /\ [Next]_vars => FilesAreKept'
<1> SUFFICES ASSUME FilesInvariant, [Next]_vars PROVE FilesAreKept'
  OBVIOUS
<1> TypeOK /\ FilesAreKept
  BY DEF FilesInvariant
<1>1. CASE UNCHANGED vars
  BY <1>1 DEF vars, files, choice, FilesAreKept, FilesOf, AtAStation, Live, Current
<1>2. CASE Kill
  BY <1>2 DEF Kill, FilesAreKept, Live
<1>3. ASSUME NEW s \in Searches, Step(s) PROVE FilesAreKept'
  <2>1. CASE PortRefused(s)
    <3>1. \A t \in Searches : Live(t)' => Live(t)
      BY <2>1 DEF PortRefused, Live, Goto, TypeOK
    <3>2. \A t \in Searches : Live(t)' => pc'[t] = pc[t]
      BY <2>1 DEF PortRefused, Live, Goto, TypeOK
    <3>3. UNCHANGED <<files, year, choice>>
      BY <2>1 DEF PortRefused
    <3>4. ASSUME NEW t \in Searches, Live(t)' PROVE FilesOf(t)'
      <4>1. FilesOf(t) /\ pc'[t] = pc[t]
        BY <3>1, <3>2, <3>4 DEF FilesAreKept
      <4> QED BY <3>3, <4>1 DEF FilesOf, AtAStation, Current, files, choice
    <3> QED BY <3>4 DEF FilesAreKept
  <2>2. CASE ~PortRefused(s)
    <3>1. pc[s] = "idle" => port = Nobody
      BY <1>3, <2>2 DEF Step, StartSearch, PortRefused, NoList, BeginList, EndList, ListIsMalformed,
            ReadList, NextStation, BeginStation, NoWget, EndStation, UnGzip, UnGzipFails, ReadStation,
            Accept, Reject, Exhausted
    <3>2. \A t \in Searches \ {s} : ~Live(t)
      BY <1>3, <3>1, OthersAreAtRest
    <3>3. \A t \in Searches \ {s} : ~Live(t)'
      BY <1>3, <3>2, StepOfOne DEF Live
    <3>4. Live(s)' => FilesOf(s)'
      <4>1. CASE NoList(s) \/ ListIsMalformed(s) \/ Accept(s) \/ Exhausted(s)
        BY <4>1 DEF NoList, ListIsMalformed, Accept, Exhausted, Exit, Goto, Live, TypeOK
      <4> QED BY <1>3, <2>2, <4>1, ListFiles, StationFetched, StationRead DEF Step
    <3> QED BY <3>3, <3>4 DEF FilesAreKept
  <2> QED BY <2>1, <2>2
<1> QED BY <1>1, <1>2, <1>3 DEF Next

LEMMA StepOpen == FilesInvariant /\ [Next]_vars => ChoiceIsOpen'
<1> SUFFICES ASSUME FilesInvariant, [Next]_vars PROVE ChoiceIsOpen'
  OBVIOUS
<1> TypeOK /\ ChoiceIsOpen
  BY DEF FilesInvariant
<1>1. CASE UNCHANGED vars
  BY <1>1 DEF vars, choice, ChoiceIsOpen
<1>2. CASE Kill
  BY <1>2 DEF Kill, choice, ChoiceIsOpen, Live
<1>3. ASSUME NEW s \in Searches, Step(s) PROVE ChoiceIsOpen'
  <2> DEFINE Open(q) == q \in {"idle", "started", "fetching list", "reading list"}
  <2>1. Open(pc'[s]) => Open(pc[s]) /\ UNCHANGED choice
    BY <1>3 DEF Step, StartSearch, PortRefused, NoList, BeginList, EndList, ListIsMalformed, ReadList,
         NextStation, BeginStation, NoWget, EndStation, UnGzip, UnGzipFails, GiveUpStation, ReadStation,
         Accept, Reject, Exhausted, Goto, Exit, TypeOK
  <2>2. \A t \in Searches \ {s} : /\ pc'[t] = pc[t] /\ order'[t] = order[t] /\ at'[t] = at[t]
                                  /\ broken'[t] = broken[t] /\ answer'[t] = answer[t]
    BY <1>3, StepOfOne
  <2> QED BY <2>1, <2>2 DEF ChoiceIsOpen, choice
<1> QED BY <1>1, <1>2, <1>3 DEF Next

LEMMA InitFiles == Init => FilesInvariant
<1> SUFFICES ASSUME Init PROVE FilesInvariant
  OBVIOUS
<1>1. TypeOK
  BY InitTypes
<1>2. \A s \in Searches : pc[s] = "idle" /\ ~Live(s)
  BY DEF Init, Live
<1>3. ChoiceIsOpen
  BY DEF Init, ChoiceIsOpen
<1> QED BY <1>1, <1>2, <1>3 DEF FilesInvariant, PortIsExclusive, FilesAreKept

\* The invariant of the shared directory: one search at a time, and what it
\* knows of its files stays true (get-station-data.sh:21 and readStation).
THEOREM FilesInvariantHolds == Spec => []FilesInvariant
<1>1. FilesInvariant /\ [Next]_vars => FilesInvariant'
  BY StepTypes, StepPort, StepFiles, StepOpen DEF FilesInvariant
<1> QED BY InitFiles, <1>1, PTL DEF Spec

\* Every variable has a value of its kind, and no search goes past its list.
THEOREM StationTypes == Spec => []TypeOK
<1>1. FilesInvariant => TypeOK
  BY DEF FilesInvariant
<1> QED BY <1>1, FilesInvariantHolds, PTL

\* A list that is read and rows that are judged are this search's own and
\* whole, whatever other searches do and have left (FTPStationOperator.readStation).
THEOREM SearchesReadTheirOwn == Spec => []ReadsWhatItFetched
<1>1. FilesInvariant => ReadsWhatItFetched
  BY DEF FilesInvariant, FilesAreKept, FilesOf, ReadsWhatItFetched, Live
<1> QED BY <1>1, FilesInvariantHolds, PTL

\* A search that saves data leaves no file of its year (deleteDirectory in
\* FTPStationOperator.readStation, file.delete in readStationCSVFile).
THEOREM SuccessCleansTheYear == Spec => FoundCleansTheYear
<1> DEFINE Clean(s) == /\ csv[year[s]] = Absent
                       /\ ~dir[year[s]]
                       /\ \A n \in Stations : gz[year[s]][n] = Absent /\ txt[year[s]][n] = Absent
<1> DEFINE Cleans == \A s \in Searches : answer[s] = NoStation /\ answer'[s] \in Stations => Clean(s)
<1>1. FilesInvariant /\ [Next]_vars => [Cleans]_vars
  <2> SUFFICES ASSUME FilesInvariant, Next,
                      NEW s \in Searches, answer[s] = NoStation, answer'[s] \in Stations
               PROVE  Clean(s)
    BY DEF vars
  <2>1. answer'[s] # answer[s]
    BY StationsAssumption
  <2>2. PICK t \in Searches : Step(t)
    BY <2>1 DEF Next, Kill, choice
  <2>3. t = s
    BY <2>1, <2>2, StepOfOne
  <2>4. Accept(s) \/ Exhausted(s)
    BY <2>1, <2>2, <2>3 DEF Step, StartSearch, PortRefused, NoList, BeginList, EndList, ListIsMalformed,
         ReadList, NextStation, BeginStation, NoWget, EndStation, UnGzip, UnGzipFails, ReadStation,
         Reject, choice
  <2>5. ~Exhausted(s)
    BY StationsAssumption DEF Exhausted, FilesInvariant, TypeOK
  <2>6. pc[s] = "judging"
    BY <2>4, <2>5 DEF Accept
  <2> QED BY <2>6 DEF FilesInvariant, FilesAreKept, FilesOf, AtAStation, Live
<1> QED BY <1>1, FilesInvariantHolds, PTL DEF Spec, FoundCleansTheYear

-----------------------------------------------------------------------------
(* What a search chooses *)

\* The stations that selectStation has done with.
Done(s) == {i \in 1..at[s] : i < at[s] \/ pc[s] = "next"}

\* While it goes through the list: each station done with was unreadable or
\* not acceptable, and no other one has failed yet.
Searching(s) ==
    /\ \A i \in Done(s) : order[s][i] \in broken[s] \/ order[s][i] \notin Good[year[s]]
    /\ \A n \in broken[s] : \E i \in Done(s) : order[s][i] = n
    /\ answer[s] = NoStation

NearestOf(s) ==
    LET fit == {i \in DOMAIN order[s] : order[s][i] \in Good[year[s]] \ broken[s]}
    IN  /\ answer[s] \in Stations =>
              /\ answer[s] = Current(s)
              /\ at[s] \in fit /\ \A i \in fit : at[s] <= i
        /\ answer[s] = NoneFit => fit = {}

ChoiceOf(s) == /\ pc[s] = "next" \/ AtAStation(s) => Searching(s)
               /\ NearestOf(s)

ChoiceIsSound == \A s \in Searches : ChoiceOf(s)

LEMMA PlaceInTheList ==
    ASSUME FilesInvariant, NEW s \in Searches, AtAStation(s)
    PROVE  at[s] \in 1..Len(order[s]) /\ Len(order[s]) \in Nat
<1>1. at[s] \in 1..Len(order[s])
  BY DEF FilesInvariant, FilesAreKept, FilesOf, AtAStation, Live
<1>2. Len(order[s]) \in 0..N
  BY TypesOf DEF FilesInvariant
<1> QED BY <1>1, <1>2, StationsAssumption

LEMMA ListChoice ==
    ASSUME FilesInvariant, NEW s \in Searches, ReadList(s)
    PROVE  ChoiceOf(s)'
<1>1. at[s] = 0 /\ broken[s] = {} /\ answer[s] = NoStation
  BY DEF FilesInvariant, ChoiceIsOpen, ReadList
<1>2. at' = at /\ broken' = broken /\ answer' = answer /\ year' = year
  BY DEF ReadList
<1>3. answer'[s] = NoStation
  BY <1>1, <1>2
<1> QED BY <1>1, <1>2, <1>3, StationsAssumption DEF ChoiceOf, Searching, Done, NearestOf

LEMMA NextChoice ==
    ASSUME FilesInvariant, ChoiceIsSound, NEW s \in Searches, NextStation(s)
    PROVE  ChoiceOf(s)'
<1> TypeOK
  BY DEF FilesInvariant
<1>1. Searching(s) /\ pc[s] = "next" /\ at[s] \in Nat
  BY TypesOf DEF ChoiceIsSound, ChoiceOf, NextStation
<1>2. at'[s] = at[s] + 1 /\ pc'[s] = "station"
  BY DEF NextStation, Goto, TypeOK
<1>3. order' = order /\ broken' = broken /\ answer' = answer /\ year' = year
  BY DEF NextStation
<1>4. Done(s)' = Done(s)
  BY <1>1, <1>2 DEF Done
<1>5. Searching(s)'
  BY <1>1, <1>3, <1>4 DEF Searching
<1>6. NearestOf(s)'
  BY <1>1, <1>3, StationsAssumption DEF NearestOf, Searching
<1> QED BY <1>5, <1>6 DEF ChoiceOf

\* A station is given up: it joins those that are done with.
LEMMA GiveUpChoice ==
    ASSUME FilesInvariant, ChoiceIsSound, NEW s \in Searches,
           NoWget(s) \/ UnGzipFails(s) \/ Reject(s)
    PROVE  ChoiceOf(s)'
<1> TypeOK
  BY DEF FilesInvariant
<1>1. AtAStation(s)
  BY DEF AtAStation, NoWget, UnGzipFails, Reject
<1>2. at[s] \in 1..Len(order[s]) /\ Len(order[s]) \in Nat
  BY <1>1, PlaceInTheList
<1>3. Searching(s) /\ pc[s] # "next"
  BY <1>1 DEF ChoiceIsSound, ChoiceOf, AtAStation
<1>4. order' = order /\ at' = at /\ answer' = answer /\ year' = year /\ pc'[s] = "next"
  BY DEF NoWget, UnGzipFails, Reject, GiveUpStation, Goto, choice, TypeOK
<1>5. Done(s)' = Done(s) \cup {at[s]}
  BY <1>2, <1>3, <1>4 DEF Done
<1>6. \/ broken'[s] = broken[s] \cup {Current(s)}
      \/ broken'[s] = broken[s] /\ Current(s) \notin Good[year[s]]
  BY DEF NoWget, UnGzipFails, Reject, GiveUpStation, choice, TypeOK
<1>7. Searching(s)'
  BY <1>3, <1>4, <1>5, <1>6 DEF Searching, Current
<1>8. NearestOf(s)'
  BY <1>3, <1>4, StationsAssumption DEF NearestOf, Searching
<1> QED BY <1>7, <1>8 DEF ChoiceOf

LEMMA AcceptChoice ==
    ASSUME FilesInvariant, ChoiceIsSound, NEW s \in Searches, Accept(s)
    PROVE  ChoiceOf(s)'
<1> TypeOK
  BY DEF FilesInvariant
<1>1. AtAStation(s)
  BY DEF AtAStation, Accept
<1>2. at[s] \in 1..Len(order[s]) /\ Len(order[s]) \in Nat
  BY <1>1, PlaceInTheList
<1>3. Searching(s) /\ pc[s] # "next"
  BY <1>1 DEF ChoiceIsSound, ChoiceOf, AtAStation
<1>4. order' = order /\ at' = at /\ broken' = broken /\ year' = year /\ pc'[s] = "ended" /\ answer'[s] = Current(s)
  BY DEF Accept, Exit, Goto, TypeOK
<1>5. DOMAIN order[s] = 1..Len(order[s])
  BY OrderFacts DEF TypeOK
<1>6. Current(s) \in Good[year[s]] /\ Current(s) \in Stations
  BY <1>1, CurrentIsAStation DEF Accept
<1>7. Current(s) \notin broken[s]
  <2> SUFFICES ASSUME Current(s) \in broken[s] PROVE FALSE
    OBVIOUS
  <2>1. PICK i \in Done(s) : order[s][i] = Current(s)
    BY <1>3 DEF Searching
  <2>2. i \in 1..Len(order[s]) /\ i < at[s]
    BY <1>2, <1>3, <2>1 DEF Done
  <2>3. order[s] \in Orders
    BY DEF TypeOK
  <2>4. i = at[s]
    BY <1>2, <2>1, <2>2, <2>3, OrderFacts DEF Current
  <2> QED BY <1>2, <2>2, <2>4
<1>8. ASSUME NEW i \in 1..Len(order[s]), order[s][i] \in Good[year[s]] \ broken[s]
      PROVE  at[s] <= i
  <2>1. i \notin Done(s)
    BY <1>3, <1>8 DEF Searching
  <2> QED BY <1>2, <2>1 DEF Done
<1>9. NearestOf(s)'
  BY <1>2, <1>4, <1>5, <1>6, <1>7, <1>8, StationsAssumption DEF NearestOf, Current
<1> QED BY <1>4, <1>9 DEF ChoiceOf, AtAStation

LEMMA ExhaustedChoice ==
    ASSUME FilesInvariant, ChoiceIsSound, NEW s \in Searches, Exhausted(s)
    PROVE  ChoiceOf(s)'
<1> TypeOK
  BY DEF FilesInvariant
<1>1. Searching(s) /\ pc[s] = "next" /\ at[s] = Len(order[s])
  BY DEF ChoiceIsSound, ChoiceOf, Exhausted
<1>2. order' = order /\ at' = at /\ broken' = broken /\ year' = year /\ pc'[s] = "ended" /\ answer'[s] = NoneFit
  BY DEF Exhausted, Exit, Goto, TypeOK
<1>3. DOMAIN order[s] = 1..at[s]
  BY <1>1, OrderFacts DEF TypeOK
<1>4. \A i \in DOMAIN order[s] : order[s][i] \in broken[s] \/ order[s][i] \notin Good[year[s]]
  BY <1>1, <1>3 DEF Searching, Done
<1>5. NearestOf(s)'
  BY <1>2, <1>4, StationsAssumption DEF NearestOf
<1> QED BY <1>2, <1>5 DEF ChoiceOf, AtAStation

LEMMA StepChoice == FilesInvariant /\ ChoiceIsSound /\ [Next]_vars => ChoiceIsSound'
<1> SUFFICES ASSUME FilesInvariant, ChoiceIsSound, [Next]_vars PROVE ChoiceIsSound'
  OBVIOUS
<1> TypeOK
  BY DEF FilesInvariant
<1>1. ASSUME NEW s \in Searches, UNCHANGED <<year, choice>>,
             pc'[s] = pc[s] \/ pc'[s] \notin {"next", "station", "fetching", "unpacking", "reading", "judging"}
      PROVE  ChoiceOf(s)'
  BY <1>1 DEF ChoiceIsSound, ChoiceOf, Searching, Done, NearestOf, AtAStation, Current, choice
<1>2. CASE UNCHANGED vars
  BY <1>1, <1>2 DEF vars, ChoiceIsSound
<1>3. CASE Kill
  BY <1>1, <1>3 DEF Kill, ChoiceIsSound, TypeOK
<1>4. ASSUME NEW s \in Searches, Step(s) PROVE ChoiceIsSound'
  <2>1. ASSUME NEW t \in Searches \ {s} PROVE ChoiceOf(t)'
    <3>1. /\ pc'[t] = pc[t] /\ order'[t] = order[t] /\ at'[t] = at[t]
          /\ broken'[t] = broken[t] /\ answer'[t] = answer[t] /\ year' = year
      BY <1>4, StepOfOne
    <3> QED BY <3>1 DEF ChoiceIsSound, ChoiceOf, Searching, Done, NearestOf, AtAStation, Current
  <2>2. ASSUME StartSearch(s) \/ PortRefused(s) \/ NoList(s) \/ ListIsMalformed(s) PROVE ChoiceOf(s)'
    BY <1>1, <2>2 DEF StartSearch, PortRefused, NoList, ListIsMalformed, Goto, Exit, TypeOK
  <2>3. ASSUME BeginList(s) \/ EndList(s) PROVE ChoiceOf(s)'
    BY <1>1, <2>3 DEF BeginList, EndList, Goto, TypeOK
  <2>4. ASSUME BeginStation(s) \/ EndStation(s) \/ UnGzip(s) \/ ReadStation(s) PROVE ChoiceOf(s)'
    <3>1. AtAStation(s) /\ AtAStation(s)' /\ pc[s] # "next" /\ pc'[s] # "next"
      BY <2>4 DEF BeginStation, EndStation, UnGzip, ReadStation, Goto, AtAStation, TypeOK
    <3>2. order' = order /\ at' = at /\ broken' = broken /\ answer' = answer /\ year' = year
      BY <2>4 DEF BeginStation, EndStation, UnGzip, ReadStation, choice
    <3> QED BY <3>1, <3>2 DEF ChoiceIsSound, ChoiceOf, Searching, Done, NearestOf, Current
  <2>5. ChoiceOf(s)'
    BY <1>4, <2>2, <2>3, <2>4, ListChoice, NextChoice, GiveUpChoice, AcceptChoice, ExhaustedChoice
       DEF Step
  <2> QED BY <2>1, <2>5 DEF ChoiceIsSound
<1> QED BY <1>2, <1>3, <1>4 DEF Next

\* The station that is taken is the first of the list that is acceptable and
\* could be got, and none is taken only if there is none
\* (WeatherStation.selectStation over FTPStationOperator.readStation).
THEOREM NearestReadableStationIsTaken == Spec => []NearestReadableIsChosen
<1>1. Init => ChoiceIsSound
  BY StationsAssumption DEF Init, ChoiceIsSound, ChoiceOf, NearestOf, AtAStation
<1>2. FilesInvariant /\ ChoiceIsSound /\ [Next]_vars => ChoiceIsSound'
  BY StepChoice
<1>3. ChoiceIsSound => NearestReadableIsChosen
  BY DEF ChoiceIsSound, ChoiceOf, NearestOf, NearestReadableIsChosen
<1> QED BY <1>1, <1>2, <1>3, FilesInvariantHolds, PTL DEF Spec

=============================================================================
