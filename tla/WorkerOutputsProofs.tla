------------------------ MODULE WorkerOutputsProofs ------------------------
(***************************************************************************)
(* Proofs about WorkerOutputs, for any products, in any order, and any     *)
(* number of tries and runs.                                               *)
(*                                                                         *)
(* The argument: every product that the attempt has written a second time  *)
(* is complete and its own (FinalsAreKept), since a second write needs the *)
(* raw content of a first one, and no first write comes after the second   *)
(* one of the same product (RawComesFirst).  An attempt with status 0 has  *)
(* made all its writes, and they hold every product (EveryProductIsFinal). *)
(***************************************************************************)
EXTENDS WorkerOutputs, SequenceTheorems, TLAPS

L == Len(Layers)
E == Len(Evapo)

LEMMA Sizes ==
    /\ L \in Nat /\ E \in Nat
    /\ Layers \in Seq(NameSet(Layers)) /\ RewriteOrder \in Seq(NameSet(RewriteOrder))
    /\ Evapo \in Seq(NameSet(Evapo))
    /\ Len(RewriteOrder) = L
    /\ DOMAIN Layers = 1..L /\ DOMAIN RewriteOrder = 1..L /\ DOMAIN Evapo = 1..E
BY OutputsAssumption DEF L, E

\* Where the elements of two sequences are in their concatenation.
LEMMA Concatenation ==
    ASSUME NEW S, NEW s \in Seq(S), NEW t \in Seq(S)
    PROVE  /\ s \o t \in Seq(S) /\ Len(s \o t) = Len(s) + Len(t)
           /\ \A i \in 1..Len(s) : (s \o t)[i] = s[i]
           /\ \A i \in 1..Len(t) : (s \o t)[Len(s) + i] = t[i]
<1>1. \A i \in 1..Len(s) : i \in 1..(Len(s) + Len(t)) /\ i <= Len(s)
  OBVIOUS
<1>2. \A i \in 1..Len(t) : /\ Len(s) + i \in 1..(Len(s) + Len(t))
                           /\ ~(Len(s) + i <= Len(s)) /\ (Len(s) + i) - Len(s) = i
  OBVIOUS
<1> QED BY <1>1, <1>2, ConcatProperties

WriteValues == [name : Products, as : {"raw", "final"}]

\* Raw and Final of a sequence of products.
LEMMA PartsOfWrites ==
    ASSUME NEW names \in {Layers, RewriteOrder, Evapo}, NEW n \in Nat, Len(names) = n
    PROVE  /\ Raw(names) \in Seq(WriteValues) /\ Len(Raw(names)) = n
           /\ Final(names) \in Seq(WriteValues) /\ Len(Final(names)) = n
           /\ \A i \in 1..n : /\ Raw(names)[i] = [name |-> names[i], as |-> "raw"]
                              /\ Final(names)[i] = [name |-> names[i], as |-> "final"]
<1>1. names \in Seq(NameSet(names)) /\ DOMAIN names = 1..n
  BY OutputsAssumption
<1>2. NameSet(names) \subseteq Products
  BY OutputsAssumption DEF Products
<1>3. \A i \in 1..n : names[i] \in Products
  BY <1>1, <1>2
<1>4. Raw(names) \in [1..n -> WriteValues] /\ Final(names) \in [1..n -> WriteValues]
  BY <1>1, <1>3 DEF Raw, Final, WriteValues
<1>5. \A i \in 1..n : /\ Raw(names)[i] = [name |-> names[i], as |-> "raw"]
                      /\ Final(names)[i] = [name |-> names[i], as |-> "final"]
  BY <1>1 DEF Raw, Final
<1>6. \A f \in [1..n -> WriteValues] : f \in Seq(WriteValues) /\ Len(f) = n
  OBVIOUS
<1> QED BY <1>4, <1>5, <1>6

\* The writes of an attempt, by their place in the script.
LEMMA WritesOfAnAttempt ==
    /\ Writes \in Seq(WriteValues) /\ Len(Writes) = 2 * L + 2 * E
    /\ \A i \in 1..L : Writes[i] = [name |-> Layers[i], as |-> "raw"]
    /\ \A i \in 1..L : Writes[L + i] = [name |-> RewriteOrder[i], as |-> "final"]
    /\ \A i \in 1..E : Writes[2 * L + i] = [name |-> Evapo[i], as |-> "raw"]
    /\ \A i \in 1..E : Writes[2 * L + E + i] = [name |-> Evapo[i], as |-> "final"]
<1> DEFINE a == Raw(Layers)
           b == Final(RewriteOrder)
           c == Raw(Evapo)
           d == Final(Evapo)
<1>1. L \in Nat /\ E \in Nat
  BY Sizes
<1>2. /\ a \in Seq(WriteValues) /\ Len(a) = L /\ \A i \in 1..L : a[i] = [name |-> Layers[i], as |-> "raw"]
      /\ b \in Seq(WriteValues) /\ Len(b) = L /\ \A i \in 1..L : b[i] = [name |-> RewriteOrder[i], as |-> "final"]
      /\ c \in Seq(WriteValues) /\ Len(c) = E /\ \A i \in 1..E : c[i] = [name |-> Evapo[i], as |-> "raw"]
      /\ d \in Seq(WriteValues) /\ Len(d) = E /\ \A i \in 1..E : d[i] = [name |-> Evapo[i], as |-> "final"]
  BY <1>1, Sizes, PartsOfWrites DEF L, E
<1>C. \A s, t \in Seq(WriteValues) :
          /\ s \o t \in Seq(WriteValues) /\ Len(s \o t) = Len(s) + Len(t)
          /\ \A i \in 1..Len(s) : (s \o t)[i] = s[i]
          /\ \A i \in 1..Len(t) : (s \o t)[Len(s) + i] = t[i]
  BY Concatenation
<1>3. Writes = ((a \o b) \o c) \o d
  BY DEF Writes
<1> HIDE DEF a, b, c, d
<1>4. /\ a \o b \in Seq(WriteValues) /\ Len(a \o b) = 2 * L
      /\ \A i \in 1..L : (a \o b)[i] = a[i]
      /\ \A i \in 1..L : (a \o b)[L + i] = b[i]
  <2>1. /\ a \o b \in Seq(WriteValues) /\ Len(a \o b) = L + L
        /\ \A i \in 1..L : (a \o b)[i] = a[i]
        /\ \A i \in 1..L : (a \o b)[L + i] = b[i]
    <3>1. a \in Seq(WriteValues) /\ b \in Seq(WriteValues) /\ Len(a) = L /\ Len(b) = L
      BY <1>2
    <3>2. /\ a \o b \in Seq(WriteValues) /\ Len(a \o b) = Len(a) + Len(b)
          /\ \A i \in 1..Len(a) : (a \o b)[i] = a[i]
          /\ \A i \in 1..Len(b) : (a \o b)[Len(a) + i] = b[i]
      BY <3>1, <1>C
    <3> QED BY <3>1, <3>2
  <2> QED BY <2>1, <1>1
<1> DEFINE ab == a \o b
<1>5. /\ ab \in Seq(WriteValues) /\ Len(ab) = 2 * L
      /\ \A i \in 1..L : ab[i] = a[i]
      /\ \A i \in 1..L : ab[L + i] = b[i]
  BY <1>4
<1>6. Writes = (ab \o c) \o d
  BY <1>3
<1> HIDE DEF ab
<1> DEFINE abc == ab \o c
<1>7. /\ abc \in Seq(WriteValues) /\ Len(abc) = 2 * L + E
      /\ \A i \in 1..2 * L : abc[i] = ab[i]
      /\ \A i \in 1..E : abc[2 * L + i] = c[i]
  <2>2. c \in Seq(WriteValues) /\ Len(c) = E /\ ab \in Seq(WriteValues) /\ Len(ab) = 2 * L
    BY <1>2, <1>5
  <2>3. /\ ab \o c \in Seq(WriteValues) /\ Len(ab \o c) = Len(ab) + Len(c)
        /\ \A i \in 1..Len(ab) : (ab \o c)[i] = ab[i]
        /\ \A i \in 1..Len(c) : (ab \o c)[Len(ab) + i] = c[i]
    BY <2>2, <1>C
  <2> QED BY <2>2, <2>3
<1>8. Writes = abc \o d
  BY <1>6
<1> HIDE DEF abc
<1>9. /\ Writes \in Seq(WriteValues) /\ Len(Writes) = 2 * L + 2 * E
      /\ \A i \in 1..(2 * L + E) : Writes[i] = abc[i]
      /\ \A i \in 1..E : Writes[2 * L + E + i] = d[i]
  <2>1. 2 * L + E \in Nat /\ (2 * L + E) + E = 2 * L + 2 * E
    BY <1>1
  <2>2. /\ abc \o d \in Seq(WriteValues) /\ Len(abc \o d) = (2 * L + E) + E
        /\ \A i \in 1..(2 * L + E) : (abc \o d)[i] = abc[i]
        /\ \A i \in 1..E : (abc \o d)[(2 * L + E) + i] = d[i]
    <3>1. /\ d \in Seq(WriteValues) /\ Len(d) = E
          /\ abc \in Seq(WriteValues) /\ Len(abc) = 2 * L + E
      BY <1>2, <1>7
    <3>2. /\ abc \o d \in Seq(WriteValues) /\ Len(abc \o d) = Len(abc) + Len(d)
          /\ \A i \in 1..Len(abc) : (abc \o d)[i] = abc[i]
          /\ \A i \in 1..Len(d) : (abc \o d)[Len(abc) + i] = d[i]
      BY <3>1, <1>C
    <3> QED BY <3>1, <3>2
  <2> QED BY <2>1, <2>2, <1>8
<1>10. \A i \in 1..L : /\ i \in 1..2 * L /\ i \in 1..(2 * L + E)
                       /\ L + i \in 1..2 * L /\ L + i \in 1..(2 * L + E)
  BY <1>1
<1>11. \A i \in 1..E : 2 * L + i \in 1..(2 * L + E)
  BY <1>1
<1>12. \A i \in 1..L : Writes[i] = a[i] /\ Writes[L + i] = b[i]
  BY <1>5, <1>7, <1>9, <1>10
<1>13. \A i \in 1..E : Writes[2 * L + i] = c[i]
  BY <1>7, <1>9, <1>11
<1> QED BY <1>2, <1>9, <1>12, <1>13

LEMMA Places ==
    ASSUME NEW k \in 1..Len(Writes)
    PROVE  \/ \E i \in 1..L : k = i \/ k = L + i
           \/ \E i \in 1..E : k = 2 * L + i \/ k = 2 * L + E + i
<1>1. L \in Nat /\ E \in Nat /\ k \in 1..(2 * L + 2 * E)
  BY Sizes, WritesOfAnAttempt
<1>2. CASE k <= L
  BY <1>1, <1>2
<1>3. CASE k > L /\ k <= 2 * L
  <2>1. k - L \in 1..L /\ k = L + (k - L)
    BY <1>1, <1>3
  <2> QED BY <2>1
<1>4. CASE k > 2 * L /\ k <= 2 * L + E
  <2>1. k - 2 * L \in 1..E /\ k = 2 * L + (k - 2 * L)
    BY <1>1, <1>4
  <2> QED BY <2>1
<1>5. CASE k > 2 * L + E
  <2>1. k - (2 * L + E) \in 1..E /\ k = 2 * L + E + (k - (2 * L + E))
    BY <1>1, <1>5
  <2> QED BY <2>1
<1> QED BY <1>1, <1>2, <1>3, <1>4, <1>5

LEMMA RawComesFirst ==
    ASSUME NEW k \in 1..Len(Writes), NEW m \in 1..Len(Writes), k < m,
           Writes[k].as = "final", Writes[m].as = "raw"
    PROVE  Writes[k].name # Writes[m].name
<1>1. L \in Nat /\ E \in Nat
  BY Sizes
<1>0. \A x, y : [name |-> x, as |-> "raw"].as # "final" /\ [name |-> y, as |-> "final"].as # "raw"
  OBVIOUS
<1>2. (\E i \in 1..L : k = L + i) \/ (\E i \in 1..E : k = 2 * L + E + i)
  <2>1. \A i \in 1..L : Writes[i].as # "final"
    BY <1>0, WritesOfAnAttempt
  <2>2. \A i \in 1..E : Writes[2 * L + i].as # "final"
    BY <1>0, WritesOfAnAttempt
  <2> QED BY <2>1, <2>2, Places
<1>3. (\E i \in 1..L : m = i) \/ (\E i \in 1..E : m = 2 * L + i)
  <2>1. \A i \in 1..L : Writes[L + i].as # "raw"
    BY <1>0, WritesOfAnAttempt
  <2>2. \A i \in 1..E : Writes[2 * L + E + i].as # "raw"
    BY <1>0, WritesOfAnAttempt
  <2> QED BY <2>1, <2>2, Places
<1>4. PICK i \in 1..L : k = L + i
  <2>1. ASSUME NEW i \in 1..E, k = 2 * L + E + i PROVE FALSE
    <3>1. CASE \E j \in 1..L : m = j
      BY <1>1, <2>1, <3>1
    <3>2. CASE \E j \in 1..E : m = 2 * L + j
      BY <1>1, <2>1, <3>2
    <3> QED BY <1>3, <3>1, <3>2
  <2> QED BY <1>2, <2>1
<1>5. PICK j \in 1..E : m = 2 * L + j
  <2>1. ASSUME NEW j \in 1..L, m = j PROVE FALSE
    BY <1>1, <1>4, <2>1
  <2> QED BY <1>3, <2>1
<1>6. Writes[k].name = RewriteOrder[i] /\ Writes[m].name = Evapo[j]
  <2>1. /\ Writes[L + i] = [name |-> RewriteOrder[i], as |-> "final"]
        /\ Writes[2 * L + j] = [name |-> Evapo[j], as |-> "raw"]
    BY WritesOfAnAttempt
  <2> QED BY <2>1, <1>4, <1>5
<1>7. RewriteOrder[i] \in NameSet(Layers) /\ Evapo[j] \in NameSet(Evapo)
  BY Sizes, OutputsAssumption DEF NameSet
<1> QED BY <1>6, <1>7, OutputsAssumption

LEMMA EveryProductIsFinal ==
    ASSUME NEW p \in Products
    PROVE  \E k \in 1..Len(Writes) : Writes[k].name = p /\ Writes[k].as = "final"
<1>1. L \in Nat /\ E \in Nat
  BY Sizes
<1>2. CASE p \in NameSet(Layers)
  <2>1. PICK i \in 1..L : p = RewriteOrder[i]
    BY <1>2, Sizes, OutputsAssumption DEF NameSet
  <2>2. L + i \in 1..Len(Writes)
    <3>1. Len(Writes) = 2 * L + 2 * E
      BY WritesOfAnAttempt
    <3> QED BY <1>1, <3>1
  <2>3. Writes[L + i] = [name |-> RewriteOrder[i], as |-> "final"]
    BY WritesOfAnAttempt
  <2>4. Writes[L + i].name = p /\ Writes[L + i].as = "final"
    BY <2>1, <2>3
  <2> QED BY <2>2, <2>4
<1>3. CASE p \in NameSet(Evapo)
  <2>1. PICK i \in 1..E : p = Evapo[i]
    BY <1>3, Sizes DEF NameSet
  <2>2. 2 * L + E + i \in 1..Len(Writes)
    <3>1. Len(Writes) = 2 * L + 2 * E
      BY WritesOfAnAttempt
    <3> QED BY <1>1, <3>1
  <2>3. Writes[2 * L + E + i] = [name |-> Evapo[i], as |-> "final"]
    BY WritesOfAnAttempt
  <2>4. Writes[2 * L + E + i].name = p /\ Writes[2 * L + E + i].as = "final"
    BY <2>1, <2>3
  <2> QED BY <2>2, <2>4
<1> QED BY <1>2, <1>3 DEF Products

-----------------------------------------------------------------------------
\* What the attempt that runs, or ran last, has finished is complete and its own.
FinalsAreKept == \A k \in 1..done : Writes[k].as = "final" =>
                    /\ file[Writes[k].name] = "final"
                    /\ writer[Writes[k].name] = <<run, try>>

\* The file it is writing.
OpenIsBroken == open => /\ done < Len(Writes)
                        /\ file[Writes[done + 1].name] = "broken"
                        /\ writer[Writes[done + 1].name] = <<run, try>>

Beginning == try = 1 /\ done = 0 /\ ~open /\ rc = NoStatus

\* Where the statuses stand in each phase.
StatusesFit == /\ phase = "prepare" => Beginning /\ exit = NoStatus
               /\ phase = "rscript" => rc = NoStatus /\ exit = NoStatus
               /\ phase = "tried" => rc # NoStatus /\ exit = NoStatus
               /\ phase \in {"clean", "describe"} => rc = 0 /\ exit = NoStatus
               /\ phase = "exited" =>
                     \/ exit = 0 /\ rc = 0
                     \/ exit = 124 /\ try = MAX_TRIES /\ rc = 124
                     \/ exit = 1 /\ try = MAX_TRIES /\ rc = 1
                     \/ exit = 1 /\ Beginning
                     \/ exit = 1 /\ rc = 0

\* No file is of this run before R has started.
NothingWritten == phase = "prepare" \/ (phase = "exited" /\ Beginning)
                     => \A p \in Products : writer[p][1] < run

\* Status 0 is that of an attempt that has made all its writes.
ZeroIsTheEnd == rc = 0 => done = Len(Writes) /\ ~open

\* No file is of a run to come.
OldWriters == \A p \in Products : writer[p][1] <= run

OutputsInvariant == TypeOK /\ FinalsAreKept /\ OpenIsBroken /\ StatusesFit
                           /\ ZeroIsTheEnd /\ OldWriters /\ NothingWritten

Blocks == [run : 1..MaxRuns, whole : BOOLEAN, found : SUBSET Listed]

LEMMA WriteIsTyped ==
    ASSUME NEW k \in 1..Len(Writes)
    PROVE  Writes[k].name \in Products /\ Writes[k].as \in {"raw", "final"}
<1>1. Writes[k] \in WriteValues
  BY WritesOfAnAttempt, ElementOfSeq
<1> QED BY <1>1 DEF WriteValues

LEMMA LengthIsNat == Len(Writes) \in Nat
<1>1. Len(Writes) = 2 * L + 2 * E /\ L \in Nat /\ E \in Nat
  BY WritesOfAnAttempt, Sizes
<1> QED BY <1>1

LEMMA InvariantInit == Init => OutputsInvariant
<1> SUFFICES ASSUME Init PROVE OutputsInvariant
  OBVIOUS
<1>1. MAX_TRIES \in Nat \ {0} /\ MaxRuns \in Nat \ {0}
  BY OutputsAssumption
<1>2. TypeOK
  <2>1. /\ file \in [Products -> FileStates] /\ writer \in [Products -> (0..MaxRuns) \X (0..MAX_TRIES)]
        /\ run \in 1..MaxRuns /\ try \in 1..MAX_TRIES
    BY <1>1 DEF Init, FileStates
  <2>2. done \in 0..Len(Writes)
    BY LengthIsNat DEF Init
  <2>3. metadata \in Seq(Blocks)
    BY DEF Init
  <2> QED BY <2>1, <2>2, <2>3 DEF Init, TypeOK, Blocks
<1>3. FinalsAreKept
  BY DEF Init, FinalsAreKept
<1>4. OpenIsBroken /\ StatusesFit /\ ZeroIsTheEnd
  BY DEF Init, OpenIsBroken, StatusesFit, Beginning, ZeroIsTheEnd, NoStatus
<1>5. OldWriters /\ NothingWritten
  BY DEF Init, OldWriters, NothingWritten
<1> QED BY <1>2, <1>3, <1>4, <1>5 DEF OutputsInvariant

LEMMA OpenFileStep ==
    ASSUME OutputsInvariant, OpenFile
    PROVE  OutputsInvariant'
<1> DEFINE m == done + 1
<1>1. /\ done \in Nat /\ m \in 1..Len(Writes) /\ ~open /\ run \in 1..MaxRuns /\ try \in 1..MAX_TRIES
      /\ file \in [Products -> FileStates] /\ writer \in [Products -> (0..MaxRuns) \X (0..MAX_TRIES)]
      /\ MAX_TRIES \in Nat /\ MaxRuns \in Nat
  BY LengthIsNat, OutputsAssumption DEF OutputsInvariant, TypeOK, OpenFile
<1> DEFINE n == Writes[m].name
<1>2. n \in Products
  BY <1>1, WriteIsTyped
<1>3. /\ Writes[m].as = "final" => file[n] = "raw"
      /\ file' = [file EXCEPT ![n] = "broken"]
      /\ writer' = [writer EXCEPT ![n] = <<run, try>>]
      /\ open' /\ UNCHANGED <<run, try, phase, done, rc, exit, metadata>> /\ phase = "rscript"
  BY DEF OpenFile
<1>4. ASSUME NEW k \in 1..done, Writes[k].as = "final" PROVE Writes[k].name # n
  <2>1. k \in 1..Len(Writes) /\ k < m
    BY <1>1, LengthIsNat
  <2>2. CASE Writes[m].as = "raw"
    BY <1>1, <1>4, <2>1, <2>2, RawComesFirst
  <2>3. CASE Writes[m].as = "final"
    <3>1. file[n] = "raw" /\ file[Writes[k].name] = "final"
      BY <1>3, <1>4, <2>3 DEF OutputsInvariant, FinalsAreKept
    <3> QED BY <3>1
  <2> QED BY <1>1, <2>2, <2>3, WriteIsTyped
<1> HIDE DEF n
<1>5. FinalsAreKept'
  <2> SUFFICES ASSUME NEW k \in 1..done, Writes[k].as = "final"
               PROVE  file'[Writes[k].name] = "final" /\ writer'[Writes[k].name] = <<run, try>>
    BY <1>3 DEF FinalsAreKept
  <2>1. k \in 1..Len(Writes)
    BY <1>1, LengthIsNat
  <2>2. Writes[k].name \in Products /\ Writes[k].name # n
    BY <1>4, <2>1, WriteIsTyped
  <2>3. file[Writes[k].name] = "final" /\ writer[Writes[k].name] = <<run, try>>
    BY DEF OutputsInvariant, FinalsAreKept
  <2> QED BY <1>1, <1>3, <2>2, <2>3
<1>6. OpenIsBroken'
  <2>1. file'[n] = "broken" /\ writer'[n] = <<run, try>> /\ done < Len(Writes)
    BY <1>1, <1>2, <1>3, LengthIsNat
  <2> QED BY <1>3, <2>1 DEF OpenIsBroken, n
<1>7. TypeOK'
  <2>1. file' \in [Products -> FileStates]
    BY <1>1, <1>3 DEF FileStates
  <2>2. writer' \in [Products -> (0..MaxRuns) \X (0..MAX_TRIES)]
    <3>1. <<run, try>> \in (0..MaxRuns) \X (0..MAX_TRIES)
      BY <1>1
    <3> QED BY <1>1, <1>3, <3>1
  <2> QED BY <1>3, <2>1, <2>2 DEF OutputsInvariant, TypeOK
<1>8. StatusesFit' /\ ZeroIsTheEnd' /\ NothingWritten'
  BY <1>3 DEF OutputsInvariant, StatusesFit, ZeroIsTheEnd, NothingWritten, NoStatus
<1>9. OldWriters'
  BY <1>1, <1>3 DEF OutputsInvariant, OldWriters
<1> QED BY <1>5, <1>6, <1>7, <1>8, <1>9 DEF OutputsInvariant

LEMMA CloseFileStep ==
    ASSUME OutputsInvariant, CloseFile
    PROVE  OutputsInvariant'
<1> DEFINE m == done + 1
           n == Writes[m].name
<1>1. /\ done \in Nat /\ m \in 1..Len(Writes)
      /\ file \in [Products -> FileStates] /\ file[n] = "broken" /\ writer[n] = <<run, try>>
  BY LengthIsNat DEF OutputsInvariant, TypeOK, OpenIsBroken, CloseFile
<1>2. n \in Products /\ Writes[m].as \in {"raw", "final"}
  BY <1>1, WriteIsTyped
<1>3. /\ file' = [file EXCEPT ![n] = Writes[m].as]
      /\ done' = m /\ open' = FALSE /\ UNCHANGED <<run, try, phase, rc, writer, exit, metadata>>
      /\ phase = "rscript"
  BY DEF CloseFile
<1>4. FinalsAreKept'
  <2> SUFFICES ASSUME NEW k \in 1..m, Writes[k].as = "final"
               PROVE  file'[Writes[k].name] = "final" /\ writer[Writes[k].name] = <<run, try>>
    BY <1>3 DEF FinalsAreKept
  <2>1. CASE k = m
    BY <1>1, <1>2, <1>3, <2>1
  <2>2. CASE k # m
    <3>1. k \in 1..done /\ k \in 1..Len(Writes)
      BY <1>1, <2>2, LengthIsNat
    <3>2. file[Writes[k].name] = "final" /\ writer[Writes[k].name] = <<run, try>>
      BY <3>1 DEF OutputsInvariant, FinalsAreKept
    <3>3. Writes[k].name \in Products /\ Writes[k].name # n
      BY <1>1, <3>1, <3>2, WriteIsTyped
    <3> QED BY <1>1, <1>3, <3>2, <3>3
  <2> QED BY <2>1, <2>2
<1>5. TypeOK'
  <2>1. file' \in [Products -> FileStates]
    BY <1>1, <1>2, <1>3 DEF FileStates
  <2>2. done' \in 0..Len(Writes)
    BY <1>1, <1>3, LengthIsNat
  <2>3. open' \in BOOLEAN
    BY <1>3
  <2> QED BY <1>3, <2>1, <2>2, <2>3 DEF OutputsInvariant, TypeOK
<1>6. OpenIsBroken' /\ StatusesFit' /\ ZeroIsTheEnd' /\ OldWriters' /\ NothingWritten'
  BY <1>3 DEF OutputsInvariant, OpenIsBroken, StatusesFit, ZeroIsTheEnd, OldWriters,
     NothingWritten, NoStatus
<1> QED BY <1>4, <1>5, <1>6 DEF OutputsInvariant

LEMMA AttemptEnds ==
    ASSUME OutputsInvariant, RFinishes \/ RTimesOut \/ RFails
    PROVE  OutputsInvariant'
<1>1. /\ phase = "rscript" /\ phase' = "tried" /\ rc' \in {0, 1, 124}
      /\ rc' = 0 => done = Len(Writes)
      /\ UNCHANGED <<run, try, done, open, file, writer, exit, metadata>>
  BY DEF RFinishes, RTimesOut, RFails, REnds
<1>2. TypeOK'
  BY <1>1 DEF OutputsInvariant, TypeOK
<1>3. FinalsAreKept' /\ OpenIsBroken' /\ OldWriters'
  BY <1>1 DEF OutputsInvariant, FinalsAreKept, OpenIsBroken, OldWriters
<1>4. StatusesFit' /\ NothingWritten'
  BY <1>1 DEF OutputsInvariant, StatusesFit, NothingWritten, NoStatus
<1>5. ZeroIsTheEnd'
  BY <1>1, LengthIsNat DEF OutputsInvariant, ZeroIsTheEnd, OpenIsBroken
<1> QED BY <1>2, <1>3, <1>4, <1>5 DEF OutputsInvariant

\* The loop of executeRScript.
LEMMA LoopSteps ==
    ASSUME OutputsInvariant, Retry \/ GiveUp \/ Succeed
    PROVE  OutputsInvariant'
<1>1. CASE Retry
  <2>1. TypeOK'
    <3>1. try' \in 1..MAX_TRIES
      BY <1>1, OutputsAssumption DEF OutputsInvariant, TypeOK, Retry
    <3>2. done' \in 0..Len(Writes)
      BY <1>1, LengthIsNat DEF Retry
    <3> QED BY <1>1, <3>1, <3>2 DEF OutputsInvariant, TypeOK, Retry
  <2>2. FinalsAreKept'
    BY <1>1 DEF FinalsAreKept, Retry
  <2>3. OpenIsBroken' /\ ZeroIsTheEnd' /\ OldWriters' /\ StatusesFit' /\ NothingWritten'
    BY <1>1 DEF OutputsInvariant, OpenIsBroken, ZeroIsTheEnd, OldWriters, StatusesFit,
       NothingWritten, Retry, NoStatus
  <2> QED BY <2>1, <2>2, <2>3 DEF OutputsInvariant
<1>2. CASE GiveUp
  <2>1. rc \in {1, 124} /\ try = MAX_TRIES
    BY <1>2, OutputsAssumption DEF OutputsInvariant, TypeOK, StatusesFit, GiveUp, NoStatus
  <2>2. TypeOK' /\ StatusesFit' /\ NothingWritten'
    BY <1>2, <2>1 DEF OutputsInvariant, TypeOK, StatusesFit, NothingWritten, Beginning, GiveUp,
       Exit, NoStatus
  <2>3. FinalsAreKept' /\ OpenIsBroken' /\ ZeroIsTheEnd' /\ OldWriters'
    BY <1>2 DEF OutputsInvariant, FinalsAreKept, OpenIsBroken, ZeroIsTheEnd, OldWriters, GiveUp
  <2> QED BY <2>2, <2>3 DEF OutputsInvariant
<1>3. CASE Succeed
  <2>1. TypeOK' /\ StatusesFit' /\ NothingWritten'
    BY <1>3 DEF OutputsInvariant, TypeOK, StatusesFit, NothingWritten, Succeed, NoStatus
  <2>2. FinalsAreKept' /\ OpenIsBroken' /\ ZeroIsTheEnd' /\ OldWriters'
    BY <1>3 DEF OutputsInvariant, FinalsAreKept, OpenIsBroken, ZeroIsTheEnd, OldWriters, Succeed
  <2> QED BY <2>1, <2>2 DEF OutputsInvariant
<1> QED BY <1>1, <1>2, <1>3

\* The other steps of run.sh leave the products, and what the last try said.
LEMMA OtherSteps ==
    ASSUME OutputsInvariant,
           \/ Prepare \/ PrepareFails \/ CleanRasterEnv \/ CleanRasterEnvFails
           \/ GenerateMetadata \/ GenerateMetadataFails
    PROVE  OutputsInvariant'
<1>1. UNCHANGED <<run, try, done, open, rc, file, writer>>
  BY DEF Prepare, PrepareFails, CleanRasterEnv, CleanRasterEnvFails, GenerateMetadata,
     GenerateMetadataFails
<1>2. \/ phase = "prepare" /\ phase' = "rscript" /\ exit' = exit
      \/ phase = "prepare" /\ phase' = "exited" /\ exit' = 1
      \/ phase = "clean" /\ phase' = "describe" /\ exit' = exit
      \/ phase \in {"clean", "describe"} /\ phase' = "exited" /\ exit' \in {0, 1}
  BY DEF Prepare, PrepareFails, CleanRasterEnv, CleanRasterEnvFails, GenerateMetadata,
     GenerateMetadataFails, Exit
<1>3. metadata' \in Seq(Blocks)
  <2>1. metadata \in Seq(Blocks)
    BY DEF OutputsInvariant, TypeOK, Blocks
  <2>2. \A lines \in SUBSET Listed, whole \in BOOLEAN : Block(lines, whole) \in Blocks
    BY DEF OutputsInvariant, TypeOK, Block, Blocks
  <2>3. CASE metadata' = metadata
    BY <2>1, <2>3
  <2>4. CASE metadata' = Append(metadata, Block(Listed, TRUE))
    <3>1. Block(Listed, TRUE) \in Blocks
      BY <2>2, Zenon
    <3> QED BY <2>1, <2>4, <3>1, AppendProperties
  <2>5. CASE \E lastLine \in Listed : metadata' = Append(metadata, Block(Listed \ {lastLine}, FALSE))
    <3>1. PICK lastLine \in Listed : metadata' = Append(metadata, Block(Listed \ {lastLine}, FALSE))
      BY <2>5
    <3>2. Listed \ {lastLine} \in SUBSET Listed
      OBVIOUS
    <3>3. Block(Listed \ {lastLine}, FALSE) \in Blocks
      BY <2>2, <3>2, Zenon
    <3> QED BY <2>1, <3>1, <3>3, AppendProperties
  <2> QED BY <2>3, <2>4, <2>5 DEF Prepare, PrepareFails, CleanRasterEnv, CleanRasterEnvFails,
          GenerateMetadata, GenerateMetadataFails
<1>4. TypeOK'
  BY <1>1, <1>2, <1>3 DEF OutputsInvariant, TypeOK, Blocks
<1>5. FinalsAreKept' /\ OpenIsBroken' /\ ZeroIsTheEnd' /\ OldWriters'
  BY <1>1 DEF OutputsInvariant, FinalsAreKept, OpenIsBroken, ZeroIsTheEnd, OldWriters
<1>6. StatusesFit'
  BY <1>1, <1>2 DEF OutputsInvariant, StatusesFit, Beginning, NoStatus
<1>7. NothingWritten'
  BY <1>1, <1>2 DEF OutputsInvariant, StatusesFit, NothingWritten, Beginning, NoStatus
<1> QED BY <1>4, <1>5, <1>6, <1>7 DEF OutputsInvariant

LEMMA StartAgainStep ==
    ASSUME OutputsInvariant, StartAgain
    PROVE  OutputsInvariant'
<1>1. TypeOK'
  <2>1. run' \in 1..MaxRuns /\ try' \in 1..MAX_TRIES
    BY OutputsAssumption DEF OutputsInvariant, TypeOK, StartAgain
  <2>2. done' \in 0..Len(Writes)
    BY LengthIsNat DEF StartAgain
  <2> QED BY <2>1, <2>2 DEF OutputsInvariant, TypeOK, StartAgain
<1>2. FinalsAreKept'
  BY DEF FinalsAreKept, StartAgain
<1>3. OpenIsBroken' /\ ZeroIsTheEnd' /\ StatusesFit'
  BY DEF OutputsInvariant, OpenIsBroken, ZeroIsTheEnd, StatusesFit, Beginning, StartAgain, NoStatus
<1>4. OldWriters' /\ NothingWritten'
  <2> SUFFICES ASSUME NEW p \in Products PROVE writer[p][1] <= run + 1 /\ writer[p][1] < run + 1
    BY DEF OldWriters, NothingWritten, StartAgain
  <2>1. writer[p][1] \in 0..MaxRuns /\ run \in 1..MaxRuns /\ writer[p][1] <= run
    BY DEF OutputsInvariant, TypeOK, OldWriters
  <2> QED BY <2>1, OutputsAssumption
<1> QED BY <1>1, <1>2, <1>3, <1>4 DEF OutputsInvariant

\* The inductive invariant, in every reachable state.
THEOREM OutputsInvariantHolds == Spec => []OutputsInvariant
<1>1. OutputsInvariant /\ [Next]_vars => OutputsInvariant'
  <2> SUFFICES ASSUME OutputsInvariant, [Next]_vars PROVE OutputsInvariant'
    OBVIOUS
  <2>1. CASE RProcess
    BY <2>1, OpenFileStep, CloseFileStep, AttemptEnds DEF RProcess
  <2>2. CASE Shell \/ StartAgain
    BY <2>2, LoopSteps, OtherSteps, StartAgainStep DEF Shell
  <2>3. CASE UNCHANGED vars
    <3>1. TypeOK' /\ StatusesFit'
      BY <2>3 DEF vars, OutputsInvariant, TypeOK, StatusesFit, Beginning
    <3>2. FinalsAreKept' /\ OpenIsBroken' /\ ZeroIsTheEnd' /\ OldWriters' /\ NothingWritten'
      BY <2>3 DEF vars, OutputsInvariant, FinalsAreKept, OpenIsBroken, ZeroIsTheEnd, OldWriters,
         NothingWritten, Beginning
    <3> QED BY <3>1, <3>2 DEF OutputsInvariant
  <2> QED BY <2>1, <2>2, <2>3 DEF Next
<1> QED BY <1>1, InvariantInit, PTL DEF Spec

\* Every value has its type; the attempts stay within MAX_TRIES (bin/run.sh:86-109).
THEOREM OutputTypes == Spec => []TypeOK
BY OutputsInvariantHolds, PTL DEF OutputsInvariant

\* The products are usable once an attempt has ended with 0.
LEMMA ZeroIsUsable == OutputsInvariant /\ rc = 0 => Usable
<1> SUFFICES ASSUME OutputsInvariant, rc = 0, NEW p \in Products
             PROVE  file[p] = "final" /\ writer[p] = <<run, try>>
  BY DEF Usable
<1>1. done = Len(Writes)
  BY DEF OutputsInvariant, ZeroIsTheEnd
<1>2. PICK k \in 1..Len(Writes) : Writes[k].name = p /\ Writes[k].as = "final"
  BY EveryProductIsFinal
<1> QED BY <1>1, <1>2 DEF OutputsInvariant, FinalsAreKept

\* A run that exits with 0 leaves every product complete and of its last
\* attempt, whatever earlier attempts and runs have left (bin/run.sh:86-109,
\* Algoritmo_29112017.R).
THEOREM ZeroMeansUsableProducts == Spec => []ExitZeroMeansUsableProducts
<1>1. OutputsInvariant => ExitZeroMeansUsableProducts
  <2> SUFFICES ASSUME OutputsInvariant, exit = 0 PROVE Usable
    BY DEF ExitZeroMeansUsableProducts
  <2>1. rc = 0
    BY DEF OutputsInvariant, TypeOK, StatusesFit, NoStatus
  <2> QED BY <2>1, ZeroIsUsable
<1> QED BY <1>1, OutputsInvariantHolds, PTL

\* Exit status 124 is that of the last try; 1 is that of the last try too, or
\* run.sh has failed before R was started, over what earlier runs have left, or
\* after a try that succeeded, over usable products (bin/run.sh:86-109, 154-182).
THEOREM StatusIsOfTheLastStep == Spec => []FailureIsOfTheLastStep
<1>1. OutputsInvariant => FailureIsOfTheLastStep
  <2> SUFFICES ASSUME OutputsInvariant PROVE FailureIsOfTheLastStep
    OBVIOUS
  <2>1. exit \in {1, 124} => phase = "exited"
    BY DEF OutputsInvariant, TypeOK, StatusesFit, NoStatus
  <2>2. rc = 0 => Usable
    BY ZeroIsUsable
  <2>3. phase = "exited" /\ Beginning => \A p \in Products : writer[p][1] < run
    BY DEF OutputsInvariant, NothingWritten
  <2>4. exit = 124 => try = MAX_TRIES /\ rc = 124
    BY <2>1 DEF OutputsInvariant, StatusesFit
  <2>5. exit = 1 => (try = MAX_TRIES /\ rc = 1) \/ Beginning \/ rc = 0
    BY <2>1 DEF OutputsInvariant, StatusesFit
  <2> QED BY <2>1, <2>2, <2>3, <2>4, <2>5 DEF FailureIsOfTheLastStep, Beginning
<1> QED BY <1>1, OutputsInvariantHolds, PTL

-----------------------------------------------------------------------------
(***************************************************************************)
(* executeRScript implements OutputContract                                *)
(***************************************************************************)
\* The outcome OutputContract sees.
Outcome == IF phase \in {"prepare", "rscript", "tried"} THEN "running"
           ELSE IF rc = 0 THEN "ok"
           ELSE IF exit = 124 THEN "timeout" ELSE "error"

LEMMA OutcomeByPhase ==
    /\ phase \in {"prepare", "rscript", "tried"} /\ exit = NoStatus => Outcome = "running"
    /\ phase \in {"clean", "describe", "exited"} /\ rc = 0 => Outcome = "ok"
    /\ phase = "exited" /\ rc # 0 /\ exit = 124 => Outcome = "timeout"
    /\ phase = "exited" /\ rc # 0 /\ exit # 124 => Outcome = "error"
BY DEF Outcome

LEMMA ContractInit == Init => Contract!Init
<1> SUFFICES ASSUME Init PROVE Outcome = "running" /\ ~Usable
  BY DEF Contract!Init, Outcome
<1>1. Outcome = "running"
  BY OutcomeByPhase DEF Init
<1>2. PICK p \in Products : TRUE
  <2>1. Len(Layers) \in Nat \ {0} /\ 1 \in DOMAIN Layers
    BY OutputsAssumption, EmptySeq
  <2> QED BY <2>1 DEF Products, NameSet
<1>3. file[p] = "absent"
  BY DEF Init
<1> QED BY <1>1, <1>3 DEF Usable

\* Every step of run.sh and of R is a step of the contract or keeps its view.
LEMMA ContractStep ==
    OutputsInvariant /\ [Next]_vars => [Contract!Next]_(Contract!contractVars)
<1> SUFFICES ASSUME OutputsInvariant, [Next]_vars
             PROVE  [Contract!Next]_<<Outcome, Usable>>
  BY DEF Contract!contractVars, Outcome
<1>0. StatusesFit
  BY DEF OutputsInvariant
<1>1. CASE OpenFile \/ CloseFile \/ Retry \/ Prepare
  <2>1. Outcome = "running" /\ Outcome' = "running"
    BY <1>0, <1>1 DEF StatusesFit, OpenFile, CloseFile, Retry, Prepare, Outcome, NoStatus
  <2>2. Usable' \in BOOLEAN
    BY DEF Usable
  <2> QED BY <2>1, <2>2 DEF Contract!Next, Contract!Work, Outcome
<1>2. CASE RFinishes \/ RTimesOut \/ RFails
  <2>1. Outcome = "running" /\ Outcome' = "running"
    BY <1>0, <1>2 DEF StatusesFit, RFinishes, RTimesOut, RFails, REnds, Outcome, NoStatus
  <2>2. Usable' = Usable
    BY <1>2 DEF RFinishes, RTimesOut, RFails, REnds, Usable
  <2> QED BY <2>1, <2>2
<1>3. CASE GiveUp \/ PrepareFails
  <2>1. rc # 0
    BY <1>0, <1>3 DEF StatusesFit, Beginning, GiveUp, PrepareFails, NoStatus
  <2>2. Outcome = "running"
    BY <1>0, <1>3, OutcomeByPhase DEF StatusesFit, GiveUp, PrepareFails
  <2>3. Outcome' \in {"error", "timeout"}
    BY <1>3, <2>1 DEF GiveUp, PrepareFails, Exit, Outcome
  <2>4. Usable' = Usable
    BY <1>3 DEF GiveUp, PrepareFails, Usable
  <2> QED BY <2>2, <2>3, <2>4 DEF Contract!Next, Contract!GiveUp, Outcome
<1>4. CASE Succeed
  <2>1. Outcome = "running" /\ Outcome' = "ok"
    BY <1>0, <1>4 DEF StatusesFit, Succeed, Outcome, NoStatus
  <2>2. Usable /\ Usable' = Usable
    BY <1>4, ZeroIsUsable DEF Succeed, Usable
  <2> QED BY <2>1, <2>2 DEF Contract!Next, Contract!Succeed, Outcome
<1>5. CASE CleanRasterEnv \/ CleanRasterEnvFails \/ GenerateMetadata \/ GenerateMetadataFails
  <2>1. rc = 0 /\ phase \in {"clean", "describe"} /\ phase' \in {"describe", "exited"}
    BY <1>0, <1>5 DEF StatusesFit, CleanRasterEnv, CleanRasterEnvFails, GenerateMetadata,
       GenerateMetadataFails, Exit
  <2>2. UNCHANGED <<run, try, rc, file, writer>>
    BY <1>5 DEF CleanRasterEnv, CleanRasterEnvFails, GenerateMetadata, GenerateMetadataFails
  <2>3. Outcome = "ok" /\ Outcome' = "ok"
    BY <2>1, <2>2 DEF Outcome
  <2>4. Usable' = Usable
    BY <2>2 DEF Usable
  <2> QED BY <2>3, <2>4
<1>6. CASE StartAgain
  <2>1. Outcome # "running"
    BY <1>0, <1>6, OutcomeByPhase DEF StatusesFit, StartAgain
  <2>2. Outcome' = "running"
    BY <1>6 DEF StartAgain, Outcome, NoStatus
  <2>3. PICK p \in Products : TRUE
    <3>1. Len(Layers) \in Nat \ {0} /\ 1 \in DOMAIN Layers
      BY OutputsAssumption, EmptySeq
    <3> QED BY <3>1 DEF Products, NameSet
  <2>4. writer'[p] # <<run', try'>>
    <3>1. writer[p] \in (0..MaxRuns) \X (0..MAX_TRIES) /\ writer[p][1] <= run /\ run \in 1..MaxRuns
      BY DEF OutputsInvariant, TypeOK, OldWriters
    <3>2. writer' = writer /\ run' = run + 1
      BY <1>6 DEF StartAgain
    <3> QED BY <3>1, <3>2, OutputsAssumption
  <2>5. Usable' = FALSE
    BY <2>4 DEF Usable
  <2> QED BY <2>1, <2>2, <2>5 DEF Contract!Next, Contract!StartAgain, Outcome
<1>7. CASE UNCHANGED vars
  BY <1>7 DEF vars, Outcome, Usable
<1> QED BY <1>1, <1>2, <1>3, <1>4, <1>5, <1>6, <1>7 DEF Next, RProcess, Shell

\* The safety part of KeepsContract: whatever the failures, run.sh goes on
\* with usable products only (bin/run.sh:86-109).
THEOREM OutputsKeepContract ==
    Spec => Contract!Init /\ [][Contract!Next]_(Contract!contractVars)
BY ContractInit, ContractStep, OutputsInvariantHolds, PTL DEF Spec

=============================================================================
