--------------------------- MODULE MCStationFiles ---------------------------
(***************************************************************************)
(* StationFiles for TLC: three searches for one year, in which only the    *)
(* farthest station is acceptable.  Files of different years have          *)
(* different names and searches of different years exclude each other too. *)
(***************************************************************************)
EXTENDS StationFiles, TLC

CONSTANTS s1, s2, s3

MCSearches == {s1, s2, s3}
MCYears    == {2016}
MCGood     == [y \in MCYears |-> {N}]

\* The searches are alike.
Alike == Permutations(MCSearches)

=============================================================================
