------------------------- MODULE MCRasterBlockCache -------------------------
(***************************************************************************)
(* RasterBlockCache for TLC: threads and offsets are interchangeable, and  *)
(* no property of it is a liveness property.                               *)
(***************************************************************************)
EXTENDS RasterBlockCache

Symmetry == Permutations(Threads) \cup Permutations(Offsets)

=============================================================================
