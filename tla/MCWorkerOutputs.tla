-------------------------- MODULE MCWorkerOutputs --------------------------
(***************************************************************************)
(* The products by the names Algoritmo_29112017.R gives them, and the      *)
(* suffixes generateMetadataFile looks for.                                *)
(***************************************************************************)
EXTENDS WorkerOutputs

MCLayers == <<"Rn", "TS", "NDVI", "EVI", "LAI", "G", "alb">>
MCRewriteOrder == <<"alb", "EVI", "G", "LAI", "NDVI", "Rn", "TS">>
MCEvapo == <<"EF", "ET24h">>
MCListed == {"EVI", "LAI", "NDVI", "LSA", "LST", "Rn", "G", "EF", "ET24h"}

=============================================================================
