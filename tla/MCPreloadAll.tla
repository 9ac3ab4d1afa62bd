--------------------------- MODULE MCPreloadAll ----------------------------
(***************************************************************************)
(* Model-checking instances of PreloadAll.                                 *)
(***************************************************************************)
EXTENDS PreloadAll, TLC

WorkerSymmetry == Permutations(Workers)
=============================================================================
