---------------------------- MODULE MCChunkPool ----------------------------
(***************************************************************************)
(* Model-checking instances of ChunkPool.                                  *)
(***************************************************************************)
EXTENDS ChunkPool, TLC

\* Threads differ by their flag, or chunks by the launcher's copy.
EntrySymmetry == Permutations(Entries)
=============================================================================
