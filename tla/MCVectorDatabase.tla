-------------------------- MODULE MCVectorDatabase --------------------------
(***************************************************************************)
(* Instances of VectorDatabase for TLC.  Clients and vectors play the same *)
(* part each, so the safety runs take states up to their permutation.      *)
(***************************************************************************)
EXTENDS VectorDatabase

Alike == Permutations(Clients) \cup Permutations(Vectors)
=============================================================================
