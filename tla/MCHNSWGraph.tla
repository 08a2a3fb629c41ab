----------------------------- MODULE MCHNSWGraph -----------------------------
EXTENDS HNSWGraph, TLC

(* The marks of a Golomb ruler: no two differences are equal.  Four nodes  *)
(* on layer 1 do not fit into its lists, which have to be pruned.          *)
MCLayout == <<4, 0, 9, 1, 11>>
MCLine   == <<0, 1, 4, 6>>

(* All on layer 1; two concurrent inserts above the top; a mixture.        *)
MCDraws  == {<<1, 1, 1, 1, 1>>, <<0, 0, 0, 1, 1>>, <<1, 0, 1, 0, 1>>}
MCBottom == {<<0, 0, 0, 0>>}

MCFilterSome == {{0, 6}, {0, 1, 4, 6}}
MCFilters == {{0, 1, 4, 9, 11}}

Alike == Permutations(Threads)
=============================================================================
