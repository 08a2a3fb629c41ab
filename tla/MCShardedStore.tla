--------------------------- MODULE MCShardedStore ---------------------------
(* The instance of ShardedStore for TLC: two shards, one of which gets two *)
(* vectors, and a batch that goes to both.                                 *)
EXTENDS ShardedStore

CONSTANTS u, v, w

MCShardOf == (u :> 1) @@ (v :> 1) @@ (w :> 2)
MCBatches == {<<u>>, <<v, w>>, <<u, v>>}
Alike == Permutations(Callers)
=============================================================================
