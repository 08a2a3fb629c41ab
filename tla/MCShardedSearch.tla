--------------------------- MODULE MCShardedSearch ---------------------------
EXTENDS ShardedSearch

(* The two nearest are on one shard, the third on another.                 *)
MCStored == <<{1, 2, 9}, {3, 8}, {7}>>
MCStoredTwo == <<{1, 2, 9}, {3, 8}>>
=============================================================================
