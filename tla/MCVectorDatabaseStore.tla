----------------------- MODULE MCVectorDatabaseStore ------------------------
(* The instance of VectorDatabaseStore for TLC: see db_one_client.cfg.     *)
EXTENDS VectorDatabaseStore

Alike == Permutations(Clients) \cup Permutations(Vectors)
=============================================================================
