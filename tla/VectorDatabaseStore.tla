------------------------ MODULE VectorDatabaseStore -------------------------
(***************************************************************************)
(* VectorDatabase implements DurableStore, for one client at a time.  The  *)
(* history variable `stored` follows the files: it is what a search is     *)
(* certain to find after a restart.                                        *)
(***************************************************************************)
EXTENDS VectorDatabase

VARIABLE stored

StoreInit == Init /\ stored = Durable
StoreNext == Next /\ stored' = IF UNCHANGED files THEN stored ELSE Durable'
StoreSpec == StoreInit /\ [][StoreNext]_<<vars, stored>> /\ Fairness

Store == INSTANCE DurableStore WITH
           submitted <- past.submitted,
           erasing   <- past.erasing,
           promised  <- {v \in Vectors : past.acked[v] # None},
           dropped   <- past.erased

(* Every step of the database is a step of the store or leaves it alone:   *)
(* a write takes effect when its log record is on disk, also if a crash    *)
(* cuts the newline off it; snapshots, truncations, compactions, crashes   *)
(* and replays are invisible.  Until the entry point is dead or bare and   *)
(* hides nodes, a line of the log is torn, or a crash parts the snapshot   *)
(* of a compaction from the truncation, all of which one client can meet.  *)
Undone == past.torn \/ past.stranded \/ Unreadable \/ Mixed

ImplementsDurableStore ==
  Store!Init /\ [][Store!Next \/ Undone \/ Undone']_(Store!vars)
=============================================================================
