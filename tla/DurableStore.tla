---------------------------- MODULE DurableStore ----------------------------
(***************************************************************************)
(* What a client of one VectorDatabase may rely on, with no index, log,    *)
(* snapshot or crash in sight: a set of stored vectors.  A write enters it *)
(* at one instant, before its acknowledgement and for good; nothing else,  *)
(* and no restart above all, changes the set.                              *)
(***************************************************************************)
CONSTANT Vectors

VARIABLES stored,     \* what a search finds now or after any restart
          submitted,  \* the vectors given to insert()
          erasing,    \* the vectors a delete() was called for
          promised,   \* the vectors whose insert was acknowledged
          dropped     \* the vectors whose delete was acknowledged

requests == <<submitted, erasing>>
answers  == <<promised, dropped>>
vars == <<stored, requests, answers>>

Init == stored = {} /\ submitted = {} /\ erasing = {} /\ promised = {} /\ dropped = {}

Insert(v) == /\ v \notin submitted
             /\ submitted' = submitted \cup {v}
             /\ UNCHANGED <<stored, erasing, answers>>

(* Only a write that is not acknowledged yet, perhaps never, takes effect. *)
Put(v) == /\ v \in submitted \ (stored \cup promised \cup erasing)
          /\ stored' = stored \cup {v}
          /\ UNCHANGED <<requests, answers>>

AckPut(v) == /\ v \in stored
             /\ promised' = promised \cup {v}
             /\ UNCHANGED <<stored, requests, dropped>>

Delete(v) == /\ v \in stored
             /\ erasing' = erasing \cup {v}
             /\ UNCHANGED <<stored, submitted, answers>>

Remove(v) == /\ v \in stored \cap (erasing \ dropped)
             /\ stored' = stored \ {v}
             /\ UNCHANGED <<requests, answers>>

AckRemove(v) == /\ v \in erasing \ stored
                /\ dropped' = dropped \cup {v}
                /\ UNCHANGED <<stored, requests, promised>>

Next == \E v \in Vectors :
          Insert(v) \/ Put(v) \/ AckPut(v) \/ Delete(v) \/ Remove(v) \/ AckRemove(v)

Spec == Init /\ [][Next]_vars
=============================================================================
