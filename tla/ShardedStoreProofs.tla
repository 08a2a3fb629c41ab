------------------------- MODULE ShardedStoreProofs -------------------------
(***************************************************************************)
(* Proofs about ShardedStore, for any callers, shards, vectors, batches    *)
(* and number of calls.                                                    *)
(*                                                                         *)
(* The inductive invariant, StoredInv, keeps account of the copies         *)
(* <<vector, call>>.  A copy is planned by its call, then requested, then  *)
(* spent (in a row, known to a caller, or seen deleted), and never two of  *)
(* these: so no row comes twice, and what is gone does not come back.  The *)
(* other parts say of each known id what it denotes, and of each call in   *)
(* progress what its answers so far are good for.                          *)
(*                                                                         *)
(* The proof of a step goes in two stages: what the step changes (Effect,  *)
(* StillStep, BeginStep), then that the changes keep each part.            *)
(***************************************************************************)
EXTENDS ShardedStore, IndexStoreProofs

(* The sets that the variables range over.                                 *)
Stored == Vectors \X Nat
Knowns == [id : Shards \X Nat, copy : Stored, generation : Nat]
Ops    == {"none", "insert", "delete", "search", "compact"}

Requests == [call : Nat, shard : Shards, op : Ops \ {"none"}, arg : Stored \cup Knowns \cup {None}]
Answers  == [shard : Shards, body : SUBSET (Knowns \cup Stored)]
Calls    == [at : {"idle", "waiting", "returned"}, op : Ops, number : Nat,
             batch : Seq(Vectors), got : SUBSET Knowns, target : Knowns \cup {None},
             heard : SUBSET Answers, failed : SUBSET Shards,
             must : SUBSET Stored, may : SUBSET Stored, dead : SUBSET Stored]
Pasts    == [generation : [Shards -> Nat], rounds : [{"search", "compact"} -> Nat],
             tried : SUBSET Vectors, settled : SUBSET Vectors, retried : SUBSET Vectors,
             victims : SUBSET Stored, erased : SUBSET Vectors]

(* The types of the variables.                                             *)
Types ==
  /\ calls \in Nat
  /\ net \subseteq Requests
  /\ told \subseteq Knowns
  /\ call \in [Callers -> Calls]
  /\ past \in Pasts
  /\ DOMAIN index = Shards

(* The copies of a shard that a search finds, and the deleted ones.        *)
LiveOf(s) == Copies(index[s], Live(index[s]))
DeadOf(s) == Copies(index[s], DOMAIN index[s].nodes \ Live(index[s]))

(* Every shard has a sound index in which no copy comes twice, of vectors  *)
(* that are routed to it.                                                  *)
StoreInv ==
  \A s \in Shards :
    /\ Sound(index[s]) /\ Distinct(index[s])
    /\ \A copy \in LiveOf(s) \cup DeadOf(s) : copy \in Stored /\ ShardOf[copy[1]] = s

(* What a call has learned and not yet told.                               *)
Learned(k) ==
  k.got \cup UNION {a.body : a \in {h \in k.heard : k.op \in {"insert", "search"}}}

(* What some thread knows: told, or in a call that is not over.            *)
AllKnown == told \cup UNION {Learned(call[c]) : c \in Callers}

(* The copies in rows, those that are known, and those that a compact()    *)
(* wants gone:                                                             *)
RowCopies   == UNION {LiveOf(s) \cup DeadOf(s) : s \in Shards}
KnownCopies == {t.copy : t \in AllKnown}
SeenDead    == UNION {call[c].dead : c \in Callers}

(* the copies that have been inserted once.                                *)
Spent == RowCopies \cup KnownCopies \cup SeenDead

(* The copies on their way to a shard,                                     *)
Requested == {r.arg : r \in {q \in net : q.op = "insert"}}

(* and those that a batch has still to ask for.                            *)
PlannedBy(c) == {<<call[c].batch[k], call[c].number>> : k \in 2..Len(call[c].batch)}
Planned == UNION {PlannedBy(c) : c \in Callers}

(* All the copies there are, and will be of the calls so far.              *)
Attempts == Spent \cup Requested \cup Planned

(* A copy is in one of these stages only, and of a call that has begun; a  *)
(* vector has one copy, unless it was tried again after an exception.      *)
AttemptInv ==
  /\ Spent \cap Requested = {} /\ Spent \cap Planned = {} /\ Requested \cap Planned = {}
  /\ \A copy \in Attempts : copy[2] <= calls /\ copy[1] \in past.tried
  /\ \A a, b \in Attempts : a[1] = b[1] /\ a[1] \notin past.retried => a = b

(* A request belongs to one call, and is what that call asks for; also     *)
(* when the thread has long left it.                                       *)
RequestInv ==
  \A r \in net :
    /\ r.call \in 1..calls
    /\ r.op = "insert" => r.arg \in Stored /\ r.arg[2] = r.call /\ r.shard = ShardOf[r.arg[1]]
    /\ r.op = "delete" => r.arg \in told /\ r.shard = r.arg.id[1]
    /\ \A c \in Callers : call[c].number = r.call =>
         r.op = call[c].op /\ (r.op = "delete" => r.arg = call[c].target)

(* A thread in a call has a number of its own.                             *)
NumberInv ==
  /\ \A c \in Callers : IF call[c].at = "idle" THEN call[c] = Idle ELSE call[c].number \in 1..calls
  /\ \A c, d \in Callers : call[c].number = call[d].number /\ call[c].number # 0 => c = d

(* What holds of an id with its copy, from the answer on.                  *)
Valid(t) ==
  LET s == t.id[1] IN
  /\ ShardOf[t.copy[1]] = s
  /\ t.generation <= past.generation[s]
  /\ t.generation = past.generation[s] =>
       t.id[2] < index[s].nextId /\ index[s].vectors[t.id[2]] = t.copy
  /\ t.copy \in LiveCopies \cup past.victims

(* All that is known is valid.                                             *)
KnownInv == \A t \in AllKnown : t \in Knowns /\ Valid(t)

(* A call that inserts still has a vector to insert, and has none twice.   *)
InsertInv ==
  \A c \in Callers : call[c].op = "insert" => call[c].batch # << >> /\ IsInjective(call[c].batch)

(* A call that deletes was told the id; and if its answer says that there  *)
(* was a live node, the copy is gone, unless the shard was compacted       *)
(* since.                                                                  *)
DeleteInv ==
  \A c \in Callers : call[c].op = "delete" =>
    LET t == call[c].target IN
    /\ t \in told
    /\ \A a \in call[c].heard :
         a.body # {} /\ t.generation = past.generation[t.id[1]] => t.copy \notin LiveCopies

(* What a search must find stays there, and its answers have it; what is   *)
(* there, it may find.                                                     *)
SearchInv ==
  \A c \in Callers : call[c].op = "search" =>
    /\ call[c].must \subseteq LiveCopies /\ LiveCopies \subseteq call[c].may
    /\ \A a \in call[c].heard :
         /\ \A t \in a.body : t.copy \in call[c].may
         /\ \A copy \in call[c].must : ShardOf[copy[1]] = a.shard => \E t \in a.body : t.copy = copy

(* What a compact() wants gone does not come back, and is gone from the    *)
(* shards that have answered.                                              *)
CompactInv ==
  \A c \in Callers : call[c].op = "compact" =>
    /\ call[c].dead \cap LiveCopies = {}
    /\ \A s \in Heard(c) : call[c].dead \cap DeadOf(s) = {}
    /\ call[c].at = "returned" => Heard(c) = Shards

(* A vector that is known to be deleted is not there, nor on its way.      *)
ErasedInv ==
  \A v \in past.erased \ past.retried :
    v \in past.tried /\ \A copy \in LiveCopies \cup Requested \cup Planned : copy[1] # v

(* The inductive invariant.                                                *)
StoredInv ==
  /\ Types /\ StoreInv /\ AttemptInv /\ RequestInv /\ NumberInv /\ KnownInv
  /\ InsertInv /\ DeleteInv /\ SearchInv /\ CompactInv /\ ErasedInv
-----------------------------------------------------------------------------
(* The copies in the rows of a sound index, which are live, and which are  *)
(* not.                                                                    *)
LEMMA CopiesOfSound ==
  ASSUME NEW ix, Sound(ix), Distinct(ix)
  PROVE  /\ Copies(ix, Live(ix)) = LiveVectors(ix)
         /\ Copies(ix, DOMAIN ix.nodes \ Live(ix)) = DeadVectors(ix)
         /\ LiveVectors(ix) \cap DeadVectors(ix) = {}
         /\ Findable(ix) = Live(ix)
         /\ \A i \in 0..(ix.nextId - 1) : Row(ix, i) = ix.vectors[i]
         /\ \A i \in Live(ix) : i \in 0..(ix.nextId - 1)
<1>1. DOMAIN ix.nodes = 0..(ix.nextId - 1) /\ DOMAIN ix.vectors = 0..(ix.nextId - 1)
      /\ Live(ix) \subseteq 0..(ix.nextId - 1)
  BY LiveOnes DEF Sound, Tables
<1>2. \A i \in 0..(ix.nextId - 1) : Row(ix, i) = ix.vectors[i]
  BY <1>1 DEF Row
<1>3. Copies(ix, Live(ix)) = LiveVectors(ix)
  BY <1>1, <1>2 DEF LiveVectors, Copies
<1>4. Copies(ix, DOMAIN ix.nodes \ Live(ix)) = DeadVectors(ix)
  BY <1>1, <1>2 DEF DeadVectors, Copies
<1>5. LiveVectors(ix) \cap DeadVectors(ix) = {}
  BY LiveIsNotDead
<1>6. Findable(ix) = Live(ix)
  BY FindableIsLive, StoreAssumption
<1>7. QED
  BY <1>1, <1>2, <1>3, <1>4, <1>5, <1>6

(* The same of the index of a shard.                                       *)
LEMMA CopiesAreRows ==
  ASSUME StoreInv, NEW s \in Shards
  PROVE  /\ LiveOf(s) = LiveVectors(index[s])
         /\ DeadOf(s) = DeadVectors(index[s])
         /\ LiveOf(s) \cap DeadOf(s) = {}
         /\ Findable(index[s]) = Live(index[s])
         /\ \A i \in 0..(index[s].nextId - 1) : Row(index[s], i) = index[s].vectors[i]
         /\ \A i \in Live(index[s]) : i \in 0..(index[s].nextId - 1)
BY CopiesOfSound DEF StoreInv, LiveOf, DeadOf

(* The copies that a request adds.                                         *)
Fresh(r) == IF r.op = "insert" THEN {r.arg} ELSE {}

(* What a request makes of the copies of its shard.                        *)
LEMMA ExecutedEffect ==
  ASSUME StoreInv, RequestInv, Types, Spent \cap Requested = {}, NEW r \in net
  PROVE  LET ix == index[r.shard]
             jx == Executed(r) IN
         /\ Sound(jx) /\ Distinct(jx)
         /\ LiveVectors(jx) = (LiveVectors(ix) \cup Fresh(r)) \ Victims(r)
         /\ Victims(r) \subseteq LiveVectors(ix) /\ Victims(r) \cap Fresh(r) = {}
         /\ DeadVectors(jx) = IF r.op = "compact" THEN {} ELSE DeadVectors(ix) \cup Victims(r)
         /\ r.op # "compact" => KeepsRows(ix, jx)
         /\ r.op = "insert" => ix.nextId < jx.nextId /\ jx.vectors[ix.nextId] = r.arg
<1> DEFINE ix == index[r.shard]
           jx == Executed(r)
<1> SUFFICES /\ Sound(jx) /\ Distinct(jx)
             /\ LiveVectors(jx) = (LiveVectors(ix) \cup Fresh(r)) \ Victims(r)
             /\ Victims(r) \subseteq LiveVectors(ix) /\ Victims(r) \cap Fresh(r) = {}
             /\ DeadVectors(jx) = IF r.op = "compact" THEN {} ELSE DeadVectors(ix) \cup Victims(r)
             /\ r.op # "compact" => KeepsRows(ix, jx)
             /\ r.op = "insert" => ix.nextId < jx.nextId /\ jx.vectors[ix.nextId] = r.arg
  OBVIOUS
<1>1. r.shard \in Shards /\ r.op \in {"insert", "delete", "search", "compact"}
  BY DEF Types, Requests, Ops
<1>2. Sound(ix) /\ Distinct(ix) /\ None \notin Nat /\ 0 \in Nat /\ ix.nextId \in Nat
  BY <1>1, StoreAssumption DEF StoreInv, Sound, Tables
<1>3. /\ LiveOf(r.shard) = LiveVectors(ix) /\ DeadOf(r.shard) = DeadVectors(ix)
      /\ LiveVectors(ix) \cap DeadVectors(ix) = {}
      /\ \A i \in Live(ix) : i \in 0..(ix.nextId - 1) /\ Row(ix, i) = ix.vectors[i]
  BY <1>1, CopiesAreRows
<1>4. KeepsRows(ix, ix)
  BY <1>2 DEF KeepsRows
<1>5. CASE r.op = "insert"
  <2>1. r.arg \notin LiveVectors(ix) \cup DeadVectors(ix)
    <3>1. r.arg \in Requested
      BY <1>5 DEF Requested
    <3>2. LiveOf(r.shard) \cup DeadOf(r.shard) \subseteq Spent
      BY <1>1 DEF Spent, RowCopies
    <3>3. QED
      BY <3>1, <3>2, <1>3
  <2>2. jx = Link(Reserve(ix, r.arg, 0), ix.nextId)
    BY <1>5 DEF Executed
  <2> HIDE DEF jx, ix
  <2>3. /\ Sound(jx) /\ Distinct(jx) /\ KeepsRows(ix, jx)
        /\ jx.nextId = ix.nextId + 1 /\ jx.vectors[ix.nextId] = r.arg
        /\ LiveVectors(jx) = LiveVectors(ix) \cup {r.arg}
        /\ DeadVectors(jx) = DeadVectors(ix)
    BY <1>2, <2>1, <2>2, InsertEffect
  <2>4. Victims(r) = {} /\ Fresh(r) = {r.arg}
    BY <1>5 DEF Victims, Fresh
  <2>5. QED
    BY <1>2, <1>5, <2>3, <2>4
<1>6. CASE r.op = "delete"
  <2> DEFINE id == r.arg.id[2]
  <2>1. jx = IF id \in Live(ix) THEN Tombstone(ix, id) ELSE ix
    BY <1>6 DEF Executed, DeleteOf, LocalPart
  <2>2. Victims(r) = {Row(ix, i) : i \in {id} \cap Live(ix)} /\ Fresh(r) = {}
    BY <1>6 DEF Victims, Fresh, Copies, LocalPart
  <2> HIDE DEF id, ix, jx
  <2>3. CASE id \in Live(ix)
    <3>1. jx = Tombstone(ix, id) /\ Victims(r) = {ix.vectors[id]}
      BY <2>1, <2>2, <2>3, <1>3
    <3>2. /\ Sound(jx) /\ Distinct(jx) /\ KeepsRows(ix, jx) /\ jx.nextId = ix.nextId
          /\ LiveVectors(jx) = LiveVectors(ix) \ {ix.vectors[id]}
          /\ DeadVectors(jx) = DeadVectors(ix) \cup {ix.vectors[id]}
      BY <1>2, <2>3, <3>1, DeleteEffect
    <3>3. ix.vectors[id] \in LiveVectors(ix)
      BY <2>3 DEF LiveVectors
    <3>4. QED
      BY <1>6, <2>2, <3>1, <3>2, <3>3
  <2>4. CASE id \notin Live(ix)
    <3>1. jx = ix /\ Victims(r) = {}
      BY <2>1, <2>2, <2>4
    <3>2. QED
      BY <1>2, <1>4, <1>6, <2>2, <3>1
  <2>5. QED
    BY <2>3, <2>4
<1>7. CASE r.op = "search"
  <2>1. jx = ix /\ Victims(r) = {} /\ Fresh(r) = {}
    BY <1>7 DEF Executed, Victims, Fresh
  <2> HIDE DEF jx, ix
  <2>2. QED
    BY <1>2, <1>4, <1>7, <2>1
<1>8. CASE r.op = "compact"
  <2> DEFINE levels == [k \in DOMAIN LiveRows(ix) |-> 0]
  <2>1. jx = Rebuilt(LiveRows(ix), levels)
    BY <1>8 DEF Executed
  <2>2. Victims(r) = {} /\ Fresh(r) = {}
    BY <1>8 DEF Victims, Fresh
  <2>3. \A k \in DOMAIN LiveRows(ix) : levels[k] \in Nat
    OBVIOUS
  <2> HIDE DEF jx, ix, levels
  <2>4. /\ Sound(jx) /\ Distinct(jx)
        /\ LiveVectors(jx) = LiveVectors(ix)
        /\ DeadVectors(jx) = {}
    BY <1>2, <2>1, <2>3, CompactEffect
  <2>5. QED
    BY <1>8, <2>2, <2>4
<1>9. QED
  BY <1>1, <1>5, <1>6, <1>7, <1>8

(* What executing a request makes of the copies of all the shards.         *)
LEMMA StoreStep ==
  ASSUME StoreInv, RequestInv, Types, Spent \cap Requested = {}, NEW r \in net,
         index' = [index EXCEPT ![r.shard] = Executed(r)]
  PROVE  /\ StoreInv' /\ DOMAIN index' = Shards
         /\ \A s \in Shards : /\ s # r.shard => index'[s] = index[s]
                              /\ LiveOf(s)' = IF s = r.shard
                                             THEN (LiveOf(s) \cup Fresh(r)) \ Victims(r)
                                             ELSE LiveOf(s)
                              /\ DeadOf(s)' = IF s # r.shard THEN DeadOf(s)
                                             ELSE IF r.op = "compact" THEN {}
                                             ELSE DeadOf(s) \cup Victims(r)
         /\ LiveCopies' = (LiveCopies \cup Fresh(r)) \ Victims(r)
         /\ Victims(r) \subseteq LiveOf(r.shard)
<1>1. r.shard \in Shards /\ DOMAIN index = Shards
  BY DEF Types, Requests
<1> DEFINE ix == index[r.shard]
           jx == Executed(r)
<1>2. /\ Sound(jx) /\ Distinct(jx)
      /\ LiveVectors(jx) = (LiveVectors(ix) \cup Fresh(r)) \ Victims(r)
      /\ Victims(r) \subseteq LiveVectors(ix) /\ Victims(r) \cap Fresh(r) = {}
      /\ DeadVectors(jx) = IF r.op = "compact" THEN {} ELSE DeadVectors(ix) \cup Victims(r)
  BY ExecutedEffect
<1>3. index'[r.shard] = jx /\ \A s \in Shards : s # r.shard => index'[s] = index[s]
  BY <1>1
<1> HIDE DEF jx
<1>4. LiveOf(r.shard) = LiveVectors(ix) /\ DeadOf(r.shard) = DeadVectors(ix)
  BY <1>1, CopiesAreRows
<1>5. LiveOf(r.shard)' = LiveVectors(jx) /\ DeadOf(r.shard)' = DeadVectors(jx)
  BY <1>2, <1>3, CopiesOfSound DEF LiveOf, DeadOf
<1> HIDE DEF ix
<1>6. LiveOf(r.shard)' = (LiveOf(r.shard) \cup Fresh(r)) \ Victims(r)
  BY <1>2, <1>4, <1>5
<1>7. DeadOf(r.shard)' = IF r.op = "compact" THEN {} ELSE DeadOf(r.shard) \cup Victims(r)
  BY <1>2, <1>4, <1>5
<1>8. \A s \in Shards : s # r.shard => LiveOf(s)' = LiveOf(s) /\ DeadOf(s)' = DeadOf(s)
  BY <1>3 DEF LiveOf, DeadOf
<1>9. Victims(r) \subseteq LiveOf(r.shard)
  BY <1>2, <1>4
<1>10. \A copy \in Fresh(r) : copy \in Stored /\ ShardOf[copy[1]] = r.shard
  BY DEF Fresh, RequestInv
<1>11. \A s \in Shards : \A copy \in LiveOf(s) \cup DeadOf(s) : copy \in Stored /\ ShardOf[copy[1]] = s
  BY DEF StoreInv
<1>12. \A s \in Shards : \A copy \in LiveOf(s)' \cup DeadOf(s)' : copy \in Stored /\ ShardOf[copy[1]] = s
  <2>1. \A copy \in LiveOf(r.shard)' \cup DeadOf(r.shard)' :
          copy \in LiveOf(r.shard) \cup DeadOf(r.shard) \cup Fresh(r)
    BY <1>6, <1>7, <1>9
  <2>2. QED
    BY <1>8, <1>10, <1>11, <2>1
<1>13. StoreInv'
  <2>1. \A s \in Shards : Sound(index'[s]) /\ Distinct(index'[s])
    BY <1>2, <1>3 DEF StoreInv
  <2>2. QED
    BY <1>12, <2>1 DEF StoreInv
<1>14. LiveCopies = UNION {LiveOf(s) : s \in Shards} /\ LiveCopies' = UNION {LiveOf(s)' : s \in Shards}
  BY DEF LiveCopies, LiveOf
<1>15. LiveCopies' = (LiveCopies \cup Fresh(r)) \ Victims(r)
  <2>1. \A s \in Shards : s # r.shard => LiveOf(s) \cap Victims(r) = {}
    BY <1>9, <1>11, <1>1
  <2>2. \A copy : copy \in LiveCopies' <=> \E s \in Shards : copy \in LiveOf(s)'
    BY <1>14
  <2>3. \A copy : copy \in LiveCopies <=> \E s \in Shards : copy \in LiveOf(s)
    BY <1>14
  <2>4. \A copy : copy \in LiveCopies' <=> copy \in (LiveCopies \cup Fresh(r)) \ Victims(r)
    BY <1>1, <1>6, <1>8, <2>1, <2>2, <2>3
  <2>5. QED
    BY <2>4
<1>16. QED
  BY <1>1, <1>3, <1>6, <1>7, <1>8, <1>9, <1>13, <1>15
-----------------------------------------------------------------------------
(* An answer as the caller keeps it.                                       *)
AnswerOf(r) == [shard |-> r.shard, body |-> Answer(r)]

(* The answers have the types they should.                                 *)
LEMMA AnswerType ==
  ASSUME Types, StoreInv, RequestInv, NEW r \in net
  PROVE  /\ r.op \in {"insert", "search"} => Answer(r) \subseteq Knowns
         /\ Answer(r) \subseteq Knowns \cup Stored
         /\ Victims(r) \subseteq Stored /\ Fresh(r) \subseteq Stored
         /\ AnswerOf(r) \in Answers
<1>1. r.shard \in Shards /\ r.op \in {"insert", "delete", "search", "compact"}
  BY DEF Types, Requests, Ops
<1> DEFINE ix == index[r.shard]
<1>2. Sound(ix) /\ ix.nextId \in Nat /\ past.generation[r.shard] \in Nat
  BY <1>1 DEF StoreInv, Sound, Tables, Types, Pasts
<1>3. /\ LiveOf(r.shard) = LiveVectors(ix) /\ Findable(ix) = Live(ix)
      /\ \A i \in Live(ix) : i \in 0..(ix.nextId - 1) /\ Row(ix, i) = ix.vectors[i]
  BY <1>1, CopiesAreRows
<1>4. \A i \in Live(ix) : ix.vectors[i] \in Stored
  BY <1>1, <1>3 DEF StoreInv, LiveVectors
<1>5. Fresh(r) \subseteq Stored
  BY DEF Fresh, RequestInv
<1>6. Victims(r) \subseteq Stored
  BY <1>3, <1>4 DEF Victims, Copies
<1>7. ASSUME r.op = "insert"
      PROVE  Answer(r) \subseteq Knowns
  <2>1. Answer(r) = {[id |-> <<r.shard, ix.nextId>>, copy |-> r.arg, generation |-> past.generation[r.shard]]}
    BY <1>7 DEF Answer, Known, CompositeId
  <2>2. r.arg \in Stored
    BY <1>7 DEF RequestInv
  <2>3. QED
    BY <2>1, <2>2, <1>1, <1>2 DEF Knowns
<1>8. ASSUME r.op = "search"
      PROVE  Answer(r) \subseteq Knowns
  <2>1. Answer(r) = {[id |-> <<r.shard, i>>, copy |-> Row(ix, i), generation |-> past.generation[r.shard]]
                        : i \in Live(ix)}
    BY <1>8, <1>3 DEF Answer, Found, Known, CompositeId
  <2> HIDE DEF ix
  <2>2. \A i \in Live(ix) : i \in Nat /\ Row(ix, i) \in Stored
    BY <1>2, <1>3, <1>4
  <2>3. QED
    BY <2>1, <2>2, <1>1, <1>2 DEF Knowns
<1>9. Answer(r) \subseteq Knowns \cup Stored
  BY <1>1, <1>6, <1>7, <1>8 DEF Answer
<1>10. AnswerOf(r) \in Answers
  BY <1>1, <1>9 DEF AnswerOf, Answers
<1>11. QED
  BY <1>5, <1>6, <1>7, <1>8, <1>9, <1>10

(* What executing a request makes of the calls.                            *)
LEMMA CallStep ==
  ASSUME Types, NEW r \in net, NEW lost \in BOOLEAN,
         Victims(r) \subseteq Stored, Fresh(r) \subseteq Stored, AnswerOf(r) \in Answers,
         call' = Watched(IF lost THEN call ELSE Deliver(r), r)
  PROVE  /\ call' \in [Callers -> Calls]
         /\ \A c \in Callers :
              /\ call'[c].at = call[c].at /\ call'[c].op = call[c].op
              /\ call'[c].number = call[c].number /\ call'[c].batch = call[c].batch
              /\ call'[c].got = call[c].got /\ call'[c].target = call[c].target
              /\ call'[c].failed = call[c].failed /\ call'[c].dead = call[c].dead
              /\ \/ call'[c].heard = call[c].heard
                 \/ /\ call[c].number = r.call
                    /\ call'[c].heard = call[c].heard \cup {AnswerOf(r)}
              /\ IF call[c].op = "search"
                 THEN /\ call'[c].must = call[c].must \ Victims(r)
                      /\ call'[c].may = call[c].may \cup Fresh(r)
                 ELSE call'[c].must = call[c].must /\ call'[c].may = call[c].may
              /\ call[c].number # r.call /\ call[c].op # "search" => call'[c] = call[c]
<1> DEFINE calling == IF lost THEN call ELSE Deliver(r)
           With(k) == [k EXCEPT !.heard = @ \cup {AnswerOf(r)}]
           Seen(k) == [k EXCEPT !.must = @ \ Victims(r), !.may = @ \cup Fresh(r)]
<1>1. \A c \in Callers : call[c] \in Calls
  BY DEF Types
<1>2. \A k \in Calls :
        /\ With(k) \in Calls
        /\ With(k).at = k.at /\ With(k).op = k.op /\ With(k).number = k.number
        /\ With(k).batch = k.batch /\ With(k).got = k.got /\ With(k).target = k.target
        /\ With(k).failed = k.failed /\ With(k).dead = k.dead
        /\ With(k).must = k.must /\ With(k).may = k.may
        /\ With(k).heard = k.heard \cup {AnswerOf(r)}
  BY DEF Calls
<1>3. \A k \in Calls :
        /\ Seen(k) \in Calls
        /\ Seen(k).at = k.at /\ Seen(k).op = k.op /\ Seen(k).number = k.number
        /\ Seen(k).batch = k.batch /\ Seen(k).got = k.got /\ Seen(k).target = k.target
        /\ Seen(k).failed = k.failed /\ Seen(k).dead = k.dead
        /\ Seen(k).must = k.must \ Victims(r) /\ Seen(k).may = k.may \cup Fresh(r)
        /\ Seen(k).heard = k.heard
  BY DEF Calls
<1>4. \A c \in Callers :
        \/ calling[c] = call[c]
        \/ call[c].number = r.call /\ calling[c] = With(call[c])
  BY DEF Deliver, AnswerOf
<1>5. call' = [c \in Callers |-> IF calling[c].op # "search" THEN calling[c] ELSE Seen(calling[c])]
  BY DEF Watched, Fresh
<1> HIDE DEF calling, With, Seen
<1>6. \A c \in Callers : calling[c] \in Calls /\ calling[c].op = call[c].op
  BY <1>1, <1>2, <1>4
<1>7. \A c \in Callers :
        call'[c] = IF call[c].op # "search" THEN calling[c] ELSE Seen(calling[c])
  BY <1>5, <1>6
<1>8. call' \in [Callers -> Calls]
  BY <1>3, <1>5, <1>6
<1>9. ASSUME NEW c \in Callers
      PROVE  /\ call'[c].at = call[c].at /\ call'[c].op = call[c].op
             /\ call'[c].number = call[c].number /\ call'[c].batch = call[c].batch
             /\ call'[c].got = call[c].got /\ call'[c].target = call[c].target
             /\ call'[c].failed = call[c].failed /\ call'[c].dead = call[c].dead
             /\ \/ call'[c].heard = call[c].heard
                \/ /\ call[c].number = r.call
                   /\ call'[c].heard = call[c].heard \cup {AnswerOf(r)}
             /\ IF call[c].op = "search"
                THEN /\ call'[c].must = call[c].must \ Victims(r)
                     /\ call'[c].may = call[c].may \cup Fresh(r)
                ELSE call'[c].must = call[c].must /\ call'[c].may = call[c].may
             /\ call[c].number # r.call /\ call[c].op # "search" => call'[c] = call[c]
  <2>1. CASE call[c].op # "search"
    BY <1>1, <1>2, <1>4, <1>7, <2>1
  <2>2. CASE call[c].op = "search"
    BY <1>1, <1>2, <1>3, <1>4, <1>6, <1>7, <2>2
  <2>3. QED
    BY <2>1, <2>2
<1>10. QED
  BY <1>8, <1>9

(* What executing a request changes.                                       *)
IndexEffect(r) ==
  /\ \A s \in Shards : /\ s # r.shard => index'[s] = index[s]
                       /\ LiveOf(s)' = IF s = r.shard
                                      THEN (LiveOf(s) \cup Fresh(r)) \ Victims(r)
                                      ELSE LiveOf(s)
                       /\ DeadOf(s)' = IF s # r.shard THEN DeadOf(s)
                                      ELSE IF r.op = "compact" THEN {}
                                      ELSE DeadOf(s) \cup Victims(r)
  /\ LiveCopies' = (LiveCopies \cup Fresh(r)) \ Victims(r)
  /\ Victims(r) \subseteq LiveOf(r.shard)
  /\ r.op # "compact" => KeepsRows(index[r.shard], index'[r.shard])
  /\ r.op = "insert" => LET n == index[r.shard].nextId IN
                        n < index'[r.shard].nextId /\ index'[r.shard].vectors[n] = r.arg

(* The calls: one may hear the answer, and those that search are watched.  *)
CallEffect(r) ==
  \A c \in Callers :
    /\ call'[c].at = call[c].at /\ call'[c].op = call[c].op
    /\ call'[c].number = call[c].number /\ call'[c].batch = call[c].batch
    /\ call'[c].got = call[c].got /\ call'[c].target = call[c].target
    /\ call'[c].failed = call[c].failed /\ call'[c].dead = call[c].dead
    /\ \/ call'[c].heard = call[c].heard
       \/ /\ call[c].number = r.call
          /\ call'[c].heard = call[c].heard \cup {AnswerOf(r)}
    /\ IF call[c].op = "search"
       THEN /\ call'[c].must = call[c].must \ Victims(r)
            /\ call'[c].may = call[c].may \cup Fresh(r)
       ELSE call'[c].must = call[c].must /\ call'[c].may = call[c].may
    /\ call[c].number # r.call /\ call[c].op # "search" => call'[c] = call[c]

(* What is remembered: the victims, and the compactions of the shard.      *)
PastEffect(r) ==
  /\ past'.tried = past.tried /\ past'.retried = past.retried /\ past'.erased = past.erased
  /\ past'.victims = past.victims \cup Victims(r)
  /\ \A s \in Shards : past'.generation[s] = IF s = r.shard /\ r.op = "compact"
                                            THEN past.generation[s] + 1 ELSE past.generation[s]

(* All of it.                                                              *)
Effect(r) == /\ net' = net \ {r} /\ calls' = calls /\ told' = told
             /\ Types' /\ StoreInv'
             /\ IndexEffect(r) /\ CallEffect(r) /\ PastEffect(r)

(* An Execute step has the effect of some request.                         *)
LEMMA ExecuteEffect ==
  ASSUME StoredInv, Execute
  PROVE  \E r \in net : Effect(r)
<1>1. PICK r \in net, lost \in BOOLEAN :
        /\ net' = net \ {r}
        /\ index' = [index EXCEPT ![r.shard] = Executed(r)]
        /\ call' = Watched(IF lost THEN call ELSE Deliver(r), r)
        /\ past' = [past EXCEPT !.victims = @ \cup Victims(r),
                                !.generation[r.shard] = IF r.op = "compact" THEN @ + 1 ELSE @]
        /\ UNCHANGED <<calls, told>>
  BY DEF Execute
<1>2. /\ StoreInv /\ RequestInv /\ Types /\ Spent \cap Requested = {}
      /\ r.shard \in Shards
  BY DEF StoredInv, AttemptInv, Types, Requests
<1>3. /\ Victims(r) \subseteq Stored /\ Fresh(r) \subseteq Stored /\ AnswerOf(r) \in Answers
  BY <1>2, AnswerType
<1>4. StoreInv' /\ DOMAIN index' = Shards
  BY <1>1, <1>2, StoreStep
<1>5. IndexEffect(r)
  <2>1. index'[r.shard] = Executed(r)
    BY <1>1, <1>2 DEF Types
  <2>2. /\ r.op # "compact" => KeepsRows(index[r.shard], Executed(r))
        /\ r.op = "insert" => /\ index[r.shard].nextId < Executed(r).nextId
                              /\ Executed(r).vectors[index[r.shard].nextId] = r.arg
    BY <1>2, ExecutedEffect
  <2>3. /\ r.op # "compact" => KeepsRows(index[r.shard], index'[r.shard])
        /\ r.op = "insert" => LET n == index[r.shard].nextId IN
                              n < index'[r.shard].nextId /\ index'[r.shard].vectors[n] = r.arg
    BY <2>1, <2>2
  <2>4. /\ \A s \in Shards : /\ s # r.shard => index'[s] = index[s]
                             /\ LiveOf(s)' = IF s = r.shard
                                            THEN (LiveOf(s) \cup Fresh(r)) \ Victims(r)
                                            ELSE LiveOf(s)
                             /\ DeadOf(s)' = IF s # r.shard THEN DeadOf(s)
                                            ELSE IF r.op = "compact" THEN {}
                                            ELSE DeadOf(s) \cup Victims(r)
        /\ LiveCopies' = (LiveCopies \cup Fresh(r)) \ Victims(r)
        /\ Victims(r) \subseteq LiveOf(r.shard)
    BY <1>1, <1>2, StoreStep
  <2>5. QED
    BY <2>3, <2>4 DEF IndexEffect
<1>6. call' \in [Callers -> Calls] /\ CallEffect(r)
  BY <1>1, <1>2, <1>3, CallStep DEF CallEffect
<1>7. past' \in Pasts /\ PastEffect(r)
  <2>1. past \in Pasts
    BY <1>2 DEF Types
  <2> DEFINE generation == [past.generation EXCEPT
                              ![r.shard] = IF r.op = "compact" THEN @ + 1 ELSE @]
  <2>2. generation \in [Shards -> Nat]
    BY <1>2, <2>1 DEF Pasts
  <2>3. \A s \in Shards : generation[s] = IF s = r.shard /\ r.op = "compact"
                                          THEN past.generation[s] + 1 ELSE past.generation[s]
    BY <1>2, <2>1 DEF Pasts
  <2>4. past' = [past EXCEPT !.victims = @ \cup Victims(r), !.generation = generation]
    BY <1>1, <2>1 DEF Pasts
  <2> HIDE DEF generation
  <2>5. /\ past' \in Pasts /\ past'.generation = generation
        /\ past'.tried = past.tried /\ past'.retried = past.retried /\ past'.erased = past.erased
        /\ past'.victims = past.victims \cup Victims(r)
    BY <2>1, <2>2, <2>4, <1>3 DEF Pasts
  <2>6. QED
    BY <2>3, <2>5 DEF PastEffect
<1>8. Types'
  BY <1>1, <1>2, <1>4, <1>6, <1>7 DEF Types
<1>9. QED
  BY <1>1, <1>4, <1>5, <1>6, <1>7, <1>8 DEF Effect

(* Nobody knows more than before, but for what an insert or a search       *)
(* answers.                                                                *)
LEMMA KnownEffect ==
  ASSUME StoredInv, NEW r \in net, Effect(r)
  PROVE  /\ \A t \in AllKnown' : \/ t \in AllKnown
                                 \/ r.op \in {"insert", "search"} /\ t \in Answer(r)
         /\ AllKnown \subseteq AllKnown'
<1>1. told' = told /\ CallEffect(r) /\ call \in [Callers -> Calls] /\ call' \in [Callers -> Calls]
  BY DEF Effect, StoredInv, Types
<1>2. \A c \in Callers : call[c].number = r.call => r.op = call[c].op
  BY DEF StoredInv, RequestInv
<1>3. ASSUME NEW c \in Callers
      PROVE  /\ \A t \in Learned(call'[c]) : \/ t \in Learned(call[c])
                                             \/ r.op \in {"insert", "search"} /\ t \in Answer(r)
             /\ Learned(call[c]) \subseteq Learned(call'[c])
  <2>1. /\ call'[c].got = call[c].got /\ call'[c].op = call[c].op
        /\ \/ call'[c].heard = call[c].heard
           \/ call[c].number = r.call /\ call'[c].heard = call[c].heard \cup {AnswerOf(r)}
    BY <1>1 DEF CallEffect
  <2>2. AnswerOf(r).body = Answer(r)
    BY DEF AnswerOf
  <2>3. QED
    BY <1>2, <2>1, <2>2 DEF Learned
<1>4. AllKnown' = told \cup UNION {Learned(call'[c]) : c \in Callers}
  BY <1>1 DEF AllKnown, Learned
<1>5. AllKnown = told \cup UNION {Learned(call[c]) : c \in Callers}
  BY DEF AllKnown
<1>6. QED
  BY <1>3, <1>4, <1>5

(* What an insert or a search answers is valid.                            *)
LEMMA AnswerIsValid ==
  ASSUME StoredInv, NEW r \in net, Effect(r), r.op \in {"insert", "search"}, NEW t \in Answer(r)
  PROVE  /\ t \in Knowns /\ Valid(t)'
         /\ t.copy \in LiveOf(r.shard) \cup Fresh(r) /\ t.copy \in LiveCopies'
<1>1. r.shard \in Shards /\ StoreInv /\ StoreInv' /\ RequestInv /\ Types
  BY DEF StoredInv, Types, Requests, Effect
<1> DEFINE s  == r.shard
           ix == index[s]
           jx == index'[s]
<1>2. /\ IndexEffect(r) /\ PastEffect(r) /\ past'.generation[s] = past.generation[s]
      /\ past.generation[s] \in Nat
  BY <1>1 DEF Effect, PastEffect, Types, Pasts
<1>3. t \in Knowns
  BY <1>1, AnswerType
<1>4. /\ LiveOf(s) = LiveVectors(ix) /\ Findable(ix) = Live(ix)
      /\ \A i \in Live(ix) : i \in 0..(ix.nextId - 1) /\ Row(ix, i) = ix.vectors[i]
  BY <1>1, CopiesAreRows
<1>5. ix.nextId \in Nat /\ jx.nextId \in Nat
  BY <1>1 DEF StoreInv, Sound, Tables
<1>6. KeepsRows(ix, jx)
  BY <1>2 DEF IndexEffect
<1>7. /\ t.id[1] = s /\ t.generation = past.generation[s]
      /\ t.id[2] < jx.nextId /\ jx.vectors[t.id[2]] = t.copy
      /\ t.copy \in LiveOf(s) \cup Fresh(r)
  <2>1. CASE r.op = "insert"
    <3>1. t = [id |-> <<s, ix.nextId>>, copy |-> r.arg, generation |-> past.generation[s]]
      BY <2>1 DEF Answer, Known, CompositeId
    <3>2. ix.nextId < jx.nextId /\ jx.vectors[ix.nextId] = r.arg
      BY <1>2, <2>1 DEF IndexEffect
    <3>3. Fresh(r) = {r.arg}
      BY <2>1 DEF Fresh
    <3> HIDE DEF ix, jx
    <3>4. QED
      BY <3>1, <3>2, <3>3
  <2>2. CASE r.op = "search"
    <3>1. PICK i \in Live(ix) : t = [id |-> <<s, i>>, copy |-> Row(ix, i), generation |-> past.generation[s]]
      BY <2>2, <1>4 DEF Answer, Found, Known, CompositeId
    <3>2. t.copy \in LiveOf(s)
      BY <3>1, <1>4 DEF LiveVectors
    <3> HIDE DEF ix, jx
    <3>3. i < jx.nextId /\ jx.vectors[i] = Row(ix, i)
      BY <1>4, <1>5, <1>6 DEF KeepsRows
    <3>4. QED
      BY <3>1, <3>2, <3>3
  <2>3. QED
    BY <2>1, <2>2
<1>8. ShardOf[t.copy[1]] = s
  BY <1>1, <1>7 DEF StoreInv, Fresh, RequestInv
<1>9. Victims(r) = {}
  BY DEF Victims
<1>10. t.copy \in LiveCopies'
  <2>1. LiveOf(s) \subseteq LiveCopies
    BY <1>1 DEF LiveCopies, LiveOf
  <2>2. LiveCopies' = (LiveCopies \cup Fresh(r)) \ Victims(r)
    BY <1>2 DEF IndexEffect
  <2>3. QED
    BY <1>7, <1>9, <2>1, <2>2
<1> HIDE DEF ix, jx
<1>11. Valid(t)'
  <2>1. /\ ShardOf[t.copy[1]] = t.id[1] /\ t.generation <= past'.generation[t.id[1]]
        /\ t.id[2] < index'[t.id[1]].nextId /\ index'[t.id[1]].vectors[t.id[2]] = t.copy
        /\ t.copy \in LiveCopies' \cup past'.victims
    BY <1>2, <1>7, <1>8, <1>10 DEF jx
  <2>2. QED
    BY <2>1 DEF Valid
<1>12. QED
  BY <1>3, <1>7, <1>10, <1>11

(* What was known stays valid: rows stay where they are, or the            *)
(* generation goes up; and what a delete hits is a victim.                 *)
LEMMA ExecuteKeepsKnown ==
  ASSUME StoredInv, NEW r \in net, Effect(r)
  PROVE  KnownInv'
<1>1. r.shard \in Shards /\ StoreInv /\ KnownInv /\ Types
      /\ IndexEffect(r) /\ PastEffect(r)
  BY DEF StoredInv, Types, Requests, Effect
<1>2. ASSUME NEW t \in AllKnown
      PROVE  t \in Knowns /\ Valid(t)'
  <2> DEFINE s == t.id[1]
  <2>1. t \in Knowns /\ Valid(t) /\ s \in Shards /\ t.generation \in Nat /\ t.id[2] \in Nat
    BY <1>1 DEF KnownInv, Knowns
  <2>2. past.generation[s] \in Nat
    BY <1>1, <2>1 DEF Types, Pasts
  <2>3. /\ past.generation[s] <= past'.generation[s]
        /\ r.op = "compact" /\ s = r.shard => past.generation[s] < past'.generation[s]
    BY <1>1, <2>1, <2>2 DEF PastEffect
  <2>4. /\ ShardOf[t.copy[1]] = s
        /\ t.generation <= past.generation[s]
        /\ t.generation = past.generation[s] =>
             t.id[2] < index[s].nextId /\ index[s].vectors[t.id[2]] = t.copy
        /\ t.copy \in LiveCopies \cup past.victims
    BY <2>1 DEF Valid
  <2>5. t.copy \in LiveCopies' \cup past'.victims
    BY <1>1, <2>4 DEF IndexEffect, PastEffect
  <2>6. t.generation <= past'.generation[s]
    BY <2>1, <2>2, <2>3, <2>4, <1>1 DEF PastEffect
  <2>7. ASSUME t.generation = past'.generation[s]
        PROVE  t.id[2] < index'[s].nextId /\ index'[s].vectors[t.id[2]] = t.copy
    <3>1. ~ (r.op = "compact" /\ s = r.shard)
      BY <2>1, <2>2, <2>3, <2>4, <2>7
    <3>2. past'.generation[s] = past.generation[s]
      BY <1>1, <2>1, <3>1 DEF PastEffect
    <3>3. t.id[2] < index[s].nextId /\ index[s].vectors[t.id[2]] = t.copy
      BY <2>4, <2>7, <3>2
    <3>4. CASE s # r.shard
      BY <1>1, <2>1, <3>3, <3>4 DEF IndexEffect
    <3>5. CASE s = r.shard
      <4>1. KeepsRows(index[s], index'[s])
        BY <1>1, <3>1, <3>5 DEF IndexEffect
      <4>2. index[s].nextId \in Nat /\ index'[s].nextId \in Nat
        <5>1. StoreInv'
          BY DEF Effect
        <5>2. QED
          BY <1>1, <5>1, <3>5 DEF StoreInv, Sound, Tables
      <4>3. QED
        BY <2>1, <3>3, <4>1, <4>2 DEF KeepsRows
    <3>6. QED
      BY <3>4, <3>5
  <2>8. QED
    BY <2>1, <2>4, <2>5, <2>6, <2>7 DEF Valid
<1>3. ASSUME NEW t \in AllKnown'
      PROVE  t \in Knowns /\ Valid(t)'
  BY <1>2, <1>3, KnownEffect, AnswerIsValid
<1>4. QED
  BY <1>3 DEF KnownInv

(* The copy that is inserted moves from the requested ones to the spent    *)
(* ones, and no other copy moves.                                          *)
LEMMA ExecuteAttempts ==
  ASSUME StoredInv, NEW r \in net, Effect(r)
  PROVE  /\ Spent' \subseteq Spent \cup Fresh(r)
         /\ Requested' \subseteq Requested /\ Requested' \cap Fresh(r) = {}
         /\ Fresh(r) \subseteq Requested
         /\ Planned' = Planned
<1>1. /\ IndexEffect(r) /\ CallEffect(r) /\ net' = net \ {r} /\ RequestInv /\ StoreInv
      /\ r.shard \in Shards /\ net \subseteq Requests
  BY DEF StoredInv, Types, Requests, Effect
<1>2. Spent' \subseteq Spent \cup Fresh(r)
  <2>1. \A s \in Shards : LiveOf(s)' \cup DeadOf(s)' \subseteq LiveOf(s) \cup DeadOf(s) \cup Fresh(r)
    BY <1>1 DEF IndexEffect
  <2>2. \A t \in AllKnown' : t \in AllKnown \/ t.copy \in LiveOf(r.shard) \cup Fresh(r)
    BY KnownEffect, AnswerIsValid
  <2>3. \A c \in Callers : call'[c].dead = call[c].dead
    BY <1>1 DEF CallEffect
  <2>4. RowCopies' \subseteq RowCopies \cup Fresh(r)
    BY <2>1 DEF RowCopies
  <2>5. KnownCopies' \subseteq KnownCopies \cup RowCopies \cup Fresh(r)
    <3>1. LiveOf(r.shard) \subseteq RowCopies
      BY <1>1 DEF RowCopies
    <3>2. QED
      BY <2>2, <3>1 DEF KnownCopies
  <2>6. SeenDead' = SeenDead
    BY <2>3 DEF SeenDead
  <2>7. QED
    BY <2>4, <2>5, <2>6 DEF Spent
<1>3. Requested' \subseteq Requested /\ Fresh(r) \subseteq Requested
  BY <1>1 DEF Requested, Fresh
<1>4. Requested' \cap Fresh(r) = {}
  <2>1. ASSUME r.op = "insert", NEW q \in net', q.op = "insert", q.arg = r.arg
        PROVE  FALSE
    <3>1. q \in net /\ q # r /\ q \in Requests /\ r \in Requests
      BY <1>1
    <3>2. q.call = r.call /\ q.shard = r.shard
      BY <1>1, <2>1, <3>1 DEF RequestInv
    <3>3. QED
      BY <2>1, <3>1, <3>2 DEF Requests
  <2>2. QED
    BY <2>1 DEF Requested, Fresh
<1>5. Planned' = Planned
  <2>1. \A c \in Callers : call'[c].batch = call[c].batch /\ call'[c].number = call[c].number
    BY <1>1 DEF CallEffect
  <2>2. \A c \in Callers : PlannedBy(c)' = PlannedBy(c)
    BY <2>1 DEF PlannedBy
  <2>3. QED
    BY <2>2 DEF Planned
<1>6. QED
  BY <1>2, <1>3, <1>4, <1>5

(* So each stays in one stage.                                             *)
LEMMA ExecuteKeepsAttempts ==
  ASSUME StoredInv, NEW r \in net, Effect(r)
  PROVE  AttemptInv'
<1>1. /\ Spent' \subseteq Spent \cup Fresh(r)
      /\ Requested' \subseteq Requested /\ Requested' \cap Fresh(r) = {}
      /\ Fresh(r) \subseteq Requested
      /\ Planned' = Planned
  BY ExecuteAttempts
<1>2. AttemptInv /\ calls' = calls /\ past'.tried = past.tried /\ past'.retried = past.retried
  BY DEF StoredInv, Effect, PastEffect
<1>3. Attempts' = Spent' \cup Requested' \cup Planned' /\ Attempts = Spent \cup Requested \cup Planned
  BY DEF Attempts
<1>4. Attempts' \subseteq Attempts
  BY <1>1, <1>3
<1>5. Spent' \cap Requested' = {} /\ Spent' \cap Planned' = {} /\ Requested' \cap Planned' = {}
  BY <1>1, <1>2 DEF AttemptInv
<1>6. QED
  BY <1>2, <1>4, <1>5 DEF AttemptInv

(* The requests that are left belong to their calls as before.             *)
LEMMA ExecuteKeepsRequests ==
  ASSUME StoredInv, NEW r \in net, Effect(r)
  PROVE  RequestInv' /\ NumberInv' /\ InsertInv'
<1>1. /\ CallEffect(r) /\ net' = net \ {r} /\ calls' = calls /\ told' = told
      /\ RequestInv /\ NumberInv /\ InsertInv /\ Types /\ Types'
      /\ r.call \in 1..calls
  BY DEF StoredInv, Effect, RequestInv
<1>2. \A c \in Callers : /\ call'[c].op = call[c].op /\ call'[c].number = call[c].number
                         /\ call'[c].target = call[c].target /\ call'[c].batch = call[c].batch
                         /\ call'[c].at = call[c].at
  BY <1>1 DEF CallEffect
<1>3. RequestInv'
  BY <1>1, <1>2 DEF RequestInv
<1>4. ASSUME NEW c \in Callers, call[c].at = "idle"
      PROVE  call'[c] = Idle
  <2>1. call[c] = Idle
    BY <1>1, <1>4 DEF NumberInv
  <2>2. call[c].number # r.call /\ call[c].op # "search"
    BY <1>1, <2>1 DEF Idle
  <2>3. QED
    BY <1>1, <2>1, <2>2 DEF CallEffect
<1>5. NumberInv'
  BY <1>1, <1>2, <1>4 DEF NumberInv
<1>6. InsertInv'
  BY <1>1, <1>2 DEF InsertInv
<1>7. QED
  BY <1>3, <1>5, <1>6

(* The answer of a delete is right, and stays right: no step brings a      *)
(* spent copy back.                                                        *)
LEMMA ExecuteKeepsDelete ==
  ASSUME StoredInv, NEW r \in net, Effect(r)
  PROVE  DeleteInv'
<1>1. /\ CallEffect(r) /\ IndexEffect(r) /\ PastEffect(r) /\ told' = told
      /\ DeleteInv /\ Types /\ KnownInv /\ StoreInv /\ RequestInv
      /\ r.shard \in Shards
  BY DEF StoredInv, Effect, Types, Requests
<1> SUFFICES ASSUME NEW c \in Callers, call'[c].op = "delete"
             PROVE  LET t == call'[c].target IN
                    /\ t \in told'
                    /\ \A a \in call'[c].heard :
                         a.body # {} /\ t.generation = past'.generation[t.id[1]]
                           => t.copy \notin LiveCopies'
  BY DEF DeleteInv
<1> DEFINE t == call[c].target
           s == t.id[1]
<1>2. call[c].op = "delete" /\ call'[c].target = t /\ t \in told
  BY <1>1 DEF CallEffect, DeleteInv
<1>3. t \in AllKnown
  BY <1>2 DEF AllKnown
<1>4. Valid(t) /\ t \in Knowns /\ s \in Shards
  BY <1>1, <1>3 DEF KnownInv, Knowns
<1> HIDE DEF t
<1>5. t.copy \notin Fresh(r)
  <2>1. t.copy \in Spent
    BY <1>3 DEF Spent, KnownCopies
  <2>2. Fresh(r) \subseteq Requested /\ Spent \cap Requested = {}
    BY ExecuteAttempts DEF StoredInv, AttemptInv
  <2>3. QED
    BY <2>1, <2>2
<1>6. ASSUME t.generation = past'.generation[s]
      PROVE  t.generation = past.generation[s]
  <2>1. t.generation \in Nat /\ past.generation[s] \in Nat /\ t.generation <= past.generation[s]
    BY <1>1, <1>4 DEF Valid, Types, Pasts, Knowns
  <2>2. QED
    BY <1>1, <1>4, <1>6, <2>1 DEF PastEffect
<1>7. ASSUME NEW a \in call'[c].heard, a.body # {}, t.generation = past'.generation[s]
      PROVE  t.copy \notin LiveCopies'
  <2>1. LiveCopies' = (LiveCopies \cup Fresh(r)) \ Victims(r)
    BY <1>1 DEF IndexEffect
  <2>2. t.generation = past.generation[s]
    BY <1>6, <1>7
  <2>3. CASE a \in call[c].heard
    <3>1. t.copy \notin LiveCopies
      BY <1>1, <1>2, <1>7, <2>2, <2>3 DEF DeleteInv, t
    <3>2. QED
      BY <1>5, <2>1, <3>1
  <2>4. CASE a \notin call[c].heard
    <3>1. call[c].number = r.call /\ a = AnswerOf(r)
      BY <1>1, <1>7, <2>4 DEF CallEffect
    <3>2. r.op = "delete" /\ r.arg = t /\ r.shard = s
      BY <1>1, <1>2, <3>1 DEF RequestInv, t
    <3>3. Victims(r) # {}
      BY <1>7, <3>1, <3>2 DEF AnswerOf, Answer
    <3>4. Victims(r) = {Row(index[s], i) : i \in {t.id[2]} \cap Live(index[s])}
      BY <3>2 DEF Victims, Copies, LocalPart
    <3>5. Victims(r) = {Row(index[s], t.id[2])}
      BY <3>3, <3>4
    <3>6. t.id[2] < index[s].nextId /\ index[s].vectors[t.id[2]] = t.copy /\ t.id[2] \in Nat
          /\ index[s].nextId \in Nat
      BY <1>1, <1>4, <2>2 DEF Valid, Knowns, StoreInv, Sound, Tables
    <3>7. Row(index[s], t.id[2]) = t.copy
      BY <1>1, <1>4, <3>6, CopiesAreRows
    <3>8. QED
      BY <2>1, <3>5, <3>7
  <2>5. QED
    BY <2>3, <2>4
<1>8. QED
  BY <1>1, <1>2, <1>7

(* The live copies, by shards.                                             *)
LEMMA LiveCopiesAre ==
  ASSUME StoreInv
  PROVE  /\ \A copy \in LiveCopies : copy \in LiveOf(ShardOf[copy[1]]) /\ ShardOf[copy[1]] \in Shards
         /\ \A s \in Shards : LiveOf(s) \subseteq LiveCopies
<1>1. LiveCopies = UNION {LiveOf(s) : s \in Shards}
  BY DEF LiveCopies, LiveOf
<1>2. \A s \in Shards : \A copy \in LiveOf(s) : ShardOf[copy[1]] = s
  BY DEF StoreInv
<1>3. QED
  BY <1>1, <1>2

(* An answer of a search has what was live on its shard at that time: all  *)
(* that it must find there, and nothing it may not.                        *)
LEMMA ExecuteKeepsSearch ==
  ASSUME StoredInv, NEW r \in net, Effect(r)
  PROVE  SearchInv'
<1>1. /\ CallEffect(r) /\ IndexEffect(r)
      /\ SearchInv /\ Types /\ StoreInv /\ RequestInv
      /\ r.shard \in Shards
  BY DEF StoredInv, Effect, Types, Requests
<1>2. LiveCopies' = (LiveCopies \cup Fresh(r)) \ Victims(r)
  BY <1>1 DEF IndexEffect
<1> SUFFICES ASSUME NEW c \in Callers, call'[c].op = "search"
             PROVE  /\ call'[c].must \subseteq LiveCopies' /\ LiveCopies' \subseteq call'[c].may
                    /\ \A a \in call'[c].heard :
                         /\ \A t \in a.body : t.copy \in call'[c].may
                         /\ \A copy \in call'[c].must :
                              ShardOf[copy[1]] = a.shard => \E t \in a.body : t.copy = copy
  BY DEF SearchInv
<1>3. /\ call[c].op = "search"
      /\ call'[c].must = call[c].must \ Victims(r) /\ call'[c].may = call[c].may \cup Fresh(r)
      /\ \/ call'[c].heard = call[c].heard
         \/ call[c].number = r.call /\ call'[c].heard = call[c].heard \cup {AnswerOf(r)}
  BY <1>1 DEF CallEffect
<1>4. /\ call[c].must \subseteq LiveCopies /\ LiveCopies \subseteq call[c].may
      /\ \A a \in call[c].heard :
           /\ \A t \in a.body : t.copy \in call[c].may
           /\ \A copy \in call[c].must : ShardOf[copy[1]] = a.shard => \E t \in a.body : t.copy = copy
  BY <1>1, <1>3 DEF SearchInv
<1>5. ASSUME NEW a \in call'[c].heard, a \notin call[c].heard
      PROVE  /\ \A t \in a.body : t.copy \in call[c].may
             /\ \A copy \in call[c].must :
                  ShardOf[copy[1]] = a.shard => \E t \in a.body : t.copy = copy
  <2> DEFINE ix == index[r.shard]
  <2>1. a = AnswerOf(r) /\ r.op = "search"
    BY <1>1, <1>3, <1>5 DEF RequestInv
  <2>2. /\ LiveOf(r.shard) = LiveVectors(ix) /\ Findable(ix) = Live(ix)
        /\ \A i \in Live(ix) : Row(ix, i) = ix.vectors[i]
    BY <1>1, CopiesAreRows
  <2> HIDE DEF ix
  <2>3. a.shard = r.shard /\ a.body = {Known(r.shard, i, Row(ix, i)) : i \in Live(ix)}
    BY <2>1, <2>2 DEF AnswerOf, Answer, Found, ix
  <2>4. \A i \in Live(ix) : Known(r.shard, i, Row(ix, i)).copy = ix.vectors[i]
    BY <2>2 DEF Known
  <2>5. \A t \in a.body : t.copy \in LiveOf(r.shard)
    BY <2>2, <2>3, <2>4 DEF LiveVectors
  <2>6. \A copy \in LiveOf(r.shard) : \E t \in a.body : t.copy = copy
    BY <2>2, <2>3, <2>4 DEF LiveVectors
  <2>7. QED
    BY <1>1, <1>4, <2>3, <2>5, <2>6, LiveCopiesAre
<1>6. \A a \in call'[c].heard :
        /\ \A t \in a.body : t.copy \in call[c].may
        /\ \A copy \in call[c].must : ShardOf[copy[1]] = a.shard => \E t \in a.body : t.copy = copy
  BY <1>4, <1>5
<1>7. QED
  BY <1>2, <1>3, <1>4, <1>6

(* A compaction leaves no deleted copy on its shard, and what is inserted  *)
(* later is another copy.                                                  *)
LEMMA ExecuteKeepsCompact ==
  ASSUME StoredInv, NEW r \in net, Effect(r)
  PROVE  CompactInv'
<1>1. /\ CallEffect(r) /\ IndexEffect(r) /\ CompactInv /\ Types /\ Types' /\ StoreInv /\ RequestInv
      /\ r.shard \in Shards
  BY DEF StoredInv, Effect, Types, Requests
<1>2. LiveCopies' = (LiveCopies \cup Fresh(r)) \ Victims(r) /\ Victims(r) \subseteq LiveCopies
  BY <1>1, LiveCopiesAre DEF IndexEffect
<1> SUFFICES ASSUME NEW c \in Callers, call'[c].op = "compact"
             PROVE  /\ call'[c].dead \cap LiveCopies' = {}
                    /\ \A s \in Heard(c)' : call'[c].dead \cap DeadOf(s)' = {}
                    /\ call'[c].at = "returned" => Heard(c)' = Shards
  BY DEF CompactInv
<1>3. /\ call[c].op = "compact" /\ call'[c].dead = call[c].dead /\ call'[c].at = call[c].at
      /\ \/ call'[c].heard = call[c].heard
         \/ call[c].number = r.call /\ call'[c].heard = call[c].heard \cup {AnswerOf(r)}
  BY <1>1 DEF CallEffect
<1>4. /\ call[c].dead \cap LiveCopies = {}
      /\ \A s \in Heard(c) : call[c].dead \cap DeadOf(s) = {}
      /\ call[c].at = "returned" => Heard(c) = Shards
  BY <1>1, <1>3 DEF CompactInv
<1>5. call[c].dead \cap Fresh(r) = {}
  <2>1. call[c].dead \subseteq Spent
    BY DEF Spent, SeenDead
  <2>2. Fresh(r) \subseteq Requested /\ Spent \cap Requested = {}
    BY ExecuteAttempts DEF StoredInv, AttemptInv
  <2>3. QED
    BY <2>1, <2>2
<1>6. Heard(c) = {a.shard : a \in call[c].heard} /\ Heard(c)' = {a.shard : a \in call'[c].heard}
  BY DEF Heard
<1>7. \/ Heard(c)' = Heard(c)
      \/ Heard(c)' = Heard(c) \cup {r.shard} /\ r.op = "compact"
  BY <1>1, <1>3, <1>6 DEF AnswerOf, RequestInv
<1>8. Heard(c) \subseteq Shards
  BY <1>1, <1>6 DEF Types, Calls, Answers
<1>9. \A s \in Heard(c)' : call[c].dead \cap DeadOf(s)' = {}
  BY <1>1, <1>2, <1>4, <1>7, <1>8 DEF IndexEffect
<1>10. QED
  BY <1>1, <1>2, <1>3, <1>4, <1>5, <1>7, <1>8, <1>9

(* A live copy is new only if it was on its way.                           *)
LEMMA ExecuteKeepsErased ==
  ASSUME StoredInv, NEW r \in net, Effect(r)
  PROVE  ErasedInv'
<1>1. /\ ErasedInv /\ IndexEffect(r) /\ PastEffect(r)
      /\ Requested' \subseteq Requested /\ Fresh(r) \subseteq Requested /\ Planned' = Planned
  BY ExecuteAttempts DEF StoredInv, Effect
<1>2. LiveCopies' \cup Requested' \cup Planned' \subseteq LiveCopies \cup Requested \cup Planned
  BY <1>1 DEF IndexEffect
<1>3. QED
  BY <1>1, <1>2 DEF ErasedInv, PastEffect

(* A shard executing a request keeps the invariant.                        *)
LEMMA ExecuteStep ==
  ASSUME StoredInv, Execute
  PROVE  StoredInv'
<1>1. PICK r \in net : Effect(r)
  BY ExecuteEffect
<1>2. Types' /\ StoreInv'
  BY <1>1 DEF Effect
<1>3. QED
  BY <1>1, <1>2, ExecuteKeepsAttempts, ExecuteKeepsRequests, ExecuteKeepsKnown,
     ExecuteKeepsDelete, ExecuteKeepsSearch, ExecuteKeepsCompact, ExecuteKeepsErased DEF StoredInv
-----------------------------------------------------------------------------
(* The steps of the callers: the shards stay as they are.                  *)
Still ==
  /\ index' = index
  /\ past'.generation = past.generation /\ past'.victims = past.victims

(* Then the copies stay as they are,                                       *)
LEMMA StillStep ==
  ASSUME StoreInv, Still
  PROVE  /\ StoreInv' /\ LiveCopies' = LiveCopies /\ RowCopies' = RowCopies
         /\ \A s \in Shards : LiveOf(s)' = LiveOf(s) /\ DeadOf(s)' = DeadOf(s)
<1>1. \A s \in Shards : LiveOf(s)' = LiveOf(s) /\ DeadOf(s)' = DeadOf(s)
  BY DEF LiveOf, DeadOf, Still
<1>2. LiveCopies' = LiveCopies
  BY DEF LiveCopies, Still
<1>3. RowCopies' = RowCopies
  BY <1>1 DEF RowCopies
<1>4. StoreInv'
  BY <1>1 DEF StoreInv, Still
<1>5. QED
  BY <1>1, <1>2, <1>3, <1>4

(* what is known stays valid,                                              *)
LEMMA KnownStays ==
  ASSUME StoreInv, KnownInv, Still, AllKnown' \subseteq AllKnown
  PROVE  KnownInv' /\ KnownCopies' \subseteq KnownCopies
<1>1. LiveCopies' = LiveCopies
  BY StillStep
<1>2. ASSUME NEW t \in AllKnown, t \in Knowns
      PROVE  Valid(t)'
  <2>1. Valid(t)
    BY DEF KnownInv
  <2>2. QED
    BY <1>1, <2>1 DEF Valid, Still
<1>3. KnownInv'
  BY <1>2 DEF KnownInv
<1>4. QED
  BY <1>3 DEF KnownCopies

(* and with fewer copies about, each is in one stage.                      *)
LEMMA FewerAttempts ==
  ASSUME AttemptInv, calls' = calls, past'.tried = past.tried, past'.retried = past.retried,
         Spent' \subseteq Spent, Requested' \subseteq Requested, Planned' \subseteq Planned
  PROVE  AttemptInv'
<1>1. Attempts' = Spent' \cup Requested' \cup Planned' /\ Attempts = Spent \cup Requested \cup Planned
  BY DEF Attempts
<1>2. Attempts' \subseteq Attempts
  BY <1>1
<1>3. Spent' \cap Requested' = {} /\ Spent' \cap Planned' = {} /\ Requested' \cap Planned' = {}
  BY DEF AttemptInv
<1>4. QED
  BY <1>2, <1>3 DEF AttemptInv

(* The record of a thread that is in no call.                              *)
LEMMA IdleIsACall ==
  /\ Idle \in Calls /\ Idle.at = "idle" /\ Idle.op = "none" /\ Idle.number = 0
  /\ Idle.dead = {} /\ Idle.must = {} /\ Idle.may = {} /\ Idle.heard = {}
  /\ Idle.batch = << >> /\ Idle.got = {} /\ Learned(Idle) = {}
BY DEF Idle, Calls, Ops, Learned

(* The invariant but for what is known to be erased.                       *)
Kept ==
  /\ Types /\ StoreInv /\ AttemptInv /\ RequestInv /\ NumberInv /\ KnownInv
  /\ InsertInv /\ DeleteInv /\ SearchInv /\ CompactInv

(* A call that ends keeps it, when it tells no more than it has learned.   *)
LEMMA LeaveStep ==
  ASSUME StoredInv, NEW c \in Callers, Leave(c), Still,
         told \subseteq told', told' \subseteq told \cup Learned(call[c]),
         past' \in Pasts, past'.tried = past.tried, past'.retried = past.retried
  PROVE  Kept' /\ LiveCopies' = LiveCopies /\ Requested' \subseteq Requested /\ Planned' \subseteq Planned
<1>1. /\ call' = [call EXCEPT ![c] = Idle] /\ index' = index /\ calls' = calls
      /\ net' = {r \in net : r.op = "search" => r.call # call[c].number}
  BY DEF Leave
<1>2. /\ call \in [Callers -> Calls] /\ StoreInv /\ KnownInv /\ Types /\ AttemptInv
      /\ RequestInv /\ NumberInv /\ InsertInv /\ DeleteInv /\ SearchInv /\ CompactInv
  BY DEF StoredInv, Types
<1>3. /\ call'[c] = Idle /\ \A d \in Callers : d # c => call'[d] = call[d]
      /\ call' \in [Callers -> Calls]
  BY <1>1, <1>2, IdleIsACall
<1>4. net' \subseteq net
  BY <1>1
<1>5. told' \subseteq AllKnown
  BY DEF AllKnown
<1>6. AllKnown' \subseteq AllKnown
  <2>1. \A d \in Callers : Learned(call'[d]) \subseteq AllKnown
    BY <1>3, IdleIsACall DEF AllKnown
  <2>2. AllKnown' = told' \cup UNION {Learned(call'[d]) : d \in Callers}
    BY DEF AllKnown, Learned
  <2>3. QED
    BY <1>5, <2>1, <2>2
<1>7. /\ StoreInv' /\ LiveCopies' = LiveCopies /\ RowCopies' = RowCopies
      /\ \A s \in Shards : LiveOf(s)' = LiveOf(s) /\ DeadOf(s)' = DeadOf(s)
      /\ KnownInv' /\ KnownCopies' \subseteq KnownCopies
  BY <1>2, <1>6, StillStep, KnownStays
<1>8. Types'
  <2>1. told' \subseteq Knowns
    BY <1>2, <1>5 DEF KnownInv
  <2>2. QED
    BY <1>1, <1>2, <1>3, <1>4, <2>1 DEF Types
<1>9. SeenDead' \subseteq SeenDead
  BY <1>3, IdleIsACall DEF SeenDead
<1>10. Requested' \subseteq Requested
  BY <1>4 DEF Requested
<1>11. Planned' \subseteq Planned
  <2>1. PlannedBy(c)' = {} /\ \A d \in Callers : d # c => PlannedBy(d)' = PlannedBy(d)
    BY <1>3, IdleIsACall DEF PlannedBy
  <2>2. QED
    BY <2>1 DEF Planned
<1>12. AttemptInv'
  <2>1. Spent' \subseteq Spent
    BY <1>7, <1>9 DEF Spent
  <2>2. QED
    BY <1>1, <1>2, <1>10, <1>11, <2>1, FewerAttempts
<1>13. RequestInv'
  BY <1>1, <1>2, <1>3, <1>4, IdleIsACall DEF RequestInv
<1>14. NumberInv'
  BY <1>1, <1>2, <1>3, IdleIsACall DEF NumberInv
<1>15. InsertInv' /\ DeleteInv'
  BY <1>2, <1>3, <1>7, IdleIsACall DEF InsertInv, DeleteInv, Still
<1>16. SearchInv'
  BY <1>2, <1>3, <1>7, IdleIsACall DEF SearchInv
<1>17. CompactInv'
  <2>1. \A d \in Callers : d # c => Heard(d)' = Heard(d)
    BY <1>3 DEF Heard
  <2>2. \A d \in Callers : Heard(d) \subseteq Shards
    BY <1>2 DEF Heard, Types, Calls, Answers
  <2>3. QED
    BY <1>2, <1>3, <1>7, <2>1, <2>2, IdleIsACall DEF CompactInv
<1>18. QED
  BY <1>7, <1>8, <1>10, <1>11, <1>12, <1>13, <1>14, <1>15, <1>16, <1>17 DEF Kept

(* The rest of it, when nothing more is erased.                            *)
LEMMA ErasedStays ==
  ASSUME ErasedInv, past'.erased = past.erased, past'.tried = past.tried, past'.retried = past.retried,
         LiveCopies' = LiveCopies, Requested' \subseteq Requested, Planned' \subseteq Planned
  PROVE  ErasedInv'
BY DEF ErasedInv

(* A call ends and nobody learns that something was erased.                *)
LEMMA LeaveQuietly ==
  ASSUME StoredInv, NEW c \in Callers, Leave(c), told' = told,
         past' = past \/ \E settled \in SUBSET Vectors : past' = [past EXCEPT !.settled = settled]
  PROVE  StoredInv'
<1>1. past \in Pasts
  BY DEF StoredInv, Types
<1>2. /\ past' \in Pasts /\ past'.tried = past.tried /\ past'.retried = past.retried
      /\ past'.erased = past.erased
      /\ past'.generation = past.generation /\ past'.victims = past.victims
  BY <1>1 DEF Pasts
<1>3. Still
  BY <1>2 DEF Still, Leave
<1>4. Kept' /\ LiveCopies' = LiveCopies /\ Requested' \subseteq Requested /\ Planned' \subseteq Planned
  BY <1>2, <1>3, LeaveStep
<1>5. ErasedInv'
  BY <1>2, <1>4, ErasedStays DEF StoredInv
<1>6. QED
  BY <1>4, <1>5 DEF Kept, StoredInv

(* A call that ends with an exception, or after its return, keeps the      *)
(* invariant.                                                              *)
LEMMA RaisesStep ==
  ASSUME StoredInv, NEW c \in Callers,
         InsertRaises(c) \/ DeleteRaises(c) \/ SearchRaises(c) \/ CompactRaises(c) \/ End(c)
  PROVE  StoredInv'
<1>1. CASE InsertRaises(c)
  <2> DEFINE settled == past.settled \ (ToSet(call[c].batch) \cup {g.copy[1] : g \in call[c].got})
  <2>1. past \in Pasts
    BY DEF StoredInv, Types
  <2>2. past' = [past EXCEPT !.settled = settled] /\ Leave(c) /\ told' = told
    BY <1>1 DEF InsertRaises
  <2>3. settled \in SUBSET Vectors
    BY <2>1 DEF Pasts
  <2> HIDE DEF settled
  <2>4. QED
    BY <2>2, <2>3, LeaveQuietly
<1>2. CASE DeleteRaises(c)
  BY <1>2, LeaveQuietly DEF DeleteRaises
<1>3. CASE SearchRaises(c)
  BY <1>3, LeaveQuietly DEF SearchRaises
<1>4. CASE CompactRaises(c)
  BY <1>4, LeaveQuietly DEF CompactRaises
<1>5. CASE End(c)
  BY <1>5, LeaveQuietly DEF End
<1>6. QED
  BY <1>1, <1>2, <1>3, <1>4, <1>5

(* So does a delete that has its answer: the vector it erases has no       *)
(* other copy, unless it was tried again.                                  *)
LEMMA DeleteAnsweredStep ==
  ASSUME StoredInv, NEW c \in Callers, DeleteAnswered(c)
  PROVE  StoredInv'
<1> DEFINE t == call[c].target
           s == t.id[1]
<1>1. PICK a \in call[c].heard :
        past' = [past EXCEPT !.erased =
                   IF a.body # {} /\ t.generation = past.generation[s] THEN @ \cup {t.copy[1]} ELSE @]
  BY DEF DeleteAnswered, ShardPart
<1>2. call[c].op = "delete" /\ Leave(c) /\ told' = told
  BY DEF DeleteAnswered, Waits
<1>3. /\ past \in Pasts /\ DeleteInv /\ KnownInv /\ AttemptInv /\ ErasedInv /\ StoreInv
  BY DEF StoredInv, Types
<1>4. t \in told /\ t \in AllKnown
  BY <1>2, <1>3 DEF DeleteInv, AllKnown
<1>5. t \in Knowns
  BY <1>3, <1>4 DEF KnownInv
<1>6. a.body # {} /\ t.generation = past.generation[s] => t.copy \notin LiveCopies
  BY <1>2, <1>3 DEF DeleteInv
<1> HIDE DEF t
<1>7. t.copy \in Stored /\ t.copy[1] \in Vectors
  BY <1>5 DEF Knowns, Stored
<1>8. /\ past' \in Pasts /\ past'.tried = past.tried /\ past'.retried = past.retried
      /\ past'.generation = past.generation /\ past'.victims = past.victims
      /\ \/ past'.erased = past.erased
         \/ past'.erased = past.erased \cup {t.copy[1]} /\ t.copy \notin LiveCopies
  BY <1>1, <1>3, <1>6, <1>7 DEF Pasts
<1>9. Still
  BY <1>2, <1>8 DEF Still, Leave
<1>10. Kept' /\ LiveCopies' = LiveCopies /\ Requested' \subseteq Requested /\ Planned' \subseteq Planned
  BY <1>2, <1>8, <1>9, LeaveStep
<1>11. CASE past'.erased = past.erased
  <2>1. ErasedInv'
    BY <1>3, <1>8, <1>10, <1>11, ErasedStays
  <2>2. QED
    BY <1>10, <2>1 DEF Kept, StoredInv
<1>12. CASE past'.erased = past.erased \cup {t.copy[1]} /\ t.copy \notin LiveCopies
  <2>1. t.copy \in Spent
    BY <1>4 DEF Spent, KnownCopies
  <2>2. LiveCopies \subseteq Attempts
    <3>1. LiveCopies \subseteq RowCopies
      BY <1>3, LiveCopiesAre DEF RowCopies
    <3>2. QED
      BY <3>1 DEF Attempts, Spent
  <2>3. t.copy \notin Requested \cup Planned /\ t.copy \in Attempts
    BY <1>3, <2>1 DEF AttemptInv, Attempts
  <2>4. t.copy[1] \in past.tried
    BY <1>3, <2>3 DEF AttemptInv
  <2>5. ASSUME t.copy[1] \notin past.retried, NEW copy \in LiveCopies \cup Requested \cup Planned
        PROVE  copy[1] # t.copy[1]
    <3>1. copy \in Attempts /\ copy # t.copy
      BY <1>12, <2>2, <2>3, <2>5 DEF Attempts
    <3>2. QED
      BY <1>3, <2>3, <2>5, <3>1 DEF AttemptInv
  <2>6. ErasedInv'
    <3>1. LiveCopies' \cup Requested' \cup Planned' \subseteq LiveCopies \cup Requested \cup Planned
      BY <1>10
    <3>2. QED
      BY <1>3, <1>8, <1>12, <2>4, <2>5, <3>1 DEF ErasedInv
  <2>7. QED
    BY <1>10, <2>6 DEF Kept, StoredInv
<1>13. QED
  BY <1>8, <1>11, <1>12

(* A call has inserted the last of its vectors.                            *)
LEMMA LastInserted ==
  ASSUME StoredInv, NEW c \in Callers, call[c].op = "insert", NEW a \in call[c].heard,
         told' = told \cup (call[c].got \cup a.body), Leave(c), past' = past
  PROVE  StoredInv'
<1>1. past \in Pasts /\ ErasedInv
  BY DEF StoredInv, Types
<1>2. call[c].got \cup a.body \subseteq Learned(call[c])
  BY DEF Learned
<1>3. Still
  BY DEF Still, Leave
<1>4. told \subseteq told' /\ told' \subseteq told \cup Learned(call[c])
  BY <1>2
<1>5. Kept' /\ LiveCopies' = LiveCopies /\ Requested' \subseteq Requested /\ Planned' \subseteq Planned
  BY <1>1, <1>3, <1>4, LeaveStep
<1>6. ErasedInv'
  BY <1>1, <1>5, ErasedStays
<1>7. QED
  BY <1>5, <1>6 DEF Kept, StoredInv

(* A call asks for the next of its vectors.                                *)
NextInsert(c, a) ==
  /\ call' = [call EXCEPT ![c].got = call[c].got \cup a.body, ![c].batch = Tail(call[c].batch),
                          ![c].heard = {}]
  /\ net' = net \cup {InsertRequest(call[c].number, Head(Tail(call[c].batch)))}
  /\ UNCHANGED <<index, calls, told, past>>

(* What the call is then.                                                  *)
LEMMA NextCall ==
  ASSUME StoredInv, NEW c \in Callers, call[c].op = "insert", NEW a \in call[c].heard,
         Tail(call[c].batch) # << >>, NextInsert(c, a)
  PROVE  /\ call' \in [Callers -> Calls]
         /\ \A d \in Callers : d # c => call'[d] = call[d]
         /\ call'[c].batch = Tail(call[c].batch) /\ call'[c].heard = {}
         /\ call'[c].got = call[c].got \cup a.body
         /\ \A f \in {"at", "op", "number", "target", "failed", "must", "may", "dead"} :
              call'[c][f] = call[c][f]
         /\ Learned(call'[c]) \subseteq Learned(call[c])
         /\ call[c].batch \in Seq(Vectors) /\ IsInjective(call[c].batch)
         /\ Len(call[c].batch) >= 2
<1>1. call \in [Callers -> Calls] /\ KnownInv /\ InsertInv
  BY DEF StoredInv, Types
<1>2. call[c].batch \in Seq(Vectors) /\ call[c].batch # << >> /\ IsInjective(call[c].batch)
  BY <1>1 DEF Calls, InsertInv
<1>3. Tail(call[c].batch) \in Seq(Vectors) /\ Len(call[c].batch) >= 2
  BY <1>2
<1>4. call[c].got \cup a.body \subseteq Learned(call[c])
  BY DEF Learned
<1>5. call[c].got \cup a.body \subseteq Knowns
  BY <1>1, <1>4 DEF KnownInv, AllKnown
<1>6. call' = [call EXCEPT ![c].got = call[c].got \cup a.body, ![c].batch = Tail(call[c].batch),
                           ![c].heard = {}]
  BY DEF NextInsert
<1> DEFINE got == call[c].got \cup a.body
           rest == Tail(call[c].batch)
<1>7. call'[c] = [call[c] EXCEPT !.got = got, !.batch = rest, !.heard = {}]
  BY <1>1, <1>6
<1>8. call[c] \in Calls /\ got \in SUBSET Knowns /\ rest \in Seq(Vectors)
  BY <1>1, <1>3, <1>5
<1>9. \A d \in Callers : d # c => call'[d] = call[d]
  BY <1>1, <1>6
<1>10. DOMAIN call' = Callers /\ call' = [d \in Callers |-> call'[d]]
  BY <1>1, <1>6
<1> HIDE DEF got, rest
<1>11. /\ call'[c].batch = rest /\ call'[c].heard = {} /\ call'[c].got = got
       /\ call'[c].at = call[c].at /\ call'[c].op = call[c].op /\ call'[c].number = call[c].number
       /\ call'[c].target = call[c].target /\ call'[c].failed = call[c].failed
       /\ call'[c].must = call[c].must /\ call'[c].may = call[c].may /\ call'[c].dead = call[c].dead
       /\ call'[c] \in Calls
  BY <1>7, <1>8 DEF Calls
<1>12. call' \in [Callers -> Calls]
  BY <1>1, <1>9, <1>10, <1>11
<1>13. Learned(call'[c]) \subseteq Learned(call[c])
  BY <1>4, <1>11 DEF Learned, got
<1>14. QED
  BY <1>2, <1>3, <1>9, <1>11, <1>12, <1>13 DEF got, rest

(* The copy moves from the planned ones to the requested ones.             *)
LEMMA NextInsertStep ==
  ASSUME StoredInv, NEW c \in Callers, call[c].op = "insert", NEW a \in call[c].heard,
         Tail(call[c].batch) # << >>, NextInsert(c, a)
  PROVE  StoredInv'
<1> DEFINE n == call[c].number
           v == call[c].batch[2]
           p == <<v, n>>
<1>1. /\ Types /\ StoreInv /\ AttemptInv /\ RequestInv /\ NumberInv /\ KnownInv
      /\ InsertInv /\ DeleteInv /\ SearchInv /\ CompactInv /\ ErasedInv
  BY DEF StoredInv
<1>2. /\ call' \in [Callers -> Calls]
      /\ \A d \in Callers : d # c => call'[d] = call[d]
      /\ call'[c].batch = Tail(call[c].batch) /\ call'[c].heard = {}
      /\ \A f \in {"at", "op", "number", "target", "failed", "must", "may", "dead"} :
           call'[c][f] = call[c][f]
      /\ Learned(call'[c]) \subseteq Learned(call[c])
      /\ call[c].batch \in Seq(Vectors) /\ IsInjective(call[c].batch)
      /\ Len(call[c].batch) >= 2
  BY NextCall
<1>3. /\ call'[c].at = call[c].at /\ call'[c].op = "insert" /\ call'[c].number = n
      /\ call'[c].dead = call[c].dead
  BY <1>2
<1>4. /\ index' = index /\ calls' = calls /\ told' = told /\ past' = past
      /\ net' = net \cup {InsertRequest(n, Head(Tail(call[c].batch)))}
  BY DEF NextInsert
<1>5. Head(Tail(call[c].batch)) = v /\ v \in Vectors
  BY <1>2
<1>6. net' = net \cup {InsertRequest(n, v)}
  BY <1>4, <1>5
<1>7. Still
  BY <1>4 DEF Still
<1>8. call[c].at # "idle" /\ n \in 1..calls /\ calls \in Nat
  BY <1>1, IdleIsACall DEF NumberInv, Types
<1>9. AllKnown' \subseteq AllKnown
  <2>1. \A d \in Callers : Learned(call'[d]) \subseteq Learned(call[d])
    BY <1>2
  <2>2. AllKnown' = told' \cup UNION {Learned(call'[d]) : d \in Callers}
    BY DEF AllKnown, Learned
  <2>3. \A d \in Callers : Learned(call[d]) \subseteq AllKnown
    BY DEF AllKnown
  <2>4. told \subseteq AllKnown
    BY DEF AllKnown
  <2>5. QED
    BY <1>4, <2>1, <2>2, <2>3, <2>4
<1>10. /\ StoreInv' /\ LiveCopies' = LiveCopies /\ RowCopies' = RowCopies
       /\ \A s \in Shards : LiveOf(s)' = LiveOf(s) /\ DeadOf(s)' = DeadOf(s)
       /\ KnownInv' /\ KnownCopies' \subseteq KnownCopies
  BY <1>1, <1>7, <1>9, StillStep, KnownStays
<1>11. SeenDead' = SeenDead
  BY <1>2, <1>3 DEF SeenDead
<1>12. Spent' \subseteq Spent
  BY <1>10, <1>11 DEF Spent
<1>13. /\ InsertRequest(n, v) = [call |-> n, shard |-> ShardOf[v], op |-> "insert", arg |-> p]
       /\ InsertRequest(n, v) \in Requests /\ p \in Stored
  BY <1>5, <1>8, StoreAssumption DEF InsertRequest, Request, Requests, Stored, Ops
<1>14. Requested' = Requested \cup {p}
  BY <1>6, <1>13 DEF Requested
<1>15. p \in PlannedBy(c) /\ PlannedBy(c)' \subseteq PlannedBy(c) \ {p}
  <2>1. PlannedBy(c) = {<<call[c].batch[k], n>> : k \in 2..Len(call[c].batch)}
    BY DEF PlannedBy
  <2>2. PlannedBy(c)' = {<<call'[c].batch[k], n>> : k \in 2..Len(call'[c].batch)}
    BY <1>3 DEF PlannedBy
  <2>3. /\ Len(call'[c].batch) = Len(call[c].batch) - 1
        /\ \A k \in 2..Len(call'[c].batch) : call'[c].batch[k] = call[c].batch[k + 1]
    BY <1>2
  <2>4. \A k \in 3..Len(call[c].batch) : call[c].batch[k] # v
    BY <1>2 DEF IsInjective
  <2>5. p \in PlannedBy(c)
    BY <1>2, <2>1
  <2>6. ASSUME NEW k \in 2..Len(call'[c].batch)
        PROVE  <<call'[c].batch[k], n>> \in PlannedBy(c) \ {p}
    <3>1. k + 1 \in 3..Len(call[c].batch) /\ k + 1 \in 2..Len(call[c].batch)
      BY <1>2, <2>3
    <3>2. call'[c].batch[k] = call[c].batch[k + 1] /\ call[c].batch[k + 1] # v
      BY <2>3, <2>4, <3>1
    <3>3. QED
      BY <2>1, <3>1, <3>2
  <2>7. QED
    BY <2>2, <2>5, <2>6
<1>16. \A d \in Callers : d # c => PlannedBy(d)' = PlannedBy(d) /\ p \notin PlannedBy(d)
  <2>1. ASSUME NEW d \in Callers, d # c
        PROVE  PlannedBy(d)' = PlannedBy(d) /\ p \notin PlannedBy(d)
    <3>1. call[d].number # n
      BY <1>1, <1>8, <2>1 DEF NumberInv
    <3>2. QED
      BY <1>2, <2>1, <3>1 DEF PlannedBy
  <2>2. QED
    BY <2>1
<1> HIDE DEF p
<1>17. p \in Planned /\ Planned' \subseteq Planned \ {p}
  BY <1>15, <1>16 DEF Planned
<1>18. AttemptInv'
  <2>1. Attempts' = Spent' \cup Requested' \cup Planned' /\ Attempts = Spent \cup Requested \cup Planned
    BY DEF Attempts
  <2>2. Attempts' \subseteq Attempts
    BY <1>12, <1>14, <1>17, <2>1
  <2>3. Spent' \cap Requested' = {} /\ Spent' \cap Planned' = {} /\ Requested' \cap Planned' = {}
    BY <1>1, <1>12, <1>14, <1>17 DEF AttemptInv
  <2>4. QED
    BY <1>1, <1>4, <2>2, <2>3 DEF AttemptInv
<1>19. Types'
  BY <1>1, <1>2, <1>4, <1>6, <1>13 DEF Types
<1>20. RequestInv'
  <2>1. ASSUME NEW r \in net', r \in net
        PROVE  /\ r.call \in 1..calls
               /\ r.op = "insert" => r.arg \in Stored /\ r.arg[2] = r.call /\ r.shard = ShardOf[r.arg[1]]
               /\ r.op = "delete" => r.arg \in told' /\ r.shard = r.arg.id[1]
               /\ \A d \in Callers : call'[d].number = r.call =>
                    r.op = call'[d].op /\ (r.op = "delete" => r.arg = call'[d].target)
    BY <1>1, <1>2, <1>3, <1>4, <2>1 DEF RequestInv
  <2>2. ASSUME NEW r \in net', r \notin net
        PROVE  /\ r.call \in 1..calls
               /\ r.op = "insert" => r.arg \in Stored /\ r.arg[2] = r.call /\ r.shard = ShardOf[r.arg[1]]
               /\ r.op = "delete" => r.arg \in told' /\ r.shard = r.arg.id[1]
               /\ \A d \in Callers : call'[d].number = r.call =>
                    r.op = call'[d].op /\ (r.op = "delete" => r.arg = call'[d].target)
    <3>1. r.call = n /\ r.shard = ShardOf[v] /\ r.op = "insert" /\ r.arg = p
      BY <1>6, <1>13, <2>2
    <3>2. p[1] = v /\ p[2] = n
      BY DEF p
    <3>3. \A d \in Callers : call'[d].number = n => d = c
      BY <1>1, <1>2, <1>3, <1>8 DEF NumberInv
    <3>4. QED
      BY <1>3, <1>8, <1>13, <3>1, <3>2, <3>3
  <2>3. QED
    BY <1>4, <2>1, <2>2 DEF RequestInv
<1>21. NumberInv'
  BY <1>1, <1>2, <1>3, <1>4, <1>8 DEF NumberInv
<1>22. InsertInv'
  <2>1. call'[c].batch # << >> /\ IsInjective(call'[c].batch)
    BY <1>2 DEF IsInjective
  <2>2. QED
    BY <1>1, <1>2, <2>1 DEF InsertInv
<1>23. DeleteInv' /\ SearchInv'
  BY <1>1, <1>2, <1>3, <1>4, <1>10 DEF DeleteInv, SearchInv
<1>24. CompactInv'
  <2>1. \A d \in Callers : d # c => Heard(d)' = Heard(d)
    BY <1>2 DEF Heard
  <2>2. \A d \in Callers : Heard(d) \subseteq Shards
    BY <1>1 DEF Heard, Types, Calls, Answers
  <2>3. QED
    BY <1>1, <1>2, <1>3, <1>10, <2>1, <2>2 DEF CompactInv
<1>25. ErasedInv'
  <2>1. LiveCopies' \cup Requested' \cup Planned' \subseteq LiveCopies \cup Requested \cup Planned
    BY <1>10, <1>14, <1>17
  <2>2. QED
    BY <1>1, <1>4, <2>1 DEF ErasedInv
<1>26. QED
  BY <1>10, <1>18, <1>19, <1>20, <1>21, <1>22, <1>23, <1>24, <1>25 DEF StoredInv

(* An insert that has its answer keeps the invariant.                      *)
LEMMA InsertAnsweredStep ==
  ASSUME StoredInv, NEW c \in Callers, InsertAnswered(c)
  PROVE  StoredInv'
<1>1. call[c].op = "insert" /\ past' = past
  BY DEF InsertAnswered, Waits
<1>2. PICK a \in call[c].heard :
        IF Tail(call[c].batch) = << >>
        THEN told' = told \cup (call[c].got \cup a.body) /\ Leave(c)
        ELSE NextInsert(c, a)
  BY <1>1 DEF InsertAnswered, NextInsert
<1>3. CASE Tail(call[c].batch) = << >>
  BY <1>1, <1>2, <1>3, LastInserted
<1>4. CASE Tail(call[c].batch) # << >>
  BY <1>1, <1>2, <1>4, NextInsertStep
<1>5. QED
  BY <1>3, <1>4

(* A call goes on: it gives a shard up, or returns.                        *)
SameCall(k, j) ==
  /\ k.op = j.op /\ k.number = j.number /\ k.batch = j.batch /\ k.got = j.got
  /\ k.target = j.target /\ k.heard = j.heard
  /\ k.must = j.must /\ k.may = j.may /\ k.dead = j.dead

(* Such a step keeps the invariant, when it tells no more than the call    *)
(* has learned, and a compact() returns only after all the answers.        *)
LEMMA GoesOn ==
  ASSUME StoredInv, NEW c \in Callers,
         call' \in [Callers -> Calls], \A d \in Callers : d # c => call'[d] = call[d],
         SameCall(call'[c], call[c]), call[c].at = "waiting", call'[c].at # "idle",
         call[c].op = "compact" /\ call'[c].at = "returned" => Heard(c) = Shards,
         index' = index, calls' = calls, past' = past, net' \subseteq net,
         told \subseteq told', told' \subseteq told \cup Learned(call[c])
  PROVE  StoredInv'
<1>1. /\ Types /\ StoreInv /\ AttemptInv /\ RequestInv /\ NumberInv /\ KnownInv
      /\ InsertInv /\ DeleteInv /\ SearchInv /\ CompactInv /\ ErasedInv
  BY DEF StoredInv
<1>2. \A d \in Callers : SameCall(call'[d], call[d])
  BY DEF SameCall
<1>3. \A d \in Callers : Learned(call'[d]) = Learned(call[d])
  BY <1>2 DEF Learned, SameCall
<1>4. AllKnown' \subseteq AllKnown /\ told' \subseteq AllKnown
  <2>1. AllKnown' = told' \cup UNION {Learned(call'[d]) : d \in Callers}
    BY DEF AllKnown, Learned
  <2>2. \A d \in Callers : Learned(call[d]) \subseteq AllKnown
    BY DEF AllKnown
  <2>3. told \subseteq AllKnown
    BY DEF AllKnown
  <2>4. QED
    BY <1>3, <2>1, <2>2, <2>3
<1>5. Still
  BY DEF Still
<1>6. /\ StoreInv' /\ LiveCopies' = LiveCopies /\ RowCopies' = RowCopies
      /\ \A s \in Shards : LiveOf(s)' = LiveOf(s) /\ DeadOf(s)' = DeadOf(s)
      /\ KnownInv' /\ KnownCopies' \subseteq KnownCopies
  BY <1>1, <1>4, <1>5, StillStep, KnownStays
<1>7. Types'
  <2>1. told' \subseteq Knowns
    BY <1>1, <1>4 DEF KnownInv
  <2>2. QED
    BY <1>1, <2>1 DEF Types
<1>8. Requested' \subseteq Requested
  BY DEF Requested
<1>9. Planned' = Planned /\ SeenDead' = SeenDead
  BY <1>2 DEF Planned, PlannedBy, SeenDead, SameCall
<1>10. AttemptInv'
  <2>1. Spent' \subseteq Spent
    BY <1>6, <1>9 DEF Spent
  <2>2. QED
    BY <1>1, <1>8, <1>9, <2>1, FewerAttempts
<1>11. RequestInv'
  BY <1>1, <1>2 DEF RequestInv, SameCall
<1>12. NumberInv'
  <2>1. call'[c].number = call[c].number /\ call[c].number \in 1..calls
    BY <1>1, <1>2 DEF NumberInv, SameCall
  <2>2. QED
    BY <1>1, <1>2, <2>1 DEF NumberInv, SameCall
<1>13. InsertInv'
  BY <1>1, <1>2 DEF InsertInv, SameCall
<1>14. DeleteInv'
  BY <1>1, <1>2, <1>6 DEF DeleteInv, SameCall
<1>15. SearchInv'
  BY <1>1, <1>2, <1>6 DEF SearchInv, SameCall
<1>16. CompactInv'
  <2>1. \A d \in Callers : Heard(d)' = Heard(d)
    BY <1>2 DEF Heard, SameCall
  <2>2. \A d \in Callers : Heard(d) \subseteq Shards
    BY <1>1 DEF Heard, Types, Calls, Answers
  <2>3. \A d \in Callers : call'[d].op = "compact" /\ call'[d].at = "returned" => Heard(d) = Shards
    BY <1>1, <1>2 DEF CompactInv, SameCall
  <2>4. QED
    BY <1>1, <1>2, <1>6, <2>1, <2>2, <2>3 DEF CompactInv, SameCall
<1>17. ErasedInv'
  BY <1>1, <1>6, <1>8, <1>9, ErasedStays
<1>18. QED
  BY <1>6, <1>7, <1>10, <1>11, <1>12, <1>13, <1>14, <1>15, <1>16, <1>17 DEF StoredInv

(* A shard that fails,                                                     *)
LEMMA ShardFailsStep ==
  ASSUME StoredInv, NEW c \in Callers, ShardFails(c)
  PROVE  StoredInv'
<1>1. call \in [Callers -> Calls]
  BY DEF StoredInv, Types
<1>2. /\ call[c].at = "waiting"
      /\ index' = index /\ calls' = calls /\ told' = told /\ past' = past /\ net' \subseteq net
  BY DEF ShardFails, Waits
<1>3. PICK s \in Shards : call' = [call EXCEPT ![c].failed = @ \cup {s}]
  BY DEF ShardFails
<1>4. call' \in [Callers -> Calls]
  <2>1. call'[c] = [call[c] EXCEPT !.failed = @ \cup {s}] /\ call[c] \in Calls
    BY <1>1, <1>3
  <2>2. call'[c] \in Calls
    BY <2>1 DEF Calls
  <2>3. DOMAIN call' = Callers /\ \A d \in Callers : call'[d] \in Calls
    BY <1>1, <1>3, <2>2
  <2>4. call' = [d \in Callers |-> call'[d]]
    BY <1>1, <1>3
  <2>5. QED
    BY <2>3, <2>4
<1>5. SameCall(call'[c], call[c]) /\ call'[c].at = "waiting"
  BY <1>1, <1>2, <1>3 DEF Calls, SameCall
<1>6. QED
  BY <1>1, <1>2, <1>3, <1>4, <1>5, GoesOn

(* and a return with a result, are such steps.                             *)
LEMMA ReturnsStep ==
  ASSUME StoredInv, NEW c \in Callers, SearchReturns(c) \/ CompactReturns(c)
  PROVE  StoredInv'
<1>1. call \in [Callers -> Calls]
  BY DEF StoredInv, Types
<1>2. /\ call[c].at = "waiting" /\ call' = [call EXCEPT ![c].at = "returned"]
      /\ index' = index /\ calls' = calls /\ past' = past /\ net' = net
  BY DEF SearchReturns, CompactReturns, Waits
<1>3. call' \in [Callers -> Calls]
  <2>1. call'[c] = [call[c] EXCEPT !.at = "returned"] /\ call[c] \in Calls
    BY <1>1, <1>2
  <2>2. call'[c] \in Calls
    BY <2>1 DEF Calls
  <2>3. DOMAIN call' = Callers /\ \A d \in Callers : call'[d] \in Calls
    BY <1>1, <1>2, <2>2
  <2>4. call' = [d \in Callers |-> call'[d]]
    BY <1>1, <1>2
  <2>5. QED
    BY <2>3, <2>4
<1>4. SameCall(call'[c], call[c]) /\ call'[c].at = "returned"
  BY <1>1, <1>2 DEF Calls, SameCall
<1>5. told \subseteq told' /\ told' \subseteq told \cup Learned(call[c])
  BY DEF SearchReturns, CompactReturns, Waits, Learned
<1>6. call[c].op = "compact" => Heard(c) = Shards
  BY DEF SearchReturns, CompactReturns, Waits, AllShards
<1>7. QED
  BY <1>1, <1>2, <1>3, <1>4, <1>5, <1>6, GoesOn

(* The copies are vectors with the number of a call.                       *)
LEMMA AttemptsAreStored ==
  ASSUME StoredInv
  PROVE  Attempts \subseteq Stored
<1>1. Types /\ StoreInv /\ RequestInv /\ KnownInv /\ NumberInv
  BY DEF StoredInv
<1>2. RowCopies \subseteq Stored
  BY <1>1 DEF StoreInv, RowCopies
<1>3. KnownCopies \subseteq Stored
  BY <1>1 DEF KnownInv, KnownCopies, Knowns
<1>4. SeenDead \subseteq Stored
  BY <1>1 DEF Types, Calls, SeenDead
<1>5. Requested \subseteq Stored
  BY <1>1 DEF Requested, RequestInv
<1>6. Planned \subseteq Stored
  <2>1. \A c \in Callers : call[c].batch \in Seq(Vectors) /\ call[c].number \in Nat
    BY <1>1 DEF Types, Calls
  <2>2. \A c \in Callers : PlannedBy(c) \subseteq Stored
    BY <2>1 DEF PlannedBy, Stored
  <2>3. QED
    BY <2>2 DEF Planned
<1>7. QED
  BY <1>2, <1>3, <1>4, <1>5, <1>6 DEF Attempts, Spent

(* A call k of the thread c begins, with its first requests.               *)
Asks(r, k) ==
  /\ r \in Requests /\ r.call = k.number /\ r.op = k.op
  /\ r.op = "insert" => r.arg \in Stored /\ r.arg[2] = r.call /\ r.shard = ShardOf[r.arg[1]]
  /\ r.op = "delete" => r.arg \in told /\ r.shard = r.arg.id[1] /\ r.arg = k.target

(* What its record is then,                                                *)
Prepared(k) ==
  /\ k \in Calls /\ k.at = "waiting" /\ k.number = calls + 1 /\ k.heard = {} /\ k.got = {}
  /\ k.op = "insert" => k.batch # << >> /\ IsInjective(k.batch)
  /\ k.op = "delete" => k.target \in told
  /\ k.op = "search" => k.must \subseteq LiveCopies /\ LiveCopies \subseteq k.may
  /\ k.dead \subseteq RowCopies /\ k.dead \cap LiveCopies = {}

(* and the step.                                                           *)
Begins(c, k, requests) ==
  /\ call[c].at = "idle" /\ call' = [call EXCEPT ![c] = k]
  /\ calls' = calls + 1 /\ net' = net \cup requests
  /\ UNCHANGED <<index, told>>
  /\ Prepared(k)
  /\ \A r \in requests : Asks(r, k)
  /\ Still /\ past' \in Pasts

(* The invariant but for the copies of vectors on their way.               *)
KeptAside ==
  /\ Types /\ StoreInv /\ RequestInv /\ NumberInv /\ KnownInv
  /\ InsertInv /\ DeleteInv /\ SearchInv /\ CompactInv

(* The parts of the invariant that it keeps in any case, and the copies    *)
(* it adds.                                                                *)
LEMMA BeginStep ==
  ASSUME StoredInv, NEW c \in Callers, NEW k, NEW requests, Begins(c, k, requests)
  PROVE  /\ KeptAside' /\ LiveCopies' = LiveCopies /\ Spent' \subseteq Spent
         /\ Requested' = Requested \cup {r.arg : r \in {q \in requests : q.op = "insert"}}
         /\ Planned' \subseteq Planned \cup {<<k.batch[i], k.number>> : i \in 2..Len(k.batch)}
<1>1. /\ Types /\ StoreInv /\ AttemptInv /\ RequestInv /\ NumberInv /\ KnownInv
      /\ InsertInv /\ DeleteInv /\ SearchInv /\ CompactInv /\ ErasedInv
  BY DEF StoredInv
<1>2. /\ call[c].at = "idle" /\ call' = [call EXCEPT ![c] = k]
      /\ calls' = calls + 1 /\ net' = net \cup requests
      /\ index' = index /\ told' = told /\ Still /\ past' \in Pasts
      /\ \A r \in requests : Asks(r, k)
      /\ call \in [Callers -> Calls] /\ calls \in Nat
  BY <1>1 DEF Begins, Types
<1>3. /\ k \in Calls /\ k.at = "waiting" /\ k.number = calls + 1 /\ k.heard = {} /\ k.got = {}
      /\ k.op = "insert" => k.batch # << >> /\ IsInjective(k.batch)
      /\ k.op = "delete" => k.target \in told
      /\ k.op = "search" => k.must \subseteq LiveCopies /\ LiveCopies \subseteq k.may
      /\ k.dead \subseteq RowCopies /\ k.dead \cap LiveCopies = {}
  BY DEF Begins, Prepared
<1>4. /\ call'[c] = k /\ \A d \in Callers : d # c => call'[d] = call[d]
      /\ call' \in [Callers -> Calls]
  BY <1>2, <1>3
<1>5. Learned(k) = {}
  BY <1>3 DEF Learned
<1>6. AllKnown' \subseteq AllKnown
  <2>1. AllKnown' = told' \cup UNION {Learned(call'[d]) : d \in Callers}
    BY DEF AllKnown, Learned
  <2>2. \A d \in Callers : Learned(call'[d]) \subseteq AllKnown
    BY <1>4, <1>5 DEF AllKnown
  <2>3. told \subseteq AllKnown
    BY DEF AllKnown
  <2>4. QED
    BY <1>2, <2>1, <2>2, <2>3
<1>7. /\ StoreInv' /\ LiveCopies' = LiveCopies /\ RowCopies' = RowCopies
      /\ \A s \in Shards : LiveOf(s)' = LiveOf(s) /\ DeadOf(s)' = DeadOf(s)
      /\ KnownInv' /\ KnownCopies' \subseteq KnownCopies
  BY <1>1, <1>2, <1>6, StillStep, KnownStays
<1>8. SeenDead' \subseteq SeenDead \cup RowCopies
  BY <1>3, <1>4 DEF SeenDead
<1>9. Spent' \subseteq Spent
  BY <1>7, <1>8 DEF Spent
<1>10. Requested' = Requested \cup {r.arg : r \in {q \in requests : q.op = "insert"}}
  BY <1>2 DEF Requested
<1>11. Planned' \subseteq Planned \cup {<<k.batch[i], k.number>> : i \in 2..Len(k.batch)}
  <2>1. PlannedBy(c)' = {<<k.batch[i], k.number>> : i \in 2..Len(k.batch)}
    BY <1>4 DEF PlannedBy
  <2>2. \A d \in Callers : d # c => PlannedBy(d)' = PlannedBy(d)
    BY <1>4 DEF PlannedBy
  <2>3. QED
    BY <2>1, <2>2 DEF Planned
<1>12. Types'
  <2>1. requests \subseteq Requests
    BY <1>2 DEF Asks
  <2>2. QED
    BY <1>1, <1>2, <1>4, <2>1 DEF Types
<1>13. RequestInv'
  <2>1. ASSUME NEW r \in net', r \in requests
        PROVE  /\ r.call \in 1..(calls + 1)
               /\ r.op = "insert" => r.arg \in Stored /\ r.arg[2] = r.call /\ r.shard = ShardOf[r.arg[1]]
               /\ r.op = "delete" => r.arg \in told' /\ r.shard = r.arg.id[1]
               /\ \A d \in Callers : call'[d].number = r.call =>
                    r.op = call'[d].op /\ (r.op = "delete" => r.arg = call'[d].target)
    <3>1. Asks(r, k)
      BY <1>2, <2>1
    <3>2. r.call = calls + 1
      BY <1>3, <3>1 DEF Asks
    <3>3. \A d \in Callers : d # c => call'[d].number # calls + 1
      BY <1>1, <1>2, <1>4, IdleIsACall DEF NumberInv
    <3>4. \A d \in Callers : call'[d].number = r.call => d = c
      BY <3>2, <3>3
    <3>5. r.call \in 1..(calls + 1)
      BY <1>2, <3>2
    <3>6. /\ r.op = k.op
          /\ r.op = "insert" => r.arg \in Stored /\ r.arg[2] = r.call /\ r.shard = ShardOf[r.arg[1]]
          /\ r.op = "delete" => r.arg \in told /\ r.shard = r.arg.id[1] /\ r.arg = k.target
      BY <3>1 DEF Asks
    <3>7. QED
      BY <1>2, <1>4, <3>4, <3>5, <3>6
  <2>2. ASSUME NEW r \in net', r \in net
        PROVE  /\ r.call \in 1..(calls + 1)
               /\ r.op = "insert" => r.arg \in Stored /\ r.arg[2] = r.call /\ r.shard = ShardOf[r.arg[1]]
               /\ r.op = "delete" => r.arg \in told' /\ r.shard = r.arg.id[1]
               /\ \A d \in Callers : call'[d].number = r.call =>
                    r.op = call'[d].op /\ (r.op = "delete" => r.arg = call'[d].target)
    <3>1. r.call \in 1..calls
      BY <1>1, <2>2 DEF RequestInv
    <3>2. r.call # k.number
      BY <1>2, <1>3, <3>1
    <3>3. QED
      BY <1>1, <1>2, <1>4, <2>2, <3>1, <3>2 DEF RequestInv
  <2>3. QED
    BY <1>2, <2>1, <2>2 DEF RequestInv
<1>14. NumberInv'
  <2>1. \A d \in Callers : IF call'[d].at = "idle" THEN call'[d] = Idle
                           ELSE call'[d].number \in 1..(calls + 1)
    BY <1>1, <1>2, <1>3, <1>4 DEF NumberInv
  <2>2. \A d \in Callers : d # c => call'[d].number # calls + 1
    BY <1>1, <1>2, <1>4, IdleIsACall DEF NumberInv
  <2>3. \A d, e \in Callers : call'[d].number = call'[e].number /\ call'[d].number # 0 => d = e
    BY <1>1, <1>3, <1>4, <2>2 DEF NumberInv
  <2>4. QED
    BY <1>2, <2>1, <2>3 DEF NumberInv
<1>15. InsertInv' /\ DeleteInv'
  BY <1>1, <1>2, <1>3, <1>4, <1>7 DEF InsertInv, DeleteInv, Still
<1>16. SearchInv'
  BY <1>1, <1>3, <1>4, <1>7 DEF SearchInv
<1>17. CompactInv'
  <2>1. Heard(c)' = {} /\ \A d \in Callers : d # c => Heard(d)' = Heard(d)
    BY <1>3, <1>4 DEF Heard
  <2>2. \A d \in Callers : Heard(d) \subseteq Shards
    BY <1>1 DEF Heard, Types, Calls, Answers
  <2>3. QED
    BY <1>1, <1>3, <1>4, <1>7, <2>1, <2>2 DEF CompactInv
<1>18. QED
  BY <1>7, <1>9, <1>10, <1>11, <1>12, <1>13, <1>14, <1>15, <1>16, <1>17 DEF KeptAside

(* A call that inserts nothing begins.                                     *)
LEMMA BeginOther ==
  ASSUME StoredInv, NEW c \in Callers, NEW k, NEW requests, Begins(c, k, requests),
         k.op # "insert", k.batch = << >>,
         past'.tried = past.tried, past'.retried = past.retried, past'.erased = past.erased
  PROVE  StoredInv'
<1>1. /\ KeptAside' /\ LiveCopies' = LiveCopies /\ Spent' \subseteq Spent
      /\ Requested' = Requested \cup {r.arg : r \in {q \in requests : q.op = "insert"}}
      /\ Planned' \subseteq Planned \cup {<<k.batch[i], k.number>> : i \in 2..Len(k.batch)}
  BY BeginStep
<1>2. Requested' = Requested
  <2>1. \A r \in requests : r.op # "insert"
    BY DEF Begins, Asks
  <2>2. QED
    BY <1>1, <2>1
<1>3. Planned' \subseteq Planned
  <2>1. 2..Len(k.batch) = {}
    OBVIOUS
  <2>2. QED
    BY <1>1, <2>1
<1>4. AttemptInv /\ ErasedInv /\ calls \in Nat /\ calls' = calls + 1
  BY DEF StoredInv, Types, Begins
<1>5. AttemptInv'
  <2>1. Attempts' = Spent' \cup Requested' \cup Planned' /\ Attempts = Spent \cup Requested \cup Planned
    BY DEF Attempts
  <2>2. Attempts' \subseteq Attempts /\ Attempts \subseteq Stored
    BY <1>1, <1>2, <1>3, <2>1, AttemptsAreStored
  <2>3. \A copy \in Attempts : copy[2] <= calls + 1
    BY <1>4, <2>2 DEF AttemptInv, Stored
  <2>4. Spent' \cap Requested' = {} /\ Spent' \cap Planned' = {} /\ Requested' \cap Planned' = {}
    BY <1>1, <1>2, <1>3, <1>4 DEF AttemptInv
  <2>5. QED
    BY <1>4, <2>2, <2>3, <2>4 DEF AttemptInv
<1>6. ErasedInv'
  BY <1>1, <1>2, <1>3, <1>4, ErasedStays
<1>7. QED
  BY <1>1, <1>5, <1>6 DEF KeptAside, StoredInv

(* The records that the calls begin with.                                  *)
LEMMA IdleFields ==
  /\ Idle \in Calls /\ Idle.at = "idle" /\ Idle.op = "none" /\ Idle.number = 0
  /\ Idle.dead = {} /\ Idle.must = {} /\ Idle.may = {} /\ Idle.heard = {}
  /\ Idle.batch = << >> /\ Idle.got = {}
BY IdleIsACall

(* An insert,                                                              *)
LEMMA InsertBegins ==
  ASSUME NEW b \in Seq(Vectors), NEW record, record = [Idle EXCEPT !.op = "insert", !.batch = b]
  PROVE  /\ record \in Calls /\ record.heard = {} /\ record.got = {} /\ record.op = "insert"
         /\ record.batch = b /\ record.dead = {}
BY IdleFields DEF Calls, Ops

(* a delete,                                                               *)
LEMMA DeleteBegins ==
  ASSUME NEW t \in Knowns, NEW record, record = [Idle EXCEPT !.op = "delete", !.target = t]
  PROVE  /\ record \in Calls /\ record.heard = {} /\ record.got = {} /\ record.op = "delete"
         /\ record.target = t /\ record.batch = << >> /\ record.dead = {}
BY IdleFields DEF Calls, Ops

(* a compaction.                                                           *)
LEMMA CompactBegins ==
  ASSUME NEW dead, dead \subseteq Stored, NEW record, record = [Idle EXCEPT !.op = "compact", !.dead = dead]
  PROVE  /\ record \in Calls /\ record.heard = {} /\ record.got = {} /\ record.op = "compact"
         /\ record.batch = << >> /\ record.dead = dead
BY IdleFields DEF Calls, Ops

(* An insert that begins keeps the invariant: its copies have a new        *)
(* number, so they are new; a vector with another copy is noted as tried   *)
(* again.                                                                  *)
LEMMA InsertStep ==
  ASSUME StoredInv, NEW c \in Callers, Insert(c)
  PROVE  StoredInv'
<1>1. PICK b \in Batches :
        /\ Begin(c, [Idle EXCEPT !.op = "insert", !.batch = b], {InsertRequest(calls + 1, Head(b))})
        /\ past' = [past EXCEPT !.tried = @ \cup ToSet(b), !.settled = @ \cup ToSet(b),
                                !.retried = @ \cup (past.tried \cap ToSet(b))]
  BY DEF Insert
<1> DEFINE n == calls + 1
           j == [Idle EXCEPT !.op = "insert", !.batch = b]
           k == [j EXCEPT !.at = "waiting", !.number = n]
           q == InsertRequest(n, Head(b))
           new == {<<b[i], n>> : i \in 1..Len(b)}
<1>2. b # << >> /\ b \in Seq(Vectors) /\ IsInjective(b)
  BY StoreAssumption
<1>3. Head(b) = b[1] /\ b[1] \in Vectors /\ Len(b) \in Nat /\ 1 \in 1..Len(b)
      /\ ToSet(b) \subseteq Vectors /\ \A i \in 1..Len(b) : b[i] \in ToSet(b)
  BY <1>2 DEF ToSet
<1>4. past \in Pasts /\ calls \in Nat /\ AttemptInv /\ ErasedInv
  BY DEF StoredInv, Types
<1>5. /\ past' \in Pasts /\ past'.generation = past.generation /\ past'.victims = past.victims
      /\ past'.tried = past.tried \cup ToSet(b) /\ past'.erased = past.erased
      /\ past'.retried = past.retried \cup (past.tried \cap ToSet(b))
  BY <1>1, <1>3, <1>4 DEF Pasts
<1>6. /\ k \in Calls /\ k.at = "waiting" /\ k.number = n /\ k.heard = {} /\ k.got = {}
      /\ k.op = "insert" /\ k.batch = b /\ k.dead = {}
  <2>1. /\ j \in Calls /\ j.heard = {} /\ j.got = {} /\ j.op = "insert"
        /\ j.batch = b /\ j.dead = {}
    BY <1>2, InsertBegins
  <2>2. n \in Nat
    BY <1>4
  <2>3. k = [j EXCEPT !.at = "waiting", !.number = n]
    OBVIOUS
  <2> HIDE DEF n, j, k
  <2>4. QED
    BY <2>1, <2>2, <2>3 DEF Calls
<1>7. /\ q = [call |-> n, shard |-> ShardOf[b[1]], op |-> "insert", arg |-> <<b[1], n>>]
      /\ q \in Requests /\ <<b[1], n>> \in Stored
  BY <1>3, <1>4, StoreAssumption DEF InsertRequest, Request, Requests, Stored, Ops
<1>8. Asks(q, k)
  BY <1>6, <1>7 DEF Asks
<1>9. /\ call[c].at = "idle" /\ call' = [call EXCEPT ![c] = k]
      /\ calls' = n /\ net' = net \cup {q} /\ index' = index /\ told' = told
  BY <1>1 DEF Begin
<1> HIDE DEF k, q
<1>10. Begins(c, k, {q})
  BY <1>2, <1>5, <1>6, <1>8, <1>9 DEF Begins, Prepared, Still
<1>11. /\ KeptAside' /\ LiveCopies' = LiveCopies /\ Spent' \subseteq Spent
       /\ Requested' = Requested \cup {r.arg : r \in {p \in {q} : p.op = "insert"}}
       /\ Planned' \subseteq Planned \cup {<<k.batch[i], k.number>> : i \in 2..Len(k.batch)}
  BY <1>10, BeginStep
<1>12. Requested' = Requested \cup {<<b[1], n>>}
  BY <1>7, <1>11
<1> DEFINE later == {<<b[i], n>> : i \in 2..Len(b)}
<1>13. Planned' \subseteq Planned \cup later
  BY <1>6, <1>11
<1>14. <<b[1], n>> \notin later /\ later \subseteq new /\ <<b[1], n>> \in new
  BY <1>2, <1>3 DEF IsInjective
<1>15. \A copy \in new : copy[2] = n /\ copy[1] \in ToSet(b) /\ copy = <<copy[1], n>>
  BY <1>3
<1>16. Attempts \subseteq Stored /\ \A copy \in Attempts : copy[2] <= calls /\ copy[1] \in past.tried
  BY <1>4, AttemptsAreStored DEF AttemptInv
<1>17. Attempts \cap new = {} /\ \A copy \in Attempts : copy[2] <= n
  BY <1>4, <1>15, <1>16 DEF Stored
<1> HIDE DEF later, new
<1>18. Attempts = Spent \cup Requested \cup Planned /\ Attempts' = Spent' \cup Requested' \cup Planned'
  BY DEF Attempts
<1>19. Attempts' \subseteq Attempts \cup new
  BY <1>11, <1>12, <1>13, <1>14, <1>18
<1>20. AttemptInv'
  <2>1. Spent' \cap Requested' = {} /\ Spent' \cap Planned' = {} /\ Requested' \cap Planned' = {}
    BY <1>4, <1>11, <1>12, <1>13, <1>14, <1>17, <1>18 DEF AttemptInv
  <2>2. \A copy \in Attempts' : copy[2] <= n /\ copy[1] \in past'.tried
    BY <1>4, <1>5, <1>15, <1>16, <1>17, <1>19
  <2>3. \A x, y \in Attempts' : x[1] = y[1] /\ x[1] \notin past'.retried => x = y
    <3>1. ASSUME NEW x \in Attempts, NEW y \in new, x[1] = y[1]
          PROVE  x[1] \in past'.retried
      BY <1>5, <1>15, <1>16, <3>1
    <3>2. \A x, y \in new : x[1] = y[1] => x = y
      BY <1>15
    <3>3. \A x, y \in Attempts : x[1] = y[1] /\ x[1] \notin past'.retried => x = y
      BY <1>4, <1>5 DEF AttemptInv
    <3>4. QED
      BY <1>19, <3>1, <3>2, <3>3
  <2>4. QED
    BY <1>9, <2>1, <2>2, <2>3 DEF AttemptInv
<1>21. ErasedInv'
  <2>1. ASSUME NEW v \in past'.erased \ past'.retried
        PROVE  v \in past'.tried /\ \A copy \in LiveCopies' \cup Requested' \cup Planned' : copy[1] # v
    <3>1. v \in past.tried /\ \A copy \in LiveCopies \cup Requested \cup Planned : copy[1] # v
      BY <1>4, <1>5, <2>1 DEF ErasedInv
    <3>2. v \notin ToSet(b)
      BY <1>5, <2>1, <3>1
    <3>3. LiveCopies' \cup Requested' \cup Planned' \subseteq LiveCopies \cup Requested \cup Planned \cup new
      BY <1>11, <1>12, <1>13, <1>14
    <3>4. QED
      BY <1>5, <1>15, <3>1, <3>2, <3>3
  <2>2. QED
    BY <2>1 DEF ErasedInv
<1>22. QED
  BY <1>11, <1>20, <1>21 DEF KeptAside, StoredInv

(* A delete that begins keeps it,                                          *)
LEMMA DeleteStep ==
  ASSUME StoredInv, NEW c \in Callers, Delete(c)
  PROVE  StoredInv'
<1>1. PICK t \in told : Begin(c, [Idle EXCEPT !.op = "delete", !.target = t],
                              {Request(calls + 1, ShardPart(t.id), "delete", t)})
  BY DEF Delete
<1> DEFINE n == calls + 1
           j == [Idle EXCEPT !.op = "delete", !.target = t]
           k == [j EXCEPT !.at = "waiting", !.number = n]
           q == Request(n, ShardPart(t.id), "delete", t)
<1>2. past \in Pasts /\ calls \in Nat /\ t \in Knowns /\ past' = past
  BY DEF StoredInv, Types, Delete
<1>3. /\ k \in Calls /\ k.at = "waiting" /\ k.number = n /\ k.heard = {} /\ k.got = {}
      /\ k.op = "delete" /\ k.target = t /\ k.batch = << >> /\ k.dead = {}
  <2>1. /\ j \in Calls /\ j.heard = {} /\ j.got = {} /\ j.op = "delete"
        /\ j.batch = << >> /\ j.dead = {} /\ j.target = t
    BY <1>2, DeleteBegins
  <2>2. n \in Nat
    BY <1>2
  <2>3. k = [j EXCEPT !.at = "waiting", !.number = n]
    OBVIOUS
  <2> HIDE DEF n, j, k
  <2>4. QED
    BY <2>1, <2>2, <2>3 DEF Calls
<1>4. /\ q = [call |-> n, shard |-> t.id[1], op |-> "delete", arg |-> t] /\ q \in Requests
  BY <1>2 DEF Request, ShardPart, Requests, Knowns, Ops
<1>5. Asks(q, k)
  BY <1>3, <1>4 DEF Asks
<1>6. /\ call[c].at = "idle" /\ call' = [call EXCEPT ![c] = k]
      /\ calls' = n /\ net' = net \cup {q} /\ index' = index /\ told' = told
  BY <1>1 DEF Begin
<1> HIDE DEF k, q
<1>7. Begins(c, k, {q})
  BY <1>2, <1>3, <1>5, <1>6 DEF Begins, Prepared, Still
<1>8. QED
  BY <1>2, <1>3, <1>7, BeginOther

(* The requests of a call to all shards.                                   *)
LEMMA ToAll ==
  ASSUME StoredInv, NEW op \in {"search", "compact"}, NEW k, k.number = calls + 1, k.op = op,
         NEW r \in {Request(calls + 1, s, op, None) : s \in Shards}
  PROVE  Asks(r, k)
<1>1. PICK s \in Shards : r = [call |-> calls + 1, shard |-> s, op |-> op, arg |-> None]
  BY DEF Request
<1>2. calls \in Nat
  BY DEF StoredInv, Types
<1>3. r \in Requests /\ r.op = op /\ r.call = calls + 1
  BY <1>1, <1>2 DEF Requests, Ops
<1>4. QED
  BY <1>3 DEF Asks

(* and a search, which must find what is told and live,                    *)
LEMMA SearchStep ==
  ASSUME StoredInv, NEW c \in Callers, Search(c)
  PROVE  StoredInv'
<1> DEFINE n == calls + 1
           j == [Idle EXCEPT !.op = "search", !.must = ToldCopies \cap LiveCopies, !.may = LiveCopies]
           k == [j EXCEPT !.at = "waiting", !.number = n]
           qs == {Request(n, s, "search", None) : s \in Shards}
<1>1. /\ call[c].at = "idle" /\ call' = [call EXCEPT ![c] = k]
      /\ calls' = n /\ net' = net \cup qs /\ index' = index /\ told' = told
      /\ past' = [past EXCEPT !.rounds["search"] = @ + 1]
  BY DEF Search, BeginAll, Begin
<1>2. past \in Pasts /\ calls \in Nat /\ StoreInv
  BY DEF StoredInv, Types
<1>3. /\ past' \in Pasts /\ past'.generation = past.generation /\ past'.victims = past.victims
      /\ past'.tried = past.tried /\ past'.erased = past.erased /\ past'.retried = past.retried
  BY <1>1, <1>2 DEF Pasts
<1>4. LiveCopies \subseteq Stored
  BY <1>2, LiveCopiesAre DEF StoreInv
<1>5. /\ k \in Calls /\ k.at = "waiting" /\ k.number = n /\ k.heard = {} /\ k.got = {}
      /\ k.op = "search" /\ k.batch = << >> /\ k.dead = {}
      /\ k.must = ToldCopies \cap LiveCopies /\ k.may = LiveCopies
  <2>1. /\ j \in Calls /\ j.heard = {} /\ j.got = {} /\ j.op = "search"
        /\ j.batch = << >> /\ j.dead = {}
        /\ j.must = ToldCopies \cap LiveCopies /\ j.may = LiveCopies
    <3> DEFINE must == ToldCopies \cap LiveCopies
    <3>1. must \subseteq Stored /\ j = [Idle EXCEPT !.op = "search", !.must = must, !.may = LiveCopies]
      BY <1>4
    <3> HIDE DEF must, j
    <3>2. /\ j \in Calls /\ j.heard = {} /\ j.got = {} /\ j.op = "search"
          /\ j.batch = << >> /\ j.dead = {} /\ j.must = must /\ j.may = LiveCopies
      BY <1>4, <3>1, IdleFields DEF Calls, Ops
    <3>3. QED
      BY <3>2 DEF must
  <2>2. n \in Nat
    BY <1>2
  <2>3. k = [j EXCEPT !.at = "waiting", !.number = n]
    OBVIOUS
  <2> HIDE DEF n, j, k
  <2>4. QED
    BY <2>1, <2>2, <2>3 DEF Calls
<1> HIDE DEF k
<1>6. \A r \in qs : Asks(r, k)
  BY <1>5, ToAll
<1> HIDE DEF qs
<1>7. Prepared(k)
  BY <1>5 DEF Prepared
<1>8. Begins(c, k, qs)
  BY <1>1, <1>3, <1>6, <1>7 DEF Begins, Still
<1>9. QED
  BY <1>3, <1>5, <1>8, BeginOther

(* and a compaction, which wants gone what is deleted now.                 *)
LEMMA CompactStep ==
  ASSUME StoredInv, NEW c \in Callers, Compact(c)
  PROVE  StoredInv'
<1> DEFINE n == calls + 1
           j == [Idle EXCEPT !.op = "compact", !.dead = DeadCopies]
           k == [j EXCEPT !.at = "waiting", !.number = n]
           qs == {Request(n, s, "compact", None) : s \in Shards}
<1>1. /\ call[c].at = "idle" /\ call' = [call EXCEPT ![c] = k]
      /\ calls' = n /\ net' = net \cup qs /\ index' = index /\ told' = told
      /\ past' = [past EXCEPT !.rounds["compact"] = @ + 1]
  BY DEF Compact, BeginAll, Begin
<1>2. past \in Pasts /\ calls \in Nat /\ StoreInv
  BY DEF StoredInv, Types
<1>3. /\ past' \in Pasts /\ past'.generation = past.generation /\ past'.victims = past.victims
      /\ past'.tried = past.tried /\ past'.erased = past.erased /\ past'.retried = past.retried
  BY <1>1, <1>2 DEF Pasts
<1>4. DeadCopies = UNION {DeadOf(s) : s \in Shards}
  BY DEF DeadCopies, DeadOf
<1>5. DeadCopies \subseteq RowCopies /\ DeadCopies \subseteq Stored
  BY <1>2, <1>4 DEF StoreInv, RowCopies
<1>6. DeadCopies \cap LiveCopies = {}
  <2>1. ASSUME NEW s \in Shards, NEW t \in Shards, NEW copy \in DeadOf(s), copy \in LiveOf(t)
        PROVE  FALSE
    <3>1. s = t
      BY <1>2, <2>1 DEF StoreInv
    <3>2. QED
      BY <1>2, <2>1, <3>1, CopiesAreRows
  <2>2. QED
    BY <1>2, <1>4, <2>1, LiveCopiesAre
<1>7. /\ k \in Calls /\ k.at = "waiting" /\ k.number = n /\ k.heard = {} /\ k.got = {}
      /\ k.op = "compact" /\ k.batch = << >> /\ k.dead = DeadCopies
  <2>1. /\ j \in Calls /\ j.heard = {} /\ j.got = {} /\ j.op = "compact"
        /\ j.batch = << >> /\ j.dead = DeadCopies
    BY <1>5, CompactBegins
  <2>2. n \in Nat
    BY <1>2
  <2>3. k = [j EXCEPT !.at = "waiting", !.number = n]
    OBVIOUS
  <2> HIDE DEF n, j, k
  <2>4. QED
    BY <2>1, <2>2, <2>3 DEF Calls
<1> HIDE DEF k
<1>8. \A r \in qs : Asks(r, k)
  BY <1>7, ToAll
<1> HIDE DEF qs
<1>9. Prepared(k)
  BY <1>5, <1>6, <1>7 DEF Prepared
<1>10. Begins(c, k, qs)
  BY <1>1, <1>3, <1>8, <1>9 DEF Begins, Still
<1>11. QED
  BY <1>3, <1>7, <1>10, BeginOther
-----------------------------------------------------------------------------
(* The shards are empty in the beginning.                                  *)
LEMMA EmptyShards ==
  ASSUME Init
  PROVE  StoreInv /\ LiveCopies = {} /\ RowCopies = {}
<1>1. \A s \in Shards : index[s] = EmptyIndex
  BY DEF Init
<1>2. /\ Sound(EmptyIndex) /\ EmptyIndex.nextId = 0
      /\ DOMAIN EmptyIndex.nodes = {} /\ DOMAIN EmptyIndex.vectors = {}
  BY EmptyIsSound DEF EmptyIndex, Sound, Tables
<1>3. Distinct(EmptyIndex)
  BY <1>2 DEF Distinct
<1>4. LiveVectors(EmptyIndex) = {} /\ DeadVectors(EmptyIndex) = {}
  BY <1>2, LiveOnes DEF LiveVectors, DeadVectors, Sound, Tables
<1>5. \A s \in Shards : LiveOf(s) = {} /\ DeadOf(s) = {}
  BY <1>1, <1>2, <1>3, <1>4, CopiesOfSound DEF LiveOf, DeadOf
<1>6. StoreInv
  BY <1>1, <1>2, <1>3, <1>5 DEF StoreInv
<1>7. LiveCopies = {} /\ RowCopies = {}
  BY <1>5 DEF LiveCopies, LiveOf, RowCopies
<1>8. QED
  BY <1>6, <1>7

(* The invariant holds in the beginning.                                   *)
LEMMA InitialState ==
  ASSUME Init
  PROVE  StoredInv
<1>1. /\ DOMAIN index = Shards /\ net = {} /\ told = {} /\ calls = 0
      /\ call = [c \in Callers |-> Idle]
  BY DEF Init
<1>2. /\ past \in Pasts /\ past.erased = {}
  BY DEF Init, Pasts
<1>3. \A c \in Callers : call[c] = Idle
  BY <1>1
<1>4. Types
  BY <1>1, <1>2, IdleIsACall DEF Types
<1>5. StoreInv /\ RowCopies = {}
  BY EmptyShards
<1>6. AllKnown = {} /\ KnownCopies = {}
  <2>1. AllKnown = {}
    BY <1>1, <1>3, IdleIsACall DEF AllKnown
  <2>2. QED
    BY <2>1 DEF KnownCopies
<1>7. SeenDead = {} /\ Requested = {}
  BY <1>1, <1>3, IdleIsACall DEF SeenDead, Requested
<1>8. Planned = {}
  <2>1. \A c \in Callers : PlannedBy(c) = {}
    BY <1>3, IdleIsACall DEF PlannedBy
  <2>2. QED
    BY <2>1 DEF Planned
<1>9. AttemptInv
  BY <1>5, <1>6, <1>7, <1>8 DEF AttemptInv, Attempts, Spent
<1>10. RequestInv /\ NumberInv /\ KnownInv
  BY <1>1, <1>3, <1>6, IdleIsACall DEF RequestInv, NumberInv, KnownInv
<1>11. InsertInv /\ DeleteInv /\ SearchInv /\ CompactInv
  BY <1>3, IdleIsACall DEF InsertInv, DeleteInv, SearchInv, CompactInv
<1>12. ErasedInv
  BY <1>2 DEF ErasedInv
<1>13. QED
  BY <1>4, <1>5, <1>9, <1>10, <1>11, <1>12 DEF StoredInv

(* A step that changes nothing keeps it.                                   *)
LEMMA Stutter ==
  ASSUME StoredInv, UNCHANGED vars
  PROVE  StoredInv'
<1>1. /\ index' = index /\ net' = net /\ calls' = calls /\ call' = call
      /\ told' = told /\ past' = past
  BY DEF vars
<1>2. Still
  BY <1>1 DEF Still
<1>3. /\ Types /\ StoreInv /\ AttemptInv /\ RequestInv /\ NumberInv /\ KnownInv
      /\ InsertInv /\ DeleteInv /\ SearchInv /\ CompactInv /\ ErasedInv
  BY DEF StoredInv
<1>4. AllKnown' = AllKnown
  BY <1>1 DEF AllKnown, Learned
<1>5. /\ StoreInv' /\ LiveCopies' = LiveCopies /\ RowCopies' = RowCopies
      /\ \A s \in Shards : LiveOf(s)' = LiveOf(s) /\ DeadOf(s)' = DeadOf(s)
      /\ KnownInv' /\ KnownCopies' \subseteq KnownCopies
  BY <1>2, <1>3, <1>4, StillStep, KnownStays
<1>6. Requested' = Requested /\ Planned' = Planned /\ SeenDead' = SeenDead
  BY <1>1 DEF Requested, Planned, PlannedBy, SeenDead
<1>7. AttemptInv'
  <2>1. Spent' \subseteq Spent
    BY <1>5, <1>6 DEF Spent
  <2>2. QED
    BY <1>1, <1>3, <1>6, <2>1, FewerAttempts
<1>8. Types' /\ RequestInv' /\ NumberInv' /\ InsertInv'
  BY <1>1, <1>3 DEF Types, RequestInv, NumberInv, InsertInv
<1>9. DeleteInv' /\ SearchInv'
  BY <1>1, <1>3, <1>5 DEF DeleteInv, SearchInv
<1>10. CompactInv'
  <2>1. \A c \in Callers : Heard(c)' = Heard(c) /\ Heard(c) \subseteq Shards
    BY <1>1, <1>3 DEF Heard, Types, Calls, Answers
  <2>2. QED
    BY <1>1, <1>3, <1>5, <2>1 DEF CompactInv
<1>11. ErasedInv'
  BY <1>1, <1>3, <1>5, <1>6, ErasedStays
<1>12. QED
  BY <1>5, <1>7, <1>8, <1>9, <1>10, <1>11 DEF StoredInv

(* Every step keeps it.                                                    *)
LEMMA AnyStep ==
  ASSUME StoredInv, [Next]_vars
  PROVE  StoredInv'
<1>1. CASE Execute
  BY <1>1, ExecuteStep
<1>2. CASE UNCHANGED vars
  BY <1>2, Stutter
<1>3. ASSUME NEW c \in Callers, Insert(c) \/ Delete(c) \/ Search(c) \/ Compact(c)
      PROVE  StoredInv'
  BY <1>3, InsertStep, DeleteStep, SearchStep, CompactStep
<1>4. ASSUME NEW c \in Callers, Proceed(c)
      PROVE  StoredInv'
  BY <1>4, InsertAnsweredStep, DeleteAnsweredStep, RaisesStep, ShardFailsStep, ReturnsStep DEF Proceed
<1>5. QED
  BY <1>1, <1>2, <1>3, <1>4 DEF Next

(* The invariant holds, for any callers, shards, batches and calls,        *)
(* however requests are delayed, lost or executed late                     *)
(* (client/sharded_client.py, client/client.py).                           *)
THEOREM StoreIsKept == Spec => []StoredInv
<1>1. Init => StoredInv
  BY InitialState
<1>2. StoredInv /\ [Next]_vars => StoredInv'
  BY AnyStep
<1>3. QED
  BY <1>1, <1>2, PTL DEF Spec

(* A composite id denotes the vector it was told for until its shard is    *)
(* compacted (sharded_client.py:18-20, core/index.py:530).                 *)
THEOREM IdsStayValid == Spec => []IdsHoldBetweenCompactions
<1>1. StoredInv => IdsHoldBetweenCompactions
  <2>1. ASSUME StoredInv, NEW t \in told, t.generation = past.generation[t.id[1]]
        PROVE  Row(index[t.id[1]], t.id[2]) = t.copy
    <3> DEFINE s == t.id[1]
    <3>1. t \in AllKnown /\ StoreInv /\ KnownInv
      BY <2>1 DEF AllKnown, StoredInv
    <3>2. t \in Knowns /\ Valid(t)
      BY <3>1 DEF KnownInv
    <3>3. s \in Shards /\ t.id[2] \in Nat /\ index[s].nextId \in Nat
      BY <3>1, <3>2 DEF Knowns, StoreInv, Sound, Tables
    <3>4. t.id[2] < index[s].nextId /\ index[s].vectors[t.id[2]] = t.copy
      BY <2>1, <3>2 DEF Valid
    <3>5. Row(index[s], t.id[2]) = index[s].vectors[t.id[2]]
      BY <3>1, <3>3, <3>4, CopiesAreRows
    <3>6. QED
      BY <3>4, <3>5
  <2>2. QED
    BY <2>1 DEF IdsHoldBetweenCompactions, ShardPart, LocalPart
<1>2. QED
  BY <1>1, StoreIsKept, PTL

(* A vector whose id was returned is there until a delete hits it,         *)
(* through all late requests and compactions.                              *)
THEOREM ToldVectorsAreKept == Spec => []ToldVectorsStay
<1>1. StoredInv => ToldVectorsStay
  BY DEF StoredInv, KnownInv, AllKnown, Valid, ToldVectorsStay, ToldCopies
<1>2. QED
  BY <1>1, StoreIsKept, PTL

(* A vector that a caller has deleted under a valid id does not come       *)
(* back, unless it was inserted again after an exception                   *)
(* (client.py:23-26).                                                      *)
THEOREM ErasedStayAway == Spec => []ErasedStaysAway
<1>1. StoredInv => ErasedStaysAway
  BY DEF StoredInv, ErasedInv, ErasedStaysAway
<1>2. QED
  BY <1>1, StoreIsKept, PTL

(* A search returns, of the shards that answered, all that was known when  *)
(* it began and stayed, and nothing deleted before (README.md:229-231).    *)
THEOREM SearchesAreFresh == Spec => []SearchIsFresh
<1>1. StoredInv => SearchIsFresh
  <2>1. ASSUME StoredInv, NEW c \in Callers, call[c].op = "search"
        PROVE  LET found == {t.copy : t \in UNION {a.body : a \in call[c].heard}} IN
               /\ {copy \in call[c].must : ShardOf[copy[1]] \in Heard(c)} \subseteq found
               /\ found \subseteq call[c].may
    <3>1. \A a \in call[c].heard :
            /\ \A t \in a.body : t.copy \in call[c].may
            /\ \A copy \in call[c].must : ShardOf[copy[1]] = a.shard => \E t \in a.body : t.copy = copy
      BY <2>1 DEF StoredInv, SearchInv
    <3>2. QED
      BY <3>1 DEF Heard
  <2>2. QED
    BY <2>1 DEF SearchIsFresh
<1>2. QED
  BY <1>1, StoreIsKept, PTL

(* When compact() returns, what was deleted before it began is gone from   *)
(* all the shards (sharded_client.py:169-171).                             *)
THEOREM CompactionPurges == Spec => []CompactPurges
<1>1. StoredInv => CompactPurges
  <2>1. ASSUME StoredInv, NEW c \in Callers, call[c].op = "compact", call[c].at = "returned"
        PROVE  call[c].dead \cap DeadCopies = {}
    <3>1. \A s \in Shards : call[c].dead \cap DeadOf(s) = {}
      BY <2>1 DEF StoredInv, CompactInv
    <3>2. DeadCopies = UNION {DeadOf(s) : s \in Shards}
      BY DEF DeadCopies, DeadOf
    <3>3. QED
      BY <3>1, <3>2
  <2>2. QED
    BY <2>1 DEF CompactPurges
<1>2. QED
  BY <1>1, StoreIsKept, PTL
=============================================================================
