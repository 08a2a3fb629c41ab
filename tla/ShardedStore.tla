---------------------------- MODULE ShardedStore ----------------------------
(***************************************************************************)
(* What threads that share a ShardedVectorDBClient (client/sharded_client) *)
(* can rely on: insert, insert_batch, search, delete and compact as HTTP   *)
(* requests (client/client.py) to shards, which the network delays or      *)
(* loses, and which a shard may execute long after the caller gave up.     *)
(*                                                                         *)
(* A shard is an index of IndexStore that executes one request at a time:  *)
(* what concurrent requests and crashes do to a shard is the subject of    *)
(* VectorDatabase and QuantizedIndex.  The pool of the client, the cut at  *)
(* k and last_search_errors are in ShardedSearch.                          *)
(***************************************************************************)
EXTENDS IndexStore, FiniteSets

CONSTANTS Callers,   \* threads
          NumShards, \* n_shards
          Vectors,
          ShardOf,   \* for each vector, the shard its routing key hashes to
          Batches,   \* sequences of vectors that are inserted by one call
          MaxCalls,  \* bound: calls,
          MaxRounds  \* bound: and of these, calls to all shards, of each kind

Shards == 1..NumShards

ASSUME StoreAssumption ==
  /\ NumShards \in Nat \ {0} /\ {MaxCalls, MaxRounds} \subseteq Nat
  /\ ShardOf \in [Vectors -> Shards]
  /\ \A b \in Batches : b # << >> /\ b \in Seq(Vectors) /\ IsInjective(b)
  /\ None \notin Nat

VARIABLES
  index,   \* the index of each shard; a row holds a copy <<vector, call>>
  net,     \* the requests that were sent and not executed
  calls,   \* number of calls so far
  call,    \* the call each thread is in
  told,    \* the ids that callers have been told, with what they denoted
  past     \* what happened so far; the program does not read it

vars == <<index, net, calls, call, told, past>>

Idle == [at     |-> "idle",
         op     |-> "none",
         number |-> 0,
         batch  |-> << >>,  \* vectors still to insert
         got    |-> {},     \* ids of those before
         target |-> None,   \* the id to delete
         heard  |-> {},     \* the answers, and
         failed |-> {},     \* the shards that will not answer
         must   |-> {},     \* copies a search has to find, if their shard answers,
         may    |-> {},     \* and copies it is allowed to find
         dead   |-> {}]     \* copies that were deleted before a compact()

Init ==
  /\ index = [s \in Shards |-> EmptyIndex]
  /\ net = {} /\ told = {}
  /\ calls = 0
  /\ call = [c \in Callers |-> Idle]
  /\ past = [generation |-> [s \in Shards |-> 0],  \* compactions of the shard
             rounds  |-> [op \in {"search", "compact"} |-> 0],
             tried   |-> {},  \* vectors that a call has tried to insert,
             settled |-> {},  \* is trying or has inserted,
             retried |-> {},  \* has tried again after an exception
             victims |-> {},  \* copies that a delete has hit
             erased  |-> {}]  \* vectors that a caller knows it has deleted

(* Fault for the checks: the id of the shard alone.                        *)
BareId(s, local) == <<1, local>>

(* _composite_id(), _parse_composite_id()                                  *)
CompositeId(s, local) == <<s, local>>
ShardPart(id) == id[1]
LocalPart(id) == id[2]

Copies(ix, ids) == {Row(ix, i) : i \in ids}
LiveCopies == UNION {Copies(index[s], Live(index[s])) : s \in Shards}
DeadCopies ==
  UNION {Copies(index[s], DOMAIN index[s].nodes \ Live(index[s])) : s \in Shards}
ToldCopies == {t.copy : t \in told}

Known(s, local, copy) ==
  [id |-> CompositeId(s, local), copy |-> copy, generation |-> past.generation[s]]

Request(n, s, op, arg) == [call |-> n, shard |-> s, op |-> op, arg |-> arg]
InsertRequest(n, v) == Request(n, ShardOf[v], "insert", <<v, n>>)
-----------------------------------------------------------------------------
(* The shards                                                              *)

(* Fault for the checks: tombstoned nodes are hits.                        *)
FoundDeadOrAlive(s) == {Known(s, i, Row(index[s], i)) : i \in DOMAIN index[s].nodes}

(* db.search(), with k beyond the number of vectors.                       *)
Found(s) == {Known(s, i, Row(index[s], i)) : i \in Findable(index[s])}

(* What one request makes of the index of its shard.                       *)
Executed(r) ==
  LET ix == index[r.shard] IN
  CASE r.op = "insert"  -> Link(Reserve(ix, r.arg, 0), ix.nextId)
    [] r.op = "delete"  -> DeleteOf(ix, LocalPart(r.arg.id))
    [] r.op = "compact" -> Rebuilt(LiveRows(ix), [k \in DOMAIN LiveRows(ix) |-> 0])
    [] r.op = "search"  -> ix

Victims(r) ==
  IF r.op = "delete"
  THEN Copies(index[r.shard], {LocalPart(r.arg.id)} \cap Live(index[r.shard])) ELSE {}

(* The body of the answer.                                                 *)
Answer(r) ==
  CASE r.op = "insert"  -> {Known(r.shard, index[r.shard].nextId, r.arg)}
    [] r.op = "delete"  -> Victims(r)
    [] r.op = "compact" -> {}
    [] r.op = "search"  -> Found(r.shard)

(* The answer reaches the caller if that still waits, or is lost.  (What a *)
(* search answers to nobody is of no matter.)                              *)
Deliver(r) ==
  [c \in Callers |->
     IF call[c].number # r.call \/ r.shard \in call[c].failed THEN call[c]
     ELSE [call[c] EXCEPT !.heard = @ \cup {[shard |-> r.shard, body |-> Answer(r)]}]]

Watched(calling, r) ==
  [c \in Callers |-> IF calling[c].op # "search" THEN calling[c] ELSE
     [calling[c] EXCEPT !.must = @ \ Victims(r),
                        !.may = IF r.op = "insert" THEN @ \cup {r.arg} ELSE @]]

Execute ==
  \E r \in net, lost \in BOOLEAN :
    /\ lost => r.op # "search"
    /\ net' = net \ {r}
    /\ index' = [index EXCEPT ![r.shard] = Executed(r)]
    /\ call' = Watched(IF lost THEN call ELSE Deliver(r), r)
    /\ past' = [past EXCEPT !.victims = @ \cup Victims(r),
                            !.generation[r.shard] = IF r.op = "compact" THEN @ + 1 ELSE @]
    /\ UNCHANGED <<calls, told>>
-----------------------------------------------------------------------------
(* The calls                                                               *)

Begin(c, record, requests) ==
  /\ call[c].at = "idle" /\ calls < MaxCalls
  /\ calls' = calls + 1
  /\ call' = [call EXCEPT ![c] = [record EXCEPT !.at = "waiting", !.number = calls']]
  /\ net' = net \cup requests
  /\ UNCHANGED <<index, told>>

(* The call is over, with a result or an exception.                        *)
Leave(c) ==
  /\ call' = [call EXCEPT ![c] = Idle]
  /\ net' = {r \in net : r.op = "search" => r.call # call[c].number}
  /\ UNCHANGED <<index, calls>>

Waits(c, ops) == call[c].at = "waiting" /\ call[c].op \in ops

(* insert(), insert_batch(): one request after the other.  A caller does   *)
(* not insert a vector again unless all that it tried so far has raised.   *)
Insert(c) ==
  \E batch \in Batches :
    /\ ToSet(batch) \cap past.settled = {}
    /\ Begin(c, [Idle EXCEPT !.op = "insert", !.batch = batch],
             {InsertRequest(calls + 1, Head(batch))})
    /\ past' = [past EXCEPT !.tried = @ \cup ToSet(batch), !.settled = @ \cup ToSet(batch),
                            !.retried = @ \cup (past.tried \cap ToSet(batch))]

InsertAnswered(c) ==
  /\ Waits(c, {"insert"})
  /\ \E a \in call[c].heard :
       LET got == call[c].got \cup a.body  rest == Tail(call[c].batch) IN
       IF rest = << >>
       THEN told' = told \cup got /\ Leave(c)
       ELSE /\ call' = [call EXCEPT ![c].got = got, ![c].batch = rest,
                                   ![c].heard = {}]
            /\ net' = net \cup {InsertRequest(call[c].number, Head(rest))}
            /\ UNCHANGED <<index, calls, told>>
  /\ UNCHANGED past

(* The answer does not come in time, or is an error: the exception takes   *)
(* the ids of a batch that were already there with it.                     *)
InsertRaises(c) ==
  /\ Waits(c, {"insert"}) /\ call[c].heard = {}
  /\ Leave(c)
  /\ past' = [past EXCEPT !.settled =
                @ \ (ToSet(call[c].batch) \cup {g.copy[1] : g \in call[c].got})]
  /\ UNCHANGED told

Delete(c) ==
  /\ \E t \in told :
       Begin(c, [Idle EXCEPT !.op = "delete", !.target = t],
             {Request(calls + 1, ShardPart(t.id), "delete", t)})
  /\ UNCHANGED past

(* True, if there was a live node; of the vector that was meant, unless    *)
(* the shard was compacted since its id was told.                          *)
DeleteAnswered(c) ==
  /\ Waits(c, {"delete"})
  /\ \E a \in call[c].heard :
       LET t == call[c].target IN
       past' = [past EXCEPT !.erased =
                  IF a.body # {} /\ t.generation = past.generation[ShardPart(t.id)]
                  THEN @ \cup {t.copy[1]} ELSE @]
  /\ Leave(c)
  /\ UNCHANGED told

DeleteRaises(c) ==
  /\ Waits(c, {"delete"}) /\ call[c].heard = {}
  /\ Leave(c)
  /\ UNCHANGED <<told, past>>

BeginAll(c, op, record) ==
  /\ past.rounds[op] < MaxRounds
  /\ Begin(c, record, {Request(calls + 1, s, op, None) : s \in Shards})
  /\ past' = [past EXCEPT !.rounds[op] = @ + 1]

Search(c) ==
  BeginAll(c, "search", [Idle EXCEPT !.op = "search", !.must = ToldCopies \cap LiveCopies,
                                     !.may = LiveCopies])

Compact(c) == BeginAll(c, "compact", [Idle EXCEPT !.op = "compact", !.dead = DeadCopies])

Heard(c) == {a.shard : a \in call[c].heard}

(* The shard refuses, reports an error, or does not answer in time.        *)
ShardFails(c) ==
  /\ Waits(c, {"search", "compact"})
  /\ \E s \in Shards \ (Heard(c) \cup call[c].failed) :
       /\ call' = [call EXCEPT ![c].failed = @ \cup {s}]
       /\ net' = {r \in net : r.op = "search" => r.call # call[c].number \/ r.shard # s}
  /\ UNCHANGED <<index, calls, told, past>>

(* search() returns what it has, unless all shards failed, or one did and  *)
(* the caller requires all of them.                                        *)
SearchReturns(c) ==
  /\ Waits(c, {"search"})
  /\ Heard(c) \cup call[c].failed = Shards /\ Heard(c) # {}
  /\ call' = [call EXCEPT ![c].at = "returned"]
  /\ told' = told \cup UNION {a.body : a \in call[c].heard}
  /\ UNCHANGED <<index, net, calls, past>>

SearchRaises(c) ==
  /\ Waits(c, {"search"})
  /\ Heard(c) \cup call[c].failed = Shards /\ call[c].failed # {}
  /\ Leave(c)
  /\ UNCHANGED <<told, past>>

(* Fault for the checks: the first result is taken for all of them.        *)
AnyShard(c) == Heard(c) # {}

(* f.result() of every future, in the order of the shards.                 *)
AllShards(c) == Heard(c) = Shards

CompactReturns(c) ==
  /\ Waits(c, {"compact"}) /\ AllShards(c)
  /\ call' = [call EXCEPT ![c].at = "returned"]
  /\ UNCHANGED <<index, net, calls, told, past>>

(* The other shards may be compacted, or will be.                          *)
CompactRaises(c) ==
  /\ Waits(c, {"compact"})
  /\ \E s \in call[c].failed : 1..(s - 1) \subseteq Heard(c)
  /\ Leave(c)
  /\ UNCHANGED <<told, past>>

End(c) == call[c].at = "returned" /\ Leave(c) /\ UNCHANGED <<told, past>>
-----------------------------------------------------------------------------
Proceed(c) ==
  \/ InsertAnswered(c) \/ InsertRaises(c) \/ DeleteAnswered(c) \/ DeleteRaises(c)
  \/ ShardFails(c) \/ SearchReturns(c) \/ SearchRaises(c)
  \/ CompactReturns(c) \/ CompactRaises(c) \/ End(c)

Next ==
  \/ \E c \in Callers : Insert(c) \/ Delete(c) \/ Search(c) \/ Compact(c) \/ Proceed(c)
  \/ Execute

Spec == Init /\ [][Next]_vars
-----------------------------------------------------------------------------
(* A composite id denotes the vector it was told for, also when that is    *)
(* deleted, until its shard is compacted: sharded_client.py:18-20.         *)
(* Compaction gives the ids out anew (core/index.py:530), and no caller is *)
(* told.                                                                   *)
IdsHoldBetweenCompactions ==
  \A t \in told :
    LET s == ShardPart(t.id) IN
    t.generation = past.generation[s] => Row(index[s], LocalPart(t.id)) = t.copy

(* A vector whose id was returned is there until a delete hits it, through *)
(* failed and late requests of others, and compactions of any shard.       *)
ToldVectorsStay == ToldCopies \subseteq LiveCopies \cup past.victims

(* A vector that was deleted under a valid id stays away, unless a caller  *)
(* had inserted it once more after an exception: the first request may be  *)
(* executed all the same (client.py:23-26 has no request ids).             *)
ErasedStaysAway ==
  \A v \in past.erased \ past.retried : v \notin {copy[1] : copy \in LiveCopies}

(* A search that returns has every vector that a caller knew when it began *)
(* and that stayed, of the shards that answered; and none that was deleted *)
(* before ("true nearest neighbor first", README.md:229-231).              *)
SearchIsFresh ==
  \A c \in Callers : call[c].op = "search" /\ call[c].at = "returned" =>
    LET found == {t.copy : t \in UNION {a.body : a \in call[c].heard}} IN
    /\ {copy \in call[c].must : ShardOf[copy[1]] \in Heard(c)} \subseteq found
    /\ found \subseteq call[c].may

(* When compact() returns, what was deleted before is gone from all the    *)
(* shards; it raises as soon as one of them has failed.                    *)
CompactPurges ==
  \A c \in Callers : call[c].op = "compact" /\ call[c].at = "returned" =>
    call[c].dead \cap DeadCopies = {}

=============================================================================
