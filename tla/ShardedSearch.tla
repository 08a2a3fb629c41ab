---------------------------- MODULE ShardedSearch ----------------------------
(***************************************************************************)
(* client/sharded_client.py: search(), compact() and health() of threads   *)
(* that share one ShardedVectorDBClient.  Each call submits one request    *)
(* per shard to the pool of workers; a request that is not answered keeps  *)
(* its worker until the HTTP client gives up, also when the call that made *)
(* it has returned long ago.                                               *)
(*                                                                         *)
(* What a shard stores is fixed, a set of distances to the query.  insert  *)
(* and delete are forwarded to one shard and touch nothing that is here.   *)
(***************************************************************************)
EXTENDS Naturals, Sequences, FiniteSets, SequencesExt

CONSTANTS Callers,   \* threads
          NumShards, \* n_shards
          Workers,   \* max_workers of the pool
          Stored,    \* for each shard, the distances of its vectors
          K,         \* k
          Kinds,     \* the methods called
          MaxCalls   \* bound: calls

Shards == 1..NumShards

ASSUME ShardedAssumption ==
  /\ {NumShards, Workers, K} \subseteq Nat \ {0}
  /\ MaxCalls \in Nat
  /\ Kinds \subseteq {"search", "compact", "health"}
  /\ Stored \in [Shards -> SUBSET Nat] /\ \A s \in Shards : IsFiniteSet(Stored[s])
  /\ \A s, t \in Shards : s # t => Stored[s] \cap Stored[t] = {}

VARIABLES queue,      \* the pool's queue: requests
          request,    \* for each call and shard, how far its request is;
                      \* "none" when it is over and nobody will look at it
          calls,      \* number of calls so far
          call,       \* the call each thread is in
          lastErrors  \* self.last_search_errors: its keys

vars == <<queue, request, calls, call, lastErrors>>

(* A search collects answers at "waiting", looks over the futures at       *)
(* "scanning" when the time is up, and sorts the hits at "merging".        *)
Idle == [at     |-> "idle",
         kind   |-> "none",
         number |-> 0,
         strict |-> FALSE,  \* require_all_shards
         merged |-> {},     \* shards that contributed their hits
         errors |-> {},     \* shards that are recorded as failed
         todo   |-> << >>,  \* futures still to look at
         late   |-> FALSE]  \* the time was up before all were yielded

Init ==
  /\ queue = << >>
  /\ request = [n \in 1..MaxCalls |-> [s \in Shards |-> "none"]]
  /\ calls = 0
  /\ call = [c \in Callers |-> Idle]
  /\ lastErrors = {}

(* self.shards by index; fault for the checks: off by one.                 *)
InOrderFromZero == [s \in Shards |-> s - 1]
InOrder == [s \in Shards |-> s]

Finished(c, s) == request[call[c].number][s] \in {"answered", "failed"}
Failed(c, s)   == request[call[c].number][s] = "failed"

At(c, kinds, place) == call[c].kind \in kinds /\ call[c].at = place

pool == <<queue, request, calls>>

(* The call ends; its unfinished requests stay in the pool.                *)
Leave(c) ==
  /\ call' = [call EXCEPT ![c] = Idle]
  /\ request' = [request EXCEPT ![call[c].number] =
                   [s \in Shards |-> IF Finished(c, s) THEN "none" ELSE @[s]]]
  /\ UNCHANGED <<queue, calls>>
-----------------------------------------------------------------------------
(* The pool                                                                *)

Running == {r \in (1..MaxCalls) \X Shards : request[r[1]][r[2]] = "running"}

(* An idle worker takes the first request of the queue.                    *)
Take ==
  /\ queue # << >> /\ Cardinality(Running) < Workers
  /\ LET r == Head(queue) IN request' = [request EXCEPT ![r[1]][r[2]] = "running"]
  /\ queue' = Tail(queue)
  /\ UNCHANGED <<calls, call, lastErrors>>

(* The shard answers, or the request fails: refused, HTTP error, timeout.  *)
Complete ==
  /\ \E r \in Running, outcome \in {"answered", "failed"} :
       request' = [request EXCEPT ![r[1]][r[2]] =
                     IF \E c \in Callers : call[c].number = r[1] THEN outcome ELSE "none"]
  /\ UNCHANGED <<queue, calls, call, lastErrors>>
-----------------------------------------------------------------------------
(* The calls                                                               *)

Submit(c) ==
  /\ call[c].at = "idle" /\ calls < MaxCalls
  /\ calls' = calls + 1
  /\ \E kind \in Kinds, strict \in BOOLEAN :
       /\ strict => kind = "search"
       /\ call' = [call EXCEPT ![c] = [Idle EXCEPT
            !.at = "waiting", !.kind = kind, !.number = calls', !.strict = strict,
            !.todo = InOrder]]
  /\ queue' = queue \o [s \in Shards |-> <<calls', s>>]
  /\ request' = [request EXCEPT ![calls'] = [s \in Shards |-> "queued"]]
  /\ UNCHANGED lastErrors

(* The shards whose future was yielded: each left a trace.                 *)
Yielded(c) == call[c].merged \cup call[c].errors

(* as_completed yields a finished future: its hits are merged, or the      *)
(* exception is recorded.                                                  *)
(* (YieldAndStop is a fault for the checks: an exception ends the loop.)   *)
YieldThen(c, afterFailure) ==
  /\ At(c, {"search"}, "waiting")
  /\ \E s \in Shards \ Yielded(c) :
       /\ Finished(c, s)
       /\ call' = [call EXCEPT
            ![c].merged = IF Failed(c, s) THEN @ ELSE @ \cup {s},
            ![c].errors = IF Failed(c, s) THEN @ \cup {s} ELSE @,
            ![c].at     = IF Failed(c, s) THEN afterFailure ELSE @]
  /\ UNCHANGED <<pool, lastErrors>>

YieldAndStop(c) == YieldThen(c, "merging")
Yield(c)        == YieldThen(c, "waiting")

AllYielded(c) ==
  /\ At(c, {"search"}, "waiting") /\ Yielded(c) = Shards
  /\ call' = [call EXCEPT ![c].at = "merging"]
  /\ UNCHANGED <<pool, lastErrors>>

(* as_completed raises TimeoutError as soon as it looks at the clock after *)
(* the deadline, before it collects what has finished meanwhile.           *)
(* (NoTimeout is a fault for the checks.)                                  *)
NoTimeout(c) == FALSE
TimeUp(c) ==
  /\ At(c, {"search"}, "waiting") /\ Yielded(c) # Shards
  /\ call' = [call EXCEPT ![c].at = "scanning", ![c].late = TRUE]
  /\ UNCHANGED <<pool, lastErrors>>

(* The futures are asked one by one whether they are done.                 *)
(* (ScanBlindly is a fault for the checks: done() is not asked.)           *)
ScanFor(c, blamed) ==
  /\ At(c, {"search"}, "scanning") /\ call[c].todo # << >>
  /\ call' = [call EXCEPT ![c].errors = @ \cup blamed, ![c].todo = Tail(@)]
  /\ UNCHANGED <<pool, lastErrors>>

ScanBlindly(c) == ScanFor(c, {Head(call[c].todo)})
Scan(c)        == ScanFor(c, {s \in {Head(call[c].todo)} : ~ Finished(c, s)})

AllScanned(c) ==
  /\ At(c, {"search"}, "scanning") /\ call[c].todo = << >>
  /\ call' = [call EXCEPT ![c].at = "merging"]
  /\ UNCHANGED <<pool, lastErrors>>

(* merged.sort() and merged[:k]: the n-th of S has n - 1 before it.        *)
Rank(S, d) == Cardinality({e \in S : e < d})
Nth(S, n)  == CHOOSE d \in S : Rank(S, d) = n - 1
Top(S)     == [n \in 1..(IF Cardinality(S) < K THEN Cardinality(S) ELSE K) |-> Nth(S, n)]

(* Fault for the checks: each shard is asked for one hit only.             *)
NearestOf(s) == ToSet(SubSeq(Top(Stored[s]), 1, 1))

(* What a shard returns: its own k nearest.                                *)
HitsOf(s) == ToSet(Top(Stored[s]))

(* What the search returns: the k nearest of the hits.                     *)
Result(c) == Top(UNION {HitsOf(s) : s \in call[c].merged})

(* last_search_errors is set; the search raises, or returns its result.    *)
Merge(c) ==
  /\ At(c, {"search"}, "merging")
  /\ lastErrors' = call[c].errors
  /\ IF call[c].errors # {} /\ (call[c].strict \/ call[c].errors = Shards)
     THEN Leave(c)
     ELSE call' = [call EXCEPT ![c].at = "returned"] /\ UNCHANGED pool

(* compact() and health() wait for the futures in the order of the shards; *)
(* compact() raises the first exception, health() notes it.                *)
Gather(c) ==
  /\ At(c, {"compact", "health"}, "waiting") /\ call[c].todo # << >>
  /\ LET s == Head(call[c].todo) IN
     /\ Finished(c, s)
     /\ IF Failed(c, s) /\ call[c].kind = "compact"
        THEN Leave(c)
        ELSE call' = [call EXCEPT ![c].todo = Tail(@)] /\ UNCHANGED pool
  /\ UNCHANGED lastErrors

AllGathered(c) ==
  /\ At(c, {"compact", "health"}, "waiting") /\ call[c].todo = << >>
  /\ call' = [call EXCEPT ![c].at = "returned"]
  /\ UNCHANGED <<pool, lastErrors>>

Return(c) ==
  /\ call[c].at = "returned"
  /\ Leave(c)
  /\ UNCHANGED lastErrors

Proceed(c) ==
  \/ Yield(c) \/ AllYielded(c) \/ TimeUp(c) \/ Scan(c) \/ AllScanned(c) \/ Merge(c)
  \/ Gather(c) \/ AllGathered(c) \/ Return(c)

Next ==
  \/ Take \/ Complete
  \/ \E c \in Callers : Submit(c) \/ Proceed(c)

Spec == Init /\ [][Next]_vars

(* The calling threads are scheduled; of the shards nothing is assumed.    *)
FairSpec == Spec /\ \A c \in Callers : WF_vars(Proceed(c))
-----------------------------------------------------------------------------
Call == [at     : {"idle", "waiting", "scanning", "merging", "returned"},
         kind   : Kinds \cup {"none"},
         number : 0..MaxCalls,
         strict : BOOLEAN,
         merged : SUBSET Shards,
         errors : SUBSET Shards,
         todo   : Seq(Shards),
         late   : BOOLEAN]

TypeOK ==
  /\ queue \in Seq((1..MaxCalls) \X Shards)
  /\ request \in [1..MaxCalls ->
       [Shards -> {"none", "queued", "running", "answered", "failed"}]]
  /\ calls \in 0..MaxCalls
  /\ call \in [Callers -> Call]
  /\ lastErrors \subseteq Shards

Returned(c) == call[c].kind = "search" /\ call[c].at = "returned"

(* The k nearest of what each shard returns are the k nearest of all that  *)
(* the merged shards store, in order of distance (sharded_client.py:15-17, *)
(* "merges results by distance, returns the global top-k").                *)
MergeIsGlobalTopK ==
  \A c \in Callers : Returned(c) => Result(c) = Top(UNION {Stored[s] : s \in call[c].merged})

(* No shard both contributes to a result and is blamed for having failed,  *)
(* however its answer and the timeout race.                                *)
BlameIsNotShared ==
  \A c \in Callers : call[c].merged \cap call[c].errors = {}

(* A search accounts for every shard, by its hits or by an error, except   *)
(* for one whose request ended when the time was up: as_completed drops it *)
(* and future.done() hides it.  Without such a one, a search that requires *)
(* all the shards returns the hits of all of them (sharded_client.py:      *)
(* 120-122, "for callers who need a recall guarantee").                    *)
NothingIsForgotten ==
  \A c \in Callers : Returned(c) =>
     LET forgotten == Shards \ (call[c].merged \cup call[c].errors) IN
     /\ forgotten # {} => call[c].late /\ \A s \in forgotten : Finished(c, s)
     /\ call[c].strict => call[c].merged \cup forgotten = Shards

(* Every search returns or raises, though shards may hang and the pool be  *)
(* full of the requests of others.                                         *)
SearchReturns ==
  \A c \in Callers : call[c].kind = "search" ~> call[c].kind = "none"
=============================================================================
