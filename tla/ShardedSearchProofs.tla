------------------------- MODULE ShardedSearchProofs -------------------------
(***************************************************************************)
(* Proofs about ShardedSearch, for any number of callers, shards, workers  *)
(* and calls: a search never blames a shard whose hits it has merged (Inv);*)
(* it forgets none but one that ended with the time (Accounts); and what it*)
(* merges is the global top k.  For the last, the place of an item in the  *)
(* merged order is the number of smaller items, its rank; an item of the   *)
(* global top k has at most as great a rank among the items of its shard.  *)
(***************************************************************************)
EXTENDS ShardedSearch, Integers, FiniteSetTheorems, TLAPS

(***************************************************************************)
(* Induction without operators as parameters: a predicate is given by the  *)
(* set of the numbers that have it, so that the provers instantiate the    *)
(* lemmas.                                                                 *)
(***************************************************************************)
(* A non-empty set of natural numbers has a least element.                 *)
LEMMA LeastNumber ==
  ASSUME NEW T \in SUBSET Nat, T # {}
  PROVE  \E m \in T : \A k \in T : m <= k
<1> DEFINE Less == {p \in Nat \X Nat : p[1] < p[2]}
<1>1. OpToRel(<, Nat) = Less
  BY Zenon DEF OpToRel
<1>2. IsWellFoundedOn(Less, Nat)
  BY <1>1, NatLessThanWellFounded
<1>3. \A k, m \in Nat : k < m => <<k, m>> \in Less
  OBVIOUS
<1> HIDE DEF Less
<1>4. PICK m \in T : \A k \in T : <<k, m>> \notin Less
  BY <1>2, WFMin, Zenon
<1>5. ASSUME NEW k \in T
      PROVE  m <= k
  <2>1. k \in Nat /\ m \in Nat
    OBVIOUS
  <2>2. ~ (k < m)
    BY <2>1, <1>3, <1>4, Zenon
  <2>3. QED
    BY <2>1, <2>2
<1>6. QED
  BY <1>5

(* Induction up to n: T holds of 0 and, with a number, of the next.        *)
LEMMA UpTo ==
  ASSUME NEW n \in Nat, NEW T,
         0 \in T,
         \A k \in 1..n : k - 1 \in T => k \in T
  PROVE  0..n \subseteq T
<1> SUFFICES ASSUME NEW x \in 0..n, x \notin T PROVE FALSE
  OBVIOUS
<1> DEFINE Outside == {k \in 0..n : k \notin T}
<1>1. Outside \in SUBSET Nat /\ Outside # {}
  OBVIOUS
<1>2. PICK m \in Outside : \A k \in Outside : m <= k
  <2> HIDE DEF Outside
  <2>1. QED
    BY <1>1, LeastNumber
<1>3. m \in 1..n /\ m - 1 \in 0..n
  OBVIOUS
<1>4. m - 1 \in T
  BY <1>2, <1>3
<1>5. QED
  BY <1>3, <1>4

-----------------------------------------------------------------------------
(* The requests there can be.                                              *)
Requests == (1..MaxCalls) \X Shards

(* The requests of a call are its own.                                     *)
OwnNumbers ==
  \A c \in Callers :
     /\ call[c].number <= calls
     /\ call[c].number = 0 <=> call[c].at = "idle"
     /\ \A d \in Callers : call[c].number = call[d].number => c = d \/ call[c].number = 0

(* A request is in the queue once, and only until a worker takes it.       *)
QueuedOnce ==
  /\ \A i \in 1..Len(queue) : request[queue[i][1]][queue[i][2]] = "queued"
  /\ \A i, j \in 1..Len(queue) : queue[i] = queue[j] => i = j
  /\ \A i \in 1..Len(queue) : queue[i][1] <= calls

(* A shard whose hits were merged has answered, and stays so: it is found  *)
(* done() by the scan after the timeout.                                   *)
MergedAnswered ==
  \A c \in Callers : \A s \in call[c].merged : request[call[c].number][s] = "answered"

(* A thread in no call holds nothing.                                      *)
IdleIsEmpty == \A c \in Callers : call[c].at = "idle" => call[c] = Idle

(* The inductive invariant of BlameIsNotShared.                            *)
Inv == TypeOK /\ OwnNumbers /\ QueuedOnce /\ IdleIsEmpty /\ MergedAnswered /\ BlameIsNotShared

(* It holds in the beginning.                                              *)
LEMMA InvInit == Init => Inv
  BY ShardedAssumption
     DEF Init, Inv, TypeOK, OwnNumbers, QueuedOnce, IdleIsEmpty, MergedAnswered,
         BlameIsNotShared, Idle, Shards, Call

(* Whoever has merged hits is in a call.                                   *)
LEMMA MergedNumbers ==
  ASSUME Inv, NEW c \in Callers, NEW s \in call[c].merged
  PROVE  call[c].number \in 1..MaxCalls /\ s \in Shards
<1>1. call[c] \in Call /\ call[c].at # "idle"
  BY DEF Inv, TypeOK, IdleIsEmpty, Idle
<1>2. QED
  BY <1>1 DEF Inv, OwnNumbers, Call

LEMMA TakeStep ==
  ASSUME Inv, Take
  PROVE  Inv'
<1> USE DEF Inv, Take
<1> DEFINE r == Head(queue)
<1>1. r \in Requests /\ queue' \in Seq(Requests) /\ Len(queue) > 0 /\ r = queue[1]
  BY DEF TypeOK, Requests
<1>2. request' \in [1..MaxCalls -> [Shards -> {"none", "queued", "running", "answered", "failed"}]]
  BY <1>1 DEF TypeOK, Requests
<1>3. TypeOK'
  BY <1>1, <1>2 DEF TypeOK, Requests
<1>4. \A n \in 1..MaxCalls, s \in Shards :
         request'[n][s] = IF <<n, s>> = r THEN "running" ELSE request[n][s]
  BY <1>1 DEF TypeOK, Requests
<1>5. Len(queue') = Len(queue) - 1 /\ \A i \in 1..Len(queue') : queue'[i] = queue[i + 1]
  BY <1>1 DEF TypeOK, Requests
<1>6. QueuedOnce'
  <2>1. \A i \in 1..Len(queue') : i + 1 \in 1..Len(queue) /\ queue[i + 1] \in Requests
    BY <1>1, <1>5 DEF TypeOK, Requests
  <2>2. \A i \in 1..Len(queue') : queue'[i] # r /\ queue'[i] \in Requests
    BY <1>1, <1>5, <2>1 DEF QueuedOnce
  <2>3. \A q \in Requests : q = <<q[1], q[2]>> /\ q[1] \in 1..MaxCalls /\ q[2] \in Shards
    BY DEF Requests
  <2>4. \A q \in Requests : q # r => request'[q[1]][q[2]] = request[q[1]][q[2]]
    BY <1>1, <1>4, <2>3
  <2>5. QED
    BY <1>5, <2>1, <2>2, <2>4 DEF QueuedOnce
<1>7. MergedAnswered'
  <2>1. request[r[1]][r[2]] = "queued"
    BY <1>1 DEF QueuedOnce
  <2>2. \A n \in 1..MaxCalls, s \in Shards :
           request[n][s] = "answered" => request'[n][s] = "answered"
    BY <1>4, <2>1
  <2>3. QED
    BY <2>2, MergedNumbers DEF MergedAnswered
<1>8. QED
  BY <1>3, <1>6, <1>7 DEF OwnNumbers, IdleIsEmpty, BlameIsNotShared

LEMMA CompleteStep ==
  ASSUME Inv, Complete
  PROVE  Inv'
<1> USE DEF Inv
<1>1. PICK r \in Requests, outcome \in {"answered", "failed", "none"} :
        /\ request[r[1]][r[2]] = "running"
        /\ request' = [request EXCEPT ![r[1]][r[2]] = outcome]
  BY DEF Complete, Running, Requests
<1>2. UNCHANGED <<queue, calls, call, lastErrors>>
  BY DEF Complete
<1>3. /\ r[1] \in 1..MaxCalls /\ r[2] \in Shards
      /\ \A n \in 1..MaxCalls, s \in Shards :
           request'[n][s] = IF n = r[1] /\ s = r[2] THEN outcome ELSE request[n][s]
  BY <1>1 DEF TypeOK, Requests
<1>4. TypeOK'
  BY <1>1, <1>2, <1>3 DEF TypeOK
<1>5. QueuedOnce'
  <2>1. \A i \in 1..Len(queue) : queue[i][1] \in 1..MaxCalls /\ queue[i][2] \in Shards
    BY DEF TypeOK
  <2>2. QED
    BY <1>1, <1>2, <1>3, <2>1 DEF QueuedOnce
<1>6. MergedAnswered'
  BY <1>1, <1>2, <1>3, MergedNumbers DEF MergedAnswered
<1>7. QED
  BY <1>2, <1>4, <1>5, <1>6 DEF OwnNumbers, IdleIsEmpty, BlameIsNotShared

(* A call changes nothing but its own record.                              *)
LEMMA CallStep ==
  ASSUME Inv, NEW c \in Callers,
         UNCHANGED pool, lastErrors' \subseteq Shards,
         call' = [call EXCEPT ![c] = call'[c]],
         call'[c] \in Call,
         call[c].at # "idle", call'[c].at # "idle",
         call'[c].number = call[c].number,
         call'[c].merged \cap call'[c].errors = {},
         \A s \in call'[c].merged : request[call[c].number][s] = "answered"
  PROVE  Inv'
<1> USE DEF Inv, pool
<1>1. /\ call' \in [Callers -> Call]
      /\ \A d \in Callers : d # c => call'[d] = call[d]
  BY DEF TypeOK
<1>2. TypeOK' /\ QueuedOnce'
  BY <1>1 DEF TypeOK, QueuedOnce
<1>3. OwnNumbers'
  BY <1>1 DEF OwnNumbers
<1>4. IdleIsEmpty' /\ MergedAnswered' /\ BlameIsNotShared'
  BY <1>1 DEF IdleIsEmpty, MergedAnswered, BlameIsNotShared
<1>5. QED
  BY <1>2, <1>3, <1>4

(* A call is over, and so are its finished requests.                       *)
LEMMA LeaveStep ==
  ASSUME Inv, NEW c \in Callers, Leave(c),
         call[c].at # "idle", lastErrors' \subseteq Shards
  PROVE  Inv'
<1> USE DEF Inv
<1> DEFINE n == call[c].number
<1>1. n \in 1..MaxCalls
  BY DEF TypeOK, OwnNumbers, Call
<1>2. /\ queue' = queue /\ calls' = calls
      /\ call' \in [Callers -> Call] /\ call'[c] = Idle
      /\ \A d \in Callers : d # c => call'[d] = call[d]
  BY ShardedAssumption DEF Leave, TypeOK, Idle, Call
<1>3. /\ request' \in [1..MaxCalls -> [Shards -> {"none", "queued", "running", "answered", "failed"}]]
      /\ \A s \in Shards :
           request'[n][s] = IF request[n][s] \in {"answered", "failed"} THEN "none" ELSE request[n][s]
      /\ \A k \in 1..MaxCalls : k # n => request'[k] = request[k]
  BY <1>1 DEF Leave, Finished, TypeOK
<1>4. TypeOK'
  BY <1>2, <1>3 DEF TypeOK
<1>5. OwnNumbers'
  <2>1. call'[c].number = 0 /\ call'[c].at = "idle" /\ calls \in Nat
    BY <1>2 DEF Idle, TypeOK
  <2>2. ASSUME NEW d \in Callers, d # c
        PROVE  /\ call'[d].number <= calls'
               /\ call'[d].number = 0 <=> call'[d].at = "idle"
    BY <1>2, <2>2 DEF OwnNumbers
  <2>3. ASSUME NEW d \in Callers, NEW e \in Callers, call'[d].number = call'[e].number
        PROVE  d = e \/ call'[d].number = 0
    BY <1>2, <2>1, <2>3 DEF OwnNumbers
  <2>4. QED
    BY <1>2, <2>1, <2>2, <2>3 DEF OwnNumbers
<1>6. QueuedOnce'
  <2>1. \A i \in 1..Len(queue) : queue[i][1] \in 1..MaxCalls /\ queue[i][2] \in Shards
    BY DEF TypeOK
  <2>2. QED
    BY <1>2, <1>3, <2>1 DEF QueuedOnce
<1>7. IdleIsEmpty' /\ BlameIsNotShared'
  BY <1>2 DEF IdleIsEmpty, BlameIsNotShared, Idle
<1>8. MergedAnswered'
  <2>1. ASSUME NEW d \in Callers, d # c, NEW s \in call[d].merged
        PROVE  request'[call[d].number][s] = "answered"
    BY <1>3, <2>1, MergedNumbers DEF MergedAnswered, OwnNumbers
  <2>2. QED
    BY <1>2, <2>1 DEF MergedAnswered, Idle
<1>9. QED
  BY <1>4, <1>5, <1>6, <1>7, <1>8

LEMMA SubmitStep ==
  ASSUME Inv, NEW c \in Callers, Submit(c)
  PROVE  Inv'
<1> USE DEF Inv
<1> DEFINE sent == [s \in Shards |-> <<calls', s>>]
<1>1. /\ calls \in 0..MaxCalls /\ calls' = calls + 1 /\ calls' \in 1..MaxCalls
      /\ lastErrors' = lastErrors
  BY ShardedAssumption DEF Submit, TypeOK
<1>2. call[c].number = 0 /\ call[c].at = "idle"
  BY DEF Submit, OwnNumbers
<1>3. PICK kind \in Kinds, strict \in BOOLEAN :
        call' = [call EXCEPT ![c] = [Idle EXCEPT
          !.at = "waiting", !.kind = kind, !.number = calls', !.strict = strict, !.todo = InOrder]]
  BY DEF Submit
<1>4. InOrder \in Seq(Shards)
  BY ShardedAssumption DEF InOrder, Shards
<1>5. /\ call' \in [Callers -> Call]
      /\ \A d \in Callers : d # c => call'[d] = call[d]
      /\ call'[c].number = calls' /\ call'[c].at = "waiting"
      /\ call'[c].merged = {} /\ call'[c].errors = {}
  <2>1. call'[c] = [at |-> "waiting", kind |-> kind, number |-> calls', strict |-> strict,
                    merged |-> {}, errors |-> {}, todo |-> InOrder, late |-> FALSE]
    BY <1>3 DEF TypeOK, Idle
  <2>2. call'[c] \in Call
    BY <1>1, <1>4, <2>1 DEF Call
  <2>3. QED
    BY <1>3, <2>1, <2>2 DEF TypeOK
<1>6. /\ sent \in Seq(Requests) /\ Len(sent) = NumShards
      /\ queue' = queue \o sent
  <2>1. NumShards \in Nat /\ Shards = 1..NumShards
    BY ShardedAssumption DEF Shards
  <2>2. sent \in [1..NumShards -> Requests]
    BY <1>1, <2>1 DEF Requests
  <2>3. queue' = queue \o sent
    BY DEF Submit
  <2>4. QED
    BY <2>1, <2>2, <2>3
<1>7. /\ request' \in [1..MaxCalls -> [Shards -> {"none", "queued", "running", "answered", "failed"}]]
      /\ \A s \in Shards : request'[calls'][s] = "queued"
      /\ \A k \in 1..MaxCalls : k # calls' => request'[k] = request[k]
  BY <1>1 DEF Submit, TypeOK
<1>8. TypeOK'
  BY <1>1, <1>5, <1>6, <1>7 DEF TypeOK, Requests
<1>9. OwnNumbers'
  <2>1. \A d \in Callers : call[d].number \in Nat
    BY DEF TypeOK, Call
  <2>2. \A d \in Callers \ {c} : call'[d] = call[d] /\ call[d].number # calls'
    BY <1>1, <1>5, <2>1 DEF OwnNumbers
  <2>3. \A d \in Callers : call'[d].number <= calls'
    BY <1>1, <1>5, <2>1, <2>2 DEF OwnNumbers
  <2>4. QED
    BY <1>1, <1>5, <2>2, <2>3 DEF OwnNumbers
<1>10. QueuedOnce'
  <2>1. Len(queue') = Len(queue) + NumShards
    BY <1>6 DEF TypeOK, Requests
  <2>2. \A i \in 1..Len(queue) :
           queue'[i] = queue[i] /\ queue[i][1] \in 1..MaxCalls /\ queue[i][2] \in Shards
    <3>1. queue \in Seq(Requests)
      BY DEF TypeOK, Requests
    <3>2. \A i \in 1..Len(queue) : queue'[i] = queue[i] /\ queue[i] \in Requests
      BY <1>6, <3>1
    <3>3. QED
      BY <3>2 DEF Requests
  <2>3. \A i \in (Len(queue) + 1)..Len(queue') :
           i - Len(queue) \in Shards /\ queue'[i] = <<calls', i - Len(queue)>>
    <3>1. queue \in Seq(Requests) /\ NumShards \in Nat
      BY ShardedAssumption DEF TypeOK, Requests
    <3>2. \A i \in (Len(queue) + 1)..Len(queue') :
             i - Len(queue) \in Shards /\ queue'[i] = sent[i - Len(queue)]
      BY <1>6, <2>1, <3>1 DEF Shards
    <3>3. QED
      BY <3>2
  <2>4. \A i \in 1..Len(queue) : queue'[i][1] <= calls /\ queue'[i][1] # calls'
    BY <1>1, <2>2 DEF QueuedOnce
  <2>5. \A i \in 1..Len(queue') : i \in 1..Len(queue) \/ i \in (Len(queue) + 1)..Len(queue')
    BY <2>1 DEF TypeOK
  <2>6. \A i \in 1..Len(queue') : request'[queue'[i][1]][queue'[i][2]] = "queued"
    BY <1>7, <2>2, <2>3, <2>4, <2>5 DEF QueuedOnce
  <2>7. \A i, j \in 1..Len(queue') : queue'[i] = queue'[j] => i = j
    <3>1. ASSUME NEW i \in (Len(queue) + 1)..Len(queue'), NEW j \in (Len(queue) + 1)..Len(queue'),
                 queue'[i] = queue'[j]
          PROVE  i = j
      <4>1. i - Len(queue) = j - Len(queue)
        BY <2>3, <3>1
      <4>2. QED
        BY <4>1 DEF TypeOK
    <3>2. \A i \in (Len(queue) + 1)..Len(queue') : queue'[i][1] = calls'
      BY <2>3
    <3>3. QED
      BY <2>2, <2>4, <2>5, <3>1, <3>2 DEF QueuedOnce
  <2>8. \A i \in 1..Len(queue') : queue'[i][1] <= calls'
    BY <1>1, <2>2, <2>3, <2>4, <2>5
  <2>9. QED
    BY <2>6, <2>7, <2>8 DEF QueuedOnce
<1>11. IdleIsEmpty' /\ BlameIsNotShared'
  BY <1>5 DEF IdleIsEmpty, BlameIsNotShared
<1>12. MergedAnswered'
  BY <1>1, <1>5, <1>7, MergedNumbers DEF MergedAnswered, OwnNumbers
<1>13. QED
  BY <1>8, <1>9, <1>10, <1>11, <1>12

(* The steps of a call that goes on.                                       *)
LEMMA YieldStep ==
  ASSUME Inv, NEW c \in Callers, Yield(c)
  PROVE  Inv'
<1> USE DEF Inv
<1>1. PICK s \in Shards \ Yielded(c) :
        /\ Finished(c, s)
        /\ call' = [call EXCEPT
             ![c].merged = IF Failed(c, s) THEN @ ELSE @ \cup {s},
             ![c].errors = IF Failed(c, s) THEN @ \cup {s} ELSE @,
             ![c].at     = IF Failed(c, s) THEN "waiting" ELSE @]
  BY DEF Yield, YieldThen
<1>2. call[c] \in Call /\ call[c].at = "waiting" /\ UNCHANGED <<pool, lastErrors>>
  BY DEF Yield, YieldThen, At, TypeOK
<1>3. /\ call' = [call EXCEPT ![c] = call'[c]]
      /\ call'[c] \in Call
      /\ call'[c].at = "waiting" /\ call'[c].number = call[c].number
      /\ call'[c].merged = IF Failed(c, s) THEN call[c].merged ELSE call[c].merged \cup {s}
      /\ call'[c].errors = IF Failed(c, s) THEN call[c].errors \cup {s} ELSE call[c].errors
  BY <1>1, <1>2 DEF TypeOK, Call
<1>4. call'[c].merged \cap call'[c].errors = {}
  BY <1>1, <1>3 DEF BlameIsNotShared, Yielded
<1>5. \A x \in call'[c].merged : request[call[c].number][x] = "answered"
  BY <1>1, <1>3 DEF MergedAnswered, Finished, Failed
<1>6. QED
  BY <1>2, <1>3, <1>4, <1>5, CallStep DEF TypeOK

LEMMA ScanStep ==
  ASSUME Inv, NEW c \in Callers, Scan(c)
  PROVE  Inv'
<1> USE DEF Inv
<1> DEFINE s == Head(call[c].todo)
<1>1. /\ call[c] \in Call /\ call[c].at = "scanning" /\ UNCHANGED <<pool, lastErrors>>
      /\ call[c].todo # << >>
      /\ call' = [call EXCEPT ![c].errors = @ \cup {x \in {s} : ~ Finished(c, x)},
                              ![c].todo = Tail(@)]
  BY DEF Scan, ScanFor, At, TypeOK
<1>2. s \in Shards /\ Tail(call[c].todo) \in Seq(Shards)
  BY <1>1 DEF Call
<1>3. /\ call' = [call EXCEPT ![c] = call'[c]]
      /\ call'[c] \in Call
      /\ call'[c].at = "scanning" /\ call'[c].number = call[c].number
      /\ call'[c].merged = call[c].merged
      /\ call'[c].errors = call[c].errors \cup {x \in {s} : ~ Finished(c, x)}
  BY <1>1, <1>2 DEF TypeOK, Call
<1>4. call'[c].merged \cap call'[c].errors = {}
  BY <1>3 DEF BlameIsNotShared, MergedAnswered, Finished
<1>5. QED
  BY <1>1, <1>3, <1>4, CallStep DEF TypeOK, MergedAnswered

(* Steps that touch neither the hits nor the errors of a call.             *)
LEMMA PlaceStep ==
  ASSUME Inv, NEW c \in Callers,
         NEW place \in {"merging", "scanning", "returned"}, NEW late \in BOOLEAN,
         call[c].at # "idle", UNCHANGED <<pool, lastErrors>>,
         call' = [call EXCEPT ![c].at = place, ![c].late = late]
  PROVE  Inv'
<1> USE DEF Inv
<1>1. call[c] \in Call
  BY DEF TypeOK
<1>2. /\ call' = [call EXCEPT ![c] = call'[c]]
      /\ call'[c] \in Call
      /\ call'[c].at # "idle" /\ call'[c].number = call[c].number
      /\ call'[c].merged = call[c].merged /\ call'[c].errors = call[c].errors
  BY <1>1 DEF TypeOK, Call
<1>3. QED
  BY <1>1, <1>2, CallStep DEF TypeOK, MergedAnswered, BlameIsNotShared

LEMMA OtherSteps ==
  ASSUME Inv, NEW c \in Callers,
         AllYielded(c) \/ TimeUp(c) \/ AllScanned(c) \/ AllGathered(c)
  PROVE  Inv'
<1>1. call[c] \in Call /\ call \in [Callers -> Call]
  BY DEF Inv, TypeOK
<1>2. ASSUME AllYielded(c) \/ AllScanned(c)
      PROVE  Inv'
  <2>1. call' = [call EXCEPT ![c].at = "merging", ![c].late = call[c].late]
    BY <1>1, <1>2 DEF AllYielded, AllScanned, Call
  <2>2. call[c].late \in BOOLEAN
    BY <1>1 DEF Call
  <2>3. QED
    BY <1>2, <2>1, <2>2, PlaceStep DEF AllYielded, AllScanned, At
<1>3. ASSUME TimeUp(c)
      PROVE  Inv'
  BY <1>3, PlaceStep DEF TimeUp, At
<1>4. ASSUME AllGathered(c)
      PROVE  Inv'
  <2>1. call' = [call EXCEPT ![c].at = "returned", ![c].late = call[c].late]
    BY <1>1, <1>4 DEF AllGathered, Call
  <2>2. call[c].late \in BOOLEAN
    BY <1>1 DEF Call
  <2>3. QED
    BY <1>4, <2>1, <2>2, PlaceStep DEF AllGathered, At
<1>5. QED
  BY <1>2, <1>3, <1>4

LEMMA MergeStep ==
  ASSUME Inv, NEW c \in Callers, Merge(c)
  PROVE  Inv'
<1> USE DEF Inv
<1>1. /\ call[c] \in Call /\ call[c].at = "merging"
      /\ lastErrors' \subseteq Shards
      /\ Leave(c) \/ (call' = [call EXCEPT ![c].at = "returned"] /\ UNCHANGED pool)
  BY DEF Merge, At, TypeOK, Call
<1>2. ASSUME call' = [call EXCEPT ![c].at = "returned"], UNCHANGED pool
      PROVE  Inv'
  <2>1. /\ call' = [call EXCEPT ![c] = call'[c]]
        /\ call'[c] \in Call
        /\ call'[c].at # "idle" /\ call'[c].number = call[c].number
        /\ call'[c].merged = call[c].merged /\ call'[c].errors = call[c].errors
    BY <1>1, <1>2 DEF TypeOK, Call
  <2>2. QED
    BY <1>1, <1>2, <2>1, CallStep DEF MergedAnswered, BlameIsNotShared
<1>3. QED
  BY <1>1, <1>2, LeaveStep

LEMMA GatherStep ==
  ASSUME Inv, NEW c \in Callers, Gather(c)
  PROVE  Inv'
<1> USE DEF Inv
<1>1. /\ call[c] \in Call /\ call[c].at = "waiting" /\ call[c].todo # << >>
      /\ lastErrors' \subseteq Shards
      /\ Leave(c) \/ (call' = [call EXCEPT ![c].todo = Tail(@)] /\ UNCHANGED pool)
  BY DEF Gather, At, TypeOK
<1>2. ASSUME call' = [call EXCEPT ![c].todo = Tail(@)], UNCHANGED pool
      PROVE  Inv'
  <2>1. Tail(call[c].todo) \in Seq(Shards)
    BY <1>1 DEF Call
  <2>2. /\ call' = [call EXCEPT ![c] = call'[c]]
        /\ call'[c] \in Call
        /\ call'[c].at # "idle" /\ call'[c].number = call[c].number
        /\ call'[c].merged = call[c].merged /\ call'[c].errors = call[c].errors
    BY <1>1, <1>2, <2>1 DEF TypeOK, Call
  <2>3. QED
    BY <1>1, <1>2, <2>2, CallStep DEF MergedAnswered, BlameIsNotShared
<1>3. QED
  BY <1>1, <1>2, LeaveStep

LEMMA ReturnStep ==
  ASSUME Inv, NEW c \in Callers, Return(c)
  PROVE  Inv'
  BY LeaveStep DEF Return, Inv, TypeOK

(* Every step keeps it.                                                    *)
LEMMA InvStep == Inv /\ [Next]_vars => Inv'
<1> SUFFICES ASSUME Inv, [Next]_vars PROVE Inv'
  OBVIOUS
<1>1. CASE Take \/ Complete
  BY <1>1, TakeStep, CompleteStep
<1>2. ASSUME NEW c \in Callers, Submit(c)
      PROVE  Inv'
  BY <1>2, SubmitStep
<1>3. ASSUME NEW c \in Callers, Proceed(c)
      PROVE  Inv'
  BY <1>3, YieldStep, ScanStep, OtherSteps, MergeStep, GatherStep, ReturnStep DEF Proceed
<1>4. CASE UNCHANGED vars
  BY <1>4 DEF vars, Inv, TypeOK, OwnNumbers, QueuedOnce, IdleIsEmpty, MergedAnswered,
              BlameIsNotShared
<1>5. QED
  BY <1>1, <1>2, <1>3, <1>4 DEF Next

(* Every variable of the client keeps its type.                            *)
THEOREM ShardedTypes == Spec => []TypeOK
<1>1. Inv => TypeOK
  BY DEF Inv
<1>2. QED
  BY <1>1, InvInit, InvStep, PTL DEF Spec

(* A search never blames a shard whose hits it has merged, however answers *)
(* and the timeout race: sharded_client.py:148-153 records only futures    *)
(* that are not done, and a future once done stays so.                     *)
THEOREM MergedIsNotBlamed == Spec => []BlameIsNotShared
<1>1. Inv => BlameIsNotShared
  BY DEF Inv
<1>2. QED
  BY <1>1, InvInit, InvStep, PTL DEF Spec
-----------------------------------------------------------------------------
(* How a search accounts for its shards: by merged hits and errors until   *)
(* the time is up; then by what is done, or is still to be looked at.      *)
Account(c) ==
  call[c].kind = "search" =>
    /\ call[c].at = "waiting" => ToSet(call[c].todo) = Shards /\ ~ call[c].late
    /\ call[c].at = "scanning" => call[c].late
    /\ call[c].late =>
         \A s \in Shards : s \in call[c].errors \/ s \in ToSet(call[c].todo) \/ Finished(c, s)
    /\ call[c].at \in {"merging", "returned"} =>
         IF call[c].late THEN call[c].todo = << >> ELSE Yielded(c) = Shards
    /\ call[c].at = "returned" /\ call[c].strict => call[c].errors = {}

(* All searches do.                                                        *)
Accounts == \A c \in Callers : Account(c)

(* A future that is done stays done while its call goes on.                *)
LEMMA FinishedStays ==
  ASSUME Inv, [Next]_vars, NEW c \in Callers, call[c].number # 0,
         call'[c].number = call[c].number, NEW s \in Shards, Finished(c, s)
  PROVE  Finished(c, s)'
<1> DEFINE n == call[c].number
<1>1. n \in 1..MaxCalls /\ n <= calls /\ calls \in Nat
  BY DEF Inv, TypeOK, OwnNumbers, Call
<1>2. request[n][s] \in {"answered", "failed"}
  BY DEF Finished
<1>3. request'[n][s] = request[n][s]
  <2>1. CASE Take
    <3>1. /\ queue # << >> /\ queue \in Seq(Requests)
          /\ request' = [request EXCEPT ![Head(queue)[1]][Head(queue)[2]] = "running"]
      BY <2>1 DEF Take, Inv, TypeOK, Requests
    <3>2. request[Head(queue)[1]][Head(queue)[2]] = "queued" /\ Head(queue) \in Requests
      BY <3>1 DEF Inv, QueuedOnce
    <3>3. QED
      BY <1>1, <1>2, <3>1, <3>2 DEF Inv, TypeOK, Requests
  <2>2. CASE Complete
    <3>1. PICK r \in Requests, outcome \in {"answered", "failed", "none"} :
            /\ request[r[1]][r[2]] = "running"
            /\ request' = [request EXCEPT ![r[1]][r[2]] = outcome]
      BY <2>2 DEF Complete, Running, Requests
    <3>2. QED
      BY <1>1, <1>2, <3>1 DEF Inv, TypeOK, Requests
  <2>3. ASSUME NEW d \in Callers, Submit(d)
        PROVE  request'[n][s] = request[n][s]
    <3>1. request' = [request EXCEPT ![calls'] = [t \in Shards |-> "queued"]] /\ calls' = calls + 1
      BY <2>3 DEF Submit
    <3>2. QED
      BY <1>1, <3>1 DEF Inv, TypeOK
  <2>4. ASSUME NEW d \in Callers, Leave(d)
        PROVE  request'[n][s] = request[n][s]
    <3>1. d # c
      <4>1. d = c => call'[c] = Idle
        BY <2>4 DEF Leave, Inv, TypeOK
      <4>2. QED
        BY <4>1 DEF Idle
    <3>2. call[d].number # n
      BY <3>1 DEF Inv, OwnNumbers
    <3>3. QED
      BY <1>1, <2>4, <3>2 DEF Leave, Inv, TypeOK
  <2>5. ASSUME NEW d \in Callers, Proceed(d), ~ Leave(d)
        PROVE  request'[n][s] = request[n][s]
    BY <2>5 DEF Proceed, Yield, YieldThen, AllYielded, TimeUp, Scan, ScanFor, AllScanned, Merge,
                Gather, AllGathered, Return, pool
  <2>6. CASE UNCHANGED vars
    BY <2>6 DEF vars
  <2>7. QED
    BY <2>1, <2>2, <2>3, <2>4, <2>5, <2>6 DEF Next
<1>4. QED
  BY <1>2, <1>3 DEF Finished

(* What others do leaves the account of a search as it is.                 *)
LEMMA AccountKept ==
  ASSUME Inv, [Next]_vars, NEW c \in Callers, call'[c] = call[c], Account(c)
  PROVE  Account(c)'
<1>1. CASE call[c].kind = "search"
  <2>1. call[c].at # "idle"
    BY <1>1 DEF Inv, IdleIsEmpty, Idle
  <2>2. call[c].number # 0
    BY <2>1 DEF Inv, OwnNumbers
  <2>3. \A s \in Shards : Finished(c, s) => Finished(c, s)'
    BY <2>2, FinishedStays
  <2>4. QED
    BY <2>3 DEF Account, Yielded
<1>2. CASE call[c].kind # "search"
  BY <1>2 DEF Account
<1>3. QED
  BY <1>1, <1>2

(* The steps of the search itself.                                         *)
LEMMA AccountStep ==
  ASSUME Inv, [Next]_vars, NEW c \in Callers, Account(c), Submit(c) \/ Proceed(c)
  PROVE  Account(c)'
<1>0. call \in [Callers -> Call] /\ call[c] \in Call
  BY DEF Inv, TypeOK
<1>1. CASE Submit(c)
  <2>1. PICK kind \in Kinds, strict \in BOOLEAN :
          call' = [call EXCEPT ![c] = [Idle EXCEPT
            !.at = "waiting", !.kind = kind, !.number = calls', !.strict = strict,
            !.todo = InOrder]]
    BY <1>1 DEF Submit
  <2>2. call'[c] = [at |-> "waiting", kind |-> kind, number |-> calls', strict |-> strict,
                    merged |-> {}, errors |-> {}, todo |-> InOrder, late |-> FALSE]
    BY <1>0, <2>1 DEF Idle
  <2>3. ToSet(InOrder) = Shards
    BY DEF InOrder, ToSet
  <2>4. QED
    BY <2>2, <2>3 DEF Account
<1>2. CASE Yield(c)
  <2>1. /\ call'[c].at = "waiting" /\ call'[c].todo = call[c].todo
        /\ call'[c].late = call[c].late /\ call[c].at = "waiting" /\ call[c].kind = "search"
    BY <1>0, <1>2 DEF Yield, YieldThen, At, Call
  <2>2. QED
    BY <2>1 DEF Account
<1>3. CASE AllYielded(c)
  <2>1. /\ call[c].at = "waiting" /\ call[c].kind = "search" /\ Yielded(c) = Shards
        /\ call'[c] = [call[c] EXCEPT !.at = "merging"]
    BY <1>0, <1>3 DEF AllYielded, At
  <2>2. /\ call'[c].at = "merging" /\ call'[c].late = call[c].late
        /\ call'[c].merged = call[c].merged /\ call'[c].errors = call[c].errors
    BY <1>0, <2>1 DEF Call
  <2>3. QED
    BY <2>1, <2>2 DEF Account, Yielded
<1>4. CASE TimeUp(c)
  <2>1. /\ call[c].at = "waiting" /\ call[c].kind = "search"
        /\ call'[c].at = "scanning" /\ call'[c].late /\ call'[c].todo = call[c].todo
    BY <1>0, <1>4 DEF TimeUp, At, Call
  <2>2. QED
    BY <2>1 DEF Account
<1>5. CASE Scan(c)
  <2> DEFINE s == Head(call[c].todo)
  <2>1. /\ call[c].at = "scanning" /\ call[c].kind = "search" /\ call[c].todo # << >>
        /\ UNCHANGED pool
    BY <1>5 DEF Scan, ScanFor, At
  <2>2. /\ call'[c].at = "scanning" /\ call'[c].late = call[c].late
        /\ call'[c].number = call[c].number
        /\ call'[c].errors = call[c].errors \cup {t \in {s} : ~ Finished(c, t)}
        /\ call'[c].todo = Tail(call[c].todo)
    BY <1>0, <1>5, <2>1 DEF Scan, ScanFor, Call
  <2>3. \A t \in ToSet(call[c].todo) : t = s \/ t \in ToSet(Tail(call[c].todo))
    <3>1. call[c].todo \in Seq(Shards)
      BY <1>0 DEF Call
    <3>2. \A i \in DOMAIN call[c].todo :
             call[c].todo[i] = s \/ \E j \in DOMAIN Tail(call[c].todo) :
                                       Tail(call[c].todo)[j] = call[c].todo[i]
      <4> SUFFICES ASSUME NEW i \in DOMAIN call[c].todo, i # 1
                   PROVE  \E j \in DOMAIN Tail(call[c].todo) :
                             Tail(call[c].todo)[j] = call[c].todo[i]
        BY <2>1, <3>1
      <4>1. i - 1 \in DOMAIN Tail(call[c].todo) /\ Tail(call[c].todo)[i - 1] = call[c].todo[i]
        BY <2>1, <3>1
      <4>2. QED
        BY <4>1
    <3>3. QED
      BY <3>2 DEF ToSet
  <2>4. \A t \in Shards : Finished(c, t)' = Finished(c, t)
    BY <2>1, <2>2 DEF Finished, pool
  <2> HIDE DEF s
  <2>5. QED
    BY <2>1, <2>2, <2>3, <2>4 DEF Account
<1>6. CASE AllScanned(c)
  <2>1. /\ call[c].at = "scanning" /\ call[c].kind = "search" /\ call[c].todo = << >>
        /\ UNCHANGED pool
    BY <1>6 DEF AllScanned, At
  <2>2. /\ call'[c].at = "merging" /\ call'[c].late = call[c].late
        /\ call'[c].number = call[c].number
        /\ call'[c].errors = call[c].errors /\ call'[c].todo = call[c].todo
    BY <1>0, <1>6 DEF AllScanned, Call
  <2>3. \A t \in Shards : Finished(c, t)' = Finished(c, t)
    BY <2>1, <2>2 DEF Finished, pool
  <2>4. QED
    BY <2>1, <2>2, <2>3 DEF Account
<1>7. ASSUME Leave(c)
      PROVE  Account(c)'
  BY <1>0, <1>7 DEF Leave, Account, Idle
<1>8. CASE Merge(c) /\ ~ Leave(c)
  <2>1. /\ call[c].at = "merging" /\ call[c].kind = "search" /\ UNCHANGED pool
        /\ ~ (call[c].errors # {} /\ call[c].strict)
        /\ call'[c] = [call[c] EXCEPT !.at = "returned"]
    BY <1>0, <1>8 DEF Merge, At
  <2>2. /\ call'[c].at = "returned" /\ call'[c].late = call[c].late
        /\ call'[c].number = call[c].number /\ call'[c].strict = call[c].strict
        /\ call'[c].merged = call[c].merged /\ call'[c].kind = "search"
        /\ call'[c].errors = call[c].errors /\ call'[c].todo = call[c].todo
    BY <1>0, <2>1 DEF Call
  <2>3. \A t \in Shards : Finished(c, t)' = Finished(c, t)
    BY <2>1, <2>2 DEF Finished, pool
  <2>4. QED
    BY <2>1, <2>2, <2>3 DEF Account, Yielded
<1>9. CASE (Gather(c) \/ AllGathered(c)) /\ ~ Leave(c)
  <2>1. call[c].kind # "search" /\ call'[c].kind = call[c].kind
    BY <1>0, <1>9 DEF Gather, AllGathered, At, Call
  <2>2. QED
    BY <2>1 DEF Account
<1>10. CASE Return(c)
  BY <1>7, <1>10 DEF Return
<1>11. QED
  BY <1>1, <1>2, <1>3, <1>4, <1>5, <1>6, <1>7, <1>8, <1>9, <1>10 DEF Proceed

(* Every step keeps the accounts,                                          *)
LEMMA AccountsStep == Inv /\ Accounts /\ [Next]_vars => Accounts'
<1> SUFFICES ASSUME Inv, Accounts, [Next]_vars, NEW c \in Callers
             PROVE  Account(c)'
  BY DEF Accounts
<1>1. CASE call'[c] = call[c]
  BY <1>1, AccountKept DEF Accounts
<1>2. CASE Submit(c) \/ Proceed(c)
  BY <1>2, AccountStep DEF Accounts
<1>3. ASSUME NEW d \in Callers, d # c, Submit(d) \/ Proceed(d)
      PROVE  call'[c] = call[c]
  BY <1>3 DEF Inv, TypeOK, Submit, Proceed, Leave, Yield, YieldThen, AllYielded, TimeUp, Scan,
              ScanFor, AllScanned, Merge, Gather, AllGathered, Return
<1>4. CASE Take \/ Complete \/ UNCHANGED vars
  BY <1>1, <1>4 DEF Take, Complete, vars
<1>5. QED
  BY <1>1, <1>2, <1>3, <1>4 DEF Next

(* and they are right in the beginning.                                    *)
LEMMA AccountsInit == Init => Accounts
  BY DEF Init, Accounts, Account, Idle

(* No shard is forgotten but one whose request ended when the time was up, *)
(* and a search that requires all the shards returns only without errors   *)
(* (sharded_client.py:143-161), for any pool and any order of answers.     *)
THEOREM NoShardIsForgotten == Spec => []NothingIsForgotten
<1>1. Inv /\ Accounts => NothingIsForgotten
  <2> SUFFICES ASSUME Inv, Accounts, NEW c \in Callers, Returned(c)
               PROVE  LET forgotten == Shards \ (call[c].merged \cup call[c].errors) IN
                      /\ forgotten # {} => call[c].late /\ \A s \in forgotten : Finished(c, s)
                      /\ call[c].strict => call[c].merged \cup forgotten = Shards
    BY DEF NothingIsForgotten
  <2>1. call[c].kind = "search" /\ call[c].at = "returned" /\ Account(c)
    BY DEF Returned, Accounts
  <2>2. call[c].merged \subseteq Shards /\ call[c].errors \subseteq Shards
    BY DEF Inv, TypeOK, Call
  <2>3. ToSet(<< >>) = {}
    BY DEF ToSet
  <2>4. QED
    BY <2>1, <2>2, <2>3 DEF Account, Yielded
<1>2. Inv /\ Accounts /\ [Next]_vars => Inv' /\ Accounts'
  BY InvStep, AccountsStep
<1>3. QED
  BY <1>1, <1>2, InvInit, AccountsInit, PTL DEF Spec
-----------------------------------------------------------------------------
(* The rank of a distance is its position when the set is sorted.          *)
LEMMA RanksIncrease ==
  ASSUME NEW S \in SUBSET Nat, IsFiniteSet(S)
  PROVE  /\ \A d : Rank(S, d) \in Nat
         /\ \A d \in S : Rank(S, d) < Cardinality(S)
         /\ \A d, e \in S : d < e => Rank(S, d) < Rank(S, e)
<1> DEFINE Below(d) == {e \in S : e < d}
<1>1. ASSUME NEW d
      PROVE  IsFiniteSet(Below(d)) /\ Rank(S, d) = Cardinality(Below(d)) /\ Rank(S, d) \in Nat
  <2>1. Below(d) \in SUBSET S
    OBVIOUS
  <2>2. QED
    BY <2>1, FS_Subset, FS_CardinalityType DEF Rank
<1>2. ASSUME NEW d \in S, NEW T \in SUBSET S, Below(d) \subseteq T, d \in T
      PROVE  Rank(S, d) < Cardinality(T)
  <2>1. d \notin Below(d)
    OBVIOUS
  <2>2. IsFiniteSet(T) /\ Below(d) \cup {d} \in SUBSET T
    BY <1>2, FS_Subset
  <2> HIDE DEF Below
  <2>3. Cardinality(Below(d) \cup {d}) = Rank(S, d) + 1
    BY <1>1, <2>1, FS_AddElement
  <2>4. Cardinality(Below(d) \cup {d}) <= Cardinality(T) /\ Cardinality(T) \in Nat
    BY <2>2, FS_Subset, FS_CardinalityType
  <2>5. QED
    BY <1>1, <2>3, <2>4
<1>3. \A d \in S : Rank(S, d) < Cardinality(S)
  BY <1>2
<1>4. ASSUME NEW d \in S, NEW e \in S, d < e
      PROVE  Rank(S, d) < Rank(S, e)
  <2>1. Below(e) \in SUBSET S /\ Below(d) \subseteq Below(e) /\ d \in Below(e)
    <3>1. \A x \in S : x < d => x < e
      <4>1. \A x, y, z \in Nat : x < y /\ y < z => x < z
        OBVIOUS
      <4>2. QED
        BY <1>4, <4>1
    <3>2. QED
      BY <1>4, <3>1
  <2> HIDE DEF Below
  <2>2. QED
    BY <1>1, <1>2, <2>1
<1>5. QED
  BY <1>1, <1>3, <1>4

(* Every rank is taken.                                                    *)
LEMMA RanksAreTaken ==
  ASSUME NEW S \in SUBSET Nat, IsFiniteSet(S)
  PROVE  \A i \in 0..(Cardinality(S) - 1) : \E d \in S : Rank(S, d) = i
<1> DEFINE n == Cardinality(S) - 1
           T == {i \in 0..n : \E d \in S : Rank(S, d) = i}
<1>1. Cardinality(S) \in Nat /\ (Cardinality(S) = 0 <=> S = {})
  BY FS_CardinalityType, FS_EmptySet
<1> SUFFICES ASSUME S # {} PROVE 0..n \subseteq T
  BY <1>1
<1>2. n \in Nat
  <2>1. \A c \in Nat : c # 0 => c - 1 \in Nat
    OBVIOUS
  <2>2. QED
    BY <1>1, <2>1
<1>3. 0 \in T
  <2>1. PICK m \in S : \A k \in S : m <= k
    BY LeastNumber
  <2>2. {e \in S : e < m} = {}
    <3>1. \A x, y \in Nat : x <= y => ~ (y < x)
      OBVIOUS
    <3>2. QED
      BY <2>1, <3>1
  <2>3. Rank(S, m) = 0
    BY <2>2, FS_EmptySet DEF Rank
  <2>4. QED
    BY <1>2, <2>3
<1>4. ASSUME NEW k \in 1..n, k - 1 \in T
      PROVE  k \in T
  <2>1. PICK d \in S : Rank(S, d) = k - 1
    BY <1>4
  <2> DEFINE Below == {e \in S : e < d}
             Above == {e \in S : d < e}
  <2>2. /\ IsFiniteSet(Below) /\ Below \in SUBSET S /\ d \notin Below
        /\ Cardinality(Below) = k - 1
    BY <2>1, FS_Subset DEF Rank
  <2>3. S = Below \cup {d} \cup Above /\ Above \in SUBSET Nat
    <3>1. \A x, y \in Nat : x < y \/ x = y \/ y < x
      OBVIOUS
    <3>2. \A x \in S : x < d \/ x = d \/ d < x
      BY <3>1
    <3>3. QED
      BY <3>2
  <2>4. Cardinality(Below \cup {d}) = k
    <3> HIDE DEF Below
    <3>1. Cardinality(Below \cup {d}) = Cardinality(Below) + 1
      BY <2>2, FS_AddElement
    <3>2. k \in Int
      BY <1>2
    <3> HIDE DEF n, T
    <3>3. QED
      BY <2>2, <3>1, <3>2
  <2>5. Above # {}
    <3> HIDE DEF Below, Above
    <3>1. Above = {} => Cardinality(S) = k
      BY <2>3, <2>4
    <3>2. QED
      BY <1>1, <3>1
  <2>6. PICK e \in Above : \A x \in Above : e <= x
    <3> HIDE DEF Above
    <3>1. QED
      BY <2>3, <2>5, LeastNumber
  <2>7. {x \in S : x < e} = Below \cup {d}
    <3>1. \A x, y, z \in Nat : /\ x < y /\ y < z => x < z
                             /\ x <= y => ~ (y < x)
      OBVIOUS
    <3>2. e \in Nat /\ d < e
      OBVIOUS
    <3>3. \A x \in S : x < e => ~ (d < x)
      BY <2>6, <3>1, <3>2
    <3>4. \A x \in S : x < d => x < e
      BY <3>1, <3>2
    <3>5. \A x \in S : x < e => x \in Below \cup {d}
      BY <2>3, <3>3
    <3>6. QED
      BY <3>2, <3>4, <3>5
  <2>8. e \in S /\ Rank(S, e) = k
    BY <2>4, <2>6, <2>7 DEF Rank
  <2>9. QED
    BY <1>2, <2>8
<1> HIDE DEF n, T
<1>5. QED
  BY <1>2, <1>3, <1>4, UpTo

(* The n-th of a set is the one of its elements with that rank.            *)
LEMMA NthHasRank ==
  ASSUME NEW S \in SUBSET Nat, IsFiniteSet(S), NEW n \in 1..Cardinality(S)
  PROVE  /\ Nth(S, n) \in S /\ Rank(S, Nth(S, n)) = n - 1
         /\ \A d \in S : Rank(S, d) = n - 1 => d = Nth(S, n)
<1>1. Cardinality(S) \in Nat
  BY FS_CardinalityType
<1>2. \E d \in S : Rank(S, d) = n - 1
  BY <1>1, RanksAreTaken
<1>3. Nth(S, n) \in S /\ Rank(S, Nth(S, n)) = n - 1
  BY <1>2, Zenon DEF Nth
<1>4. ASSUME NEW d \in S, Rank(S, d) = n - 1
      PROVE  d = Nth(S, n)
  <2>1. d \in Nat /\ Nth(S, n) \in Nat
    BY <1>3
  <2>2. ~ (d < Nth(S, n)) /\ ~ (Nth(S, n) < d)
    <3>1. ~ (n - 1 < n - 1)
      BY <1>1
    <3>2. QED
      BY <1>3, <1>4, <3>1, RanksIncrease
  <2>3. QED
    BY <2>1, <2>2
<1>5. QED
  BY <1>3, <1>4

(* The hits of a search are those with fewer than k before them.           *)
LEMMA TopByRank ==
  ASSUME NEW S \in SUBSET Nat, IsFiniteSet(S)
  PROVE  ToSet(Top(S)) = {d \in S : Rank(S, d) < K}
<1> DEFINE m == IF Cardinality(S) < K THEN Cardinality(S) ELSE K
<1>1. K \in Nat /\ Cardinality(S) \in Nat
  BY ShardedAssumption, FS_CardinalityType
<1>2. ToSet(Top(S)) = {Nth(S, n) : n \in 1..m}
  BY DEF Top, ToSet
<1>3. \A n \in 1..m : n \in 1..Cardinality(S) /\ n - 1 < K
  BY <1>1
<1>4. ASSUME NEW d \in S, Rank(S, d) < K
      PROVE  \E n \in 1..m : d = Nth(S, n)
  <2>1. Rank(S, d) \in Nat /\ Rank(S, d) < Cardinality(S)
    BY RanksIncrease
  <2> DEFINE n == Rank(S, d) + 1
  <2>2. n \in 1..m /\ n \in 1..Cardinality(S) /\ Rank(S, d) = n - 1
    BY <1>1, <1>4, <2>1
  <2> HIDE DEF n, m
  <2>3. d = Nth(S, n)
    BY <2>2, NthHasRank
  <2>4. QED
    BY <2>2, <2>3
<1> HIDE DEF m
<1>5. ASSUME NEW n \in 1..m
      PROVE  Nth(S, n) \in S /\ Rank(S, Nth(S, n)) < K
  BY <1>3, NthHasRank
<1>6. QED
  BY <1>2, <1>4, <1>5

(* Leaving out what is not among the first k changes nothing.              *)
LEMMA TopOfSelection ==
  ASSUME NEW U \in SUBSET Nat, IsFiniteSet(U), NEW H \in SUBSET U,
         \A d \in U : Rank(U, d) < K => d \in H
  PROVE  Top(H) = Top(U)
<1> DEFINE Size(S) == IF Cardinality(S) < K THEN Cardinality(S) ELSE K
<1>1. /\ K \in Nat /\ K > 0
      /\ IsFiniteSet(H) /\ H \in SUBSET Nat /\ Cardinality(H) <= Cardinality(U)
      /\ Cardinality(H) \in Nat /\ Cardinality(U) \in Nat
  <2>1. K \in Nat /\ K > 0
    BY ShardedAssumption
  <2>2. IsFiniteSet(H) /\ Cardinality(H) <= Cardinality(U)
    BY FS_Subset
  <2>3. Cardinality(H) \in Nat /\ Cardinality(U) \in Nat
    BY <2>2, FS_CardinalityType
  <2>4. QED
    BY <2>1, <2>2, <2>3
<1>2. ASSUME NEW d \in U, Rank(U, d) < K
      PROVE  d \in H /\ Rank(H, d) = Rank(U, d)
  <2>1. ASSUME NEW e \in U, e < d
        PROVE  e \in H
    <3>1. Rank(U, e) < Rank(U, d) /\ Rank(U, e) \in Nat /\ Rank(U, d) \in Nat
      BY <2>1, RanksIncrease
    <3>2. Rank(U, e) < K
      BY <1>1, <1>2, <3>1
    <3>3. QED
      BY <3>2
  <2>2. {e \in H : e < d} = {e \in U : e < d}
    BY <2>1
  <2>3. QED
    BY <1>2, <2>2 DEF Rank
<1>3. Size(H) = Size(U)
  <2>1. CASE Cardinality(U) <= K
    <3>1. \A d \in U : Rank(U, d) < K
      BY <1>1, <2>1, RanksIncrease
    <3>2. H = U
      BY <3>1
    <3>3. QED
      BY <3>2
  <2>2. CASE Cardinality(U) > K
    <3>1. K - 1 \in 0..(Cardinality(U) - 1)
      BY <1>1, <2>2
    <3>2. PICK d \in U : Rank(U, d) = K - 1
      BY <3>1, RanksAreTaken
    <3>3. Rank(U, d) < K
      BY <1>1, <3>2
    <3>4. d \in H /\ Rank(H, d) = K - 1
      BY <1>2, <3>2, <3>3
    <3>5. K - 1 < Cardinality(H)
      BY <1>1, <3>4, RanksIncrease
    <3>6. QED
      BY <1>1, <2>2, <3>5
  <2>3. QED
    BY <1>1, <2>1, <2>2
<1>4. ASSUME NEW n \in 1..Size(U)
      PROVE  Nth(H, n) = Nth(U, n)
  <2>1. n \in 1..Cardinality(U) /\ n \in 1..Cardinality(H) /\ n - 1 < K
    BY <1>1, <1>3, <1>4
  <2>2. Nth(U, n) \in U /\ Rank(U, Nth(U, n)) = n - 1
    BY <2>1, NthHasRank
  <2>3. Nth(U, n) \in H /\ Rank(H, Nth(U, n)) = n - 1
    BY <1>2, <2>1, <2>2
  <2>4. \A d \in H : Rank(H, d) = n - 1 => d = Nth(H, n)
    BY <1>1, <2>1, NthHasRank
  <2>5. QED
    BY <2>3, <2>4
<1>5. Top(H) = [n \in 1..Size(H) |-> Nth(H, n)] /\ Top(U) = [n \in 1..Size(U) |-> Nth(U, n)]
  BY DEF Top
<1> HIDE DEF Size
<1>6. QED
  BY <1>3, <1>4, <1>5

(* The k nearest of the hits of some shards are the k nearest of all that  *)
(* these shards store.                                                     *)
LEMMA MergedTop ==
  ASSUME NEW merged \in SUBSET Shards
  PROVE  Top(UNION {HitsOf(s) : s \in merged}) = Top(UNION {Stored[s] : s \in merged})
<1> DEFINE U == UNION {Stored[s] : s \in merged}
           H == UNION {HitsOf(s) : s \in merged}
<1>1. \A s \in merged : Stored[s] \in SUBSET Nat /\ IsFiniteSet(Stored[s])
  BY ShardedAssumption
<1>2. U \in SUBSET Nat
  BY <1>1
<1>3. IsFiniteSet(U)
  <2> DEFINE F == {Stored[s] : s \in merged}
             f == [s \in merged |-> Stored[s]]
  <2>1. IsFiniteSet(merged)
    <3>1. IsFiniteSet(Shards)
      BY ShardedAssumption, FS_Interval DEF Shards
    <3>2. QED
      BY <3>1, FS_Subset
  <2>2. f \in Surjection(merged, F)
    BY DEF Surjection
  <2>3. IsFiniteSet(F)
    BY <2>1, <2>2, FS_Surjection
  <2>4. \A T \in F : IsFiniteSet(T)
    BY <1>1
  <2> HIDE DEF F
  <2>5. IsFiniteSet(UNION F)
    BY <2>3, <2>4, FS_UNION
  <2>6. QED
    BY <2>5 DEF F
<1>4. \A s \in merged : HitsOf(s) = {d \in Stored[s] : Rank(Stored[s], d) < K}
  BY <1>1, TopByRank DEF HitsOf
<1>5. H \in SUBSET U
  BY <1>4
<1>6. ASSUME NEW d \in U, Rank(U, d) < K
      PROVE  d \in H
  <2>1. PICK s \in merged : d \in Stored[s]
    OBVIOUS
  <2>2. Rank(Stored[s], d) <= Rank(U, d)
    <3>1. {e \in U : e < d} \in SUBSET U
      OBVIOUS
    <3>2. IsFiniteSet({e \in U : e < d})
      BY <1>3, <3>1, FS_Subset
    <3>3. {e \in Stored[s] : e < d} \in SUBSET {e \in U : e < d}
      OBVIOUS
    <3> HIDE DEF U
    <3>4. QED
      BY <3>2, <3>3, FS_Subset DEF Rank
  <2>3. Rank(Stored[s], d) \in Nat /\ Rank(U, d) \in Nat /\ K \in Nat
    <3> HIDE DEF U
    <3>1. QED
      BY <1>1, <1>2, <1>3, RanksIncrease, ShardedAssumption
  <2>4. Rank(Stored[s], d) < K
    <3> HIDE DEF U
    <3>1. QED
      BY <1>6, <2>2, <2>3
  <2>5. QED
    BY <1>4, <2>1, <2>4
<1> HIDE DEF U, H
<1>7. Top(H) = Top(U)
  BY <1>2, <1>3, <1>5, <1>6, TopOfSelection
<1>8. QED
  BY <1>7 DEF U, H

(* Asking each shard for its own top k is enough: what the search returns  *)
(* is, in order, what one store of all the vectors of the merged shards    *)
(* would return (sharded_client.py:15-17, 162-163), for any k.             *)
THEOREM MergeIsExact == Spec => []MergeIsGlobalTopK
<1>1. Inv => MergeIsGlobalTopK
  BY MergedTop DEF Inv, TypeOK, Call, MergeIsGlobalTopK, Result
<1>2. QED
  BY <1>1, InvInit, InvStep, PTL DEF Spec
=============================================================================
