------------------------------ MODULE HNSWGraph ------------------------------
(***************************************************************************)
(* The graph of core/index.py and core/node.py under several threads:      *)
(* insert() (reserve, then link), search() and delete() on one HNSWIndex.  *)
(* Each read of a neighbor list, each critical section of the index lock   *)
(* or of a node's lock is a step of its own; _connect appends under the    *)
(* lock of the other node, prunes outside it and commits by comparison.    *)
(* Vectors are points of a line.  Compaction is in VectorDatabase.         *)
(***************************************************************************)
EXTENDS HNSWSearch, FiniteSets

CONSTANTS Threads,
          Layout,          \* the points to insert, in order
          Draws,           \* the sequences of levels _random_level() may draw
          Queries,         \* the points to search for
          Filters,         \* what filter_fn may let pass: sets of points
          M,               \* edges of a node per layer, twice that in layer 0
          EfConstruction,  \* results kept by the searches of link()
          EfSearch,        \* and by search(), at least
          K,               \* number of hits a search() asks for
          MaxLevel,        \* bound: the highest layer
          Warmup,          \* bound: so many inserts begin only while all is quiet
          MaxDeletes,      \* bound: calls of delete() that return True
          MaxOthers,       \* bound: calls of delete() and of search()
          None             \* Python's None

Layers == 0..MaxLevel

Positions == ToSet(Layout)

ASSUME ThreadsAssumption == IsFiniteSet(Threads)

ASSUME GraphAssumption ==
  /\ Layout \in Seq(Int) /\ IsInjective(Layout)
  /\ Draws \subseteq [DOMAIN Layout -> Layers]
  /\ Queries \subseteq Positions /\ Filters \subseteq SUBSET Positions
  /\ {M, EfConstruction, EfSearch, K} \subseteq Nat \ {0}
  /\ {MaxLevel, Warmup, MaxDeletes, MaxOthers} \subseteq Nat
  /\ None \notin Nat

(* No point is equally far from two others: no tie in a heap or a sort.    *)
ASSUME NoTies ==
  \A p, q, r \in Positions : q # r => Dist(p, q) # Dist(p, r)

VARIABLES nodes,       \* self.nodes, with the vector of each
          entryPoint,  \* self.entry_point
          maxLayer,    \* self.max_layer
          call,        \* the call each thread is in
          past         \* what happened so far; the program does not read it

vars == <<nodes, entryPoint, maxLayer, call, past>>

Ids == DOMAIN nodes

(* m_target of link() and _connect                                         *)
Target(layer) == IF layer = 0 THEN 2 * M ELSE M

(* Where a call stands: link() begins at "begin", goes down at "descend",  *)
(* looks for candidates at "search", sets its own list and then for each   *)
(* one selected appends ("append"), reads ("check") and commits the pruned *)
(* list ("commit"); "promote" ends it.  search() reads the top layer at    *)
(* "top", goes down, searches and has its hits at "answer".                *)
Idle == [at      |-> "idle",
         op      |-> "none",
         id      |-> None,       \* the node link() wires
         q       |-> 0,          \* the point searched for
         ep      |-> None,
         top     |-> -1,         \* top_layer of link()
         layer   |-> 0,
         allowed |-> Positions,  \* what the filter lets pass
         beam    |-> [open |-> {}, seen |-> {}, found |-> {}],
         list    |-> << >>,      \* selected, then the candidates to connect
         read    |-> << >>,      \* the list _connect prunes
         before  |-> {}]         \* what was to be found when search() began

Init ==
  /\ nodes = [i \in {} |-> Idle]
  /\ entryPoint = None
  /\ maxLayer = -1
  /\ call = [t \in Threads |-> Idle]
  /\ past = [overwritten |-> FALSE,  \* link() overwrote an edge to its node's list
             adopted     |-> FALSE,  \* an unlinked node became the entry point
             isolated    |-> FALSE,  \* link() found no candidate
             halfway     |-> FALSE,  \* a layer was entered at a node being linked
             deletes     |-> 0,
             searches    |-> 0]

At(t, place) == call[t].at = place
Updated(c, fields) == [f \in DOMAIN c |-> IF f \in DOMAIN fields THEN fields[f] ELSE c[f]]
Do(t, fields) == call' = [call EXCEPT ![t] = Updated(@, fields)]
Leave(t) == call' = [call EXCEPT ![t] = Idle]

Live == {i \in Ids : ~ nodes[i].tombstone}

(* The nodes that edges of layer 0 lead to from those of S.                *)
Reach(S) ==
  FoldLeft(LAMBDA R, i : R \cup UNION {Neighbors(nodes, r, 0) : r \in R},
           S, SetToSeq(Ids))

Reachable == IF entryPoint = None THEN {} ELSE Reach({entryPoint})

Admitted(t) == {i \in Ids : nodes[i].pos \in call[t].allowed}

(* No call is wiring node i.                                               *)
Linked(i) == \A t \in Threads : call[t].id # i

graph == <<nodes, entryPoint, maxLayer>>
-----------------------------------------------------------------------------
(* insert(): reserve()                                                     *)

Reserve(t) ==
  /\ At(t, "idle")
  /\ Cardinality(Ids) < Len(Layout)
  /\ Cardinality(Ids) < Warmup => \A u \in Threads : At(u, "idle")
  /\ \E draw \in Draws :
       LET id    == Cardinality(Ids)
           p     == Layout[id + 1]
           level == draw[id + 1] IN
       /\ \A i \in Ids : nodes[i].level = draw[i + 1]
       /\ nodes' = [i \in Ids \cup {id} |->
                      IF i \in Ids THEN nodes[i]
                      ELSE [pos |-> p, level |-> level, tombstone |-> FALSE,
                            neighbors |-> [l \in Layers |-> << >>]]]
       /\ entryPoint' = IF entryPoint = None THEN id ELSE entryPoint
       /\ maxLayer' = IF entryPoint = None THEN level ELSE maxLayer
       /\ Do(t, [at |-> "begin", op |-> "insert", id |-> id, q |-> p])
  /\ UNCHANGED past

(* link() reads entry point and top layer together under the lock.  It     *)
(* returns for the entry point and raises when there is none.              *)
Begin(t) ==
  /\ At(t, "begin")
  /\ IF entryPoint \in {call[t].id, None} THEN Leave(t)
     ELSE Do(t, [at |-> "descend", ep |-> entryPoint, top |-> maxLayer, layer |-> maxLayer])
  /\ UNCHANGED <<graph, past>>

(* Where the descent ends; links are made from there down.                 *)
(* (Fault for the checks: link() starts at the top, whatever its level.)   *)
BottomAtTop(t) == IF call[t].op = "search" THEN 0 ELSE call[t].top
Bottom(t) == IF call[t].op = "search" THEN 0 ELSE nodes[call[t].id].level

NoteStart(t) ==
  past' = [past EXCEPT !.halfway = @ \/ (call'[t].at = "search" /\ ~ Linked(call[t].ep))]

(* One read of a list in _greedy_step; after the last of a layer the next  *)
(* layer, down to where _search_layer takes over.                          *)
Descend(t) ==
  /\ At(t, "descend")
  /\ LET c      == call[t]
         nearer == Improve(nodes, c.q, c.ep, c.layer) IN
     IF c.layer <= Bottom(t)
     THEN Do(t, [at |-> "search", beam |-> Beam(nodes, c.ep, Admitted(t))])
     ELSE IF nearer # c.ep THEN Do(t, [ep |-> nearer])
     ELSE Do(t, [layer |-> c.layer - 1])
  /\ NoteStart(t)
  /\ UNCHANGED graph

Ef(t) == IF call[t].op = "insert" THEN EfConstruction
         ELSE IF EfSearch > K THEN EfSearch ELSE K

(* One read of a list in _search_layer.                                    *)
Explore(t) ==
  /\ At(t, "search")
  /\ LET c == call[t] IN
     /\ ~ Exhausted(nodes, c.beam, c.q)
     /\ Do(t, [beam |-> Expand(nodes, c.beam, c.q, Ef(t), c.layer, Admitted(t))])
  /\ UNCHANGED <<graph, past>>

(* link() has its candidates: select among them, and node.set_neighbors    *)
(* overwrites whatever was in the list.                                    *)
SetNeighbors(t) ==
  /\ At(t, "search") /\ call[t].op = "insert"
  /\ LET c          == call[t]
         candidates == ByDistance(nodes, c.beam.found, c.q)
         selected   == SelectNeighbors(nodes, c.beam.found, c.q, Target(c.layer)) IN
     /\ Exhausted(nodes, c.beam, c.q)
     /\ nodes' = [nodes EXCEPT ![c.id].neighbors[c.layer] = selected]
     /\ Do(t, [at   |-> "append",
               list |-> selected,
               beam |-> Idle.beam,
               ep   |-> IF candidates = << >> THEN c.ep ELSE Head(candidates)])
     /\ past' = [past EXCEPT
          !.isolated    = @ \/ candidates = << >>,
          !.overwritten = @ \/ ~ Neighbors(nodes, c.id, c.layer) \subseteq ToSet(selected)]
  /\ UNCHANGED <<entryPoint, maxLayer>>

(* _connect(cand_id, node_id, layer), the append under the lock.           *)
(* (ConnectOneWay is a fault for the checks.)                              *)
ConnectWith(t, list) ==
  /\ At(t, "append") /\ call[t].list # << >>
  /\ nodes' = [nodes EXCEPT ![Head(call[t].list)].neighbors[call[t].layer] = list]
  /\ Do(t, [at |-> "check"])
  /\ UNCHANGED <<entryPoint, maxLayer, past>>

(* The list of the node that call t connects to.                           *)
Theirs(t) == nodes[Head(call[t].list)].neighbors[call[t].layer]

ConnectOneWay(t) == ConnectWith(t, Theirs(t))
Connect(t) ==
  ConnectWith(t, IF call[t].id \in ToSet(Theirs(t)) THEN Theirs(t)
                 ELSE Append(Theirs(t), call[t].id))

(* The read of the list to prune, without the lock.                        *)
(* (Fault for the checks: a retry uses the list read at first.)            *)
CheckReading(t, list) ==
  /\ At(t, "check")
  /\ IF Len(list) <= Target(call[t].layer)
     THEN Do(t, [at |-> "append", list |-> Tail(call[t].list), read |-> << >>])
     ELSE Do(t, [at |-> "commit", read |-> list])
  /\ UNCHANGED <<graph, past>>

CheckOnce(t) == CheckReading(t, IF call[t].read = << >> THEN Theirs(t) ELSE call[t].read)
Check(t)     == CheckReading(t, Theirs(t))

Pruned(a, list, m) ==
  LET p == nodes[a].pos
  IN  SelectNeighbors(nodes, ToSet(list), p, m)

(* The pruned list is committed if the list is still the one that was      *)
(* read; otherwise it is read again.                                       *)
(* (CommitBlindly and CommitOrGiveUp are faults for the checks.)           *)
CommitIf(t, unchanged, retries) ==
  /\ At(t, "commit")
  /\ LET c    == call[t]
         a    == Head(c.list)
         next == [at |-> "append", list |-> Tail(c.list), read |-> << >>] IN
     IF unchanged
     THEN /\ nodes' = [nodes EXCEPT ![a].neighbors[c.layer] =
                         Pruned(a, c.read, Target(c.layer))]
          /\ Do(t, next)
     ELSE /\ Do(t, IF retries THEN [at |-> "check"] ELSE next)
          /\ UNCHANGED nodes
  /\ UNCHANGED <<entryPoint, maxLayer, past>>

CommitBlindly(t)  == CommitIf(t, TRUE, TRUE)
CommitOrGiveUp(t) == CommitIf(t, Theirs(t) = call[t].read, FALSE)
Commit(t)         == CommitIf(t, Theirs(t) = call[t].read, TRUE)

(* All are connected: the next layer, or the end of link().                *)
(* (NextLayerPastZero is a fault for the checks.)                          *)
NextLayerDownTo(t, lowest) ==
  /\ At(t, "append") /\ call[t].list = << >>
  /\ LET c == call[t] IN
     IF c.layer > lowest
     THEN Do(t, [at    |-> "search",
                 layer |-> c.layer - 1,
                 beam  |-> Beam(nodes, c.ep, Admitted(t))])
     ELSE IF nodes[c.id].level > c.top THEN Do(t, [at |-> "promote"])
     ELSE Leave(t)
  /\ NoteStart(t)
  /\ UNCHANGED graph

NextLayerPastZero(t) == NextLayerDownTo(t, -1)
NextLayer(t)         == NextLayerDownTo(t, 0)

(* A node above the top layer becomes the entry point, alive or not.       *)
Promote(t) ==
  /\ At(t, "promote")
  /\ LET c     == call[t]
         level == nodes[c.id].level IN
     IF level > maxLayer THEN maxLayer' = level /\ entryPoint' = c.id
     ELSE UNCHANGED <<entryPoint, maxLayer>>
  /\ Leave(t)
  /\ UNCHANGED <<nodes, past>>
-----------------------------------------------------------------------------
(* search(): entry point and top layer are read one after the other.       *)

StartSearch(t) ==
  /\ At(t, "idle") /\ entryPoint # None
  /\ past.deletes + past.searches < MaxOthers /\ Cardinality(Ids) >= Warmup
  /\ \E q \in Queries, allowed \in Filters :
       Do(t, [at |-> "top", op |-> "search", q |-> q, allowed |-> allowed, ep |-> entryPoint,
              before |-> {i \in Reachable \cap Live : nodes[i].pos \in allowed}])
  /\ past' = [past EXCEPT !.searches = @ + 1]
  /\ UNCHANGED graph

ReadTop(t) ==
  /\ At(t, "top")
  /\ Do(t, [at |-> "descend", layer |-> IF maxLayer > 0 THEN maxLayer ELSE 0])
  /\ UNCHANGED <<graph, past>>

(* The K nearest of the results.                                           *)
Answer(t) ==
  /\ At(t, "search") /\ call[t].op = "search"
  /\ LET c    == call[t]
         hits == ByDistance(nodes, c.beam.found, c.q) IN
     /\ Exhausted(nodes, c.beam, c.q)
     /\ Do(t, [at |-> "answer", list |-> SubSeq(hits, 1, IF Len(hits) < K THEN Len(hits) ELSE K)])
  /\ UNCHANGED <<graph, past>>

Return(t) ==
  /\ At(t, "answer")
  /\ Leave(t)
  /\ UNCHANGED <<graph, past>>
-----------------------------------------------------------------------------
(* delete() of a live node, with _reassign_entry_point: the first live     *)
(* node of the dict, which is in the order of the ids.                     *)
Delete(t) ==
  /\ At(t, "idle")
  /\ past.deletes + past.searches < MaxOthers /\ Cardinality(Ids) >= Warmup
  /\ past.deletes < MaxDeletes
  /\ \E id \in Live :
       LET left == Live \ {id}
           next == CHOOSE i \in left : \A j \in left : i <= j IN
       /\ nodes' = [nodes EXCEPT ![id].tombstone = TRUE]
       /\ IF id # entryPoint THEN UNCHANGED <<entryPoint, maxLayer>>
          ELSE IF left = {} THEN entryPoint' = None /\ maxLayer' = -1
          ELSE entryPoint' = next /\ maxLayer' = nodes[next].level
       /\ past' = [past EXCEPT
            !.deletes = @ + 1,
            !.adopted = @ \/ (id = entryPoint /\ left # {} /\ ~ Linked(next))]
  /\ UNCHANGED call
-----------------------------------------------------------------------------
(* What a call does by itself once it has begun.                           *)
Proceed(t) ==
  \/ Begin(t) \/ Descend(t) \/ Explore(t)
  \/ SetNeighbors(t) \/ Connect(t) \/ Check(t) \/ Commit(t)
  \/ NextLayer(t) \/ Promote(t)
  \/ ReadTop(t) \/ Answer(t) \/ Return(t)

Next == \E t \in Threads : Reserve(t) \/ StartSearch(t) \/ Delete(t) \/ Proceed(t)

Spec == Init /\ [][Next]_vars

(* Threads are scheduled, WF_vars(Proceed(t)), in a form that is cheaper   *)
(* to check: Proceed(t) is enabled as long as t is in a call, and is then  *)
(* what changes call[t].                                                   *)
Fairness == \A t \in Threads : []<>At(t, "idle") \/ []<><<call'[t] # call[t]>>_vars
FairSpec == Spec /\ Fairness
-----------------------------------------------------------------------------
Places == {"idle", "begin", "descend", "search", "append", "check", "commit",
           "promote", "top", "answer"}

TypeOK ==
  /\ Ids \subseteq Nat
  /\ \A i \in Ids : nodes[i] \in
       [pos : Positions, level : Layers, tombstone : BOOLEAN, neighbors : [Layers -> Seq(Ids)]]
  /\ entryPoint \in Ids \cup {None} /\ maxLayer \in Layers \cup {-1}
  /\ call \in [Threads ->
       [at : Places, op : {"none", "insert", "search"}, id : Ids \cup {None},
        q : Positions \cup {0}, ep : Ids \cup {None}, top : Layers \cup {-1}, layer : Layers,
        allowed : SUBSET Positions,
        beam : [open : SUBSET Ids, seen : SUBSET Ids, found : SUBSET Ids],
        list : Seq(Ids), read : Seq(Ids), before : SUBSET Ids]]

(* Inserts that have appended to the list of `a` and have still to prune.  *)
Pruning(a, layer) ==
  {t \in Threads : /\ call[t].at \in {"check", "commit"}
                   /\ Head(call[t].list) = a /\ call[t].layer = layer}

(* A neighbor list exceeds m_target only by the edges of inserts that are  *)
(* still at work on it: none is left too long by a lost race               *)
(* (test_basic.py:198-227, "no neighbor list ever exceeds its m_target").  *)
DegreeBound ==
  \A a \in Ids, layer \in Layers :
     Len(nodes[a].neighbors[layer]) <= Target(layer) + Cardinality(Pruning(a, layer))

(* No list names a node twice, or one that is not on the layer.            *)
ListsAreProper ==
  \A a \in Ids, layer \in Layers :
     /\ IsInjective(nodes[a].neighbors[layer])
     /\ \A b \in Neighbors(nodes, a, layer) : nodes[b].level >= layer
     /\ nodes[a].level < layer => nodes[a].neighbors[layer] = << >>

(* A prune drops only edges it has weighed: one that another _connect adds *)
(* to the list meanwhile stays (index.py:359-362, "retry with the fresh    *)
(* list instead of silently dropping that edge").                          *)
DropsOnlyWeighedEdges ==
  \A a \in Ids, layer \in Layers :
     \A b \in Neighbors(nodes, a, layer) \ ToSet(nodes'[a].neighbors[layer]) :
        \E t \in Threads :
           /\ call[t].layer = layer
           /\ \/ call[t].at = "search" /\ call[t].id = a
              \/ call[t].at = "commit" /\ b \in ToSet(call[t].read)
NoEdgeIsDroppedUnseen == [][DropsOnlyWeighedEdges]_nodes

Quiescent == \A t \in Threads : At(t, "idle")

(* When all inserts have returned, every live node can be reached from the *)
(* entry point (test_basic.py:109-112, "every inserted vector should       *)
(* remain findable afterward").                                            *)
InsertedStaysFindable == Quiescent => Live \subseteq Reachable

(* It can, unless layer 0 was pruned or one of three accidents happened:   *)
(* link() overwrote an edge somebody had added to its node, a delete()     *)
(* made an unlinked node the entry point, or link() found only dead nodes. *)
FindableUnlessLost ==
  past.overwritten \/ past.adopted \/ past.isolated \/ Cardinality(Ids) > 2 * M + 1
  \/ InsertedStaysFindable

(* What a lock-free search misses of the nodes that were there before it   *)
(* began is deleted, or farther than all of K hits.                        *)
Misses(t) ==
  {i \in call[t].before \cap Live :
     /\ i \notin ToSet(call[t].list)
     /\ Len(call[t].list) = K => Far(nodes, i, call[t].q) < Far(nodes, Last(call[t].list), call[t].q)}

(* A search with room for all the nodes finds what was there, also while   *)
(* inserts go on: it sees a graph "a few edges behind" (index.py:418-420), *)
(* unless it comes down on a node that is linked in the upper layers only, *)
(* from which no edge of layer 0 leads anywhere yet.  And if all the nodes *)
(* may be returned: the loop ends at a deleted or filtered node that is    *)
(* farther than the hits so far, however few they are (index.py:301).      *)
SearchMissesNothing ==
  past.overwritten \/ past.halfway \/ past.deletes > 0 \/
  \A t \in Threads :
     At(t, "answer") /\ {nodes[i].pos : i \in Ids} \subseteq call[t].allowed => Misses(t) = {}

(* Every call returns: the retries of _connect end.                        *)
CallsReturn == \A t \in Threads : ~ At(t, "idle") ~> At(t, "idle")
=============================================================================
