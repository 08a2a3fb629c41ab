----------------------------- MODULE IndexStore -----------------------------
(***************************************************************************)
(* The part of an HNSWIndex (core/index.py) on which durability depends:   *)
(* its rows, its nodes and its entry point, as a record that the methods   *)
(* of the class turn into another one.  Edges are kept only as far as      *)
(* crash recovery tells them apart.  A node's `links` is                   *)
(*   "none"  its neighbors dict is empty: reserved, nobody linked to it,   *)
(*   "out"   link() has set its own lists, nobody points back (yet),       *)
(*   "alone" link() has set its own lists, and found nothing to put there, *)
(*   "full"  it is connected both ways: a search that starts anywhere in   *)
(*           the graph reaches it.                                         *)
(* Distances and the lists themselves are the subject of HNSWGraph.        *)
(*                                                                         *)
(* _free_ids is empty in every state of the program (nothing appends to    *)
(* it), and _size moves together with _next_id, so neither has a field.    *)
(***************************************************************************)
EXTENDS Integers, Sequences, SequencesExt

CONSTANTS Zero,     \* what a row that was never written holds
          None,     \* Python's None
          MaxLevel  \* bound: the highest level _random_level() draws

Levels == 0..MaxLevel

Node == [tombstone : BOOLEAN, links : {"none", "out", "alone", "full"}, level : Levels]

(* HNSWIndex.__init__.  `order` is the insertion order of the dict `nodes`.*)
EmptyIndex == [vectors    |-> [i \in {} |-> Zero],
               nodes      |-> [i \in {} |-> Zero],
               order      |-> << >>,
               entryPoint |-> None,
               maxLayer   |-> -1,
               nextId     |-> 0]

(* The array is allocated with zeros beyond the rows in use.               *)
Row(ix, id) == IF id \in DOMAIN ix.vectors THEN ix.vectors[id] ELSE Zero

Live(ix) == {i \in DOMAIN ix.nodes : ~ ix.nodes[i].tombstone}

(* The ids a search with a large enough ef can return: an entry point      *)
(* without edges hides the rest, and the search raises when the entry      *)
(* point is no node of the graph.                                          *)
Findable(ix) ==
  IF ix.entryPoint \in DOMAIN ix.nodes
  THEN {i \in Live(ix) : \/ i = ix.entryPoint
                         \/ /\ ix.nodes[i].links = "full"
                            /\ ix.nodes[ix.entryPoint].links \in {"out", "full"}}
  ELSE {}

Contents(ix) == {Row(ix, i) : i \in Findable(ix)}

Enter(ix, id, level) == [ix EXCEPT !.entryPoint = id, !.maxLayer = level]

(* Write row and bare Node at `id`: the common part of reserve() and of    *)
(* VectorDatabase._apply_insert.  The first node becomes the entry point.  *)
AddNode(ix, id, v, level) ==
  LET size  == IF id >= ix.nextId THEN id + 1 ELSE ix.nextId
      fresh == [tombstone |-> FALSE, links |-> "none", level |-> level]
      added == [ix EXCEPT
                  !.vectors = [i \in 0..(size - 1) |-> IF i = id THEN v ELSE Row(ix, i)],
                  !.nodes   = [i \in DOMAIN ix.nodes \cup {id} |->
                                 IF i = id THEN fresh ELSE ix.nodes[i]],
                  !.order   = IF id \in DOMAIN ix.nodes THEN @ ELSE Append(@, id),
                  !.nextId  = size]
  IN  IF ix.entryPoint = None THEN Enter(added, id, level) ELSE added

(* reserve() under the write lock: the id is always the next fresh one.    *)
Reserve(ix, v, level) == AddNode(ix, ix.nextId, v, level)

(* What link() connects the node to: its beam searches return live nodes   *)
(* only, and M0 and ef_construction exceed the number of nodes.            *)
Chosen(ix, id) == Findable(ix) \ {id}

Relinked(ix, ids, links) ==
  [ix EXCEPT !.nodes = [i \in DOMAIN @ |->
     IF i \in ids THEN [@[i] EXCEPT !.links = links] ELSE @[i]]]

(* link() up to node.set_neighbors; a node linked before stays connected.  *)
LinkOut(ix, id, chosen) ==
  IF ix.nodes[id].links # "none" THEN ix
  ELSE Relinked(ix, {id}, IF chosen = {} THEN "alone" ELSE "out")

(* _connect: the chosen nodes and the node itself point at each other.     *)
(* With nothing chosen the node keeps empty lists for good.                *)
LinkBack(ix, id, chosen) ==
  IF chosen = {} THEN ix ELSE Relinked(ix, chosen \cup {id}, "full")

(* The end of link(): a node above the top layer becomes the entry point.  *)
Promote(ix, id, level) ==
  IF level > ix.maxLayer THEN Enter(ix, id, level) ELSE ix

(* link() as one step, where no other thread can run: a no-op for the      *)
(* entry point.                                                            *)
Link(ix, id) ==
  IF id = ix.entryPoint THEN ix
  ELSE Promote(LinkBack(LinkOut(ix, id, Chosen(ix, id)), id, Chosen(ix, id)), id,
               ix.nodes[id].level)

(* The live ids in the order of the dict.                                  *)
LiveIds(ix) ==
  LET kept[k \in 0..Len(ix.order)] ==
        IF k = 0 THEN << >>
        ELSE IF ix.order[k] \in Live(ix) THEN Append(kept[k - 1], ix.order[k])
        ELSE kept[k - 1]
  IN  kept[Len(ix.order)]

Buried(ix, id) == [ix EXCEPT !.nodes[id].tombstone = TRUE]

(* _reassign_entry_point: the first live node of the dict.                 *)
Reassigned(ix) ==
  IF Live(ix) = {} THEN Enter(ix, None, -1)
  ELSE Enter(ix, Head(LiveIds(ix)), ix.nodes[Head(LiveIds(ix))].level)

(* delete(): of the entry point, it needs another one.                     *)
Tombstone(ix, id) ==
  IF id = ix.entryPoint THEN Reassigned(Buried(ix, id)) ELSE Buried(ix, id)

DeleteOf(ix, id) == IF id \in Live(ix) THEN Tombstone(ix, id) ELSE ix

(* Faults for the checks: tombstoned nodes are copied too, or the first    *)
(* rows of the array.                                                      *)
AllRows(ix) == [k \in DOMAIN ix.order |-> [id |-> ix.order[k], vec |-> Row(ix, ix.order[k])]]
FirstRows(ix) ==
  [k \in DOMAIN LiveIds(ix) |-> [id |-> LiveIds(ix)[k], vec |-> Row(ix, k - 1)]]

(* The live vectors with their ids (_compact_and_swap).                    *)
LiveRows(ix) ==
  [k \in DOMAIN LiveIds(ix) |-> [id |-> LiveIds(ix)[k], vec |-> Row(ix, LiveIds(ix)[k])]]

(* A new HNSWIndex into which `rows` were inserted one after the other, at *)
(* the levels drawn: the ids start again at 0.                             *)
Rebuilt(rows, levels) ==
  LET built[k \in 0..Len(rows)] ==
        IF k = 0 THEN EmptyIndex
        ELSE LET ix == built[k - 1]
             IN  Link(Reserve(ix, rows[k].vec, levels[k]), ix.nextId)
  IN  built[Len(rows)]

(***************************************************************************)
(* Snapshot.save copies rows, entry point and next id under the read lock  *)
(* (`image`), but keeps only a reference to the dict of nodes, which       *)
(* pickle.dump walks later without any lock.  By then the dict is that of  *)
(* `now`, and of each node that changed meanwhile pickle meets the old or  *)
(* the new state, as the walk goes (`stale`: the nodes met before).        *)
(***************************************************************************)
Changed(image, now) ==
  {i \in DOMAIN image.nodes \cap DOMAIN now.nodes : image.nodes[i] # now.nodes[i]}

(* Fault for the checks: the keys of the dict are copied with the rows.    *)
PickledByKeys(image, now, stale) ==
  [image EXCEPT !.nodes = [i \in DOMAIN now.nodes |->
                             IF i \in stale THEN image.nodes[i] ELSE now.nodes[i]]]

Pickled(image, now, stale) ==
  [image EXCEPT !.nodes = [i \in DOMAIN now.nodes |->
                             IF i \in stale THEN image.nodes[i] ELSE now.nodes[i]],
                !.order = now.order]

(***************************************************************************)
(* Recovery: one record of the log is applied to the index                 *)
(* (VectorDatabase._replay_wal).  The level of a node that is created      *)
(* again is drawn again.  A node that is there but was never linked is     *)
(* linked now, which raises when there is no entry point; json.loads       *)
(* raises on a torn line.                                                  *)
(***************************************************************************)
Record(op, id, v)   == [op |-> op, id |-> id, vec |-> v, ended |-> TRUE]
InsertRecord(id, v) == Record("insert", id, v)
DeleteRecord(id)    == Record("delete", id, Zero)
CompactRecord       == Record("compact", 0, Zero)

(* A line that is no JSON: a record cut short, or two on one line.         *)
TornRecord == Record("torn", 0, Zero)

(* The file is opened for appending: a record that follows one without its *)
(* newline ends up on the same line.                                       *)
Logged(log, record) ==
  IF log # << >> /\ ~ Last(log).ended THEN Append(Front(log), TornRecord) ELSE Append(log, record)

(* What the file holds if the write of `record` is cut short.              *)
Cut(log, record, tear) ==
  Logged(log, IF tear = "cut" THEN TornRecord ELSE [record EXCEPT !.ended = FALSE])

Unlinked(ix, id) ==
  id \in DOMAIN ix.nodes /\ ix.nodes[id].links = "none" /\ id # ix.entryPoint

(* Fault for the checks: replay refuses an id it has already.              *)
RaisesOnKnownId(ix, record) == record.op = "insert" /\ record.id \in DOMAIN ix.nodes

ReplayRaises(ix, record) ==
  \/ record.op = "torn"
  \/ record.op = "insert" /\ Unlinked(ix, record.id) /\ ix.entryPoint \notin DOMAIN ix.nodes

(* Faults for the checks: replay takes a new id, or does not move the next *)
(* id past the one it restores.                                            *)
ReplayInsertAnew(ix, id, v, level) == Link(Reserve(ix, v, level), ix.nextId)
ReplayInsertBehind(ix, id, v, level) ==
  IF id \in DOMAIN ix.nodes THEN ix
  ELSE [Link(AddNode(ix, id, v, level), id) EXCEPT !.nextId = ix.nextId]

ReplayInsert(ix, id, v, level) ==
  IF id \notin DOMAIN ix.nodes THEN Link(AddNode(ix, id, v, level), id)
  ELSE IF Unlinked(ix, id) THEN Link(ix, id)
  ELSE ix

(* Fault for the checks: deletes are not replayed.                         *)
ReplayInsertsOnly(ix, record, level) ==
  IF record.op = "insert" THEN ReplayInsert(ix, record.id, record.vec, level) ELSE ix

ReplayRecord(ix, record, level) ==
  IF record.op = "insert" THEN ReplayInsert(ix, record.id, record.vec, level)
  ELSE IF record.op = "delete" THEN DeleteOf(ix, record.id)
  ELSE ix

(* What a restart can make of the index that it loads from the snapshot    *)
(* and of the log, for all the levels it may draw: nothing at all, if the  *)
(* replay raises on the way.                                               *)
Replayed(indexes, record) ==
  {ReplayRecord(ix, record, level) :
     ix \in {x \in indexes : ~ ReplayRaises(x, record)}, level \in Levels}

Recovered(snapshot, wal) ==
  LET made[k \in 0..Len(wal)] ==
        IF k = 0 THEN {snapshot} ELSE Replayed(made[k - 1], wal[k])
  IN  made[Len(wal)]
=============================================================================
