--------------------------- MODULE QuantizedIndex ---------------------------
(***************************************************************************)
(* A server that was started with VDB_QUANTIZE=true: the endpoints of      *)
(* api/main.py on an HNSWIndex whose rows are codes of a quantizer         *)
(* (core/index.py), with searches that take no lock, the field by field    *)
(* swap of a compaction, and what a restart makes of the rows.             *)
(*                                                                         *)
(* The rows, nodes and the entry point are those of IndexStore.  A vector  *)
(* is one number, which is also the metadata of its node: the pair that a  *)
(* search returns tells whether the row read is still the vector inserted. *)
(* Snapshots, log records and link() are single steps: how they race is    *)
(* the subject of VectorDatabase and HNSWGraph.                            *)
(***************************************************************************)
EXTENDS IndexStore, ScalarQuantizer

CONSTANTS Clients,        \* the request threads
          Values,         \* the vectors they may insert
          Samples,        \* the batches that may be sent to /fit_quantizer
          Largest,        \* bound: the largest component of either
          SnapshotEvery,  \* snapshot_every_n_writes
          MaxFits,        \* bound: requests to /fit_quantizer
          MaxCompactions, \* bound: requests to /compact
          MaxSearches,    \* bound: requests to /search
          MaxRestarts     \* bound: restarts of the process

ASSUME QuantizedAssumption ==
  /\ Largest \in Nat /\ Values \subseteq 0..Largest
  /\ Samples \subseteq (SUBSET (0..Largest)) \ {{}}
  /\ Zero = 0 /\ None \notin Clients \cup Nat
  /\ {MinSamples, SnapshotEvery, MaxFits, MaxCompactions, MaxSearches, MaxRestarts} \subseteq Nat

(* The widest range that so many compactions can leave, in tenths: a row   *)
(* whose code is read with another range may decode to a number up to one  *)
(* beyond it, and a compaction fits the next range to such numbers.        *)
Widest[k \in 0..MaxCompactions] ==
  IF k = 0 THEN 12 * Largest ELSE (6 * Widest[k - 1]) \div 5 + 12

(* The premise of ScalarQuantizer: a bucket is narrower than the distance  *)
(* of two vectors, so that decoding finds the one that was encoded.        *)
ASSUME WidthAssumption == Widest[MaxCompactions] < 2550

VARIABLES
  index,      \* the index without its quantizer: rows, nodes, entry point
  meta,       \* the metadata of its nodes
  quantized,  \* index.quantize
  quantizer,  \* index.quantizer, Unfitted if that is None
  writer,     \* who holds the write lock for more than a step
  disk,       \* the snapshot file, if it exists, and the log
  writes,     \* _writes_since_snapshot
  up,         \* the constructor of the database has not raised
  call,       \* the request each client is in
  past        \* what happened so far; the program does not read it

vars == <<index, meta, quantized, quantizer, writer, disk, writes, up, call, past>>

Idle == [at    |-> "idle",
         job   |-> "none",
         id    |-> 0,         \* of the node,
         vec   |-> Zero,      \* vector and
         row   |-> Zero,      \* code of an insert
         range |-> << >>,     \* the range the row was encoded with
         todo  |-> {},        \* ids a search is about to look at,
         rows  |-> << >>,     \* the rows it has read and
         found |-> << >>,     \* what it has made of them
         hits  |-> {},
         mixed |-> FALSE,     \* the index was exchanged during the search
         live  |-> << >>,     \* what a compaction has copied
         missed |-> {}]       \* and what it must insert again

Init ==
  /\ index = EmptyIndex
  /\ meta = << >>
  /\ quantized = TRUE
  /\ quantizer = Unfitted
  /\ writer = None
  /\ disk = [exists |-> FALSE, saved |-> EmptyIndex, meta |-> << >>, log |-> << >>]
  /\ writes = 0
  /\ up = TRUE
  /\ call = [c \in Clients |-> Idle]
  /\ past = [submitted |-> {}, acked |-> {}, erased |-> {},
             spoilt    |-> {},     \* vectors whose row is known to be no good
             unfit     |-> FALSE,  \* a compaction has left no fitted quantizer
             emptied   |-> FALSE,  \* the last vector was deleted during a compaction
             crossed   |-> FALSE,  \* two compactions overlapped
             broken    |-> FALSE,  \* a search raised that no swap has disturbed
             fits |-> 0, compactions |-> 0, searches |-> 0, restarts |-> 0]

storage == <<index, meta, quantized, quantizer>>
service == <<disk, writes, up>>

At(c, place) == up /\ call[c].at = place
Unlocked == writer = None
Compacting == \E c \in Clients : call[c].job = "compact"

(* The searches under which the index is exchanged.                        *)
Disturbed == [c \in Clients |-> [call[c] EXCEPT !.mixed = (call[c].job = "search")]]

(* The request ends, with an answer or an exception.                       *)
Leave(c) == call' = [call EXCEPT ![c] = Idle]

(* Fault for the checks: codes are taken for vectors.                      *)
CodeItself(q, row) == row

(* _get_vec(), _distances_to(): what a row stands for.                     *)
Value(q, row) == IF quantized THEN Decode(q, row) ELSE row
CannotDecode == quantized /\ ~ quantizer.fitted

Span(q) == <<q.min, q.max>>
-----------------------------------------------------------------------------
(* /fit_quantizer: nothing keeps it from being called again.               *)
FitQuantizer(c) ==
  /\ At(c, "idle") /\ quantized /\ past.fits < MaxFits
  /\ \E sample \in Samples :
       /\ quantizer' = Fit(sample)
       /\ past' = [past EXCEPT !.fits = @ + 1,
            !.spoilt = IF Span(quantizer) # Span(Fit(sample)) THEN @ \cup past.submitted ELSE @]
  /\ call' = Disturbed
  /\ UNCHANGED <<index, meta, quantized, writer, service>>
-----------------------------------------------------------------------------
(* /insert                                                                 *)

(* The endpoint refuses while the quantizer is not fitted, and fails when  *)
(* there is none; reserve() encodes before it takes the lock.              *)
Insert(c) ==
  /\ At(c, "idle") /\ quantized /\ quantizer.fitted
  /\ \E v \in Values \ past.submitted :
       /\ quantizer' = Tracked(quantizer, v)
       /\ call' = [call EXCEPT ![c] = [Idle EXCEPT !.at = "encoded", !.job = "insert",
                     !.vec = v,
                     !.row = Encode(quantizer, v), !.range = Span(quantizer)]]
       /\ past' = [past EXCEPT !.submitted = @ \cup {v},
                     !.spoilt = IF Bucket(quantizer, v) \in Codes THEN @ ELSE @ \cup {v}]
  /\ UNCHANGED <<index, meta, quantized, writer, service>>

(* reserve() under the lock.  (ReserveTwice is a fault for the checks: the *)
(* vector is encoded a second time.)                                       *)
ReserveRow(c, row) ==
  /\ At(c, "encoded") /\ Unlocked
  /\ index' = Reserve(index, row, 0)
  /\ meta' = [i \in DOMAIN meta \cup {index.nextId} |->
                IF i = index.nextId THEN call[c].vec ELSE meta[i]]
  /\ call' = [call EXCEPT ![c].at = "reserved", ![c].id = index.nextId]
  /\ past' = [past EXCEPT !.spoilt =
                IF call[c].range = Span(quantizer) THEN @ ELSE @ \cup {call[c].vec}]
  /\ UNCHANGED <<quantized, quantizer, writer, service>>

ReserveTwice(c) == ReserveRow(c, Encode(quantizer, call[c].row))
ReserveNode(c)  == ReserveRow(c, call[c].row)

(* link() after log_insert(); it decodes the row of the node first of all. *)
LinkNode(c, after) ==
  /\ At(c, "reserved") /\ Unlocked
  /\ {call[c].id, index.entryPoint} \subseteq DOMAIN index.nodes /\ ~ CannotDecode
  /\ index' = Link(index, call[c].id)
  /\ call' = [call EXCEPT ![c].at = after]
  /\ UNCHANGED <<meta, quantized, quantizer, writer, writes, up, past>>

(* wal.log_insert() writes the vector itself, not its code.                *)
WriteRecord(c) == disk' = [disk EXCEPT !.log = Append(@, InsertRecord(call[c].id, call[c].vec))]

LinkInsert(c) == call[c].job = "insert" /\ LinkNode(c, "done") /\ WriteRecord(c)

LinkRaises(c) ==
  /\ At(c, "reserved")
  /\ {call[c].id, index.entryPoint} \subseteq DOMAIN index.nodes => CannotDecode
  /\ Leave(c)
  /\ IF call[c].job = "insert" THEN WriteRecord(c) ELSE UNCHANGED disk
  /\ UNCHANGED <<storage, writer, writes, up, past>>

(* The snapshot copies codes, but neither the flag nor the quantizer.      *)
Saved == [exists |-> TRUE, saved |-> index, meta |-> meta, log |-> << >>]

(* _maybe_snapshot() and the answer of an insert or a delete.              *)
Acknowledge(c) ==
  /\ At(c, "done") /\ Unlocked
  /\ IF writes + 1 >= SnapshotEvery
     THEN disk' = Saved /\ writes' = 0
     ELSE writes' = writes + 1 /\ UNCHANGED disk
  /\ past' = [past EXCEPT !.acked = IF call[c].job = "insert" THEN @ \cup {call[c].vec} ELSE @]
  /\ Leave(c)
  /\ UNCHANGED <<storage, writer, up>>

(* /delete                                                                 *)
Delete(c) ==
  /\ At(c, "idle") /\ Unlocked
  /\ \E id \in Live(index) :
       /\ index' = Tombstone(index, id)
       /\ disk' = [disk EXCEPT !.log = Append(@, DeleteRecord(id))]
       /\ past' = [past EXCEPT !.erased = @ \cup {meta[id]},
            !.emptied = @ \/ (Compacting /\ Live(index) = {id})]
  /\ call' = [call EXCEPT ![c].at = "done", ![c].job = "delete"]
  /\ UNCHANGED <<meta, quantized, quantizer, writer, writes, up>>
-----------------------------------------------------------------------------
(* /compact                                                                *)

(* The live rows are decoded, which raises if the quantizer is not fitted. *)
BeginCompact(c) ==
  /\ At(c, "idle") /\ Unlocked /\ past.compactions < MaxCompactions
  /\ Live(index) # {} => ~ CannotDecode
  /\ LET rows == LiveRows(index) IN
     call' = [call EXCEPT ![c] = [Idle EXCEPT !.at = "rebuilding", !.job = "compact",
                !.live = [k \in DOMAIN rows |-> [id   |-> rows[k].id,
                                                 vec  |-> Value(quantizer, rows[k].vec),
                                                 meta |-> meta[rows[k].id]]]]]
  /\ past' = [past EXCEPT !.compactions = @ + 1, !.crossed = @ \/ Compacting]
  /\ UNCHANGED <<storage, writer, service>>

(* The quantizer of the rebuilt index: re-fitted, if there is anything to  *)
(* fit it to, before insert() has it track every row.                      *)
NewQuantizer(live) ==
  IF ~ quantized \/ live = << >> THEN Unfitted
  ELSE LET q == Fit({live[k].vec : k \in DOMAIN live})
       IN  [q EXCEPT !.total = Len(live),
                     !.clipped = Cardinality({k \in DOMAIN live : Bucket(q, live[k].vec) \notin Codes})]

NewIndex(live) ==
  LET q == NewQuantizer(live) IN
  Rebuilt([k \in DOMAIN live |->
             [vec |-> IF quantized THEN Encode(q, live[k].vec) ELSE live[k].vec]],
          [k \in DOMAIN live |-> 0])

(* Fault for the checks: nothing is inserted again.                        *)
NothingMissed(c, q) == {}

(* The rows that raced the rebuild, decoded before the swap.               *)
Missed(c, q) ==
  LET then == {call[c].live[k].id : k \in DOMAIN call[c].live}
  IN  {[vec |-> Value(q, Row(index, i)), meta |-> meta[i]] : i \in Live(index) \ then}

(* The swap holds the write lock and assigns one attribute after the other *)
(* while searches go on.                                                   *)
SwapVectors(c) ==
  /\ At(c, "rebuilding") /\ Unlocked
  /\ CannotDecode => Missed(c, quantizer) = {}
  /\ writer' = c
  /\ index' = [index EXCEPT !.vectors = NewIndex(call[c].live).vectors]
  /\ call' = [Disturbed EXCEPT ![c].at = "nodes", ![c].missed = Missed(c, quantizer)]
  /\ UNCHANGED <<meta, quantized, quantizer, service, past>>

SwapNodes(c) ==
  /\ At(c, "nodes")
  /\ LET new == NewIndex(call[c].live)
     IN  index' = [index EXCEPT !.nodes = new.nodes, !.order = new.order]
  /\ meta' = [i \in 0..(Len(call[c].live) - 1) |-> call[c].live[i + 1].meta]
  /\ call' = [call EXCEPT ![c].at = "entry"]
  /\ UNCHANGED <<quantized, quantizer, writer, service, past>>

SwapEntry(c) ==
  /\ At(c, "entry")
  /\ LET new == NewIndex(call[c].live)
     IN  index' = [index EXCEPT !.entryPoint = new.entryPoint, !.maxLayer = new.maxLayer,
                                !.nextId = new.nextId]
  /\ call' = [call EXCEPT ![c].at = "quantizer"]
  /\ UNCHANGED <<meta, quantized, quantizer, writer, service, past>>

SwapQuantizer(c) ==
  /\ At(c, "quantizer")
  /\ quantizer' = NewQuantizer(call[c].live)
  /\ writer' = None
  /\ call' = [call EXCEPT ![c].at = "replaying", ![c].live = << >>]
  /\ past' = [past EXCEPT !.unfit = @ \/ (quantized /\ ~ quantizer'.fitted)]
  /\ UNCHANGED <<index, meta, quantized, service>>

(* _get_vec() raises at the start of the swap, insert() after it.          *)
CompactRaises(c) ==
  /\ CannotDecode
  /\ \/ At(c, "rebuilding") /\ Unlocked /\ Missed(c, quantizer) # {}
     \/ At(c, "replaying") /\ call[c].missed # {}
  /\ Leave(c)
  /\ UNCHANGED <<storage, writer, service, past>>

(* self.insert() of a row that raced the rebuild.                          *)
Reinsert(c) ==
  /\ At(c, "replaying") /\ ~ CannotDecode
  /\ \E row \in call[c].missed :
       /\ quantizer' = IF quantized THEN Tracked(quantizer, row.vec) ELSE quantizer
       /\ call' = [call EXCEPT ![c].at = "encoded", ![c].vec = row.meta,
                     ![c].row = IF quantized THEN Encode(quantizer, row.vec) ELSE row.vec,
                     ![c].range = Span(quantizer), ![c].missed = @ \ {row}]
       /\ past' = [past EXCEPT !.spoilt =
                     IF quantized /\ Bucket(quantizer, row.vec) \notin Codes
                     THEN @ \cup {row.meta} ELSE @]
  /\ UNCHANGED <<index, meta, quantized, writer, service>>

LinkMissed(c) == call[c].job = "compact" /\ LinkNode(c, "replaying") /\ UNCHANGED disk

(* wal.log_compact(), _force_snapshot() and the answer.                    *)
EndCompact(c) ==
  /\ At(c, "replaying") /\ call[c].missed = {} /\ Unlocked
  /\ disk' = Saved
  /\ writes' = 0
  /\ Leave(c)
  /\ UNCHANGED <<storage, writer, up, past>>
-----------------------------------------------------------------------------
(* /search, without any lock                                               *)

Search(c) ==
  /\ At(c, "idle") /\ past.searches < MaxSearches /\ index.entryPoint # None
  /\ call' = [call EXCEPT ![c] = [Idle EXCEPT !.at = "reading", !.job = "search",
                                              !.todo = {index.entryPoint},
                                              !.mixed = ~ Unlocked]]
  /\ past' = [past EXCEPT !.searches = @ + 1]
  /\ UNCHANGED <<storage, writer, service>>

(* _distances_to(): the rows first, the quantizer that decodes them next.  *)
ReadRows(c) ==
  /\ At(c, "reading")
  /\ call' = [call EXCEPT ![c].at = "decoding",
                          ![c].rows = [i \in call[c].todo |-> Row(index, i)]]
  /\ UNCHANGED <<storage, writer, service, past>>

DecodeRows(c) ==
  /\ At(c, "decoding") /\ ~ CannotDecode
  /\ call' = [call EXCEPT ![c].at = "expanding", ![c].rows = << >>,
       ![c].found = [i \in DOMAIN @ \cup call[c].todo |->
                       IF i \in call[c].todo THEN Value(quantizer, call[c].rows[i]) ELSE @[i]]]
  /\ UNCHANGED <<storage, writer, service, past>>

(* The neighbors of all that was found, and the hits when there are none   *)
(* left.  _search_layer looks every id up in self.nodes.                   *)
Expand(c) ==
  /\ At(c, "expanding")
  /\ DOMAIN call[c].found \subseteq DOMAIN index.nodes
  /\ LET next == Findable(index) \ DOMAIN call[c].found IN
     call' = IF next # {}
             THEN [call EXCEPT ![c].at = "reading", ![c].todo = next]
             ELSE [call EXCEPT ![c].at = "answering", ![c].todo = {},
                               ![c].found = [i \in DOMAIN @ \cap Live(index) |-> @[i]]]
  /\ UNCHANGED <<storage, writer, service, past>>

Answer(c) ==
  /\ At(c, "answering")
  /\ DOMAIN call[c].found \subseteq DOMAIN index.nodes
  /\ call' = [call EXCEPT ![c].at = "answered", ![c].found = << >>,
       ![c].hits = {[distanceOf |-> call[c].found[i], meta |-> meta[i]] :
                      i \in DOMAIN call[c].found}]
  /\ UNCHANGED <<storage, writer, service, past>>

SearchRaises(c) ==
  /\ \/ At(c, "decoding") /\ CannotDecode
     \/ (At(c, "expanding") \/ At(c, "answering"))
        /\ ~ DOMAIN call[c].found \subseteq DOMAIN index.nodes
  /\ Leave(c)
  /\ past' = [past EXCEPT !.broken =
       @ \/ ~ (call[c].mixed \/ past.unfit \/ past.restarts > 0)]
  /\ UNCHANGED <<storage, writer, service>>

EndSearch(c) ==
  /\ At(c, "answered")
  /\ Leave(c)
  /\ UNCHANGED <<storage, writer, service, past>>
-----------------------------------------------------------------------------
(* A crash and the next start.  With a snapshot the index is built without *)
(* quantize, around the codes; without, it has a new quantizer, and the    *)
(* replay writes the vectors as they are where codes belong.               *)

Loading == [index |-> disk.saved, meta |-> disk.meta, raised |-> FALSE]

(* link() decodes during the replay, and nothing has been fitted.          *)
ReplayDecodes(ix, record) ==
  /\ ~ disk.exists /\ record.op = "insert" /\ ix.entryPoint # None
  /\ record.id \notin DOMAIN ix.nodes \/ Unlinked(ix, record.id)

ReplayOne(state, record) ==
  IF state.raised \/ ReplayRaises(state.index, record) \/ ReplayDecodes(state.index, record)
  THEN [state EXCEPT !.raised = TRUE]
  ELSE [state EXCEPT !.index = ReplayRecord(@, record, 0),
                     !.meta = IF record.op # "insert" \/ record.id \in DOMAIN @ THEN @
                              ELSE [i \in DOMAIN @ \cup {record.id} |->
                                      IF i = record.id THEN record.vec ELSE @[i]]]

Started ==
  LET state[k \in 0..Len(disk.log)] ==
        IF k = 0 THEN Loading ELSE ReplayOne(state[k - 1], disk.log[k])
  IN  state[Len(disk.log)]

Restart ==
  /\ up /\ past.restarts < MaxRestarts
  /\ LET end == Started IN index' = end.index /\ meta' = end.meta /\ up' = ~ end.raised
  /\ quantized' = ~ disk.exists
  /\ quantizer' = Unfitted
  /\ writer' = None
  /\ writes' = 0
  /\ call' = [c \in Clients |-> Idle]
  /\ past' = [past EXCEPT !.restarts = @ + 1,
       !.spoilt = IF disk.exists THEN @ \cup {disk.meta[i] : i \in DOMAIN disk.meta}
                  ELSE past.submitted]
  /\ UNCHANGED disk
-----------------------------------------------------------------------------
Next ==
  \/ \E c \in Clients :
       \/ FitQuantizer(c)
       \/ Insert(c) \/ ReserveNode(c) \/ LinkInsert(c) \/ LinkRaises(c) \/ Acknowledge(c)
       \/ Delete(c)
       \/ BeginCompact(c) \/ SwapVectors(c) \/ SwapNodes(c) \/ SwapEntry(c) \/ SwapQuantizer(c)
       \/ CompactRaises(c) \/ Reinsert(c) \/ LinkMissed(c) \/ EndCompact(c)
       \/ Search(c) \/ ReadRows(c) \/ DecodeRows(c) \/ Expand(c) \/ Answer(c)
       \/ SearchRaises(c) \/ EndSearch(c)
  \/ Restart

Spec == Init /\ [][Next]_vars
-----------------------------------------------------------------------------
TypeOK ==
  /\ \A ix \in {index, disk.saved} :
       /\ DOMAIN ix.nodes \subseteq Nat
       /\ \A i \in DOMAIN ix.vectors : ix.vectors[i] \in Codes
       /\ ix.entryPoint \in Nat \cup {None} /\ ix.nextId \in Nat
  /\ DOMAIN meta = DOMAIN index.nodes /\ \A i \in DOMAIN meta : meta[i] \in Values
  /\ quantized \in BOOLEAN /\ up \in BOOLEAN
  /\ quantizer.fitted => quantized /\ quantizer.min <= quantizer.max
  /\ quantizer.clipped \in 0..quantizer.total
  /\ writer \in Clients \cup {None}
  /\ writer # None => call[writer].at \in {"nodes", "entry", "quantizer"}
  /\ writes \in 0..SnapshotEvery
  /\ \A c \in Clients :
       /\ call[c].at \in {"idle", "encoded", "reserved", "done", "rebuilding", "nodes", "entry",
                          "quantizer", "replaying", "reading", "decoding", "expanding",
                          "answering", "answered"}
       /\ call[c].job \in {"none", "insert", "delete", "compact", "search"}
       /\ call[c].id \in Nat /\ call[c].vec \in Values \cup {Zero} /\ call[c].row \in Codes

(* Every row decodes to the vector that was inserted, through inserts that *)
(* race compactions, their swap and the re-insertion of what they missed   *)
(* ("compact() re-fits and re-encodes correctly", README.md:190).  Except  *)
(* vectors that were clipped, that were encoded with a range that another  *)
(* fit replaced before or after they were stored, or that were restarted.  *)
RowsAreReadable ==
  up /\ Unlocked =>
    \A i \in Live(index) :
       meta[i] \in past.spoilt \/ Value(quantizer, Row(index, i)) = meta[i]

(* What a compaction builds clips nothing and loses nothing, and needs no  *)
(* other compaction: README.md:272-275 has it as the answer to clipping.   *)
RebuildIsLossless ==
  \A c \in Clients : call[c].at = "rebuilding" /\ quantized =>
    LET q == NewQuantizer(call[c].live) IN
    /\ q.clipped = 0 /\ ~ ShouldRefit(q)
    /\ \A k \in DOMAIN call[c].live :
         Decode(q, Encode(q, call[c].live[k].vec)) = call[c].live[k].vec

(* A hit's distance is that of the vector its metadata belongs to, and a   *)
(* search does not raise, whatever inserts, deletes and rebuilds go on: as *)
(* long as the index is not exchanged under it (index.py:418-425).         *)
SearchIsSound ==
  /\ ~ past.broken
  /\ \A c \in Clients : At(c, "answered") /\ ~ call[c].mixed =>
       \A hit \in call[c].hits : hit.meta \in past.spoilt \/ hit.distanceOf = hit.meta

(* An acknowledged insert stays in the graph or in the hands of the thread *)
(* that compacts, unless the rebuild had nothing to fit its quantizer to,  *)
(* or a delete leaves no entry point to link the missed vectors to, or a   *)
(* second compaction has numbered the nodes anew under the first.          *)
CompactionKeepsInserts ==
  past.unfit \/ past.emptied \/ past.crossed \/ past.restarts > 0 \/
  past.acked \ past.erased \subseteq
    {meta[i] : i \in Live(index)} \cup
    UNION {{call[c].vec} \cup {row.meta : row \in call[c].missed} : c \in Clients}

(* The database starts again whatever it was told before                   *)
(* ("safe to call on every startup", database.py:62).                      *)
StartSucceeds == up
=============================================================================
