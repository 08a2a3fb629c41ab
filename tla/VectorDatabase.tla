--------------------------- MODULE VectorDatabase ---------------------------
(***************************************************************************)
(* core/database.py with storage/wal.py and storage/snapshot.py: insert,   *)
(* delete and compact calls of several request threads over one HNSWIndex, *)
(* one write-ahead log and one snapshot file, and what a crash and the     *)
(* next start make of the two files.                                       *)
(*                                                                         *)
(* A call is cut where another thread can run and see the difference: at   *)
(* the critical sections of the index lock, the log lock and the snapshot  *)
(* lock, and at the two ends of link() and of Snapshot.save.  A log write  *)
(* is on disk when _write returns (fsync).  Each vector is inserted by one *)
(* call at most, so that a row tells which insert it comes from.           *)
(*                                                                         *)
(* The container is restarted whenever it stops (docker-compose.yml).      *)
(***************************************************************************)
EXTENDS IndexStore, FiniteSets

CONSTANTS Clients,        \* the request threads
          Vectors,        \* the vectors they may insert
          SnapshotEvery,  \* snapshot_every_n_writes
          Tears,          \* how a crash may cut a log write short, see Crash
          CompactKinds,   \* how compact() is called, see BeginCompact
          MaxCrashes,     \* bound: crashes of the process
          MaxCompactions  \* bound: calls of compact()

ASSUME DatabaseAssumption ==
  /\ Zero \notin Vectors
  /\ None \notin Clients \cup Nat \cup Vectors
  /\ MaxLevel \in Nat
  /\ SnapshotEvery \in Nat \ {0}
  /\ Tears \subseteq {"cut", "unended"}
  /\ CompactKinds \subseteq {"compact", "background"}
  /\ MaxCrashes \in Nat
  /\ MaxCompactions \in Nat

VARIABLES
  index,         \* self.index
  retired,       \* the contents compactions have swapped out of it, in order
  wal,           \* the log file: a sequence of records
  snapshot,      \* the snapshot file: the index that the next start begins
                 \* with, which is an empty one as long as there is no file
  mode,          \* "down", "replay" (in __init__) or "up"
  pending,       \* the records the replay has still to apply
  writes,        \* self._writes_since_snapshot
  snapshotLock,  \* who holds self._snapshot_lock
  call,          \* the call each client is in
  past           \* what happened so far; the program does not read it

vars == <<index, retired, wal, snapshot, mode, pending, writes, snapshotLock, call, past>>

(* Where a call stands: "reserved" before its log record, "toLink" before  *)
(* link(), "linking" in it, "tombstoned" before its log record, "done"     *)
(* when memory is updated and logged, "snapshot" on the way to             *)
(* _force_snapshot, "captured" and "saved" inside it, "rebuilding" in      *)
(* compact().                                                              *)
IdleCall == [at     |-> "idle",
             op     |-> "none",
             id     |-> 0,
             vec    |-> Zero,
             gen    |-> 0,           \* the generation of nodes the call holds
             chosen |-> {},          \* selected,
             level  |-> -1,          \* level and
             top    |-> -1,          \* top_layer of link()
             image  |-> EmptyIndex,  \* what Snapshot.save copied
             rows   |-> << >>,       \* live_ids, live_vectors of compact()
             todo   |-> {}]          \* missed, of compact()

Init ==
  /\ index = EmptyIndex
  /\ retired = << >>
  /\ wal = << >>
  /\ snapshot = EmptyIndex
  /\ mode = "down"
  /\ pending = << >>
  /\ writes = 0
  /\ snapshotLock = None
  /\ call = [c \in Clients |-> IdleCall]
  /\ past = [submitted   |-> {},   \* vectors given to insert()
             seeds       |-> {},   \* made the entry point by what is not link()
             logged      |-> {},   \* whose insert record was written
             acked       |-> [v \in Vectors |-> None],  \* the id insert() returned
             erasing     |-> {},   \* whose node was tombstoned by a delete()
             erased      |-> {},   \* and the delete() returned True
             torn        |-> FALSE,  \* some snapshot raced a write, see Races, or
                                     \* is apart from the log, see Mixed
             stranded    |-> FALSE,  \* the entry point hid nodes, see Hides
             crossed     |-> FALSE,  \* a write was in progress during a compaction,
                                     \* see Swap and Delete, or another compaction
             numbering   |-> 0,      \* the generation whose ids the files use
             crashes     |-> 0,
             compactions |-> 0]

Generation == Len(retired)

(* The nodes of generation g: frozen once a compaction has replaced them.  *)
NodesOf(g) == IF g = Generation THEN index ELSE retired[g + 1]

(* A compaction has renumbered the nodes in memory, but not those on disk. *)
Renumbered == past.numbering # Generation

Compacting == {c \in Clients : call[c].op \in {"compact", "background"}}

Serving == mode = "up" /\ \A c \in Clients : call[c].op # "close"

At(c, place) == mode = "up" /\ call[c].at = place
Goto(c, place) == call' = [call EXCEPT ![c].at = place]

(* The call ends with an exception (HTTP 500): nothing is acknowledged.    *)
Raise(c) == /\ call' = [call EXCEPT ![c] = IdleCall]
            /\ UNCHANGED past

(* The call returns: an insert its node id, a delete True.                 *)
Return(c) ==
  /\ call' = [call EXCEPT ![c] = IdleCall]
  /\ past' = [past EXCEPT
       !.acked  = [v \in Vectors |-> IF call[c].op = "insert" /\ v = call[c].vec
                                     THEN call[c].id ELSE @[v]],
       !.erased = IF call[c].op = "delete" THEN @ \cup {call[c].vec} ELSE @,
       !.numbering = IF call[c].at = "saved" THEN call[c].gen ELSE @]

(* A dead entry point hides every node that is inserted when all others    *)
(* are dead too: link() finds nothing to connect it to.                    *)
DeadEntry(ix) == ix.entryPoint \in DOMAIN ix.nodes \ Live(ix)

(* An entry point without edges hides the nodes that are linked already,   *)
(* for good: link() of it returns at once, and theirs is over or under way.*)
BareEntry(ix) ==
  /\ ix.entryPoint \in DOMAIN ix.nodes
  /\ ix.nodes[ix.entryPoint].links \in {"none", "alone"}
  /\ \E i \in Live(ix) \ {ix.entryPoint} : ix.nodes[i].links # "none"

(* Either does harm when no link() is under way.                           *)
Hides(ix) == DeadEntry(ix) \/ BareEntry(ix)

(* What the step makes reachable as the new entry point.                   *)
Seeded == {Row(index', e) : e \in {index'.entryPoint} \ {None, index.entryPoint}}

memory  == <<index, retired>>
files   == <<wal, snapshot>>
startup == <<mode, pending>>
counter == <<writes, snapshotLock>>
-----------------------------------------------------------------------------
(* insert()                                                                *)

(* index.reserve(): row and bare node, under the write lock.               *)
Insert(c) ==
  /\ Serving /\ At(c, "idle")
  /\ \E v \in Vectors \ past.submitted, level \in Levels :
       /\ index' = Reserve(index, v, level)
       /\ call' = [call EXCEPT ![c] = [IdleCall EXCEPT !.at = "reserved", !.op = "insert",
                                                       !.id = index.nextId, !.vec = v]]
       /\ past' = [past EXCEPT !.submitted = @ \cup {v},
                               !.seeds = @ \cup Seeded]
  /\ UNCHANGED <<retired, files, startup, counter>>

(* wal.log_insert().  The record is lost to the next truncate() when a     *)
(* snapshot that cannot contain it is being made; and it has a new id      *)
(* among old ones when a compaction has not been saved.                    *)
LogInsert(c) ==
  /\ At(c, "reserved")
  /\ wal' = Logged(wal, InsertRecord(call[c].id, call[c].vec))
  /\ Goto(c, "toLink")
  /\ past' = [past EXCEPT !.logged = @ \cup {call[c].vec},
                          !.torn = @ \/ snapshotLock # None \/ Renumbered]
  /\ UNCHANGED <<memory, snapshot, startup, counter>>

(* link() of the entry point returns at once.                              *)
LinkEntryPoint(c) ==
  /\ At(c, "toLink")
  /\ call[c].id \in DOMAIN index.nodes
  /\ call[c].id = index.entryPoint
  /\ Goto(c, "done")
  /\ UNCHANGED <<memory, files, startup, counter, past>>

(* link() until the node's own lists are set.                              *)
(* (StartLinkIn: from one of the given places; EarlyLink is a fault for    *)
(* the checks, link() before log_insert().)                                *)
StartLinkIn(c, places) ==
  /\ \E place \in places : At(c, place)
  /\ call[c].id \in DOMAIN index.nodes
  /\ index.entryPoint \in DOMAIN index.nodes \ {call[c].id}
  /\ index' = LinkOut(index, call[c].id, Chosen(index, call[c].id))
  /\ call' = [call EXCEPT ![c].at = "linking", ![c].gen = Generation, ![c].top = index.maxLayer,
                          ![c].chosen = Chosen(index, call[c].id),
                          ![c].level = index.nodes[call[c].id].level]
  /\ UNCHANGED <<retired, files, startup, counter, past>>

EarlyLink(c) == StartLinkIn(c, {"reserved", "toLink"})
StartLink(c) == StartLinkIn(c, {"toLink"})

(* The rest of link().  If a compaction has replaced the nodes, the edges  *)
(* it sets are of no use, and the new graph may get the id of the old node *)
(* for its entry point.                                                    *)
FinishLink(c) ==
  /\ At(c, "linking")
  /\ LET k      == call[c]
         linked == IF k.gen = Generation THEN LinkBack(index, k.id, k.chosen) ELSE index
     IN  index' = IF k.level > k.top THEN Promote(linked, k.id, k.level) ELSE linked
  /\ past' = [past EXCEPT !.stranded = @ \/ DeadEntry(index')]
  /\ Goto(c, "done")
  /\ UNCHANGED <<retired, files, startup, counter>>

(* link() raises: the node or the nodes it meets were replaced by a        *)
(* compaction (KeyError), or there is no entry point (IndexError).         *)
LinkRaises(c) ==
  /\ \/ /\ At(c, "toLink")
        /\ {call[c].id, index.entryPoint} \ DOMAIN index.nodes # {}
     \/ At(c, "linking") /\ call[c].gen # Generation
  /\ Raise(c)
  /\ UNCHANGED <<memory, files, startup, counter>>
-----------------------------------------------------------------------------
(* delete()                                                                *)

(* The ids a caller has been told: by insert(), or by a search.            *)
KnownIds == Findable(index) \cup {past.acked[v] : v \in Vectors}

(* index.delete(): the tombstone comes before the log record.  (For a dead *)
(* or unknown id delete() returns False and changes nothing.)              *)
Delete(c) ==
  /\ Serving /\ At(c, "idle")
  /\ \E id \in KnownIds \cap Live(index) :
       /\ index' = Tombstone(index, id)
       /\ call' = [call EXCEPT ![c] = [IdleCall EXCEPT !.at = "tombstoned", !.op = "delete",
                                                       !.id = id, !.vec = Row(index, id)]]
       /\ past' = [past EXCEPT !.erasing = @ \cup {Row(index, id)},
                               !.seeds = @ \cup Seeded,
                               !.stranded = @ \/ (id = index.entryPoint /\ BareEntry(index')),
                               !.crossed = @ \/ Compacting # {}]
  /\ UNCHANGED <<retired, files, startup, counter>>

(* The record of a delete comes before that of the insert.                 *)
Early(c) == call[c].op = "delete" /\ call[c].vec \notin past.logged

(* wal.log_delete().                                                       *)
LogDelete(c) ==
  /\ At(c, "tombstoned")
  /\ wal' = Logged(wal, DeleteRecord(call[c].id))
  /\ Goto(c, "done")
  /\ past' = [past EXCEPT !.torn = @ \/ snapshotLock # None \/ Renumbered \/ Early(c)]
  /\ UNCHANGED <<memory, snapshot, startup, counter>>
-----------------------------------------------------------------------------
(* _maybe_snapshot() and _force_snapshot()                                 *)

MaybeSnapshot(c) ==
  /\ At(c, "done") /\ call[c].op \in {"insert", "delete"}
  /\ writes' = writes + 1
  /\ IF writes' >= SnapshotEvery
     THEN Goto(c, "snapshot") /\ UNCHANGED past
     ELSE Return(c)
  /\ UNCHANGED <<memory, files, startup, snapshotLock>>

(* Snapshot.save() up to the release of the read lock.  It may miss what a *)
(* compaction has not inserted again yet.                                  *)
(* (TruncateFirst is a fault for the checks: truncate() before save().)    *)
CaptureLeaving(c, log) ==
  /\ At(c, "snapshot")
  /\ snapshotLock = None
  /\ snapshotLock' = c
  /\ call' = [call EXCEPT ![c].at = "captured", ![c].gen = Generation, ![c].image = index]
  /\ wal' = log
  /\ past' = [past EXCEPT !.torn = @ \/ \E d \in Compacting : call[d].todo # {}]
  /\ UNCHANGED <<memory, snapshot, startup, writes>>

TruncateFirst(c) == CaptureLeaving(c, << >>)
Capture(c) == CaptureLeaving(c, wal)

(* A snapshot races a write when it holds a logged node that nothing links *)
(* to and that is not its entry point, a node beyond the rows copied, or a *)
(* dead or bare entry point.                                               *)
Races(saved) ==
  \/ Hides(saved)
  \/ DOMAIN saved.nodes \ DOMAIN saved.vectors # {}
  \/ \E i \in Live(saved) \ Findable(saved) : saved.vectors[i] \in past.logged

(* pickle.dump() to a temporary file, and the rename over the target.      *)
Save(c) ==
  /\ At(c, "captured")
  /\ LET now == NodesOf(call[c].gen) IN
     \E stale \in SUBSET Changed(call[c].image, now) :
       /\ snapshot' = Pickled(call[c].image, now, stale)
       /\ past' = [past EXCEPT !.torn = @ \/ Races(snapshot')]
  /\ Goto(c, "saved")
  /\ UNCHANGED <<memory, wal, startup, counter>>

(* "dictionary changed size during iteration": a node was added to the     *)
(* dict, or a first list to the dict of a node, while pickle walked it.    *)
SaveRaises(c) ==
  /\ At(c, "captured")
  /\ LET now == NodesOf(call[c].gen) IN
     \/ DOMAIN now.nodes # DOMAIN call[c].image.nodes
     \/ \E i \in Changed(call[c].image, now) :
          call[c].image.nodes[i].links = "none" /\ now.nodes[i].links # "none"
  /\ snapshotLock' = None
  /\ Raise(c)
  /\ UNCHANGED <<memory, files, startup, writes>>

(* wal.truncate(), the counter's reset and the lock's release.  After a    *)
(* close() the process ends.                                               *)
(* (KeepLock is a fault for the checks.)                                   *)
TruncateAndHold(c, lock) ==
  /\ At(c, "saved")
  /\ wal' = << >>
  /\ writes' = 0
  /\ snapshotLock' = lock
  /\ Return(c)
  /\ mode' = IF call[c].op = "close" THEN "down" ELSE mode
  /\ UNCHANGED <<memory, snapshot, pending>>

KeepLock(c) == TruncateAndHold(c, snapshotLock)
Truncate(c) == TruncateAndHold(c, None)

(* close(): the server has finished every request before it calls it.      *)
Close(c) ==
  /\ Serving /\ \A d \in Clients : At(d, "idle")
  /\ call' = [call EXCEPT ![c] = [IdleCall EXCEPT !.at = "snapshot", !.op = "close"]]
  /\ UNCHANGED <<memory, files, startup, counter, past>>
-----------------------------------------------------------------------------
(* compact(): "compact" for background=False, which is what the server     *)
(* calls; "background" for the thread that neither logs nor saves.         *)

BeginCompact(c) ==
  /\ Serving /\ At(c, "idle")
  /\ past.compactions < MaxCompactions
  /\ \E op \in CompactKinds :
       call' = [call EXCEPT ![c] = [IdleCall EXCEPT !.at = "rebuilding", !.op = op,
                                                    !.rows = LiveRows(index)]]
  /\ past' = [past EXCEPT !.compactions = @ + 1,
                          !.crossed = @ \/ Compacting # {}]
  /\ UNCHANGED <<memory, files, startup, counter>>

(* Fault for the checks: nothing is replayed onto the new graph.           *)
NothingMissed(c) == {}

(* The rows that raced the rebuild: live now, but not when it began.       *)
Missed(c) ==
  LET then == {call[c].rows[k].id : k \in DOMAIN call[c].rows}
  IN  {Row(index, i) : i \in Live(index) \ then}

(* Adopt the rebuilt graph and keep the missed rows for later.             *)
Swap(c) ==
  /\ At(c, "rebuilding")
  /\ call' = [call EXCEPT ![c].at = "done", ![c].todo = Missed(c)]
  /\ \E levels \in [DOMAIN call[c].rows -> Levels] : index' = Rebuilt(call[c].rows, levels)
  /\ retired' = Append(retired, index)
  /\ past' = [past EXCEPT
       !.crossed = @ \/ \E d \in Clients : call[d].at \in {"reserved", "toLink", "linking", "tombstoned"}]
  /\ UNCHANGED <<files, startup, counter>>

(* self.insert() of one of them: reserve(), then link() as above.          *)
Reinsert(c) ==
  /\ At(c, "done")
  /\ \E v \in call[c].todo, level \in Levels :
       /\ index' = Reserve(index, v, level)
       /\ call' = [call EXCEPT ![c].at = "toLink", ![c].id = index.nextId,
                               ![c].vec = v, ![c].todo = @ \ {v}]
  /\ UNCHANGED <<retired, files, startup, counter, past>>

LogCompact(c) ==
  /\ At(c, "done") /\ call[c].op = "compact" /\ call[c].todo = {}
  /\ wal' = Logged(wal, CompactRecord)
  /\ Goto(c, "snapshot")
  /\ UNCHANGED <<memory, snapshot, startup, counter, past>>

EndBackground(c) ==
  /\ At(c, "done") /\ call[c].op = "background" /\ call[c].todo = {}
  /\ Return(c)
  /\ UNCHANGED <<memory, files, startup, counter>>
-----------------------------------------------------------------------------
(* The process                                                             *)

(* Memory, locks and calls are gone; the files stay as they are.           *)
Gone ==
  /\ index' = EmptyIndex
  /\ retired' = << >>
  /\ pending' = << >>
  /\ writes' = 0
  /\ snapshotLock' = None
  /\ call' = [c \in Clients |-> IdleCall]
  /\ UNCHANGED snapshot

(* The snapshot is the outcome of the record, and of others.               *)
Covers(saved, record) ==
  CASE record.op = "insert" -> record.id \in DOMAIN saved.nodes /\ Row(saved, record.id) = record.vec
    [] record.op = "delete" -> record.id \in DOMAIN saved.nodes \ Live(saved)
    [] OTHER -> TRUE

(* The renumbered vectors have been saved beside the old log: replay would *)
(* insert some twice, and delete the wrong ones now or later.              *)
Mixed ==
  /\ \E c \in Clients : At(c, "saved") /\ call[c].gen # past.numbering
  /\ \E k \in DOMAIN wal : ~ Covers(snapshot, wal[k])

(* The record that is on its way into the log.                             *)
Writing(c) ==
  IF call[c].op = "insert" THEN InsertRecord(call[c].id, call[c].vec)
  ELSE DeleteRecord(call[c].id)

(* A crash in the middle of a log write leaves part of the line, or all of *)
(* it but the newline.                                                     *)
Crash ==
  /\ mode \in {"up", "replay"}
  /\ past.crashes < MaxCrashes
  /\ mode' = "down"
  /\ \/ /\ wal' = wal
        /\ past' = [past EXCEPT !.crashes = @ + 1, !.torn = @ \/ Mixed]
     \/ \E c \in Clients, tear \in Tears :
          /\ At(c, "reserved") \/ At(c, "tombstoned")
          /\ wal' = Cut(wal, Writing(c), tear)
          /\ past' = [past EXCEPT
               !.crashes = @ + 1,
               !.logged = IF call[c].op = "insert" THEN @ \cup {call[c].vec} ELSE @,
               !.torn = @ \/ Mixed \/ Renumbered \/ Early(c)]
  /\ Gone

(* __init__: load the snapshot, if there is one, and open the log.         *)
Start ==
  /\ mode = "down"
  /\ mode' = "replay"
  /\ index' = snapshot
  /\ retired' = << >>
  /\ pending' = wal
  /\ past' = [past EXCEPT !.numbering = 0]
  /\ UNCHANGED <<files, counter, call>>

(* One turn of the loop of _replay_wal.                                    *)
Replay ==
  /\ mode = "replay" /\ pending # << >>
  /\ ~ ReplayRaises(index, Head(pending))
  /\ \E level \in Levels : index' = ReplayRecord(index, Head(pending), level)
  /\ pending' = Tail(pending)
  /\ past' = [past EXCEPT !.stranded = @ \/ Hides(index'), !.seeds = @ \cup Seeded]
  /\ UNCHANGED <<retired, files, mode, counter, call>>

(* The constructor raises, the import of api.main with it.                 *)
ReplayDies ==
  /\ mode = "replay" /\ pending # << >>
  /\ ReplayRaises(index, Head(pending))
  /\ mode' = "down"
  /\ Gone
  /\ UNCHANGED <<wal, past>>

Serve ==
  /\ mode = "replay" /\ pending = << >>
  /\ mode' = "up"
  /\ UNCHANGED <<memory, files, pending, counter, call, past>>
-----------------------------------------------------------------------------
(* What a call does by itself once it has begun.                           *)
Proceed(c) ==
  \/ LogInsert(c) \/ LinkEntryPoint(c) \/ StartLink(c) \/ FinishLink(c) \/ LinkRaises(c)
  \/ LogDelete(c)
  \/ MaybeSnapshot(c) \/ Capture(c) \/ Save(c) \/ SaveRaises(c) \/ Truncate(c)
  \/ Swap(c) \/ Reinsert(c) \/ LogCompact(c) \/ EndBackground(c)

Boot == Start \/ Replay \/ ReplayDies \/ Serve

Next ==
  \/ \E c \in Clients : Insert(c) \/ Delete(c) \/ BeginCompact(c) \/ Close(c) \/ Proceed(c)
  \/ Crash
  \/ Boot

(* Threads are scheduled, and the restart policy starts the process again. *)
Fairness == (\A c \in Clients : WF_vars(Proceed(c))) /\ WF_vars(Boot)

Spec == Init /\ [][Next]_vars
FairSpec == Spec /\ Fairness
-----------------------------------------------------------------------------
(* The indexes the next start may make of the two files (none, if it must  *)
(* fail), and the vectors a search may find then, and finds for certain.   *)
OnDisk == Recovered(snapshot, wal)
Remaining == UNION {Contents(ix) : ix \in OnDisk}
Durable == {v \in Remaining : \A ix \in OnDisk : v \in Contents(ix)}

(* A row for each id given out and a dict of nodes.  A snapshot            *)
(* may have more nodes than rows.                                          *)
IsIndex(ix) ==
  /\ ix \in [vectors    : [0..(ix.nextId - 1) -> Vectors \cup {Zero}],
             nodes      : [DOMAIN ix.nodes -> Node],
             order      : Seq(DOMAIN ix.nodes),
             entryPoint : Nat \cup {None},
             maxLayer   : Levels \cup {-1},
             nextId     : Nat]
  /\ IsInjective(ix.order) /\ ToSet(ix.order) = DOMAIN ix.nodes
  /\ DOMAIN ix.nodes \subseteq Nat

Records == [op    : {"insert", "delete", "compact", "torn"},
            id    : Nat,
            vec   : Vectors \cup {Zero},
            ended : BOOLEAN]

Rows == [id : Nat, vec : Vectors \cup {Zero}]

Places == {"idle", "reserved", "toLink", "linking", "tombstoned", "done", "snapshot",
           "captured", "saved", "rebuilding"}

Calls(images) ==
         [at     : Places,
          op     : {"none", "insert", "delete", "compact", "background", "close"},
          id     : Nat,
          vec    : Vectors \cup {Zero},
          gen    : Nat,
          chosen : SUBSET Nat,
          level  : Levels \cup {-1},
          top    : Levels \cup {-1},
          image  : images,
          rows   : Seq(Rows),
          todo   : SUBSET (Vectors \cup {Zero})]

TypeOK ==
  /\ IsIndex(index) /\ IsIndex(snapshot)
  /\ retired \in Seq(ToSet(retired)) /\ \A ix \in ToSet(retired) : IsIndex(ix)
  /\ {wal, pending} \subseteq Seq(Records)
  /\ mode \in {"down", "replay", "up"}
  /\ writes \in Nat
  /\ snapshotLock \in Clients \cup {None}
  /\ call \in [Clients -> Calls({call[c].image : c \in Clients})]
  /\ \A c \in Clients : IsIndex(call[c].image)

(* The log has a line on which every start fails.                          *)
Unreadable == \E k \in DOMAIN wal : wal[k].op = "torn"

(* Every start fails: the log is unreadable, or it inserts a node which    *)
(* the snapshot holds without edges, and there is no entry point to link   *)
(* it to when its turn comes.                                              *)
Doomed ==
  \/ Unreadable
  \/ \E k \in DOMAIN wal : \E ix \in Recovered(snapshot, SubSeq(wal, 1, k - 1)) :
     wal[k].op = "insert" /\ Unlinked(ix, wal[k].id) /\ ix.entryPoint = None

(* The entry point hid nodes, or will do so in a replay: it draws other    *)
(* levels, so that it may have, and lose, another entry point than memory  *)
(* had.                                                                    *)
Stranded ==
  \/ past.stranded
  \/ \E k \in 0..Len(wal) : \E ix \in Recovered(snapshot, SubSeq(wal, 1, k)) : Hides(ix)

(* An insert that was acknowledged, and whose node no delete() has touched *)
(* since, is brought back by the next start, whenever the process dies:    *)
(* database.py:112-113, "no write is ever acknowledged without first being *)
(* durable".                                                               *)
AckedInsertsKept ==
  \A v \in Vectors :
     past.acked[v] # None /\ v \notin past.erasing => v \in Durable

(* A vector whose delete() returned True does not come back.               *)
AckedDeletesKept == past.erased \cap Remaining = {}

(* Both hold as long as no write races the making of a snapshot or the     *)
(* swap of a compaction, no dead or bare node is the entry point, the      *)
(* start need not fail, and no crash leaves the renumbered snapshot of a   *)
(* compaction beside the old log: not only in the instant of the           *)
(* acknowledgement but through every later write, truncation, compaction,  *)
(* crash and half-finished recovery.                                       *)
AckedWritesSurvive ==
  \/ past.torn \/ Stranded \/ past.crossed \/ Doomed \/ Mixed
  \/ (AckedInsertsKept /\ AckedDeletesKept)

(* A search returns only vectors whose record is on disk: link() makes a   *)
(* node reachable, and comes after the record (database.py:106-109), also  *)
(* when the node came into memory with a snapshot or a replay.  Except a   *)
(* node that becomes the entry point without link(), the first of an index *)
(* or the heir of a deleted one; and a snapshot that raced a write may     *)
(* leave nodes without rows, whose ids the next inserts are given again.   *)
ReadsAreLogged ==
  past.torn \/ past.compactions > 0 \/ Contents(index) \subseteq past.logged \cup past.seeds

(* The id insert() returned denotes its vector for ever: in memory, and in *)
(* every index a restart makes of the files; no id is given out twice      *)
(* ("stable and deterministic", index.py:194-196).                         *)
IdsAreStable ==
  past.torn \/ past.compactions > 0 \/
  \A v \in Vectors : past.acked[v] # None =>
     /\ \A ix \in OnDisk : Row(ix, past.acked[v]) = v
     /\ mode = "up" => Row(index, past.acked[v]) = v

(* Between the rename of a new snapshot and the truncation of the log, the *)
(* log holds records the snapshot already contains.  A crash in that gap   *)
(* does no harm: they change nothing (database.py:60-64), unless compact() *)
(* has renumbered what the snapshot holds.                                 *)
ReplayIsIdempotent ==
  \A c \in Clients, ix \in OnDisk :
     call[c].at = "saved" /\ ~ past.torn /\ ~ past.crossed /\ ~ Mixed =>
       Contents(ix) = Contents(snapshot)

(* A compaction loses no insert that was acknowledged before or during the *)
(* rebuild: its vector is in the graph, or in the hands of the compacting  *)
(* thread (index.py:473-474, "any writes that land on self during the      *)
(* rebuild window are captured by a diff after the swap and replayed").    *)
CompactionKeepsInserts ==
  past.crashes > 0 \/ mode # "up" \/
  \A v \in Vectors : past.acked[v] # None /\ v \notin past.erasing =>
     v \in Contents(index) \cup UNION {call[c].todo \cup {call[c].vec} : c \in Compacting}

(* What a delete() acknowledged as gone, no search finds again.            *)
DeletedStaysDeleted ==
  past.crashes > 0 \/ mode # "up" \/ past.erased \cap Contents(index) = {}

(* Both hold as long as the writes of the rebuild window are over when the *)
(* graphs are swapped, and are inserts, and no dead or bare node becomes   *)
(* the entry point.                                                        *)
CompactionKeepsWrites ==
  \/ past.crossed \/ past.stranded
  \/ (CompactionKeepsInserts /\ DeletedStaysDeleted)

(* A database that is down comes up again, whatever is in its files        *)
(* ("safe to call on every startup", database.py:62), unless it is Doomed. *)
RestartCompletesUnlessDoomed == mode = "down" ~> (mode = "up" \/ Doomed)

(* Every call ends: no call waits for ever on the snapshot lock.           *)
CallsReturn == \A c \in Clients : call[c].at # "idle" ~> call[c].at = "idle"
=============================================================================
