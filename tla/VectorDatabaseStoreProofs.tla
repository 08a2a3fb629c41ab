---------------------- MODULE VectorDatabaseStoreProofs ----------------------
(***************************************************************************)
(* Store: one client's database implements DurableStore, and what it makes *)
(* an exception of takes a crash.  For any vectors, levels and crashes,    *)
(* with and without torn log lines; stated without compactions.            *)
(***************************************************************************)
EXTENDS VectorDatabaseStore, VectorDatabaseProofs

(* One client: the entry point hides nothing                               *)

(* One client, and no compaction.                                          *)
Single == MaxCompactions = 0 /\ \A c, d \in Clients : c = d

(* Every live node is found, and the entry point is one of them.           *)
Firm(ix) == Live(ix) \subseteq Findable(ix) /\ ~ DeadEntry(ix)

(* So it is but for the node that link() is at work on.                    *)
Nearly(ix, id) ==
  id \in Live(ix) /\ Live(ix) \subseteq Findable(ix) \cup {id} /\ ix.entryPoint \in Live(ix)

(* The log has one insert record for an id; and first come the records of  *)
(* what is in the snapshot, left by a crash between Save and Truncate.     *)
Ordered(s, log) ==
  \A j, k \in DOMAIN log : j < k /\ log[j].op = "insert" /\ log[k].op = "insert" =>
     /\ log[j].id # log[k].id
     /\ log[k].id \in DOMAIN s.nodes => log[j].id \in DOMAIN s.nodes

(* The log says nothing that the index does not know.                      *)
KnownTo(s, log) == \A k \in DOMAIN log : log[k].op = "insert" => log[k].id \in DOMAIN s.nodes

(* The inductive invariant of one client.  The files: what is in the       *)
(* snapshot is logged and found.                                           *)
OneDisk ==
  /\ past.submitted \subseteq Vectors /\ past.erasing \subseteq past.logged
  /\ Vecs(snapshot) \subseteq past.logged
  /\ Firm(snapshot) /\ Ordered(snapshot, wal)

(* The replay: each way to draw the levels so far keeps every node found,  *)
(* and without a new insert there is one way only.                         *)
OneReplay ==
  mode = "replay" =>
    \/ Torn(wal)
    \/ \E n \in 0..Len(wal) :
          LET R == Recovered(snapshot, SubSeq(wal, 1, n)) IN
          /\ pending = SubSeq(wal, n + 1, Len(wal))
          /\ index \in R /\ \A x \in R : Firm(x)
          /\ KnownTo(snapshot, SubSeq(wal, 1, n)) => R = {index}

(* The call: memory is ahead of the files by its own write, and but for    *)
(* the node it links everything is found.                                  *)
OneCall(c) ==
  LET k == call[c] IN
  mode = "up" =>
    /\ Dead(snapshot) \subseteq Dead(index)
    /\ Torn(wal) \/ Dead(index) \subseteq Dead(snapshot) \cup Deletes(wal)
                                 \cup {i \in {k.id} : k.at = "tombstoned"}
    /\ Vecs(index) \subseteq past.logged \cup {v \in {k.vec} : k.at = "reserved"}
    /\ k.at # "saved" => Torn(wal) \/ (OnDisk # {} /\ \A x \in OnDisk : Firm(x))
    /\ k.at \in {"reserved", "toLink"} => Nearly(index, k.id)
    /\ k.at = "linking" => /\ k.gen = 0 /\ k.id \in Live(index)
                           /\ k.id # index.entryPoint /\ index.entryPoint \in Live(index)
                           /\ k.chosen = Live(index) \ {k.id}
    /\ k.at \notin {"reserved", "toLink", "linking"} => Firm(index)
    /\ k.op = "insert" /\ k.at # "idle" => k.id \in Live(index)
    /\ k.op = "delete" /\ k.at # "idle" => k.vec \in past.erasing
    /\ k.at = "captured" => k.image = index
    /\ k.at = "saved" => snapshot = index

OneCore == OneDisk /\ OneReplay /\ \A c \in Clients : OneCall(c)

(* It holds until something is torn or hidden, see OnlyCrashesUndo.        *)
OneInv == past.compactions = 0 /\ (~ past.torn /\ ~ past.stranded => OneCore)

(* The vectors that the files name, and whose delete they do not name.     *)
Listed == {p[2] : p \in {q \in OnFile : q[1] \notin Dead(snapshot) \cup Deletes(wal)}}

(* The entry point of a firm index, and what makes an index firm.          *)
LEMMA FirmEntry ==
  ASSUME NEW ix, Formed(ix), Firm(ix)
  PROVE  /\ ix.entryPoint \in Live(ix) \/ (ix.entryPoint = None /\ Live(ix) = {})
         /\ Findable(ix) = Live(ix)
         /\ \A i \in Live(ix) \ {ix.entryPoint} :
              ix.nodes[i].links = "full" /\ ix.nodes[ix.entryPoint].links \in {"out", "full"}
<1>1. None \notin DOMAIN ix.nodes /\ ix.entryPoint \in DOMAIN ix.nodes \cup {None}
  BY DatabaseAssumption DEF Formed
<1>2. Findable(ix) \subseteq Live(ix) /\ Live(ix) \subseteq DOMAIN ix.nodes
  BY DEF Findable, Live
<1>3. CASE ix.entryPoint = None
  <2>1. Findable(ix) = {}
    BY <1>1, <1>3 DEF Findable
  <2>2. QED
    BY <2>1, <1>3 DEF Firm
<1>4. CASE ix.entryPoint \in DOMAIN ix.nodes
  <2>1. ix.entryPoint \in Live(ix)
    BY <1>4 DEF Firm, DeadEntry
  <2>2. \A i \in Live(ix) \ {ix.entryPoint} :
          ix.nodes[i].links = "full" /\ ix.nodes[ix.entryPoint].links \in {"out", "full"}
    BY <1>4 DEF Firm, Findable
  <2>3. QED
    BY <2>1, <2>2, <1>2 DEF Firm
<1>5. QED
  BY <1>1, <1>3, <1>4

LEMMA FirmLinks ==
  ASSUME NEW ix, ix.entryPoint \in Live(ix),
         \A i \in Live(ix) \ {ix.entryPoint} :
           ix.nodes[i].links = "full" /\ ix.nodes[ix.entryPoint].links \in {"out", "full"}
  PROVE  Firm(ix)
<1>1. ix.entryPoint \in DOMAIN ix.nodes
  BY DEF Live
<1>2. Live(ix) \subseteq Findable(ix)
  BY <1>1 DEF Findable
<1>3. QED
  BY <1>2 DEF Firm, DeadEntry

LEMMA NoneIsFirm ==
  ASSUME NEW ix, Formed(ix), ix.entryPoint = None, Live(ix) = {}
  PROVE  Firm(ix)
<1>1. None \notin DOMAIN ix.nodes
  BY DatabaseAssumption DEF Formed
<1>2. QED
  BY <1>1 DEF Firm, DeadEntry

(* link() of the only node that is not found yet, or of a dead one, whose  *)
(* level may be above the others.                                          *)
LEMMA FirmLink ==
  ASSUME NEW ix, Formed(ix), NEW id \in DOMAIN ix.nodes, id # ix.entryPoint,
         ix.entryPoint \in Live(ix), Live(ix) \subseteq Findable(ix) \cup {id}
  PROVE  LET r == Link(ix, id) IN
         /\ DeadEntry(r) \/ Firm(r)
         /\ id \in Live(ix) => Firm(r)
<1> DEFINE chosen == Chosen(ix, id)
           r == Link(ix, id)
<1>1. /\ Tied(ix, r) /\ r.entryPoint \in {ix.entryPoint, id}
      /\ \A i \in DOMAIN ix.nodes :
           r.nodes[i].links =
             IF chosen # {} /\ i \in chosen \cup {id} THEN "full"
             ELSE IF i = id /\ ix.nodes[id].links = "none" THEN "alone"
             ELSE ix.nodes[i].links
  BY LinkLinks
<1>2. ix.entryPoint \in chosen /\ Live(ix) \subseteq chosen \cup {id}
  BY DEF Chosen, Findable, Live
<1> HIDE DEF chosen, r
<1>3. /\ Formed(r) /\ DOMAIN r.nodes = DOMAIN ix.nodes /\ Dead(r) = Dead(ix)
  BY <1>1 DEF Tied, Same
<1>4. Live(r) = Live(ix) /\ Live(ix) \subseteq DOMAIN ix.nodes
  BY <1>3, LiveNotDead
<1>5. \A i \in Live(r) : r.nodes[i].links = "full"
  BY <1>1, <1>2, <1>4
<1>6. r.entryPoint \in Live(r) => Firm(r)
  BY <1>5, FirmLinks
<1>7. r.entryPoint \in DOMAIN r.nodes
  BY <1>1, <1>3, <1>4
<1>8. DeadEntry(r) \/ r.entryPoint \in Live(r)
  BY <1>7 DEF DeadEntry
<1>9. id \in Live(ix) => r.entryPoint \in Live(r)
  BY <1>1, <1>4
<1>10. QED
  BY <1>6, <1>8, <1>9 DEF r

(* delete() and insert() keep an index firm.                               *)
LEMMA FirmTombstone ==
  ASSUME NEW ix, Formed(ix), Firm(ix), NEW id \in Live(ix)
  PROVE  Firm(Tombstone(ix, id))
<1> DEFINE r == Tombstone(ix, id)
<1>0. id \in DOMAIN ix.nodes
  BY DEF Live
<1>1. /\ Formed(r) /\ Same(ix, r) /\ Dead(r) = Dead(ix) \cup {id}
      /\ \A i \in DOMAIN ix.nodes : r.nodes[i].links = ix.nodes[i].links
      /\ id # ix.entryPoint => r.entryPoint = ix.entryPoint
      /\ id = ix.entryPoint => r.entryPoint \in Live(r) \/ (r.entryPoint = None /\ Live(r) = {})
  BY <1>0, DatabaseAssumption, TombstoneLinks
<1>2. /\ ix.entryPoint \in Live(ix) \/ (ix.entryPoint = None /\ Live(ix) = {})
      /\ \A i \in Live(ix) \ {ix.entryPoint} :
           ix.nodes[i].links = "full" /\ ix.nodes[ix.entryPoint].links \in {"out", "full"}
  BY FirmEntry
<1> HIDE DEF r
<1>3. Live(r) = Live(ix) \ {id} /\ Live(ix) \subseteq DOMAIN ix.nodes
  BY <1>1, LiveNotDead DEF Same
<1>4. CASE r.entryPoint = None /\ Live(r) = {}
  BY <1>1, <1>4, NoneIsFirm DEF r
<1>5. CASE r.entryPoint \in Live(r)
  <2>1. \A i \in Live(r) : i = ix.entryPoint \/ r.nodes[i].links = "full"
    BY <1>1, <1>2, <1>3
  <2>2. \A i \in Live(r) \ {r.entryPoint} :
          r.nodes[i].links = "full" /\ r.nodes[r.entryPoint].links \in {"out", "full"}
    <3>1. CASE id = ix.entryPoint
      BY <3>1, <2>1, <1>3, <1>5
    <3>2. CASE id # ix.entryPoint
      <4>1. r.entryPoint = ix.entryPoint
        BY <3>2, <1>1
      <4>2. QED
        BY <4>1, <1>1, <1>2, <1>3, <1>5
    <3>3. QED
      BY <3>1, <3>2
  <2>3. Firm(r)
    BY <2>2, <1>5, FirmLinks
  <2>4. QED
    BY <2>3 DEF r
<1>6. QED
  BY <1>1, <1>2, <1>3, <1>4, <1>5

LEMMA FirmInsert ==
  ASSUME NEW ix, Formed(ix), Firm(ix), NEW id \in Nat, id \notin DOMAIN ix.nodes,
         NEW v, NEW level \in Nat
  PROVE  /\ Nearly(AddNode(ix, id, v, level), id)
         /\ Firm(ReplayInsert(ix, id, v, level))
<1> DEFINE r == AddNode(ix, id, v, level)
<1>1. /\ Formed(r) /\ DOMAIN r.nodes = DOMAIN ix.nodes \cup {id}
      /\ r.entryPoint = IF ix.entryPoint = None THEN id ELSE ix.entryPoint
  BY AddNodeKeeps
<1>2. /\ \A i \in DOMAIN ix.nodes : r.nodes[i] = ix.nodes[i]
      /\ r.nodes[id].links = "none" /\ ~ r.nodes[id].tombstone
  BY AddNodeLinks
<1>3. /\ ix.entryPoint \in Live(ix) \/ (ix.entryPoint = None /\ Live(ix) = {})
      /\ \A i \in Live(ix) \ {ix.entryPoint} :
           ix.nodes[i].links = "full" /\ ix.nodes[ix.entryPoint].links \in {"out", "full"}
  BY FirmEntry
<1>4. None \notin DOMAIN ix.nodes
  BY DatabaseAssumption DEF Formed
<1>5. ReplayInsert(ix, id, v, level) = Link(r, id)
  BY DEF ReplayInsert
<1> HIDE DEF r
<1>6. Live(r) = Live(ix) \cup {id} /\ Live(ix) \subseteq DOMAIN ix.nodes
  BY <1>1, <1>2 DEF Live
<1>7. r.entryPoint \in Live(r)
  BY <1>1, <1>3, <1>4, <1>6
<1>8. Live(r) \subseteq Findable(r) \cup {id}
  <2>1. ASSUME NEW i \in Live(ix)
        PROVE  i \in Findable(r)
    <3>1. r.entryPoint = ix.entryPoint /\ ix.entryPoint \in Live(ix)
      BY <1>1, <1>3, <1>4, <1>6
    <3>2. i \in Live(r) /\ r.entryPoint \in DOMAIN r.nodes
      BY <3>1, <1>1, <1>6
    <3>3. r.nodes[i] = ix.nodes[i] /\ r.nodes[ix.entryPoint] = ix.nodes[ix.entryPoint]
      BY <3>1, <1>2, <1>6
    <3>4. QED
      BY <3>1, <3>2, <3>3, <1>3 DEF Findable
  <2>2. QED
    BY <2>1, <1>6
<1>9. CASE id = r.entryPoint
  <2>1. Link(r, id) = r
    BY <1>9 DEF Link
  <2>2. ix.entryPoint = None
    BY <1>1, <1>9, <1>3, <1>6
  <2>3. Live(r) = {id}
    BY <2>2, <1>3, <1>4, <1>6
  <2>4. Firm(r)
    BY <2>3, <1>7, <1>9, FirmLinks
  <2>5. QED
    BY <2>1, <2>4, <1>5, <1>6, <1>7, <1>8 DEF Nearly, r
<1>10. CASE id # r.entryPoint
  <2>1. Firm(Link(r, id))
    BY <1>1, <1>6, <1>7, <1>8, <1>10, FirmLink
  <2>2. QED
    BY <2>1, <1>5, <1>6, <1>7, <1>8 DEF Nearly, r
<1>11. QED
  BY <1>9, <1>10

(* A record that the replay takes keeps an index firm, unless it links a   *)
(* dead node, which then may become the entry point.                       *)
LEMMA FirmRecord ==
  ASSUME NEW ix, Formed(ix), Firm(ix), NEW record \in Records, NEW level \in Nat,
         ~ ReplayRaises(ix, record)
  PROVE  LET r == ReplayRecord(ix, record, level) IN
         /\ DeadEntry(r) \/ Firm(r)
         /\ record.op = "insert" /\ record.id \notin DOMAIN ix.nodes => Firm(r)
         /\ record.op # "insert" => Firm(r)
<1> DEFINE r == ReplayRecord(ix, record, level)
<1>0. record.id \in Nat
  BY DEF Records
<1>1. CASE record.op = "insert"
  <2> DEFINE id == record.id
  <2>1. r = ReplayInsert(ix, id, record.vec, level)
    BY <1>1 DEF ReplayRecord
  <2>2. CASE id \notin DOMAIN ix.nodes
    <3>1. Firm(r)
      BY <2>1, <2>2, <1>0, FirmInsert
    <3>2. QED
      BY <3>1, <1>1
  <2>3. CASE id \in DOMAIN ix.nodes /\ Unlinked(ix, id)
    <3>1. r = Link(ix, id) /\ id # ix.entryPoint
      BY <2>1, <2>3 DEF ReplayInsert, Unlinked
    <3>2. ix.entryPoint \in DOMAIN ix.nodes
      BY <1>1, <2>3 DEF ReplayRaises
    <3>3. ix.entryPoint \in Live(ix)
      BY <3>2 DEF Firm, DeadEntry
    <3>4. DeadEntry(r) \/ Firm(r)
      BY <2>3, <3>1, <3>3, FirmLink DEF Firm
    <3>5. QED
      BY <3>4, <2>3, <1>1
  <2>4. CASE id \in DOMAIN ix.nodes /\ ~ Unlinked(ix, id)
    <3>1. r = ix
      BY <2>1, <2>4 DEF ReplayInsert
    <3>2. QED
      BY <3>1, <2>4, <1>1
  <2>5. QED
    BY <2>2, <2>3, <2>4
<1>2. CASE record.op = "delete"
  <2>1. r = DeleteOf(ix, record.id)
    BY <1>2 DEF ReplayRecord
  <2>2. Firm(r)
    BY <2>1, FirmTombstone DEF DeleteOf
  <2>3. QED
    BY <2>2, <1>2
<1>3. CASE record.op \notin {"insert", "delete"}
  <2>1. r = ix
    BY <1>3 DEF ReplayRecord
  <2>2. QED
    BY <2>1, <1>3
<1>4. QED
  BY <1>1, <1>2, <1>3

(* What a search of a firm index finds.                                    *)
LEMMA FirmContents ==
  ASSUME NEW ix, Formed(ix), Firm(ix)
  PROVE  Contents(ix) = {p[2] : p \in {q \in Pairs(ix) : q[1] \notin Dead(ix)}}
<1>1. Findable(ix) = DOMAIN ix.nodes \ Dead(ix)
  BY FirmEntry, LiveNotDead
<1>2. \A i \in DOMAIN ix.nodes : Row(ix, i) = ix.vectors[i]
  <2>1. DOMAIN ix.nodes \subseteq DOMAIN ix.vectors
    BY DEF Formed
  <2>2. QED
    BY <2>1 DEF Row
<1>3. ASSUME NEW v \in Contents(ix)
      PROVE  v \in {p[2] : p \in {q \in Pairs(ix) : q[1] \notin Dead(ix)}}
  <2>1. PICK i \in DOMAIN ix.nodes \ Dead(ix) : v = ix.vectors[i]
    BY <1>1, <1>2, <1>3 DEF Contents
  <2>2. <<i, v>> \in {q \in Pairs(ix) : q[1] \notin Dead(ix)}
    BY <2>1 DEF Pairs
  <2>3. QED
    BY <2>2
<1>4. ASSUME NEW p \in Pairs(ix), p[1] \notin Dead(ix)
      PROVE  p[2] \in Contents(ix)
  <2>1. PICK i \in DOMAIN ix.nodes : p = <<i, ix.vectors[i]>>
    BY DEF Pairs
  <2>2. i \in Findable(ix) /\ Row(ix, i) = p[2]
    BY <2>1, <1>1, <1>2, <1>4
  <2>3. QED
    BY <2>2 DEF Contents
<1>5. QED
  BY <1>3, <1>4

(* What is durable, if every restart finds the same.                       *)
LEMMA DurableIs ==
  ASSUME NEW S, OnDisk # {}, \A ix \in OnDisk : Contents(ix) = S
  PROVE  Durable = S
BY DEF Durable, Remaining

LEMMA FirmDurable ==
  ASSUME Core, FileCore, OnDisk # {}, \A ix \in OnDisk : Firm(ix)
  PROVE  Durable = Listed
<1>1. ASSUME NEW ix \in OnDisk
      PROVE  Contents(ix) = Listed
  <2>1. /\ Formed(ix) /\ \A p \in OnFile : Holds(ix, p[1], p[2])
        /\ Pairs(ix) \subseteq OnFile /\ Dead(ix) = Dead(snapshot) \cup Deletes(wal)
    BY DiskFacts
  <2>2. ASSUME NEW p \in OnFile
        PROVE  p \in Pairs(ix)
    <3>1. Holds(ix, p[1], p[2])
      BY <2>1
    <3>2. p = <<p[1], p[2]>>
      BY DEF OnFile, Pairs, Inserts
    <3>3. QED
      BY <3>1, <3>2 DEF Pairs, Holds
  <2>3. Pairs(ix) = OnFile
    BY <2>1, <2>2
  <2>4. QED
    BY <2>1, <2>3, FirmContents DEF Listed
<1>2. QED
  BY <1>1, DurableIs

(* Between the two halves of a snapshot the log says nothing new.          *)
LEMMA SavedDurable ==
  ASSUME Core, FileCore, OneDisk, NEW c \in Clients, call[c].at = "saved", ~ Torn(wal)
  PROVE  Durable = Listed
<1>1. /\ wal \in Seq(Records) /\ Formed(snapshot)
      /\ OneEach(Inserts(wal)) /\ Agrees(snapshot, Inserts(wal))
      /\ \A p \in Inserts(wal) : p[2] \in past.logged
  BY DEF Core, DiskInv
<1>2. /\ HoldsAll(snapshot, Inserts(wal)) /\ Deletes(wal) \subseteq Dead(snapshot)
      /\ ~ Races(snapshot)
  BY DEF FileCore, FileCall
<1>3. Firm(snapshot)
  BY DEF OneDisk
<1>4. Contents(snapshot) = Listed
  <2>1. Dead(snapshot) \cup Deletes(wal) = Dead(snapshot)
    BY <1>2
  <2>2. ASSUME NEW p \in Inserts(wal)
        PROVE  p \in Pairs(snapshot)
    <3>1. Holds(snapshot, p[1], p[2])
      BY <1>2 DEF HoldsAll
    <3>2. p = <<p[1], p[2]>>
      BY DEF Inserts
    <3>3. QED
      BY <3>1, <3>2 DEF Pairs, Holds
  <2>3. OnFile = Pairs(snapshot)
    BY <2>2 DEF OnFile
  <2>4. QED
    BY <2>1, <2>3, <1>1, <1>3, FirmContents DEF Listed
<1>5. CASE OnDisk # {}
  BY <1>4, <1>5, SavedIsAlike, DurableIs
<1>6. CASE OnDisk = {}
  <2>1. Durable = {}
    BY <1>6 DEF Durable, Remaining
  <2>2. SUFFICES ASSUME Findable(snapshot) # {}
                 PROVE  FALSE
    BY <2>1, <1>4 DEF Contents
  <2>3. ASSUME NEW k \in DOMAIN wal, NEW x \in Recovered(snapshot, SubSeq(wal, 1, k - 1))
        PROVE  x.entryPoint # None
    <3>1. k - 1 \in 0..Len(wal)
      BY <1>1
    <3> DEFINE log == SubSeq(wal, 1, k - 1)
    <3>2. log \in Seq(Records) /\ Inserts(log) \subseteq Inserts(wal) /\ Deletes(log) \subseteq Deletes(wal)
      BY <1>1, <3>1, PrefixIsPart
    <3> HIDE DEF log
    <3>3. ASSUME NEW q \in Inserts(log)
          PROVE  q[1] \in Dead(snapshot) \cup Findable(snapshot)
      <4>1. q[1] \in DOMAIN snapshot.nodes
        BY <3>2, <1>2 DEF HoldsAll, Holds
      <4>2. QED
        BY <4>1, <1>1, <1>3, FirmEntry, LiveNotDead
    <3>4. ~ Hides(snapshot) /\ HoldsAll(snapshot, Inserts(log)) /\ Deletes(log) \subseteq Dead(snapshot)
      BY <3>2, <1>2 DEF Races, HoldsAll
    <3>5. Alike(snapshot, x)
      BY <3>2, <3>3, <3>4, <1>1, <2>3, RecoveredAlike DEF log
    <3>6. Findable(x) # {} /\ Formed(x)
      BY <3>5, <2>2 DEF Alike, Tied
    <3>7. x.entryPoint \in DOMAIN x.nodes
      BY <3>6 DEF Findable
    <3>8. QED
      BY <3>6, <3>7, DatabaseAssumption DEF Formed
  <2>4. Recovered(snapshot, wal) # {}
    BY <2>3, <1>1, RecoveredSome
  <2>5. QED
    BY <2>4, <1>6 DEF OnDisk
<1>7. QED
  BY <1>5, <1>6

(* What is durable while the database is up.                               *)
LEMMA DurableListed ==
  ASSUME Core, FileCore, OneCore, mode = "up", NEW c \in Clients, ~ Torn(wal)
  PROVE  Durable = Listed
<1>1. OneDisk /\ OneCall(c)
  BY DEF OneCore
<1>2. CASE call[c].at = "saved"
  BY <1>1, <1>2, SavedDurable
<1>3. CASE call[c].at # "saved"
  <2>1. OnDisk # {} /\ \A ix \in OnDisk : Firm(ix)
    BY <1>1, <1>3 DEF OneCall
  <2>2. QED
    BY <2>1, FirmDurable
<1>4. QED
  BY <1>2, <1>3

(* One more record, of a new insert or of a delete.                        *)
LEMMA AppendedFirm ==
  ASSUME Core, OnDisk # {}, \A ix \in OnDisk : Formed(ix) /\ Firm(ix), NEW record \in Records,
         record.op \in {"insert", "delete"},
         \A ix \in OnDisk : record.op = "insert" => record.id \notin DOMAIN ix.nodes,
         wal' = Append(wal, record), snapshot' = snapshot
  PROVE  OnDisk' # {} /\ \A ix \in OnDisk' : Firm(ix)
<1>1. wal \in Seq(Records)
  BY DEF Core, DiskInv
<1> DEFINE log == Append(wal, record)
           n == Len(wal) + 1
<1>2. /\ log \in Seq(Records) /\ n \in 1..Len(log) /\ n - 1 = Len(wal) /\ log[n] = record
      /\ SubSeq(log, 1, n - 1) = wal /\ SubSeq(log, 1, n) = log
  BY <1>1
<1>3. Recovered(snapshot, log) = Replayed(Recovered(snapshot, wal), record)
  <2> HIDE DEF log, n
  <2>1. Recovered(snapshot, SubSeq(log, 1, n)) = Replayed(Recovered(snapshot, SubSeq(log, 1, n - 1)), log[n])
    BY <1>2, RecoveredStep
  <2>2. QED
    BY <2>1, <1>2
<1>4. OnDisk' = Replayed(OnDisk, record)
  BY <1>3 DEF OnDisk
<1>5. \A ix \in OnDisk : ~ ReplayRaises(ix, record)
  BY DEF ReplayRaises, Unlinked
<1>6. ASSUME NEW y \in OnDisk'
      PROVE  Firm(y)
  <2>1. PICK x \in OnDisk, level \in Levels : y = ReplayRecord(x, record, level)
    BY <1>4, <1>6 DEF Replayed
  <2>2. level \in Nat
    BY DEF Levels
  <2>3. QED
    BY <2>1, <2>2, <1>5, FirmRecord
<1>7. OnDisk' # {}
  <2>1. PICK x \in OnDisk : TRUE
    OBVIOUS
  <2>2. 0 \in Levels
    BY DatabaseAssumption DEF Levels
  <2>3. ReplayRecord(x, record, 0) \in OnDisk'
    BY <2>2, <1>4, <1>5 DEF Replayed
  <2>4. QED
    BY <2>3
<1>8. QED
  BY <1>6, <1>7

(* A record at the end of the log, of a new insert or of no insert.        *)
LEMMA OrderedAppend ==
  ASSUME NEW s, NEW log \in Seq(Records), NEW record \in Records, Ordered(s, log),
         record.op = "insert" => /\ record.id \notin DOMAIN s.nodes
                                 /\ \A j \in DOMAIN log : log[j].op = "insert" => log[j].id # record.id
  PROVE  Ordered(s, Append(log, record))
<1> DEFINE new == Append(log, record)
<1>1. /\ DOMAIN new = 1..(Len(log) + 1) /\ DOMAIN log = 1..Len(log) /\ Len(log) \in Nat
      /\ new[Len(log) + 1] = record /\ \A j \in DOMAIN log : new[j] = log[j]
  OBVIOUS
<1> HIDE DEF new
<1>2. ASSUME NEW j \in DOMAIN new, NEW k \in DOMAIN new, j < k,
             new[j].op = "insert", new[k].op = "insert"
      PROVE  /\ new[j].id # new[k].id
             /\ new[k].id \in DOMAIN s.nodes => new[j].id \in DOMAIN s.nodes
  <2>1. j \in DOMAIN log /\ new[j] = log[j]
    BY <1>1, <1>2
  <2>2. CASE k \in DOMAIN log
    BY <2>1, <2>2, <1>1, <1>2 DEF Ordered
  <2>3. CASE k = Len(log) + 1
    BY <2>1, <2>3, <1>1, <1>2
  <2>4. QED
    BY <2>2, <2>3, <1>1
<1>3. Ordered(s, new)
  BY <1>2 DEF Ordered
<1>4. QED
  BY <1>3 DEF new

LEMMA OrderedLogged ==
  ASSUME NEW s, NEW log \in Seq(Records), NEW record \in Records, Ordered(s, log),
         record.op = "insert" => /\ record.id \notin DOMAIN s.nodes
                                 /\ \A j \in DOMAIN log : log[j].op = "insert" => log[j].id # record.id
  PROVE  Ordered(s, Logged(log, record))
<1>1. CASE log # << >> /\ ~ Last(log).ended
  <2>1. Front(log) \in Seq(Records)
    BY <1>1, FrontRecords
  <2>2. /\ DOMAIN Front(log) \subseteq DOMAIN log
        /\ \A j \in DOMAIN Front(log) : Front(log)[j] = log[j]
    BY <1>1 DEF Front
  <2>3. Ordered(s, Front(log))
    BY <2>2 DEF Ordered
  <2>4. TornRecord \in Records /\ TornRecord.op = "torn"
    BY DEF TornRecord, Record, Records
  <2>5. Ordered(s, Append(Front(log), TornRecord))
    BY <2>1, <2>3, <2>4, OrderedAppend
  <2>6. QED
    BY <2>5, <1>1 DEF Logged
<1>2. CASE ~ (log # << >> /\ ~ Last(log).ended)
  <2>1. Logged(log, record) = Append(log, record)
    BY <1>2 DEF Logged
  <2>2. QED
    BY <2>1, OrderedAppend
<1>3. QED
  BY <1>1, <1>2

(* What is on file is logged.                                              *)
LEMMA OnFileLogged ==
  ASSUME Core, OneDisk
  PROVE  \A p \in OnFile : p[2] \in past.logged
<1>1. \A p \in Inserts(wal) : p[2] \in past.logged
  BY DEF Core, DiskInv
<1>2. \A p \in Pairs(snapshot) : p[2] \in past.logged
  BY DEF OneDisk, Vecs, Pairs
<1>3. QED
  BY <1>1, <1>2 DEF OnFile

(* A call on its way to the log: its record, whole or in part.             *)
LEMMA WriteFirm ==
  ASSUME Core, FileCore, OneCore, mode = "up", NEW c \in Clients,
         call[c].at \in {"reserved", "tombstoned"}, NEW part \in Records,
         \/ part.op \in {"torn", "delete"}
         \/ part.op = "insert" /\ call[c].at = "reserved" /\ part.id = call[c].id,
         wal' = Logged(wal, part), snapshot' = snapshot
  PROVE  /\ Ordered(snapshot', wal')
         /\ \/ Torn(wal')
            \/ /\ ~ Torn(wal) /\ wal' = Append(wal, part)
               /\ OnDisk' # {} /\ \A ix \in OnDisk' : Firm(ix)
               /\ Deletes(wal') = Deletes(wal) \cup Deleted(part)
               /\ Inserts(wal') = Inserts(wal) \cup Inserted(part)
<1>1. wal \in Seq(Records) /\ CallInv(c) /\ FileCall(c)
  BY CoreFacts, IndexFiles DEF DiskInv
<1>2. OneDisk /\ OneCall(c)
  BY DEF OneCore
<1>3. ASSUME NEW p \in OnFile, part.op = "insert"
      PROVE  p[1] # part.id
  <2>1. p[2] \in past.logged
    BY <1>2, OnFileLogged
  <2>2. Holds(index, p[1], p[2])
    BY OnFileHeld
  <2>3. call[c].vec \notin past.logged /\ Holds(index, part.id, call[c].vec)
    BY <1>1, <1>3 DEF CallInv, FileCall
  <2>4. QED
    BY <2>1, <2>2, <2>3 DEF Holds
<1>4. part.op = "insert" => part.id \notin DOMAIN snapshot.nodes
  <2>1. \A i \in DOMAIN snapshot.nodes : <<i, snapshot.vectors[i]>> \in OnFile
    BY DEF OnFile, Pairs
  <2>2. QED
    BY <2>1, <1>3
<1>5. ASSUME NEW j \in DOMAIN wal, wal[j].op = "insert", part.op = "insert"
      PROVE  wal[j].id # part.id
  <2>1. <<wal[j].id, wal[j].vec>> \in OnFile
    BY <1>5 DEF OnFile, Inserts
  <2>2. QED
    BY <2>1, <1>3, <1>5
<1>6. Ordered(snapshot', wal')
  <2>1. Ordered(snapshot, wal)
    BY <1>2 DEF OneDisk
  <2>2. QED
    BY <2>1, <1>1, <1>4, <1>5, OrderedLogged
<1>7. CASE ~ Torn(wal')
  <2>1. wal' = Append(wal, part) /\ Deletes(wal') = Deletes(wal) \cup Deleted(part)
    BY <1>1, <1>7, LoggedDeletes
  <2>2. /\ ~ Torn(wal) /\ part.op # "torn"
        /\ Inserts(wal') = Inserts(wal) \cup Inserted(part)
    BY <2>1, <1>1, <1>7, AppendedRecords
  <2>3. OnDisk # {} /\ \A ix \in OnDisk : Firm(ix)
    BY <2>2, <1>2 DEF OneCall
  <2>4. ASSUME NEW ix \in OnDisk
        PROVE  Formed(ix) /\ (part.op = "insert" => part.id \notin DOMAIN ix.nodes)
    <3>1. Formed(ix) /\ Pairs(ix) \subseteq OnFile
      BY DiskFacts
    <3>2. \A i \in DOMAIN ix.nodes : <<i, ix.vectors[i]>> \in OnFile
      BY <3>1 DEF Pairs
    <3>3. QED
      BY <3>1, <3>2, <1>3
  <2>5. OnDisk' # {} /\ \A ix \in OnDisk' : Firm(ix)
    BY <2>1, <2>2, <2>3, <2>4, AppendedFirm
  <2>6. QED
    BY <2>1, <2>2, <2>5, <1>6
<1>8. QED
  BY <1>6, <1>7

(* A step of the only client that leaves the snapshot alone.               *)
LEMMA OneStep ==
  ASSUME Single, OneCore, NEW c \in Clients, mode' = "up", snapshot' = snapshot,
         past'.submitted \subseteq Vectors, past'.erasing \subseteq past'.logged,
         past.logged \subseteq past'.logged, Ordered(snapshot, wal'), OneCall(c)'
  PROVE  OneCore'
<1>1. OneDisk'
  BY DEF OneCore, OneDisk
<1>2. \A d \in Clients : d = c
  BY DEF Single
<1>3. \A d \in Clients : OneCall(d)'
  BY <1>2
<1>4. OneReplay'
  BY DEF OneReplay
<1>5. QED
  BY <1>1, <1>3, <1>4 DEF OneCore

(* A step that changes neither files nor index.                            *)
LEMMA OneMoves ==
  ASSUME Single, Core, OneCore, mode = "up", mode' = "up", NEW c \in Clients, NEW k, call'[c] = k,
         index' = index, wal' = wal, snapshot' = snapshot,
         past'.submitted = past.submitted, past'.erasing = past.erasing,
         past'.logged = past.logged,
         call[c].at \notin {"reserved", "tombstoned", "saved"}, Firm(index),
         k.at \notin {"reserved", "toLink", "linking", "saved"},
         k.at = "captured" => k.image = index,
         k.op = "insert" /\ k.at # "idle" => k.id \in Live(index),
         k.op = "delete" /\ k.at # "idle" => k.vec \in past.erasing
  PROVE  OneCore'
<1>1. OneDisk /\ OneCall(c)
  BY DEF OneCore
<1>2. OnDisk' = OnDisk
  BY DEF OnDisk
<1>3. OneCall(c)'
  BY <1>1, <1>2 DEF OneCall
<1>4. QED
  BY <1>1, <1>3, OneStep DEF OneDisk

(* The steps of a call.                                                    *)
LEMMA LinkEntryPointOne ==
  ASSUME Single, Core, FileCore, OneCore, NEW c \in Clients, LinkEntryPoint(c)
  PROVE  OneCore'
<1> DEFINE k == [call[c] EXCEPT !.at = "done"]
<1>1. /\ mode = "up" /\ mode' = "up" /\ call[c].at = "toLink" /\ call[c].id = index.entryPoint
      /\ call' = [call EXCEPT ![c] = k] /\ index' = index /\ wal' = wal /\ snapshot' = snapshot
      /\ past' = past
  BY DEF LinkEntryPoint, At, Goto, memory, files, startup
<1>2. k.at = "done" /\ k.op = call[c].op /\ k.id = call[c].id
  BY CoreFacts, Moved
<1> HIDE DEF k
<1>3. call'[c] = k /\ CallInv(c) /\ OneCall(c)
  BY <1>1, CoreFacts DEF OneCore
<1>4. call[c].op = "insert" /\ Nearly(index, call[c].id)
  BY <1>1, <1>3 DEF CallInv, OneCall
<1>5. Firm(index)
  <2>1. index.entryPoint \in Findable(index)
    BY <1>4 DEF Nearly, Findable, Live
  <2>2. QED
    BY <2>1, <1>1, <1>4 DEF Nearly, Firm, DeadEntry
<1>6. QED
  BY <1>1, <1>2, <1>3, <1>4, <1>5, OneMoves DEF Nearly

LEMMA InsertOne ==
  ASSUME Single, Core, FileCore, OneCore, PastInv, NEW c \in Clients, Insert(c)
  PROVE  OneCore'
<1>1. PICK v \in Vectors, level \in Levels :
        /\ index' = Reserve(index, v, level)
        /\ call' = [call EXCEPT ![c] = [IdleCall EXCEPT !.at = "reserved", !.op = "insert",
                                                        !.id = index.nextId, !.vec = v]]
        /\ past' = [past EXCEPT !.submitted = @ \cup {v}, !.seeds = @ \cup Seeded]
  BY DEF Insert
<1>2. mode = "up" /\ mode' = "up" /\ wal' = wal /\ snapshot' = snapshot /\ call[c].at = "idle"
  BY DEF Insert, Serving, At, files, startup
<1>3. /\ past'.logged = past.logged /\ past'.erasing = past.erasing
      /\ past'.submitted = past.submitted \cup {v}
  BY <1>1 DEF PastInv, IsPast
<1> DEFINE n == index.nextId
           k == [IdleCall EXCEPT !.at = "reserved", !.op = "insert", !.id = n, !.vec = v]
<1>4. n \in Nat /\ n \notin DOMAIN index.nodes /\ level \in Nat /\ index' = AddNode(index, n, v, level)
  <2>1. n \in Nat /\ DOMAIN index.nodes \subseteq 0..(n - 1)
    BY CoreFacts DEF Formed
  <2>2. QED
    BY <1>1, <2>1 DEF Levels, Reserve
<1>5. OneDisk /\ OneCall(c) /\ Firm(index)
  BY <1>2 DEF OneCore, OneCall
<1>6. k.at = "reserved" /\ k.op = "insert" /\ k.id = n /\ k.vec = v /\ call' = [call EXCEPT ![c] = k]
  BY <1>1 DEF IdleCall
<1> HIDE DEF k, n
<1>7. call'[c] = k
  BY <1>6, CoreFacts
<1>8. Nearly(index', n)
  BY <1>4, <1>5, CoreFacts, FirmInsert
<1>9. /\ Dead(index') = Dead(index) /\ Pairs(index') = Pairs(index) \cup {<<n, v>>}
      /\ DOMAIN index'.nodes = DOMAIN index.nodes \cup {n}
      /\ Keeps(index, index') /\ Holds(index', n, v)
  BY <1>4, CoreFacts, AddNodeLinks, AddNodeKeeps
<1>10. Vecs(index') \subseteq past.logged \cup {v}
  <2>1. Vecs(index) \subseteq past.logged
    BY <1>2, <1>5 DEF OneCall
  <2>2. Vecs(index') \subseteq Vecs(index) \cup {v}
    BY <1>9 DEF Vecs, Keeps, Holds
  <2>3. QED
    BY <2>1, <2>2
<1>11. OnDisk' = OnDisk
  BY <1>2 DEF OnDisk
<1>12. OneCall(c)'
  BY <1>2, <1>3, <1>5, <1>6, <1>7, <1>8, <1>9, <1>10, <1>11 DEF OneCall, Nearly
<1>13. QED
  BY <1>2, <1>3, <1>5, <1>12, OneStep DEF OneDisk

LEMMA LogInsertOne ==
  ASSUME Single, Core, FileCore, OneCore, PastInv, NEW c \in Clients, LogInsert(c)
  PROVE  OneCore'
<1> DEFINE k == [call[c] EXCEPT !.at = "toLink"]
           record == InsertRecord(call[c].id, call[c].vec)
<1>1. /\ mode = "up" /\ mode' = "up" /\ call[c].at = "reserved" /\ wal' = Logged(wal, record)
      /\ call' = [call EXCEPT ![c] = k] /\ index' = index /\ snapshot' = snapshot
      /\ past'.logged = past.logged \cup {call[c].vec}
      /\ past'.submitted = past.submitted /\ past'.erasing = past.erasing
  BY DEF LogInsert, At, Goto, memory, startup, PastInv, IsPast
<1>2. CallInv(c) /\ OneCall(c) /\ OneDisk
  BY CoreFacts DEF OneCore
<1>3. call[c].op = "insert" /\ call[c].vec \in Vectors /\ call[c].id \in Nat
  BY <1>1, <1>2 DEF CallInv
<1>4. record \in Records /\ record.op = "insert" /\ record.id = call[c].id
  BY <1>3 DEF InsertRecord, Record, Records
<1>5. k.at = "toLink" /\ k.op = call[c].op /\ k.vec = call[c].vec /\ k.id = call[c].id
  BY CoreFacts, Moved
<1> HIDE DEF k, record
<1>6. call'[c] = k
  BY <1>1, CoreFacts
<1>7. /\ Ordered(snapshot', wal')
      /\ Torn(wal') \/ (OnDisk' # {} /\ \A ix \in OnDisk' : Firm(ix))
      /\ \/ Torn(wal')
         \/ ~ Torn(wal) /\ Deletes(wal') = Deletes(wal) \cup Deleted(record)
  BY <1>1, <1>4, WriteFirm
<1>8. Torn(wal') \/ Dead(index') \subseteq Dead(snapshot') \cup Deletes(wal')
  BY <1>1, <1>2, <1>7 DEF OneCall
<1>9. OneCall(c)'
  BY <1>1, <1>2, <1>3, <1>5, <1>6, <1>7, <1>8 DEF OneCall
<1>10. QED
  BY <1>1, <1>2, <1>7, <1>9, OneStep DEF OneDisk

LEMMA LogDeleteOne ==
  ASSUME Single, Core, FileCore, OneCore, PastInv, NEW c \in Clients, LogDelete(c)
  PROVE  OneCore'
<1> DEFINE k == [call[c] EXCEPT !.at = "done"]
           record == DeleteRecord(call[c].id)
<1>1. /\ mode = "up" /\ mode' = "up" /\ call[c].at = "tombstoned" /\ wal' = Logged(wal, record)
      /\ call' = [call EXCEPT ![c] = k] /\ index' = index /\ snapshot' = snapshot
      /\ past'.logged = past.logged
      /\ past'.submitted = past.submitted /\ past'.erasing = past.erasing
  BY DEF LogDelete, At, Goto, memory, startup, PastInv, IsPast
<1>2. CallInv(c) /\ OneCall(c) /\ OneDisk
  BY CoreFacts DEF OneCore
<1>3. call[c].op = "delete" /\ call[c].id \in Nat
  BY <1>1, <1>2 DEF CallInv
<1>4. record \in Records /\ record.op = "delete" /\ record.id = call[c].id
  BY <1>3 DEF DeleteRecord, Record, Records
<1>5. k.at = "done" /\ k.op = call[c].op /\ k.vec = call[c].vec
  BY CoreFacts, Moved
<1> HIDE DEF k, record
<1>6. call'[c] = k
  BY <1>1, CoreFacts
<1>7. /\ Ordered(snapshot', wal')
      /\ Torn(wal') \/ (OnDisk' # {} /\ \A ix \in OnDisk' : Firm(ix))
      /\ \/ Torn(wal')
         \/ ~ Torn(wal) /\ Deletes(wal') = Deletes(wal) \cup Deleted(record)
  BY <1>1, <1>4, WriteFirm
<1>8. Torn(wal') \/ Dead(index') \subseteq Dead(snapshot') \cup Deletes(wal')
  BY <1>1, <1>2, <1>4, <1>7 DEF OneCall, Deleted
<1>9. OneCall(c)'
  BY <1>1, <1>2, <1>3, <1>5, <1>6, <1>7, <1>8 DEF OneCall
<1>10. QED
  BY <1>1, <1>2, <1>7, <1>9, OneStep DEF OneDisk

(* A step of link(): rows and tombstones are the same.                     *)
LEMMA OneTied ==
  ASSUME Single, Core, OneCore, mode = "up", mode' = "up", NEW c \in Clients, NEW k, call'[c] = k,
         wal' = wal, snapshot' = snapshot, Tied(index, index'),
         past'.submitted = past.submitted, past'.erasing = past.erasing,
         past'.logged = past.logged, call[c].at \in {"toLink", "linking"},
         k.op = "insert", k.id \in Live(index'), k.at \in {"linking", "done"},
         k.at = "linking" => /\ k.gen = 0 /\ k.id # index'.entryPoint
                             /\ index'.entryPoint \in Live(index')
                             /\ k.chosen = Live(index') \ {k.id},
         k.at = "done" => Firm(index')
  PROVE  OneCore'
<1>1. OneDisk /\ OneCall(c)
  BY DEF OneCore
<1>2. OnDisk' = OnDisk
  BY DEF OnDisk
<1>3. Dead(index') = Dead(index) /\ Vecs(index') = Vecs(index)
  BY DEF Tied, Same, Vecs
<1>4. Torn(wal) \/ Dead(index) \subseteq Dead(snapshot) \cup Deletes(wal)
  BY <1>1 DEF OneCall
<1>5. OneCall(c)'
  BY <1>1, <1>2, <1>3, <1>4 DEF OneCall
<1>6. QED
  BY <1>1, <1>5, OneStep DEF OneDisk

LEMMA StartLinkOne ==
  ASSUME Single, Core, FileCore, OneCore, NEW c \in Clients, StartLink(c)
  PROVE  OneCore'
<1> DEFINE id     == call[c].id
           chosen == Chosen(index, id)
           k == [call[c] EXCEPT !.at = "linking", !.gen = Generation, !.top = index.maxLayer,
                                !.chosen = chosen, !.level = index.nodes[id].level]
<1>1. /\ mode = "up" /\ mode' = "up" /\ call[c].at = "toLink" /\ id # index.entryPoint
      /\ id \in DOMAIN index.nodes /\ index' = LinkOut(index, id, chosen)
      /\ call' = [call EXCEPT ![c] = k] /\ past' = past
      /\ wal' = wal /\ snapshot' = snapshot
  BY DEF StartLink, StartLinkIn, At, startup, files
<1>2. IsCall(call[c]) /\ OneCall(c) /\ CallInv(c) /\ Formed(index)
  BY CoreFacts DEF OneCore
<1>3. call[c].op = "insert" /\ Nearly(index, id)
  BY <1>1, <1>2 DEF OneCall, CallInv
<1>4. /\ k.at = "linking" /\ k.op = "insert" /\ k.id = id /\ k.gen = Generation
      /\ k.chosen = chosen
  BY <1>2, <1>3 DEF IsCall, CallFields
<1> HIDE DEF k, chosen
<1>5. Tied(index, index') /\ index'.entryPoint = index.entryPoint
  BY <1>1, <1>2, LinkOutLinks
<1>6. Live(index') = Live(index)
  BY <1>2, <1>5, LiveNotDead DEF Tied, Same
<1>7. chosen = Live(index) \ {id}
  BY <1>3 DEF chosen, Chosen, Nearly, Findable
<1>8. call'[c] = k /\ Generation = 0
  BY <1>1, CoreFacts, IndexFiles
<1>9. QED
  BY <1>1, <1>3, <1>4, <1>5, <1>6, <1>7, <1>8, OneTied DEF Nearly

(* The end of link() leaves every live node found.                         *)
LEMMA FinishLinkOne ==
  ASSUME Single, Core, FileCore, OneCore, PastInv, NEW c \in Clients, FinishLink(c)
  PROVE  OneCore'
<1> DEFINE id     == call[c].id
           chosen == call[c].chosen
           linked == LinkBack(index, id, chosen)
           k == [call[c] EXCEPT !.at = "done"]
<1>1. /\ mode = "up" /\ mode' = "up" /\ call[c].at = "linking"
      /\ LET ix == IF call[c].gen = Generation THEN linked ELSE index IN
         index' = IF call[c].level > call[c].top THEN Promote(ix, id, call[c].level) ELSE ix
      /\ call' = [call EXCEPT ![c] = k]
      /\ past'.logged = past.logged /\ past'.submitted = past.submitted
      /\ past'.erasing = past.erasing
      /\ wal' = wal /\ snapshot' = snapshot
  BY DEF FinishLink, Goto, At, startup, files, PastInv, IsPast
<1>2. CallInv(c) /\ OneCall(c) /\ Formed(index) /\ Generation = 0
  BY <1>1, CoreFacts, IndexFiles DEF OneCore
<1>3. /\ call[c].op = "insert" /\ call[c].gen = 0 /\ id \in Live(index) /\ id # index.entryPoint
      /\ index.entryPoint \in Live(index) /\ chosen = Live(index) \ {id}
  BY <1>1, <1>2 DEF CallInv, OneCall
<1>4. k.at = "done" /\ k.op = "insert" /\ k.id = id
  BY <1>3, CoreFacts, Moved
<1>5. index' = IF call[c].level > call[c].top THEN Promote(linked, id, call[c].level) ELSE linked
  BY <1>1, <1>2, <1>3
<1>6. /\ Tied(index, linked) /\ linked.entryPoint = index.entryPoint
      /\ \A i \in DOMAIN index.nodes :
           linked.nodes[i].links = IF chosen # {} /\ i \in chosen \cup {id}
                                   THEN "full" ELSE index.nodes[i].links
  BY <1>2, LinkBackLinks
<1> HIDE DEF k, linked
<1>7. Formed(linked) /\ id \in DOMAIN linked.nodes
  BY <1>3, <1>6 DEF Tied, Same, Live
<1>8. /\ Tied(linked, index') /\ index'.entryPoint \in {linked.entryPoint, id}
      /\ index'.nodes = linked.nodes
  BY <1>5, <1>7, PromoteLinks, TiedSelf
<1>9. Tied(index, index')
  BY <1>6, <1>8 DEF Tied, Same
<1>10. Live(index') = Live(index) /\ Live(index) \subseteq DOMAIN index.nodes
  BY <1>2, <1>9, LiveNotDead DEF Tied, Same
<1>11. index'.entryPoint \in Live(index') /\ \A i \in Live(index') : index'.nodes[i].links = "full"
  BY <1>3, <1>6, <1>8, <1>10
<1>12. Firm(index')
  BY <1>11, FirmLinks
<1>13. call'[c] = k
  BY <1>1, CoreFacts
<1>14. QED
  BY <1>1, <1>3, <1>4, <1>9, <1>10, <1>12, <1>13, OneTied

(* One client meets no exception in link().                                *)
LEMMA LinkRaisesOne ==
  ASSUME Core, FileCore, OneCore, NEW c \in Clients, LinkRaises(c)
  PROVE  OneCore'
<1>1. mode = "up" /\ OneCall(c) /\ Generation = 0
  BY IndexFiles DEF LinkRaises, At, OneCore
<1>2. CASE At(c, "toLink") /\ {call[c].id, index.entryPoint} \ DOMAIN index.nodes # {}
  BY <1>1, <1>2 DEF At, OneCall, Nearly, Live
<1>3. CASE At(c, "linking") /\ call[c].gen # Generation
  BY <1>1, <1>3 DEF At, OneCall
<1>4. QED
  BY <1>2, <1>3 DEF LinkRaises

LEMMA DeleteOne ==
  ASSUME Single, Core, FileCore, OneCore, PastInv, NEW c \in Clients, Delete(c)
  PROVE  OneCore'
<1>1. PICK id \in Live(index) :
        /\ index' = Tombstone(index, id)
        /\ call' = [call EXCEPT ![c] = [IdleCall EXCEPT !.at = "tombstoned", !.op = "delete",
                                                        !.id = id, !.vec = Row(index, id)]]
        /\ past' = [past EXCEPT !.erasing = @ \cup {Row(index, id)},
                                !.seeds = @ \cup Seeded,
                                !.stranded = @ \/ (id = index.entryPoint /\ BareEntry(index')),
                                !.crossed = @ \/ Compacting # {}]
  BY DEF Delete
<1>2. mode = "up" /\ mode' = "up" /\ wal' = wal /\ snapshot' = snapshot /\ call[c].at = "idle"
  BY DEF Delete, Serving, At, files, startup
<1> DEFINE v == Row(index, id)
           k == [IdleCall EXCEPT !.at = "tombstoned", !.op = "delete", !.id = id, !.vec = v]
<1>3. /\ past'.logged = past.logged /\ past'.submitted = past.submitted
      /\ past'.erasing = past.erasing \cup {v}
  BY <1>1 DEF PastInv, IsPast
<1>4. id \in DOMAIN index.nodes /\ v = index.vectors[id] /\ Formed(index)
  BY CoreFacts DEF Live, Row, Formed
<1>5. Same(index, index') /\ Dead(index') = Dead(index) \cup {id}
  BY <1>1, <1>4, DatabaseAssumption, TombstoneLinks
<1>6. k.at = "tombstoned" /\ k.op = "delete" /\ k.id = id /\ k.vec = v
  BY DEF IdleCall
<1>7. call' = [call EXCEPT ![c] = k]
  BY <1>1
<1> HIDE DEF k, v
<1>8. call'[c] = k
  BY <1>7, CoreFacts
<1>9. OneDisk /\ OneCall(c)
  BY DEF OneCore
<1>10. Firm(index')
  BY <1>1, <1>2, <1>4, <1>9, FirmTombstone DEF OneCall
<1>11. Vecs(index') = Vecs(index) /\ v \in Vecs(index)
  BY <1>4, <1>5 DEF Same, Vecs
<1>12. Vecs(index) \subseteq past.logged
  BY <1>2, <1>9 DEF OneCall
<1>13. Torn(wal) \/ Dead(index) \subseteq Dead(snapshot) \cup Deletes(wal)
  BY <1>2, <1>9 DEF OneCall
<1>14. OnDisk' = OnDisk
  BY <1>2 DEF OnDisk
<1>15. OneCall(c)'
  BY <1>2, <1>3, <1>5, <1>6, <1>8, <1>9, <1>10, <1>11, <1>12, <1>13, <1>14 DEF OneCall
<1>16. QED
  BY <1>2, <1>3, <1>9, <1>11, <1>12, <1>15, OneStep DEF OneDisk

LEMMA MaybeSnapshotOne ==
  ASSUME Single, Core, FileCore, OneCore, PastInv, NEW c \in Clients, MaybeSnapshot(c)
  PROVE  OneCore'
<1>1. /\ mode = "up" /\ mode' = "up" /\ call[c].at = "done" /\ index' = index
      /\ wal' = wal /\ snapshot' = snapshot
      /\ Return(c) \/ (Goto(c, "snapshot") /\ past' = past)
  BY DEF MaybeSnapshot, At, memory, files, startup
<1>2. OneCall(c)
  BY DEF OneCore
<1>3. Firm(index)
  BY <1>1, <1>2 DEF OneCall
<1>4. CASE Return(c)
  <2>1. /\ call'[c] = IdleCall /\ past'.logged = past.logged
        /\ past'.submitted = past.submitted /\ past'.erasing = past.erasing
    BY <1>1, <1>4, CoreFacts, ReturnedFiles
  <2>2. IdleCall.at = "idle"
    BY DEF IdleCall
  <2>3. QED
    BY <2>1, <2>2, <1>1, <1>3, OneMoves
<1>5. CASE Goto(c, "snapshot") /\ past' = past
  <2> DEFINE k == [call[c] EXCEPT !.at = "snapshot"]
  <2>1. call'[c] = k
    BY <1>5, CoreFacts DEF Goto
  <2>2. k.at = "snapshot" /\ k.op = call[c].op /\ k.vec = call[c].vec /\ k.id = call[c].id
    BY CoreFacts, Moved
  <2> HIDE DEF k
  <2>3. /\ k.op = "insert" => k.id \in Live(index)
        /\ k.op = "delete" => k.vec \in past.erasing
    BY <2>2, <1>1, <1>2 DEF OneCall
  <2>4. QED
    BY <2>1, <2>2, <2>3, <1>1, <1>3, <1>5, OneMoves
<1>6. QED
  BY <1>1, <1>4, <1>5

LEMMA CloseOne ==
  ASSUME Single, Core, OneCore, NEW c \in Clients, Close(c)
  PROVE  OneCore'
<1> DEFINE k == [IdleCall EXCEPT !.at = "snapshot", !.op = "close"]
<1>1. /\ mode = "up" /\ mode' = "up" /\ call[c].at = "idle" /\ index' = index /\ past' = past
      /\ wal' = wal /\ snapshot' = snapshot /\ call' = [call EXCEPT ![c] = k]
  BY DEF Close, Serving, At, memory, files, startup
<1>2. k.at = "snapshot" /\ k.op = "close"
  BY DEF IdleCall
<1> HIDE DEF k
<1>3. call'[c] = k /\ OneCall(c)
  BY <1>1, CoreFacts DEF OneCore
<1>4. Firm(index)
  BY <1>1, <1>3 DEF OneCall
<1>5. QED
  BY <1>1, <1>2, <1>3, <1>4, OneMoves

LEMMA CaptureOne ==
  ASSUME Single, Core, OneCore, PastInv, NEW c \in Clients, Capture(c)
  PROVE  OneCore'
<1> DEFINE k == [call[c] EXCEPT !.at = "captured", !.gen = Generation, !.image = index]
<1>1. /\ mode = "up" /\ mode' = "up" /\ call[c].at = "snapshot" /\ index' = index
      /\ wal' = wal /\ snapshot' = snapshot /\ call' = [call EXCEPT ![c] = k]
      /\ past'.logged = past.logged /\ past'.submitted = past.submitted
      /\ past'.erasing = past.erasing
  BY DEF Capture, CaptureLeaving, At, memory, startup, PastInv, IsPast
<1>2. /\ k.at = "captured" /\ k.op = call[c].op /\ k.vec = call[c].vec /\ k.id = call[c].id
      /\ k.image = index
  BY CoreFacts DEF IsCall, CallFields
<1> HIDE DEF k
<1>3. call'[c] = k /\ OneCall(c)
  BY <1>1, CoreFacts DEF OneCore
<1>4. /\ Firm(index) /\ (k.op = "insert" => k.id \in Live(index))
      /\ k.op = "delete" => k.vec \in past.erasing
  BY <1>1, <1>2, <1>3 DEF OneCall
<1>5. QED
  BY <1>1, <1>2, <1>3, <1>4, OneMoves

LEMMA SaveRaisesOne ==
  ASSUME Single, Core, OneCore, NEW c \in Clients, SaveRaises(c)
  PROVE  OneCore'
<1>1. /\ mode = "up" /\ mode' = "up" /\ call[c].at = "captured" /\ index' = index /\ past' = past
      /\ wal' = wal /\ snapshot' = snapshot /\ call' = [call EXCEPT ![c] = IdleCall]
  BY DEF SaveRaises, Raise, At, memory, files, startup
<1>2. IdleCall.at = "idle"
  BY DEF IdleCall
<1>3. call'[c] = IdleCall /\ OneCall(c)
  BY <1>1, CoreFacts DEF OneCore
<1>4. Firm(index)
  BY <1>1, <1>3 DEF OneCall
<1>5. QED
  BY <1>1, <1>2, <1>3, <1>4, OneMoves

(* One client changes nothing between the two halves of a snapshot.        *)
LEMMA SaveOne ==
  ASSUME Single, Core, FileCore, OneCore, PastInv, NEW c \in Clients, Save(c)
  PROVE  /\ OneCore'
         /\ snapshot' = index /\ wal' = wal /\ Firm(index)
<1> DEFINE k == call[c]
           m == [call[c] EXCEPT !.at = "saved"]
<1>1. PICK stale \in SUBSET Changed(k.image, NodesOf(k.gen)) :
         /\ snapshot' = Pickled(k.image, NodesOf(k.gen), stale)
         /\ past' = [past EXCEPT !.torn = @ \/ Races(snapshot')]
  BY DEF Save
<1>2. /\ mode = "up" /\ mode' = "up" /\ k.at = "captured" /\ call' = [call EXCEPT ![c] = m]
      /\ wal' = wal /\ index' = index
  BY DEF Save, At, Goto, memory, startup
<1>3. /\ past'.logged = past.logged /\ past'.submitted = past.submitted
      /\ past'.erasing = past.erasing
  BY <1>1 DEF PastInv, IsPast
<1>4. CallInv(c) /\ MemoryInv /\ OneCall(c) /\ OneDisk /\ Formed(index)
  BY CoreFacts DEF OneCore
<1>5. NodesOf(k.gen) = index /\ k.image = index
  BY <1>2, <1>4 DEF CallInv, OneCall, NodesOf, Generation, MemoryInv
<1>6. snapshot' = index
  BY <1>1, <1>4, <1>5, PickledAlone
<1>7. m.at = "saved" /\ m.op = k.op /\ m.vec = k.vec /\ m.id = k.id
  BY CoreFacts, Moved
<1> HIDE DEF m
<1>8. call'[c] = m
  BY <1>2, CoreFacts
<1>9. Ordered(index, wal)
  <2>1. ASSUME NEW j \in DOMAIN wal, wal[j].op = "insert"
        PROVE  wal[j].id \in DOMAIN index.nodes
    <3>1. <<wal[j].id, wal[j].vec>> \in Inserts(wal)
      BY <2>1 DEF Inserts
    <3>2. QED
      BY <3>1, <1>2, <1>4 DEF MemoryInv, HoldsAll, Holds
  <2>2. QED
    BY <2>1, <1>4 DEF OneDisk, Ordered
<1>10. Firm(index) /\ Vecs(index) \subseteq past.logged
  BY <1>2, <1>4 DEF OneCall
<1>11. OneDisk'
  BY <1>2, <1>3, <1>4, <1>6, <1>9, <1>10 DEF OneDisk
<1>12. OneCall(c)'
  BY <1>2, <1>3, <1>4, <1>6, <1>7, <1>8, <1>10 DEF OneCall
<1>13. OneReplay'
  BY <1>2 DEF OneReplay
<1>14. QED
  BY <1>2, <1>6, <1>10, <1>11, <1>12, <1>13 DEF OneCore, Single

(* Without a log the next start takes the snapshot as it is.               *)
LEMMA NoLog ==
  ASSUME NEW s
  PROVE  Recovered(s, << >>) = {s}
<1>1. << >> \in Seq(Records) /\ Len(<< >>) = 0
  OBVIOUS
<1>2. Recovered(s, SubSeq(<< >>, 1, 0)) = {s} /\ SubSeq(<< >>, 1, 0) = << >>
  BY <1>1, RecoveredWhole
<1>3. QED
  BY <1>2

LEMMA TruncateOne ==
  ASSUME Single, Core, FileCore, OneCore, PastInv, NEW c \in Clients, Truncate(c)
  PROVE  OneCore'
<1>1. /\ mode = "up" /\ call[c].at = "saved" /\ wal' = << >> /\ snapshot' = snapshot
      /\ index' = index /\ Return(c) /\ mode' \in {"up", "down"}
  BY DEF Truncate, TruncateAndHold, At, memory
<1>2. /\ call'[c] = IdleCall
      /\ past'.logged = past.logged /\ past'.submitted = past.submitted
      /\ past'.erasing = past.erasing
  BY <1>1, ReturnedFiles, CoreFacts
<1>3. OneDisk /\ OneCall(c)
  BY DEF OneCore
<1>4. snapshot = index /\ Firm(index) /\ Vecs(index) \subseteq past.logged
  BY <1>1, <1>3 DEF OneCall
<1>5. OnDisk' = {snapshot}
  BY <1>1, NoLog DEF OnDisk
<1>6. OneDisk'
  BY <1>1, <1>2, <1>3 DEF OneDisk, Ordered
<1>7. IdleCall.at = "idle"
  BY DEF IdleCall
<1>8. OneCall(c)'
  BY <1>1, <1>2, <1>4, <1>5, <1>7 DEF OneCall
<1>9. OneReplay'
  BY <1>1 DEF OneReplay
<1>10. QED
  BY <1>6, <1>8, <1>9 DEF OneCore, Single

(* A process that is gone.                                                 *)
LEMMA OneGone ==
  ASSUME OneDisk', mode' = "down"
  PROVE  OneCore'
BY DEF OneCore, OneReplay, OneCall

LEMMA ReplayDiesOne ==
  ASSUME OneCore, ReplayDies
  PROVE  OneCore'
<1>1. mode' = "down" /\ snapshot' = snapshot /\ wal' = wal /\ past' = past
  BY DEF ReplayDies, Gone
<1>2. OneDisk'
  BY <1>1 DEF OneCore, OneDisk
<1>3. QED
  BY <1>1, <1>2, OneGone

(* What a crash in a log write leaves of the record.                       *)
LEMMA CrashLeaves ==
  ASSUME Core, PastInv, Crash
  PROVE  /\ mode' = "down" /\ Gone /\ snapshot' = snapshot /\ past'.acked = past.acked
         /\ past'.submitted = past.submitted /\ past'.erasing = past.erasing
         /\ past'.erased = past.erased
         /\ \/ wal' = wal /\ past'.logged = past.logged
            \/ \E c \in Clients, part \in Records :
                 /\ mode = "up" /\ call[c].at \in {"reserved", "tombstoned"}
                 /\ wal' = Logged(wal, part)
                 /\ \/ part.op = "torn"
                    \/ /\ part.op = call[c].op /\ part.op \in {"insert", "delete"}
                       /\ part.id = call[c].id /\ (part.op = "insert" => part.vec = call[c].vec)
                 /\ past'.logged = past.logged \cup {w \in {call[c].vec} : call[c].op = "insert"}
<1>1. Gone /\ mode' = "down" /\ snapshot' = snapshot
  BY DEF Crash, Gone
<1>2. CASE wal' = wal /\ past' = [past EXCEPT !.crashes = @ + 1, !.torn = @ \/ Mixed]
  BY <1>1, <1>2 DEF PastInv, IsPast
<1>3. CASE \E c \in Clients, tear \in Tears :
              /\ At(c, "reserved") \/ At(c, "tombstoned")
              /\ wal' = Cut(wal, Writing(c), tear)
              /\ past' = [past EXCEPT
                   !.crashes = @ + 1,
                   !.logged = IF call[c].op = "insert" THEN @ \cup {call[c].vec} ELSE @,
                   !.torn = @ \/ Mixed \/ Renumbered \/ Early(c)]
  <2>1. PICK c \in Clients, tear \in Tears :
              /\ At(c, "reserved") \/ At(c, "tombstoned")
              /\ wal' = Cut(wal, Writing(c), tear)
              /\ past' = [past EXCEPT
                   !.crashes = @ + 1,
                   !.logged = IF call[c].op = "insert" THEN @ \cup {call[c].vec} ELSE @,
                   !.torn = @ \/ Mixed \/ Renumbered \/ Early(c)]
    BY <1>3
  <2> DEFINE record == Writing(c)
             part   == IF tear = "cut" THEN TornRecord ELSE [record EXCEPT !.ended = FALSE]
             v      == call[c].vec
  <2>2. /\ mode = "up" /\ call[c].at \in {"reserved", "tombstoned"}
    BY <2>1 DEF At
  <2>3. /\ past'.logged = IF call[c].op = "insert" THEN past.logged \cup {v} ELSE past.logged
        /\ past'.submitted = past.submitted /\ past'.erasing = past.erasing
        /\ past'.acked = past.acked /\ past'.erased = past.erased
    BY <2>1 DEF PastInv, IsPast
  <2>4. CallInv(c)
    BY CoreFacts
  <2>5. /\ call[c].id \in Nat /\ call[c].op \in {"insert", "delete"}
        /\ call[c].op = "insert" => v \in Vectors
    BY <2>2, <2>4 DEF CallInv
  <2>6. /\ record \in Records /\ record.id = call[c].id /\ record.op = call[c].op
        /\ call[c].op = "insert" => record.vec = v
    BY <2>5 DEF Writing, InsertRecord, DeleteRecord, Record, Records
  <2>7. /\ part \in Records
        /\ part.op = "torn" \/ (part.op = record.op /\ part.id = record.id /\ part.vec = record.vec)
    BY <2>6 DEF TornRecord, Record, Records
  <2>8. wal' = Logged(wal, part)
    BY <2>1 DEF Cut
  <2> HIDE DEF part, record, v
  <2>9. past'.logged = past.logged \cup {w \in {call[c].vec} : call[c].op = "insert"}
    BY <2>3 DEF v
  <2>10. \/ part.op = "torn"
         \/ /\ part.op = call[c].op /\ part.op \in {"insert", "delete"}
            /\ part.id = call[c].id /\ (part.op = "insert" => part.vec = call[c].vec)
    BY <2>5, <2>6, <2>7 DEF v
  <2>11. QED
    BY <2>2, <2>3, <2>7, <2>8, <2>9, <2>10, <1>1
<1>4. QED
  BY <1>2, <1>3 DEF Crash

LEMMA CrashOne ==
  ASSUME Single, Core, FileCore, OneCore, PastInv, Crash
  PROVE  OneCore'
<1>1. /\ mode' = "down" /\ snapshot' = snapshot
      /\ past'.submitted = past.submitted /\ past'.erasing = past.erasing
  BY CrashLeaves
<1>2. OneDisk
  BY DEF OneCore
<1>3. CASE wal' = wal /\ past'.logged = past.logged
  <2>1. OneDisk'
    BY <1>1, <1>2, <1>3 DEF OneDisk
  <2>2. QED
    BY <2>1, <1>1, OneGone
<1>4. ASSUME NEW c \in Clients, NEW part \in Records, mode = "up",
             call[c].at \in {"reserved", "tombstoned"}, wal' = Logged(wal, part),
             part.op = "torn" \/ (/\ part.op = call[c].op /\ part.op \in {"insert", "delete"}
                                  /\ part.id = call[c].id),
             past.logged \subseteq past'.logged
      PROVE  OneCore'
  <2>1. CallInv(c)
    BY CoreFacts
  <2>2. \/ part.op \in {"torn", "delete"}
        \/ part.op = "insert" /\ call[c].at = "reserved" /\ part.id = call[c].id
    BY <1>4, <2>1 DEF CallInv
  <2>3. Ordered(snapshot', wal')
    BY <1>1, <1>4, <2>2, WriteFirm
  <2>4. OneDisk'
    BY <1>1, <1>2, <1>4, <2>3 DEF OneDisk
  <2>5. QED
    BY <2>4, <1>1, OneGone
<1>5. CASE \E c \in Clients, part \in Records :
                 /\ mode = "up" /\ call[c].at \in {"reserved", "tombstoned"}
                 /\ wal' = Logged(wal, part)
                 /\ \/ part.op = "torn"
                    \/ /\ part.op = call[c].op /\ part.op \in {"insert", "delete"}
                       /\ part.id = call[c].id /\ (part.op = "insert" => part.vec = call[c].vec)
                 /\ past'.logged = past.logged \cup {w \in {call[c].vec} : call[c].op = "insert"}
  BY <1>4, <1>5
<1>6. QED
  BY <1>3, <1>5, CrashLeaves

(* The start.                                                              *)
LEMMA StartOne ==
  ASSUME Core, OneCore, PastInv, Start
  PROVE  OneCore'
<1>1. /\ mode' = "replay" /\ index' = snapshot /\ pending' = wal
      /\ wal' = wal /\ snapshot' = snapshot
      /\ past'.logged = past.logged /\ past'.submitted = past.submitted
      /\ past'.erasing = past.erasing
  BY DEF Start, files, PastInv, IsPast
<1>2. OneDisk
  BY DEF OneCore
<1>3. OneDisk'
  BY <1>1, <1>2 DEF OneDisk
<1>4. OneReplay'
  <2>1. wal \in Seq(Records)
    BY CoreFacts DEF DiskInv
  <2> DEFINE R == Recovered(snapshot, SubSeq(wal, 1, 0))
  <2>2. R = {snapshot} /\ SubSeq(wal, 1, Len(wal)) = wal
    BY <2>1, RecoveredWhole
  <2>3. 0 \in 0..Len(wal) /\ 0 + 1 = 1
    BY <2>1
  <2>4. /\ wal = SubSeq(wal, 0 + 1, Len(wal)) /\ snapshot \in R /\ (\A x \in R : Firm(x))
        /\ R = {snapshot}
    BY <2>2, <1>2 DEF OneDisk
  <2>5. QED
    BY <2>3, <2>4, <1>1 DEF OneReplay
<1>5. \A c \in Clients : OneCall(c)'
  BY <1>1 DEF OneCall
<1>6. QED
  BY <1>3, <1>4, <1>5 DEF OneCore

(* A replay meets an insert of a node it knows only among the first        *)
(* records, which change nothing but edges.                                *)
LEMMA OldRecord ==
  ASSUME Core, FileCore, OneDisk, ~ Torn(wal), NEW k \in 1..Len(wal), wal[k].op = "insert",
         NEW y \in Recovered(snapshot, SubSeq(wal, 1, k - 1)), wal[k].id \in DOMAIN y.nodes
  PROVE  wal[k].id \in DOMAIN snapshot.nodes /\ KnownTo(snapshot, SubSeq(wal, 1, k - 1))
<1>1. /\ wal \in Seq(Records) /\ Formed(snapshot)
      /\ OneEach(Inserts(wal)) /\ Agrees(snapshot, Inserts(wal))
  BY DEF Core, DiskInv
<1>2. Timely(snapshot, wal)
  BY DEF FileCore, FileDisk
<1> DEFINE p == SubSeq(wal, 1, k - 1)
<1>3. k - 1 \in 0..Len(wal) /\ k \in Nat /\ Len(wal) \in Nat
  BY <1>1
<1>4. DOMAIN p = 1..(k - 1) /\ \A j \in 1..(k - 1) : p[j] = wal[j] /\ j \in DOMAIN wal /\ j < k
  BY <1>1, <1>3
<1>5. k \in DOMAIN wal
  BY <1>1
<1>6. Pairs(y) \subseteq Pairs(snapshot) \cup Inserts(p)
  BY <1>1, <1>2, <1>3, RecoveredRecords
<1> HIDE DEF p
<1>7. wal[k].id \in DOMAIN snapshot.nodes
  <2>1. <<wal[k].id, y.vectors[wal[k].id]>> \in Pairs(snapshot) \cup Inserts(p)
    BY <1>6 DEF Pairs
  <2>2. ASSUME <<wal[k].id, y.vectors[wal[k].id]>> \in Inserts(p)
        PROVE  FALSE
    <3>1. PICK j \in DOMAIN p : p[j].op = "insert" /\ p[j].id = wal[k].id
      BY <2>2 DEF Inserts
    <3>2. j \in DOMAIN wal /\ j < k /\ wal[j].op = "insert" /\ wal[j].id = wal[k].id
      BY <3>1, <1>4
    <3>3. QED
      BY <3>2, <1>5 DEF OneDisk, Ordered
  <2>3. QED
    BY <2>1, <2>2 DEF Pairs
<1>8. ASSUME NEW j \in DOMAIN p, p[j].op = "insert"
      PROVE  p[j].id \in DOMAIN snapshot.nodes
  <2>1. j \in DOMAIN wal /\ j < k /\ wal[j] = p[j]
    BY <1>4
  <2>2. QED
    BY <2>1, <1>5, <1>7, <1>8 DEF OneDisk, Ordered
<1>9. QED
  BY <1>7, <1>8 DEF KnownTo, p

(* A record but that of a new insert is replayed in one way.               *)
LEMMA OneWay ==
  ASSUME NEW ix, NEW record, ~ ReplayRaises(ix, record), NEW level \in Levels,
         record.op = "insert" => record.id \in DOMAIN ix.nodes
  PROVE  Replayed({ix}, record) = {ReplayRecord(ix, record, level)}
<1>1. \A l : ReplayRecord(ix, record, l) = ReplayRecord(ix, record, level)
  BY DEF ReplayRecord, ReplayInsert
<1>2. QED
  BY <1>1 DEF Replayed

LEMMA ReplayOne ==
  ASSUME Single, Core, FileCore, OneCore, PastInv, ~ past'.stranded, Replay
  PROVE  OneCore'
<1>1. PICK level \in Levels : index' = ReplayRecord(index, Head(pending), level)
  BY DEF Replay
<1>2. /\ mode = "replay" /\ mode' = "replay" /\ pending # << >> /\ ~ ReplayRaises(index, Head(pending))
      /\ pending' = Tail(pending) /\ wal' = wal /\ snapshot' = snapshot
      /\ past'.logged = past.logged /\ past'.submitted = past.submitted
      /\ past'.erasing = past.erasing /\ past'.stranded = (past.stranded \/ Hides(index'))
  BY DEF Replay, files, PastInv, IsPast
<1>3. OneDisk /\ OneReplay
  BY DEF OneCore
<1>4. OneDisk'
  BY <1>2, <1>3 DEF OneDisk
<1>5. \A c \in Clients : OneCall(c)'
  BY <1>2 DEF OneCall
<1>6. CASE Torn(wal)
  BY <1>2, <1>4, <1>5, <1>6 DEF OneCore, OneReplay
<1>7. CASE ~ Torn(wal)
  <2>1. PICK n \in 0..Len(wal) :
          LET R == Recovered(snapshot, SubSeq(wal, 1, n)) IN
          /\ pending = SubSeq(wal, n + 1, Len(wal))
          /\ index \in R /\ \A x \in R : Firm(x)
          /\ KnownTo(snapshot, SubSeq(wal, 1, n)) => R = {index}
    BY <1>2, <1>3, <1>7 DEF OneReplay
  <2>2. /\ wal \in Seq(Records) /\ Formed(snapshot) /\ Keeps(snapshot, index)
        /\ OneEach(Inserts(wal)) /\ Agrees(snapshot, Inserts(wal))
    BY <1>2, CoreFacts DEF DiskInv, ReplayInv
  <2> DEFINE h      == n + 1
             record == wal[h]
             known  == record.id \in DOMAIN index.nodes
             R      == Recovered(snapshot, SubSeq(wal, 1, n))
             S      == Recovered(snapshot, SubSeq(wal, 1, h))
  <2>3. /\ h \in 1..Len(wal) /\ Head(pending) = record
        /\ Tail(pending) = SubSeq(wal, h + 1, Len(wal))
    BY <1>2, <2>1, <2>2, NextRecord
  <2>4. h - 1 = n /\ h \in 0..Len(wal) /\ h \in DOMAIN wal /\ record \in Records
    BY <2>2, <2>3
  <2>5. /\ DOMAIN SubSeq(wal, 1, h) = 1..h /\ SubSeq(wal, 1, h)[h] = record /\ h \in 1..h
        /\ DOMAIN SubSeq(wal, 1, n) = 1..n
        /\ \A j \in 1..n : SubSeq(wal, 1, n)[j] = SubSeq(wal, 1, h)[j] /\ j \in 1..h
    BY <2>2, <2>3, <2>4
  <2>6. \A y \in R : Formed(y) /\ Keeps(snapshot, y)
    BY <2>2, RecoveredPart
  <2>7. /\ index \in R /\ (\A x \in R : Firm(x))
        /\ KnownTo(snapshot, SubSeq(wal, 1, n)) => R = {index}
    BY <2>1
  <2> HIDE DEF h
  <2>8. S = Replayed(R, record)
    BY <2>2, <2>3, <2>4, RecoveredStep
  <2>9. \A y \in R : record.op = "insert" /\ record.id \in DOMAIN y.nodes =>
             record.id \in DOMAIN snapshot.nodes /\ KnownTo(snapshot, SubSeq(wal, 1, n))
    BY <1>3, <1>7, <2>3, <2>4, OldRecord
  <2>10. DOMAIN snapshot.nodes \subseteq DOMAIN index.nodes
    BY <2>2 DEF Keeps, Holds
  <2>11. KnownTo(snapshot, SubSeq(wal, 1, h)) =>
            /\ KnownTo(snapshot, SubSeq(wal, 1, n))
            /\ record.op = "insert" => known
    BY <2>5, <2>10 DEF KnownTo
  <2> HIDE DEF R, S, record
  <2>12. index' \in S
    BY <1>1, <1>2, <2>3, <2>7, <2>8 DEF Replayed
  <2>13. R = {index} /\ (record.op = "insert" => known) => S = {index'}
    BY <1>1, <1>2, <2>3, <2>8, OneWay
  <2>14. \A x \in S : Firm(x)
    <3>1. ASSUME NEW x \in S
          PROVE  \E y \in R, l \in Nat : ~ ReplayRaises(y, record) /\ x = ReplayRecord(y, record, l)
      BY <2>8 DEF Replayed, Levels
    <3>2. ASSUME NEW x \in S
          PROVE  /\ DeadEntry(x) \/ Firm(x)
                 /\ record.op # "insert" => Firm(x)
                 /\ \/ Firm(x)
                    \/ \E y \in R : record.id \in DOMAIN y.nodes
      <4>1. PICK y \in R, l \in Nat : ~ ReplayRaises(y, record) /\ x = ReplayRecord(y, record, l)
        BY <3>1
      <4>2. QED
        BY <4>1, <2>4, <2>6, <2>7, FirmRecord DEF record
    <3>3. CASE record.op # "insert"
      BY <3>2, <3>3
    <3>4. CASE \A y \in R : record.id \notin DOMAIN y.nodes
      BY <3>2, <3>4
    <3>5. CASE record.op = "insert" /\ \E y \in R : record.id \in DOMAIN y.nodes
      <4>1. record.id \in DOMAIN snapshot.nodes /\ KnownTo(snapshot, SubSeq(wal, 1, n))
        BY <3>5, <2>9
      <4>2. R = {index} /\ known
        BY <4>1, <2>7, <2>10
      <4>3. S = {index'}
        BY <4>2, <2>13
      <4>4. ~ DeadEntry(index')
        BY <1>2 DEF Hides
      <4>5. QED
        BY <4>3, <4>4, <3>2
    <3>6. QED
      BY <3>3, <3>4, <3>5
  <2>15. KnownTo(snapshot, SubSeq(wal, 1, h)) => S = {index'}
    BY <2>7, <2>11, <2>13
  <2>16. OneReplay'
    <3>1. pending' = SubSeq(wal, h + 1, Len(wal))
      BY <1>2, <2>3
    <3>2. QED
      BY <3>1, <1>2, <2>4, <2>12, <2>14, <2>15 DEF OneReplay, S
  <2>17. QED
    BY <2>16, <1>4, <1>5 DEF OneCore
<1>8. QED
  BY <1>6, <1>7

(* The end of a replay.                                                    *)
LEMMA AllReplayed ==
  ASSUME NEW log \in Seq(Records), NEW k \in 0..Len(log), SubSeq(log, k + 1, Len(log)) = << >>
  PROVE  SubSeq(log, 1, k) = log
<1>1. k \in Nat /\ Len(log) \in Nat /\ k <= Len(log)
  OBVIOUS
<1>2. k < Len(log) => Len(SubSeq(log, k + 1, Len(log))) # 0
  OBVIOUS
<1>3. k = Len(log)
  BY <1>1, <1>2
<1>4. SubSeq(log, 1, Len(log)) = log
  BY RecoveredWhole
<1>5. QED
  BY <1>3, <1>4

LEMMA ServeOne ==
  ASSUME Single, Core, FileCore, OneCore, Serve
  PROVE  OneCore'
<1>1. /\ mode = "replay" /\ mode' = "up" /\ pending = << >> /\ index' = index
      /\ wal' = wal /\ snapshot' = snapshot /\ call' = call /\ past' = past
  BY DEF Serve, memory, files
<1>2. OneDisk /\ OneReplay /\ \A c \in Clients : CallInv(c)
  BY CoreFacts DEF OneCore
<1>3. OneDisk'
  BY <1>1, <1>2 DEF OneDisk
<1>4. \A c \in Clients : call'[c].at = "idle"
  BY <1>1, <1>2 DEF CallInv
<1>5. CASE Torn(wal)
  <2>1. PICK k \in 0..Len(wal) : /\ pending = SubSeq(wal, k + 1, Len(wal))
                                 /\ index \in Recovered(snapshot, SubSeq(wal, 1, k))
    BY <1>1 DEF FileCore, FileReplay
  <2>2. wal \in Seq(Records)
    BY CoreFacts DEF DiskInv
  <2>3. SubSeq(wal, 1, k) = wal
    BY <1>1, <2>1, <2>2, AllReplayed
  <2>4. index \in OnDisk
    BY <2>1, <2>3 DEF OnDisk
  <2>5. QED
    BY <2>4, <1>5, DiskFacts
<1>6. CASE ~ Torn(wal)
  <2>1. PICK n \in 0..Len(wal) :
          LET R == Recovered(snapshot, SubSeq(wal, 1, n)) IN
          /\ pending = SubSeq(wal, n + 1, Len(wal))
          /\ index \in R /\ \A x \in R : Firm(x)
    BY <1>1, <1>2, <1>6 DEF OneReplay
  <2>2. wal \in Seq(Records)
    BY CoreFacts DEF DiskInv
  <2>4. SubSeq(wal, 1, n) = wal
    BY <1>1, <2>1, <2>2, AllReplayed
  <2>5. index \in OnDisk /\ \A x \in OnDisk : Firm(x)
    BY <2>1, <2>4 DEF OnDisk
  <2>6. Pairs(index) \subseteq OnFile /\ Dead(index) = Dead(snapshot) \cup Deletes(wal)
    BY <2>5, DiskFacts
  <2>7. Vecs(index) \subseteq past.logged
    <3>1. \A p \in OnFile : p[2] \in past.logged
      BY <1>2, OnFileLogged
    <3>2. \A i \in DOMAIN index.nodes : <<i, index.vectors[i]>> \in OnFile
      BY <2>6 DEF Pairs
    <3>3. QED
      BY <3>1, <3>2 DEF Vecs
  <2>8. OnDisk' = OnDisk
    BY <1>1 DEF OnDisk
  <2>9. ASSUME NEW c \in Clients
        PROVE  OneCall(c)'
    BY <1>1, <1>4, <2>5, <2>6, <2>7, <2>8 DEF OneCall
  <2>10. OneReplay'
    BY <1>1 DEF OneReplay
  <2>11. QED
    BY <2>9, <2>10, <1>3 DEF OneCore
<1>7. QED
  BY <1>5, <1>6

(* All steps together.                                                     *)
LEMMA CallOne ==
  ASSUME Single, Core, FileCore, OneCore, PastInv, past.compactions = 0, NEW c \in Clients,
         Insert(c) \/ Delete(c) \/ BeginCompact(c) \/ Close(c) \/ Proceed(c)
  PROVE  OneCore'
<1>1. CallInv(c)
  BY CoreFacts
<1>2. ~ BeginCompact(c)
  BY DEF BeginCompact, Single
<1>3. ~ (Swap(c) \/ Reinsert(c) \/ LogCompact(c) \/ EndBackground(c))
  BY <1>1 DEF Swap, Reinsert, LogCompact, EndBackground, At, CallInv
<1>4. QED
  BY <1>2, <1>3, InsertOne, DeleteOne, CloseOne, LogInsertOne, LinkEntryPointOne, StartLinkOne,
     FinishLinkOne, LinkRaisesOne, LogDeleteOne, MaybeSnapshotOne, CaptureOne, SaveOne,
     SaveRaisesOne, TruncateOne DEF Proceed

LEMMA SameOne ==
  ASSUME OneCore, UNCHANGED vars
  PROVE  OneCore'
<1>1. /\ mode' = mode /\ index' = index /\ wal' = wal /\ snapshot' = snapshot
      /\ pending' = pending /\ call' = call /\ past' = past
  BY DEF vars
<1>2. OneDisk'
  BY <1>1 DEF OneCore, OneDisk
<1>3. OneReplay'
  BY <1>1 DEF OneCore, OneReplay
<1>4. OnDisk' = OnDisk
  BY <1>1 DEF OnDisk
<1>5. \A c \in Clients : OneCall(c)'
  BY <1>1, <1>4 DEF OneCore, OneCall
<1>6. QED
  BY <1>2, <1>3, <1>5 DEF OneCore

(* No compaction is counted where none may begin, and one crash at a time. *)
Counted ==
  /\ past'.compactions = 0
  /\ past'.crashes = past.crashes \/ (Crash /\ past'.crashes = past.crashes + 1)

LEMMA Counters ==
  ASSUME PastInv, MaxCompactions = 0, past.compactions = 0, [Next]_vars
  PROVE  Counted
<1>1. CASE past' = past
  BY <1>1 DEF Counted
<1>2. ASSUME NEW c \in Clients, Return(c)
      PROVE  Counted
  BY <1>2 DEF Return, PastInv, IsPast, Counted
<1>3. CASE Crash
  <2>1. CASE past' = [past EXCEPT !.crashes = @ + 1, !.torn = @ \/ Mixed]
    BY <1>3, <2>1 DEF PastInv, IsPast, Counted
  <2>2. ASSUME NEW c \in Clients,
               past' = [past EXCEPT
                 !.crashes = @ + 1,
                 !.logged = IF call[c].op = "insert" THEN @ \cup {call[c].vec} ELSE @,
                 !.torn = @ \/ Mixed \/ Renumbered \/ Early(c)]
        PROVE  Counted
    BY <1>3, <2>2 DEF PastInv, IsPast, Counted
  <2>3. QED
    BY <1>3, <2>1, <2>2 DEF Crash
<1>4. CASE Boot
  <2>1. CASE Start
    BY <2>1 DEF Start, PastInv, IsPast, Counted
  <2>2. CASE Replay
    BY <2>2 DEF Replay, PastInv, IsPast, Counted
  <2>3. CASE ReplayDies \/ Serve
    BY <2>3, <1>1 DEF ReplayDies, Serve
  <2>4. QED
    BY <1>4, <2>1, <2>2, <2>3 DEF Boot
<1>5. ASSUME NEW c \in Clients,
             Insert(c) \/ Delete(c) \/ BeginCompact(c) \/ Close(c) \/ Proceed(c)
      PROVE  Counted
  <2>1. CASE Insert(c)
    BY <2>1 DEF Insert, PastInv, IsPast, Counted
  <2>2. CASE Delete(c)
    <3>1. PICK id \in Live(index) :
            past' = [past EXCEPT !.erasing = @ \cup {Row(index, id)},
                                 !.seeds = @ \cup Seeded,
                                 !.stranded = @ \/ (id = index.entryPoint /\ BareEntry(index')),
                                 !.crossed = @ \/ Compacting # {}]
      BY <2>2 DEF Delete
    <3>2. QED
      BY <3>1 DEF PastInv, IsPast, Counted
  <2>3. CASE LogInsert(c)
    BY <2>3 DEF LogInsert, PastInv, IsPast, Counted
  <2>4. CASE LogDelete(c)
    BY <2>4 DEF LogDelete, PastInv, IsPast, Counted
  <2>5. CASE FinishLink(c)
    BY <2>5 DEF FinishLink, PastInv, IsPast, Counted
  <2>6. CASE Capture(c)
    BY <2>6 DEF Capture, CaptureLeaving, PastInv, IsPast, Counted
  <2>7. CASE Save(c)
    BY <2>7 DEF Save, PastInv, IsPast, Counted
  <2>8. CASE BeginCompact(c)
    BY <2>8 DEF BeginCompact
  <2>9. CASE Swap(c)
    BY <2>9 DEF Swap, PastInv, IsPast, Counted
  <2>10. CASE Truncate(c) \/ EndBackground(c) \/ MaybeSnapshot(c)
    <3>1. past' = past \/ Return(c)
      BY <2>10 DEF Truncate, TruncateAndHold, EndBackground, MaybeSnapshot
    <3>2. QED
      BY <3>1, <1>1, <1>2
  <2>11. CASE LinkRaises(c) \/ SaveRaises(c) \/ Close(c) \/ LinkEntryPoint(c) \/ StartLink(c)
           \/ Reinsert(c) \/ LogCompact(c)
    <3>1. past' = past
      BY <2>11 DEF LinkRaises, SaveRaises, Raise, Close, LinkEntryPoint, StartLink, StartLinkIn,
         Reinsert, LogCompact
    <3>2. QED
      BY <3>1, <1>1
  <2>12. QED
    BY <1>5, <2>1, <2>2, <2>3, <2>4, <2>5, <2>6, <2>7, <2>8, <2>9, <2>10, <2>11 DEF Proceed
<1>6. CASE UNCHANGED vars
  BY <1>6, <1>1 DEF vars
<1>7. QED
  BY <1>3, <1>4, <1>5, <1>6 DEF Next

LEMMA OneInit == Init => OneInv
<1> SUFFICES ASSUME Init PROVE past.compactions = 0 /\ OneCore
  BY DEF OneInv
<1>1. /\ snapshot = EmptyIndex /\ wal = << >> /\ mode = "down" /\ past.compactions = 0
      /\ past.submitted = {} /\ past.erasing = {}
  BY DEF Init
<1>2. Formed(EmptyIndex) /\ EmptyIndex.entryPoint = None /\ DOMAIN EmptyIndex.nodes = {}
  BY EmptyIsFormed DEF EmptyIndex
<1>3. Firm(snapshot)
  BY <1>1, <1>2, NoneIsFirm DEF Live
<1>4. Vecs(snapshot) = {}
  BY <1>1, <1>2 DEF Vecs
<1>5. OneDisk
  BY <1>1, <1>3, <1>4 DEF OneDisk, Ordered
<1>6. QED
  BY <1>1, <1>5 DEF OneCore, OneReplay, OneCall

LEMMA OneNext == Single /\ WriteInv /\ FileInv /\ OneInv /\ [Next]_vars => OneInv'
<1> SUFFICES ASSUME Single, WriteInv, FileInv, OneInv, [Next]_vars
             PROVE  OneInv'
  OBVIOUS
<1>1. PastInv /\ past.compactions = 0
  BY DEF WriteInv, OneInv
<1>2. past'.compactions = 0
  BY <1>1, Counters DEF Single, Counted
<1>3. ASSUME ~ past'.torn, ~ past'.stranded
      PROVE  OneCore'
  <2>1. Quiet /\ ~ past.stranded
    BY <1>1, <1>2, <1>3, PastStep, StrandedStays DEF Later, Quiet
  <2>2. Core /\ FileCore /\ OneCore
    BY <2>1 DEF WriteInv, FileInv, OneInv, Quiet
  <2>3. CASE UNCHANGED vars
    BY <2>2, <2>3, SameOne
  <2>4. CASE Crash
    BY <2>2, <2>4, <1>1, CrashOne
  <2>5. CASE Boot
    BY <2>2, <2>5, <1>1, <1>3, StartOne, ReplayOne, ReplayDiesOne, ServeOne DEF Boot
  <2>6. ASSUME NEW c \in Clients,
               Insert(c) \/ Delete(c) \/ BeginCompact(c) \/ Close(c) \/ Proceed(c)
        PROVE  OneCore'
    BY <2>2, <2>6, <1>1, CallOne
  <2>7. QED
    BY <2>3, <2>4, <2>5, <2>6 DEF Next
<1>4. QED
  BY <1>2, <1>3 DEF OneInv
-----------------------------------------------------------------------------
(* The steps of the store                                                  *)

(* What is durable, as facts about any state.                              *)
LEMMA DurableAtRest ==
  Core /\ FileCore /\ OnDisk # {} /\ (\A ix \in OnDisk : Firm(ix)) => Durable = Listed
BY FirmDurable

LEMMA DurableAtWork ==
  Core /\ FileCore /\ OneCore /\ mode = "up" /\ Clients # {} /\ ~ Torn(wal) => Durable = Listed
BY DurableListed

(* And so about the next one.                                              *)
LEMMA DurableNext ==
  ASSUME Core', FileCore', ~ Torn(wal'), Clients # {}
  PROVE  /\ OneCore' /\ mode' = "up" => Durable' = Listed'
         /\ OnDisk' # {} /\ (\A ix \in OnDisk' : Firm(ix)) => Durable' = Listed'
<1>1. (Core /\ FileCore /\ OnDisk # {} /\ (\A ix \in OnDisk : Firm(ix)) => Durable = Listed)'
  BY DurableAtRest, PTL
<1>2. (Core /\ FileCore /\ OneCore /\ mode = "up" /\ Clients # {} /\ ~ Torn(wal)
         => Durable = Listed)'
  BY DurableAtWork, PTL
<1>3. QED
  BY <1>1, <1>2

(* A state in which nothing is undone, with all that is known of it.       *)
Settled ==
  PastInv /\ Core /\ FileCore /\ OneCore /\ ~ Torn(wal) /\ stored = Durable

LEMMA SettledFacts ==
  ASSUME Settled
  PROVE  /\ PastInv /\ Core /\ FileCore /\ OneCore /\ OneDisk /\ ~ Torn(wal)
         /\ stored = Durable /\ \A c \in Clients : CallInv(c) /\ OneCall(c)
         /\ past.logged \subseteq past.submitted /\ past.submitted \subseteq Vectors
         /\ past.erasing \subseteq past.logged
         /\ \A v \in Vectors : past.acked[v] # None => v \in past.logged
         /\ past.erased \subseteq Erased
BY CoreFacts DEF Settled, OneCore, OneDisk, FileCore, FileDisk, Erased

LEMMA StoredIsListed ==
  ASSUME Settled, mode = "up", NEW c \in Clients
  PROVE  stored = Listed
BY SettledFacts, DurableListed

LEMMA StoredNext ==
  ASSUME Settled', NEW c \in Clients,
         mode' = "up" \/ (OnDisk' # {} /\ \A ix \in OnDisk' : Firm(ix))
  PROVE  stored' = Listed'
<1>1. Core' /\ FileCore' /\ OneCore' /\ ~ Torn(wal') /\ stored' = Durable'
  BY DEF Settled, Torn
<1>2. QED
  BY <1>1, DurableNext

(* A live node whose insert is logged is listed, what is erased is not.    *)
LEMMA LiveIsListed ==
  ASSUME Settled, mode = "up", NEW c \in Clients, NEW id \in Live(index),
         index.vectors[id] \in past.logged
  PROVE  index.vectors[id] \in Listed
<1>1. Core /\ FileCore /\ OneCall(c) /\ ~ Torn(wal) /\ id \in DOMAIN index.nodes
  BY SettledFacts DEF Live
<1>2. <<id, index.vectors[id]>> \in OnFile
  BY <1>1 DEF FileCore, FileMemory
<1>3. Dead(snapshot) \subseteq Dead(index) /\ Deletes(wal) \subseteq Dead(index)
  BY <1>1, IndexFiles DEF OneCall
<1>4. id \notin Dead(index)
  BY DEF Live, Dead
<1>5. <<id, index.vectors[id]>>[1] = id
  OBVIOUS
<1>6. <<id, index.vectors[id]>> \in {q \in OnFile : q[1] \notin Dead(snapshot) \cup Deletes(wal)}
  BY <1>2, <1>3, <1>4, <1>5
<1>7. QED
  BY <1>6 DEF Listed

LEMMA ErasedIsNotListed ==
  ASSUME Settled
  PROVE  Erased \cap Listed = {}
<1>1. FileCore /\ ~ Torn(wal)
  BY SettledFacts
<1>2. /\ NoTwice(OnFile)
      /\ \A v \in Erased : \E i \in Dead(snapshot) \cup Deletes(wal) : <<i, v>> \in OnFile
  BY <1>1 DEF FileCore, FileDisk
<1>3. ASSUME NEW v \in Erased, v \in Listed
      PROVE  FALSE
  <2>1. PICK p \in OnFile : p[1] \notin Dead(snapshot) \cup Deletes(wal) /\ v = p[2]
    BY <1>3 DEF Listed
  <2>2. PICK i \in Dead(snapshot) \cup Deletes(wal) : <<i, v>> \in OnFile
    BY <1>2
  <2>3. <<i, v>>[2] = p[2] => <<i, v>>[1] = p[1]
    BY <1>2, <2>1, <2>2 DEF NoTwice
  <2>4. QED
    BY <2>1, <2>2, <2>3
<1>4. QED
  BY <1>3

(* A step that the store does not see.                                     *)
LEMMA Unseen ==
  ASSUME stored' = stored, past'.submitted = past.submitted, past'.erasing = past.erasing,
         past'.acked = past.acked, past'.erased = past.erased
  PROVE  UNCHANGED Store!vars
BY DEF Store!vars, Store!requests, Store!answers

LEMMA FilesAsBefore ==
  ASSUME Settled, Settled', wal' = wal, snapshot' = snapshot
  PROVE  stored' = stored
<1>1. Durable' = Durable
  BY DEF Durable, Remaining, OnDisk
<1>2. QED
  BY <1>1 DEF Settled

(* insert() and delete() are asked of the store.                           *)
LEMMA InsertStores ==
  ASSUME Settled, Settled', NEW c \in Clients, Insert(c)
  PROVE  Store!Next
<1>1. PICK v \in Vectors \ past.submitted :
        past' = [past EXCEPT !.submitted = @ \cup {v}, !.seeds = @ \cup Seeded]
  BY DEF Insert
<1>2. /\ past'.submitted = past.submitted \cup {v} /\ past'.erasing = past.erasing
      /\ past'.acked = past.acked /\ past'.erased = past.erased
  BY <1>1, SettledFacts DEF PastInv, IsPast
<1>3. stored' = stored
  BY FilesAsBefore DEF Insert, files
<1>4. Store!Insert(v)
  BY <1>1, <1>2, <1>3 DEF Store!Insert, Store!answers
<1>5. QED
  BY <1>1, <1>4 DEF Store!Next

LEMMA DeleteStores ==
  ASSUME Settled, Settled', NEW c \in Clients, Delete(c)
  PROVE  Store!Next
<1>1. PICK id \in Live(index) :
        past' = [past EXCEPT !.erasing = @ \cup {Row(index, id)},
                             !.seeds = @ \cup Seeded,
                             !.stranded = @ \/ (id = index.entryPoint /\ BareEntry(index')),
                             !.crossed = @ \/ Compacting # {}]
  BY DEF Delete
<1> DEFINE v == Row(index, id)
<1>2. /\ past'.submitted = past.submitted /\ past'.erasing = past.erasing \cup {v}
      /\ past'.acked = past.acked /\ past'.erased = past.erased
  BY <1>1, SettledFacts DEF PastInv, IsPast
<1>3. stored' = stored /\ mode = "up" /\ call[c].at = "idle"
  BY FilesAsBefore DEF Delete, files, Serving, At
<1>4. v = index.vectors[id] /\ id \in DOMAIN index.nodes
  BY SettledFacts, CoreFacts DEF Live, Row, Formed
<1>5. Vecs(index) \subseteq past.logged
  BY <1>3, SettledFacts DEF OneCall
<1>6. v \in past.logged
  BY <1>4, <1>5 DEF Vecs
<1>7. v \in Listed
  BY <1>3, <1>4, <1>6, LiveIsListed
<1>8. v \in stored /\ v \in Vectors
  BY <1>3, <1>6, <1>7, SettledFacts, StoredIsListed
<1> HIDE DEF v
<1>9. Store!Delete(v)
  BY <1>2, <1>3, <1>8 DEF Store!Delete, Store!answers
<1>10. QED
  BY <1>8, <1>9 DEF Store!Next

(* The acknowledgement of a write that took effect.                        *)
LEMMA ReturnStores ==
  ASSUME Settled, stored' = stored, mode = "up", NEW c \in Clients, Return(c),
         call[c].at \in {"done", "saved"}
  PROVE  Store!Next \/ UNCHANGED Store!vars
<1> DEFINE k == call[c]
<1>1. /\ past'.acked  = [v \in Vectors |-> IF k.op = "insert" /\ v = k.vec THEN k.id ELSE past.acked[v]]
      /\ past'.erased = IF k.op = "delete" THEN past.erased \cup {k.vec} ELSE past.erased
      /\ past'.submitted = past.submitted /\ past'.erasing = past.erasing
  BY SettledFacts DEF Return, PastInv, IsPast
<1>2. /\ CallInv(c) /\ OneCall(c) /\ stored = Listed /\ Core
      /\ past.acked \in [Vectors -> Nat \cup {None}]
  BY SettledFacts, StoredIsListed, CoreFacts
<1>3. CASE k.op = "insert"
  <2>1. k.vec \in Vectors /\ k.id \in Nat /\ k.id \in Live(index) /\ Holds(index, k.id, k.vec)
    BY <1>2, <1>3, OwnIsHeld DEF CallInv, OneCall
  <2>2. k.vec \in past.logged
    BY <1>3, SettledFacts, IndexFiles DEF FileCall
  <2>3. k.vec \in stored
    BY <2>1, <2>2, <1>2, LiveIsListed DEF Holds
  <2>4. k.id # None
    BY <2>1, DatabaseAssumption
  <2>5. {v \in Vectors : past'.acked[v] # None} = {v \in Vectors : past.acked[v] # None} \cup {k.vec}
    BY <1>1, <1>3, <2>1, <2>4
  <2>6. past'.erased = past.erased
    BY <1>1, <1>3
  <2>7. PICK v \in Vectors : v = k.vec
    BY <2>1
  <2>8. Store!AckPut(v)
    BY <1>1, <2>3, <2>5, <2>6, <2>7 DEF Store!AckPut, Store!requests
  <2>9. Store!Next
    BY <2>8 DEF Store!Next
  <2>10. QED
    BY <2>9
<1>4. CASE k.op = "delete"
  <2>1. k.vec \in past.erasing
    BY <1>2, <1>4 DEF OneCall
  <2>2. k.vec \in Erased
    BY <1>4 DEF Erased
  <2>3. k.vec \notin stored /\ k.vec \in Vectors
    BY <2>1, <2>2, <1>2, SettledFacts, ErasedIsNotListed
  <2>4. past'.acked = past.acked /\ past'.erased = past.erased \cup {k.vec}
    BY <1>1, <1>2, <1>4
  <2>5. Store!AckRemove(k.vec)
    BY <1>1, <2>1, <2>3, <2>4 DEF Store!AckRemove, Store!requests
  <2>6. QED
    BY <2>3, <2>5 DEF Store!Next
<1>5. CASE k.op \notin {"insert", "delete"}
  <2>1. past'.acked = past.acked /\ past'.erased = past.erased
    BY <1>1, <1>2, <1>5
  <2>2. QED
    BY <2>1, <1>1, Unseen
<1>6. QED
  BY <1>3, <1>4, <1>5

(* The record of an insert, or of a delete, gets into the log.             *)
LEMMA PutStores ==
  ASSUME Settled, Settled', mode = "up", NEW c \in Clients,
         call[c].at = "reserved", NEW part \in Records,
         part.op = "insert", part.id = call[c].id, part.vec = call[c].vec,
         Inserts(wal') = Inserts(wal) \cup Inserted(part),
         Deletes(wal') = Deletes(wal) \cup Deleted(part), snapshot' = snapshot,
         stored' = Listed',
         past'.submitted = past.submitted, past'.erasing = past.erasing,
         past'.acked = past.acked, past'.erased = past.erased
  PROVE  Store!Next
<1> DEFINE v  == call[c].vec
           id == call[c].id
<1>1. CallInv(c) /\ OneCall(c) /\ Core /\ FileCore /\ stored = Listed
  BY SettledFacts, StoredIsListed
<1>2. v \in past.submitted \ past.logged /\ v \in Vectors
  BY <1>1, IndexFiles, SettledFacts DEF FileCall
<1>3. id \notin Dead(snapshot) \cup Deletes(wal)
  <2>1. call[c].op = "insert"
    BY <1>1 DEF CallInv
  <2>2. id \in Live(index)
    BY <1>1, <2>1 DEF OneCall
  <2>3. Dead(snapshot) \subseteq Dead(index) /\ Deletes(wal) \subseteq Dead(index)
    BY <1>1, IndexFiles DEF OneCall
  <2>4. QED
    BY <2>2, <2>3 DEF Live, Dead
<1>4. OnFile' = OnFile \cup {<<id, v>>} /\ Deletes(wal') = Deletes(wal)
  BY DEF OnFile, Inserted, Deleted
<1>5. Listed' = Listed \cup {v}
  <2> DEFINE D == Dead(snapshot) \cup Deletes(wal)
  <2>1. Listed' = {p[2] : p \in {q \in OnFile \cup {<<id, v>>} : q[1] \notin D}}
    BY <1>4 DEF Listed
  <2>2. Listed = {p[2] : p \in {q \in OnFile : q[1] \notin D}}
    BY DEF Listed
  <2>3. <<id, v>>[1] = id /\ <<id, v>>[2] = v
    OBVIOUS
  <2> HIDE DEF D, id, v
  <2>4. id \notin D
    BY <1>3 DEF D
  <2>5. QED
    BY <2>1, <2>2, <2>3, <2>4
<1>6. v \notin stored
  <2>1. \A p \in OnFile : p[2] \in past.logged
    BY SettledFacts, OnFileLogged
  <2>2. QED
    BY <2>1, <1>1, <1>2 DEF Listed
<1>7. v \notin past.erasing /\ past.acked[v] = None
  BY <1>2, SettledFacts
<1>8. stored' = stored \cup {v}
  BY <1>1, <1>5
<1> HIDE DEF v, id
<1>9. Store!Put(v)
  BY <1>2, <1>6, <1>7, <1>8 DEF Store!Put, Store!requests, Store!answers
<1>10. v \in Vectors
  BY <1>2
<1>11. QED
  BY <1>9, <1>10 DEF Store!Next

LEMMA RemoveStores ==
  ASSUME Settled, Settled', mode = "up", NEW c \in Clients,
         call[c].at = "tombstoned", NEW part \in Records,
         part.op = "delete", part.id = call[c].id,
         Inserts(wal') = Inserts(wal) \cup Inserted(part),
         Deletes(wal') = Deletes(wal) \cup Deleted(part), snapshot' = snapshot,
         stored' = Listed',
         past'.submitted = past.submitted, past'.erasing = past.erasing,
         past'.acked = past.acked, past'.erased = past.erased
  PROVE  Store!Next \/ UNCHANGED Store!vars
<1> DEFINE v  == call[c].vec
           id == call[c].id
           D  == Dead(snapshot) \cup Deletes(wal)
<1>1. CallInv(c) /\ OneCall(c) /\ FileCall(c) /\ Core /\ FileCore /\ stored = Listed
  BY SettledFacts, StoredIsListed, IndexFiles
<1>2. Holds(index, id, v) /\ v \in past.erasing /\ v \in past.logged /\ v \in Vectors
  BY <1>1, SettledFacts DEF CallInv, OneCall, FileCall
<1>3. <<id, v>> \in OnFile
  BY <1>1, <1>2, SettledFacts DEF FileCore, FileMemory, Holds
<1>4. OnFile' = OnFile /\ Deletes(wal') = Deletes(wal) \cup {id}
  BY DEF OnFile, Inserted, Deleted
<1>5. \A p \in OnFile : p[1] = id <=> p[2] = v
  <2>1. ASSUME NEW p \in OnFile
        PROVE  p[1] = id => p[2] = v
    <3>1. Holds(index, p[1], p[2])
      BY <1>1, OnFileHeld
    <3>2. QED
      BY <3>1, <1>2 DEF Holds
  <2>2. NoTwice(OnFile)
    BY <1>1 DEF FileCore, FileDisk
  <2>3. ASSUME NEW p \in OnFile
        PROVE  p[2] = v => p[1] = id
    <3>1. p[2] = <<id, v>>[2] => p[1] = <<id, v>>[1]
      BY <1>3, <2>2 DEF NoTwice
    <3>2. QED
      BY <3>1
  <2>4. QED
    BY <2>1, <2>3
<1>6. Listed' = Listed \ {v}
  <2>1. Listed' = {p[2] : p \in {q \in OnFile : q[1] \notin D \cup {id}}}
    BY <1>4 DEF Listed
  <2>2. Listed = {p[2] : p \in {q \in OnFile : q[1] \notin D}}
    BY DEF Listed
  <2> HIDE DEF D, id, v
  <2>3. QED
    BY <2>1, <2>2, <1>5
<1> HIDE DEF v, id, D
<1>7. CASE v \notin Listed
  <2>1. stored' = stored
    BY <1>1, <1>6, <1>7
  <2>2. QED
    BY <2>1, Unseen
<1>8. CASE v \in Listed
  <2>1. v \notin past.erased
    BY <1>8, SettledFacts, ErasedIsNotListed
  <2>2. stored' = stored \ {v} /\ v \in stored
    BY <1>1, <1>6, <1>8
  <2>3. Store!Remove(v)
    BY <1>2, <2>1, <2>2 DEF Store!Remove, Store!requests, Store!answers
  <2>4. v \in Vectors
    BY <1>2
  <2>5. QED
    BY <2>3, <2>4 DEF Store!Next
<1>9. QED
  BY <1>7, <1>8

(* A record that gets into the log, also if a crash cuts its newline off.  *)
LEMMA RecordStores ==
  ASSUME Single, Settled, Settled', mode = "up", NEW c \in Clients, NEW part \in Records,
         \/ /\ call[c].at = "reserved" /\ part.op = "insert"
            /\ part.id = call[c].id /\ part.vec = call[c].vec
         \/ call[c].at = "tombstoned" /\ part.op = "delete" /\ part.id = call[c].id,
         wal' = Logged(wal, part), snapshot' = snapshot,
         past'.submitted = past.submitted, past'.erasing = past.erasing,
         past'.acked = past.acked, past'.erased = past.erased
  PROVE  Store!Next \/ UNCHANGED Store!vars
<1>1. Core /\ FileCore /\ OneCore
  BY SettledFacts
<1>2. ~ Torn(wal')
  BY DEF Settled, Torn
<1>3. /\ OnDisk' # {} /\ \A ix \in OnDisk' : Firm(ix)
      /\ Deletes(wal') = Deletes(wal) \cup Deleted(part)
      /\ Inserts(wal') = Inserts(wal) \cup Inserted(part)
  BY <1>1, <1>2, WriteFirm
<1>4. stored' = Listed'
  BY <1>3, StoredNext
<1>5. CASE call[c].at = "reserved" /\ part.op = "insert" /\ part.id = call[c].id
             /\ part.vec = call[c].vec
  BY <1>3, <1>4, <1>5, PutStores
<1>6. CASE call[c].at = "tombstoned" /\ part.op = "delete" /\ part.id = call[c].id
  BY <1>3, <1>4, <1>6, RemoveStores
<1>7. QED
  BY <1>5, <1>6

LEMMA LogStores ==
  ASSUME Single, Settled, Settled', NEW c \in Clients, LogInsert(c) \/ LogDelete(c)
  PROVE  Store!Next \/ UNCHANGED Store!vars
<1>1. PastInv /\ CallInv(c)
  BY SettledFacts
<1>2. /\ mode = "up" /\ snapshot' = snapshot
      /\ past'.submitted = past.submitted /\ past'.erasing = past.erasing
      /\ past'.acked = past.acked /\ past'.erased = past.erased
  <2>1. CASE LogInsert(c)
    BY <2>1, <1>1 DEF LogInsert, At, PastInv, IsPast
  <2>2. CASE LogDelete(c)
    BY <2>2, <1>1 DEF LogDelete, At, PastInv, IsPast
  <2>3. QED
    BY <2>1, <2>2
<1>3. CASE LogInsert(c)
  <2> DEFINE part == InsertRecord(call[c].id, call[c].vec)
  <2>1. call[c].at = "reserved" /\ wal' = Logged(wal, part)
    BY <1>3 DEF LogInsert, At
  <2>2. call[c].id \in Nat /\ call[c].vec \in Vectors
    BY <2>1, <1>1 DEF CallInv
  <2>3. /\ part \in Records /\ part.op = "insert" /\ part.id = call[c].id
        /\ part.vec = call[c].vec
    BY <2>2 DEF InsertRecord, Record, Records
  <2> HIDE DEF part
  <2>4. QED
    BY <2>1, <2>3, <1>2, RecordStores
<1>4. CASE LogDelete(c)
  <2> DEFINE part == DeleteRecord(call[c].id)
  <2>1. call[c].at = "tombstoned" /\ wal' = Logged(wal, part)
    BY <1>4 DEF LogDelete, At
  <2>2. call[c].id \in Nat
    BY <1>1 DEF CallInv
  <2>3. part \in Records /\ part.op = "delete" /\ part.id = call[c].id
    BY <2>2 DEF DeleteRecord, Record, Records
  <2> HIDE DEF part
  <2>4. QED
    BY <2>1, <2>3, <1>2, RecordStores
<1>5. QED
  BY <1>3, <1>4

LEMMA CrashStores ==
  ASSUME Single, Settled, Settled', Crash
  PROVE  Store!Next \/ UNCHANGED Store!vars
<1>1. Core /\ PastInv /\ \A c \in Clients : CallInv(c)
  BY SettledFacts
<1>2. /\ snapshot' = snapshot /\ past'.acked = past.acked
      /\ past'.submitted = past.submitted /\ past'.erasing = past.erasing
      /\ past'.erased = past.erased
  BY <1>1, CrashLeaves
<1>3. CASE wal' = wal
  BY <1>2, <1>3, FilesAsBefore, Unseen
<1>4. ASSUME NEW c \in Clients, NEW part \in Records, mode = "up",
             call[c].at \in {"reserved", "tombstoned"}, wal' = Logged(wal, part),
             \/ part.op = "torn"
             \/ /\ part.op = call[c].op /\ part.op \in {"insert", "delete"}
                /\ part.id = call[c].id /\ (part.op = "insert" => part.vec = call[c].vec)
      PROVE  Store!Next \/ UNCHANGED Store!vars
  <2>1. part.op # "torn"
    <3>1. ~ Torn(wal')
      BY DEF Settled, Torn
    <3>2. QED
      BY <3>1, <1>4, TornLogged, CoreFacts, <1>1 DEF DiskInv
  <2>2. CallInv(c)
    BY <1>1
  <2>3. \/ /\ call[c].at = "reserved" /\ part.op = "insert"
           /\ part.id = call[c].id /\ part.vec = call[c].vec
        \/ call[c].at = "tombstoned" /\ part.op = "delete" /\ part.id = call[c].id
    BY <1>4, <2>1, <2>2 DEF CallInv
  <2>4. QED
    BY <1>2, <1>4, <2>3, RecordStores
<1>5. CASE \E c \in Clients, part \in Records :
                 /\ mode = "up" /\ call[c].at \in {"reserved", "tombstoned"}
                 /\ wal' = Logged(wal, part)
                 /\ \/ part.op = "torn"
                    \/ /\ part.op = call[c].op /\ part.op \in {"insert", "delete"}
                       /\ part.id = call[c].id /\ (part.op = "insert" => part.vec = call[c].vec)
  BY <1>4, <1>5
<1>6. QED
  BY <1>1, <1>3, <1>5, CrashLeaves

(* Snapshots: the log still says what the snapshot now holds as well.      *)
LEMMA SaveStores ==
  ASSUME Single, Settled, Settled', NEW c \in Clients, Save(c)
  PROVE  UNCHANGED Store!vars
<1>1. Core /\ FileCore /\ OneCore /\ PastInv /\ OneDisk /\ OneCall(c) /\ FileCall(c)
  BY SettledFacts DEF FileCore
<1>2. snapshot' = index /\ wal' = wal
  BY <1>1, SaveOne
<1>3. /\ mode = "up" /\ mode' = "up" /\ call[c].at = "captured"
      /\ past'.submitted = past.submitted /\ past'.erasing = past.erasing
      /\ past'.acked = past.acked /\ past'.erased = past.erased
  BY <1>1 DEF Save, At, startup, PastInv, IsPast
<1>4. ~ Torn(wal)
  BY SettledFacts
<1>5. OnFile' = OnFile
  <2>1. OnFile' = Pairs(index) \cup Inserts(wal)
    BY <1>2 DEF OnFile
  <2>2. OnFile \subseteq Pairs(index)
    BY <1>1, <1>3, OnFileHeld
  <2>3. Pairs(index) \subseteq OnFile
    <3>1. Vecs(index) \subseteq past.logged
      BY <1>1, <1>3 DEF OneCall
    <3>2. \A i \in DOMAIN index.nodes : index.vectors[i] \in past.logged
      BY <3>1 DEF Vecs
    <3>3. QED
      BY <3>2, <1>1, <1>3, <1>4 DEF FileCore, FileMemory, Pairs
  <2>4. QED
    BY <2>1, <2>2, <2>3 DEF OnFile
<1>6. Dead(index) \cup Deletes(wal) = Dead(snapshot) \cup Deletes(wal)
  BY <1>1, <1>3, <1>4 DEF OneCall
<1>7. Listed' = Listed
  BY <1>2, <1>5, <1>6 DEF Listed
<1>8. stored = Listed /\ stored' = Listed'
  BY <1>3, StoredIsListed, StoredNext
<1>9. QED
  BY <1>3, <1>7, <1>8, Unseen

(* And the truncation forgets what the snapshot holds.                     *)
LEMMA TruncateStores ==
  ASSUME Single, Settled, Settled', NEW c \in Clients, Truncate(c)
  PROVE  Store!Next \/ UNCHANGED Store!vars
<1>1. Core /\ FileCore /\ OneCore /\ PastInv /\ OneDisk /\ OneCall(c) /\ FileCall(c)
      /\ wal \in Seq(Records)
  BY SettledFacts, CoreFacts DEF FileCore, DiskInv
<1>2. /\ mode = "up" /\ call[c].at = "saved" /\ wal' = << >> /\ snapshot' = snapshot
      /\ Return(c)
  BY DEF Truncate, TruncateAndHold, At
<1>3. OnDisk' = {snapshot} /\ Firm(snapshot)
  BY <1>1, <1>2, NoLog DEF OnDisk, OneDisk
<1>4. stored' = Listed' /\ stored = Listed
  BY <1>2, <1>3, StoredIsListed, StoredNext
<1>5. Inserts(wal') = {} /\ Deletes(wal') = {}
  BY <1>2 DEF Inserts, Deletes
<1>6. Inserts(wal) \subseteq Pairs(snapshot)
  <2>1. HoldsAll(snapshot, Inserts(wal))
    BY <1>1, <1>2 DEF FileCall
  <2>2. \A p \in Inserts(wal) : p = <<p[1], p[2]>>
    BY DEF Inserts
  <2>3. QED
    BY <2>1, <2>2 DEF HoldsAll, Holds, Pairs
<1>7. OnFile' = OnFile
  BY <1>2, <1>5, <1>6 DEF OnFile
<1>8. Dead(snapshot) \cup Deletes(wal) = Dead(snapshot)
  BY <1>1, <1>2 DEF FileCall
<1>9. Listed' = Listed
  BY <1>2, <1>5, <1>7, <1>8 DEF Listed
<1>10. stored' = stored
  BY <1>4, <1>9
<1>11. QED
  BY <1>2, <1>10, ReturnStores

(* A call returns when it has not to make a snapshot.                      *)
LEMMA MaybeSnapshotStores ==
  ASSUME Settled, Settled', NEW c \in Clients, MaybeSnapshot(c)
  PROVE  Store!Next \/ UNCHANGED Store!vars
<1>1. stored' = stored
  BY FilesAsBefore DEF MaybeSnapshot, files
<1>2. /\ mode = "up" /\ call[c].at = "done"
      /\ past' = past \/ Return(c)
  BY DEF MaybeSnapshot, At
<1>3. CASE past' = past
  BY <1>1, <1>3, Unseen
<1>4. CASE Return(c)
  BY <1>1, <1>2, <1>4, ReturnStores
<1>5. QED
  BY <1>2, <1>3, <1>4

(* The steps that leave the files, and what was asked and answered, alone. *)
LEMMA MemoryStores ==
  ASSUME Settled, Settled',
         \/ \E c \in Clients : \/ LinkEntryPoint(c) \/ StartLink(c) \/ FinishLink(c)
                               \/ LinkRaises(c) \/ Capture(c) \/ SaveRaises(c) \/ Close(c)
         \/ Boot \/ UNCHANGED vars
  PROVE  UNCHANGED Store!vars
<1>1. PastInv
  BY SettledFacts
<1>2. ASSUME wal' = wal, snapshot' = snapshot, past'.submitted = past.submitted,
             past'.erasing = past.erasing, past'.acked = past.acked, past'.erased = past.erased
      PROVE  UNCHANGED Store!vars
  BY <1>2, FilesAsBefore, Unseen
<1>3. ASSUME NEW c \in Clients,
             LinkEntryPoint(c) \/ StartLink(c) \/ LinkRaises(c) \/ SaveRaises(c) \/ Close(c)
      PROVE  UNCHANGED Store!vars
  <2>1. wal' = wal /\ snapshot' = snapshot /\ past' = past
    BY <1>3 DEF LinkEntryPoint, StartLink, StartLinkIn, LinkRaises, SaveRaises, Close, Raise, files
  <2>2. QED
    BY <2>1, <1>2
<1>4. ASSUME NEW c \in Clients, FinishLink(c)
      PROVE  UNCHANGED Store!vars
  BY <1>1, <1>2, <1>4 DEF FinishLink, files, PastInv, IsPast
<1>5. ASSUME NEW c \in Clients, Capture(c)
      PROVE  UNCHANGED Store!vars
  BY <1>1, <1>2, <1>5 DEF Capture, CaptureLeaving, PastInv, IsPast
<1>6. CASE Boot
  <2>1. CASE Start
    BY <1>1, <1>2, <2>1 DEF Start, files, PastInv, IsPast
  <2>2. CASE Replay
    BY <1>1, <1>2, <2>2 DEF Replay, files, PastInv, IsPast
  <2>3. CASE ReplayDies \/ Serve
    <3>1. wal' = wal /\ snapshot' = snapshot /\ past' = past
      BY <2>3 DEF ReplayDies, Serve, Gone, files
    <3>2. QED
      BY <3>1, <1>2
  <2>4. QED
    BY <1>6, <2>1, <2>2, <2>3 DEF Boot
<1>7. CASE UNCHANGED vars
  <2>1. wal' = wal /\ snapshot' = snapshot /\ past' = past
    BY <1>7 DEF vars
  <2>2. QED
    BY <2>1, <1>2
<1>8. QED
  BY <1>3, <1>4, <1>5, <1>6, <1>7

(* All steps together.                                                     *)
LEMMA CallStores ==
  ASSUME Single, Settled, Settled', past.compactions = 0, NEW c \in Clients,
         Insert(c) \/ Delete(c) \/ BeginCompact(c) \/ Close(c) \/ Proceed(c)
  PROVE  Store!Next \/ UNCHANGED Store!vars
<1>1. CallInv(c)
  BY SettledFacts
<1>2. ~ BeginCompact(c)
  BY DEF BeginCompact, Single
<1>3. ~ (Swap(c) \/ Reinsert(c) \/ LogCompact(c) \/ EndBackground(c))
  BY <1>1 DEF Swap, Reinsert, LogCompact, EndBackground, At, CallInv
<1>4. CASE Insert(c) \/ Delete(c)
  BY <1>4, InsertStores, DeleteStores
<1>5. CASE LogInsert(c) \/ LogDelete(c)
  BY <1>5, LogStores
<1>6. CASE MaybeSnapshot(c) \/ Save(c) \/ Truncate(c)
  BY <1>6, MaybeSnapshotStores, SaveStores, TruncateStores
<1>7. CASE \/ LinkEntryPoint(c) \/ StartLink(c) \/ FinishLink(c)
           \/ LinkRaises(c) \/ Capture(c) \/ SaveRaises(c) \/ Close(c)
  BY <1>7, MemoryStores
<1>8. QED
  BY <1>2, <1>3, <1>4, <1>5, <1>6, <1>7 DEF Proceed

LEMMA StepStores ==
  ASSUME Single, Settled, Settled', past.compactions = 0, [Next]_vars
  PROVE  Store!Next \/ UNCHANGED Store!vars
<1>1. CASE Crash
  BY <1>1, CrashStores
<1>2. CASE Boot \/ UNCHANGED vars
  BY <1>2, MemoryStores
<1>3. ASSUME NEW c \in Clients,
             Insert(c) \/ Delete(c) \/ BeginCompact(c) \/ Close(c) \/ Proceed(c)
      PROVE  Store!Next \/ UNCHANGED Store!vars
  BY <1>3, CallStores
<1>4. QED
  BY <1>1, <1>2, <1>3 DEF Next

(* The history variable is what it is meant to be.                         *)
FollowsFiles == stored = Durable

LEMMA FollowsInit == StoreInit => FollowsFiles
BY DEF StoreInit, FollowsFiles

LEMMA FollowsNext == FollowsFiles /\ [StoreNext]_<<vars, stored>> => FollowsFiles'
<1> SUFFICES ASSUME FollowsFiles, [StoreNext]_<<vars, stored>>
             PROVE  stored' = Durable'
  BY DEF FollowsFiles
<1>1. CASE UNCHANGED files /\ stored' = stored
  <2>1. Durable' = Durable
    BY <1>1 DEF Durable, Remaining, OnDisk, files
  <2>2. QED
    BY <1>1, <2>1 DEF FollowsFiles
<1>2. CASE UNCHANGED <<vars, stored>>
  BY <1>2, <1>1 DEF vars, files
<1>3. QED
  BY <1>1, <1>2 DEF StoreNext

(* All of it, in one invariant of the specification with that variable.    *)
StoreInv == WriteInv /\ FileInv /\ OneInv /\ FollowsFiles

LEMMA StoreInvInit == StoreInit => StoreInv
BY WriteInit, FileInit, OneInit, FollowsInit DEF StoreInit, StoreInv

LEMMA StoreInvNext == Single /\ StoreInv /\ [StoreNext]_<<vars, stored>> => StoreInv'
<1> SUFFICES ASSUME Single, StoreInv, [StoreNext]_<<vars, stored>>
             PROVE  StoreInv'
  OBVIOUS
<1>1. [Next]_vars
  BY DEF StoreNext, vars
<1>2. QED
  BY <1>1, WriteNext, FileNext, OneNext, FollowsNext DEF StoreInv

(* The initial states and the steps of the store.                          *)
LEMMA StoreBegins == StoreInit => Store!Init
<1> SUFFICES ASSUME StoreInit
             PROVE  Store!Init
  OBVIOUS
<1>1. /\ snapshot = EmptyIndex /\ wal = << >> /\ stored = Durable
      /\ past.submitted = {} /\ past.erasing = {} /\ past.erased = {}
      /\ past.acked = [v \in Vectors |-> None]
  BY DEF StoreInit, Init
<1>2. OnDisk = {EmptyIndex}
  BY <1>1, NoLog DEF OnDisk
<1>3. Contents(EmptyIndex) = {}
  BY DEF Contents, Findable, EmptyIndex
<1>4. stored = {}
  BY <1>1, <1>2, <1>3 DEF Durable, Remaining
<1>5. QED
  BY <1>1, <1>4 DEF Store!Init

LEMMA StoreStep ==
  Single /\ StoreInv /\ StoreInv' /\ [StoreNext]_<<vars, stored>>
    => [Store!Next \/ Undone \/ Undone']_(Store!vars)
<1> SUFFICES ASSUME Single, StoreInv, StoreInv', [StoreNext]_<<vars, stored>>,
                    ~ Undone, ~ Undone'
             PROVE  Store!Next \/ UNCHANGED Store!vars
  OBVIOUS
<1>1. [Next]_vars
  BY DEF StoreNext, vars
<1>2. past.compactions = 0 /\ past'.compactions = 0
  BY DEF StoreInv, OneInv
<1>3. Settled
  BY <1>2 DEF StoreInv, WriteInv, FileInv, OneInv, Quiet, FollowsFiles, Settled, Undone,
     Unreadable, Torn
<1>4. Settled'
  BY <1>2 DEF StoreInv, WriteInv, FileInv, OneInv, Quiet, FollowsFiles, Settled, Undone,
     Unreadable, Torn
<1>5. QED
  BY <1>1, <1>2, <1>3, <1>4, StepStores

(* One client's database is a durable store, whatever crashes, restarts and*)
(* snapshots do: each write takes effect at one instant, when its record is*)
(* on disk and before it is acknowledged, and nothing else changes what the*)
(* next start finds (core/database.py:97-135, storage/wal.py:46-57).       *)
THEOREM StoreIsDurable == Single /\ StoreSpec => ImplementsDurableStore
<1> SUFFICES ASSUME Single
             PROVE  StoreSpec => ImplementsDurableStore
  OBVIOUS
<1>1. StoreInv /\ [StoreNext]_<<vars, stored>> => StoreInv'
  BY StoreInvNext
<1>2. StoreSpec => []StoreInv
  BY <1>1, StoreInvInit, PTL DEF StoreSpec
<1>3. StoreInv /\ StoreInv' /\ [StoreNext]_<<vars, stored>>
        => [Store!Next \/ Undone \/ Undone']_(Store!vars)
  BY StoreStep
<1>4. QED
  BY <1>2, <1>3, StoreBegins, PTL DEF StoreSpec, ImplementsDurableStore
-----------------------------------------------------------------------------
(* Without a crash                                                         *)

(* Nobody but the snapshot in progress holds the lock, and none is of an   *)
(* older generation.                                                       *)
CalmCall(c) ==
  /\ call[c].at = "saved" => call[c].gen = 0
  /\ snapshotLock # None => call[c].at \in {"captured", "saved"}

(* What an orderly stop leaves of the log: nothing to replay.              *)
CleanLog ==
  /\ pending = << >> /\ (mode # "up" => wal = << >>)
  /\ \A k \in DOMAIN wal : wal[k].op # "torn" /\ wal[k].ended

(* One client's snapshots race nothing until the entry point hides nodes,  *)
(* and this takes a crash.                                                 *)
Calm ==
  /\ past.crashes \in Nat
  /\ past.torn => past.stranded
  /\ ~ past.stranded => past.numbering = 0 /\ \A c \in Clients : CalmCall(c)
  /\ past.crashes = 0 => ~ past.stranded /\ CleanLog

(* What is to be shown of a step, if nothing is hidden yet.                *)
StaysCalm ==
  /\ ~ past'.torn
  /\ past'.numbering = 0 /\ \A c \in Clients : CalmCall(c)'
  /\ past.crashes = 0 => ~ past'.stranded /\ CleanLog'

(* A firm index hides nothing, and its snapshot races nothing.             *)
LEMMA FirmHides ==
  ASSUME NEW ix, Formed(ix), Firm(ix)
  PROVE  ~ Hides(ix) /\ ~ Races(ix)
<1>1. ~ DeadEntry(ix)
  BY DEF Firm
<1>2. ~ BareEntry(ix)
  BY FirmEntry DEF BareEntry
<1>3. DOMAIN ix.nodes \subseteq DOMAIN ix.vectors
  BY DEF Formed
<1>4. Live(ix) \subseteq Findable(ix)
  BY DEF Firm
<1>5. QED
  BY <1>1, <1>2, <1>3, <1>4 DEF Hides, Races

(* Appending a whole record to whole lines.                                *)
LEMMA CleanLogged ==
  ASSUME NEW log \in Seq(Records), NEW record \in Records, record.op # "torn", record.ended,
         \A k \in DOMAIN log : log[k].op # "torn" /\ log[k].ended
  PROVE  LET a == Logged(log, record) IN \A k \in DOMAIN a : a[k].op # "torn" /\ a[k].ended
<1> DEFINE a == Append(log, record)
<1>1. Logged(log, record) = a
  <2>1. CASE log = << >>
    BY <2>1 DEF Logged
  <2>2. CASE log # << >>
    <3>1. Last(log) = log[Len(log)] /\ Len(log) \in DOMAIN log
      BY <2>2 DEF Last
    <3>2. QED
      BY <3>1 DEF Logged
  <2>3. QED
    BY <2>1, <2>2
<1>2. /\ DOMAIN a = 1..(Len(log) + 1) /\ DOMAIN log = 1..Len(log) /\ Len(log) \in Nat
      /\ a[Len(log) + 1] = record /\ \A k \in 1..Len(log) : a[k] = log[k]
  OBVIOUS
<1> HIDE DEF a
<1>3. \A k \in DOMAIN a : a[k].op # "torn" /\ a[k].ended
  BY <1>2
<1>4. QED
  BY <1>1, <1>3

(* The call moves, and is not making a snapshot.                           *)
LEMMA MoveCalm ==
  ASSUME Single, Calm, ~ past.stranded, NEW c \in Clients, mode = "up", mode' = "up",
         ~ past'.torn, past'.numbering = past.numbering,
         past.crashes = 0 => ~ past'.stranded,
         call[c].at \notin {"captured", "saved"}, call'[c].at # "saved",
         snapshotLock' = snapshotLock, pending' = pending,
         \/ wal' = wal
         \/ past.crashes = 0 => \A k \in DOMAIN wal' : wal'[k].op # "torn" /\ wal'[k].ended
  PROVE  StaysCalm
<1>1. snapshotLock = None /\ past.numbering = 0
  BY DEF Calm, CalmCall
<1>2. CalmCall(c)'
  BY <1>1 DEF CalmCall
<1>3. past.crashes = 0 => CleanLog'
  BY DEF Calm, CleanLog
<1>4. QED
  BY <1>1, <1>2, <1>3 DEF StaysCalm, Single

(* What the steps start from.                                              *)
OneCalm == Single /\ Core /\ FileCore /\ OneCore /\ PastInv /\ Calm /\ ~ past.stranded

LEMMA CalmFacts ==
  ASSUME OneCalm
  PROVE  /\ Single /\ Core /\ FileCore /\ OneCore /\ OneDisk /\ PastInv /\ Calm
         /\ ~ past.stranded /\ ~ past.torn /\ past.numbering = 0 /\ Generation = 0
         /\ \A c \in Clients : CallInv(c) /\ OneCall(c) /\ CalmCall(c)
BY CoreFacts DEF OneCalm, OneCore, Calm, MemoryInv, Generation

LEMMA InsertCalm ==
  ASSUME OneCalm, NEW c \in Clients, Insert(c)
  PROVE  StaysCalm
<1>1. /\ mode = "up" /\ mode' = "up" /\ call[c].at = "idle"
      /\ snapshotLock' = snapshotLock /\ pending' = pending /\ wal' = wal
      /\ past'.torn = past.torn /\ past'.numbering = past.numbering
      /\ past'.stranded = past.stranded
  BY CalmFacts DEF Insert, At, startup, counter, files, PastInv, IsPast
<1>2. PICK v \in Vectors :
        call' = [call EXCEPT ![c] = [IdleCall EXCEPT !.at = "reserved", !.op = "insert",
                                                     !.id = index.nextId, !.vec = v]]
  BY DEF Insert
<1>3. call'[c].at = "reserved"
  BY <1>2, CalmFacts, CoreFacts DEF IdleCall
<1>4. QED
  BY <1>1, <1>3, CalmFacts, MoveCalm

LEMMA DeleteCalm ==
  ASSUME OneCalm, NEW c \in Clients, Delete(c)
  PROVE  StaysCalm
<1>1. /\ mode = "up" /\ mode' = "up" /\ call[c].at = "idle"
      /\ snapshotLock' = snapshotLock /\ pending' = pending /\ wal' = wal
  BY DEF Delete, At, startup, counter, files
<1>2. PICK id \in Live(index) :
        /\ index' = Tombstone(index, id)
        /\ call' = [call EXCEPT ![c] = [IdleCall EXCEPT !.at = "tombstoned", !.op = "delete",
                                                        !.id = id, !.vec = Row(index, id)]]
        /\ past' = [past EXCEPT !.erasing = @ \cup {Row(index, id)},
                                !.seeds = @ \cup Seeded,
                                !.stranded = @ \/ (id = index.entryPoint /\ BareEntry(index')),
                                !.crossed = @ \/ Compacting # {}]
  BY DEF Delete
<1>3. call'[c].at = "tombstoned"
  BY <1>2, CalmFacts, CoreFacts DEF IdleCall
<1>4. Firm(index)
  BY <1>1, CalmFacts DEF OneCall
<1>5. Formed(index) /\ id \in DOMAIN index.nodes
  BY CalmFacts, CoreFacts DEF Live
<1>6. Formed(index') /\ Firm(index')
  BY <1>2, <1>4, <1>5, FirmTombstone, TombstoneLinks, DatabaseAssumption
<1>7. ~ BareEntry(index')
  BY <1>6, FirmHides DEF Hides
<1>8. /\ past'.torn = past.torn /\ past'.numbering = past.numbering
      /\ past'.stranded = (past.stranded \/ (id = index.entryPoint /\ BareEntry(index')))
  BY <1>2, CalmFacts DEF PastInv, IsPast
<1>9. ~ past'.stranded /\ ~ past'.torn
  BY <1>7, <1>8, CalmFacts
<1>10. QED
  BY <1>1, <1>3, <1>8, <1>9, CalmFacts, MoveCalm

LEMMA LogInsertCalm ==
  ASSUME OneCalm, NEW c \in Clients, LogInsert(c)
  PROVE  StaysCalm
<1> DEFINE record == InsertRecord(call[c].id, call[c].vec)
<1>1. /\ mode = "up" /\ mode' = "up" /\ call[c].at = "reserved"
      /\ snapshotLock' = snapshotLock /\ pending' = pending /\ wal' = Logged(wal, record)
      /\ call' = [call EXCEPT ![c].at = "toLink"]
  BY DEF LogInsert, At, Goto, startup, counter
<1>2. call'[c].at = "toLink"
  BY <1>1, CalmFacts, CoreFacts, Moved
<1>3. snapshotLock = None /\ ~ Renumbered
  BY <1>1, CalmFacts DEF CalmCall, Renumbered
<1>4. /\ past'.torn = (past.torn \/ snapshotLock # None \/ Renumbered)
      /\ past'.numbering = past.numbering /\ past'.stranded = past.stranded
  BY CalmFacts DEF LogInsert, PastInv, IsPast
<1>5. call[c].id \in Nat /\ call[c].vec \in Vectors
  BY <1>1, CalmFacts DEF CallInv
<1>6. record \in Records /\ record.op # "torn" /\ record.ended
  BY <1>5 DEF InsertRecord, Record, Records
<1> HIDE DEF record
<1>7. past.crashes = 0 => \A k \in DOMAIN wal' : wal'[k].op # "torn" /\ wal'[k].ended
  BY <1>1, <1>6, CalmFacts, CoreFacts, CleanLogged DEF DiskInv, Calm, CleanLog
<1>8. ~ past'.torn
  BY <1>3, <1>4, CalmFacts
<1>9. QED
  BY <1>1, <1>2, <1>4, <1>7, <1>8, CalmFacts, MoveCalm

LEMMA LogDeleteCalm ==
  ASSUME OneCalm, NEW c \in Clients, LogDelete(c)
  PROVE  StaysCalm
<1> DEFINE record == DeleteRecord(call[c].id)
<1>1. /\ mode = "up" /\ mode' = "up" /\ call[c].at = "tombstoned"
      /\ snapshotLock' = snapshotLock /\ pending' = pending /\ wal' = Logged(wal, record)
      /\ call' = [call EXCEPT ![c].at = "done"]
  BY DEF LogDelete, At, Goto, startup, counter
<1>2. call'[c].at = "done"
  BY <1>1, CalmFacts, CoreFacts, Moved
<1>3. snapshotLock = None /\ ~ Renumbered
  BY <1>1, CalmFacts DEF CalmCall, Renumbered
<1>4. ~ Early(c)
  BY <1>1, CalmFacts DEF OneCall, OneDisk, Early
<1>5. /\ past'.torn = (past.torn \/ snapshotLock # None \/ Renumbered \/ Early(c))
      /\ past'.numbering = past.numbering /\ past'.stranded = past.stranded
  BY CalmFacts DEF LogDelete, PastInv, IsPast
<1>6. call[c].id \in Nat
  BY CalmFacts DEF CallInv
<1>7. record \in Records /\ record.op # "torn" /\ record.ended
  BY <1>6 DEF DeleteRecord, Record, Records
<1> HIDE DEF record
<1>8. past.crashes = 0 => \A k \in DOMAIN wal' : wal'[k].op # "torn" /\ wal'[k].ended
  BY <1>1, <1>7, CalmFacts, CoreFacts, CleanLogged DEF DiskInv, Calm, CleanLog
<1>9. ~ past'.torn
  BY <1>3, <1>4, <1>5, CalmFacts
<1>10. QED
  BY <1>1, <1>2, <1>5, <1>8, <1>9, CalmFacts, MoveCalm

LEMMA FinishLinkCalm ==
  ASSUME OneCalm, NEW c \in Clients, FinishLink(c)
  PROVE  StaysCalm
<1>1. /\ mode = "up" /\ mode' = "up" /\ call[c].at = "linking"
      /\ snapshotLock' = snapshotLock /\ pending' = pending /\ wal' = wal
      /\ call' = [call EXCEPT ![c].at = "done"]
  BY DEF FinishLink, At, Goto, startup, counter, files
<1>2. call'[c].at = "done"
  BY <1>1, CalmFacts, CoreFacts, Moved
<1>3. OneCore'
  BY CalmFacts, FinishLinkOne
<1>4. Firm(index')
  BY <1>1, <1>2, <1>3 DEF OneCore, OneCall
<1>5. /\ past'.stranded = (past.stranded \/ DeadEntry(index'))
      /\ past'.torn = past.torn /\ past'.numbering = past.numbering
  BY CalmFacts DEF FinishLink, PastInv, IsPast
<1>6. ~ past'.stranded
  BY <1>4, <1>5, CalmFacts DEF Firm
<1>7. QED
  BY <1>1, <1>2, <1>5, <1>6, CalmFacts, MoveCalm

(* The calls that only move, or end, outside of a snapshot.                *)
LEMMA PlainCalm ==
  ASSUME OneCalm, NEW c \in Clients,
         LinkEntryPoint(c) \/ StartLink(c) \/ LinkRaises(c) \/ Close(c) \/ MaybeSnapshot(c)
  PROVE  StaysCalm
<1>1. /\ mode = "up" /\ mode' = "up" /\ call[c].at \in {"toLink", "linking", "idle", "done"}
      /\ snapshotLock' = snapshotLock /\ pending' = pending /\ wal' = wal
      /\ past' = past \/ Return(c)
      /\ \/ \E place \in {"done", "linking", "snapshot"} : call'[c].at = place
         \/ call'[c] = IdleCall
         \/ call'[c] = [IdleCall EXCEPT !.at = "snapshot", !.op = "close"]
  <2>1. CASE LinkEntryPoint(c)
    <3>1. call' = [call EXCEPT ![c].at = "done"]
      BY <2>1 DEF LinkEntryPoint, Goto
    <3>2. call'[c].at = "done"
      BY <3>1, CalmFacts, CoreFacts, Moved
    <3>3. QED
      BY <2>1, <3>2 DEF LinkEntryPoint, At, startup, counter, files
  <2>2. CASE StartLink(c)
    <3>1. call'[c].at = "linking"
      BY <2>2, CalmFacts, CoreFacts DEF StartLink, StartLinkIn, IsCall, CallFields
    <3>2. QED
      BY <2>2, <3>1 DEF StartLink, StartLinkIn, At, startup, counter, files
  <2>3. CASE LinkRaises(c)
    BY <2>3, CalmFacts, CoreFacts DEF LinkRaises, Raise, At, startup, counter, files
  <2>4. CASE Close(c)
    BY <2>4, CalmFacts, CoreFacts DEF Close, Serving, At, startup, counter, files
  <2>5. CASE MaybeSnapshot(c)
    <3>1. /\ mode = "up" /\ mode' = "up" /\ call[c].at = "done"
          /\ snapshotLock' = snapshotLock /\ pending' = pending /\ wal' = wal
          /\ \/ call' = [call EXCEPT ![c].at = "snapshot"] /\ past' = past
             \/ Return(c)
      BY <2>5 DEF MaybeSnapshot, Goto, At, startup, files
    <3>2. CASE call' = [call EXCEPT ![c].at = "snapshot"] /\ past' = past
      <4>1. call'[c].at = "snapshot"
        BY <3>2, CalmFacts, CoreFacts, Moved
      <4>2. QED
        BY <3>1, <3>2, <4>1
    <3>3. CASE Return(c)
      <4>1. call'[c] = IdleCall
        BY <3>3, CalmFacts, CoreFacts DEF Return
      <4>2. QED
        BY <3>1, <3>3, <4>1
    <3>4. QED
      BY <3>1, <3>2, <3>3
  <2>6. QED
    BY <2>1, <2>2, <2>3, <2>4, <2>5
<1>2. call'[c].at # "saved"
  <2>1. /\ IdleCall.at = "idle"
        /\ [IdleCall EXCEPT !.at = "snapshot", !.op = "close"].at = "snapshot"
    BY DEF IdleCall
  <2>2. QED
    BY <1>1, <2>1
<1>3. /\ past'.torn = past.torn /\ past'.stranded = past.stranded
      /\ past'.numbering = past.numbering
  <2>1. CASE Return(c)
    BY <1>1, <2>1, CalmFacts DEF Return, PastInv, IsPast
  <2>2. QED
    BY <1>1, <2>1
<1>4. QED
  BY <1>1, <1>2, <1>3, CalmFacts, MoveCalm

(* The steps of a snapshot.                                                *)
LEMMA CaptureCalm ==
  ASSUME OneCalm, NEW c \in Clients, Capture(c)
  PROVE  StaysCalm
<1>1. /\ mode = "up" /\ mode' = "up" /\ pending' = pending /\ wal' = wal
      /\ call' = [call EXCEPT ![c].at = "captured", ![c].gen = Generation, ![c].image = index]
  BY DEF Capture, CaptureLeaving, At, startup
<1>2. call'[c].at = "captured"
  BY <1>1, CalmFacts, CoreFacts DEF IsCall, CallFields
<1>3. Compacting = {}
  BY CalmFacts DEF Compacting, CallInv
<1>4. /\ past'.torn = (past.torn \/ \E d \in Compacting : call[d].todo # {})
      /\ past'.numbering = past.numbering /\ past'.stranded = past.stranded
  BY CalmFacts DEF Capture, CaptureLeaving, PastInv, IsPast
<1>5. ~ past'.torn
  BY <1>3, <1>4, CalmFacts
<1>6. CalmCall(c)'
  BY <1>2 DEF CalmCall
<1>7. past.crashes = 0 => ~ past'.stranded /\ CleanLog'
  BY <1>1, <1>4, CalmFacts DEF Calm, CleanLog
<1>8. QED
  BY <1>4, <1>5, <1>6, <1>7, CalmFacts DEF StaysCalm, Single

LEMMA SaveCalm ==
  ASSUME OneCalm, NEW c \in Clients, Save(c)
  PROVE  StaysCalm
<1>1. /\ mode = "up" /\ mode' = "up" /\ pending' = pending /\ wal' = wal
      /\ call[c].at = "captured" /\ call' = [call EXCEPT ![c].at = "saved"]
  BY DEF Save, At, Goto, startup
<1>2. call'[c].at = "saved" /\ call'[c].gen = call[c].gen
  BY <1>1, CalmFacts, CoreFacts, Moved
<1>3. call[c].gen = 0
  BY <1>1, CalmFacts DEF CallInv
<1>4. snapshot' = index /\ Firm(index) /\ Formed(index)
  BY CalmFacts, CoreFacts, SaveOne
<1>5. ~ Races(snapshot')
  BY <1>4, FirmHides
<1>6. /\ past'.torn = (past.torn \/ Races(snapshot'))
      /\ past'.numbering = past.numbering /\ past'.stranded = past.stranded
  BY CalmFacts DEF Save, PastInv, IsPast
<1>7. ~ past'.torn
  BY <1>5, <1>6, CalmFacts
<1>8. CalmCall(c)'
  BY <1>2, <1>3 DEF CalmCall
<1>9. past.crashes = 0 => ~ past'.stranded /\ CleanLog'
  BY <1>1, <1>6, CalmFacts DEF Calm, CleanLog
<1>10. QED
  BY <1>6, <1>7, <1>8, <1>9, CalmFacts DEF StaysCalm, Single

LEMMA SaveRaisesCalm ==
  ASSUME OneCalm, NEW c \in Clients, SaveRaises(c)
  PROVE  StaysCalm
<1>1. /\ mode = "up" /\ mode' = "up" /\ pending' = pending /\ wal' = wal
      /\ snapshotLock' = None /\ past' = past /\ call' = [call EXCEPT ![c] = IdleCall]
  BY DEF SaveRaises, Raise, At, startup, files
<1>2. call'[c].at = "idle"
  BY <1>1, CalmFacts, CoreFacts DEF IdleCall
<1>3. CalmCall(c)'
  BY <1>1, <1>2 DEF CalmCall
<1>4. past.crashes = 0 => ~ past'.stranded /\ CleanLog'
  BY <1>1, CalmFacts DEF Calm, CleanLog
<1>5. QED
  BY <1>1, <1>3, <1>4, CalmFacts DEF StaysCalm, Single

LEMMA TruncateCalm ==
  ASSUME OneCalm, NEW c \in Clients, Truncate(c)
  PROVE  StaysCalm
<1>1. /\ mode = "up" /\ pending' = pending /\ wal' = << >> /\ call[c].at = "saved"
      /\ snapshotLock' = None /\ Return(c) /\ call' = [call EXCEPT ![c] = IdleCall]
  BY DEF Truncate, TruncateAndHold, At, Return
<1>2. call'[c].at = "idle"
  BY <1>1, CalmFacts, CoreFacts DEF IdleCall
<1>3. /\ past'.numbering = call[c].gen /\ past'.torn = past.torn
      /\ past'.stranded = past.stranded
  BY <1>1, CalmFacts DEF Return, PastInv, IsPast
<1>4. call[c].gen = 0
  BY <1>1, CalmFacts DEF CalmCall
<1>5. CalmCall(c)'
  BY <1>1, <1>2 DEF CalmCall
<1>6. past.crashes = 0 => ~ past'.stranded /\ CleanLog'
  BY <1>1, <1>3, CalmFacts DEF Calm, CleanLog
<1>7. QED
  BY <1>3, <1>4, <1>5, <1>6, CalmFacts DEF StaysCalm, Single

(* The process: no call is under way while it starts.                      *)
LEMMA IdleCalm ==
  ASSUME OneCalm, mode # "up"
  PROVE  \A c \in Clients : call[c].at = "idle" /\ snapshotLock = None
BY CalmFacts DEF CallInv, CalmCall

LEMMA BootCalm ==
  ASSUME OneCalm, Boot
  PROVE  StaysCalm
<1>1. CASE Start
  <2>1. /\ mode = "down" /\ pending' = wal /\ wal' = wal /\ call' = call
        /\ snapshotLock' = snapshotLock /\ past' = [past EXCEPT !.numbering = 0]
    BY <1>1 DEF Start, files, counter
  <2>2. past'.numbering = 0 /\ past'.torn = past.torn /\ past'.stranded = past.stranded
    BY <2>1, CalmFacts DEF PastInv, IsPast
  <2>3. \A c \in Clients : CalmCall(c)'
    BY <2>1, IdleCalm DEF CalmCall
  <2>4. past.crashes = 0 => ~ past'.stranded /\ CleanLog'
    BY <2>1, <2>2, CalmFacts DEF Calm, CleanLog
  <2>5. QED
    BY <2>2, <2>3, <2>4, CalmFacts DEF StaysCalm
<1>2. CASE Replay
  <2>1. /\ mode = "replay" /\ pending # << >> /\ call' = call /\ snapshotLock' = snapshotLock
    BY <1>2 DEF Replay, counter
  <2>2. past'.numbering = past.numbering /\ past'.torn = past.torn
    BY <1>2, CalmFacts DEF Replay, PastInv, IsPast
  <2>3. \A c \in Clients : CalmCall(c)'
    BY <2>1, IdleCalm DEF CalmCall
  <2>4. past.crashes # 0
    BY <2>1, CalmFacts DEF Calm, CleanLog
  <2>5. QED
    BY <2>2, <2>3, <2>4, CalmFacts DEF StaysCalm
<1>3. CASE ReplayDies
  <2>1. /\ pending # << >> /\ call' = [c \in Clients |-> IdleCall] /\ snapshotLock' = None
        /\ past' = past
    BY <1>3 DEF ReplayDies, Gone
  <2>2. \A c \in Clients : CalmCall(c)'
    BY <2>1 DEF CalmCall, IdleCall
  <2>3. past.crashes # 0
    BY <2>1, CalmFacts DEF Calm, CleanLog
  <2>4. QED
    BY <2>1, <2>2, <2>3, CalmFacts DEF StaysCalm
<1>4. CASE Serve
  <2>1. /\ mode = "replay" /\ pending' = pending /\ wal' = wal /\ call' = call
        /\ snapshotLock' = snapshotLock /\ past' = past /\ mode' = "up"
    BY <1>4 DEF Serve, files, counter
  <2>2. \A c \in Clients : CalmCall(c)'
    BY <2>1, IdleCalm DEF CalmCall
  <2>3. past.crashes = 0 => ~ past'.stranded /\ CleanLog'
    BY <2>1, CalmFacts DEF Calm, CleanLog
  <2>4. QED
    BY <2>1, <2>2, <2>3, CalmFacts DEF StaysCalm
<1>5. QED
  BY <1>1, <1>2, <1>3, <1>4 DEF Boot

LEMMA CrashCalm ==
  ASSUME OneCalm, Crash
  PROVE  /\ ~ past'.torn /\ past'.numbering = 0 /\ past'.crashes = past.crashes + 1
         /\ \A c \in Clients : CalmCall(c)'
<1>1. call' = [c \in Clients |-> IdleCall] /\ snapshotLock' = None
  BY DEF Crash, Gone
<1>2. ~ Mixed /\ ~ Renumbered
  BY CalmFacts DEF Mixed, Renumbered, At, CalmCall
<1>3. CASE past' = [past EXCEPT !.crashes = @ + 1, !.torn = @ \/ Mixed]
  <2>1. /\ past'.torn = (past.torn \/ Mixed) /\ past'.numbering = past.numbering
        /\ past'.crashes = past.crashes + 1
    BY <1>3, CalmFacts DEF PastInv, IsPast
  <2>2. ~ past'.torn
    BY <1>2, <2>1, CalmFacts
  <2>3. QED
    BY <1>1, <2>1, <2>2, CalmFacts DEF CalmCall, IdleCall
<1>4. ASSUME NEW c \in Clients, mode = "up", call[c].at \in {"reserved", "tombstoned"},
             past' = [past EXCEPT
               !.crashes = @ + 1,
               !.logged = IF call[c].op = "insert" THEN @ \cup {call[c].vec} ELSE @,
               !.torn = @ \/ Mixed \/ Renumbered \/ Early(c)]
      PROVE  ~ past'.torn /\ past'.numbering = 0 /\ past'.crashes = past.crashes + 1
  <2>1. /\ past'.torn = (past.torn \/ Mixed \/ Renumbered \/ Early(c))
        /\ past'.numbering = past.numbering /\ past'.crashes = past.crashes + 1
    BY <1>4, CalmFacts DEF PastInv, IsPast
  <2>2. ~ Early(c)
    BY <1>4, CalmFacts DEF OneCall, OneDisk, Early
  <2>3. ~ past'.torn
    BY <1>2, <2>1, <2>2, CalmFacts
  <2>4. QED
    BY <2>1, <2>3, CalmFacts
<1>5. \A c \in Clients : CalmCall(c)'
  BY <1>1 DEF CalmCall, IdleCall
<1>6. QED
  BY <1>3, <1>4, <1>5 DEF Crash, At

(* All steps together.                                                     *)
LEMMA ClientCalm ==
  ASSUME OneCalm, NEW c \in Clients,
         Insert(c) \/ Delete(c) \/ BeginCompact(c) \/ Close(c) \/ Proceed(c)
  PROVE  StaysCalm
<1>1. CallInv(c) /\ Single
  BY CalmFacts
<1>2. ~ BeginCompact(c)
  <2>1. past.compactions \in Nat /\ MaxCompactions = 0
    BY CalmFacts DEF PastInv, Single
  <2>2. ~ (past.compactions < MaxCompactions)
    BY <2>1
  <2>3. QED
    BY <2>2 DEF BeginCompact
<1>3. ~ (Swap(c) \/ Reinsert(c) \/ LogCompact(c) \/ EndBackground(c))
  BY <1>1 DEF Swap, Reinsert, LogCompact, EndBackground, At, CallInv
<1>4. QED
  BY <1>2, <1>3, InsertCalm, DeleteCalm, LogInsertCalm, LogDeleteCalm, FinishLinkCalm, PlainCalm,
     CaptureCalm, SaveCalm, SaveRaisesCalm, TruncateCalm DEF Proceed

LEMMA SameCalm ==
  ASSUME OneCalm, UNCHANGED vars
  PROVE  StaysCalm
<1>1. /\ mode' = mode /\ pending' = pending /\ wal' = wal /\ call' = call /\ past' = past
      /\ snapshotLock' = snapshotLock
  BY DEF vars
<1>2. \A c \in Clients : CalmCall(c)'
  BY <1>1, CalmFacts DEF CalmCall
<1>3. past.crashes = 0 => ~ past'.stranded /\ CleanLog'
  BY <1>1, CalmFacts DEF Calm, CleanLog
<1>4. QED
  BY <1>1, <1>2, <1>3, CalmFacts DEF StaysCalm

LEMMA CalmInit == Init => Calm
BY DEF Init, Calm, CalmCall, CleanLog, IdleCall

LEMMA CalmNext == Single /\ WriteInv /\ FileInv /\ OneInv /\ Calm /\ [Next]_vars => Calm'
<1> SUFFICES ASSUME Single, WriteInv, FileInv, OneInv, Calm, [Next]_vars
             PROVE  Calm'
  OBVIOUS
<1>1. PastInv /\ past.compactions = 0 /\ past.crashes \in Nat
  BY DEF WriteInv, OneInv, Calm
<1>2. past'.crashes \in {past.crashes, past.crashes + 1}
  BY <1>1, Counters DEF Single, Counted
<1>3. past'.crashes \in Nat /\ (past'.crashes = 0 => past.crashes = 0)
  BY <1>1, <1>2
<1>4. CASE past.stranded
  <2>1. ~ ~ past'.stranded
    BY <1>1, <1>4, StrandedStays
  <2>2. past'.crashes # 0
    BY <1>3, <1>4 DEF Calm
  <2>3. QED
    BY <1>3, <2>1, <2>2 DEF Calm
<1>5. CASE ~ past.stranded
  <2>1. OneCalm
    BY <1>1, <1>5 DEF OneCalm, WriteInv, FileInv, OneInv, Quiet, Calm
  <2>2. CASE Crash
    <3>1. /\ ~ past'.torn /\ past'.numbering = 0 /\ past'.crashes = past.crashes + 1
          /\ \A c \in Clients : CalmCall(c)'
      BY <2>1, <2>2, CrashCalm
    <3>2. past'.crashes # 0
      BY <1>1, <3>1
    <3>3. QED
      BY <1>3, <3>1, <3>2 DEF Calm
  <2>3. CASE StaysCalm
    BY <1>3, <2>3 DEF StaysCalm, Calm
  <2>4. ASSUME NEW c \in Clients,
               Insert(c) \/ Delete(c) \/ BeginCompact(c) \/ Close(c) \/ Proceed(c)
        PROVE  StaysCalm
    BY <2>1, <2>4, ClientCalm
  <2>5. QED
    BY <2>1, <2>2, <2>3, <2>4, BootCalm, SameCalm DEF Next
<1>6. QED
  BY <1>4, <1>5

(* What a calm history excuses.                                            *)
LEMMA CalmUndone == Calm => (Undone => past.crashes > 0 /\ (past.stranded \/ Unreadable))
<1> SUFFICES ASSUME Calm, Undone
             PROVE  past.crashes > 0 /\ (past.stranded \/ Unreadable)
  OBVIOUS
<1>1. Mixed => past.stranded
  BY DEF Calm, CalmCall, Mixed, At
<1>2. past.stranded \/ Unreadable
  BY <1>1 DEF Undone, Calm
<1>3. past.crashes # 0
  BY <1>2 DEF Calm, CleanLog, Unreadable
<1>4. past.crashes > 0
  BY <1>3 DEF Calm
<1>5. QED
  BY <1>2, <1>4

(* What one client's database can lose, it loses by a crash: by a line of  *)
(* the log that no start can read, or by a replay that draws other levels  *)
(* and ends with an entry point that hides nodes.  Its snapshots never race*)
(* a write, and no orderly stop does harm (core/database.py:58-95, 151-181)*)
THEOREM OnlyCrashesUndo ==
  Single => (Spec => [](Undone => past.crashes > 0 /\ (past.stranded \/ Unreadable)))
<1> SUFFICES ASSUME Single
             PROVE  Spec => [](Undone => past.crashes > 0 /\ (past.stranded \/ Unreadable))
  OBVIOUS
<1> DEFINE I == WriteInv /\ FileInv /\ OneInv /\ Calm
<1>1. Init => I
  BY WriteInit, FileInit, OneInit, CalmInit
<1>2. I /\ [Next]_vars => I'
  BY WriteNext, FileNext, OneNext, CalmNext
<1>3. I => (Undone => past.crashes > 0 /\ (past.stranded \/ Unreadable))
  BY CalmUndone
<1> HIDE DEF I
<1>4. QED
  BY <1>1, <1>2, <1>3, PTL DEF Spec

(* No crash is counted where none may happen.                              *)
LEMMA NoCrash ==
  Single /\ MaxCrashes = 0 /\ StoreInv /\ past.crashes = 0 /\ [StoreNext]_<<vars, stored>>
    => past'.crashes = 0
<1> SUFFICES ASSUME Single, MaxCrashes = 0, StoreInv, past.crashes = 0,
                    [StoreNext]_<<vars, stored>>
             PROVE  past'.crashes = 0
  OBVIOUS
<1>1. [Next]_vars /\ PastInv /\ past.compactions = 0
  BY DEF StoreNext, vars, StoreInv, WriteInv, OneInv
<1>2. ~ Crash
  BY DEF Crash
<1>3. QED
  BY <1>1, <1>2, Counters DEF Single, Counted

(* As long as it is only ever stopped by close(), one client's database is *)
(* a durable store without any exception: through snapshots, truncations   *)
(* and any number of restarts (core/database.py:58-135, 151-181).          *)
THEOREM StoreIsDurableWithoutCrashes ==
  Single /\ MaxCrashes = 0 => (StoreSpec => Store!Spec)
<1> SUFFICES ASSUME Single, MaxCrashes = 0
             PROVE  StoreSpec => Store!Spec
  OBVIOUS
<1> DEFINE I == StoreInv /\ Calm /\ past.crashes = 0
<1>1. StoreInit => I
  BY StoreInvInit, CalmInit DEF StoreInit, Init
<1>2. I /\ [StoreNext]_<<vars, stored>> => I'
  <2>1. [StoreNext]_<<vars, stored>> => [Next]_vars
    BY DEF StoreNext, vars
  <2>2. QED
    BY <2>1, StoreInvNext, CalmNext, NoCrash DEF StoreInv
<1>3. I => ~ Undone
  BY CalmUndone
<1>4. I /\ I' /\ [StoreNext]_<<vars, stored>> => [Store!Next]_(Store!vars)
  <2>1. I' => ~ Undone'
    BY <1>3, PTL
  <2>2. QED
    BY <1>3, <2>1, StoreStep
<1> HIDE DEF I
<1>5. QED
  BY <1>1, <1>2, <1>4, StoreBegins, PTL DEF StoreSpec, Store!Spec
=============================================================================
