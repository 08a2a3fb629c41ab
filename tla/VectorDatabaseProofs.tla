------------------------ MODULE VectorDatabaseProofs ------------------------
(***************************************************************************)
(* Proofs about VectorDatabase, for any number of clients, vectors, levels *)
(* and crashes, with and without torn log lines, in four parts.            *)
(*                                                                         *)
(* Reads and ids: what a search returns is on disk, and an id that         *)
(* insert() has returned denotes its vector for ever, through every        *)
(* snapshot, crash and replay.                                             *)
(*                                                                         *)
(* Writes: every acknowledged write survives, and a crash between the      *)
(* rename of a snapshot and the truncation of the log does no harm.  Both  *)
(* parts are stated for histories without a compaction in which no         *)
(* snapshot races a write.                                                 *)
(*                                                                         *)
(* Compaction: it loses no acknowledged insert and brings back no deleted  *)
(* vector, in histories in which no write is in progress when the graphs   *)
(* are swapped.                                                            *)
(*                                                                         *)
(* Types: of every variable, in every history.                             *)
(***************************************************************************)
EXTENDS VectorDatabase, IndexStoreProofs

(* The ids and vectors of the insert records of a log, against an index.   *)
Inserts(log) == {<<log[k].id, log[k].vec>> : k \in {j \in DOMAIN log : log[j].op = "insert"}}

(* The log has a line on which the replay raises.                          *)
Torn(log) == \E k \in DOMAIN log : log[k].op = "torn"

(* No id is given to two vectors.                                          *)
OneEach(P) == \A p, q \in P : p[1] = q[1] => p[2] = q[2]

(* What insert() has promised: the ids it has returned, and those it will. *)
Told == {<<past.acked[v], v>> : v \in {w \in Vectors : past.acked[w] # None}}
Promised == {<<call[c].id, call[c].vec>> : c \in
               {d \in Clients : call[d].op = "insert" /\ call[d].at \notin {"idle", "reserved"}}}
Kept == Told \cup Promised

(* The vectors a search may return.                                        *)
Open == past.logged \cup past.seeds

(* No snapshot has raced a write, and compact() was never called.          *)
Quiet == ~ past.torn /\ past.compactions = 0

(* The fields of a call.                                                   *)
CallFields == {"at", "op", "id", "vec", "gen", "chosen", "level", "top", "image", "rows", "todo"}
IsCall(k) == k = [f \in CallFields |-> k[f]]

(* The fields of `past`, and of those the theorems read.                   *)
IsPast(p) ==
  p = [submitted |-> p.submitted, seeds |-> p.seeds, logged |-> p.logged, acked |-> p.acked,
       erasing |-> p.erasing, erased |-> p.erased, torn |-> p.torn, stranded |-> p.stranded,
       crossed |-> p.crossed, numbering |-> p.numbering, crashes |-> p.crashes,
       compactions |-> p.compactions]

PastInv == IsPast(past) /\ past.torn \in BOOLEAN /\ past.compactions \in Nat

(* The two files, of which the next start makes an index.                  *)
DiskInv ==
  /\ wal \in Seq(Records)
  /\ Formed(snapshot) /\ Shown(snapshot, Open)
  /\ OneEach(Inserts(wal)) /\ Agrees(snapshot, Inserts(wal))
  /\ \A p \in Inserts(wal) : p[2] \in past.logged
  /\ Torn(wal) \/ \A p \in Kept : Holds(snapshot, p[1], p[2]) \/ p \in Inserts(wal)

(* Memory shows only what is open, and holds what is on disk or promised.  *)
MemoryInv ==
  /\ retired = << >>
  /\ Formed(index) /\ Shown(index, Open)
  /\ mode = "up" => /\ Keeps(snapshot, index)
                    /\ HoldsAll(index, Inserts(wal)) /\ HoldsAll(index, Kept)

(* Each record of the log is in the index or still to be replayed.         *)
Rest == {pending[j] : j \in DOMAIN pending}

ReplayInv ==
  mode = "replay" =>
    /\ pending \in Seq(Records)
    /\ Keeps(snapshot, index) /\ Agrees(index, Inserts(wal))
    /\ Rest \subseteq {wal[k] : k \in DOMAIN wal}
    /\ \A k \in DOMAIN wal :
         \/ wal[k] \in Rest
         \/ wal[k].op # "torn" /\ (wal[k].op = "insert" => Holds(index, wal[k].id, wal[k].vec))

(* What a call knows at each place.                                        *)
CallInv(c) ==
  LET k == call[c] IN
  /\ IsCall(k) /\ k.id \in Nat
  /\ mode # "up" => k.at = "idle"
  /\ k.at # "rebuilding" /\ k.op \notin {"compact", "background"} /\ k.todo = {}
  /\ k.at \in {"reserved", "toLink", "linking"} => k.op = "insert"
  /\ k.at = "tombstoned" => k.op = "delete"
  /\ k.at = "reserved" => Holds(index, k.id, k.vec)
  /\ k.at # "idle" /\ k.op = "insert" => k.vec \in Vectors
  /\ k.at \in {"toLink", "linking"} => k.vec \in past.logged
  /\ k.at = "linking" => \A i \in k.chosen : i \in DOMAIN index.nodes /\ index.vectors[i] \in Open
  /\ k.at = "captured" => /\ k.gen = 0
                          /\ Formed(k.image) /\ Shown(k.image, Open) /\ Newer(k.image, index)
  /\ k.at = "saved" => HoldsAll(snapshot, Kept)
  /\ k.at \in {"captured", "saved"} => snapshotLock = c
  /\ k.op = "close" => \A d \in Clients \ {c} : call[d].at = "idle"

(* The inductive invariant: its core holds as long as history is quiet.    *)
Core ==
  /\ past.acked \in [Vectors -> Nat \cup {None}]
  /\ call = [c \in Clients |-> call[c]]
  /\ DiskInv /\ MemoryInv /\ ReplayInv
  /\ \A c \in Clients : CallInv(c)

WriteInv == PastInv /\ (Quiet => Core)
-----------------------------------------------------------------------------
-----------------------------------------------------------------------------
(* The log                                                                 *)

(* What a record inserts, if it is an insert.                              *)
Inserted(record) == {p \in {<<record.id, record.vec>>} : record.op = "insert"}

(* A record at the end of the log.                                         *)
LEMMA AppendedRecords ==
  ASSUME NEW log \in Seq(Records), NEW record \in Records
  PROVE  /\ Append(log, record) \in Seq(Records)
         /\ Inserts(Append(log, record)) = Inserts(log) \cup Inserted(record)
         /\ Torn(Append(log, record)) <=> Torn(log) \/ record.op = "torn"
<1> DEFINE n == Len(log)
           a == Append(log, record)
<1>1. /\ n \in Nat /\ DOMAIN log = 1..n /\ a \in Seq(Records)
      /\ DOMAIN a = 1..(n + 1) /\ a[n + 1] = record /\ \A k \in 1..n : a[k] = log[k]
  OBVIOUS
<1> HIDE DEF n, a
<1>2. /\ \A k \in 1..(n + 1) : k \in 1..n \/ k = n + 1
      /\ n + 1 \in 1..(n + 1) /\ \A k \in 1..n : k \in 1..(n + 1)
  BY <1>1
<1>3. Inserts(a) = Inserts(log) \cup Inserted(record)
  <2>1. ASSUME NEW p \in Inserts(a)
        PROVE  p \in Inserts(log) \cup Inserted(record)
    <3>1. PICK k \in DOMAIN a : a[k].op = "insert" /\ p = <<a[k].id, a[k].vec>>
      BY DEF Inserts
    <3>2. QED
      BY <3>1, <1>1, <1>2 DEF Inserts, Inserted
  <2>2. ASSUME NEW p \in Inserts(log)
        PROVE  p \in Inserts(a)
    <3>1. PICK k \in DOMAIN log : log[k].op = "insert" /\ p = <<log[k].id, log[k].vec>>
      BY DEF Inserts
    <3>2. QED
      BY <3>1, <1>1, <1>2 DEF Inserts
  <2>3. ASSUME NEW p \in Inserted(record)
        PROVE  p \in Inserts(a)
    BY <1>1, <1>2 DEF Inserts, Inserted
  <2>4. QED
    BY <2>1, <2>2, <2>3
<1>4. Torn(a) <=> Torn(log) \/ record.op = "torn"
  BY <1>1, <1>2 DEF Torn
<1>5. QED
  BY <1>1, <1>3, <1>4 DEF a

(* The log without its last line.                                          *)
LEMMA FrontRecords ==
  ASSUME NEW log \in Seq(Records), log # << >>
  PROVE  Front(log) \in Seq(Records) /\ Inserts(Front(log)) \subseteq Inserts(log)
<1> DEFINE n == Len(log)
           f == Front(log)
<1>1. /\ n \in Nat /\ n # 0 /\ DOMAIN log = 1..n /\ f \in Seq(Records)
      /\ DOMAIN f = 1..(n - 1) /\ \A k \in 1..(n - 1) : f[k] = log[k]
  BY DEF Front
<1> HIDE DEF n, f
<1>2. \A k \in 1..(n - 1) : k \in 1..n
  BY <1>1
<1>3. Inserts(f) \subseteq Inserts(log)
  BY <1>1, <1>2 DEF Inserts
<1>4. QED
  BY <1>1, <1>3 DEF f

(* A log write adds its record, unless it spoils a line: then the log      *)
(* cannot be read.                                                         *)
LEMMA LoggedRecords ==
  ASSUME NEW log \in Seq(Records), NEW record \in Records
  PROVE  /\ Logged(log, record) \in Seq(Records)
         /\ Inserts(Logged(log, record)) \subseteq Inserts(log) \cup Inserted(record)
         /\ Torn(log) => Torn(Logged(log, record))
         /\ \/ Torn(Logged(log, record))
            \/ Inserts(log) \cup Inserted(record) \subseteq Inserts(Logged(log, record))
<1>1. TornRecord \in Records /\ TornRecord.op = "torn" /\ Inserted(TornRecord) = {}
  BY DEF TornRecord, Record, Records, Inserted
<1>2. CASE log # << >> /\ ~ Last(log).ended
  <2>1. Logged(log, record) = Append(Front(log), TornRecord)
    BY <1>2 DEF Logged
  <2>2. Front(log) \in Seq(Records) /\ Inserts(Front(log)) \subseteq Inserts(log)
    BY <1>2, FrontRecords
  <2>3. QED
    BY <2>1, <2>2, <1>1, AppendedRecords
<1>3. CASE ~ (log # << >> /\ ~ Last(log).ended)
  <2>1. Logged(log, record) = Append(log, record)
    BY <1>3 DEF Logged
  <2>2. QED
    BY <2>1, AppendedRecords
<1>4. QED
  BY <1>2, <1>3

(* What shows only V shows only more than V.                               *)
LEMMA ShownMore ==
  ASSUME NEW ix, NEW V, NEW W, Shown(ix, V), V \subseteq W
  PROVE  Shown(ix, W)
BY DEF Shown

(* What is known of the disk survives a step that leaves the files alone   *)
(* and promises nothing new.                                               *)
LEMMA DiskKept ==
  ASSUME DiskInv, UNCHANGED files, past.logged \subseteq past'.logged,
         Open \subseteq Open', Kept' \subseteq Kept
  PROVE  DiskInv'
<1>1. wal' = wal /\ snapshot' = snapshot
  BY DEF files
<1>2. Shown(snapshot, Open')
  BY ShownMore DEF DiskInv
<1>3. QED
  BY <1>1, <1>2 DEF DiskInv

(* It survives the write of a record, also if that is cut short.           *)
LEMMA DiskWritten ==
  ASSUME DiskInv, MemoryInv, mode = "up", NEW record \in Records,
         wal' = Logged(wal, record), snapshot' = snapshot,
         past.logged \subseteq past'.logged, Open \subseteq Open',
         record.op = "insert" => /\ Holds(index, record.id, record.vec)
                                 /\ record.vec \in past'.logged,
         Kept' \subseteq Kept \cup Inserted(record)
  PROVE  DiskInv'
<1> DEFINE L == Inserts(wal)
           M == Inserts(wal')
           N == Inserted(record)
           s == snapshot
<1>1. /\ wal \in Seq(Records) /\ Formed(s) /\ OneEach(L) /\ Agrees(s, L)
      /\ \A p \in L : p[2] \in past.logged
      /\ Torn(wal) \/ \A p \in Kept : Holds(s, p[1], p[2]) \/ p \in L
  BY DEF DiskInv
<1>2. Keeps(s, index) /\ HoldsAll(index, L)
  BY DEF MemoryInv
<1>3. /\ wal' \in Seq(Records) /\ M \subseteq L \cup N
      /\ Torn(wal) => Torn(wal')
      /\ Torn(wal') \/ L \cup N \subseteq M
  BY <1>1, LoggedRecords
<1>4. Shown(s, Open')
  BY ShownMore DEF DiskInv
<1>5. \A p \in N : Holds(index, p[1], p[2]) /\ p[2] \in past'.logged
  BY DEF Inserted
<1>6. Kept' \subseteq Kept \cup N
  OBVIOUS
<1> HIDE DEF L, M, N, s
<1>7. \A p \in M : Holds(index, p[1], p[2])
  BY <1>2, <1>3, <1>5 DEF HoldsAll
<1>8. OneEach(M)
  BY <1>7 DEF OneEach, Holds
<1>9. Agrees(s, M)
  BY <1>2, <1>7 DEF Agrees, Keeps, Holds
<1>10. \A p \in M : p[2] \in past'.logged
  BY <1>1, <1>3, <1>5
<1>11. Torn(wal') \/ \A p \in Kept' : Holds(s, p[1], p[2]) \/ p \in M
  BY <1>1, <1>3, <1>6
<1>12. QED
  BY <1>1, <1>3, <1>4, <1>8, <1>9, <1>10, <1>11 DEF DiskInv, M, s

-----------------------------------------------------------------------------
(* One call moves, the others wait                                         *)

(* What a call has promised.                                               *)
Own(k) == {p \in {<<k.id, k.vec>>} : k.op = "insert" /\ k.at \notin {"idle", "reserved"}}

(* What a call has promised is among what is kept.                         *)
LEMMA OwnIsKept ==
  ASSUME NEW c \in Clients
  PROVE  Own(call[c]) \subseteq Kept
BY DEF Own, Kept, Promised

(* Nothing is promised but by the call that moves.                         *)
LEMMA KeptAfter ==
  ASSUME call = [d \in Clients |-> call[d]], NEW c \in Clients, NEW k,
         call' = [call EXCEPT ![c] = k], past'.acked = past.acked
  PROVE  Kept' \subseteq Kept \cup Own(k)
<1>1. Told' = Told
  BY DEF Told
<1>2. call'[c] = k /\ \A d \in Clients : d # c => call'[d] = call[d]
  OBVIOUS
<1>3. ASSUME NEW p \in Promised'
      PROVE  p \in Promised \cup Own(k)
  <2>1. PICK d \in Clients : /\ call'[d].op = "insert" /\ call'[d].at \notin {"idle", "reserved"}
                             /\ p = <<call'[d].id, call'[d].vec>>
    BY DEF Promised
  <2>2. CASE d = c
    BY <2>1, <2>2, <1>2 DEF Own
  <2>3. CASE d # c
    BY <2>1, <2>3, <1>2 DEF Promised
  <2>4. QED
    BY <2>2, <2>3
<1>4. QED
  BY <1>1, <1>3 DEF Kept

(* While a call moves, no other one is a close().                          *)
LEMMA NotClosing ==
  ASSUME Core, NEW c \in Clients, call[c].at # "idle"
  PROVE  \A d \in Clients \ {c} : call[d].op # "close"
BY DEF Core, CallInv

(* A call that waits stays right when the index grows.                     *)
LEMMA OtherStays ==
  ASSUME NEW d \in Clients, CallInv(d), mode = "up", call'[d] = call[d],
         Formed(index), Formed(index'), Newer(index, index'),
         past.logged \subseteq past'.logged, Open \subseteq Open',
         mode' # "up" => call[d].at = "idle",
         call[d].at = "saved" => HoldsAll(snapshot', Kept'),
         call[d].at \in {"captured", "saved"} => snapshotLock' = d,
         call[d].op = "close" => \A e \in Clients \ {d} : call'[e].at = "idle"
  PROVE  CallInv(d)'
<1> DEFINE k == call[d]
<1>1. /\ IsCall(k) /\ k.id \in Nat
      /\ k.at # "rebuilding" /\ k.op \notin {"compact", "background"} /\ k.todo = {}
      /\ k.at \in {"reserved", "toLink", "linking"} => k.op = "insert"
      /\ k.at = "tombstoned" => k.op = "delete"
      /\ k.at # "idle" /\ k.op = "insert" => k.vec \in Vectors
      /\ k.at \in {"toLink", "linking"} => k.vec \in past.logged
  BY DEF CallInv
<1>2. /\ k.at = "reserved" => Holds(index, k.id, k.vec)
      /\ k.at = "linking" => \A i \in k.chosen : i \in DOMAIN index.nodes /\ index.vectors[i] \in Open
      /\ k.at = "captured" => /\ k.gen = 0
                              /\ Formed(k.image) /\ Shown(k.image, Open) /\ Newer(k.image, index)
  BY DEF CallInv
<1> HIDE DEF k
<1>3. Keeps(index, index')
  BY DEF Newer
<1>4. k.at = "reserved" => Holds(index', k.id, k.vec)
  BY <1>2, <1>3, HeldIsKept
<1>5. k.at = "linking" =>
        \A i \in k.chosen : i \in DOMAIN index'.nodes /\ index'.vectors[i] \in Open'
  BY <1>2, <1>3 DEF Keeps, Holds
<1>6. k.at = "captured" => Shown(k.image, Open')
  BY <1>2, ShownMore
<1>7. k.at = "captured" => Newer(k.image, index')
  <2>1. \A ix : Formed(ix) => ix.nextId \in Nat /\ DOMAIN ix.nodes \subseteq Nat
    BY DEF Formed
  <2>2. QED
    BY <2>1, <1>2, NewerTwice
<1>8. call'[d] = k
  BY DEF k
<1>9. /\ mode' # "up" => k.at = "idle"
      /\ k.at = "saved" => HoldsAll(snapshot', Kept')
      /\ k.at \in {"captured", "saved"} => snapshotLock' = d
      /\ k.op = "close" => \A e \in Clients \ {d} : call'[e].at = "idle"
  BY DEF k
<1>10. QED
  BY <1>1, <1>2, <1>4, <1>5, <1>6, <1>7, <1>8, <1>9 DEF CallInv

(* A step of the call c while the database is up.                          *)
LEMMA CoreStep ==
  ASSUME Core, mode = "up", NEW c \in Clients, NEW k, call' = [call EXCEPT ![c] = k],
         retired' = retired, DiskInv',
         Formed(index'), Shown(index', Open'), Newer(index, index'),
         mode' = "up" => /\ Keeps(snapshot', index')
                         /\ HoldsAll(index', Inserts(wal')) /\ HoldsAll(index', Kept'),
         mode' # "up" => \A d \in Clients \ {c} : call[d].at = "idle",
         mode' # "replay",
         past.logged \subseteq past'.logged, Open \subseteq Open',
         past'.acked \in [Vectors -> Nat \cup {None}],
         \A d \in Clients \ {c} :
           /\ call[d].at = "saved" => HoldsAll(snapshot', Kept')
           /\ call[d].at \in {"captured", "saved"} => snapshotLock' = d
           /\ call[d].op = "close" => k.at = "idle",
         CallInv(c)'
  PROVE  Core'
<1>1. /\ call = [d \in Clients |-> call[d]] /\ \A d \in Clients : CallInv(d)
      /\ MemoryInv
  BY DEF Core
<1>2. call'[c] = k /\ \A d \in Clients : d # c => call'[d] = call[d]
  BY <1>1
<1>3. call' = [d \in Clients |-> call'[d]]
  BY <1>1
<1>4. Formed(index)
  BY <1>1 DEF MemoryInv
<1>5. ASSUME NEW d \in Clients, d # c
      PROVE  CallInv(d)'
  <2>1. call[d].op = "close" => \A e \in Clients \ {d} : call'[e].at = "idle"
    BY <1>1, <1>2, <1>5 DEF CallInv
  <2>2. CallInv(d) /\ call'[d] = call[d]
    BY <1>1, <1>2, <1>5
  <2>3. /\ mode' # "up" => call[d].at = "idle"
        /\ call[d].at = "saved" => HoldsAll(snapshot', Kept')
        /\ call[d].at \in {"captured", "saved"} => snapshotLock' = d
    BY <1>5
  <2>4. QED
    BY <2>1, <2>2, <2>3, <1>4, OtherStays
<1>6. MemoryInv'
  BY <1>1 DEF MemoryInv
<1>7. ReplayInv'
  BY DEF ReplayInv
<1>8. QED
  BY <1>3, <1>5, <1>6, <1>7 DEF Core

(* A step in memory only, that promises nothing new.                       *)
LEMMA QuietStep ==
  ASSUME Core, mode = "up", NEW c \in Clients, NEW k, call' = [call EXCEPT ![c] = k],
         UNCHANGED <<retired, files, mode, snapshotLock>>,
         Formed(index'), Shown(index', Open'), Newer(index, index'),
         past.logged \subseteq past'.logged, Open \subseteq Open',
         past'.acked \in [Vectors -> Nat \cup {None}], Kept' \subseteq Kept,
         \A d \in Clients \ {c} : call[d].op = "close" => k.at = "idle",
         CallInv(c)'
  PROVE  Core'
<1>1. /\ DiskInv /\ MemoryInv /\ \A d \in Clients : CallInv(d)
  BY DEF Core
<1>2. /\ mode' = "up" /\ retired' = retired /\ wal' = wal /\ snapshot' = snapshot
      /\ snapshotLock' = snapshotLock
  BY DEF files
<1>3. DiskInv'
  BY <1>1, DiskKept
<1>4. /\ Keeps(snapshot, index')
      /\ HoldsAll(index', Inserts(wal)) /\ HoldsAll(index', Kept)
  <2>1. /\ Keeps(snapshot, index)
        /\ HoldsAll(index, Inserts(wal)) /\ HoldsAll(index, Kept)
    BY <1>1 DEF MemoryInv
  <2>2. Keeps(index, index')
    BY DEF Newer
  <2>3. QED
    BY <2>1, <2>2, KeepsTwice, HeldIsKept
<1>5. HoldsAll(index', Kept')
  BY <1>4 DEF HoldsAll
<1>6. \A d \in Clients \ {c} :
        /\ call[d].at = "saved" => HoldsAll(snapshot, Kept')
        /\ call[d].at \in {"captured", "saved"} => snapshotLock' = d
  BY <1>1, <1>2 DEF CallInv, HoldsAll
<1>7. QED
  BY <1>2, <1>3, <1>4, <1>5, <1>6, CoreStep

-----------------------------------------------------------------------------
(* The history: it forgets nothing, so what was quiet so far was so always *)

(* What every step does to the history.                                    *)
Later == /\ PastInv' /\ (Quiet' => Quiet)
         /\ past.logged \subseteq past'.logged /\ past.seeds \subseteq past'.seeds

(* The vectors a search may return become more.                            *)
LEMMA LaterIsMore ==
  ASSUME Later
  PROVE  Open \subseteq Open'
BY DEF Later, Open

(* A step that is no part of the history.                                  *)
LEMMA SamePast ==
  ASSUME PastInv, past' = past
  PROVE  Later /\ past'.acked = past.acked
BY DEF PastInv, Later, Quiet, IsPast

(* A call that returns.                                                    *)
LEMMA ReturnPast ==
  ASSUME PastInv, NEW c, Return(c)
  PROVE  Later
BY DEF PastInv, Later, Quiet, IsPast, Return

(* The steps of a write add to the history and tell the caller nothing.    *)
LEMMA WritePast ==
  ASSUME PastInv, NEW c \in Clients,
         Insert(c) \/ LogInsert(c) \/ Delete(c) \/ LogDelete(c) \/ FinishLink(c)
           \/ Capture(c) \/ Save(c)
  PROVE  Later /\ past'.acked = past.acked
<1>1. CASE Insert(c)
  BY <1>1 DEF Insert, PastInv, Later, Quiet, IsPast
<1>2. CASE LogInsert(c)
  BY <1>2 DEF LogInsert, PastInv, Later, Quiet, IsPast
<1>3. CASE Delete(c)
  <2>1. PICK id : past' = [past EXCEPT !.erasing = @ \cup {Row(index, id)},
                                       !.seeds = @ \cup Seeded,
                                       !.stranded = @ \/ (id = index.entryPoint /\ BareEntry(index')),
                                       !.crossed = @ \/ Compacting # {}]
    BY <1>3 DEF Delete
  <2>2. QED
    BY <2>1 DEF PastInv, Later, Quiet, IsPast
<1>4. CASE LogDelete(c)
  BY <1>4 DEF LogDelete, PastInv, Later, Quiet, IsPast
<1>5. CASE FinishLink(c)
  BY <1>5 DEF FinishLink, PastInv, Later, Quiet, IsPast
<1>6. CASE Save(c)
  BY <1>6 DEF Save, PastInv, Later, Quiet, IsPast
<1>7. CASE Capture(c)
  BY <1>7 DEF Capture, CaptureLeaving, PastInv, Later, Quiet, IsPast
<1>8. QED
  BY <1>1, <1>2, <1>3, <1>4, <1>5, <1>6, <1>7

(* A compaction is not quiet.                                              *)
LEMMA CompactPast ==
  ASSUME PastInv, NEW c \in Clients
  PROVE  /\ BeginCompact(c) => Later /\ ~ Quiet'
         /\ Swap(c) => Later
<1>1. ASSUME BeginCompact(c)
      PROVE  Later /\ ~ Quiet'
  <2>1. PICK x : past' = [past EXCEPT !.compactions = @ + 1, !.crossed = x]
    BY <1>1 DEF BeginCompact
  <2>2. /\ IsPast(past)' /\ past'.compactions = past.compactions + 1 /\ past'.torn = past.torn
        /\ past'.logged = past.logged /\ past'.seeds = past.seeds
    BY <2>1 DEF PastInv, IsPast
  <2>3. QED
    BY <2>2 DEF PastInv, Later, Quiet
<1>2. ASSUME Swap(c)
      PROVE  Later
  <2>1. PICK x : past' = [past EXCEPT !.crossed = x]
    BY <1>2 DEF Swap
  <2>2. QED
    BY <2>1 DEF PastInv, Later, Quiet, IsPast
<1>3. QED
  BY <1>1, <1>2

(* So do a crash, a start and a replay.                                    *)
LEMMA ProcessPast ==
  ASSUME PastInv, Crash \/ Start \/ Replay
  PROVE  Later /\ past'.acked = past.acked
<1>1. CASE Crash
  <2>1. PICK x, y : past' = [past EXCEPT !.crashes = @ + 1, !.logged = @ \cup x,
                                          !.torn = @ \/ y]
    <3>1. CASE past' = [past EXCEPT !.crashes = @ + 1, !.torn = @ \/ Mixed]
      <4>1. past' = [past EXCEPT !.crashes = @ + 1, !.logged = @ \cup {}, !.torn = @ \/ Mixed]
        BY <3>1 DEF PastInv, IsPast
      <4>2. QED
        BY <4>1
    <3>2. CASE \E c \in Clients :
                 past' = [past EXCEPT
                   !.crashes = @ + 1,
                   !.logged = IF call[c].op = "insert" THEN @ \cup {call[c].vec} ELSE @,
                   !.torn = @ \/ Mixed \/ Renumbered \/ Early(c)]
      <4>1. PICK c \in Clients :
                 past' = [past EXCEPT
                   !.crashes = @ + 1,
                   !.logged = IF call[c].op = "insert" THEN @ \cup {call[c].vec} ELSE @,
                   !.torn = @ \/ Mixed \/ Renumbered \/ Early(c)]
        BY <3>2
      <4> DEFINE x == IF call[c].op = "insert" THEN {call[c].vec} ELSE {}
      <4>2. past' = [past EXCEPT !.crashes = @ + 1, !.logged = @ \cup x,
                                 !.torn = @ \/ (Mixed \/ Renumbered \/ Early(c))]
        BY <4>1 DEF PastInv, IsPast
      <4>3. QED
        BY <4>2
    <3>3. QED
      BY <1>1, <3>1, <3>2 DEF Crash
  <2>2. /\ IsPast(past)' /\ past'.compactions = past.compactions /\ past'.torn = (past.torn \/ y)
        /\ past'.logged = past.logged \cup x /\ past'.seeds = past.seeds
        /\ past'.acked = past.acked
    BY <2>1 DEF PastInv, IsPast
  <2>3. QED
    BY <2>2 DEF PastInv, Later, Quiet
<1>2. CASE Replay
  BY <1>2 DEF Replay, PastInv, Later, Quiet, IsPast
<1>3. CASE Start
  BY <1>3 DEF Start, PastInv, Later, Quiet, IsPast
<1>4. QED
  BY <1>1, <1>2, <1>3

-----------------------------------------------------------------------------
(* The steps of a call                                                     *)

(* An idle call knows nothing that could be wrong.                         *)
LEMMA IdleIsRight ==
  ASSUME NEW c \in Clients, call'[c] = IdleCall
  PROVE  CallInv(c)'
<1>1. /\ IsCall(IdleCall) /\ IdleCall.id = 0 /\ IdleCall.vec = Zero /\ IdleCall.at = "idle"
      /\ IdleCall.op = "none" /\ IdleCall.todo = {}
  BY DEF IdleCall, IsCall, CallFields
<1>2. QED
  BY <1>1 DEF CallInv

(* The parts of the invariant, for citing.                                 *)
LEMMA CoreFacts ==
  ASSUME Core
  PROVE  /\ call = [d \in Clients |-> call[d]] /\ past.acked \in [Vectors -> Nat \cup {None}]
         /\ DiskInv /\ MemoryInv /\ ReplayInv
         /\ Formed(index) /\ Shown(index, Open) /\ Newer(index, index)
         /\ \A c \in Clients : CallInv(c) /\ IsCall(call[c])
<1>1. Formed(index) /\ Shown(index, Open)
  BY DEF Core, MemoryInv
<1>2. Same(index, index) /\ index.nextId \in Nat
  BY <1>1 DEF Same, Formed
<1>3. Newer(index, index)
  BY <1>2, SameIsNewer
<1>4. QED
  BY <1>1, <1>3 DEF Core, CallInv

(* A call goes to another place: what it holds stays the same.             *)
LEMMA Moved ==
  ASSUME NEW k, IsCall(k), NEW place
  PROVE  LET m == [k EXCEPT !.at = place] IN
         /\ IsCall(m) /\ m.at = place
         /\ m.op = k.op /\ m.id = k.id /\ m.vec = k.vec /\ m.gen = k.gen /\ m.chosen = k.chosen
         /\ m.image = k.image /\ m.todo = k.todo
BY DEF IsCall, CallFields

(* It promises nothing new, once its record is written.                    *)
LEMMA MovedKept ==
  ASSUME Core, NEW c \in Clients, NEW k, call' = [call EXCEPT ![c] = k],
         past'.acked = past.acked, call[c].at \notin {"idle", "reserved"},
         k.id = call[c].id, k.vec = call[c].vec, k.op = call[c].op
  PROVE  Kept' \subseteq Kept
<1>1. Kept' \subseteq Kept \cup Own(k)
  BY CoreFacts, KeptAfter
<1>2. Own(k) \subseteq Own(call[c])
  BY DEF Own
<1>3. QED
  BY <1>1, <1>2, OwnIsKept

(* A call that ends promises nothing any more, and tells nothing else.     *)
LEMMA EndedKept ==
  ASSUME Core, NEW c \in Clients, call' = [call EXCEPT ![c] = IdleCall],
         past'.acked = past.acked
  PROVE  Kept' \subseteq Kept
<1>1. Kept' \subseteq Kept \cup Own(IdleCall)
  BY CoreFacts, KeptAfter
<1>2. Own(IdleCall) = {}
  BY DEF Own, IdleCall
<1>3. QED
  BY <1>1, <1>2

(* A call that returns tells what it had promised.                         *)
LEMMA ReturnedKept ==
  ASSUME Core, PastInv, NEW c \in Clients, Return(c), call[c].at \notin {"idle", "reserved"}
  PROVE  /\ Kept' \subseteq Kept
         /\ past'.acked \in [Vectors -> Nat \cup {None}]
         /\ call' = [call EXCEPT ![c] = IdleCall]
<1> DEFINE told == [v \in Vectors |-> IF call[c].op = "insert" /\ v = call[c].vec
                                      THEN call[c].id ELSE past.acked[v]]
<1>1. call' = [call EXCEPT ![c] = IdleCall] /\ past'.acked = told
  BY DEF Return, PastInv, IsPast
<1>2. /\ call = [d \in Clients |-> call[d]] /\ past.acked \in [Vectors -> Nat \cup {None}]
      /\ call[c].id \in Nat
  BY CoreFacts DEF CallInv
<1>3. told \in [Vectors -> Nat \cup {None}]
  BY <1>2
<1>4. Told' \subseteq Told \cup Own(call[c])
  BY <1>1 DEF Told, Own
<1>5. Promised' \subseteq Promised
  <2>1. call'[c].op # "insert" /\ \A d \in Clients : d # c => call'[d] = call[d]
    BY <1>1, <1>2 DEF IdleCall
  <2>2. QED
    BY <2>1 DEF Promised
<1>6. QED
  BY <1>1, <1>3, <1>4, <1>5, OwnIsKept DEF Kept

(* A step that moves nothing but the call.                                 *)
LEMMA MoveStep ==
  ASSUME Core, mode = "up", NEW c \in Clients, NEW place,
         call' = [call EXCEPT ![c] = [call[c] EXCEPT !.at = place]],
         UNCHANGED <<memory, files, mode, snapshotLock, past>>,
         call[c].at \notin {"idle", "reserved"}, CallInv(c)'
  PROVE  Core'
<1> DEFINE k == [call[c] EXCEPT !.at = place]
<1>1. /\ k.op = call[c].op /\ k.id = call[c].id /\ k.vec = call[c].vec
  BY CoreFacts, Moved
<1>2. call' = [call EXCEPT ![c] = k]
  OBVIOUS
<1> HIDE DEF k
<1>3. /\ index' = index /\ past' = past /\ Open' = Open
      /\ UNCHANGED <<retired, files, mode, snapshotLock>>
  BY DEF memory, Open
<1>4. Kept' \subseteq Kept
  BY <1>1, <1>2, <1>3, MovedKept
<1>5. \A d \in Clients \ {c} : call[d].op = "close" => k.at = "idle"
  BY NotClosing
<1>6. QED
  BY <1>2, <1>3, <1>4, <1>5, CoreFacts, QuietStep

(* link() of the entry point.                                              *)
LEMMA LinkEntryPointStep ==
  ASSUME Core, NEW c \in Clients, LinkEntryPoint(c)
  PROVE  Core'
<1> DEFINE k == [call[c] EXCEPT !.at = "done"]
<1>1. /\ mode = "up" /\ call[c].at = "toLink" /\ call' = [call EXCEPT ![c] = k]
      /\ UNCHANGED <<memory, files, mode, snapshotLock, past>>
  BY DEF LinkEntryPoint, At, Goto, startup, counter
<1>2. CallInv(c) /\ IsCall(call[c]) /\ call = [d \in Clients |-> call[d]]
  BY CoreFacts
<1>3. /\ IsCall(k) /\ k.at = "done" /\ k.op = call[c].op /\ k.id = call[c].id
      /\ k.vec = call[c].vec /\ k.todo = call[c].todo
  BY <1>2, Moved
<1> HIDE DEF k
<1>4. call'[c] = k
  BY <1>1, <1>2
<1>5. CallInv(c)'
  BY <1>1, <1>2, <1>3, <1>4 DEF CallInv
<1>6. QED
  BY <1>1, <1>5, MoveStep DEF k

(* A call ends, with an exception or not.                                  *)
LEMMA EndStep ==
  ASSUME Core, Later, mode = "up", NEW c \in Clients, call' = [call EXCEPT ![c] = IdleCall],
         UNCHANGED <<memory, files, mode, snapshotLock>>,
         past'.acked \in [Vectors -> Nat \cup {None}], Kept' \subseteq Kept
  PROVE  Core'
<1>1. IdleCall.at = "idle"
  BY DEF IdleCall
<1>2. call'[c] = IdleCall
  BY CoreFacts
<1>3. CallInv(c)'
  BY <1>2, IdleIsRight
<1>4. /\ index' = index /\ UNCHANGED <<retired, files, mode, snapshotLock>>
  BY DEF memory
<1>5. Open \subseteq Open' /\ past.logged \subseteq past'.logged
  BY LaterIsMore DEF Later
<1>6. Formed(index') /\ Shown(index', Open') /\ Newer(index, index')
  BY <1>4, <1>5, CoreFacts, ShownMore
<1>7. QED
  BY <1>1, <1>3, <1>4, <1>5, <1>6, QuietStep

(* link() raises, and the caller is told nothing.                          *)
LEMMA LinkRaisesStep ==
  ASSUME Core, PastInv, NEW c \in Clients, LinkRaises(c)
  PROVE  Core'
<1>1. /\ mode = "up" /\ call' = [call EXCEPT ![c] = IdleCall] /\ past' = past
      /\ UNCHANGED <<memory, files, mode, snapshotLock>>
  BY DEF LinkRaises, At, Raise, startup, counter
<1>2. Kept' \subseteq Kept
  BY <1>1, EndedKept
<1>3. QED
  BY <1>1, <1>2, CoreFacts, SamePast, EndStep

(* _maybe_snapshot(): on the way to a snapshot, or the call returns.       *)
LEMMA MaybeSnapshotStep ==
  ASSUME Core, PastInv, NEW c \in Clients, MaybeSnapshot(c)
  PROVE  Core'
<1>1. /\ mode = "up" /\ call[c].at = "done"
      /\ UNCHANGED <<memory, files, mode, snapshotLock>>
      /\ (Goto(c, "snapshot") /\ past' = past) \/ Return(c)
  BY DEF MaybeSnapshot, At, startup
<1>2. CASE Goto(c, "snapshot") /\ past' = past
  <2> DEFINE k == [call[c] EXCEPT !.at = "snapshot"]
  <2>1. call' = [call EXCEPT ![c] = k]
    BY <1>2 DEF Goto
  <2>2. CallInv(c) /\ IsCall(call[c]) /\ call = [d \in Clients |-> call[d]]
    BY CoreFacts
  <2>3. /\ IsCall(k) /\ k.at = "snapshot" /\ k.op = call[c].op /\ k.id = call[c].id
        /\ k.vec = call[c].vec /\ k.todo = call[c].todo
    BY <2>2, Moved
  <2> HIDE DEF k
  <2>4. call'[c] = k
    BY <2>1, <2>2
  <2>5. \A d \in Clients \ {c} : call'[d] = call[d]
    BY <2>1, <2>2
  <2>6. CallInv(c)'
    BY <1>1, <2>2, <2>3, <2>4, <2>5 DEF CallInv
  <2>7. QED
    BY <1>1, <1>2, <2>1, <2>6, MoveStep DEF k
<1>3. CASE Return(c)
  <2>1. /\ Kept' \subseteq Kept /\ past'.acked \in [Vectors -> Nat \cup {None}]
        /\ call' = [call EXCEPT ![c] = IdleCall]
    BY <1>1, <1>3, ReturnedKept
  <2>2. Later
    BY <1>3, ReturnPast
  <2>3. QED
    BY <1>1, <2>1, <2>2, EndStep
<1>4. QED
  BY <1>1, <1>2, <1>3

(* reserve(): the new node is found only as the first entry point.         *)
LEMMA InsertStep ==
  ASSUME Core, PastInv, NEW c \in Clients, Insert(c)
  PROVE  Core'
<1>1. PICK v \in Vectors, level \in Levels :
        /\ index' = Reserve(index, v, level)
        /\ call' = [call EXCEPT ![c] = [IdleCall EXCEPT !.at = "reserved", !.op = "insert",
                                                        !.id = index.nextId, !.vec = v]]
        /\ past' = [past EXCEPT !.submitted = @ \cup {v}, !.seeds = @ \cup Seeded]
  BY DEF Insert
<1>2. /\ mode = "up" /\ \A d \in Clients : call[d].op # "close"
      /\ UNCHANGED <<retired, files, mode, snapshotLock>>
  BY DEF Insert, Serving, startup, counter
<1>3. Later /\ past'.acked = past.acked
  BY WritePast
<1>4. Open \subseteq Open' /\ past.logged \subseteq past'.logged
  BY <1>3, LaterIsMore DEF Later
<1> DEFINE n == index.nextId
           r == AddNode(index, n, v, level)
           k == [IdleCall EXCEPT !.at = "reserved", !.op = "insert", !.id = n, !.vec = v]
<1>5. n \in Nat /\ n \notin DOMAIN index.nodes /\ n <= n /\ level \in Nat /\ index' = r
  <2>1. n \in Nat /\ DOMAIN index.nodes \subseteq 0..(n - 1)
    BY CoreFacts DEF Formed
  <2>2. QED
    BY <1>1, <2>1 DEF Levels, Reserve
<1>6. /\ Formed(r) /\ Holds(r, n, v) /\ Newer(index, r)
      /\ r.entryPoint = IF index.entryPoint = None THEN n ELSE index.entryPoint
      /\ \A V : Shown(index, V) /\ (index.entryPoint = None => v \in V) => Shown(r, V)
  BY <1>5, CoreFacts, AddNodeKeeps
<1> HIDE DEF r
<1>7. Shown(r, Open')
  <2>1. Shown(index, Open')
    BY <1>4, CoreFacts, ShownMore
  <2>2. ASSUME index.entryPoint = None
        PROVE  v \in Open'
    <3>1. r.entryPoint = n /\ n # None
      BY <2>2, <1>5, <1>6, DatabaseAssumption
    <3>2. Row(r, n) = v
      BY <1>6 DEF Holds, Row, Formed
    <3>3. v \in Seeded
      BY <2>2, <3>1, <3>2, <1>5 DEF Seeded
    <3>4. past'.seeds = past.seeds \cup Seeded
      BY <1>1 DEF PastInv, IsPast
    <3>5. QED
      BY <3>3, <3>4 DEF Open
  <2>3. QED
    BY <2>1, <2>2, <1>6
<1>8. /\ IsCall(k) /\ k.at = "reserved" /\ k.op = "insert" /\ k.id = n /\ k.vec = v /\ k.todo = {}
  BY DEF IdleCall, IsCall, CallFields
<1>9. call' = [call EXCEPT ![c] = k]
  BY <1>1
<1> HIDE DEF k
<1>10. call'[c] = k
  BY <1>9, CoreFacts
<1>11. CallInv(c)'
  BY <1>2, <1>5, <1>6, <1>8, <1>10 DEF CallInv
<1>12. Kept' \subseteq Kept
  <2>1. Kept' \subseteq Kept \cup Own(k)
    BY <1>3, <1>9, CoreFacts, KeptAfter
  <2>2. QED
    BY <2>1, <1>8 DEF Own
<1>13. past'.acked \in [Vectors -> Nat \cup {None}]
  BY <1>3, CoreFacts
<1>14. QED
  BY <1>2, <1>4, <1>5, <1>6, <1>7, <1>9, <1>11, <1>12, <1>13, QuietStep

(* delete(): the heir of the entry point is found.                         *)
LEMMA DeleteStep ==
  ASSUME Core, PastInv, NEW c \in Clients, Delete(c)
  PROVE  Core'
<1>1. PICK id \in Live(index) :
        /\ index' = Tombstone(index, id)
        /\ call' = [call EXCEPT ![c] = [IdleCall EXCEPT !.at = "tombstoned", !.op = "delete",
                                                        !.id = id, !.vec = Row(index, id)]]
        /\ past' = [past EXCEPT !.erasing = @ \cup {Row(index, id)},
                                !.seeds = @ \cup Seeded,
                                !.stranded = @ \/ (id = index.entryPoint /\ BareEntry(index')),
                                !.crossed = @ \/ Compacting # {}]
  BY DEF Delete
<1>2. /\ mode = "up" /\ \A d \in Clients : call[d].op # "close"
      /\ UNCHANGED <<retired, files, mode, snapshotLock>>
  BY DEF Delete, Serving, startup, counter
<1>3. Later /\ past'.acked = past.acked
  BY WritePast
<1>4. Open \subseteq Open' /\ past.logged \subseteq past'.logged
  BY <1>3, LaterIsMore DEF Later
<1> DEFINE r == Tombstone(index, id)
           k == [IdleCall EXCEPT !.at = "tombstoned", !.op = "delete", !.id = id,
                                 !.vec = Row(index, id)]
<1>5. id \in DOMAIN index.nodes /\ id \in Nat /\ index.nextId \in Nat
  BY <1>1, CoreFacts DEF Live, Formed
<1>6. Steady(index, r, Open')
  <2>1. Shown(index, Open')
    BY <1>4, CoreFacts, ShownMore
  <2>2. ASSUME r.entryPoint # index.entryPoint, r.entryPoint # None
        PROVE  Row(r, r.entryPoint) \in Open'
    <3>1. Row(r, r.entryPoint) \in Seeded
      BY <2>2, <1>1 DEF Seeded
    <3>2. past'.seeds = past.seeds \cup Seeded
      BY <1>1 DEF PastInv, IsPast
    <3>3. QED
      BY <3>1, <3>2 DEF Open
  <2> HIDE DEF r
  <2>3. \A V : Shown(index, V)
               /\ (r.entryPoint # index.entryPoint /\ r.entryPoint # None => Row(r, r.entryPoint) \in V)
               => Steady(index, r, V)
    BY <1>5, CoreFacts, DatabaseAssumption, TombstoneKeeps DEF r
  <2>4. QED
    BY <2>1, <2>2, <2>3
<1>7. Formed(index') /\ Shown(index', Open') /\ Newer(index, index')
  BY <1>1, <1>5, <1>6, SameIsNewer DEF Steady
<1>8. /\ IsCall(k) /\ k.at = "tombstoned" /\ k.op = "delete" /\ k.id = id /\ k.todo = {}
  BY DEF IdleCall, IsCall, CallFields
<1>9. call' = [call EXCEPT ![c] = k]
  BY <1>1
<1> HIDE DEF k
<1>10. call'[c] = k
  BY <1>9, CoreFacts
<1>11. CallInv(c)'
  BY <1>2, <1>5, <1>8, <1>10 DEF CallInv
<1>12. Kept' \subseteq Kept
  <2>1. Kept' \subseteq Kept \cup Own(k)
    BY <1>3, <1>9, CoreFacts, KeptAfter
  <2>2. QED
    BY <2>1, <1>8 DEF Own
<1>13. past'.acked \in [Vectors -> Nat \cup {None}]
  BY <1>3, CoreFacts
<1>14. QED
  BY <1>2, <1>4, <1>7, <1>9, <1>11, <1>12, <1>13, QuietStep

(* What a call has promised is in the index, while the database is up.     *)
LEMMA OwnIsHeld ==
  ASSUME Core, mode = "up", NEW c \in Clients, call[c].op = "insert",
         call[c].at \notin {"idle", "reserved"}
  PROVE  Holds(index, call[c].id, call[c].vec)
<1>1. <<call[c].id, call[c].vec>> \in Kept
  BY DEF Kept, Promised
<1>2. HoldsAll(index, Kept)
  BY DEF Core, MemoryInv
<1>3. QED
  BY <1>1, <1>2 DEF HoldsAll

(* link() begins: the record of its vector was written before.             *)
LEMMA StartLinkStep ==
  ASSUME Core, PastInv, NEW c \in Clients, StartLink(c)
  PROVE  Core'
<1> DEFINE id     == call[c].id
           chosen == Chosen(index, id)
           k == [call[c] EXCEPT !.at = "linking", !.gen = Generation, !.top = index.maxLayer,
                                !.chosen = chosen, !.level = index.nodes[id].level]
<1>1. /\ mode = "up" /\ call[c].at = "toLink"
      /\ index' = LinkOut(index, id, chosen)
      /\ call' = [call EXCEPT ![c] = k] /\ past' = past
      /\ UNCHANGED <<retired, files, mode, snapshotLock>>
  BY DEF StartLink, StartLinkIn, At, startup, counter
<1>2. IsCall(call[c]) /\ CallInv(c)
  BY CoreFacts
<1>3. call[c].op = "insert" /\ call[c].vec \in past.logged /\ id \in Nat
  BY <1>1, <1>2 DEF CallInv
<1>4. index.vectors[id] \in Open /\ id \in DOMAIN index.nodes
  BY <1>1, <1>3, OwnIsHeld DEF Holds, Open
<1>5. \A i \in chosen : i \in DOMAIN index.nodes /\ index.vectors[i] \in Open
  BY CoreFacts, FoundIsShown DEF Chosen
<1>6. /\ IsCall(k) /\ k.at = "linking" /\ k.op = call[c].op /\ k.id = id /\ k.vec = call[c].vec
      /\ k.todo = call[c].todo /\ k.chosen = chosen
  BY <1>2 DEF IsCall, CallFields
<1> HIDE DEF k, chosen
<1>7. Steady(index, index', Open)
  BY <1>1, <1>4, CoreFacts, LinkOutKeeps
<1>8. /\ Formed(index') /\ Shown(index', Open) /\ Newer(index, index')
      /\ DOMAIN index'.nodes = DOMAIN index.nodes /\ index'.vectors = index.vectors
  <2>1. index.nextId \in Nat
    BY CoreFacts DEF Formed
  <2>2. QED
    BY <1>7, <2>1, SameIsNewer DEF Steady, Same
<1>9. call'[c] = k /\ Open' = Open
  BY <1>1, CoreFacts DEF Open
<1>10. CallInv(c)'
  BY <1>1, <1>2, <1>3, <1>5, <1>6, <1>8, <1>9 DEF CallInv
<1>11. Kept' \subseteq Kept
  BY <1>1, <1>6, MovedKept
<1>12. \A d \in Clients \ {c} : call[d].op = "close" => k.at = "idle"
  BY <1>1, NotClosing
<1>13. QED
  BY <1>1, <1>8, <1>9, <1>10, <1>11, <1>12, CoreFacts, QuietStep

(* link() ends: what it points at was found, hence may be found.           *)
LEMMA FinishLinkStep ==
  ASSUME Core, PastInv, NEW c \in Clients, FinishLink(c)
  PROVE  Core'
<1> DEFINE k  == call[c]
           id == k.id
           linked == IF k.gen = Generation THEN LinkBack(index, id, k.chosen) ELSE index
           m == [k EXCEPT !.at = "done"]
<1>1. /\ mode = "up" /\ k.at = "linking"
      /\ index' = IF k.level > k.top THEN Promote(linked, id, k.level) ELSE linked
      /\ call' = [call EXCEPT ![c] = m]
      /\ UNCHANGED <<retired, files, mode, snapshotLock>>
  BY DEF FinishLink, At, Goto, startup, counter
<1>2. IsCall(k) /\ CallInv(c)
  BY CoreFacts
<1>3. /\ k.op = "insert" /\ k.vec \in past.logged
      /\ \A i \in k.chosen : i \in DOMAIN index.nodes /\ index.vectors[i] \in Open
  BY <1>1, <1>2 DEF CallInv
<1>4. index.vectors[id] \in Open /\ id \in DOMAIN index.nodes
  BY <1>1, <1>3, OwnIsHeld DEF Holds, Open
<1>5. Steady(index, linked, Open)
  <2>1. Steady(index, LinkBack(index, id, k.chosen), Open)
    BY <1>3, <1>4, CoreFacts, LinkBackKeeps
  <2>2. Steady(index, index, Open)
    BY CoreFacts, Unchanged
  <2>3. QED
    BY <2>1, <2>2
<1> HIDE DEF linked
<1>6. Steady(index, index', Open)
  <2>1. Formed(linked) /\ Shown(linked, Open) /\ id \in DOMAIN linked.nodes
        /\ linked.vectors[id] \in Open
    BY <1>4, <1>5 DEF Steady, Same
  <2>2. Steady(linked, Promote(linked, id, k.level), Open)
    BY <2>1, PromoteKeeps
  <2>3. Steady(index, Promote(linked, id, k.level), Open)
    BY <2>2, <1>5, SteadyTwice
  <2>4. QED
    BY <2>3, <1>1, <1>5
<1>7. Later /\ past'.acked = past.acked
  BY WritePast
<1>8. Open \subseteq Open' /\ past.logged \subseteq past'.logged
  BY <1>7, LaterIsMore DEF Later
<1>9. Formed(index') /\ Shown(index', Open') /\ Newer(index, index')
  <2>1. index.nextId \in Nat
    BY CoreFacts DEF Formed
  <2>2. Formed(index') /\ Shown(index', Open) /\ Newer(index, index')
    BY <1>6, <2>1, SameIsNewer DEF Steady
  <2>3. QED
    BY <2>2, <1>8, ShownMore
<1>10. /\ IsCall(m) /\ m.at = "done" /\ m.op = k.op /\ m.id = id /\ m.vec = k.vec
       /\ m.todo = k.todo
  BY <1>2, Moved
<1> HIDE DEF m
<1>11. call'[c] = m
  BY <1>1, CoreFacts
<1>12. CallInv(c)'
  BY <1>1, <1>2, <1>3, <1>10, <1>11 DEF CallInv
<1>13. Kept' \subseteq Kept
  BY <1>1, <1>7, <1>10, MovedKept
<1>14. \A d \in Clients \ {c} : call[d].op = "close" => m.at = "idle"
  BY <1>1, NotClosing
<1>15. past'.acked \in [Vectors -> Nat \cup {None}]
  BY <1>7, CoreFacts
<1>16. QED
  BY <1>1, <1>8, <1>9, <1>12, <1>13, <1>14, <1>15, QuietStep

(* close(): every other call is idle.                                      *)
LEMMA CloseStep ==
  ASSUME Core, PastInv, NEW c \in Clients, Close(c)
  PROVE  Core'
<1> DEFINE k == [IdleCall EXCEPT !.at = "snapshot", !.op = "close"]
<1>1. /\ mode = "up" /\ call' = [call EXCEPT ![c] = k] /\ past' = past /\ index' = index
      /\ \A d \in Clients : call[d].op # "close" /\ call[d].at = "idle"
      /\ UNCHANGED <<retired, files, mode, snapshotLock>>
  BY DEF Close, Serving, At, memory, startup, counter
<1>2. /\ IsCall(k) /\ k.at = "snapshot" /\ k.op = "close" /\ k.id = 0 /\ k.todo = {}
  BY DEF IdleCall, IsCall, CallFields
<1> HIDE DEF k
<1>3. call'[c] = k /\ \A d \in Clients \ {c} : call'[d] = call[d]
  BY <1>1, CoreFacts
<1>4. CallInv(c)'
  BY <1>1, <1>2, <1>3 DEF CallInv
<1>5. Kept' \subseteq Kept
  <2>1. Kept' \subseteq Kept \cup Own(k)
    BY <1>1, CoreFacts, KeptAfter
  <2>2. QED
    BY <2>1, <1>2 DEF Own
<1>6. Open' = Open
  BY <1>1 DEF Open
<1>7. QED
  BY <1>1, <1>4, <1>5, <1>6, CoreFacts, QuietStep

(* A log write, on the way of a call that goes on.                         *)
LEMMA LogStep ==
  ASSUME Core, Later, mode = "up", past'.acked = past.acked,
         NEW c \in Clients, call[c].at \in {"reserved", "tombstoned"},
         NEW place, call' = [call EXCEPT ![c] = [call[c] EXCEPT !.at = place]],
         place = IF call[c].op = "insert" THEN "toLink" ELSE "done",
         UNCHANGED <<memory, snapshot, mode, snapshotLock>>, snapshotLock = None,
         NEW record \in Records, wal' = Logged(wal, record),
         record = IF call[c].op = "insert" THEN InsertRecord(call[c].id, call[c].vec)
                                           ELSE DeleteRecord(call[c].id),
         call[c].op = "insert" => call[c].vec \in past'.logged
  PROVE  Core'
<1> DEFINE k == call[c]
           m == [call[c] EXCEPT !.at = place]
<1>1. CallInv(c) /\ IsCall(k) /\ call = [d \in Clients |-> call[d]] /\ DiskInv /\ MemoryInv
  BY CoreFacts
<1>2. /\ IsCall(m) /\ m.at = place /\ m.op = k.op /\ m.id = k.id /\ m.vec = k.vec /\ m.todo = k.todo
  BY <1>1, Moved
<1>3. call' = [call EXCEPT ![c] = m]
  OBVIOUS
<1> HIDE DEF m
<1>4. call'[c] = m
  BY <1>1, <1>3
<1>5. /\ k.id \in Nat /\ k.at \in {"reserved", "tombstoned"} /\ k.todo = {}
      /\ k.op \in {"insert", "delete"}
      /\ k.op = "insert" => k.vec \in Vectors /\ Holds(index, k.id, k.vec)
  BY <1>1 DEF CallInv
<1>6. /\ index' = index /\ retired' = retired /\ snapshot' = snapshot
      /\ mode' = "up" /\ snapshotLock' = None
  BY DEF memory
<1>7. Open \subseteq Open' /\ past.logged \subseteq past'.logged
  BY LaterIsMore DEF Later
<1>8. record.op = "insert" <=> k.op = "insert"
  BY DEF InsertRecord, DeleteRecord, Record
<1>9. record.op = "insert" => record.id = k.id /\ record.vec = k.vec
  BY <1>8 DEF InsertRecord, DeleteRecord, Record
<1>10. record.op = "insert" => Holds(index, record.id, record.vec) /\ record.vec \in past'.logged
  BY <1>5, <1>8, <1>9
<1>11. Kept' \subseteq Kept \cup Inserted(record)
  <2>1. Kept' \subseteq Kept \cup Own(m)
    BY <1>1, <1>3, KeptAfter
  <2>2. Own(m) \subseteq Inserted(record)
    BY <1>2, <1>8, <1>9 DEF Own, Inserted
  <2>3. QED
    BY <2>1, <2>2
<1>12. DiskInv'
  BY <1>1, <1>6, <1>7, <1>10, <1>11, DiskWritten
<1>13. /\ Keeps(snapshot, index) /\ HoldsAll(index, Inserts(wal)) /\ HoldsAll(index, Kept)
       /\ wal \in Seq(Records)
  BY <1>1 DEF MemoryInv, DiskInv
<1>14. Inserts(wal') \subseteq Inserts(wal) \cup Inserted(record)
  BY <1>13, LoggedRecords
<1>15. HoldsAll(index, Inserted(record))
  BY <1>10 DEF Inserted, HoldsAll
<1>16. HoldsAll(index, Inserts(wal')) /\ HoldsAll(index, Kept')
  BY <1>11, <1>13, <1>14, <1>15 DEF HoldsAll
<1>17. Shown(index, Open')
  BY <1>7, CoreFacts, ShownMore
<1>18. CallInv(c)'
  <2>1. m.at = place /\ place \in {"toLink", "done"} /\ (place = "toLink" <=> k.op = "insert")
    BY <1>2
  <2>2. k.op = "insert" => k.vec \in past'.logged
    OBVIOUS
  <2>3. QED
    BY <2>1, <2>2, <1>2, <1>4, <1>5, <1>6 DEF CallInv
<1>19. \A d \in Clients \ {c} :
          /\ call[d].at \notin {"captured", "saved"}
          /\ call[d].op # "close"
  <2>1. \A d \in Clients : CallInv(d) /\ d # None
    BY CoreFacts, DatabaseAssumption
  <2>2. \A d \in Clients : call[d].at \in {"captured", "saved"} => snapshotLock = d
    BY <2>1 DEF CallInv
  <2>3. QED
    BY <2>1, <2>2, <1>5, NotClosing
<1>20. past'.acked \in [Vectors -> Nat \cup {None}]
  BY CoreFacts
<1>21. /\ Keeps(snapshot', index') /\ HoldsAll(index', Inserts(wal')) /\ HoldsAll(index', Kept')
       /\ Formed(index') /\ Shown(index', Open') /\ Newer(index, index')
  BY <1>6, <1>13, <1>16, <1>17, CoreFacts
<1>22. QED
  BY <1>3, <1>6, <1>7, <1>12, <1>18, <1>19, <1>20, <1>21, CoreStep

(* log_insert(): from now on insert() promises its id.                     *)
LEMMA LogInsertStep ==
  ASSUME Core, PastInv, Quiet', NEW c \in Clients, LogInsert(c)
  PROVE  Core'
<1> DEFINE k == call[c]
           record == InsertRecord(k.id, k.vec)
<1>1. /\ mode = "up" /\ k.at = "reserved" /\ wal' = Logged(wal, record)
      /\ call' = [call EXCEPT ![c] = [call[c] EXCEPT !.at = "toLink"]]
      /\ past' = [past EXCEPT !.logged = @ \cup {k.vec},
                               !.torn = @ \/ snapshotLock # None \/ Renumbered]
      /\ UNCHANGED <<memory, snapshot, mode, snapshotLock>>
  BY DEF LogInsert, At, Goto, startup, counter
<1>2. k.vec \in past'.logged /\ snapshotLock = None
  <2>1. past'.logged = past.logged \cup {k.vec} /\ past'.torn = (past.torn \/ snapshotLock # None \/ Renumbered)
    BY <1>1 DEF PastInv, IsPast
  <2>2. QED
    BY <2>1 DEF Quiet
<1>3. k.op = "insert" /\ k.vec \in Vectors /\ k.id \in Nat
  BY <1>1, CoreFacts DEF CallInv
<1>4. record \in Records
  BY <1>3 DEF InsertRecord, Record, Records
<1> HIDE DEF record
<1>5. QED
  BY <1>1, <1>2, <1>3, <1>4, WritePast, LogStep DEF record

(* log_delete().                                                           *)
LEMMA LogDeleteStep ==
  ASSUME Core, PastInv, Quiet', NEW c \in Clients, LogDelete(c)
  PROVE  Core'
<1> DEFINE k == call[c]
           record == DeleteRecord(k.id)
<1>1. /\ mode = "up" /\ k.at = "tombstoned" /\ wal' = Logged(wal, record)
      /\ call' = [call EXCEPT ![c] = [call[c] EXCEPT !.at = "done"]]
      /\ past' = [past EXCEPT !.torn = \/ @
                                        \/ snapshotLock # None \/ Renumbered
                                        \/ Early(c)]
      /\ UNCHANGED <<memory, snapshot, mode, snapshotLock>>
  BY DEF LogDelete, At, Goto, startup, counter
<1>2. snapshotLock = None
  <2>1. past'.torn = (past.torn \/ snapshotLock # None \/ Renumbered \/ Early(c))
    BY <1>1 DEF PastInv, IsPast
  <2>2. QED
    BY <2>1 DEF Quiet
<1>3. k.op = "delete" /\ k.id \in Nat
  BY <1>1, CoreFacts DEF CallInv
<1>4. record \in Records
  BY <1>3 DEF DeleteRecord, Record, Records
<1> HIDE DEF record
<1>5. QED
  BY <1>1, <1>2, <1>3, <1>4, WritePast, LogStep DEF record

(* Two calls do not save at a time.                                        *)
LEMMA OneSaves ==
  ASSUME Core, NEW c \in Clients, snapshotLock \in {c, None}
  PROVE  \A d \in Clients \ {c} : call[d].at \notin {"captured", "saved"}
<1>1. \A d \in Clients : d # None /\ (call[d].at \in {"captured", "saved"} => snapshotLock = d)
  BY DatabaseAssumption DEF Core, CallInv
<1>2. QED
  BY <1>1

(* save() copies rows and entry point; the nodes may go on changing.       *)
LEMMA CaptureStep ==
  ASSUME Core, PastInv, NEW c \in Clients, Capture(c)
  PROVE  Core'
<1> DEFINE k == call[c]
           m == [call[c] EXCEPT !.at = "captured", !.gen = Generation, !.image = index]
<1>1. /\ mode = "up" /\ mode' = mode /\ k.at = "snapshot" /\ snapshotLock = None /\ snapshotLock' = c
      /\ call' = [call EXCEPT ![c] = m]
      /\ past'.acked = past.acked /\ past'.logged = past.logged /\ past'.seeds = past.seeds
      /\ UNCHANGED <<retired, files>> /\ index' = index
  BY DEF Capture, CaptureLeaving, At, memory, files, startup, PastInv, IsPast
<1>2. CallInv(c) /\ IsCall(k) /\ DiskInv /\ MemoryInv
  BY CoreFacts
<1>3. /\ IsCall(m) /\ m.at = "captured" /\ m.gen = Generation /\ m.image = index
      /\ m.op = k.op /\ m.id = k.id /\ m.vec = k.vec /\ m.todo = k.todo
  BY <1>2 DEF IsCall, CallFields
<1> HIDE DEF m
<1>4. Generation = 0
  BY <1>2 DEF MemoryInv, Generation
<1>5. call'[c] = m /\ \A d \in Clients \ {c} : call'[d] = call[d]
  BY <1>1, CoreFacts
<1>6. Open' = Open
  BY <1>1 DEF Open
<1>7. CallInv(c)'
  BY <1>1, <1>2, <1>3, <1>4, <1>5, <1>6, CoreFacts DEF CallInv
<1>8. Kept' \subseteq Kept
  BY <1>1, <1>3, MovedKept
<1>9. DiskInv'
  BY <1>1, <1>2, <1>6, <1>8, DiskKept
<1>10. /\ Keeps(snapshot', index') /\ HoldsAll(index', Inserts(wal')) /\ HoldsAll(index', Kept')
  BY <1>1, <1>2, <1>8 DEF MemoryInv, HoldsAll, files
<1>11. \A d \in Clients \ {c} : call[d].at \notin {"captured", "saved"} /\ call[d].op # "close"
  BY <1>1, OneSaves, NotClosing
<1>12. Formed(index') /\ Shown(index', Open') /\ Newer(index, index')
  BY <1>1, <1>6, CoreFacts
<1>13. past'.acked \in [Vectors -> Nat \cup {None}] /\ past.logged \subseteq past'.logged
  BY <1>1, CoreFacts
<1>14. QED
  BY <1>1, <1>6, <1>7, <1>9, <1>10, <1>11, <1>12, <1>13, CoreStep

(* When no node was added since the rows were copied, the snapshot is as   *)
(* right as the index, whichever nodes pickle met in their old state.      *)
LEMMA PickledIsRight ==
  ASSUME NEW image, NEW now, NEW stale, NEW V, Formed(image), Formed(now), Newer(image, now),
         Shown(image, V), Shown(now, V), DOMAIN now.nodes \subseteq DOMAIN image.vectors
  PROVE  LET r == Pickled(image, now, stale) IN
         Formed(r) /\ Shown(r, V) /\ Keeps(r, now) /\ Keeps(now, r)
<1> DEFINE r == Pickled(image, now, stale)
           D == DOMAIN now.nodes
<1>1. /\ IsRecord(image) /\ image.nextId \in Nat
      /\ image.vectors = [i \in 0..(image.nextId - 1) |-> image.vectors[i]]
      /\ DOMAIN image.nodes \subseteq 0..(image.nextId - 1)
      /\ image.nodes \in [DOMAIN image.nodes -> AnyNode]
      /\ image.entryPoint \in DOMAIN image.nodes \cup {None}
  BY DEF Formed
<1>2. PICK n \in Nat : InOrder(now, n)
  BY DEF Formed
<1>3. /\ IsRecord(r) /\ r.vectors = image.vectors /\ r.nextId = image.nextId
      /\ r.entryPoint = image.entryPoint /\ r.order = now.order
      /\ r.nodes = [i \in D |-> IF i \in stale THEN image.nodes[i] ELSE now.nodes[i]]
  BY <1>1 DEF Pickled, IsRecord, Fields
<1> HIDE DEF r
<1>4. D = DOMAIN image.nodes
  <2>1. ASSUME NEW i \in D
        PROVE  i \in DOMAIN image.nodes
    <3>1. i \in 0..(image.nextId - 1)
      BY <1>1
    <3>2. ~ (image.nextId <= i)
      BY <3>1, <1>1
    <3>3. QED
      BY <3>2 DEF Newer
  <2>2. DOMAIN image.nodes \subseteq D
    BY DEF Newer, Keeps, Holds
  <2>3. QED
    BY <2>1, <2>2
<1>5. DOMAIN r.nodes = D /\ \A i \in D : r.nodes[i] \in {image.nodes[i], now.nodes[i]}
  BY <1>3
<1>6. \A i \in D : now.vectors[i] = image.vectors[i]
  BY <1>4 DEF Newer, Keeps, Holds
<1>7. r.nodes \in [D -> AnyNode]
  <2>1. now.nodes \in [D -> AnyNode]
    BY DEF Formed
  <2>2. QED
    BY <2>1, <1>1, <1>3, <1>4
<1>8. Formed(r)
  <2>1. InOrder(r, n)
    <3>1. r.order = now.order /\ DOMAIN r.nodes = DOMAIN now.nodes
      BY <1>3, <1>5
    <3>2. QED
      BY <3>1, <1>2 DEF InOrder
  <2>2. QED
    BY <2>1, <1>1, <1>3, <1>4, <1>5, <1>7 DEF Formed
<1>9. Shown(r, V)
  <2>1. ASSUME NEW i \in D, i = r.entryPoint \/ r.nodes[i].links # "none"
        PROVE  r.vectors[i] \in V
    <3>1. CASE i = image.entryPoint \/ image.nodes[i].links # "none"
      BY <3>1, <1>3, <1>4 DEF Shown
    <3>2. CASE now.nodes[i].links # "none"
      BY <3>2, <1>3, <1>6 DEF Shown
    <3>3. QED
      BY <2>1, <3>1, <3>2, <1>3, <1>5
  <2>2. QED
    BY <2>1, <1>5 DEF Shown
<1>10. Keeps(r, now) /\ Keeps(now, r)
  BY <1>3, <1>5, <1>6 DEF Keeps, Holds
<1>11. QED
  BY <1>8, <1>9, <1>10 DEF r

(* The snapshot is in its place, and holds all that was promised.          *)
LEMMA SaveStep ==
  ASSUME Core, PastInv, Quiet', NEW c \in Clients, Save(c)
  PROVE  Core'
<1> DEFINE k == call[c]
           m == [call[c] EXCEPT !.at = "saved"]
<1>1. PICK stale : /\ snapshot' = Pickled(k.image, NodesOf(k.gen), stale)
                   /\ past' = [past EXCEPT !.torn = @ \/ Races(snapshot')]
  BY DEF Save
<1>2. /\ mode = "up" /\ mode' = mode /\ k.at = "captured" /\ call' = [call EXCEPT ![c] = m]
      /\ UNCHANGED <<retired, wal, snapshotLock>> /\ index' = index
  BY DEF Save, At, Goto, memory, startup, counter
<1>3. CallInv(c) /\ IsCall(k) /\ DiskInv /\ MemoryInv
  BY CoreFacts
<1>4. /\ k.gen = 0 /\ Formed(k.image) /\ Shown(k.image, Open) /\ Newer(k.image, index)
      /\ snapshotLock = c
  BY <1>2, <1>3 DEF CallInv
<1>5. NodesOf(k.gen) = index
  BY <1>3, <1>4 DEF NodesOf, Generation, MemoryInv
<1> DEFINE s == Pickled(k.image, index, stale)
<1>6. snapshot' = s
  BY <1>1, <1>5
<1>7. DOMAIN index.nodes \subseteq DOMAIN k.image.vectors
  <2>1. ~ Races(snapshot')
    <3>1. past'.torn = (past.torn \/ Races(snapshot'))
      BY <1>1 DEF PastInv, IsPast
    <3>2. QED
      BY <3>1 DEF Quiet
  <2>2. DOMAIN s.nodes \subseteq DOMAIN s.vectors
    BY <2>1, <1>6 DEF Races
  <2>3. DOMAIN s.nodes = DOMAIN index.nodes /\ s.vectors = k.image.vectors
    BY <1>4 DEF Pickled, Formed, IsRecord, Fields
  <2>4. QED
    BY <2>2, <2>3
<1> HIDE DEF s
<1>8. Formed(s) /\ Shown(s, Open) /\ Keeps(s, index) /\ Keeps(index, s)
  BY <1>4, <1>7, CoreFacts, PickledIsRight DEF s
<1>9. /\ IsCall(m) /\ m.at = "saved" /\ m.op = k.op /\ m.id = k.id /\ m.vec = k.vec
      /\ m.todo = k.todo
  BY <1>3, Moved
<1> HIDE DEF m
<1>10. call'[c] = m /\ \A d \in Clients \ {c} : call'[d] = call[d]
  BY <1>2, CoreFacts
<1>11. Later /\ past'.acked = past.acked
  BY WritePast
<1>12. Open \subseteq Open' /\ past.logged \subseteq past'.logged
  BY <1>11, LaterIsMore DEF Later
<1>13. Kept' \subseteq Kept
  BY <1>2, <1>9, <1>11, MovedKept
<1>14. HoldsAll(index, Inserts(wal)) /\ HoldsAll(index, Kept')
  BY <1>3, <1>2, <1>13 DEF MemoryInv, HoldsAll
<1>15. HoldsAll(s, Kept')
  BY <1>8, <1>14, HeldIsKept
<1>16. DiskInv'
  <2>1. Formed(s) /\ Shown(s, Open')
    BY <1>8, <1>12, ShownMore
  <2>2. Agrees(s, Inserts(wal))
    BY <1>8, <1>14 DEF Agrees, HoldsAll, Holds, Keeps
  <2>3. \A p \in Kept' : Holds(s, p[1], p[2])
    BY <1>15 DEF HoldsAll
  <2>4. /\ wal \in Seq(Records) /\ OneEach(Inserts(wal))
        /\ \A p \in Inserts(wal) : p[2] \in past'.logged
    BY <1>3, <1>12 DEF DiskInv
  <2>5. QED
    BY <2>1, <2>2, <2>3, <2>4, <1>2, <1>6 DEF DiskInv
<1>17. CallInv(c)'
  BY <1>2, <1>3, <1>4, <1>6, <1>9, <1>10, <1>15 DEF CallInv
<1>18. \A d \in Clients \ {c} : call[d].at \notin {"captured", "saved"} /\ call[d].op # "close"
  BY <1>2, <1>4, OneSaves, NotClosing
<1>19. /\ Formed(index') /\ Shown(index', Open') /\ Newer(index, index')
       /\ Keeps(snapshot', index') /\ HoldsAll(index', Inserts(wal')) /\ HoldsAll(index', Kept')
  BY <1>2, <1>6, <1>8, <1>12, <1>14, CoreFacts, ShownMore
<1>20. past'.acked \in [Vectors -> Nat \cup {None}]
  BY <1>11, CoreFacts
<1>21. QED
  BY <1>2, <1>12, <1>16, <1>17, <1>18, <1>19, <1>20, CoreStep

(* save() raises, and leaves the files alone.                              *)
LEMMA SaveRaisesStep ==
  ASSUME Core, PastInv, NEW c \in Clients, SaveRaises(c)
  PROVE  Core'
<1>1. /\ mode = "up" /\ mode' = mode /\ call[c].at = "captured" /\ snapshotLock' = None
      /\ call' = [call EXCEPT ![c] = IdleCall] /\ past' = past
      /\ UNCHANGED <<retired, files>> /\ index' = index
  BY DEF SaveRaises, At, Raise, memory, startup
<1>2. CallInv(c) /\ DiskInv /\ MemoryInv
  BY CoreFacts
<1>3. snapshotLock = c /\ IdleCall.at = "idle"
  BY <1>1, <1>2 DEF CallInv, IdleCall
<1>4. Kept' \subseteq Kept /\ Open' = Open
  BY <1>1, EndedKept DEF Open
<1>5. call'[c] = IdleCall
  BY <1>1, CoreFacts
<1>6. CallInv(c)'
  BY <1>5, IdleIsRight
<1>7. DiskInv'
  BY <1>1, <1>2, <1>4, DiskKept
<1>8. /\ Keeps(snapshot', index') /\ HoldsAll(index', Inserts(wal')) /\ HoldsAll(index', Kept')
  BY <1>1, <1>2, <1>4 DEF MemoryInv, HoldsAll, files
<1>9. \A d \in Clients \ {c} : call[d].at \notin {"captured", "saved"}
  BY <1>3, OneSaves
<1>10. Formed(index') /\ Shown(index', Open') /\ Newer(index, index')
  BY <1>1, <1>4, CoreFacts
<1>11. past'.acked \in [Vectors -> Nat \cup {None}] /\ past.logged \subseteq past'.logged
  BY <1>1, CoreFacts
<1>12. QED
  BY <1>1, <1>3, <1>4, <1>6, <1>7, <1>8, <1>9, <1>10, <1>11, CoreStep

(* The log is emptied when the snapshot holds all that was promised.       *)
LEMMA TruncateStep ==
  ASSUME Core, PastInv, NEW c \in Clients, Truncate(c)
  PROVE  Core'
<1>1. /\ mode = "up" /\ call[c].at = "saved" /\ snapshotLock' = None /\ wal' = << >>
      /\ Return(c) /\ mode' = IF call[c].op = "close" THEN "down" ELSE mode
      /\ UNCHANGED <<retired, snapshot>> /\ index' = index
  BY DEF Truncate, TruncateAndHold, At, memory
<1>2. CallInv(c) /\ DiskInv /\ MemoryInv
  BY CoreFacts
<1>3. snapshotLock = c /\ IdleCall.at = "idle" /\ HoldsAll(snapshot, Kept)
  BY <1>1, <1>2 DEF CallInv, IdleCall
<1>4. /\ Kept' \subseteq Kept /\ past'.acked \in [Vectors -> Nat \cup {None}]
      /\ call' = [call EXCEPT ![c] = IdleCall]
  BY <1>1, ReturnedKept
<1>5. Later
  BY <1>1, ReturnPast
<1>6. Open \subseteq Open' /\ past.logged \subseteq past'.logged
  BY <1>5, LaterIsMore DEF Later
<1>7. call'[c] = IdleCall
  BY <1>4, CoreFacts
<1>8. CallInv(c)'
  BY <1>7, IdleIsRight
<1>9. wal' \in Seq(Records) /\ Inserts(wal') = {}
  BY <1>1 DEF Inserts
<1>10. DiskInv'
  <2>1. Formed(snapshot) /\ Shown(snapshot, Open')
    BY <1>2, <1>6, ShownMore DEF DiskInv
  <2>2. \A p \in Kept' : Holds(snapshot, p[1], p[2])
    BY <1>3, <1>4 DEF HoldsAll
  <2>3. QED
    BY <2>1, <2>2, <1>1, <1>9 DEF DiskInv, OneEach, Agrees
<1>11. /\ Keeps(snapshot', index') /\ HoldsAll(index', Inserts(wal')) /\ HoldsAll(index', Kept')
  BY <1>1, <1>2, <1>4, <1>9 DEF MemoryInv, HoldsAll
<1>12. \A d \in Clients \ {c} : call[d].at \notin {"captured", "saved"}
  BY <1>3, OneSaves
<1>13. Formed(index') /\ Shown(index', Open') /\ Newer(index, index')
  BY <1>1, <1>6, CoreFacts, ShownMore
<1>14. mode' # "up" => \A d \in Clients \ {c} : call[d].at = "idle"
  BY <1>1, <1>2 DEF CallInv
<1>15. mode' # "replay"
  BY <1>1
<1>16. QED
  BY <1>1, <1>3, <1>4, <1>6, <1>8, <1>10, <1>11, <1>12, <1>13, <1>14, <1>15, CoreStep

(* Each step of a call leaves the core right, and the ones of a compaction *)
(* do not happen in a quiet history, or end it.                            *)
LEMMA CallStep ==
  ASSUME Core, PastInv, Quiet', NEW c \in Clients,
         Insert(c) \/ Delete(c) \/ BeginCompact(c) \/ Close(c) \/ Proceed(c)
  PROVE  Core'
<1>1. CASE Insert(c) \/ Delete(c) \/ Close(c)
  BY <1>1, InsertStep, DeleteStep, CloseStep
<1>2. CASE BeginCompact(c)
  BY <1>2, CompactPast
<1>3. CASE Proceed(c)
  <2>1. CASE LogInsert(c) \/ LinkEntryPoint(c) \/ StartLink(c) \/ FinishLink(c) \/ LinkRaises(c)
    BY <2>1, LogInsertStep, LinkEntryPointStep, StartLinkStep, FinishLinkStep, LinkRaisesStep
  <2>2. CASE LogDelete(c) \/ MaybeSnapshot(c) \/ Capture(c)
    BY <2>2, LogDeleteStep, MaybeSnapshotStep, CaptureStep
  <2>3. CASE Save(c) \/ SaveRaises(c) \/ Truncate(c)
    BY <2>3, SaveStep, SaveRaisesStep, TruncateStep
  <2>4. ~ (Swap(c) \/ Reinsert(c) \/ LogCompact(c) \/ EndBackground(c))
    <3>1. /\ call[c].at # "rebuilding" /\ call[c].op \notin {"compact", "background"}
          /\ call[c].todo = {}
      BY DEF Core, CallInv
    <3>2. QED
      BY <3>1 DEF Swap, Reinsert, LogCompact, EndBackground, At
  <2>5. QED
    BY <1>3, <2>1, <2>2, <2>3, <2>4 DEF Proceed
<1>4. QED
  BY <1>1, <1>2, <1>3

-----------------------------------------------------------------------------
(* The steps of the process                                                *)

(* Nothing is promised by calls that are idle.                             *)
LEMMA IdleKept ==
  ASSUME \A d \in Clients : call'[d].at = "idle", past'.acked = past.acked
  PROVE  Kept' \subseteq Kept
<1>1. Promised' = {}
  BY DEF Promised
<1>2. Told' = Told
  BY DEF Told
<1>3. QED
  BY <1>1, <1>2 DEF Kept

(* Calls that wait for the database to come up.                            *)
LEMMA WaitingStays ==
  ASSUME Core, mode # "up", call' = call
  PROVE  /\ \A d \in Clients : CallInv(d)' /\ call'[d].at = "idle"
         /\ call' = [d \in Clients |-> call'[d]]
<1>1. /\ call = [d \in Clients |-> call[d]]
      /\ \A d \in Clients : CallInv(d) /\ call[d].at = "idle"
  BY DEF Core, CallInv
<1>2. \A d \in Clients : CallInv(d)'
  BY <1>1 DEF CallInv
<1>3. QED
  BY <1>1, <1>2

(* The process dies, and leaves the two files in order.                    *)
LEMMA GoneStep ==
  ASSUME Core, Gone, mode' = "down", DiskInv', past'.acked = past.acked
  PROVE  Core'
<1>1. /\ index' = EmptyIndex /\ retired' = << >> /\ call' = [d \in Clients |-> IdleCall]
  BY DEF Gone
<1>2. \A d \in Clients : call'[d] = IdleCall
  BY <1>1
<1>3. \A d \in Clients : CallInv(d)'
  BY <1>2, IdleIsRight
<1>4. call' = [d \in Clients |-> call'[d]]
  BY <1>1
<1>5. MemoryInv'
  BY <1>1, EmptyIsFormed DEF MemoryInv
<1>6. ReplayInv'
  BY DEF ReplayInv
<1>7. past'.acked \in [Vectors -> Nat \cup {None}]
  BY CoreFacts
<1>8. QED
  BY <1>3, <1>4, <1>5, <1>6, <1>7 DEF Core

(* What a call had promised and not told is of no interest after a crash.  *)
LEMMA GoneKept ==
  ASSUME Gone, past'.acked = past.acked
  PROVE  Kept' \subseteq Kept
<1>1. \A d \in Clients : call'[d].at = "idle"
  BY DEF Gone, IdleCall
<1>2. QED
  BY <1>1, IdleKept

(* A crash, also in the middle of a log write.                             *)
LEMMA CrashStep ==
  ASSUME Core, PastInv, Crash
  PROVE  Core'
<1>1. Gone /\ mode' = "down" /\ snapshot' = snapshot
  BY DEF Crash, Gone
<1>2. Later /\ past'.acked = past.acked
  BY ProcessPast
<1>3. Kept' \subseteq Kept
  BY <1>1, <1>2, GoneKept
<1>4. Open \subseteq Open' /\ past.logged \subseteq past'.logged
  BY <1>2, LaterIsMore DEF Later
<1>5. DiskInv /\ MemoryInv /\ \A d \in Clients : CallInv(d)
  BY CoreFacts
<1>6. CASE wal' = wal
  <2>1. DiskInv'
    BY <1>1, <1>3, <1>4, <1>5, <1>6, DiskKept DEF files
  <2>2. QED
    BY <2>1, <1>1, <1>2, GoneStep
<1>7. CASE \E c \in Clients, tear \in Tears :
              /\ At(c, "reserved") \/ At(c, "tombstoned")
              /\ wal' = Cut(wal, Writing(c), tear)
              /\ past' = [past EXCEPT
                   !.crashes = @ + 1,
                   !.logged = IF call[c].op = "insert" THEN @ \cup {call[c].vec} ELSE @,
                   !.torn = @ \/ Mixed \/ Renumbered \/ Early(c)]
  <2>1. PICK c \in Clients, tear \in Tears :
              /\ At(c, "reserved") \/ At(c, "tombstoned")
              /\ wal' = Cut(wal, Writing(c), tear)
              /\ past' = [past EXCEPT
                   !.crashes = @ + 1,
                   !.logged = IF call[c].op = "insert" THEN @ \cup {call[c].vec} ELSE @,
                   !.torn = @ \/ Mixed \/ Renumbered \/ Early(c)]
    BY <1>7
  <2> DEFINE record == Writing(c)
             part   == IF tear = "cut" THEN TornRecord ELSE [record EXCEPT !.ended = FALSE]
  <2>2. /\ mode = "up" /\ record \in Records
        /\ record.op = "insert" =>
             /\ Holds(index, record.id, record.vec)
             /\ call[c].op = "insert" /\ record.vec = call[c].vec
    <3>1. CASE call[c].op = "insert"
      <4>1. /\ mode = "up" /\ call[c].at = "reserved"
            /\ record = InsertRecord(call[c].id, call[c].vec)
        BY <2>1, <3>1, <1>5 DEF At, Writing, CallInv
      <4>2. Holds(index, call[c].id, call[c].vec) /\ call[c].vec \in Vectors /\ call[c].id \in Nat
        BY <4>1, <1>5 DEF CallInv
      <4>3. QED
        BY <3>1, <4>1, <4>2 DEF InsertRecord, Record, Records
    <3>2. CASE call[c].op # "insert"
      <4>1. mode = "up" /\ record = DeleteRecord(call[c].id)
        BY <2>1, <3>2 DEF At, Writing
      <4>2. call[c].id \in Nat
        BY <1>5 DEF CallInv
      <4>3. QED
        BY <4>1, <4>2 DEF DeleteRecord, Record, Records
    <3>3. QED
      BY <3>1, <3>2
  <2>3. part \in Records /\ (part.op = "insert" => part = [record EXCEPT !.ended = FALSE])
    BY <2>2 DEF TornRecord, Record, Records
  <2>4. part.op = "insert" => record.op = "insert" /\ part.id = record.id /\ part.vec = record.vec
    BY <2>2, <2>3 DEF Records
  <2>5. wal' = Logged(wal, part)
    BY <2>1 DEF Cut
  <2>6. record.op = "insert" => record.vec \in past'.logged
    BY <2>1, <2>2 DEF PastInv, IsPast
  <2> HIDE DEF part
  <2>7. part.op = "insert" => Holds(index, part.id, part.vec) /\ part.vec \in past'.logged
    BY <2>2, <2>4, <2>6
  <2>8. Kept' \subseteq Kept \cup Inserted(part)
    BY <1>3
  <2>9. DiskInv'
    BY <2>2, <2>3, <2>5, <2>7, <2>8, <1>1, <1>4, <1>5, DiskWritten
  <2>10. QED
    BY <2>9, <1>1, <1>2, GoneStep
<1>8. QED
  BY <1>6, <1>7 DEF Crash

(* The replay raises.                                                      *)
LEMMA ReplayDiesStep ==
  ASSUME Core, PastInv, ReplayDies
  PROVE  Core'
<1>1. Gone /\ mode' = "down" /\ UNCHANGED files /\ past' = past
  BY DEF ReplayDies, Gone, files
<1>2. Kept' \subseteq Kept /\ Open' = Open
  BY <1>1, GoneKept DEF Open
<1>3. DiskInv'
  BY <1>1, <1>2, CoreFacts, DiskKept
<1>4. QED
  BY <1>1, <1>3, GoneStep

(* The next start loads the snapshot.                                      *)
LEMMA StartStep ==
  ASSUME Core, PastInv, Start
  PROVE  Core'
<1>1. /\ mode = "down" /\ mode' = "replay" /\ index' = snapshot /\ retired' = << >>
      /\ pending' = wal /\ wal' = wal /\ snapshot' = snapshot /\ call' = call
      /\ past'.acked = past.acked /\ past'.logged = past.logged /\ past'.seeds = past.seeds
  BY DEF Start, files, PastInv, IsPast
<1>2. \A d \in Clients : CallInv(d)' /\ call'[d].at = "idle"
  BY <1>1, WaitingStays
<1>3. Kept' \subseteq Kept /\ Open' = Open
  BY <1>1, <1>2, IdleKept DEF Open
<1>4. DiskInv /\ past.acked \in [Vectors -> Nat \cup {None}]
  BY CoreFacts
<1>5. DiskInv'
  BY <1>1, <1>3, <1>4, DiskKept DEF files
<1>6. /\ Formed(snapshot) /\ Shown(snapshot, Open) /\ Agrees(snapshot, Inserts(wal))
      /\ wal \in Seq(Records)
  BY <1>4 DEF DiskInv
<1>7. MemoryInv'
  BY <1>1, <1>3, <1>6 DEF MemoryInv
<1>8. Keeps(snapshot, snapshot)
  BY DEF Keeps, Holds
<1>9. Rest' = {wal[k] : k \in DOMAIN wal}
  BY <1>1 DEF Rest
<1>10. ReplayInv'
  BY <1>1, <1>6, <1>8, <1>9 DEF ReplayInv
<1>11. QED
  BY <1>1, <1>2, <1>4, <1>5, <1>7, <1>10, WaitingStays DEF Core

(* The end of the replay: memory holds what the two files say.             *)
LEMMA ServeStep ==
  ASSUME Core, PastInv, Serve
  PROVE  Core'
<1>1. /\ mode = "replay" /\ pending = << >> /\ mode' = "up" /\ index' = index
      /\ retired' = retired /\ wal' = wal /\ snapshot' = snapshot /\ call' = call /\ past' = past
  BY DEF Serve, memory, files
<1>2. \A d \in Clients : CallInv(d)' /\ call'[d].at = "idle"
  BY <1>1, WaitingStays
<1>3. Kept' \subseteq Kept /\ Open' = Open
  BY <1>1, <1>2, IdleKept DEF Open
<1>4. DiskInv /\ MemoryInv /\ ReplayInv /\ past.acked \in [Vectors -> Nat \cup {None}]
  BY CoreFacts
<1>5. DiskInv'
  BY <1>1, <1>3, <1>4, DiskKept DEF files
<1>6. Rest = {}
  BY <1>1 DEF Rest
<1>7. /\ Keeps(snapshot, index)
      /\ \A k \in DOMAIN wal : /\ wal[k].op # "torn"
                               /\ wal[k].op = "insert" => Holds(index, wal[k].id, wal[k].vec)
  BY <1>1, <1>4, <1>6 DEF ReplayInv
<1>8. ~ Torn(wal)
  BY <1>7 DEF Torn
<1>9. HoldsAll(index, Inserts(wal))
  BY <1>7 DEF HoldsAll, Inserts
<1>10. HoldsAll(index, Kept)
  <2>1. \A p \in Kept : Holds(snapshot, p[1], p[2]) \/ p \in Inserts(wal)
    BY <1>4, <1>8 DEF DiskInv
  <2>2. QED
    BY <2>1, <1>7, <1>9, HeldIsKept DEF HoldsAll
<1>11. HoldsAll(index, Kept')
  BY <1>3, <1>10 DEF HoldsAll
<1>12. MemoryInv'
  BY <1>1, <1>3, <1>4, <1>7, <1>9, <1>11 DEF MemoryInv
<1>13. ReplayInv'
  BY <1>1 DEF ReplayInv
<1>14. QED
  BY <1>1, <1>2, <1>4, <1>5, <1>12, <1>13, WaitingStays DEF Core

(* One record is replayed (core/database.py:66-100): it disturbs nothing   *)
(* that is there, and shows nothing but its own vector and the new entry.  *)
LEMMA RecordKeeps ==
  ASSUME NEW ix, Formed(ix), NEW record \in Records, NEW level \in Nat,
         record.op = "insert" => Agrees(ix, Inserted(record)),
         NEW V, Shown(ix, V), record.op = "insert" => record.vec \in V,
         LET r == ReplayRecord(ix, record, level) IN
         r.entryPoint # ix.entryPoint /\ r.entryPoint # None => Row(r, r.entryPoint) \in V
  PROVE  LET r == ReplayRecord(ix, record, level) IN
         /\ Formed(r) /\ Shown(r, V) /\ Keeps(ix, r)
         /\ record.op = "insert" => Holds(r, record.id, record.vec)
         /\ DOMAIN r.nodes \subseteq DOMAIN ix.nodes \cup {p[1] : p \in Inserted(record)}
<1> DEFINE r  == ReplayRecord(ix, record, level)
           id == record.id
           v  == record.vec
<1>1. \A jx : Steady(ix, jx, V) => /\ Formed(jx) /\ Shown(jx, V) /\ Keeps(ix, jx)
                                   /\ DOMAIN jx.nodes = DOMAIN ix.nodes
                                   /\ \A i, w : Holds(ix, i, w) => Holds(jx, i, w)
  <2>1. ix.nextId \in Nat
    BY DEF Formed
  <2>2. \A jx : Same(ix, jx) => Keeps(ix, jx)
    BY <2>1, SameIsNewer
  <2>3. QED
    BY <2>2, HeldIsKept DEF Steady, Same
<1>2. Steady(ix, ix, V)
  BY Unchanged
<1>3. id \in Nat
  BY DEF Records
<1>4. CASE record.op = "insert"
  <2>1. r = IF id \notin DOMAIN ix.nodes THEN Link(AddNode(ix, id, v, level), id)
            ELSE IF Unlinked(ix, id) THEN Link(ix, id) ELSE ix
    BY <1>4 DEF ReplayRecord, ReplayInsert
  <2>2. <<id, v>> \in Inserted(record)
    BY <1>4 DEF Inserted
  <2>3. v \in V
    BY <1>4
  <2>4. CASE id \in DOMAIN ix.nodes
    <3>1. ix.vectors[id] = v
      BY <2>2, <2>4, <1>4 DEF Agrees
    <3>2. Steady(ix, Link(ix, id), V)
      BY <2>3, <2>4, <3>1, LinkKeeps
    <3>3. Steady(ix, r, V)
      BY <2>1, <2>4, <3>2, <1>2
    <3>4. Holds(ix, id, v)
      BY <2>4, <3>1 DEF Holds
    <3>5. QED
      BY <3>3, <3>4, <1>1
  <2>5. CASE id \notin DOMAIN ix.nodes
    <3> DEFINE a == AddNode(ix, id, v, level)
    <3>1. /\ Formed(a) /\ Keeps(ix, a) /\ Holds(a, id, v)
          /\ DOMAIN a.nodes = DOMAIN ix.nodes \cup {id}
          /\ \A W : Shown(ix, W) /\ (ix.entryPoint = None => v \in W) => Shown(a, W)
      BY <2>5, <1>3, AddNodeKeeps
    <3>2. r = Link(a, id)
      BY <2>1, <2>5
    <3> HIDE DEF a
    <3>3. Shown(a, V)
      BY <2>3, <3>1
    <3>4. Steady(a, r, V)
      BY <3>1, <3>2, <3>3, <2>3, LinkKeeps DEF Holds
    <3>5. Keeps(a, r) /\ DOMAIN r.nodes = DOMAIN a.nodes
      <4>1. a.nextId \in Nat
        BY <3>1 DEF Formed
      <4>2. QED
        BY <4>1, <3>4, SameIsNewer DEF Steady, Same
    <3>6. Holds(r, id, v) /\ Keeps(ix, r)
      BY <3>1, <3>5, HeldIsKept, KeepsTwice
    <3>7. DOMAIN r.nodes \subseteq DOMAIN ix.nodes \cup {p[1] : p \in Inserted(record)}
      <4>1. id \in {p[1] : p \in Inserted(record)}
        BY <2>2
      <4>2. QED
        BY <4>1, <3>1, <3>5
    <3>8. Formed(r) /\ Shown(r, V)
      BY <3>4 DEF Steady
    <3>9. QED
      BY <3>6, <3>7, <3>8
  <2>6. QED
    BY <2>4, <2>5
<1>5. CASE record.op = "delete" /\ id \in Live(ix)
  <2>1. r = Tombstone(ix, id) /\ id \in DOMAIN ix.nodes
    BY <1>5 DEF ReplayRecord, DeleteOf, Live
  <2>2. r.entryPoint # ix.entryPoint /\ r.entryPoint # None => Row(r, r.entryPoint) \in V
    OBVIOUS
  <2> HIDE DEF r
  <2>3. Steady(ix, r, V)
    BY <2>1, <2>2, DatabaseAssumption, TombstoneKeeps
  <2>4. QED
    BY <2>3, <1>1, <1>5 DEF r
<1>6. CASE record.op # "insert" /\ ~ (record.op = "delete" /\ id \in Live(ix))
  <2>1. r = ix
    BY <1>6 DEF ReplayRecord, DeleteOf
  <2>2. QED
    BY <2>1, <1>1, <1>2, <1>6
<1>7. QED
  BY <1>4, <1>5, <1>6

(* Which ids an index and a log give to which vectors: no contradiction    *)
(* comes of a record.                                                      *)
LEMMA AgreedOn ==
  ASSUME NEW ix, NEW jx, NEW P, Agrees(ix, P), OneEach(P), Keeps(ix, jx),
         NEW record, Inserted(record) \subseteq P,
         DOMAIN jx.nodes \subseteq DOMAIN ix.nodes \cup {p[1] : p \in Inserted(record)},
         HoldsAll(jx, Inserted(record))
  PROVE  Agrees(jx, P)
<1>1. ASSUME NEW p \in P, p[1] \in DOMAIN jx.nodes
      PROVE  jx.vectors[p[1]] = p[2]
  <2>1. CASE p[1] \in DOMAIN ix.nodes
    BY <2>1 DEF Agrees, Keeps, Holds
  <2>2. CASE p[1] \notin DOMAIN ix.nodes
    <3>1. PICK q \in Inserted(record) : p[1] = q[1]
      BY <2>2, <1>1
    <3>2. p[2] = q[2]
      BY <3>1 DEF OneEach
    <3>3. QED
      BY <3>1, <3>2 DEF HoldsAll, Holds
  <2>3. QED
    BY <2>1, <2>2
<1>2. QED
  BY <1>1 DEF Agrees

(* A record of the log is one of its inserts.                              *)
LEMMA InsertedByLog ==
  ASSUME NEW log, NEW k \in DOMAIN log
  PROVE  Inserted(log[k]) \subseteq Inserts(log)
BY DEF Inserted, Inserts

(* A record of the log is replayed.                                        *)
LEMMA ReplayStep ==
  ASSUME Core, PastInv, Replay
  PROVE  Core'
<1> DEFINE record == Head(pending)
<1>1. PICK level \in Levels : index' = ReplayRecord(index, record, level)
  BY DEF Replay
<1>2. /\ mode = "replay" /\ mode' = mode /\ pending # << >> /\ ~ ReplayRaises(index, record)
      /\ pending' = Tail(pending) /\ retired' = retired /\ wal' = wal /\ snapshot' = snapshot
      /\ call' = call
      /\ past' = [past EXCEPT !.stranded = @ \/ Hides(index'), !.seeds = @ \cup Seeded]
  BY DEF Replay, files
<1>3. \A d \in Clients : CallInv(d)' /\ call'[d].at = "idle"
  BY <1>2, WaitingStays
<1>4. Later /\ past'.acked = past.acked
  BY ProcessPast
<1>5. Open \subseteq Open' /\ past.logged \subseteq past'.logged
  BY <1>4, LaterIsMore DEF Later
<1>6. Kept' \subseteq Kept
  BY <1>3, <1>4, IdleKept
<1>7. DiskInv /\ MemoryInv /\ ReplayInv /\ past.acked \in [Vectors -> Nat \cup {None}]
  BY CoreFacts
<1>8. DiskInv'
  BY <1>2, <1>5, <1>6, <1>7, DiskKept DEF files
<1>9. /\ pending \in Seq(Records) /\ Keeps(snapshot, index) /\ Agrees(index, Inserts(wal))
      /\ Rest \subseteq {wal[k] : k \in DOMAIN wal}
      /\ \A k \in DOMAIN wal :
           \/ wal[k] \in Rest
           \/ /\ wal[k].op # "torn"
              /\ wal[k].op = "insert" => Holds(index, wal[k].id, wal[k].vec)
  BY <1>2, <1>7 DEF ReplayInv
<1>10. /\ record \in Records /\ Tail(pending) \in Seq(Records)
       /\ Rest = {record} \cup Rest'
  <2> DEFINE n == Len(pending)
             t == Tail(pending)
  <2>1. /\ n \in Nat /\ n # 0 /\ DOMAIN pending = 1..n /\ record = pending[1]
        /\ t \in Seq(Records) /\ DOMAIN t = 1..(n - 1)
        /\ \A j \in 1..(n - 1) : t[j] = pending[j + 1]
        /\ \A j \in 1..n : pending[j] \in Records
    BY <1>2, <1>9
  <2> HIDE DEF n, t
  <2>2. Rest = {pending[j] : j \in 1..n} /\ Rest' = {t[j] : j \in 1..(n - 1)}
    BY <1>2, <2>1 DEF Rest, t
  <2>3. 1 \in 1..n /\ \A j \in 1..(n - 1) : j + 1 \in 1..n
    BY <2>1
  <2>4. \A j \in 1..n : j = 1 \/ (j - 1 \in 1..(n - 1) /\ t[j - 1] = pending[j])
    BY <2>1
  <2>5. {record} \cup Rest' \subseteq Rest
    BY <2>1, <2>2, <2>3
  <2>6. Rest \subseteq {record} \cup Rest'
    BY <2>1, <2>2, <2>4
  <2>7. QED
    BY <2>1, <2>3, <2>5, <2>6 DEF t
<1>11. PICK h \in DOMAIN wal : record = wal[h]
  BY <1>9, <1>10
<1> HIDE DEF record
<1>12. Inserted(record) \subseteq Inserts(wal)
  BY <1>11, InsertedByLog
<1>13. Agrees(index, Inserted(record))
  BY <1>9, <1>12 DEF Agrees
<1>14. record.op = "insert" => record.vec \in Open'
  <2>1. record.op = "insert" => <<record.id, record.vec>> \in Inserts(wal)
    BY <1>12 DEF Inserted
  <2>2. QED
    BY <2>1, <1>5, <1>7 DEF DiskInv, Open
<1>15. /\ Formed(index') /\ Shown(index', Open') /\ Keeps(index, index')
       /\ record.op = "insert" => Holds(index', record.id, record.vec)
       /\ DOMAIN index'.nodes \subseteq DOMAIN index.nodes \cup {p[1] : p \in Inserted(record)}
  <2>1. index'.entryPoint # index.entryPoint /\ index'.entryPoint # None
        => Row(index', index'.entryPoint) \in Open'
    <3>1. index'.entryPoint # index.entryPoint /\ index'.entryPoint # None
          => Row(index', index'.entryPoint) \in Seeded
      BY DEF Seeded
    <3>2. past'.seeds = past.seeds \cup Seeded
      BY <1>2 DEF PastInv, IsPast
    <3>3. QED
      BY <3>1, <3>2 DEF Open
  <2>2. Shown(index, Open') /\ Formed(index) /\ level \in Nat
    BY <1>5, CoreFacts, ShownMore DEF Levels
  <2> DEFINE r == ReplayRecord(index, record, level)
  <2>3. r.entryPoint # index.entryPoint /\ r.entryPoint # None => Row(r, r.entryPoint) \in Open'
    BY <2>1, <1>1
  <2>4. /\ Formed(r) /\ Shown(r, Open') /\ Keeps(index, r)
        /\ record.op = "insert" => Holds(r, record.id, record.vec)
        /\ DOMAIN r.nodes \subseteq DOMAIN index.nodes \cup {p[1] : p \in Inserted(record)}
    BY <2>2, <2>3, <1>10, <1>13, <1>14, RecordKeeps
  <2>5. QED
    BY <2>4, <1>1
<1>16. Agrees(index', Inserts(wal))
  <2>1. HoldsAll(index', Inserted(record))
    BY <1>15 DEF HoldsAll, Inserted
  <2>2. OneEach(Inserts(wal))
    BY <1>7 DEF DiskInv
  <2>3. QED
    BY <2>1, <2>2, <1>9, <1>12, <1>15, AgreedOn
<1>17. Keeps(snapshot, index')
  BY <1>9, <1>15, KeepsTwice
<1>18. ASSUME NEW k \in DOMAIN wal, wal[k] \notin Rest'
       PROVE  /\ wal[k].op # "torn"
              /\ wal[k].op = "insert" => Holds(index', wal[k].id, wal[k].vec)
  <2>1. CASE wal[k] = record
    BY <2>1, <1>2, <1>15 DEF ReplayRaises
  <2>2. CASE wal[k] # record
    BY <2>2, <1>9, <1>10, <1>15, <1>18, HeldIsKept
  <2>3. QED
    BY <2>1, <2>2
<1>19. ReplayInv'
  <2>1. Rest' \subseteq {wal[k] : k \in DOMAIN wal}
    BY <1>9, <1>10
  <2>2. pending' \in Seq(Records)
    BY <1>2, <1>10
  <2>3. QED
    BY <2>1, <2>2, <1>2, <1>16, <1>17, <1>18 DEF ReplayInv
<1>20. MemoryInv'
  BY <1>2, <1>7, <1>15 DEF MemoryInv
<1>21. QED
  BY <1>2, <1>3, <1>4, <1>7, <1>8, <1>19, <1>20, WaitingStays DEF Core

-----------------------------------------------------------------------------
(* The invariant                                                           *)

(* Every step only adds to the history.                                    *)
LEMMA PastStep ==
  ASSUME PastInv, [Next]_vars
  PROVE  Later
<1>1. CASE past' = past
  BY <1>1, SamePast
<1>2. CASE Crash
  BY <1>2, ProcessPast
<1>3. CASE Boot
  <2>1. Start \/ Replay \/ past' = past
    BY <1>3 DEF Boot, ReplayDies, Serve
  <2>2. QED
    BY <2>1, <1>1, ProcessPast
<1>4. ASSUME NEW c \in Clients,
             Insert(c) \/ Delete(c) \/ BeginCompact(c) \/ Close(c) \/ Proceed(c)
      PROVE  Later
  <2>1. CASE Insert(c) \/ Delete(c) \/ LogInsert(c) \/ FinishLink(c) \/ LogDelete(c)
          \/ Capture(c) \/ Save(c)
    BY <2>1, WritePast
  <2>2. CASE BeginCompact(c) \/ Swap(c)
    BY <2>2, CompactPast
  <2>3. CASE LinkRaises(c) \/ SaveRaises(c)
    <3>1. past' = past
      BY <2>3 DEF LinkRaises, SaveRaises, Raise
    <3>2. QED
      BY <3>1, <1>1
  <2>4. CASE Truncate(c) \/ EndBackground(c) \/ MaybeSnapshot(c)
    <3>1. past' = past \/ Return(c)
      BY <2>4 DEF Truncate, TruncateAndHold, EndBackground, MaybeSnapshot
    <3>2. QED
      BY <3>1, <1>1, ReturnPast
  <2>5. CASE Close(c) \/ LinkEntryPoint(c) \/ StartLink(c) \/ Reinsert(c) \/ LogCompact(c)
    <3>1. past' = past
      BY <2>5 DEF Close, LinkEntryPoint, StartLink, StartLinkIn, Reinsert, LogCompact
    <3>2. QED
      BY <3>1, <1>1
  <2>6. QED
    BY <1>4, <2>1, <2>2, <2>3, <2>4, <2>5 DEF Proceed
<1>5. CASE UNCHANGED vars
  BY <1>5, <1>1 DEF vars
<1>6. QED
  BY <1>2, <1>3, <1>4, <1>5 DEF Next

(* No step at all.                                                         *)
LEMMA SameCore ==
  ASSUME Core, UNCHANGED vars
  PROVE  Core'
<1>1. /\ index' = index /\ retired' = retired /\ wal' = wal /\ snapshot' = snapshot
      /\ mode' = mode /\ pending' = pending /\ snapshotLock' = snapshotLock
      /\ call' = call /\ past' = past
  BY DEF vars
<1>2. Kept' = Kept /\ Open' = Open
  BY <1>1 DEF Kept, Told, Promised, Open
<1>3. /\ past.acked \in [Vectors -> Nat \cup {None}] /\ call = [c \in Clients |-> call[c]]
      /\ DiskInv /\ MemoryInv /\ ReplayInv /\ \A c \in Clients : CallInv(c)
  BY DEF Core
<1>4. DiskInv' /\ MemoryInv'
  BY <1>1, <1>2, <1>3 DEF DiskInv, MemoryInv
<1>5. ReplayInv'
  BY <1>1, <1>3 DEF ReplayInv, Rest
<1>6. \A c \in Clients : CallInv(c)'
  BY <1>1, <1>2, <1>3 DEF CallInv
<1>7. QED
  BY <1>1, <1>3, <1>4, <1>5, <1>6 DEF Core

(* The first start.                                                        *)
LEMMA WriteInit == Init => WriteInv
<1> SUFFICES ASSUME Init PROVE WriteInv
  OBVIOUS
<1>1. /\ index = EmptyIndex /\ retired = << >> /\ wal = << >> /\ snapshot = EmptyIndex
      /\ mode = "down" /\ call = [c \in Clients |-> IdleCall]
  BY DEF Init
<1>2. PastInv
  BY DEF Init, PastInv, IsPast
<1>3. past.acked = [v \in Vectors |-> None]
  BY DEF Init
<1>4. \A c \in Clients : call[c] = IdleCall
  BY <1>1
<1>5. Kept = {}
  <2>1. Told = {}
    BY <1>3 DEF Told
  <2>2. Promised = {}
    BY <1>4 DEF Promised, IdleCall
  <2>3. QED
    BY <2>1, <2>2 DEF Kept
<1>6. wal \in Seq(Records) /\ Inserts(wal) = {}
  BY <1>1 DEF Inserts
<1>7. DiskInv
  BY <1>1, <1>5, <1>6, EmptyIsFormed DEF DiskInv, OneEach, Agrees
<1>8. MemoryInv
  BY <1>1, EmptyIsFormed DEF MemoryInv
<1>9. ReplayInv
  BY <1>1 DEF ReplayInv
<1>10. \A c \in Clients : CallInv(c)
  <2>1. /\ IsCall(IdleCall) /\ IdleCall.id = 0 /\ IdleCall.at = "idle"
        /\ IdleCall.op = "none" /\ IdleCall.todo = {}
    BY DEF IdleCall, IsCall, CallFields
  <2>2. QED
    BY <2>1, <1>4 DEF CallInv
<1>11. past.acked \in [Vectors -> Nat \cup {None}] /\ call = [c \in Clients |-> call[c]]
  BY <1>1, <1>3
<1>12. QED
  BY <1>2, <1>7, <1>8, <1>9, <1>10, <1>11 DEF WriteInv, Core

(* Every step of every thread, the crash and the recovery.                 *)
LEMMA WriteNext == WriteInv /\ [Next]_vars => WriteInv'
<1> SUFFICES ASSUME WriteInv, [Next]_vars PROVE WriteInv'
  OBVIOUS
<1>1. PastInv
  BY DEF WriteInv
<1>2. Later
  BY <1>1, PastStep
<1>3. ASSUME Quiet'
      PROVE  Core'
  <2>1. Core
    BY <1>2, <1>3 DEF WriteInv, Later
  <2>2. CASE UNCHANGED vars
    BY <2>1, <2>2, SameCore
  <2>3. CASE Crash
    BY <2>1, <2>3, <1>1, CrashStep
  <2>4. CASE Boot
    BY <2>1, <2>4, <1>1, StartStep, ReplayStep, ReplayDiesStep, ServeStep DEF Boot
  <2>5. ASSUME NEW c \in Clients,
               Insert(c) \/ Delete(c) \/ BeginCompact(c) \/ Close(c) \/ Proceed(c)
        PROVE  Core'
    BY <2>1, <2>5, <1>1, <1>3, CallStep
  <2>6. QED
    BY <2>2, <2>3, <2>4, <2>5 DEF Next
<1>4. QED
  BY <1>2, <1>3 DEF WriteInv, Later

(* What is in memory and on disk fits what was promised to the callers, in *)
(* every state of every history without a compaction or a racing snapshot. *)
THEOREM WritesAreInOrder == Spec => []WriteInv
<1>1. QED
  BY WriteInit, WriteNext, PTL DEF Spec

(* A search returns only vectors whose insert record is on disk, or that   *)
(* were the entry point of a graph without others (core/database.py:106).  *)
THEOREM ReadsAreDurable == Spec => []ReadsAreLogged
<1>1. ASSUME WriteInv
      PROVE  ReadsAreLogged
  <2>1. CASE Quiet
    <3>1. Formed(index) /\ Shown(index, Open)
      BY <1>1, <2>1 DEF WriteInv, Core, MemoryInv
    <3>2. Contents(index) \subseteq Open
      BY <3>1, FoundIsShown
    <3>3. QED
      BY <3>2 DEF ReadsAreLogged, Open
  <2>2. CASE ~ Quiet
    <3>1. past.torn \in BOOLEAN /\ past.compactions \in Nat
      BY <1>1 DEF WriteInv, PastInv
    <3>2. past.torn \/ past.compactions > 0
      BY <2>2, <3>1 DEF Quiet
    <3>3. QED
      BY <3>2 DEF ReadsAreLogged
  <2>3. QED
    BY <2>1, <2>2
<1>2. QED
  BY <1>1, WritesAreInOrder, PTL

-----------------------------------------------------------------------------
(* What the next start makes of the files                                  *)

(* made[k] is what a restart makes of the first k records of the log.      *)
Makes(made, s, log) ==
  made[0] = {s} /\ \A k \in 1..Len(log) : made[k] = Replayed(made[k - 1], log[k])

(* Recovery is the recursion it is written as: from the index that the     *)
(* snapshot holds, one record after the other.                             *)
LEMMA RecoveredByRecord ==
  ASSUME NEW s, NEW log \in Seq(Records)
  PROVE  \E made : Makes(made, s, log) /\ Recovered(s, log) = made[Len(log)]
<1> DEFINE n == Len(log)
           Defines(g, m) == g = [k \in 0..m |-> IF k = 0 THEN {s} ELSE Replayed(g[k - 1], log[k])]
           T == {m \in 0..n : \E g : Defines(g, m)}
<1>1. n \in Nat
  OBVIOUS
<1>2. 0 \in T
  <2> DEFINE g == [k \in 0..0 |-> {s}]
  <2>1. Defines(g, 0)
    OBVIOUS
  <2> HIDE DEF Defines, g
  <2>2. QED
    BY <1>1, <2>1
<1>3. ASSUME NEW m \in 1..n, m - 1 \in T
      PROVE  m \in T
  <2>1. PICK f : Defines(f, m - 1)
    BY <1>3
  <2> DEFINE g == [k \in 0..m |-> IF k = m THEN Replayed(f[m - 1], log[m]) ELSE f[k]]
  <2>2. \A k \in 0..m : k # m => k \in 0..(m - 1)
    BY <1>1
  <2>3. m - 1 \in 0..m /\ m - 1 # m /\ 0 \in 0..m /\ 0 # m /\ m \in 0..m
    BY <1>1
  <2>4. g[m] = Replayed(g[m - 1], log[m]) /\ \A k \in 0..m : k # m => g[k] = f[k]
    BY <2>3
  <2>5. \A k \in 0..(m - 1) : f[k] = IF k = 0 THEN {s} ELSE Replayed(f[k - 1], log[k])
    BY <2>1
  <2>6. \A k \in 0..m : k # 0 => k - 1 \in 0..m /\ k - 1 # m
    BY <1>1
  <2>7. \A k \in 0..m : g[k] = IF k = 0 THEN {s} ELSE Replayed(g[k - 1], log[k])
    <3> HIDE DEF g
    <3>1. QED
      BY <2>2, <2>3, <2>4, <2>5, <2>6
  <2>8. g = [k \in 0..m |-> g[k]]
    OBVIOUS
  <2>9. Defines(g, m)
    <3> HIDE DEF g
    <3>1. QED
      BY <2>7, <2>8
  <2> HIDE DEF Defines, g
  <2>10. QED
    BY <2>9
<1> HIDE DEF T
<1>4. n \in T
  <2>1. 0..n \subseteq T
    BY <1>1, <1>2, <1>3, UpTo
  <2>2. QED
    BY <1>1, <2>1
<1>5. PICK f : Defines(f, n)
  BY <1>4 DEF T
<1> DEFINE made == CHOOSE g : Defines(g, n)
<1>6. Defines(made, n)
  <2> HIDE DEF Defines
  <2>1. QED
    BY <1>5, Zenon
<1>7. Recovered(s, log) = made[n]
  BY Zenon DEF Recovered
<1> HIDE DEF made
<1>8. \A k \in 0..n : made[k] = IF k = 0 THEN {s} ELSE Replayed(made[k - 1], log[k])
  BY <1>6, Zenon
<1>9. made[0] = {s} /\ \A k \in 1..n : made[k] = Replayed(made[k - 1], log[k])
  BY <1>1, <1>8
<1>10. QED
  BY <1>7, <1>9 DEF Makes

(* Whatever a restart makes of the files holds what they say, and it makes *)
(* nothing of a log with a torn line.                                      *)
LEMMA RecoveredHolds ==
  ASSUME NEW s, Formed(s), NEW log \in Seq(Records),
         OneEach(Inserts(log)), Agrees(s, Inserts(log)),
         NEW ix \in Recovered(s, log)
  PROVE  /\ Formed(ix) /\ Keeps(s, ix) /\ HoldsAll(ix, Inserts(log)) /\ ~ Torn(log)
<1> DEFINE n == Len(log)
           Right(x, k) ==
             /\ Formed(x) /\ Keeps(s, x) /\ Agrees(x, Inserts(log))
             /\ \A j \in 1..k : /\ log[j].op # "torn"
                                /\ log[j].op = "insert" => Holds(x, log[j].id, log[j].vec)
<1>0. PICK made : Makes(made, s, log) /\ Recovered(s, log) = made[n]
  BY RecoveredByRecord
<1>1. /\ Recovered(s, log) = made[n] /\ made[0] = {s}
      /\ \A k \in 1..n : made[k] = Replayed(made[k - 1], log[k])
  BY <1>0 DEF Makes
<1>2. n \in Nat /\ DOMAIN log = 1..n /\ \A k \in 1..n : log[k] \in Records
  OBVIOUS
<1> DEFINE T == {k \in 0..n : \A x \in made[k] : Right(x, k)}
<1>3. 0 \in T
  <2>1. Keeps(s, s)
    BY DEF Keeps, Holds
  <2>2. Right(s, 0)
    BY <2>1
  <2> HIDE DEF Right
  <2>3. QED
    BY <2>2, <1>1, <1>2
<1>4. ASSUME NEW k \in 1..n, k - 1 \in T
      PROVE  k \in T
  <2> DEFINE record == log[k]
  <2>1. ASSUME NEW y \in made[k]
        PROVE  Right(y, k)
    <3>1. made[k] = Replayed(made[k - 1], record)
      BY <1>1
    <3>2. PICK x \in made[k - 1], level \in Levels :
             ~ ReplayRaises(x, record) /\ y = ReplayRecord(x, record, level)
      BY <3>1, <2>1 DEF Replayed
    <3>3. Right(x, k - 1)
      BY <1>4
    <3>4. /\ record \in Records /\ record.op # "torn" /\ level \in Nat
          /\ Inserted(record) \subseteq Inserts(log)
      BY <3>2, <1>2, InsertedByLog DEF ReplayRaises, Levels
    <3>5. Formed(x) /\ Keeps(s, x) /\ Agrees(x, Inserts(log))
      BY <3>3
    <3> DEFINE V == {x.vectors[i] : i \in DOMAIN x.nodes} \cup {record.vec}
                      \cup {Row(y, y.entryPoint)}
    <3>6. Shown(x, V) /\ record.vec \in V /\ Row(y, y.entryPoint) \in V
      BY DEF Shown
    <3>7. Agrees(x, Inserted(record))
      BY <3>4, <3>5 DEF Agrees
    <3> HIDE DEF V, record, Right
    <3>8. /\ Formed(y) /\ Keeps(x, y)
          /\ record.op = "insert" => Holds(y, record.id, record.vec)
          /\ DOMAIN y.nodes \subseteq DOMAIN x.nodes \cup {p[1] : p \in Inserted(record)}
      BY <3>2, <3>4, <3>5, <3>6, <3>7, RecordKeeps
    <3>9. Agrees(y, Inserts(log))
      <4>1. HoldsAll(y, Inserted(record))
        BY <3>8 DEF HoldsAll, Inserted
      <4>2. QED
        BY <4>1, <3>4, <3>5, <3>8, AgreedOn
    <3>10. Keeps(s, y)
      BY <3>5, <3>8, KeepsTwice
    <3>11. ASSUME NEW j \in 1..k
           PROVE  /\ log[j].op # "torn"
                  /\ log[j].op = "insert" => Holds(y, log[j].id, log[j].vec)
      <4>1. CASE j = k
        BY <4>1, <3>4, <3>8 DEF record
      <4>2. CASE j # k
        <5>1. j \in 1..(k - 1)
          BY <4>2, <1>2
        <5>2. /\ log[j].op # "torn"
              /\ log[j].op = "insert" => Holds(x, log[j].id, log[j].vec)
          BY <5>1, <3>3 DEF Right
        <5>3. QED
          BY <5>2, <3>8, HeldIsKept
      <4>3. QED
        BY <4>1, <4>2
    <3>12. QED
      BY <3>8, <3>9, <3>10, <3>11 DEF Right
  <2> HIDE DEF Right
  <2>2. QED
    BY <2>1, <1>2
<1> HIDE DEF T
<1>5. n \in T
  <2>1. 0..n \subseteq T
    BY <1>2, <1>3, <1>4, UpTo
  <2>2. QED
    BY <1>2, <2>1
<1>6. Right(ix, n)
  BY <1>1, <1>5 DEF T
<1>7. HoldsAll(ix, Inserts(log)) /\ ~ Torn(log)
  BY <1>2, <1>6 DEF HoldsAll, Inserts, Torn
<1>8. QED
  BY <1>6, <1>7

(* The id that insert() returned denotes its vector for ever, through any  *)
(* snapshots, crashes and replays (core/index.py:194-196).                 *)
THEOREM IdsStayStable == Spec => []IdsAreStable
<1>1. ASSUME WriteInv
      PROVE  IdsAreStable
  <2>1. CASE ~ Quiet
    <3>1. past.torn \in BOOLEAN /\ past.compactions \in Nat
      BY <1>1 DEF WriteInv, PastInv
    <3>2. past.torn \/ past.compactions > 0
      BY <2>1, <3>1 DEF Quiet
    <3>3. QED
      BY <3>2 DEF IdsAreStable
  <2>2. CASE Quiet
    <3>1. DiskInv /\ MemoryInv
      BY <1>1, <2>2 DEF WriteInv, Core
    <3>2. \A ix, id, v : Formed(ix) /\ Holds(ix, id, v) => Row(ix, id) = v
      BY DEF Formed, Holds, Row
    <3>3. ASSUME NEW v \in Vectors, past.acked[v] # None
          PROVE  /\ \A ix \in OnDisk : Row(ix, past.acked[v]) = v
                 /\ mode = "up" => Row(index, past.acked[v]) = v
      <4> DEFINE id == past.acked[v]
      <4>1. <<id, v>> \in Kept
        BY <3>3 DEF Kept, Told
      <4>2. mode = "up" => Formed(index) /\ Holds(index, id, v)
        BY <4>1, <3>1 DEF MemoryInv, HoldsAll
      <4>3. ASSUME NEW ix \in OnDisk
            PROVE  Formed(ix) /\ Holds(ix, id, v)
        <5>1. /\ Formed(snapshot) /\ wal \in Seq(Records)
              /\ OneEach(Inserts(wal)) /\ Agrees(snapshot, Inserts(wal))
              /\ Torn(wal) \/ \A p \in Kept : Holds(snapshot, p[1], p[2]) \/ p \in Inserts(wal)
          BY <3>1 DEF DiskInv
        <5>2. ix \in Recovered(snapshot, wal)
          BY DEF OnDisk
        <5>3. Formed(ix) /\ Keeps(snapshot, ix) /\ HoldsAll(ix, Inserts(wal)) /\ ~ Torn(wal)
          BY <5>1, <5>2, RecoveredHolds
        <5>4. Holds(snapshot, id, v) \/ <<id, v>> \in Inserts(wal)
          BY <4>1, <5>1, <5>3
        <5>5. QED
          BY <5>3, <5>4, HeldIsKept DEF HoldsAll
      <4> HIDE DEF id
      <4>4. QED
        BY <4>2, <4>3, <3>2 DEF id
    <3>4. QED
      BY <3>3 DEF IdsAreStable
  <2>3. QED
    BY <2>1, <2>2
<1>2. QED
  BY <1>1, WritesAreInOrder, PTL



-----------------------------------------------------------------------------
(* Recovery, record by record                                              *)

(* A restart from a prefix of the log applies its last record to what the  *)
(* records before it make.                                                 *)
LEMMA RecoveredPrefix ==
  ASSUME NEW s, NEW log \in Seq(Records), NEW made, Makes(made, s, log),
         NEW k \in 0..Len(log)
  PROVE  Recovered(s, SubSeq(log, 1, k)) = made[k]
<1> DEFINE p == SubSeq(log, 1, k)
<1>1. Len(log) \in Nat /\ p \in Seq(Records) /\ Len(p) = k /\ \A j \in 1..k : p[j] = log[j]
  OBVIOUS
<1> HIDE DEF p
<1>2. PICK part : Makes(part, s, p) /\ Recovered(s, p) = part[Len(p)]
  BY <1>1, RecoveredByRecord
<1> DEFINE T == {j \in 0..k : part[j] = made[j]}
<1>3. 0 \in T
  <2>1. part[0] = {s} /\ made[0] = {s}
    BY <1>2 DEF Makes
  <2>2. 0 \in 0..k
    BY <1>1
  <2>3. QED
    BY <2>1, <2>2
<1>4. ASSUME NEW j \in 1..k, j - 1 \in T
      PROVE  j \in T
  <2>1. part[j] = Replayed(part[j - 1], log[j]) /\ made[j] = Replayed(made[j - 1], log[j])
    BY <1>1, <1>2 DEF Makes
  <2>2. part[j - 1] = made[j - 1]
    BY <1>4
  <2>3. QED
    BY <2>1, <2>2
<1> HIDE DEF T
<1>5. 0..k \subseteq T
  <2>1. k \in Nat
    OBVIOUS
  <2>2. QED
    BY <2>1, <1>3, <1>4, UpTo
<1>6. part[k] = made[k]
  BY <1>1, <1>5 DEF T
<1>7. QED
  BY <1>1, <1>2, <1>6 DEF p

LEMMA RecoveredStep ==
  ASSUME NEW s, NEW log \in Seq(Records), NEW k \in 1..Len(log)
  PROVE  Recovered(s, SubSeq(log, 1, k)) = Replayed(Recovered(s, SubSeq(log, 1, k - 1)), log[k])
<1>1. PICK made : Makes(made, s, log)
  BY RecoveredByRecord
<1>2. k \in 0..Len(log) /\ k - 1 \in 0..Len(log)
  OBVIOUS
<1>3. /\ Recovered(s, SubSeq(log, 1, k)) = made[k]
      /\ Recovered(s, SubSeq(log, 1, k - 1)) = made[k - 1]
  BY <1>1, <1>2, RecoveredPrefix
<1>4. QED
  BY <1>1, <1>3 DEF Makes

LEMMA RecoveredWhole ==
  ASSUME NEW s, NEW log \in Seq(Records)
  PROVE  Recovered(s, SubSeq(log, 1, 0)) = {s} /\ SubSeq(log, 1, Len(log)) = log
<1>1. PICK made : Makes(made, s, log)
  BY RecoveredByRecord
<1>2. 0 \in 0..Len(log)
  OBVIOUS
<1>3. Recovered(s, SubSeq(log, 1, 0)) = made[0]
  BY <1>1, <1>2, RecoveredPrefix
<1>4. QED
  BY <1>1, <1>3 DEF Makes

LEMMA RecoveredFrom ==
  ASSUME NEW s, NEW log \in Seq(Records), NEW k \in 1..Len(log),
         NEW y \in Recovered(s, SubSeq(log, 1, k))
  PROVE  \E x \in Recovered(s, SubSeq(log, 1, k - 1)), level \in Levels :
            /\ ~ ReplayRaises(x, log[k])
            /\ y = ReplayRecord(x, log[k], level)
<1>1. y \in Replayed(Recovered(s, SubSeq(log, 1, k - 1)), log[k])
  BY RecoveredStep
<1>2. QED
  BY <1>1 DEF Replayed
-----------------------------------------------------------------------------
(* What a record does                                                      *)

(* The index holds nodes of V without edges, or entirely connected: it has *)
(* no use for an entry point only when nothing is live.                    *)
Fit(ix, V) ==
  /\ ix.entryPoint = None => Live(ix) = {}
  /\ \A i \in DOMAIN ix.nodes :
       /\ ix.nodes[i].links # "alone"
       /\ ix.nodes[i].links = "out" => ix.vectors[i] \in V

Whole(ix, V) ==
  /\ Fit(ix, V) /\ ~ Hides(ix)
  /\ \A i \in Live(ix) : i = ix.entryPoint \/ ix.nodes[i].links \in {"none", "full"}

(* In such an index a search finds all that has edges, and the entry point.*)
LEMMA WholeFinds ==
  ASSUME NEW ix, Formed(ix), NEW V, Whole(ix, V)
  PROVE  /\ ix.entryPoint # None => ix.entryPoint \in Findable(ix)
         /\ \A i \in Live(ix) : i \in Findable(ix) <=> i = ix.entryPoint \/ ix.nodes[i].links = "full"
<1>1. ix.entryPoint \in DOMAIN ix.nodes \cup {None} /\ None \notin DOMAIN ix.nodes
  BY DatabaseAssumption DEF Formed
<1>2. Live(ix) \subseteq DOMAIN ix.nodes
  BY DEF Live
<1>3. ix.entryPoint # None => ix.entryPoint \in Live(ix)
  BY <1>1 DEF Whole, Hides, DeadEntry
<1>4. ix.entryPoint = None => Live(ix) = {} /\ Findable(ix) = {}
  BY <1>1 DEF Whole, Fit, Findable
<1>5. CASE ix.entryPoint # None
  <2>1. ix.nodes[ix.entryPoint].links \in {"none", "out", "alone", "full"}
    BY <1>1, <1>5 DEF Formed, AnyNode
  <2>2. \A i \in Live(ix) :
           i # ix.entryPoint /\ ix.nodes[i].links = "full"
             => ix.nodes[ix.entryPoint].links \in {"out", "full"}
    BY <1>1, <1>5, <2>1 DEF Whole, Hides, BareEntry
  <2>3. Findable(ix) = {i \in Live(ix) : \/ i = ix.entryPoint
                         \/ /\ ix.nodes[i].links = "full"
                            /\ ix.nodes[ix.entryPoint].links \in {"out", "full"}}
    BY <1>1, <1>5 DEF Findable
  <2>4. QED
    BY <1>3, <1>5, <2>2, <2>3
<1>6. QED
  BY <1>4, <1>5

(* link() of a node without edges keeps such an index as it is.            *)
LEMMA LinkFinds ==
  ASSUME NEW ix, Formed(ix), NEW V, Whole(ix, V), NEW id \in DOMAIN ix.nodes,
         Unlinked(ix, id), ix.entryPoint # None, ~ Hides(Link(ix, id))
  PROVE  LET r == Link(ix, id) IN
         /\ Whole(r, V)
         /\ Findable(ix) \subseteq Findable(r)
         /\ id \in Live(r) => id \in Findable(r)
<1> DEFINE chosen == Chosen(ix, id)
           r == Link(ix, id)
<1>1. /\ Tied(ix, r) /\ r.entryPoint \in {ix.entryPoint, id}
      /\ \A i \in DOMAIN ix.nodes :
           r.nodes[i].links =
             IF chosen # {} /\ i \in chosen \cup {id} THEN "full"
             ELSE IF i = id /\ ix.nodes[id].links = "none" THEN "alone"
             ELSE ix.nodes[i].links
  BY LinkLinks DEF Unlinked
<1>2. /\ ix.entryPoint \in Findable(ix)
      /\ chosen = Findable(ix) \ {id} /\ id # ix.entryPoint
  BY WholeFinds DEF Chosen, Unlinked
<1> HIDE DEF chosen, r
<1>3. ix.entryPoint \in chosen
  BY <1>2
<1>4. \A i \in DOMAIN ix.nodes :
        r.nodes[i].links = IF i \in chosen \cup {id} THEN "full" ELSE ix.nodes[i].links
  BY <1>1, <1>3
<1>5. /\ Formed(r) /\ DOMAIN r.nodes = DOMAIN ix.nodes /\ r.vectors = ix.vectors
      /\ Dead(r) = Dead(ix)
  BY <1>1 DEF Tied, Same
<1>6. Live(r) = Live(ix) /\ Live(ix) \subseteq DOMAIN ix.nodes
  BY <1>5, LiveNotDead
<1>7. None \notin DOMAIN ix.nodes
  BY DatabaseAssumption DEF Formed
<1>8. r.entryPoint # None
  BY <1>1, <1>7
<1>9. ASSUME NEW i \in DOMAIN ix.nodes
      PROVE  /\ r.nodes[i].links # "alone"
             /\ r.nodes[i].links = "out" => r.vectors[i] \in V
  <2>1. /\ ix.nodes[i].links # "alone"
        /\ ix.nodes[i].links = "out" => ix.vectors[i] \in V
    BY DEF Whole, Fit
  <2>2. QED
    BY <2>1, <1>4, <1>5
<1>10. ASSUME NEW i \in Live(ix)
       PROVE  i = r.entryPoint \/ r.nodes[i].links \in {"none", "full"}
  <2>1. i = ix.entryPoint \/ ix.nodes[i].links \in {"none", "full"}
    BY DEF Whole
  <2>2. QED
    BY <2>1, <1>3, <1>4, <1>6
<1>11. Whole(r, V)
  BY <1>5, <1>6, <1>8, <1>9, <1>10 DEF Whole, Fit, r
<1>12. Findable(ix) \subseteq Live(ix)
  BY DEF Findable
<1>13. \A i \in Live(r) : r.nodes[i].links = "full" => i \in Findable(r)
  BY <1>5, <1>11, WholeFinds
<1>14. QED
  BY <1>2, <1>4, <1>6, <1>11, <1>12, <1>13 DEF r

(* So does the record of a delete, except for the node it deletes.         *)
LEMMA TombstoneFinds ==
  ASSUME NEW ix, Formed(ix), NEW V, Whole(ix, V), NEW id \in Live(ix),
         ~ Hides(Tombstone(ix, id))
  PROVE  LET r == Tombstone(ix, id) IN
         /\ Whole(r, V)
         /\ Findable(ix) \cap Live(r) \subseteq Findable(r)
<1> DEFINE r == Tombstone(ix, id)
<1>1. id \in DOMAIN ix.nodes
  BY DEF Live
<1>2. /\ Formed(r) /\ Same(ix, r) /\ Dead(r) = Dead(ix) \cup {id}
      /\ \A i \in DOMAIN ix.nodes : r.nodes[i].links = ix.nodes[i].links
      /\ id # ix.entryPoint => r.entryPoint = ix.entryPoint
      /\ id = ix.entryPoint => r.entryPoint \in Live(r) \/ (r.entryPoint = None /\ Live(r) = {})
  BY DatabaseAssumption, <1>1, TombstoneLinks
<1> HIDE DEF r
<1>3. DOMAIN r.nodes = DOMAIN ix.nodes /\ r.vectors = ix.vectors
  BY <1>2 DEF Same
<1>4. Live(r) = Live(ix) \ {id} /\ Live(ix) \subseteq DOMAIN ix.nodes
  BY <1>2, <1>3, LiveNotDead
<1>5. Findable(ix) \subseteq Live(ix)
  BY DEF Findable
<1>6. \A i \in Live(ix) : i = ix.entryPoint \/ ix.nodes[i].links \in {"none", "full"}
  BY DEF Whole
<1>7. Fit(r, V)
  <2>1. r.entryPoint = None => Live(r) = {}
    <3>1. CASE id # ix.entryPoint
      BY <3>1, <1>2, <1>4 DEF Whole, Fit
    <3>2. CASE id = ix.entryPoint
      <4>1. None \notin Live(r)
        BY <1>4, DatabaseAssumption DEF Formed
      <4>2. QED
        BY <3>2, <4>1, <1>2
    <3>3. QED
      BY <3>1, <3>2
  <2>2. \A i \in DOMAIN ix.nodes :
           /\ ix.nodes[i].links # "alone"
           /\ ix.nodes[i].links = "out" => ix.vectors[i] \in V
    BY DEF Whole, Fit
  <2>3. QED
    BY <2>1, <2>2, <1>2, <1>3 DEF Fit
<1>8. ASSUME NEW i \in Live(r)
      PROVE  i = r.entryPoint \/ r.nodes[i].links \in {"none", "full"}
  BY <1>2, <1>4, <1>6
<1>9. Whole(r, V)
  BY <1>7, <1>8 DEF Whole, r
<1>10. \A i \in Live(r) : i \in Findable(r) <=> i = r.entryPoint \/ r.nodes[i].links = "full"
  BY <1>2, <1>9, WholeFinds
<1>11. \A i \in Live(ix) : i \in Findable(ix) <=> i = ix.entryPoint \/ ix.nodes[i].links = "full"
  BY WholeFinds
<1>12. Findable(ix) \cap Live(r) \subseteq Findable(r)
  BY <1>2, <1>4, <1>5, <1>10, <1>11
<1>13. QED
  BY <1>9, <1>12 DEF r

(* And the record of an insert: its node is found, unless it is deleted.   *)
LEMMA InsertFinds ==
  ASSUME NEW ix, Formed(ix), NEW V, Whole(ix, V),
         NEW id \in Nat, NEW v, NEW level \in Nat,
         Unlinked(ix, id) => ix.entryPoint # None,
         ~ Hides(ReplayInsert(ix, id, v, level))
  PROVE  LET r == ReplayInsert(ix, id, v, level) IN
         /\ Whole(r, V)
         /\ Findable(ix) \subseteq Findable(r)
         /\ id \in Live(r) => id \in Findable(r)
<1> DEFINE r == ReplayInsert(ix, id, v, level)
<1>1. CASE id \in DOMAIN ix.nodes /\ Unlinked(ix, id)
  <2>1. r = Link(ix, id)
    BY <1>1 DEF ReplayInsert
  <2>2. QED
    BY <1>1, <2>1, LinkFinds
<1>2. CASE id \in DOMAIN ix.nodes /\ ~ Unlinked(ix, id)
  <2>1. r = ix
    BY <1>2 DEF ReplayInsert
  <2>2. id = ix.entryPoint \/ ix.nodes[id].links # "none"
    BY <1>2 DEF Unlinked
  <2>3. id \in Live(ix) => id = ix.entryPoint \/ ix.nodes[id].links = "full"
    BY <2>2 DEF Whole
  <2>4. QED
    BY <2>1, <2>3, WholeFinds
<1>3. CASE id \notin DOMAIN ix.nodes
  <2> DEFINE a == AddNode(ix, id, v, level)
  <2>1. r = Link(a, id)
    BY <1>3 DEF ReplayInsert
  <2>2. /\ Formed(a) /\ Keeps(ix, a) /\ DOMAIN a.nodes = DOMAIN ix.nodes \cup {id}
        /\ a.entryPoint = IF ix.entryPoint = None THEN id ELSE ix.entryPoint
    BY <1>3, AddNodeKeeps
  <2>3. /\ \A i \in DOMAIN ix.nodes : a.nodes[i] = ix.nodes[i]
        /\ a.nodes[id].links = "none" /\ ~ a.nodes[id].tombstone
        /\ Dead(a) = Dead(ix)
    BY <1>3, AddNodeLinks
  <2> HIDE DEF a
  <2>4. Live(a) = Live(ix) \cup {id} /\ Live(ix) \subseteq DOMAIN ix.nodes
    BY <2>2, <2>3, <1>3, LiveNotDead
  <2>5. \A i \in DOMAIN ix.nodes : a.vectors[i] = ix.vectors[i]
    BY <2>2 DEF Keeps, Holds
  <2>6. None \notin DOMAIN a.nodes
    BY <2>2, DatabaseAssumption DEF Formed
  <2>7. Fit(a, V)
    <3>1. a.entryPoint # None
      BY <2>2, <2>6
    <3>2. \A i \in DOMAIN ix.nodes :
             /\ ix.nodes[i].links # "alone"
             /\ ix.nodes[i].links = "out" => ix.vectors[i] \in V
      BY DEF Whole, Fit
    <3>3. QED
      BY <3>1, <3>2, <2>2, <2>3, <2>5 DEF Fit
  <2>8. CASE ix.entryPoint = None
    <3>1. r = a /\ a.entryPoint = id
      BY <2>1, <2>2, <2>8 DEF Link
    <3>2. Live(a) = {id}
      BY <2>4, <2>8 DEF Whole, Fit
    <3>3. Whole(r, V)
      <4>1. ~ Hides(a)
        BY <3>1
      <4>2. QED
        BY <4>1, <3>1, <3>2, <2>7 DEF Whole
    <3>4. Findable(ix) = {}
      BY <2>6, <2>2, <2>8 DEF Findable
    <3>5. id \in Findable(r)
      <4>1. a.entryPoint # None
        BY <3>1, <2>2, <2>6
      <4>2. QED
        BY <4>1, <3>1, <3>3, <2>2, WholeFinds
    <3>6. QED
      BY <3>3, <3>4, <3>5
  <2>9. CASE ix.entryPoint # None
    <3>1. a.entryPoint = ix.entryPoint /\ ix.entryPoint \in DOMAIN ix.nodes
      BY <2>2, <2>9 DEF Formed
    <3>2. Whole(a, V)
      <4>1. ~ DeadEntry(ix) /\ ~ BareEntry(ix)
        BY DEF Whole, Hides
      <4>2. ~ DeadEntry(a)
        BY <4>1, <3>1, <2>2, <2>4, <1>3 DEF DeadEntry
      <4>3. ~ BareEntry(a)
        <5>1. SUFFICES ASSUME BareEntry(a) PROVE FALSE
          OBVIOUS
        <5>2. PICK j \in Live(a) \ {a.entryPoint} : a.nodes[j].links # "none"
          BY <5>1 DEF BareEntry
        <5>3. j \in Live(ix) \ {ix.entryPoint} /\ ix.nodes[j].links # "none"
          BY <5>2, <3>1, <2>3, <2>4
        <5>4. ix.nodes[ix.entryPoint].links \in {"none", "alone"}
          BY <5>1, <3>1, <2>3 DEF BareEntry
        <5>5. QED
          BY <5>3, <5>4, <4>1, <3>1 DEF BareEntry
      <4>4. \A i \in Live(a) : i = a.entryPoint \/ a.nodes[i].links \in {"none", "full"}
        BY <3>1, <2>3, <2>4 DEF Whole
      <4>5. QED
        BY <4>2, <4>3, <4>4, <2>7 DEF Whole, Hides
    <3>3. Unlinked(a, id) /\ id \in DOMAIN a.nodes
      BY <3>1, <2>2, <2>3, <1>3 DEF Unlinked
    <3>4. ~ Hides(Link(a, id))
      BY <2>1
    <3>5. /\ Whole(r, V) /\ Findable(a) \subseteq Findable(r)
          /\ id \in Live(r) => id \in Findable(r)
      BY <2>1, <2>2, <2>9, <3>1, <3>2, <3>3, <3>4, LinkFinds
    <3>6. Findable(ix) \subseteq Findable(a)
      <4>1. /\ \A i \in Live(a) : i \in Findable(a) <=> i = a.entryPoint \/ a.nodes[i].links = "full"
            /\ \A i \in Live(ix) : i \in Findable(ix) <=> i = ix.entryPoint \/ ix.nodes[i].links = "full"
        BY <3>2, <2>2, WholeFinds
      <4>2. Findable(ix) \subseteq Live(ix)
        BY DEF Findable
      <4>3. QED
        BY <4>1, <4>2, <3>1, <2>3, <2>4
    <3>7. QED
      BY <3>5, <3>6
  <2>10. QED
    BY <2>8, <2>9
<1>4. QED
  BY <1>1, <1>2, <1>3

(* A record buries what it deletes, and holds nothing but what it inserts. *)
LEMMA RecordDead ==
  ASSUME NEW ix, Formed(ix), NEW record \in Records, NEW level \in Nat
  PROVE  LET r == ReplayRecord(ix, record, level) IN
         /\ record.op = "delete" => Dead(r) = Dead(ix) \cup (DOMAIN ix.nodes \cap {record.id})
         /\ record.op # "delete" => Dead(r) = Dead(ix)
         /\ Pairs(r) \subseteq Pairs(ix) \cup Inserted(record)
<1> DEFINE r  == ReplayRecord(ix, record, level)
           id == record.id
<1>1. id \in Nat /\ Pairs(ix) \subseteq Pairs(ix) \cup Inserted(record)
  BY DEF Records
<1>2. CASE record.op = "insert"
  <2>1. r = ReplayInsert(ix, id, record.vec, level)
    BY <1>2 DEF ReplayRecord
  <2>2. CASE id \notin DOMAIN ix.nodes
    <3> DEFINE a == AddNode(ix, id, record.vec, level)
    <3>1. r = Link(a, id)
      BY <2>1, <2>2 DEF ReplayInsert
    <3>2. /\ Formed(a) /\ id \in DOMAIN a.nodes
          /\ Dead(a) = Dead(ix) /\ Pairs(a) = Pairs(ix) \cup {<<id, record.vec>>}
      BY <1>1, <2>2, AddNodeKeeps, AddNodeLinks
    <3> HIDE DEF a
    <3>3. Tied(a, r)
      <4>1. CASE id = a.entryPoint
        BY <4>1, <3>1, <3>2, TiedSelf DEF Link
      <4>2. CASE id # a.entryPoint
        BY <4>2, <3>1, <3>2, LinkLinks
      <4>3. QED
        BY <4>1, <4>2
    <3>4. Pairs(r) = Pairs(a) /\ Dead(r) = Dead(a)
      BY <3>3, TiedPairs DEF Tied
    <3>5. <<id, record.vec>> \in Inserted(record)
      BY <1>2 DEF Inserted
    <3>6. QED
      BY <3>2, <3>4, <3>5, <1>2
  <2>3. CASE id \in DOMAIN ix.nodes /\ Unlinked(ix, id)
    <3>1. r = Link(ix, id) /\ id # ix.entryPoint
      BY <2>1, <2>3 DEF ReplayInsert, Unlinked
    <3>2. Tied(ix, r)
      BY <2>3, <3>1, LinkLinks
    <3>3. Pairs(r) = Pairs(ix) /\ Dead(r) = Dead(ix)
      BY <3>2, TiedPairs DEF Tied
    <3>4. QED
      BY <3>3, <1>1, <1>2
  <2>4. CASE id \in DOMAIN ix.nodes /\ ~ Unlinked(ix, id)
    <3>1. r = ix
      BY <2>1, <2>4 DEF ReplayInsert
    <3>2. QED
      BY <3>1, <1>1, <1>2
  <2>5. QED
    BY <2>2, <2>3, <2>4
<1>3. CASE record.op = "delete" /\ id \in Live(ix)
  <2>1. r = Tombstone(ix, id) /\ id \in DOMAIN ix.nodes
    BY <1>3 DEF ReplayRecord, DeleteOf, Live
  <2>2. Same(ix, r) /\ Dead(r) = Dead(ix) \cup {id}
    BY DatabaseAssumption, <2>1, TombstoneLinks
  <2>3. Pairs(r) = Pairs(ix)
    BY <2>2 DEF Same, Pairs
  <2>4. QED
    BY <2>1, <2>2, <2>3, <1>1, <1>3
<1>4. CASE record.op # "insert" /\ ~ (record.op = "delete" /\ id \in Live(ix))
  <2>1. r = ix
    BY <1>4 DEF ReplayRecord, DeleteOf
  <2>2. record.op = "delete" => DOMAIN ix.nodes \cap {id} \subseteq Dead(ix)
    BY <1>4, LiveNotDead
  <2>3. QED
    BY <2>1, <2>2, <1>1
<1>5. QED
  BY <1>2, <1>3, <1>4

(* What a search finds before a record it finds after it, and the node that*)
(* the record inserts, unless they are deleted.                            *)
LEMMA RecordFinds ==
  ASSUME NEW ix, Formed(ix), NEW V, Whole(ix, V), NEW record \in Records, NEW level \in Nat,
         ~ ReplayRaises(ix, record), ~ Hides(ReplayRecord(ix, record, level))
  PROVE  LET r == ReplayRecord(ix, record, level) IN
         /\ Whole(r, V)
         /\ Findable(ix) \cap Live(r) \subseteq Findable(r)
         /\ record.op = "insert" /\ record.id \in Live(r) => record.id \in Findable(r)
<1> DEFINE r  == ReplayRecord(ix, record, level)
           id == record.id
<1>1. id \in Nat /\ None \notin DOMAIN ix.nodes
  BY DatabaseAssumption DEF Records, Formed
<1>2. CASE record.op = "insert"
  <2>1. r = ReplayInsert(ix, id, record.vec, level)
    BY <1>2 DEF ReplayRecord
  <2>2. Unlinked(ix, id) => ix.entryPoint # None
    BY <1>1, <1>2 DEF ReplayRaises
  <2>3. /\ Whole(r, V)
        /\ Findable(ix) \subseteq Findable(r)
        /\ id \in Live(r) => id \in Findable(r)
    BY <2>1, <2>2, <1>1, InsertFinds
  <2>4. QED
    BY <2>3, <1>2
<1>3. CASE record.op = "delete" /\ id \in Live(ix)
  <2>1. r = Tombstone(ix, id)
    BY <1>3 DEF ReplayRecord, DeleteOf
  <2>2. QED
    BY <2>1, <1>3, TombstoneFinds
<1>4. CASE record.op # "insert" /\ ~ (record.op = "delete" /\ id \in Live(ix))
  <2>1. r = ix
    BY <1>4 DEF ReplayRecord, DeleteOf
  <2>2. QED
    BY <2>1, <1>4
<1>5. QED
  BY <1>2, <1>3, <1>4
-----------------------------------------------------------------------------
(* What a log does                                                         *)

(* The ids of the delete records of a log.                                 *)
Deletes(log) == {log[k].id : k \in {j \in DOMAIN log : log[j].op = "delete"}}
Deleted(record) == IF record.op = "delete" THEN {record.id} ELSE {}

(* When the record of a delete is applied, its node is there.              *)
Timely(s, log) ==
  \A k \in DOMAIN log :
     log[k].op = "delete" =>
       log[k].id \in DOMAIN s.nodes \cup {p[1] : p \in Inserts(SubSeq(log, 1, k - 1))}

LEMMA PrefixRecords ==
  ASSUME NEW log \in Seq(Records), NEW k \in 1..Len(log)
  PROVE  /\ Inserts(SubSeq(log, 1, k)) = Inserts(SubSeq(log, 1, k - 1)) \cup Inserted(log[k])
         /\ Deletes(SubSeq(log, 1, k)) = Deletes(SubSeq(log, 1, k - 1)) \cup Deleted(log[k])
         /\ Torn(SubSeq(log, 1, k)) <=> Torn(SubSeq(log, 1, k - 1)) \/ log[k].op = "torn"
         /\ SubSeq(log, 1, k) \in Seq(Records) /\ log[k] \in Records
<1> DEFINE p == SubSeq(log, 1, k)
           q == SubSeq(log, 1, k - 1)
<1>1. /\ p \in Seq(Records) /\ DOMAIN p = 1..k /\ DOMAIN q = 1..(k - 1)
      /\ \A j \in 1..k : p[j] = log[j]
      /\ \A j \in 1..(k - 1) : q[j] = log[j]
      /\ log[k] \in Records
  OBVIOUS
<1>2. \A j : j \in 1..k <=> j \in 1..(k - 1) \/ j = k
  OBVIOUS
<1> HIDE DEF p, q
<1>3. Inserts(p) = Inserts(q) \cup Inserted(log[k])
  BY <1>1, <1>2 DEF Inserts, Inserted
<1>4. Deletes(p) = Deletes(q) \cup Deleted(log[k])
  BY <1>1, <1>2 DEF Deletes, Deleted
<1>5. Torn(p) <=> Torn(q) \/ log[k].op = "torn"
  BY <1>1, <1>2 DEF Torn
<1>6. QED
  BY <1>1, <1>3, <1>4, <1>5 DEF p, q

LEMMA EmptyPrefix ==
  ASSUME NEW log
  PROVE  /\ Inserts(SubSeq(log, 1, 0)) = {} /\ Deletes(SubSeq(log, 1, 0)) = {}
         /\ ~ Torn(SubSeq(log, 1, 0))
<1>1. SubSeq(log, 1, 0) = << >>
  OBVIOUS
<1>2. QED
  BY <1>1 DEF Inserts, Deletes, Torn

LEMMA PrefixIsPart ==
  ASSUME NEW log \in Seq(Records), NEW k \in 0..Len(log)
  PROVE  /\ SubSeq(log, 1, k) \in Seq(Records)
         /\ Inserts(SubSeq(log, 1, k)) \subseteq Inserts(log)
         /\ Deletes(SubSeq(log, 1, k)) \subseteq Deletes(log)
<1>1. SubSeq(log, 1, k) \in Seq(Records) /\ DOMAIN SubSeq(log, 1, k) = 1..k
      /\ \A j \in 1..k : SubSeq(log, 1, k)[j] = log[j] /\ j \in DOMAIN log
  OBVIOUS
<1>2. QED
  BY <1>1 DEF Inserts, Deletes
-----------------------------------------------------------------------------
(* What a restart makes of a prefix of the log                             *)

(* It is an index, and holds what the snapshot and the prefix hold.        *)
LEMMA RecoveredPart ==
  ASSUME NEW s, Formed(s), NEW log \in Seq(Records),
         OneEach(Inserts(log)), Agrees(s, Inserts(log)), NEW k \in 0..Len(log),
         NEW x \in Recovered(s, SubSeq(log, 1, k))
  PROVE  /\ Formed(x) /\ Keeps(s, x) /\ HoldsAll(x, Inserts(SubSeq(log, 1, k)))
         /\ ~ Torn(SubSeq(log, 1, k))
<1> DEFINE p == SubSeq(log, 1, k)
<1>1. p \in Seq(Records) /\ Inserts(p) \subseteq Inserts(log)
  BY PrefixIsPart
<1> HIDE DEF p
<1>2. OneEach(Inserts(p)) /\ Agrees(s, Inserts(p))
  BY <1>1 DEF OneEach, Agrees
<1>3. x \in Recovered(s, p)
  BY DEF p
<1>4. QED
  BY <1>1, <1>2, <1>3, RecoveredHolds DEF p

(* It has no nodes but theirs, and buries those whose deletes it has seen. *)
LEMMA RecoveredRecords ==
  ASSUME NEW s, Formed(s), NEW log \in Seq(Records),
         OneEach(Inserts(log)), Agrees(s, Inserts(log)), Timely(s, log)
  PROVE  \A k \in 0..Len(log) : \A x \in Recovered(s, SubSeq(log, 1, k)) :
            /\ Pairs(x) \subseteq Pairs(s) \cup Inserts(SubSeq(log, 1, k))
            /\ Dead(x) = Dead(s) \cup Deletes(SubSeq(log, 1, k))
<1> DEFINE p(k) == SubSeq(log, 1, k)
           Right(x, k) == /\ Pairs(x) \subseteq Pairs(s) \cup Inserts(p(k))
                          /\ Dead(x) = Dead(s) \cup Deletes(p(k))
           T == {k \in 0..Len(log) : \A x \in Recovered(s, p(k)) : Right(x, k)}
<1>1. Len(log) \in Nat /\ DOMAIN log = 1..Len(log)
  OBVIOUS
<1>2. 0 \in T
  <2>1. Right(s, 0)
    BY EmptyPrefix
  <2>2. Recovered(s, p(0)) = {s}
    BY RecoveredWhole
  <2> HIDE DEF Right, p
  <2>3. QED
    BY <1>1, <2>1, <2>2
<1>3. ASSUME NEW k \in 1..Len(log), k - 1 \in T
      PROVE  k \in T
  <2>1. ASSUME NEW y \in Recovered(s, p(k))
        PROVE  Right(y, k)
    <3> DEFINE record == log[k]
    <3>1. PICK x \in Recovered(s, p(k - 1)), level \in Levels : y = ReplayRecord(x, record, level)
      BY <2>1, RecoveredFrom
    <3>2. Right(x, k - 1)
      BY <1>3
    <3>3. /\ Inserts(p(k)) = Inserts(p(k - 1)) \cup Inserted(record)
          /\ Deletes(p(k)) = Deletes(p(k - 1)) \cup Deleted(record)
          /\ record \in Records
      BY PrefixRecords
    <3>4. Formed(x) /\ Keeps(s, x) /\ HoldsAll(x, Inserts(p(k - 1)))
      <4>1. k - 1 \in 0..Len(log)
        OBVIOUS
      <4>2. QED
        BY <4>1, <3>1, RecoveredPart
    <3>5. record.op = "delete" => record.id \in DOMAIN x.nodes
      <4>1. record.op = "delete" =>
               record.id \in DOMAIN s.nodes \cup {q[1] : q \in Inserts(p(k - 1))}
        BY <1>1 DEF Timely
      <4>2. DOMAIN s.nodes \subseteq DOMAIN x.nodes /\ \A q \in Inserts(p(k - 1)) : q[1] \in DOMAIN x.nodes
        BY <3>4 DEF Keeps, HoldsAll, Holds
      <4>3. QED
        BY <4>1, <4>2
    <3>6. level \in Nat
      BY DEF Levels
    <3> HIDE DEF record, p
    <3>7. /\ record.op = "delete" => Dead(y) = Dead(x) \cup (DOMAIN x.nodes \cap {record.id})
          /\ record.op # "delete" => Dead(y) = Dead(x)
          /\ Pairs(y) \subseteq Pairs(x) \cup Inserted(record)
      BY <3>1, <3>3, <3>4, <3>6, RecordDead
    <3>8. Dead(y) = Dead(s) \cup Deletes(p(k))
      BY <3>2, <3>3, <3>5, <3>7 DEF Deleted
    <3>9. Pairs(y) \subseteq Pairs(s) \cup Inserts(p(k))
      BY <3>2, <3>3, <3>7
    <3>10. QED
      BY <3>8, <3>9
  <2> HIDE DEF Right
  <2>2. QED
    BY <2>1, <1>1
<1>4. 0..Len(log) \subseteq T
  <2> HIDE DEF T
  <2>1. QED
    BY <1>1, <1>2, <1>3, UpTo
<1>5. QED
  BY <1>4

(* A restart finds what a search finds in the snapshot, and what the prefix*)
(* inserts, unless it is deleted: as long as nothing is hidden on the way. *)
LEMMA RecoveredFinds ==
  ASSUME NEW s, Formed(s), NEW log \in Seq(Records),
         OneEach(Inserts(log)), Agrees(s, Inserts(log)), NEW V, Whole(s, V),
         NEW n \in 0..Len(log),
         \A k \in 0..n : \A x \in Recovered(s, SubSeq(log, 1, k)) : ~ Hides(x)
  PROVE  \A k \in 0..n : \A x \in Recovered(s, SubSeq(log, 1, k)) :
            /\ Whole(x, V)
            /\ \A i \in Live(x) :
                 i \in Findable(s) \cup {q[1] : q \in Inserts(SubSeq(log, 1, k))} => i \in Findable(x)
<1> DEFINE p(k) == SubSeq(log, 1, k)
           Ids(k) == {q[1] : q \in Inserts(p(k))}
           Right(x, k) == /\ Whole(x, V)
                          /\ \A i \in Live(x) : i \in Findable(s) \cup Ids(k) => i \in Findable(x)
           T == {k \in 0..n : \A x \in Recovered(s, p(k)) : Right(x, k)}
<1>1. Len(log) \in Nat /\ n \in Nat /\ 0..n \subseteq 0..Len(log) /\ 1..n \subseteq 1..Len(log)
  OBVIOUS
<1>2. 0 \in T
  <2>1. Right(s, 0)
    BY EmptyPrefix
  <2>2. Recovered(s, p(0)) = {s}
    BY RecoveredWhole
  <2> HIDE DEF Right, p
  <2>3. QED
    BY <1>1, <2>1, <2>2
<1>3. ASSUME NEW k \in 1..n, k - 1 \in T
      PROVE  k \in T
  <2>1. ASSUME NEW y \in Recovered(s, p(k))
        PROVE  Right(y, k)
    <3> DEFINE record == log[k]
    <3>0. k \in 1..Len(log) /\ k - 1 \in 0..Len(log) /\ k \in 0..n
      BY <1>1
    <3>1. PICK x \in Recovered(s, p(k - 1)), level \in Levels :
             ~ ReplayRaises(x, record) /\ y = ReplayRecord(x, record, level)
      BY <2>1, <3>0, RecoveredFrom
    <3>2. Right(x, k - 1)
      BY <1>3
    <3>3. Inserts(p(k)) = Inserts(p(k - 1)) \cup Inserted(record) /\ record \in Records
      BY <3>0, PrefixRecords
    <3>4. Formed(x) /\ Keeps(s, x) /\ HoldsAll(x, Inserts(p(k - 1)))
      BY <3>0, <3>1, RecoveredPart
    <3>5. level \in Nat /\ ~ Hides(y)
      BY <3>0, <2>1 DEF Levels
    <3> HIDE DEF record, p
    <3>6. /\ Whole(y, V)
          /\ Findable(x) \cap Live(y) \subseteq Findable(y)
          /\ record.op = "insert" /\ record.id \in Live(y) => record.id \in Findable(y)
      BY <3>1, <3>2, <3>3, <3>4, <3>5, RecordFinds
    <3>7. Dead(x) \subseteq Dead(y)
      BY <3>1, <3>3, <3>4, <3>5, RecordDead
    <3>8. ASSUME NEW i \in Live(y), i \in Findable(s) \cup Ids(k)
          PROVE  i \in Findable(y)
      <4>1. i \notin Dead(y)
        BY <3>8 DEF Dead, Live
      <4>2. ASSUME i \in Findable(s) \cup Ids(k - 1)
            PROVE  i \in Findable(y)
        <5>1. i \in DOMAIN x.nodes
          <6>1. i \in Findable(s) => i \in DOMAIN s.nodes
            BY DEF Findable, Live
          <6>2. QED
            BY <6>1, <4>2, <3>4 DEF Keeps, HoldsAll, Holds
        <5>2. i \in Live(x)
          BY <5>1, <4>1, <3>4, <3>7, LiveNotDead
        <5>3. QED
          BY <5>2, <4>2, <3>2, <3>6, <3>8
      <4>3. CASE i \in {q[1] : q \in Inserted(record)}
        <5>1. record.op = "insert" /\ i = record.id
          BY <4>3 DEF Inserted
        <5>2. QED
          BY <5>1, <3>6, <3>8
      <4>4. QED
        BY <3>3, <3>8, <4>2, <4>3
    <3>9. QED
      BY <3>6, <3>8
  <2> HIDE DEF Right
  <2>2. QED
    BY <2>1, <1>1
<1>4. 0..n \subseteq T
  <2> HIDE DEF T
  <2>1. QED
    BY <1>1, <1>2, <1>3, UpTo
<1>5. QED
  BY <1>4

(* A restart succeeds, unless it is doomed.                                *)
LEMMA RecoveredSome ==
  ASSUME NEW s, Formed(s), NEW log \in Seq(Records),
         OneEach(Inserts(log)), Agrees(s, Inserts(log)), ~ Torn(log),
         \A k \in DOMAIN log : \A x \in Recovered(s, SubSeq(log, 1, k - 1)) :
            ~ (log[k].op = "insert" /\ Unlinked(x, log[k].id) /\ x.entryPoint = None)
  PROVE  Recovered(s, log) # {}
<1> DEFINE p(k) == SubSeq(log, 1, k)
           T == {k \in 0..Len(log) : Recovered(s, p(k)) # {}}
<1>1. Len(log) \in Nat /\ DOMAIN log = 1..Len(log)
  OBVIOUS
<1>2. Recovered(s, p(0)) = {s} /\ p(Len(log)) = log
  BY RecoveredWhole
<1>3. 0 \in T
  <2> HIDE DEF p
  <2>1. Recovered(s, p(0)) # {} /\ 0 \in 0..Len(log)
    BY <1>1, <1>2
  <2>2. QED
    BY <2>1
<1>4. ASSUME NEW k \in 1..Len(log), k - 1 \in T
      PROVE  k \in T
  <2>1. PICK x \in Recovered(s, p(k - 1)) : TRUE
    BY <1>4
  <2>2. Formed(x)
    <3>1. k - 1 \in 0..Len(log)
      OBVIOUS
    <3>2. QED
      BY <3>1, <2>1, RecoveredPart
  <2>3. ~ ReplayRaises(x, log[k])
    <3>1. x.entryPoint \notin DOMAIN x.nodes => x.entryPoint = None
      BY <2>2 DEF Formed
    <3>2. log[k].op # "torn"
      BY <1>1 DEF Torn
    <3>3. QED
      BY <3>1, <3>2, <2>1, <1>1 DEF ReplayRaises
  <2>4. 0 \in Levels
    BY DatabaseAssumption DEF Levels
  <2>5. ReplayRecord(x, log[k], 0) \in Replayed(Recovered(s, p(k - 1)), log[k])
    BY <2>1, <2>3, <2>4 DEF Replayed
  <2>6. Recovered(s, p(k)) = Replayed(Recovered(s, p(k - 1)), log[k])
    BY RecoveredStep
  <2>7. QED
    BY <2>5, <2>6, <1>1
<1> HIDE DEF T
<1>5. Len(log) \in T
  <2>1. 0..Len(log) \subseteq T
    BY <1>1, <1>3, <1>4, UpTo
  <2>2. QED
    BY <2>1, <1>1
<1>6. QED
  BY <1>2, <1>5 DEF T

(* The index finds the same as s; and it finds all that is connected,      *)
(* unless every start of it fails on a node that is not.                   *)
Alike(s, x) ==
  /\ Tied(s, x) /\ Findable(x) = Findable(s)
  /\ x.entryPoint = None \/ \A i \in Live(x) : x.nodes[i].links = "full" => i \in Findable(x)

(* link() of a dead node changes nothing that a search can see.            *)
LEMMA LinkAlike ==
  ASSUME NEW s, NEW x, Alike(s, x), Formed(x),
         NEW id \in Dead(x), id # x.entryPoint, x.entryPoint # None
  PROVE  Alike(s, Link(x, id))
<1> DEFINE chosen == Chosen(x, id)
           r == Link(x, id)
<1>1. id \in DOMAIN x.nodes /\ id \notin Live(x) /\ Live(x) \subseteq DOMAIN x.nodes
  BY DEF Dead, Live
<1>2. /\ Tied(x, r) /\ r.entryPoint \in {x.entryPoint, id}
      /\ \A i \in DOMAIN x.nodes :
           r.nodes[i].links =
             IF chosen # {} /\ i \in chosen \cup {id} THEN "full"
             ELSE IF i = id /\ x.nodes[id].links = "none" THEN "alone"
             ELSE x.nodes[i].links
  BY <1>1, LinkLinks
<1>3. Findable(x) \subseteq Live(x)
  BY DEF Findable
<1>4. chosen = Findable(x)
  BY <1>1, <1>3 DEF Chosen
<1>5. \A i \in Live(x) : x.nodes[i].links = "full" => i \in Findable(x)
  BY DEF Alike
<1>6. Formed(r) /\ DOMAIN r.nodes = DOMAIN x.nodes /\ Dead(r) = Dead(x)
  BY <1>2 DEF Tied, Same
<1>7. Live(r) = Live(x)
  BY <1>6, LiveNotDead
<1>8. r.entryPoint \in DOMAIN r.nodes
  BY <1>1, <1>2, <1>6 DEF Formed
<1> HIDE DEF chosen, r
<1>9. Findable(r) = {i \in Live(x) : \/ i = r.entryPoint
                                     \/ /\ r.nodes[i].links = "full"
                                        /\ r.nodes[r.entryPoint].links \in {"out", "full"}}
  BY <1>7, <1>8 DEF Findable
<1>10. x.entryPoint \in DOMAIN x.nodes
  BY DEF Formed
<1>11. Findable(x) = {i \in Live(x) : \/ i = x.entryPoint
                                      \/ /\ x.nodes[i].links = "full"
                                         /\ x.nodes[x.entryPoint].links \in {"out", "full"}}
  BY <1>10 DEF Findable
<1>12. \A i \in Live(x) : r.nodes[i].links = "full" <=> x.nodes[i].links = "full" \/ i \in chosen
  BY <1>1, <1>2, <1>4
<1>13. \A i \in Live(x) : r.nodes[i].links = "full" => i \in Findable(x)
  BY <1>4, <1>5, <1>12
<1>14. \A i \in Live(x) : i = r.entryPoint => i \in Findable(x)
  BY <1>1, <1>2, <1>11
<1>15. ASSUME NEW i \in Findable(x)
       PROVE  i \in Findable(r)
  <2>1. i \in Live(x) /\ i \in chosen /\ r.nodes[i].links = "full"
    BY <1>1, <1>2, <1>3, <1>4
  <2>2. r.nodes[r.entryPoint].links \in {"out", "full"}
    <3>1. CASE r.entryPoint \in chosen \cup {id}
      BY <3>1, <2>1, <1>1, <1>2, <1>6, <1>8
    <3>2. CASE r.entryPoint \notin chosen \cup {id}
      <4>1. r.entryPoint = x.entryPoint /\ r.nodes[x.entryPoint].links = x.nodes[x.entryPoint].links
        BY <3>2, <1>2, <1>10
      <4>2. x.nodes[x.entryPoint].links \in {"out", "full"}
        BY <3>2, <4>1, <1>4, <1>11
      <4>3. QED
        BY <4>1, <4>2
    <3>3. QED
      BY <3>1, <3>2
  <2>3. QED
    BY <2>1, <2>2, <1>9
<1>16. Findable(r) = Findable(x)
  BY <1>9, <1>13, <1>14, <1>15
<1>17. Tied(s, r)
  BY <1>2, TiedTwice DEF Alike
<1>18. QED
  BY <1>7, <1>13, <1>16, <1>17 DEF Alike, r

(* Records whose outcome the snapshot has already, with a node that a      *)
(* search finds or that is dead, change nothing that a search can see.     *)
LEMMA RecoveredAlike ==
  ASSUME NEW s, Formed(s), NEW log \in Seq(Records), ~ Hides(s),
         HoldsAll(s, Inserts(log)), Deletes(log) \subseteq Dead(s),
         \A q \in Inserts(log) : q[1] \in Dead(s) \cup Findable(s)
  PROVE  \A x \in Recovered(s, log) : Alike(s, x)
<1> DEFINE p(k) == SubSeq(log, 1, k)
           T == {k \in 0..Len(log) : \A x \in Recovered(s, p(k)) : Alike(s, x)}
<1>1. Len(log) \in Nat /\ DOMAIN log = 1..Len(log)
  OBVIOUS
<1>2. Recovered(s, p(0)) = {s} /\ p(Len(log)) = log
  BY RecoveredWhole
<1>3. Alike(s, s)
  <2>1. ASSUME s.entryPoint # None, NEW i \in Live(s), s.nodes[i].links = "full"
        PROVE  i \in Findable(s)
    <3>1. s.entryPoint \in DOMAIN s.nodes /\ s.nodes[s.entryPoint].links \in {"none", "out", "alone", "full"}
      BY <2>1 DEF Formed, AnyNode
    <3>2. i # s.entryPoint => s.nodes[s.entryPoint].links \in {"out", "full"}
      BY <2>1, <3>1 DEF Hides, BareEntry
    <3>3. QED
      BY <2>1, <3>1, <3>2 DEF Findable
  <2>2. QED
    BY <2>1, TiedSelf DEF Alike
<1>4. 0 \in T
  <2> HIDE DEF p
  <2>1. QED
    BY <1>1, <1>2, <1>3
<1>5. ASSUME NEW k \in 1..Len(log), k - 1 \in T
      PROVE  k \in T
  <2>1. ASSUME NEW y \in Recovered(s, p(k))
        PROVE  Alike(s, y)
    <3> DEFINE record == log[k]
               id     == record.id
    <3>1. PICK x \in Recovered(s, p(k - 1)), level \in Levels :
             ~ ReplayRaises(x, record) /\ y = ReplayRecord(x, record, level)
      BY <2>1, RecoveredFrom
    <3>2. Alike(s, x)
      BY <1>5
    <3>3. /\ Formed(x) /\ DOMAIN x.nodes = DOMAIN s.nodes /\ Dead(x) = Dead(s)
          /\ Findable(x) = Findable(s)
      BY <3>2 DEF Alike, Tied, Same
    <3>4. CASE record.op = "insert"
      <4>1. <<id, record.vec>> \in Inserts(log)
        BY <3>4, <1>1 DEF Inserts
      <4>2. id \in DOMAIN x.nodes /\ id \in Dead(x) \cup Findable(x)
        <5>1. Holds(s, id, record.vec) /\ id \in Dead(s) \cup Findable(s)
          BY <4>1 DEF HoldsAll
        <5>2. QED
          BY <5>1, <3>3 DEF Holds
      <4>3. y = IF Unlinked(x, id) THEN Link(x, id) ELSE x
        BY <3>1, <3>4, <4>2 DEF ReplayRecord, ReplayInsert
      <4>4. CASE Unlinked(x, id)
        <5>1. x.entryPoint \in DOMAIN x.nodes /\ id # x.entryPoint /\ x.nodes[id].links = "none"
          BY <4>4, <3>1, <3>4 DEF ReplayRaises, Unlinked
        <5>2. id \notin Findable(x)
          BY <5>1 DEF Findable
        <5>3. x.entryPoint # None
          BY <5>1, <3>3, DatabaseAssumption DEF Formed
        <5>4. QED
          BY <4>2, <4>3, <4>4, <5>1, <5>2, <5>3, <3>2, <3>3, LinkAlike
      <4>5. QED
        BY <4>3, <4>4, <3>2
    <3>5. CASE record.op # "insert"
      <4>1. record.op = "delete" => id \in Deletes(log)
        BY <1>1 DEF Deletes
      <4>2. record.op = "delete" => id \notin Live(x)
        BY <4>1, <3>3, LiveNotDead
      <4>3. y = x
        BY <3>1, <3>5, <4>2 DEF ReplayRecord, DeleteOf
      <4>4. QED
        BY <4>3, <3>2
    <3>6. QED
      BY <3>4, <3>5
  <2>2. QED
    BY <2>1, <1>1
<1> HIDE DEF T
<1>6. Len(log) \in T
  <2>1. 0..Len(log) \subseteq T
    BY <1>1, <1>4, <1>5, UpTo
  <2>2. QED
    BY <2>1, <1>1
<1>7. QED
  BY <1>2, <1>6 DEF T
-----------------------------------------------------------------------------
(* The invariant about rows and tombstones                                 *)

(* The ids and vectors that the files hold.                                *)
OnFile == Pairs(snapshot) \cup Inserts(wal)

(* No vector has two ids.                                                  *)
NoTwice(P) == \A p, q \in P : p[2] = q[2] => p[1] = q[1]

(* The vectors that a delete() has made, or will make, its caller believe  *)
(* to be gone: their records are written.                                  *)
Erased ==
  past.erased \cup
  {call[c].vec : c \in {d \in Clients : call[d].op = "delete"
                                        /\ call[d].at \notin {"idle", "tombstoned"}}}

(* All of V is dead in the index.                                          *)
Buries(ix, V) == \A v \in V : \E i \in Dead(ix) : ix.vectors[i] = v

(* The files: a delete record finds its node, and what is erased stays so. *)
FileDisk ==
  /\ past.logged \subseteq past.submitted /\ Vecs(snapshot) \subseteq past.submitted
  /\ NoTwice(OnFile)
  /\ \A i \in Dead(snapshot) : snapshot.vectors[i] \in past.erasing
  /\ \/ Torn(wal)
     \/ /\ Timely(snapshot, wal)
        /\ \A v \in Erased : \E i \in Dead(snapshot) \cup Deletes(wal) : <<i, v>> \in OnFile
        /\ \A i \in Deletes(wal) : \E v \in past.erasing : <<i, v>> \in OnFile

(* Memory is ahead of them, but for what no record names yet.              *)
FileMemory ==
  mode = "up" =>
    /\ Vecs(index) \subseteq past.submitted /\ NoTwice(Pairs(index))
    /\ Deletes(wal) \subseteq Dead(index) /\ Buries(index, Erased)
    /\ \A i \in Dead(index) : index.vectors[i] \in past.erasing
    /\ \/ Torn(wal)
       \/ \A i \in DOMAIN index.nodes :
            index.vectors[i] \in past.logged => <<i, index.vectors[i]>> \in OnFile

(* The replay is on its way through the log.                               *)
FileReplay ==
  mode = "replay" =>
    \E k \in 0..Len(wal) : /\ pending = SubSeq(wal, k + 1, Len(wal))
                           /\ index \in Recovered(snapshot, SubSeq(wal, 1, k))

(* What a call knows at each place.                                        *)
FileCall(c) ==
  LET k == call[c] IN
  /\ k.at = "reserved" => k.vec \in past.submitted \ past.logged
  /\ k.op = "insert" /\ k.at \notin {"idle", "reserved"} => k.vec \in past.logged
  /\ k.at = "tombstoned" => Holds(index, k.id, k.vec) /\ k.id \in Dead(index)
  /\ k.at = "captured" => /\ Deletes(wal) \subseteq Dead(k.image) /\ Buries(k.image, Erased)
                          /\ Dead(k.image) \subseteq Dead(index)
  /\ k.at = "saved" => /\ HoldsAll(snapshot, Inserts(wal))
                       /\ Deletes(wal) \subseteq Dead(snapshot) /\ Buries(snapshot, Erased)
                       /\ \A i \in DOMAIN index.nodes :
                            index.vectors[i] \in past.logged => Holds(snapshot, i, index.vectors[i])
                       /\ ~ Races(snapshot)

(* No two calls are on their way to log the same insert.                   *)
Apart ==
  \A c, d \in Clients :
     call[c].at = "reserved" /\ call[d].at = "reserved" /\ call[c].vec = call[d].vec => c = d

FileCore ==
  /\ FileDisk /\ FileMemory /\ FileReplay /\ Apart
  /\ \A c \in Clients : FileCall(c)
  /\ \A v \in Vectors : past.acked[v] # None => v \in past.logged

FileInv == Quiet => FileCore

(* The invariant about edges: nothing is hidden, and what is not found in  *)
(* the snapshot has its record in the log.                                 *)
LinkCore ==
  /\ Whole(snapshot, past.logged)
  /\ \/ Torn(wal)
     \/ \A i \in Live(snapshot) :
          snapshot.vectors[i] \in past.logged =>
            i \in Findable(snapshot) \/ <<i, snapshot.vectors[i]>> \in Inserts(wal)
  /\ mode = "up" => Fit(index, past.logged) /\ ~ DeadEntry(index)
  /\ mode = "replay" => Whole(index, past.logged)
  /\ \A c \in Clients : call[c].at = "captured" => Fit(call[c].image, past.logged)

LinkInv == Quiet /\ ~ past.stranded => LinkCore
-----------------------------------------------------------------------------
(* What the invariants say of the next start                               *)

(* It makes something of the files, and knows the dead from the living.    *)
LEMMA DiskFacts ==
  ASSUME Core, FileCore, NEW ix \in OnDisk
  PROVE  /\ Formed(ix) /\ ~ Torn(wal)
         /\ \A p \in OnFile : Holds(ix, p[1], p[2])
         /\ Pairs(ix) \subseteq OnFile
         /\ Dead(ix) = Dead(snapshot) \cup Deletes(wal)
<1>1. /\ wal \in Seq(Records) /\ Formed(snapshot)
      /\ OneEach(Inserts(wal)) /\ Agrees(snapshot, Inserts(wal))
  BY DEF Core, DiskInv
<1>2. ix \in Recovered(snapshot, wal)
  BY DEF OnDisk
<1>3. Formed(ix) /\ Keeps(snapshot, ix) /\ HoldsAll(ix, Inserts(wal)) /\ ~ Torn(wal)
  BY <1>1, <1>2, RecoveredHolds
<1>4. Timely(snapshot, wal)
  BY <1>3 DEF FileCore, FileDisk
<1>5. SubSeq(wal, 1, Len(wal)) = wal /\ Len(wal) \in 0..Len(wal)
  BY <1>1, RecoveredWhole
<1>6. /\ Pairs(ix) \subseteq Pairs(snapshot) \cup Inserts(wal)
      /\ Dead(ix) = Dead(snapshot) \cup Deletes(wal)
  <2> DEFINE n == Len(wal)
  <2>1. ix \in Recovered(snapshot, SubSeq(wal, 1, n)) /\ n \in 0..n
    BY <1>2, <1>5
  <2>2. \A k \in 0..n : \A x \in Recovered(snapshot, SubSeq(wal, 1, k)) :
           /\ Pairs(x) \subseteq Pairs(snapshot) \cup Inserts(SubSeq(wal, 1, k))
           /\ Dead(x) = Dead(snapshot) \cup Deletes(SubSeq(wal, 1, k))
    BY <1>1, <1>4, RecoveredRecords
  <2>3. /\ Pairs(ix) \subseteq Pairs(snapshot) \cup Inserts(SubSeq(wal, 1, n))
        /\ Dead(ix) = Dead(snapshot) \cup Deletes(SubSeq(wal, 1, n))
    <3> HIDE DEF n
    <3>1. QED
      BY <2>1, <2>2
  <2>4. QED
    BY <2>3, <1>5
<1>7. \A p \in OnFile : Holds(ix, p[1], p[2])
  BY <1>3 DEF OnFile, Pairs, Keeps, HoldsAll
<1>8. QED
  BY <1>3, <1>6, <1>7 DEF OnFile

LEMMA DeletesAreKept ==
  ASSUME Core, FileCore
  PROVE  AckedDeletesKept
<1>1. SUFFICES ASSUME NEW v \in past.erased, NEW ix \in OnDisk, v \in Contents(ix)
               PROVE  FALSE
  BY DEF AckedDeletesKept, Remaining
<1>2. /\ Formed(ix) /\ ~ Torn(wal) /\ Pairs(ix) \subseteq OnFile
      /\ Dead(ix) = Dead(snapshot) \cup Deletes(wal)
  BY DiskFacts
<1>3. PICK j \in Findable(ix) : v = Row(ix, j)
  BY <1>1 DEF Contents
<1>4. j \in Live(ix) /\ j \in DOMAIN ix.nodes
  BY DEF Findable, Live
<1>5. <<j, v>> \in Pairs(ix)
  <2>1. v = ix.vectors[j]
    BY <1>2, <1>3, <1>4 DEF Row, Formed
  <2>2. QED
    BY <2>1, <1>4 DEF Pairs
<1>6. v \in Erased
  BY DEF Erased
<1>7. PICK i \in Dead(ix) : <<i, v>> \in OnFile
  BY <1>2, <1>6 DEF FileCore, FileDisk
<1>8. i = j
  <2>1. NoTwice(OnFile)
    BY DEF FileCore, FileDisk
  <2>2. QED
    BY <2>1, <1>2, <1>5, <1>7 DEF NoTwice
<1>9. QED
  BY <1>2, <1>4, <1>7, <1>8, LiveNotDead

LEMMA InsertsAreKept ==
  ASSUME Core, FileCore, LinkCore, ~ Stranded, ~ Doomed
  PROVE  AckedInsertsKept
<1>1. SUFFICES ASSUME NEW v \in Vectors, past.acked[v] # None, v \notin past.erasing
               PROVE  v \in Durable
  BY DEF AckedInsertsKept
<1> DEFINE id == past.acked[v]
<1>2. /\ wal \in Seq(Records) /\ Formed(snapshot)
      /\ OneEach(Inserts(wal)) /\ Agrees(snapshot, Inserts(wal))
      /\ Torn(wal) \/ \A p \in Kept : Holds(snapshot, p[1], p[2]) \/ p \in Inserts(wal)
  BY DEF Core, DiskInv
<1>3. ~ Torn(wal)
  BY DEF Doomed, Unreadable, Torn
<1>4. v \in past.logged
  BY <1>1 DEF FileCore
<1>5. Holds(snapshot, id, v) \/ <<id, v>> \in Inserts(wal)
  <2>1. <<id, v>> \in Kept
    BY <1>1 DEF Kept, Told
  <2>2. QED
    BY <2>1, <1>2, <1>3
<1> HIDE DEF id
<1>6. <<id, v>> \in OnFile
  BY <1>5 DEF OnFile, Pairs, Holds
<1>7. ASSUME NEW w, <<id, w>> \in OnFile
      PROVE  w = v
  <2>1. \A p, q \in OnFile : p[1] = q[1] => p[2] = q[2]
    <3>1. \A p \in Pairs(snapshot) : p[1] \in DOMAIN snapshot.nodes /\ p[2] = snapshot.vectors[p[1]]
      BY DEF Pairs
    <3>2. QED
      BY <3>1, <1>2 DEF OnFile, OneEach, Agrees
  <2>2. QED
    BY <2>1, <1>6, <1>7
<1>8. id \notin Dead(snapshot)
  <2>1. SUFFICES ASSUME id \in Dead(snapshot) PROVE FALSE
    OBVIOUS
  <2>2. snapshot.vectors[id] \in past.erasing /\ <<id, snapshot.vectors[id]>> \in OnFile
    BY <2>1 DEF FileCore, FileDisk, OnFile, Pairs, Dead
  <2>3. QED
    BY <2>2, <1>1, <1>7
<1>9. id \notin Deletes(wal)
  <2>1. \A i \in Deletes(wal) : \E w \in past.erasing : <<i, w>> \in OnFile
    BY <1>3 DEF FileCore, FileDisk
  <2>2. QED
    BY <2>1, <1>1, <1>7
<1>10. id \in Findable(snapshot) \cup {p[1] : p \in Inserts(wal)}
  <2>1. CASE <<id, v>> \in Inserts(wal)
    BY <2>1
  <2>2. CASE <<id, v>> \notin Inserts(wal)
    <3>1. id \in Live(snapshot) /\ snapshot.vectors[id] = v
      BY <2>2, <1>2, <1>5, <1>8, LiveNotDead DEF Holds
    <3>2. QED
      BY <3>1, <2>2, <1>3, <1>4 DEF LinkCore
  <2>3. QED
    BY <2>1, <2>2
<1>11. ASSUME NEW ix \in OnDisk
       PROVE  v \in Contents(ix)
  <2>1. Formed(ix) /\ Holds(ix, id, v) /\ Dead(ix) = Dead(snapshot) \cup Deletes(wal)
    BY <1>6, DiskFacts
  <2>2. id \in Live(ix)
    BY <2>1, <1>8, <1>9, LiveNotDead DEF Holds
  <2>3. id \in Findable(ix)
    <3> DEFINE n == Len(wal)
    <3>1. SubSeq(wal, 1, n) = wal /\ n \in 0..n
      BY <1>2, RecoveredWhole
    <3>2. \A k \in 0..n : \A x \in Recovered(snapshot, SubSeq(wal, 1, k)) : ~ Hides(x)
      BY DEF Stranded
    <3>3. Whole(snapshot, past.logged)
      BY DEF LinkCore
    <3>4. ix \in Recovered(snapshot, SubSeq(wal, 1, n))
      BY <3>1 DEF OnDisk
    <3>5. \A i \in Live(ix) :
             i \in Findable(snapshot) \cup {p[1] : p \in Inserts(SubSeq(wal, 1, n))} => i \in Findable(ix)
      <4> HIDE DEF n
      <4>1. n = Len(wal)
        BY DEF n
      <4>2. QED
        BY <4>1, <3>1, <3>2, <3>3, <3>4, <1>2, RecoveredFinds
    <3>6. QED
      BY <3>1, <3>5, <2>2, <1>10
  <2>4. Row(ix, id) = v
    BY <2>1 DEF Row, Holds, Formed
  <2>5. QED
    BY <2>3, <2>4 DEF Contents
<1>12. OnDisk # {}
  <2>1. \A k \in DOMAIN wal : \A x \in Recovered(snapshot, SubSeq(wal, 1, k - 1)) :
           ~ (wal[k].op = "insert" /\ Unlinked(x, wal[k].id) /\ x.entryPoint = None)
    BY DEF Doomed
  <2>2. QED
    BY <2>1, <1>2, <1>3, RecoveredSome DEF OnDisk
<1>13. QED
  BY <1>11, <1>12 DEF Durable, Remaining

LEMMA SavedIsAlike ==
  ASSUME Core, FileCore, NEW c \in Clients, call[c].at = "saved", NEW ix \in OnDisk
  PROVE  Contents(ix) = Contents(snapshot)
<1>1. /\ wal \in Seq(Records) /\ Formed(snapshot)
      /\ \A p \in Inserts(wal) : p[2] \in past.logged
  BY DEF Core, DiskInv
<1>2. /\ HoldsAll(snapshot, Inserts(wal)) /\ Deletes(wal) \subseteq Dead(snapshot)
      /\ ~ Races(snapshot)
  BY DEF FileCore, FileCall
<1>3. ~ Hides(snapshot)
  BY <1>2 DEF Races
<1>4. ASSUME NEW p \in Inserts(wal)
      PROVE  p[1] \in Dead(snapshot) \cup Findable(snapshot)
  <2>1. p[1] \in DOMAIN snapshot.nodes /\ snapshot.vectors[p[1]] \in past.logged
    BY <1>1, <1>2 DEF HoldsAll, Holds
  <2>2. QED
    BY <2>1, <1>1, <1>2, LiveNotDead DEF Races
<1>5. Alike(snapshot, ix)
  BY <1>1, <1>2, <1>3, <1>4, RecoveredAlike DEF OnDisk
<1>6. Findable(ix) = Findable(snapshot) /\ ix.vectors = snapshot.vectors
  BY <1>5 DEF Alike, Tied, Same
<1>7. QED
  BY <1>6 DEF Contents, Row
-----------------------------------------------------------------------------
(* The invariant about rows and tombstones: the steps in memory            *)

(* What the call makes its caller believe to be gone.                      *)
Believed(k) == {v \in {k.vec} : k.op = "delete" /\ k.at \notin {"idle", "tombstoned"}}

LEMMA ErasedAfter ==
  ASSUME Core, NEW c \in Clients, NEW k, call' = [call EXCEPT ![c] = k]
  PROVE  /\ Erased' \subseteq past'.erased \cup Erased \cup Believed(k)
         /\ Believed(call[c]) \subseteq Erased /\ past.erased \subseteq Erased
<1>1. call'[c] = k /\ \A d \in Clients : d # c => call'[d] = call[d]
  BY CoreFacts
<1>2. ASSUME NEW v \in Erased', v \notin past'.erased
      PROVE  v \in Erased \cup Believed(k)
  <2>1. PICK d \in Clients : /\ call'[d].op = "delete" /\ call'[d].at \notin {"idle", "tombstoned"}
                             /\ v = call'[d].vec
    BY <1>2 DEF Erased
  <2>2. CASE d = c
    BY <2>1, <2>2, <1>1 DEF Believed
  <2>3. CASE d # c
    BY <2>1, <2>3, <1>1 DEF Erased
  <2>4. QED
    BY <2>2, <2>3
<1>3. Believed(call[c]) \subseteq Erased /\ past.erased \subseteq Erased
  BY DEF Believed, Erased
<1>4. QED
  BY <1>2, <1>3

LEMMA FileDiskKept ==
  ASSUME FileDisk, wal' = wal, snapshot' = snapshot,
         past'.logged \subseteq past'.submitted, past.submitted \subseteq past'.submitted,
         past.erasing \subseteq past'.erasing, Erased' \subseteq Erased
  PROVE  FileDisk'
<1>1. OnFile' = OnFile
  BY DEF OnFile
<1>2. /\ Vecs(snapshot) \subseteq past.submitted /\ NoTwice(OnFile)
      /\ \A i \in Dead(snapshot) : snapshot.vectors[i] \in past.erasing
      /\ \/ Torn(wal)
         \/ /\ Timely(snapshot, wal)
            /\ \A v \in Erased : \E i \in Dead(snapshot) \cup Deletes(wal) : <<i, v>> \in OnFile
            /\ \A i \in Deletes(wal) : \E v \in past.erasing : <<i, v>> \in OnFile
  BY DEF FileDisk
<1>3. Vecs(snapshot) \subseteq past'.submitted
      /\ \A i \in Dead(snapshot) : snapshot.vectors[i] \in past'.erasing
  BY <1>2
<1>4. \/ Torn(wal)
      \/ /\ Timely(snapshot, wal)
         /\ \A v \in Erased' : \E i \in Dead(snapshot) \cup Deletes(wal) : <<i, v>> \in OnFile
         /\ \A i \in Deletes(wal) : \E v \in past'.erasing : <<i, v>> \in OnFile
  BY <1>2
<1>5. QED
  BY <1>1, <1>2, <1>3, <1>4 DEF FileDisk

(* A step of the call c that leaves the files alone.                       *)
LEMMA MemoryStep ==
  ASSUME Core, FileCore, mode = "up", mode' = "up", NEW c \in Clients, NEW k,
         call' = [call EXCEPT ![c] = k], wal' = wal, snapshot' = snapshot,
         past'.logged = past.logged, past.submitted \subseteq past'.submitted,
         past.erasing \subseteq past'.erasing, Erased' \subseteq Erased,
         Keeps(index, index'), Dead(index) \subseteq Dead(index'),
         \A i \in Dead(index') : index'.vectors[i] \in past'.erasing,
         Vecs(index') \subseteq past'.submitted, NoTwice(Pairs(index')),
         \A i \in DOMAIN index'.nodes \ DOMAIN index.nodes : index'.vectors[i] \notin past.logged,
         \A v \in Vectors : past'.acked[v] # None => v \in past.logged,
         k.at = "reserved" =>
           \A d \in Clients \ {c} : call[d].at = "reserved" => call[d].vec # k.vec,
         FileCall(c)'
  PROVE  FileCore'
<1>1. call'[c] = k /\ \A d \in Clients : d # c => call'[d] = call[d]
  BY CoreFacts
<1>2. /\ FileDisk /\ Apart /\ \A d \in Clients : FileCall(d)
      /\ Deletes(wal) \subseteq Dead(index) /\ Buries(index, Erased)
      /\ \/ Torn(wal)
         \/ \A i \in DOMAIN index.nodes :
              index.vectors[i] \in past.logged => <<i, index.vectors[i]>> \in OnFile
  BY DEF FileCore, FileMemory
<1>3. OnFile' = OnFile
  BY DEF OnFile
<1>4. \A i \in DOMAIN index'.nodes :
         index'.vectors[i] \in past.logged =>
           i \in DOMAIN index.nodes /\ index'.vectors[i] = index.vectors[i]
  BY DEF Keeps, Holds
<1>5. FileDisk'
  <2>1. past'.logged \subseteq past'.submitted
    BY <1>2 DEF FileDisk
  <2>2. QED
    BY <2>1, <1>2, FileDiskKept
<1>6. FileMemory'
  <2>1. Buries(index', Erased')
    <3>1. ASSUME NEW v \in Erased
          PROVE  \E i \in Dead(index') : index'.vectors[i] = v
      <4>1. PICK i \in Dead(index) : index.vectors[i] = v
        BY <1>2 DEF Buries
      <4>2. i \in Dead(index') /\ index'.vectors[i] = index.vectors[i]
        BY <4>1 DEF Dead, Keeps, Holds
      <4>3. QED
        BY <4>1, <4>2
    <3>2. QED
      BY <3>1 DEF Buries
  <2>2. Deletes(wal) \subseteq Dead(index')
    BY <1>2
  <2>3. \/ Torn(wal)
        \/ \A i \in DOMAIN index'.nodes :
             index'.vectors[i] \in past.logged => <<i, index'.vectors[i]>> \in OnFile
    BY <1>2, <1>4
  <2>4. QED
    BY <2>1, <2>2, <2>3, <1>3 DEF FileMemory
<1>7. FileReplay'
  BY DEF FileReplay
<1>8. Apart'
  BY <1>1, <1>2 DEF Apart
<1>9. ASSUME NEW d \in Clients, d # c
      PROVE  FileCall(d)'
  <2> DEFINE m == call[d]
  <2>1. call'[d] = m
    BY <1>1, <1>9
  <2>2. /\ m.at = "reserved" => m.vec \in past.submitted \ past.logged
        /\ m.op = "insert" /\ m.at \notin {"idle", "reserved"} => m.vec \in past.logged
        /\ m.at = "tombstoned" => Holds(index, m.id, m.vec) /\ m.id \in Dead(index)
        /\ m.at = "captured" => /\ Deletes(wal) \subseteq Dead(m.image) /\ Buries(m.image, Erased)
                                /\ Dead(m.image) \subseteq Dead(index)
        /\ m.at = "saved" => /\ HoldsAll(snapshot, Inserts(wal))
                             /\ Deletes(wal) \subseteq Dead(snapshot) /\ Buries(snapshot, Erased)
                             /\ \A i \in DOMAIN index.nodes :
                                  index.vectors[i] \in past.logged => Holds(snapshot, i, index.vectors[i])
                             /\ ~ Races(snapshot)
    BY <1>2 DEF FileCall
  <2> HIDE DEF m
  <2>3. m.at = "tombstoned" => Holds(index', m.id, m.vec) /\ m.id \in Dead(index')
    BY <2>2, HeldIsKept
  <2>4. m.at = "captured" => Buries(m.image, Erased') /\ Dead(m.image) \subseteq Dead(index')
    BY <2>2 DEF Buries
  <2>5. m.at = "saved" =>
          /\ Buries(snapshot, Erased')
          /\ \A i \in DOMAIN index'.nodes :
               index'.vectors[i] \in past.logged => Holds(snapshot, i, index'.vectors[i])
    BY <2>2, <1>4 DEF Buries
  <2>6. Races(snapshot)' <=> Races(snapshot)
    BY DEF Races
  <2>7. m.at = "reserved" => m.vec \in past'.submitted \ past'.logged
    BY <2>2
  <2>8. QED
    BY <2>1, <2>2, <2>3, <2>4, <2>5, <2>6, <2>7 DEF FileCall
<1>10. \A d \in Clients : FileCall(d)'
  BY <1>9
<1>11. QED
  BY <1>5, <1>6, <1>7, <1>8, <1>10 DEF FileCore

(* A call that holds no lock and no record to write.                       *)
LEMMA PlainCall ==
  ASSUME NEW c \in Clients, NEW k, call'[c] = k,
         k.at \notin {"reserved", "tombstoned", "captured", "saved"},
         k.op = "insert" /\ k.at # "idle" => k.vec \in past'.logged
  PROVE  FileCall(c)'
BY DEF FileCall

(* The step adds edges at most.                                            *)
LEMMA TiedStep ==
  ASSUME Core, FileCore, mode = "up", mode' = "up", NEW c \in Clients, NEW k,
         call' = [call EXCEPT ![c] = k], wal' = wal, snapshot' = snapshot,
         past'.logged = past.logged, past'.submitted = past.submitted,
         past'.erasing = past.erasing, Erased' \subseteq Erased,
         Tied(index, index'),
         \A v \in Vectors : past'.acked[v] # None => v \in past.logged,
         k.at # "reserved", FileCall(c)'
  PROVE  FileCore'
<1>1. /\ index'.vectors = index.vectors /\ DOMAIN index'.nodes = DOMAIN index.nodes
      /\ Dead(index') = Dead(index) /\ Pairs(index') = Pairs(index)
  BY TiedPairs DEF Tied, Same
<1>2. Keeps(index, index') /\ Vecs(index') = Vecs(index)
  BY <1>1 DEF Keeps, Holds, Vecs
<1>3. /\ Vecs(index) \subseteq past.submitted /\ NoTwice(Pairs(index))
      /\ \A i \in Dead(index) : index.vectors[i] \in past.erasing
  BY DEF FileCore, FileMemory
<1>4. QED
  BY <1>1, <1>2, <1>3, MemoryStep

(* A call that goes to another place makes nobody believe more.            *)
LEMMA MovedErases ==
  ASSUME Core, NEW c \in Clients, NEW k, call' = [call EXCEPT ![c] = k],
         past'.erased = past.erased,
         k.op = "delete" /\ k.at \notin {"idle", "tombstoned"} =>
           call[c].op = "delete" /\ call[c].at \notin {"idle", "tombstoned"} /\ k.vec = call[c].vec
  PROVE  Erased' \subseteq Erased
<1>1. Believed(k) \subseteq Believed(call[c])
  BY DEF Believed
<1>2. QED
  BY <1>1, ErasedAfter

(* What a call that returns tells its caller was so already.               *)
LEMMA ReturnedFiles ==
  ASSUME Core, FileCore, PastInv, NEW c \in Clients, Return(c),
         call[c].at \notin {"idle", "reserved", "tombstoned"}
  PROVE  /\ call' = [call EXCEPT ![c] = IdleCall]
         /\ past'.logged = past.logged /\ past'.submitted = past.submitted
         /\ past'.erasing = past.erasing /\ Erased' \subseteq Erased
         /\ \A v \in Vectors : past'.acked[v] # None => v \in past.logged
         /\ FileCall(c)'
<1>1. /\ call' = [call EXCEPT ![c] = IdleCall]
      /\ past'.logged = past.logged /\ past'.submitted = past.submitted
      /\ past'.erasing = past.erasing
      /\ past'.acked = [v \in Vectors |-> IF call[c].op = "insert" /\ v = call[c].vec
                                          THEN call[c].id ELSE past.acked[v]]
      /\ past'.erased = IF call[c].op = "delete" THEN past.erased \cup {call[c].vec} ELSE past.erased
  BY DEF Return, PastInv, IsPast
<1>2. /\ FileCall(c) /\ \A v \in Vectors : past.acked[v] # None => v \in past.logged
  BY DEF FileCore
<1>3. call[c].op = "insert" => call[c].vec \in past.logged
  BY <1>2 DEF FileCall
<1>4. \A v \in Vectors : past'.acked[v] # None => v \in past.logged
  BY <1>1, <1>2, <1>3
<1>5. IdleCall.at = "idle"
  BY DEF IdleCall
<1>6. Erased' \subseteq Erased
  <2>1. /\ Erased' \subseteq past'.erased \cup Erased \cup Believed(IdleCall)
        /\ Believed(call[c]) \subseteq Erased /\ past.erased \subseteq Erased
    BY <1>1, ErasedAfter
  <2>2. Believed(IdleCall) = {} /\ (call[c].op = "delete" => call[c].vec \in Believed(call[c]))
    BY <1>5 DEF Believed
  <2>3. QED
    BY <2>1, <2>2, <1>1
<1>7. call'[c] = IdleCall
  BY <1>1, CoreFacts
<1>8. FileCall(c)'
  BY <1>5, <1>7, PlainCall
<1>9. QED
  BY <1>1, <1>4, <1>6, <1>8

LEMMA IndexFiles ==
  ASSUME Core, FileCore, mode = "up"
  PROVE  /\ Formed(index) /\ Tied(index, index) /\ retired = << >> /\ Generation = 0
         /\ Vecs(index) \subseteq past.submitted /\ NoTwice(Pairs(index))
         /\ Deletes(wal) \subseteq Dead(index) /\ Buries(index, Erased)
         /\ \A i \in Dead(index) : index.vectors[i] \in past.erasing
         /\ \A d \in Clients : FileCall(d)
         /\ \A v \in Vectors : past.acked[v] # None => v \in past.logged
BY CoreFacts, TiedSelf DEF FileCore, FileMemory, MemoryInv, Generation

LEMMA LinkEntryPointFiles ==
  ASSUME Core, FileCore, NEW c \in Clients, LinkEntryPoint(c)
  PROVE  FileCore'
<1> DEFINE k == [call[c] EXCEPT !.at = "done"]
<1>1. /\ mode = "up" /\ mode' = "up" /\ call[c].at = "toLink" /\ call' = [call EXCEPT ![c] = k]
      /\ wal' = wal /\ snapshot' = snapshot /\ index' = index /\ past' = past
  BY DEF LinkEntryPoint, At, Goto, memory, files, startup
<1>2. k.at = "done" /\ k.op = call[c].op /\ k.vec = call[c].vec
  BY CoreFacts, Moved
<1> HIDE DEF k
<1>3. FileCall(c) /\ CallInv(c) /\ call'[c] = k
  BY <1>1, CoreFacts, IndexFiles
<1>4. k.op = "insert" /\ k.vec \in past.logged
  BY <1>1, <1>2, <1>3 DEF FileCall, CallInv
<1>5. FileCall(c)'
  BY <1>1, <1>2, <1>3, <1>4, PlainCall
<1>6. Erased' \subseteq Erased
  BY <1>1, <1>4, MovedErases
<1>7. QED
  BY <1>1, <1>2, <1>5, <1>6, IndexFiles, TiedStep

LEMMA StartLinkFiles ==
  ASSUME Core, FileCore, NEW c \in Clients, StartLink(c)
  PROVE  FileCore'
<1> DEFINE id     == call[c].id
           chosen == Chosen(index, id)
           k == [call[c] EXCEPT !.at = "linking", !.gen = Generation, !.top = index.maxLayer,
                                !.chosen = chosen, !.level = index.nodes[id].level]
<1>1. /\ mode = "up" /\ mode' = "up" /\ call[c].at = "toLink"
      /\ id \in DOMAIN index.nodes /\ index' = LinkOut(index, id, chosen)
      /\ call' = [call EXCEPT ![c] = k] /\ past' = past
      /\ wal' = wal /\ snapshot' = snapshot
  BY DEF StartLink, StartLinkIn, At, startup, files
<1>2. IsCall(call[c]) /\ FileCall(c) /\ CallInv(c)
  BY <1>1, CoreFacts, IndexFiles
<1>3. call[c].op = "insert" /\ call[c].vec \in past.logged
  BY <1>1, <1>2 DEF FileCall, CallInv
<1>4. k.at = "linking" /\ k.op = call[c].op /\ k.vec = call[c].vec
  BY <1>2 DEF IsCall, CallFields
<1> HIDE DEF k, chosen
<1>5. Tied(index, index')
  BY <1>1, CoreFacts, LinkOutLinks
<1>6. call'[c] = k
  BY <1>1, CoreFacts
<1>7. FileCall(c)'
  BY <1>1, <1>3, <1>4, <1>6, PlainCall
<1>8. Erased' \subseteq Erased
  BY <1>1, <1>3, <1>4, MovedErases
<1>9. QED
  BY <1>1, <1>4, <1>5, <1>7, <1>8, IndexFiles, TiedStep

LEMMA FinishLinkFiles ==
  ASSUME Core, FileCore, PastInv, NEW c \in Clients, FinishLink(c)
  PROVE  FileCore'
<1> DEFINE id     == call[c].id
           linked == IF call[c].gen = Generation THEN LinkBack(index, id, call[c].chosen) ELSE index
           k == [call[c] EXCEPT !.at = "done"]
<1>1. /\ mode = "up" /\ mode' = "up" /\ call[c].at = "linking"
      /\ index' = IF call[c].level > call[c].top THEN Promote(linked, id, call[c].level) ELSE linked
      /\ call' = [call EXCEPT ![c] = k]
      /\ past'.logged = past.logged /\ past'.submitted = past.submitted
      /\ past'.erasing = past.erasing /\ past'.erased = past.erased /\ past'.acked = past.acked
      /\ wal' = wal /\ snapshot' = snapshot
  BY DEF FinishLink, Goto, At, startup, files, PastInv, IsPast
<1>2. k.at = "done" /\ k.op = call[c].op /\ k.vec = call[c].vec
  BY CoreFacts, Moved
<1>3. FileCall(c) /\ CallInv(c)
  BY <1>1, CoreFacts, IndexFiles
<1>4. call[c].op = "insert" /\ call[c].vec \in past.logged
  BY <1>1, <1>3 DEF FileCall, CallInv
<1>5. Tied(index, linked) /\ Formed(linked)
  BY CoreFacts, TiedSelf, LinkBackLinks DEF Tied
<1>6. id \in DOMAIN linked.nodes
  <2>1. id \in DOMAIN index.nodes
    BY <1>1, <1>4, OwnIsHeld DEF Holds
  <2>2. QED
    BY <2>1, <1>5 DEF Tied, Same
<1> HIDE DEF k, linked
<1>7. Tied(index, index')
  <2>1. Tied(linked, Promote(linked, id, call[c].level))
    BY <1>5, <1>6, PromoteLinks
  <2>2. QED
    BY <2>1, <1>1, <1>5, TiedTwice
<1>8. call'[c] = k
  BY <1>1, CoreFacts
<1>9. FileCall(c)'
  BY <1>1, <1>2, <1>4, <1>8, PlainCall
<1>10. Erased' \subseteq Erased
  BY <1>1, <1>2, <1>4, MovedErases
<1>11. QED
  BY <1>1, <1>2, <1>7, <1>9, <1>10, IndexFiles, TiedStep

(* A call ends, with an exception or not.                                  *)
LEMMA EndFiles ==
  ASSUME Core, FileCore, PastInv, NEW c \in Clients, Raise(c) \/ Return(c),
         mode = "up", mode' = "up", index' = index, wal' = wal, snapshot' = snapshot,
         call[c].at \notin {"idle", "reserved", "tombstoned"}
  PROVE  FileCore'
<1>1. IdleCall.at = "idle"
  BY DEF IdleCall
<1>2. /\ call' = [call EXCEPT ![c] = IdleCall]
      /\ past'.logged = past.logged /\ past'.submitted = past.submitted
      /\ past'.erasing = past.erasing /\ Erased' \subseteq Erased
      /\ \A v \in Vectors : past'.acked[v] # None => v \in past.logged
      /\ FileCall(c)'
  <2>1. CASE Return(c)
    BY <2>1, ReturnedFiles
  <2>2. CASE Raise(c)
    <3>1. call' = [call EXCEPT ![c] = IdleCall] /\ past' = past
      BY <2>2 DEF Raise
    <3>2. Erased' \subseteq Erased
      BY <3>1, <1>1, MovedErases
    <3>3. call'[c] = IdleCall
      BY <3>1, CoreFacts
    <3>4. FileCall(c)'
      BY <3>3, <1>1, PlainCall
    <3>5. QED
      BY <3>1, <3>2, <3>4, IndexFiles
  <2>3. QED
    BY <2>1, <2>2
<1>3. QED
  BY <1>1, <1>2, IndexFiles, TiedStep

LEMMA EndingFiles ==
  ASSUME Core, FileCore, PastInv, NEW c \in Clients, LinkRaises(c) \/ SaveRaises(c)
  PROVE  FileCore'
<1>1. /\ mode = "up" /\ mode' = "up" /\ index' = index /\ wal' = wal /\ snapshot' = snapshot
      /\ Raise(c) /\ call[c].at \notin {"idle", "reserved", "tombstoned"}
  BY DEF LinkRaises, SaveRaises, At, memory, files, startup
<1>2. QED
  BY <1>1, EndFiles

LEMMA MaybeSnapshotFiles ==
  ASSUME Core, FileCore, PastInv, NEW c \in Clients, MaybeSnapshot(c)
  PROVE  FileCore'
<1>1. /\ mode = "up" /\ mode' = "up" /\ call[c].at = "done" /\ index' = index
      /\ wal' = wal /\ snapshot' = snapshot
      /\ Return(c) \/ (Goto(c, "snapshot") /\ past' = past)
  BY DEF MaybeSnapshot, At, memory, files, startup
<1>2. CASE Return(c)
  BY <1>1, <1>2, EndFiles
<1>3. CASE Goto(c, "snapshot") /\ past' = past
  <2> DEFINE k == [call[c] EXCEPT !.at = "snapshot"]
  <2>1. call' = [call EXCEPT ![c] = k]
    BY <1>3 DEF Goto
  <2>2. k.at = "snapshot" /\ k.op = call[c].op /\ k.vec = call[c].vec
    BY CoreFacts, Moved
  <2> HIDE DEF k
  <2>3. FileCall(c) /\ call'[c] = k
    BY <1>1, <2>1, CoreFacts, IndexFiles
  <2>4. k.op = "insert" => k.vec \in past.logged
    BY <1>1, <2>2, <2>3 DEF FileCall
  <2>5. FileCall(c)'
    BY <1>3, <2>2, <2>3, <2>4, PlainCall
  <2>6. Erased' \subseteq Erased
    BY <1>1, <1>3, <2>1, <2>2, MovedErases
  <2>7. QED
    BY <1>1, <1>3, <2>1, <2>2, <2>5, <2>6, IndexFiles, TiedStep
<1>4. QED
  BY <1>1, <1>2, <1>3

LEMMA CloseFiles ==
  ASSUME Core, FileCore, NEW c \in Clients, Close(c)
  PROVE  FileCore'
<1> DEFINE k == [IdleCall EXCEPT !.at = "snapshot", !.op = "close"]
<1>1. /\ mode = "up" /\ mode' = "up" /\ index' = index /\ past' = past
      /\ wal' = wal /\ snapshot' = snapshot /\ call' = [call EXCEPT ![c] = k]
  BY DEF Close, Serving, memory, files, startup
<1>2. k.at = "snapshot" /\ k.op = "close"
  BY DEF IdleCall
<1> HIDE DEF k
<1>3. call'[c] = k
  BY <1>1, CoreFacts
<1>4. FileCall(c)'
  BY <1>2, <1>3, PlainCall
<1>5. Erased' \subseteq Erased
  BY <1>1, <1>2, MovedErases
<1>6. QED
  BY <1>1, <1>2, <1>4, <1>5, IndexFiles, TiedStep

LEMMA CaptureFiles ==
  ASSUME Core, FileCore, PastInv, NEW c \in Clients, Capture(c)
  PROVE  FileCore'
<1> DEFINE k == [call[c] EXCEPT !.at = "captured", !.gen = Generation, !.image = index]
<1>1. /\ mode = "up" /\ mode' = "up" /\ call[c].at = "snapshot" /\ index' = index
      /\ wal' = wal /\ snapshot' = snapshot /\ call' = [call EXCEPT ![c] = k]
      /\ past'.logged = past.logged /\ past'.submitted = past.submitted
      /\ past'.erasing = past.erasing /\ past'.erased = past.erased /\ past'.acked = past.acked
  BY DEF Capture, CaptureLeaving, At, memory, startup, PastInv, IsPast
<1>2. k.at = "captured" /\ k.op = call[c].op /\ k.vec = call[c].vec /\ k.image = index
  BY CoreFacts DEF IsCall, CallFields
<1> HIDE DEF k
<1>3. FileCall(c) /\ call'[c] = k
  BY <1>1, CoreFacts, IndexFiles
<1>4. Erased' \subseteq Erased
  BY <1>1, <1>2, MovedErases
<1>5. FileCall(c)'
  <2>1. k.op = "insert" => k.vec \in past'.logged
    BY <1>1, <1>2, <1>3 DEF FileCall
  <2>2. Buries(index, Erased')
    BY <1>1, <1>4, IndexFiles DEF Buries
  <2>3. Deletes(wal) \subseteq Dead(index)
    BY <1>1, IndexFiles
  <2>4. QED
    BY <1>1, <1>2, <1>3, <2>1, <2>2, <2>3 DEF FileCall
<1>6. QED
  BY <1>1, <1>2, <1>4, <1>5, IndexFiles, TiedStep

(* reserve(): the vector is new.                                           *)
LEMMA InsertFiles ==
  ASSUME Core, FileCore, PastInv, NEW c \in Clients, Insert(c)
  PROVE  FileCore'
<1>1. PICK v \in Vectors \ past.submitted, level \in Levels :
        /\ index' = Reserve(index, v, level)
        /\ call' = [call EXCEPT ![c] = [IdleCall EXCEPT !.at = "reserved", !.op = "insert",
                                                        !.id = index.nextId, !.vec = v]]
        /\ past' = [past EXCEPT !.submitted = @ \cup {v}, !.seeds = @ \cup Seeded]
  BY DEF Insert
<1>2. mode = "up" /\ mode' = "up" /\ wal' = wal /\ snapshot' = snapshot
  BY DEF Insert, Serving, files, startup
<1>3. /\ past'.logged = past.logged /\ past'.submitted = past.submitted \cup {v}
      /\ past'.erasing = past.erasing /\ past'.erased = past.erased /\ past'.acked = past.acked
  BY <1>1 DEF PastInv, IsPast
<1> DEFINE n == index.nextId
           k == [IdleCall EXCEPT !.at = "reserved", !.op = "insert", !.id = n, !.vec = v]
<1>4. n \in Nat /\ n \notin DOMAIN index.nodes /\ level \in Nat /\ index' = AddNode(index, n, v, level)
  <2>1. n \in Nat /\ DOMAIN index.nodes \subseteq 0..(n - 1)
    BY CoreFacts DEF Formed
  <2>2. QED
    BY <1>1, <2>1 DEF Levels, Reserve
<1>5. /\ Keeps(index, index') /\ Holds(index', n, v)
      /\ DOMAIN index'.nodes = DOMAIN index.nodes \cup {n}
  BY <1>4, CoreFacts, AddNodeKeeps
<1>6. Dead(index') = Dead(index) /\ Pairs(index') = Pairs(index) \cup {<<n, v>>}
  BY <1>4, CoreFacts, AddNodeLinks
<1>7. k.at = "reserved" /\ k.op = "insert" /\ k.vec = v
  BY DEF IdleCall
<1>8. call' = [call EXCEPT ![c] = k]
  BY <1>1
<1> HIDE DEF k, n
<1>9. call'[c] = k
  BY <1>8, CoreFacts
<1>10. v \notin past.logged /\ v \notin Vecs(index)
  BY <1>2, IndexFiles DEF FileCore, FileDisk
<1>11. Vecs(index') \subseteq past'.submitted
  <2>1. \A i \in DOMAIN index'.nodes : index'.vectors[i] \in Vecs(index) \cup {v}
    BY <1>5 DEF Keeps, Holds, Vecs
  <2>2. QED
    BY <2>1, <1>2, <1>3, IndexFiles DEF Vecs
<1>12. NoTwice(Pairs(index'))
  <2>1. \A p \in Pairs(index) : p[2] \in Vecs(index)
    BY DEF Pairs, Vecs
  <2>2. NoTwice(Pairs(index))
    BY <1>2, IndexFiles
  <2>3. QED
    BY <2>1, <2>2, <1>6, <1>10 DEF NoTwice
<1>13. \A i \in Dead(index') : index'.vectors[i] \in past'.erasing
  BY <1>2, <1>3, <1>5, <1>6, IndexFiles DEF Dead, Keeps, Holds
<1>14. Erased' \subseteq Erased
  BY <1>3, <1>7, <1>8, MovedErases
<1>15. FileCall(c)'
  BY <1>3, <1>7, <1>9, <1>10 DEF FileCall
<1>16. \A d \in Clients \ {c} : call[d].at = "reserved" => call[d].vec # k.vec
  BY <1>2, <1>7, IndexFiles DEF FileCall
<1>17. \A i \in DOMAIN index'.nodes \ DOMAIN index.nodes : index'.vectors[i] \notin past.logged
  BY <1>5, <1>10 DEF Holds
<1>18. QED
  BY <1>2, <1>3, <1>5, <1>6, <1>8, <1>11, <1>12, <1>13, <1>14, <1>15, <1>16, <1>17,
     IndexFiles, MemoryStep

(* delete() in memory.                                                     *)
LEMMA DeleteFiles ==
  ASSUME Core, FileCore, PastInv, NEW c \in Clients, Delete(c)
  PROVE  FileCore'
<1>1. PICK id \in Live(index) :
        /\ index' = Tombstone(index, id)
        /\ call' = [call EXCEPT ![c] = [IdleCall EXCEPT !.at = "tombstoned", !.op = "delete",
                                                        !.id = id, !.vec = Row(index, id)]]
        /\ past' = [past EXCEPT !.erasing = @ \cup {Row(index, id)},
                                !.seeds = @ \cup Seeded,
                                !.stranded = @ \/ (id = index.entryPoint /\ BareEntry(index')),
                                !.crossed = @ \/ Compacting # {}]
  BY DEF Delete
<1>2. mode = "up" /\ mode' = "up" /\ wal' = wal /\ snapshot' = snapshot
  BY DEF Delete, Serving, files, startup
<1> DEFINE v == Row(index, id)
           k == [IdleCall EXCEPT !.at = "tombstoned", !.op = "delete", !.id = id, !.vec = v]
<1>3. /\ past'.logged = past.logged /\ past'.submitted = past.submitted
      /\ past'.erasing = past.erasing \cup {v} /\ past'.erased = past.erased
      /\ past'.acked = past.acked
  BY <1>1 DEF PastInv, IsPast
<1>4. id \in DOMAIN index.nodes /\ v = index.vectors[id]
  BY CoreFacts DEF Live, Row, Formed
<1>5. Same(index, index') /\ Dead(index') = Dead(index) \cup {id}
  BY <1>1, <1>4, DatabaseAssumption, CoreFacts, TombstoneLinks
<1>6. k.at = "tombstoned" /\ k.op = "delete" /\ k.id = id /\ k.vec = v
  BY DEF IdleCall
<1>7. call' = [call EXCEPT ![c] = k]
  BY <1>1
<1> HIDE DEF k, v
<1>8. call'[c] = k
  BY <1>7, CoreFacts
<1>9. /\ Pairs(index') = Pairs(index) /\ Vecs(index') = Vecs(index) /\ Keeps(index, index')
      /\ DOMAIN index'.nodes = DOMAIN index.nodes /\ index'.vectors = index.vectors
  BY <1>5 DEF Same, Pairs, Vecs, Keeps, Holds
<1>10. \A i \in Dead(index') : index'.vectors[i] \in past'.erasing
  BY <1>2, <1>3, <1>4, <1>5, <1>9, IndexFiles
<1>11. Erased' \subseteq Erased
  BY <1>3, <1>6, <1>7, MovedErases
<1>12. FileCall(c)'
  BY <1>4, <1>5, <1>6, <1>8, <1>9 DEF FileCall, Holds
<1>13. QED
  BY <1>2, <1>3, <1>5, <1>6, <1>7, <1>9, <1>10, <1>11, <1>12, IndexFiles, MemoryStep
-----------------------------------------------------------------------------
(* The invariant about rows and tombstones: log writes and crashes         *)

LEMMA LoggedDeletes ==
  ASSUME NEW log \in Seq(Records), NEW record \in Records
  PROVE  /\ Deletes(Logged(log, record)) \subseteq Deletes(log) \cup Deleted(record)
         /\ \/ Torn(Logged(log, record))
            \/ /\ Logged(log, record) = Append(log, record)
               /\ Deletes(Append(log, record)) = Deletes(log) \cup Deleted(record)
<1>1. ASSUME NEW l \in Seq(Records), NEW r \in Records
      PROVE  Deletes(Append(l, r)) = Deletes(l) \cup Deleted(r)
  <2> DEFINE n == Len(l)
             a == Append(l, r)
  <2>1. /\ n \in Nat /\ DOMAIN l = 1..n /\ DOMAIN a = 1..(n + 1)
        /\ a[n + 1] = r /\ \A k \in 1..n : a[k] = l[k]
    OBVIOUS
  <2> HIDE DEF n, a
  <2>2. \A k : k \in 1..(n + 1) <=> k \in 1..n \/ k = n + 1
    BY <2>1
  <2>3. Deletes(a) = Deletes(l) \cup Deleted(r)
    BY <2>1, <2>2 DEF Deletes, Deleted
  <2>4. QED
    BY <2>3 DEF a
<1>2. CASE log # << >> /\ ~ Last(log).ended
  <2>1. Logged(log, record) = Append(Front(log), TornRecord)
    BY <1>2 DEF Logged
  <2>2. TornRecord \in Records /\ TornRecord.op = "torn"
    BY DEF TornRecord, Record, Records
  <2>3. Front(log) \in Seq(Records)
    BY <1>2, FrontRecords
  <2>4. Torn(Logged(log, record))
    BY <2>1, <2>2, <2>3, AppendedRecords
  <2>5. Deletes(Front(log)) \subseteq Deletes(log)
    <3> DEFINE n == Len(log)
               f == Front(log)
    <3>1. /\ n \in Nat /\ n # 0 /\ DOMAIN log = 1..n /\ f \in Seq(Records)
          /\ DOMAIN f = 1..(n - 1) /\ \A k \in 1..(n - 1) : f[k] = log[k]
      BY <1>2 DEF Front
    <3> HIDE DEF n, f
    <3>2. \A k \in 1..(n - 1) : k \in 1..n
      BY <3>1
    <3>3. QED
      BY <3>1, <3>2 DEF Deletes, f
  <2>6. Deletes(Append(Front(log), TornRecord)) = Deletes(Front(log)) \cup Deleted(TornRecord)
    BY <2>2, <2>3, <1>1
  <2>7. Deleted(TornRecord) = {}
    BY <2>2 DEF Deleted
  <2>8. QED
    BY <2>1, <2>4, <2>5, <2>6, <2>7
<1>3. CASE ~ (log # << >> /\ ~ Last(log).ended)
  <2>1. Logged(log, record) = Append(log, record)
    BY <1>3 DEF Logged
  <2>2. QED
    BY <2>1, <1>1
<1>4. QED
  BY <1>2, <1>3

LEMMA AppendedTimely ==
  ASSUME NEW s, NEW log \in Seq(Records), NEW record \in Records, Timely(s, log),
         record.op = "delete" => record.id \in DOMAIN s.nodes \cup {p[1] : p \in Inserts(log)}
  PROVE  Timely(s, Append(log, record))
<1> DEFINE n == Len(log)
           a == Append(log, record)
<1>1. /\ n \in Nat /\ DOMAIN log = 1..n /\ DOMAIN a = 1..(n + 1)
      /\ a[n + 1] = record /\ \A k \in 1..n : a[k] = log[k]
  OBVIOUS
<1>2. \A k \in 1..(n + 1) : SubSeq(a, 1, k - 1) = SubSeq(log, 1, k - 1)
  <2>1. TAKE k \in 1..(n + 1)
  <2>2. /\ SubSeq(a, 1, k - 1) \in Seq(Records) /\ SubSeq(log, 1, k - 1) \in Seq(Records)
        /\ Len(SubSeq(a, 1, k - 1)) = k - 1 /\ Len(SubSeq(log, 1, k - 1)) = k - 1
        /\ \A j \in 1..(k - 1) : SubSeq(a, 1, k - 1)[j] = a[j] /\ SubSeq(log, 1, k - 1)[j] = log[j]
    OBVIOUS
  <2>3. \A j \in 1..(k - 1) : a[j] = log[j]
    BY <1>1
  <2> HIDE DEF a
  <2>4. QED
    BY <2>2, <2>3
<1>3. SubSeq(log, 1, (n + 1) - 1) = log
  OBVIOUS
<1>4. \A k \in 1..(n + 1) : k \in 1..n \/ k = n + 1
  BY <1>1
<1> HIDE DEF n, a
<1>5. ASSUME NEW k \in 1..(n + 1), a[k].op = "delete"
      PROVE  a[k].id \in DOMAIN s.nodes \cup {p[1] : p \in Inserts(SubSeq(a, 1, k - 1))}
  <2>1. SubSeq(a, 1, k - 1) = SubSeq(log, 1, k - 1)
    BY <1>2
  <2>2. CASE k \in 1..n
    BY <2>1, <2>2, <1>1, <1>5 DEF Timely
  <2>3. CASE k = n + 1
    BY <2>1, <2>3, <1>1, <1>3, <1>5
  <2>4. QED
    BY <2>2, <2>3, <1>4
<1>6. QED
  BY <1>1, <1>5 DEF Timely, a

(* Memory holds what is on file.                                           *)
LEMMA OnFileHeld ==
  ASSUME Core, mode = "up"
  PROVE  OnFile \subseteq Pairs(index) /\ \A p \in OnFile : Holds(index, p[1], p[2])
<1>1. Keeps(snapshot, index) /\ HoldsAll(index, Inserts(wal))
  BY DEF Core, MemoryInv
<1>2. \A p \in Inserts(wal) : p = <<p[1], p[2]>>
  BY DEF Inserts
<1>3. QED
  BY <1>1, <1>2 DEF OnFile, Pairs, Keeps, HoldsAll, Holds

(* What the write of a record makes of the file.                           *)
LEMMA WriteDisk ==
  ASSUME Core, FileCore, mode = "up", NEW record \in Records, NEW v,
         wal' = Logged(wal, record), snapshot' = snapshot,
         record.op = "insert" => Holds(index, record.id, record.vec),
         record.op = "delete" =>
           Holds(index, record.id, v) /\ v \in past.logged /\ v \in past.erasing,
         past'.submitted = past.submitted, past'.erasing = past.erasing,
         past'.logged \subseteq past.submitted,
         Erased' \subseteq Erased \cup {w \in {v} : record.op = "delete"}
  PROVE  /\ FileDisk' /\ OnFile' \subseteq Pairs(index)
         /\ \/ Torn(wal')
            \/ /\ ~ Torn(wal) /\ OnFile' = OnFile \cup Inserted(record)
               /\ record.op = "delete" => <<record.id, v>> \in OnFile
<1>1. wal \in Seq(Records)
  BY CoreFacts DEF DiskInv
<1>2. /\ Inserts(wal') \subseteq Inserts(wal) \cup Inserted(record)
      /\ Torn(wal) => Torn(wal')
      /\ Torn(wal') \/ Inserts(wal') = Inserts(wal) \cup Inserted(record)
  BY <1>1, LoggedRecords
<1>3. \/ Torn(wal')
      \/ wal' = Append(wal, record) /\ Deletes(wal') = Deletes(wal) \cup Deleted(record)
  BY <1>1, LoggedDeletes
<1>4. OnFile \subseteq Pairs(index) /\ NoTwice(Pairs(index))
  BY OnFileHeld, IndexFiles
<1>5. Inserted(record) \subseteq Pairs(index)
  BY DEF Inserted, Holds, Pairs
<1>6. /\ Vecs(snapshot) \subseteq past.submitted
      /\ \A i \in Dead(snapshot) : snapshot.vectors[i] \in past.erasing
      /\ \/ Torn(wal)
         \/ /\ Timely(snapshot, wal)
            /\ \A w \in Erased : \E i \in Dead(snapshot) \cup Deletes(wal) : <<i, w>> \in OnFile
            /\ \A i \in Deletes(wal) : \E w \in past.erasing : <<i, w>> \in OnFile
  BY DEF FileCore, FileDisk
<1>7. \/ Torn(wal)
      \/ \A i \in DOMAIN index.nodes :
           index.vectors[i] \in past.logged => <<i, index.vectors[i]>> \in OnFile
  BY DEF FileCore, FileMemory
<1>8. OnFile' = Pairs(snapshot) \cup Inserts(wal') /\ OnFile = Pairs(snapshot) \cup Inserts(wal)
  BY DEF OnFile
<1>9. OnFile' \subseteq Pairs(index)
  BY <1>2, <1>4, <1>5, <1>8
<1>10. NoTwice(OnFile')
  BY <1>4, <1>9 DEF NoTwice
<1>11. CASE Torn(wal')
  BY <1>6, <1>9, <1>10, <1>11 DEF FileDisk
<1>12. CASE ~ Torn(wal')
  <2>1. ~ Torn(wal) /\ OnFile' = OnFile \cup Inserted(record)
    BY <1>2, <1>8, <1>12
  <2>2. record.op = "delete" => <<record.id, v>> \in OnFile
    BY <1>7, <2>1 DEF Holds
  <2>3. Timely(snapshot, wal')
    <3>1. record.op = "delete" =>
             record.id \in DOMAIN snapshot.nodes \cup {p[1] : p \in Inserts(wal)}
      BY <2>2 DEF OnFile, Pairs
    <3>2. QED
      BY <3>1, <2>1, <1>1, <1>3, <1>6, <1>12, AppendedTimely
  <2>4. Deletes(wal') = Deletes(wal) \cup Deleted(record)
    BY <1>3, <1>12
  <2>5. ASSUME NEW w \in Erased'
        PROVE  \E i \in Dead(snapshot) \cup Deletes(wal') : <<i, w>> \in OnFile'
    <3>1. CASE w \in Erased
      BY <3>1, <2>1, <2>4, <1>6
    <3>2. CASE w = v /\ record.op = "delete"
      BY <3>2, <2>1, <2>2, <2>4 DEF Deleted
    <3>3. QED
      BY <3>1, <3>2
  <2>6. ASSUME NEW i \in Deletes(wal')
        PROVE  \E w \in past'.erasing : <<i, w>> \in OnFile'
    <3>1. CASE i \in Deletes(wal)
      BY <3>1, <2>1, <1>6
    <3>2. CASE i \in Deleted(record)
      BY <3>2, <2>1, <2>2 DEF Deleted
    <3>3. QED
      BY <3>1, <3>2, <2>4
  <2>7. FileDisk'
    BY <1>6, <1>10, <2>3, <2>5, <2>6 DEF FileDisk
  <2>8. QED
    BY <2>1, <2>2, <2>7, <1>9
<1>13. QED
  BY <1>11, <1>12

(* log_insert() and log_delete(), when no snapshot is being made.          *)
LEMMA LogFiles ==
  ASSUME Core, FileCore, mode = "up", mode' = "up", NEW c \in Clients, NEW k, NEW v,
         NEW record \in Records, call' = [call EXCEPT ![c] = k], index' = index,
         wal' = Logged(wal, record), snapshot' = snapshot, snapshotLock = None,
         record.op = "insert" =>
           Holds(index, record.id, record.vec) /\ call[c].at = "reserved" /\ record.vec = call[c].vec,
         record.op = "delete" => /\ Holds(index, record.id, v) /\ record.id \in Dead(index)
                                 /\ v \in past.logged,
         past'.submitted = past.submitted, past'.erasing = past.erasing, past'.acked = past.acked,
         past'.logged = past.logged \cup {p[2] : p \in Inserted(record)},
         Erased' \subseteq Erased \cup {w \in {v} : record.op = "delete"},
         k.at \notin {"idle", "reserved", "tombstoned", "captured", "saved"},
         FileCall(c)'
  PROVE  FileCore'
<1>1. call'[c] = k /\ \A d \in Clients : d # c => call'[d] = call[d]
  BY CoreFacts
<1>2. /\ Vecs(index) \subseteq past.submitted /\ NoTwice(Pairs(index))
      /\ Deletes(wal) \subseteq Dead(index) /\ Buries(index, Erased)
      /\ \A i \in Dead(index) : index.vectors[i] \in past.erasing
      /\ \A d \in Clients : FileCall(d)
      /\ \A w \in Vectors : past.acked[w] # None => w \in past.logged
  BY IndexFiles
<1>3. /\ past.logged \subseteq past.submitted /\ Apart
      /\ \/ Torn(wal)
         \/ \A i \in DOMAIN index.nodes :
              index.vectors[i] \in past.logged => <<i, index.vectors[i]>> \in OnFile
  BY DEF FileCore, FileDisk, FileMemory
<1>4. record.op = "delete" => v \in past.erasing
  BY <1>2 DEF Holds
<1>5. past'.logged \subseteq past.submitted
  <2>1. \A p \in Inserted(record) : p[2] = record.vec /\ record.vec \in Vecs(index)
    BY DEF Inserted, Holds, Vecs
  <2>2. QED
    BY <2>1, <1>2, <1>3
<1>6. /\ FileDisk'
      /\ \/ Torn(wal')
         \/ /\ ~ Torn(wal) /\ OnFile' = OnFile \cup Inserted(record)
  BY <1>4, <1>5, WriteDisk
<1>7. Deletes(wal') \subseteq Dead(index)
  <2>1. Deletes(wal') \subseteq Deletes(wal) \cup Deleted(record)
    BY CoreFacts, LoggedDeletes DEF DiskInv
  <2>2. QED
    BY <2>1, <1>2 DEF Deleted
<1>8. Buries(index, Erased')
  BY <1>2 DEF Buries, Holds
<1>9. \/ Torn(wal')
      \/ \A i \in DOMAIN index.nodes :
           index.vectors[i] \in past'.logged => <<i, index.vectors[i]>> \in OnFile'
  <2>1. ASSUME NEW i \in DOMAIN index.nodes, index.vectors[i] = record.vec, record.op = "insert"
        PROVE  <<i, index.vectors[i]>> \in Inserted(record)
    <3>1. <<i, record.vec>> \in Pairs(index) /\ <<record.id, record.vec>> \in Pairs(index)
      BY <2>1 DEF Pairs, Holds
    <3>2. i = record.id
      <4>1. \A p, q \in Pairs(index) : p[2] = q[2] => p[1] = q[1]
        BY <1>2 DEF NoTwice
      <4>2. QED
        BY <3>1, <4>1
    <3>3. QED
      BY <3>2, <2>1 DEF Inserted
  <2>2. \A w \in past'.logged : w \in past.logged \/ (record.op = "insert" /\ w = record.vec)
    BY DEF Inserted
  <2>3. QED
    BY <2>1, <2>2, <1>3, <1>6
<1>10. FileMemory'
  BY <1>2, <1>7, <1>8, <1>9 DEF FileMemory
<1>11. FileReplay'
  BY DEF FileReplay
<1>12. Apart'
  BY <1>1, <1>3 DEF Apart
<1>13. ASSUME NEW d \in Clients, d # c
       PROVE  FileCall(d)'
  <2> DEFINE m == call[d]
  <2>1. call'[d] = m
    BY <1>1, <1>13
  <2>2. m.at \notin {"captured", "saved"}
    BY <1>13, OneSaves
  <2>3. /\ m.at = "reserved" => m.vec \in past.submitted \ past.logged
        /\ m.op = "insert" /\ m.at \notin {"idle", "reserved"} => m.vec \in past.logged
        /\ m.at = "tombstoned" => Holds(index, m.id, m.vec) /\ m.id \in Dead(index)
    BY <1>2 DEF FileCall
  <2>4. m.at = "reserved" => m.vec \notin past'.logged
    <3>1. m.at = "reserved" /\ record.op = "insert" => m.vec # record.vec
      BY <1>3, <1>13 DEF Apart
    <3>2. QED
      BY <3>1, <2>3 DEF Inserted
  <2> HIDE DEF m
  <2>5. m.op = "insert" /\ m.at \notin {"idle", "reserved"} => m.vec \in past'.logged
    BY <2>3
  <2>6. QED
    BY <2>1, <2>2, <2>3, <2>4, <2>5 DEF FileCall
<1>14. \A d \in Clients : FileCall(d)'
  BY <1>13
<1>15. \A w \in Vectors : past'.acked[w] # None => w \in past'.logged
  BY <1>2
<1>16. QED
  BY <1>6, <1>10, <1>11, <1>12, <1>14, <1>15 DEF FileCore

LEMMA LogInsertFiles ==
  ASSUME Core, FileCore, PastInv, Quiet', NEW c \in Clients, LogInsert(c)
  PROVE  FileCore'
<1> DEFINE k == [call[c] EXCEPT !.at = "toLink"]
           record == InsertRecord(call[c].id, call[c].vec)
<1>1. /\ mode = "up" /\ mode' = "up" /\ call[c].at = "reserved" /\ wal' = Logged(wal, record)
      /\ call' = [call EXCEPT ![c] = k] /\ index' = index /\ snapshot' = snapshot
      /\ past'.logged = past.logged \cup {call[c].vec}
      /\ past'.torn = (past.torn \/ snapshotLock # None \/ Renumbered)
      /\ past'.submitted = past.submitted /\ past'.erasing = past.erasing
      /\ past'.erased = past.erased /\ past'.acked = past.acked
  BY DEF LogInsert, At, Goto, memory, startup, PastInv, IsPast
<1>2. snapshotLock = None
  BY <1>1 DEF Quiet
<1>3. CallInv(c)
  BY CoreFacts
<1>4. /\ call[c].op = "insert" /\ call[c].vec \in Vectors /\ call[c].id \in Nat
      /\ Holds(index, call[c].id, call[c].vec)
  BY <1>1, <1>3 DEF CallInv
<1>5. /\ record \in Records /\ record.op = "insert" /\ record.id = call[c].id
      /\ record.vec = call[c].vec
  BY <1>4 DEF InsertRecord, Record, Records
<1>6. k.at = "toLink" /\ k.op = call[c].op /\ k.vec = call[c].vec
  BY CoreFacts, Moved
<1> HIDE DEF k, record
<1>7. past'.logged = past.logged \cup {p[2] : p \in Inserted(record)}
  <2>1. Inserted(record) = {<<call[c].id, call[c].vec>>}
    BY <1>5 DEF Inserted
  <2>2. {p[2] : p \in Inserted(record)} = {call[c].vec}
    BY <2>1
  <2>3. QED
    BY <2>2, <1>1
<1>8. call'[c] = k
  BY <1>1, CoreFacts
<1>9. FileCall(c)'
  BY <1>1, <1>6, <1>8, PlainCall
<1>10. Erased' \subseteq Erased
  BY <1>1, <1>4, <1>6, MovedErases
<1>11. QED
  BY <1>1, <1>2, <1>4, <1>5, <1>6, <1>7, <1>9, <1>10, LogFiles

LEMMA LogDeleteFiles ==
  ASSUME Core, FileCore, PastInv, Quiet', NEW c \in Clients, LogDelete(c)
  PROVE  FileCore'
<1> DEFINE k == [call[c] EXCEPT !.at = "done"]
           record == DeleteRecord(call[c].id)
           v == call[c].vec
<1>1. /\ mode = "up" /\ mode' = "up" /\ call[c].at = "tombstoned" /\ wal' = Logged(wal, record)
      /\ call' = [call EXCEPT ![c] = k] /\ index' = index /\ snapshot' = snapshot
      /\ past'.logged = past.logged
      /\ past'.torn = (past.torn \/ snapshotLock # None \/ Renumbered \/ Early(c))
      /\ past'.submitted = past.submitted /\ past'.erasing = past.erasing
      /\ past'.erased = past.erased /\ past'.acked = past.acked
  BY DEF LogDelete, At, Goto, memory, startup, PastInv, IsPast
<1>2. snapshotLock = None /\ ~ Early(c)
  BY <1>1 DEF Quiet
<1>3. CallInv(c) /\ FileCall(c)
  BY <1>1, CoreFacts, IndexFiles
<1>4. /\ call[c].op = "delete" /\ call[c].id \in Nat
      /\ Holds(index, call[c].id, v) /\ call[c].id \in Dead(index)
  BY <1>1, <1>3 DEF CallInv, FileCall
<1>5. v \in past.logged
  BY <1>2, <1>4 DEF Early
<1>6. record \in Records /\ record.op = "delete" /\ record.id = call[c].id
  BY <1>4 DEF DeleteRecord, Record, Records
<1>7. k.at = "done" /\ k.op = call[c].op /\ k.vec = v
  BY CoreFacts, Moved
<1> HIDE DEF k, record, v
<1>8. past'.logged = past.logged \cup {p[2] : p \in Inserted(record)}
  BY <1>1, <1>6 DEF Inserted
<1>9. call'[c] = k
  BY <1>1, CoreFacts
<1>10. FileCall(c)'
  BY <1>4, <1>7, <1>9, PlainCall
<1>11. Erased' \subseteq Erased \cup {v}
  <2>1. Erased' \subseteq past'.erased \cup Erased \cup Believed(k) /\ past.erased \subseteq Erased
    BY <1>1, ErasedAfter
  <2>2. Believed(k) \subseteq {v}
    BY <1>7 DEF Believed
  <2>3. QED
    BY <2>1, <2>2, <1>1
<1>12. QED
  BY <1>1, <1>2, <1>4, <1>5, <1>6, <1>7, <1>8, <1>10, <1>11, LogFiles

(* The process ends, and memory with it.                                   *)
LEMMA GoneFiles ==
  ASSUME FileCore, Gone, mode' = "down", FileDisk', past'.acked = past.acked,
         past.logged \subseteq past'.logged
  PROVE  FileCore'
<1>1. \A d \in Clients : call'[d] = IdleCall
  BY DEF Gone
<1>2. IdleCall.at = "idle"
  BY DEF IdleCall
<1>3. \A d \in Clients : FileCall(d)'
  BY <1>1, <1>2 DEF FileCall
<1>4. Apart'
  BY <1>1, <1>2 DEF Apart
<1>5. FileMemory' /\ FileReplay'
  BY DEF FileMemory, FileReplay
<1>6. \A v \in Vectors : past'.acked[v] # None => v \in past'.logged
  BY DEF FileCore
<1>7. QED
  BY <1>3, <1>4, <1>5, <1>6 DEF FileCore

LEMMA GoneErases ==
  ASSUME Gone, past'.erased = past.erased
  PROVE  Erased' \subseteq Erased
<1>1. \A d \in Clients : call'[d].at = "idle"
  BY DEF Gone, IdleCall
<1>2. QED
  BY <1>1 DEF Erased

LEMMA CrashFiles ==
  ASSUME Core, FileCore, PastInv, Quiet', Crash
  PROVE  FileCore'
<1>1. Gone /\ mode' = "down" /\ snapshot' = snapshot
  BY DEF Crash, Gone
<1>2. past.logged \subseteq past.submitted /\ FileDisk
  BY DEF FileCore, FileDisk
<1>3. CASE wal' = wal /\ past' = [past EXCEPT !.crashes = @ + 1, !.torn = @ \/ Mixed]
  <2>1. /\ past'.logged = past.logged /\ past'.submitted = past.submitted
        /\ past'.erasing = past.erasing /\ past'.erased = past.erased /\ past'.acked = past.acked
    BY <1>3 DEF PastInv, IsPast
  <2>2. FileDisk'
    BY <2>1, <1>1, <1>2, <1>3, GoneErases, FileDiskKept
  <2>3. QED
    BY <2>1, <2>2, <1>1, GoneFiles
<1>4. CASE \E c \in Clients, tear \in Tears :
              /\ At(c, "reserved") \/ At(c, "tombstoned")
              /\ wal' = Cut(wal, Writing(c), tear)
              /\ past' = [past EXCEPT
                   !.crashes = @ + 1,
                   !.logged = IF call[c].op = "insert" THEN @ \cup {call[c].vec} ELSE @,
                   !.torn = @ \/ Mixed \/ Renumbered \/ Early(c)]
  <2>1. PICK c \in Clients, tear \in Tears :
              /\ At(c, "reserved") \/ At(c, "tombstoned")
              /\ wal' = Cut(wal, Writing(c), tear)
              /\ past' = [past EXCEPT
                   !.crashes = @ + 1,
                   !.logged = IF call[c].op = "insert" THEN @ \cup {call[c].vec} ELSE @,
                   !.torn = @ \/ Mixed \/ Renumbered \/ Early(c)]
    BY <1>4
  <2> DEFINE record == Writing(c)
             part   == IF tear = "cut" THEN TornRecord ELSE [record EXCEPT !.ended = FALSE]
             v      == call[c].vec
  <2>2. /\ mode = "up" /\ call[c].at \in {"reserved", "tombstoned"}
    BY <2>1 DEF At
  <2>3. /\ past'.logged = IF call[c].op = "insert" THEN past.logged \cup {v} ELSE past.logged
        /\ past'.torn = (past.torn \/ Mixed \/ Renumbered \/ Early(c))
        /\ past'.submitted = past.submitted /\ past'.erasing = past.erasing
        /\ past'.erased = past.erased /\ past'.acked = past.acked
    BY <2>1 DEF PastInv, IsPast
  <2>4. ~ Early(c)
    BY <2>3 DEF Quiet
  <2>5. CallInv(c) /\ FileCall(c)
    BY <2>2, CoreFacts, IndexFiles
  <2>6. /\ call[c].id \in Nat
        /\ call[c].op = "insert" => /\ call[c].at = "reserved" /\ v \in Vectors
                                    /\ Holds(index, call[c].id, v) /\ v \in past.submitted
        /\ call[c].op # "insert" => /\ call[c].op = "delete"
                                    /\ Holds(index, call[c].id, v) /\ call[c].id \in Dead(index)
    BY <2>2, <2>5 DEF CallInv, FileCall
  <2>7. call[c].op # "insert" => v \in past.logged /\ v \in past.erasing
    BY <2>2, <2>4, <2>6, IndexFiles DEF Early, Holds
  <2>8. /\ record \in Records /\ record.id = call[c].id
        /\ record.op = IF call[c].op = "insert" THEN "insert" ELSE "delete"
        /\ call[c].op = "insert" => record.vec = v
    BY <2>6 DEF Writing, InsertRecord, DeleteRecord, Record, Records
  <2>9. /\ part \in Records
        /\ part.op = "insert" => record.op = "insert" /\ part.id = record.id /\ part.vec = record.vec
        /\ part.op = "delete" => record.op = "delete" /\ part.id = record.id
    BY <2>8 DEF TornRecord, Record, Records
  <2>10. wal' = Logged(wal, part)
    BY <2>1 DEF Cut
  <2> HIDE DEF part, record, v
  <2>11. /\ part.op = "insert" => Holds(index, part.id, part.vec)
         /\ part.op = "delete" => Holds(index, part.id, v) /\ v \in past.logged /\ v \in past.erasing
    BY <2>6, <2>7, <2>8, <2>9
  <2>12. past'.logged \subseteq past.submitted
    BY <2>3, <2>6, <1>2
  <2>13. Erased' \subseteq Erased \cup {w \in {v} : part.op = "delete"}
    BY <2>3, <1>1, GoneErases
  <2>14. FileDisk'
    BY <2>2, <2>3, <2>9, <2>10, <2>11, <2>12, <2>13, <1>1, WriteDisk
  <2>15. QED
    BY <2>3, <2>14, <1>1, GoneFiles
<1>5. QED
  BY <1>3, <1>4 DEF Crash

LEMMA ReplayDiesFiles ==
  ASSUME Core, FileCore, ReplayDies
  PROVE  FileCore'
<1>1. Gone /\ mode' = "down" /\ snapshot' = snapshot /\ wal' = wal /\ past' = past
  BY DEF ReplayDies, Gone
<1>2. FileDisk /\ past.logged \subseteq past.submitted
  BY DEF FileCore, FileDisk
<1>3. FileDisk'
  BY <1>1, <1>2, GoneErases, FileDiskKept
<1>4. QED
  BY <1>1, <1>3, GoneFiles

(* The snapshot is the image, but for what was buried meanwhile.           *)
LEMMA PickledFiles ==
  ASSUME NEW image, NEW now, NEW stale, Formed(image), Formed(now), Newer(image, now),
         DOMAIN now.nodes \subseteq DOMAIN image.vectors, Dead(image) \subseteq Dead(now)
  PROVE  LET r == Pickled(image, now, stale) IN
         /\ DOMAIN r.nodes = DOMAIN now.nodes /\ DOMAIN image.nodes = DOMAIN now.nodes
         /\ r.vectors = image.vectors /\ r.entryPoint = image.entryPoint
         /\ \A i \in DOMAIN now.nodes : r.nodes[i] \in {image.nodes[i], now.nodes[i]}
         /\ \A i \in DOMAIN now.nodes : image.vectors[i] = now.vectors[i]
         /\ Dead(image) \subseteq Dead(r) /\ Dead(r) \subseteq Dead(now)
         /\ Pairs(r) = Pairs(now) /\ Vecs(r) = Vecs(now)
<1> DEFINE r == Pickled(image, now, stale)
           D == DOMAIN now.nodes
<1>1. /\ IsRecord(image) /\ image.nextId \in Nat
      /\ image.vectors = [i \in 0..(image.nextId - 1) |-> image.vectors[i]]
      /\ DOMAIN image.nodes \subseteq 0..(image.nextId - 1)
  BY DEF Formed
<1>2. /\ r.vectors = image.vectors /\ r.entryPoint = image.entryPoint
      /\ r.nodes = [i \in D |-> IF i \in stale THEN image.nodes[i] ELSE now.nodes[i]]
  BY <1>1 DEF Pickled, IsRecord, Fields
<1> HIDE DEF r
<1>3. D = DOMAIN image.nodes
  <2>1. ASSUME NEW i \in D
        PROVE  i \in DOMAIN image.nodes
    <3>1. i \in 0..(image.nextId - 1)
      BY <1>1
    <3>2. ~ (image.nextId <= i)
      BY <3>1, <1>1
    <3>3. QED
      BY <3>2 DEF Newer
  <2>2. DOMAIN image.nodes \subseteq D
    BY DEF Newer, Keeps, Holds
  <2>3. QED
    BY <2>1, <2>2
<1>4. DOMAIN r.nodes = D /\ \A i \in D : r.nodes[i] \in {image.nodes[i], now.nodes[i]}
  BY <1>2
<1>5. \A i \in D : image.vectors[i] = now.vectors[i]
  BY <1>3 DEF Newer, Keeps, Holds
<1>6. Dead(image) \subseteq Dead(r) /\ Dead(r) \subseteq Dead(now)
  BY <1>3, <1>4 DEF Dead
<1>7. Pairs(r) = Pairs(now) /\ Vecs(r) = Vecs(now)
  BY <1>2, <1>4, <1>5 DEF Pairs, Vecs
<1>8. QED
  BY <1>2, <1>3, <1>4, <1>5, <1>6, <1>7 DEF r

LEMMA SaveFiles ==
  ASSUME Core, FileCore, PastInv, Quiet', NEW c \in Clients, Save(c)
  PROVE  FileCore'
<1> DEFINE k == call[c]
           m == [call[c] EXCEPT !.at = "saved"]
<1>1. PICK stale : /\ snapshot' = Pickled(k.image, NodesOf(k.gen), stale)
                   /\ past' = [past EXCEPT !.torn = @ \/ Races(snapshot')]
  BY DEF Save
<1>2. /\ mode = "up" /\ mode' = "up" /\ k.at = "captured" /\ call' = [call EXCEPT ![c] = m]
      /\ wal' = wal /\ index' = index
  BY DEF Save, At, Goto, memory, startup
<1>3. /\ past'.torn = (past.torn \/ Races(snapshot'))
      /\ past'.logged = past.logged /\ past'.submitted = past.submitted
      /\ past'.erasing = past.erasing /\ past'.erased = past.erased /\ past'.acked = past.acked
  BY <1>1 DEF PastInv, IsPast
<1>4. CallInv(c) /\ IsCall(k) /\ MemoryInv /\ FileCall(c) /\ Apart
  BY <1>2, CoreFacts, IndexFiles DEF FileCore
<1>5. /\ k.gen = 0 /\ Formed(k.image) /\ Newer(k.image, index) /\ snapshotLock = c
      /\ Deletes(wal) \subseteq Dead(k.image) /\ Buries(k.image, Erased)
      /\ Dead(k.image) \subseteq Dead(index)
      /\ k.op = "insert" => k.vec \in past.logged
  BY <1>2, <1>4 DEF CallInv, FileCall
<1>6. NodesOf(k.gen) = index
  BY <1>4, <1>5 DEF NodesOf, Generation, MemoryInv
<1> DEFINE s == Pickled(k.image, index, stale)
<1>7. snapshot' = s /\ ~ Races(snapshot')
  BY <1>1, <1>3, <1>6 DEF Quiet
<1>8. DOMAIN index.nodes \subseteq DOMAIN k.image.vectors
  <2>1. DOMAIN s.nodes \subseteq DOMAIN s.vectors
    BY <1>7 DEF Races
  <2>2. DOMAIN s.nodes = DOMAIN index.nodes /\ s.vectors = k.image.vectors
    BY <1>5 DEF Pickled, Formed, IsRecord, Fields
  <2>3. QED
    BY <2>1, <2>2
<1>9. /\ DOMAIN s.nodes = DOMAIN index.nodes /\ s.vectors = k.image.vectors
      /\ \A i \in DOMAIN index.nodes : k.image.vectors[i] = index.vectors[i]
      /\ Dead(k.image) \subseteq Dead(s) /\ Dead(s) \subseteq Dead(index)
      /\ Pairs(s) = Pairs(index) /\ Vecs(s) = Vecs(index)
  BY <1>2, <1>5, <1>8, CoreFacts, PickledFiles
<1>10. m.at = "saved" /\ m.op = k.op /\ m.id = k.id /\ m.vec = k.vec
  BY <1>4, Moved
<1> HIDE DEF s, m
<1>11. call'[c] = m /\ \A d \in Clients : d # c => call'[d] = call[d]
  BY <1>2, CoreFacts
<1>12. Erased' \subseteq Erased
  BY <1>2, <1>3, <1>10, MovedErases
<1>13. /\ Vecs(index) \subseteq past.submitted /\ NoTwice(Pairs(index))
       /\ Deletes(wal) \subseteq Dead(index) /\ Buries(index, Erased)
       /\ \A i \in Dead(index) : index.vectors[i] \in past.erasing
       /\ \A d \in Clients : FileCall(d)
       /\ \A w \in Vectors : past.acked[w] # None => w \in past.logged
  BY <1>2, IndexFiles
<1>14. HoldsAll(index, Inserts(wal)) /\ OnFile \subseteq Pairs(index)
  BY <1>2, CoreFacts, OnFileHeld DEF MemoryInv
<1>15. OnFile' = Pairs(index)
  BY <1>2, <1>7, <1>9, <1>14 DEF OnFile
<1>16. Buries(s, Erased)
  <2>1. ASSUME NEW v \in Erased
        PROVE  \E i \in Dead(s) : s.vectors[i] = v
    <3>1. PICK i \in Dead(k.image) : k.image.vectors[i] = v
      BY <1>5 DEF Buries
    <3>2. QED
      BY <3>1, <1>9
  <2>2. QED
    BY <2>1 DEF Buries
<1>17. Deletes(wal) \subseteq Dead(s)
  BY <1>5, <1>9
<1>18. \A i \in Dead(s) : i \in DOMAIN index.nodes /\ s.vectors[i] = index.vectors[i]
  BY <1>9 DEF Dead
<1>19. FileDisk'
  <2>1. past'.logged \subseteq past'.submitted /\ Vecs(s) \subseteq past'.submitted
    BY <1>3, <1>9, <1>13 DEF FileCore, FileDisk
  <2>2. NoTwice(OnFile')
    BY <1>13, <1>15
  <2>3. \A i \in Dead(s) : s.vectors[i] \in past'.erasing
    BY <1>3, <1>9, <1>13, <1>18
  <2>4. \A v \in Erased' : \E i \in Dead(s) \cup Deletes(wal) : <<i, v>> \in OnFile'
    <3>1. \A v \in Erased : \E i \in Dead(s) : <<i, v>> \in Pairs(index)
      BY <1>16, <1>18 DEF Buries, Pairs
    <3>2. QED
      BY <3>1, <1>12, <1>15
  <2>5. \A i \in Deletes(wal) : \E v \in past'.erasing : <<i, v>> \in OnFile'
    <3>1. \A i \in Dead(index) : <<i, index.vectors[i]>> \in Pairs(index)
      BY DEF Pairs, Dead
    <3>2. QED
      BY <3>1, <1>3, <1>13, <1>15
  <2>6. Timely(s, wal)
    <3>1. ASSUME NEW j \in DOMAIN wal, wal[j].op = "delete"
          PROVE  wal[j].id \in DOMAIN s.nodes
      <4>1. wal[j].id \in Deletes(wal)
        BY <3>1 DEF Deletes
      <4>2. QED
        BY <4>1, <1>17 DEF Dead
    <3>2. QED
      BY <3>1 DEF Timely
  <2>7. QED
    BY <2>1, <2>2, <2>3, <2>4, <2>5, <2>6, <1>2, <1>7 DEF FileDisk
<1>20. FileMemory'
  <2>1. \A i \in DOMAIN index.nodes : <<i, index.vectors[i]>> \in OnFile'
    BY <1>15 DEF Pairs
  <2>2. Buries(index, Erased')
    BY <1>12, <1>13 DEF Buries
  <2>3. QED
    BY <2>1, <2>2, <1>2, <1>3, <1>13 DEF FileMemory
<1>21. FileReplay'
  BY <1>2 DEF FileReplay
<1>22. Apart'
  BY <1>4, <1>10, <1>11 DEF Apart
<1>23. FileCall(c)'
  <2>1. HoldsAll(s, Inserts(wal))
    BY <1>9, <1>14 DEF HoldsAll, Holds
  <2>2. Buries(s, Erased')
    BY <1>12, <1>16 DEF Buries
  <2>3. \A i \in DOMAIN index.nodes : Holds(s, i, index.vectors[i])
    BY <1>9 DEF Holds
  <2>4. Races(snapshot)' <=> Races(snapshot')
    BY <1>3 DEF Races
  <2>5. QED
    BY <2>1, <2>2, <2>3, <2>4, <1>2, <1>3, <1>5, <1>7, <1>10, <1>11, <1>17 DEF FileCall
<1>24. ASSUME NEW d \in Clients, d # c
       PROVE  FileCall(d)'
  <2>1. call'[d] = call[d] /\ call[d].at \notin {"captured", "saved"}
    BY <1>5, <1>11, <1>24, OneSaves
  <2>2. FileCall(d)
    BY <1>13
  <2>3. QED
    BY <2>1, <2>2, <1>2, <1>3 DEF FileCall
<1>25. \A d \in Clients : FileCall(d)'
  BY <1>23, <1>24
<1>26. QED
  BY <1>3, <1>13, <1>19, <1>20, <1>21, <1>22, <1>25 DEF FileCore

(* The log is emptied when the snapshot has the outcome of its records.    *)
LEMMA TruncateFiles ==
  ASSUME Core, FileCore, PastInv, NEW c \in Clients, Truncate(c)
  PROVE  FileCore'
<1>1. /\ mode = "up" /\ call[c].at = "saved" /\ wal' = << >> /\ snapshot' = snapshot
      /\ index' = index /\ Return(c) /\ mode' \in {"up", "down"}
  BY DEF Truncate, TruncateAndHold, At, memory
<1>2. /\ call' = [call EXCEPT ![c] = IdleCall]
      /\ past'.logged = past.logged /\ past'.submitted = past.submitted
      /\ past'.erasing = past.erasing /\ Erased' \subseteq Erased
      /\ \A v \in Vectors : past'.acked[v] # None => v \in past.logged
      /\ FileCall(c)'
  BY <1>1, ReturnedFiles
<1>3. /\ Vecs(index) \subseteq past.submitted /\ NoTwice(Pairs(index))
      /\ Buries(index, Erased)
      /\ \A i \in Dead(index) : index.vectors[i] \in past.erasing
      /\ \A d \in Clients : FileCall(d)
  BY <1>1, IndexFiles
<1>4. /\ Buries(snapshot, Erased)
      /\ \A i \in DOMAIN index.nodes :
           index.vectors[i] \in past.logged => Holds(snapshot, i, index.vectors[i])
  BY <1>1, <1>3 DEF FileCall
<1>5. /\ past.logged \subseteq past.submitted /\ Vecs(snapshot) \subseteq past.submitted
      /\ NoTwice(OnFile) /\ \A i \in Dead(snapshot) : snapshot.vectors[i] \in past.erasing
      /\ Apart
  BY DEF FileCore, FileDisk
<1>6. /\ Inserts(wal') = {} /\ Deletes(wal') = {} /\ Timely(snapshot', wal')
  BY <1>1 DEF Inserts, Deletes, Timely
<1>7. OnFile' = Pairs(snapshot) /\ OnFile' \subseteq OnFile
  BY <1>1, <1>6 DEF OnFile
<1>8. FileDisk'
  <2>1. \A v \in Erased' : \E i \in Dead(snapshot) : <<i, v>> \in Pairs(snapshot)
    BY <1>2, <1>4 DEF Buries, Dead, Pairs
  <2>2. NoTwice(OnFile')
    BY <1>5, <1>7 DEF NoTwice
  <2>3. \A v \in Erased' : \E i \in (Dead(snapshot) \cup Deletes(wal))' : <<i, v>> \in OnFile'
    BY <2>1, <1>1, <1>7
  <2>4. QED
    BY <2>2, <2>3, <1>1, <1>2, <1>5, <1>6 DEF FileDisk
<1>9. FileMemory'
  <2>1. \A i \in DOMAIN index.nodes :
           index.vectors[i] \in past.logged => <<i, index.vectors[i]>> \in OnFile'
    BY <1>4, <1>7 DEF Holds, Pairs
  <2>2. Buries(index, Erased')
    BY <1>2, <1>3 DEF Buries
  <2>3. QED
    BY <2>1, <2>2, <1>1, <1>2, <1>3, <1>6 DEF FileMemory
<1>10. FileReplay'
  BY <1>1 DEF FileReplay
<1>11. call'[c] = IdleCall /\ \A d \in Clients : d # c => call'[d] = call[d]
  BY <1>2, CoreFacts
<1>12. Apart'
  <2>1. IdleCall.at = "idle"
    BY DEF IdleCall
  <2>2. QED
    BY <2>1, <1>5, <1>11 DEF Apart
<1>13. ASSUME NEW d \in Clients, d # c
       PROVE  FileCall(d)'
  <2>1. snapshotLock = c
    BY <1>1, CoreFacts DEF CallInv
  <2>2. call'[d] = call[d] /\ call[d].at \notin {"captured", "saved"}
    BY <2>1, <1>11, <1>13, OneSaves
  <2>3. FileCall(d)
    BY <1>3
  <2>4. QED
    BY <2>2, <2>3, <1>1, <1>2 DEF FileCall
<1>14. \A d \in Clients : FileCall(d)'
  BY <1>2, <1>13
<1>15. QED
  BY <1>2, <1>8, <1>9, <1>10, <1>12, <1>14 DEF FileCore

(* Calls that wait for the database to come up know nothing.               *)
LEMMA WaitingFiles ==
  ASSUME Core, FileCore, mode # "up", call' = call, past'.erased = past.erased
  PROVE  /\ \A d \in Clients : FileCall(d)'
         /\ Apart' /\ Erased' = Erased
<1>1. \A d \in Clients : call[d].at = "idle"
  BY DEF Core, CallInv
<1>2. QED
  BY <1>1 DEF FileCall, Apart, Erased

LEMMA StartFiles ==
  ASSUME Core, FileCore, PastInv, Start
  PROVE  FileCore'
<1>1. /\ mode = "down" /\ mode' = "replay" /\ index' = snapshot /\ pending' = wal
      /\ wal' = wal /\ snapshot' = snapshot /\ call' = call
      /\ past'.logged = past.logged /\ past'.submitted = past.submitted
      /\ past'.erasing = past.erasing /\ past'.erased = past.erased /\ past'.acked = past.acked
  BY DEF Start, files, PastInv, IsPast
<1>2. (\A d \in Clients : FileCall(d)') /\ Apart' /\ Erased' = Erased
  BY <1>1, WaitingFiles
<1>3. FileDisk'
  <2>1. FileDisk /\ past.logged \subseteq past.submitted
    BY DEF FileCore, FileDisk
  <2>2. QED
    BY <2>1, <1>1, <1>2, FileDiskKept
<1>4. FileReplay'
  <2>1. wal \in Seq(Records)
    BY CoreFacts DEF DiskInv
  <2>2. Recovered(snapshot, SubSeq(wal, 1, 0)) = {snapshot} /\ SubSeq(wal, 1, Len(wal)) = wal
    BY <2>1, RecoveredWhole
  <2>3. 0 \in 0..Len(wal) /\ 0 + 1 = 1
    BY <2>1
  <2>4. wal = SubSeq(wal, 0 + 1, Len(wal)) /\ snapshot \in Recovered(snapshot, SubSeq(wal, 1, 0))
    BY <2>2
  <2>5. QED
    BY <2>3, <2>4, <1>1 DEF FileReplay
<1>5. FileMemory'
  BY <1>1 DEF FileMemory
<1>6. QED
  BY <1>1, <1>2, <1>3, <1>4, <1>5 DEF FileCore

LEMMA NextRecord ==
  ASSUME NEW log \in Seq(Records), NEW k \in 0..Len(log), SubSeq(log, k + 1, Len(log)) # << >>
  PROVE  /\ k + 1 \in 1..Len(log)
         /\ Head(SubSeq(log, k + 1, Len(log))) = log[k + 1]
         /\ Tail(SubSeq(log, k + 1, Len(log))) = SubSeq(log, (k + 1) + 1, Len(log))
<1> DEFINE n == Len(log)
           rest == SubSeq(log, k + 1, n)
           next == SubSeq(log, (k + 1) + 1, n)
<1>1. n \in Nat /\ k \in Nat /\ k <= n
  OBVIOUS
<1>2. k < n
  <2>1. k = n => rest = << >>
    OBVIOUS
  <2>2. QED
    BY <2>1, <1>1
<1>3. /\ rest \in Seq(Records) /\ Len(rest) = n - k
      /\ \A j \in 1..(n - k) : rest[j] = log[k + j]
  BY <1>1, <1>2
<1>4. /\ next \in Seq(Records) /\ Len(next) = n - k - 1
      /\ \A j \in 1..(n - k - 1) : next[j] = log[k + 1 + j]
  BY <1>1, <1>2
<1> HIDE DEF n, rest, next
<1>5. Head(rest) = log[k + 1]
  BY <1>1, <1>2, <1>3
<1>6. /\ Tail(rest) \in Seq(Records) /\ Len(Tail(rest)) = n - k - 1
      /\ \A j \in 1..(n - k - 1) : Tail(rest)[j] = rest[j + 1]
  BY <1>1, <1>2, <1>3
<1>7. \A j \in 1..(n - k - 1) : Tail(rest)[j] = next[j]
  BY <1>1, <1>2, <1>3, <1>4, <1>6
<1>8. Tail(rest) = next
  BY <1>4, <1>6, <1>7
<1>9. QED
  BY <1>1, <1>2, <1>5, <1>8 DEF n, rest, next

LEMMA ReplayFiles ==
  ASSUME Core, FileCore, PastInv, Replay
  PROVE  FileCore'
<1>1. PICK level \in Levels : index' = ReplayRecord(index, Head(pending), level)
  BY DEF Replay
<1>2. /\ mode = "replay" /\ mode' = "replay" /\ pending # << >> /\ ~ ReplayRaises(index, Head(pending))
      /\ pending' = Tail(pending) /\ wal' = wal /\ snapshot' = snapshot /\ call' = call
      /\ past'.logged = past.logged /\ past'.submitted = past.submitted
      /\ past'.erasing = past.erasing /\ past'.erased = past.erased /\ past'.acked = past.acked
  BY DEF Replay, files, PastInv, IsPast
<1>3. (\A d \in Clients : FileCall(d)') /\ Apart' /\ Erased' = Erased
  BY <1>2, WaitingFiles
<1>4. FileDisk'
  <2>1. FileDisk /\ past.logged \subseteq past.submitted
    BY DEF FileCore, FileDisk
  <2>2. QED
    BY <2>1, <1>2, <1>3, FileDiskKept
<1>5. PICK k \in 0..Len(wal) : /\ pending = SubSeq(wal, k + 1, Len(wal))
                               /\ index \in Recovered(snapshot, SubSeq(wal, 1, k))
  BY <1>2 DEF FileCore, FileReplay
<1>6. wal \in Seq(Records)
  BY CoreFacts DEF DiskInv
<1> DEFINE h == k + 1
<1>7. /\ h \in 1..Len(wal) /\ Head(pending) = wal[h]
      /\ Tail(pending) = SubSeq(wal, h + 1, Len(wal))
  BY <1>2, <1>5, <1>6, NextRecord
<1>8. h - 1 = k /\ h \in 0..Len(wal)
  BY <1>6, <1>7
<1> HIDE DEF h
<1>9. Recovered(snapshot, SubSeq(wal, 1, h))
        = Replayed(Recovered(snapshot, SubSeq(wal, 1, k)), wal[h])
  BY <1>6, <1>7, <1>8, RecoveredStep
<1>10. index' \in Recovered(snapshot, SubSeq(wal, 1, h))
  <2> DEFINE R == Recovered(snapshot, SubSeq(wal, 1, k))
  <2>1. index \in R /\ ~ ReplayRaises(index, wal[h]) /\ index' = ReplayRecord(index, wal[h], level)
    BY <1>1, <1>2, <1>5, <1>7
  <2> HIDE DEF R
  <2>2. index' \in Replayed(R, wal[h])
    BY <2>1 DEF Replayed
  <2>3. QED
    BY <2>2, <1>9 DEF R
<1>11. FileReplay'
  BY <1>2, <1>7, <1>8, <1>10 DEF FileReplay
<1>12. FileMemory'
  BY <1>2 DEF FileMemory
<1>13. QED
  BY <1>2, <1>3, <1>4, <1>11, <1>12 DEF FileCore

LEMMA ServeFiles ==
  ASSUME Core, FileCore, Serve
  PROVE  FileCore'
<1>1. /\ mode = "replay" /\ mode' = "up" /\ pending = << >> /\ index' = index
      /\ wal' = wal /\ snapshot' = snapshot /\ call' = call /\ past' = past
  BY DEF Serve, memory, files
<1>2. (\A d \in Clients : FileCall(d)') /\ Apart' /\ Erased' = Erased
  BY <1>1, WaitingFiles
<1>3. FileDisk /\ past.logged \subseteq past.submitted
  BY DEF FileCore, FileDisk
<1>4. FileDisk'
  BY <1>1, <1>2, <1>3, FileDiskKept
<1>5. index \in OnDisk
  <2>1. PICK k \in 0..Len(wal) : /\ pending = SubSeq(wal, k + 1, Len(wal))
                                 /\ index \in Recovered(snapshot, SubSeq(wal, 1, k))
    BY <1>1 DEF FileCore, FileReplay
  <2>2. wal \in Seq(Records)
    BY CoreFacts DEF DiskInv
  <2>3. k = Len(wal)
    <3>1. k < Len(wal) => Len(SubSeq(wal, k + 1, Len(wal))) # 0
      BY <2>2
    <3>2. Len(pending) = 0
      BY <1>1
    <3>3. k \in Nat /\ Len(wal) \in Nat /\ k <= Len(wal)
      BY <2>1, <2>2
    <3>4. ~ (k < Len(wal))
      BY <3>1, <3>2, <2>1
    <3>5. QED
      BY <3>3, <3>4
  <2>4. SubSeq(wal, 1, Len(wal)) = wal
    BY <2>2, RecoveredWhole
  <2>5. QED
    BY <2>1, <2>3, <2>4 DEF OnDisk
<1>6. /\ Formed(index) /\ ~ Torn(wal)
      /\ \A p \in OnFile : Holds(index, p[1], p[2])
      /\ Pairs(index) \subseteq OnFile
      /\ Dead(index) = Dead(snapshot) \cup Deletes(wal)
  BY <1>5, DiskFacts
<1>7. /\ Vecs(snapshot) \subseteq past.submitted /\ NoTwice(OnFile)
      /\ \A i \in Dead(snapshot) : snapshot.vectors[i] \in past.erasing
      /\ \A v \in Erased : \E i \in Dead(snapshot) \cup Deletes(wal) : <<i, v>> \in OnFile
      /\ \A i \in Deletes(wal) : \E v \in past.erasing : <<i, v>> \in OnFile
  BY <1>3, <1>6 DEF FileDisk
<1>8. \A i, v : <<i, v>> \in OnFile => i \in DOMAIN index.nodes /\ index.vectors[i] = v
  BY <1>6 DEF Holds
<1>9. Vecs(index) \subseteq past.submitted
  <2>1. ASSUME NEW i \in DOMAIN index.nodes
        PROVE  index.vectors[i] \in past.submitted
    <3>1. <<i, index.vectors[i]>> \in OnFile
      BY <1>6 DEF Pairs
    <3>2. CASE <<i, index.vectors[i]>> \in Pairs(snapshot)
      BY <3>2, <1>7 DEF Pairs, Vecs
    <3>3. CASE <<i, index.vectors[i]>> \in Inserts(wal)
      <4>1. \A p \in Inserts(wal) : p[2] \in past.logged
        BY CoreFacts DEF DiskInv
      <4>2. QED
        BY <3>3, <4>1, <1>3
    <3>4. QED
      BY <3>1, <3>2, <3>3 DEF OnFile
  <2>2. QED
    BY <2>1 DEF Vecs
<1>10. NoTwice(Pairs(index))
  BY <1>6, <1>7 DEF NoTwice
<1>11. Buries(index, Erased)
  <2>1. ASSUME NEW v \in Erased
        PROVE  \E i \in Dead(index) : index.vectors[i] = v
    <3>1. PICK i \in Dead(index) : <<i, v>> \in OnFile
      BY <1>6, <1>7
    <3>2. QED
      BY <3>1, <1>8
  <2>2. QED
    BY <2>1 DEF Buries
<1>12. ASSUME NEW i \in Dead(index)
       PROVE  index.vectors[i] \in past.erasing
  <2>1. CASE i \in Dead(snapshot)
    <3>1. <<i, snapshot.vectors[i]>> \in OnFile
      BY <2>1 DEF OnFile, Pairs, Dead
    <3>2. QED
      BY <3>1, <2>1, <1>7, <1>8
  <2>2. CASE i \in Deletes(wal)
    <3>1. PICK v \in past.erasing : <<i, v>> \in OnFile
      BY <2>2, <1>7
    <3>2. QED
      BY <3>1, <1>8
  <2>3. QED
    BY <2>1, <2>2, <1>6
<1>13. \A i \in DOMAIN index.nodes : <<i, index.vectors[i]>> \in OnFile
  BY <1>6 DEF Pairs
<1>14. OnFile' = OnFile
  BY <1>1 DEF OnFile
<1>15. FileMemory'
  BY <1>1, <1>2, <1>6, <1>9, <1>10, <1>11, <1>12, <1>13, <1>14 DEF FileMemory
<1>16. FileReplay'
  BY <1>1 DEF FileReplay
<1>17. \A v \in Vectors : past.acked[v] # None => v \in past.logged
  BY DEF FileCore
<1>18. QED
  BY <1>1, <1>2, <1>4, <1>15, <1>16, <1>17 DEF FileCore

(* Each step of a call.                                                    *)
LEMMA CallFiles ==
  ASSUME Core, FileCore, PastInv, Quiet', NEW c \in Clients,
         Insert(c) \/ Delete(c) \/ BeginCompact(c) \/ Close(c) \/ Proceed(c)
  PROVE  FileCore'
<1>1. CASE Insert(c) \/ Delete(c) \/ Close(c)
  BY <1>1, InsertFiles, DeleteFiles, CloseFiles
<1>2. CASE BeginCompact(c)
  BY <1>2, CompactPast
<1>3. CASE Proceed(c)
  <2>1. CASE LogInsert(c) \/ LinkEntryPoint(c) \/ StartLink(c) \/ FinishLink(c) \/ LinkRaises(c)
    BY <2>1, LogInsertFiles, LinkEntryPointFiles, StartLinkFiles, FinishLinkFiles, EndingFiles
  <2>2. CASE LogDelete(c) \/ MaybeSnapshot(c) \/ Capture(c)
    BY <2>2, LogDeleteFiles, MaybeSnapshotFiles, CaptureFiles
  <2>3. CASE Save(c) \/ SaveRaises(c) \/ Truncate(c)
    BY <2>3, SaveFiles, EndingFiles, TruncateFiles
  <2>4. ~ (Swap(c) \/ Reinsert(c) \/ LogCompact(c) \/ EndBackground(c))
    <3>1. /\ call[c].at # "rebuilding" /\ call[c].op \notin {"compact", "background"}
          /\ call[c].todo = {}
      BY DEF Core, CallInv
    <3>2. QED
      BY <3>1 DEF Swap, Reinsert, LogCompact, EndBackground, At
  <2>5. QED
    BY <1>3, <2>1, <2>2, <2>3, <2>4 DEF Proceed
<1>4. QED
  BY <1>1, <1>2, <1>3

(* No step at all.                                                         *)
LEMMA SameFiles ==
  ASSUME Core, FileCore, UNCHANGED vars
  PROVE  FileCore'
<1>1. /\ index' = index /\ wal' = wal /\ snapshot' = snapshot /\ mode' = mode
      /\ pending' = pending /\ call' = call /\ past' = past
  BY DEF vars
<1>2. Erased' = Erased /\ OnFile' = OnFile
  BY <1>1 DEF Erased, OnFile
<1>3. /\ FileDisk /\ FileMemory /\ FileReplay /\ Apart /\ \A c \in Clients : FileCall(c)
      /\ \A v \in Vectors : past.acked[v] # None => v \in past.logged
  BY DEF FileCore
<1>4. FileDisk'
  BY <1>1, <1>2, <1>3 DEF FileDisk
<1>5. FileMemory'
  BY <1>1, <1>2, <1>3 DEF FileMemory
<1>6. FileReplay'
  BY <1>1, <1>3 DEF FileReplay
<1>7. Apart'
  BY <1>1, <1>3 DEF Apart
<1>8. Races(snapshot)' <=> Races(snapshot)
  BY <1>1 DEF Races
<1>9. \A c \in Clients : FileCall(c)'
  BY <1>1, <1>2, <1>3, <1>8 DEF FileCall
<1>10. QED
  BY <1>1, <1>3, <1>4, <1>5, <1>6, <1>7, <1>9 DEF FileCore

LEMMA FileInit == Init => FileInv
<1> SUFFICES ASSUME Init PROVE FileCore
  BY DEF FileInv
<1>1. /\ snapshot = EmptyIndex /\ wal = << >> /\ mode = "down"
      /\ call = [c \in Clients |-> IdleCall]
  BY DEF Init
<1>2. /\ past.logged = {} /\ past.submitted = {} /\ past.erased = {}
      /\ past.acked = [v \in Vectors |-> None]
  BY DEF Init
<1>3. DOMAIN snapshot.nodes = {}
  BY <1>1 DEF EmptyIndex
<1>4. \A c \in Clients : call[c].at = "idle"
  BY <1>1 DEF IdleCall
<1>5. /\ Pairs(snapshot) = {} /\ Vecs(snapshot) = {} /\ Dead(snapshot) = {}
      /\ Inserts(wal) = {} /\ Deletes(wal) = {} /\ Timely(snapshot, wal)
  BY <1>1, <1>3 DEF Pairs, Vecs, Dead, Inserts, Deletes, Timely
<1>6. Erased = {}
  BY <1>2, <1>4 DEF Erased
<1>7. FileDisk
  BY <1>2, <1>5, <1>6 DEF FileDisk, OnFile, NoTwice
<1>8. FileMemory /\ FileReplay
  BY <1>1 DEF FileMemory, FileReplay
<1>9. Apart /\ \A c \in Clients : FileCall(c)
  BY <1>4 DEF Apart, FileCall
<1>10. QED
  BY <1>2, <1>7, <1>8, <1>9 DEF FileCore

LEMMA FileNext == WriteInv /\ FileInv /\ [Next]_vars => FileInv'
<1> SUFFICES ASSUME WriteInv, FileInv, [Next]_vars, Quiet' PROVE FileCore'
  BY DEF FileInv
<1>1. PastInv
  BY DEF WriteInv
<1>2. Quiet
  BY <1>1, PastStep DEF Later
<1>3. Core /\ FileCore
  BY <1>2 DEF WriteInv, FileInv
<1>4. CASE UNCHANGED vars
  BY <1>3, <1>4, SameFiles
<1>5. CASE Crash
  BY <1>1, <1>3, <1>5, CrashFiles
<1>6. CASE Boot
  BY <1>1, <1>3, <1>6, StartFiles, ReplayFiles, ReplayDiesFiles, ServeFiles DEF Boot
<1>7. ASSUME NEW c \in Clients,
             Insert(c) \/ Delete(c) \/ BeginCompact(c) \/ Close(c) \/ Proceed(c)
      PROVE  FileCore'
  BY <1>1, <1>3, <1>7, CallFiles
<1>8. QED
  BY <1>4, <1>5, <1>6, <1>7 DEF Next

(* The two files, and memory, agree on what is dead and under which id each*)
(* vector is, in every state of every history without a compaction or a    *)
(* racing snapshot (core/database.py:101-181).                             *)
THEOREM FilesAreInOrder == Spec => []FileInv
<1>1. WriteInv /\ FileInv /\ [Next]_vars => (WriteInv /\ FileInv)'
  BY WriteNext, FileNext
<1>2. Init => WriteInv /\ FileInv
  BY WriteInit, FileInit
<1>3. QED
  BY <1>1, <1>2, PTL DEF Spec

(* Whether a call is between the rename of a snapshot and the truncation of*)
(* the log or not, the next start finds what it finds in the snapshot.     *)
LEMMA ReplayChangesNothing == WriteInv /\ FileInv => (past.compactions > 0 \/ ReplayIsIdempotent)
<1> SUFFICES ASSUME WriteInv, FileInv, ~ (past.compactions > 0),
                    NEW c \in Clients, NEW ix \in OnDisk,
                    call[c].at = "saved", ~ past.torn
             PROVE  Contents(ix) = Contents(snapshot)
  BY DEF ReplayIsIdempotent
<1>1. past.compactions = 0
  BY DEF WriteInv, PastInv
<1>2. Core /\ FileCore
  BY <1>1 DEF WriteInv, FileInv, Quiet
<1>3. QED
  BY <1>2, SavedIsAlike

(* A crash between the rename of a snapshot and the truncation of the log  *)
(* does no harm: the records that the log still holds change nothing that a*)
(* search can see (core/database.py:60-64).  For histories without a       *)
(* compaction.                                                             *)
THEOREM ReplaysAreIdempotent == Spec => [](past.compactions > 0 \/ ReplayIsIdempotent)
BY ReplayChangesNothing, WritesAreInOrder, FilesAreInOrder, PTL
-----------------------------------------------------------------------------
(* The invariant about edges                                               *)

LEMMA FitMore ==
  ASSUME NEW ix, NEW V, NEW W, V \subseteq W
  PROVE  (Fit(ix, V) => Fit(ix, W)) /\ (Whole(ix, V) => Whole(ix, W))
BY DEF Fit, Whole

(* A step of the call c that leaves the files alone.                       *)
LEMMA MemoryLinks ==
  ASSUME Core, LinkCore, mode = "up", mode' = "up", NEW c \in Clients, NEW k,
         call' = [call EXCEPT ![c] = k], wal' = wal, snapshot' = snapshot,
         past'.logged = past.logged, Fit(index', past.logged), ~ DeadEntry(index'),
         k.at = "captured" => Fit(k.image, past.logged)
  PROVE  LinkCore'
<1>1. call'[c] = k /\ \A d \in Clients : d # c => call'[d] = call[d]
  BY CoreFacts
<1>2. QED
  BY <1>1 DEF LinkCore

LEMMA IndexLinks ==
  ASSUME Core, LinkCore, mode = "up"
  PROVE  /\ Formed(index) /\ Live(index) = DOMAIN index.nodes \ Dead(index)
         /\ None \notin DOMAIN index.nodes
         /\ Fit(index, past.logged) /\ ~ DeadEntry(index)
         /\ index.entryPoint = None \/ index.entryPoint \in Live(index)
<1>1. Formed(index) /\ Fit(index, past.logged) /\ ~ DeadEntry(index)
  BY CoreFacts DEF LinkCore
<1>2. index.entryPoint \in DOMAIN index.nodes \cup {None} /\ None \notin DOMAIN index.nodes
  BY <1>1, DatabaseAssumption DEF Formed
<1>3. index.entryPoint = None \/ index.entryPoint \in Live(index)
  BY <1>1, <1>2 DEF DeadEntry
<1>4. Live(index) = DOMAIN index.nodes \ Dead(index)
  BY <1>1, LiveNotDead
<1>5. QED
  BY <1>1, <1>2, <1>3, <1>4

(* The index stays what it is.                                             *)
LEMMA StillLinks ==
  ASSUME Core, LinkCore, PastInv, NEW c \in Clients,
         \/ LinkEntryPoint(c) \/ LinkRaises(c) \/ SaveRaises(c) \/ MaybeSnapshot(c)
         \/ Close(c) \/ Capture(c)
  PROVE  LinkCore'
<1>1. /\ mode = "up" /\ mode' = "up" /\ index' = index /\ wal' = wal /\ snapshot' = snapshot
  BY DEF LinkEntryPoint, LinkRaises, SaveRaises, MaybeSnapshot, Close, Capture, CaptureLeaving,
         Serving, At, memory, files, startup
<1>2. /\ past'.logged = past.logged
      /\ \E k : /\ call' = [call EXCEPT ![c] = k]
                /\ k.at = "captured" => k.image = index
  <2>1. IdleCall.at = "idle" /\ IsCall(call[c])
    BY CoreFacts DEF IdleCall
  <2>2. CASE LinkEntryPoint(c)
    <3>1. call' = [call EXCEPT ![c] = [call[c] EXCEPT !.at = "done"]] /\ past' = past
      BY <2>2 DEF LinkEntryPoint, Goto
    <3>2. [call[c] EXCEPT !.at = "done"].at = "done"
      BY <2>1, Moved
    <3>3. QED
      BY <3>1, <3>2
  <2>3. CASE LinkRaises(c) \/ SaveRaises(c)
    BY <2>1, <2>3 DEF LinkRaises, SaveRaises, Raise
  <2>4. CASE MaybeSnapshot(c)
    <3>1. CASE Return(c)
      BY <3>1, <2>1 DEF Return, PastInv, IsPast
    <3>2. CASE Goto(c, "snapshot") /\ past' = past
      <4>1. call' = [call EXCEPT ![c] = [call[c] EXCEPT !.at = "snapshot"]]
        BY <3>2 DEF Goto
      <4>2. [call[c] EXCEPT !.at = "snapshot"].at = "snapshot"
        BY <2>1, Moved
      <4>3. QED
        BY <4>1, <4>2, <3>2
    <3>3. QED
      BY <2>4, <3>1, <3>2 DEF MaybeSnapshot
  <2>5. CASE Close(c)
    <3>1. [IdleCall EXCEPT !.at = "snapshot", !.op = "close"].at = "snapshot"
      BY DEF IdleCall
    <3>2. QED
      BY <2>5, <3>1 DEF Close
  <2>6. CASE Capture(c)
    <3> DEFINE k == [call[c] EXCEPT !.at = "captured", !.gen = Generation, !.image = index]
    <3>1. k.image = index
      BY <2>1 DEF IsCall, CallFields
    <3>2. call' = [call EXCEPT ![c] = k] /\ past'.logged = past.logged
      BY <2>6 DEF Capture, CaptureLeaving, PastInv, IsPast
    <3> HIDE DEF k
    <3>3. QED
      BY <3>1, <3>2
  <2>7. QED
    BY <2>2, <2>3, <2>4, <2>5, <2>6
<1>3. QED
  BY <1>1, <1>2, IndexLinks, MemoryLinks

LEMMA InsertLinks ==
  ASSUME Core, LinkCore, PastInv, NEW c \in Clients, Insert(c)
  PROVE  LinkCore'
<1>1. PICK v \in Vectors, level \in Levels :
        /\ index' = Reserve(index, v, level)
        /\ call' = [call EXCEPT ![c] = [IdleCall EXCEPT !.at = "reserved", !.op = "insert",
                                                        !.id = index.nextId, !.vec = v]]
        /\ past' = [past EXCEPT !.submitted = @ \cup {v}, !.seeds = @ \cup Seeded]
  BY DEF Insert
<1>2. mode = "up" /\ mode' = "up" /\ wal' = wal /\ snapshot' = snapshot
  BY DEF Insert, Serving, files, startup
<1>3. past'.logged = past.logged
  BY <1>1 DEF PastInv, IsPast
<1> DEFINE n == index.nextId
           k == [IdleCall EXCEPT !.at = "reserved", !.op = "insert", !.id = n, !.vec = v]
<1>4. n \in Nat /\ n \notin DOMAIN index.nodes /\ level \in Nat /\ index' = AddNode(index, n, v, level)
  <2>1. n \in Nat /\ DOMAIN index.nodes \subseteq 0..(n - 1)
    BY CoreFacts DEF Formed
  <2>2. QED
    BY <1>1, <2>1 DEF Levels, Reserve
<1>5. /\ Formed(index') /\ Keeps(index, index')
      /\ DOMAIN index'.nodes = DOMAIN index.nodes \cup {n}
      /\ index'.entryPoint = IF index.entryPoint = None THEN n ELSE index.entryPoint
  BY <1>4, CoreFacts, AddNodeKeeps
<1>6. /\ \A i \in DOMAIN index.nodes : index'.nodes[i] = index.nodes[i]
      /\ index'.nodes[n].links = "none" /\ Dead(index') = Dead(index)
  BY <1>4, CoreFacts, AddNodeLinks
<1>7. k.at = "reserved" /\ call' = [call EXCEPT ![c] = k]
  BY <1>1 DEF IdleCall
<1> HIDE DEF k, n
<1>8. Live(index') = DOMAIN index'.nodes \ Dead(index')
  BY <1>5, LiveNotDead
<1>9. n \in Live(index') /\ Live(index) \subseteq Live(index')
  BY <1>2, <1>4, <1>5, <1>6, <1>8, IndexLinks, LiveNotDead
<1>10. index'.entryPoint \in Live(index')
  BY <1>2, <1>5, <1>9, IndexLinks
<1>11. Fit(index', past.logged)
  <2>1. \A i \in DOMAIN index.nodes :
          /\ index.nodes[i].links # "alone"
          /\ index.nodes[i].links = "out" => index.vectors[i] \in past.logged
    BY <1>2, IndexLinks DEF Fit
  <2>2. \A i \in DOMAIN index.nodes : index'.vectors[i] = index.vectors[i]
    BY <1>5 DEF Keeps, Holds
  <2>3. index'.entryPoint # None
    BY <1>5, <1>8, <1>10, DatabaseAssumption DEF Formed
  <2>4. QED
    BY <2>1, <2>2, <2>3, <1>5, <1>6 DEF Fit
<1>12. QED
  BY <1>2, <1>3, <1>7, <1>10, <1>11, MemoryLinks DEF DeadEntry

LEMMA DeleteLinks ==
  ASSUME Core, LinkCore, PastInv, NEW c \in Clients, Delete(c)
  PROVE  LinkCore'
<1>1. PICK id \in Live(index) :
        /\ index' = Tombstone(index, id)
        /\ call' = [call EXCEPT ![c] = [IdleCall EXCEPT !.at = "tombstoned", !.op = "delete",
                                                        !.id = id, !.vec = Row(index, id)]]
        /\ past' = [past EXCEPT !.erasing = @ \cup {Row(index, id)},
                                !.seeds = @ \cup Seeded,
                                !.stranded = @ \/ (id = index.entryPoint /\ BareEntry(index')),
                                !.crossed = @ \/ Compacting # {}]
  BY DEF Delete
<1>2. mode = "up" /\ mode' = "up" /\ wal' = wal /\ snapshot' = snapshot
  BY DEF Delete, Serving, files, startup
<1>3. past'.logged = past.logged
  BY <1>1 DEF PastInv, IsPast
<1> DEFINE k == [IdleCall EXCEPT !.at = "tombstoned", !.op = "delete", !.id = id, !.vec = Row(index, id)]
<1>4. k.at = "tombstoned" /\ call' = [call EXCEPT ![c] = k]
  BY <1>1 DEF IdleCall
<1> HIDE DEF k
<1>5. id \in DOMAIN index.nodes
  BY DEF Live
<1>6. /\ Formed(index') /\ Same(index, index') /\ Dead(index') = Dead(index) \cup {id}
      /\ \A i \in DOMAIN index.nodes : index'.nodes[i].links = index.nodes[i].links
      /\ id # index.entryPoint => index'.entryPoint = index.entryPoint
      /\ id = index.entryPoint =>
           index'.entryPoint \in Live(index') \/ (index'.entryPoint = None /\ Live(index') = {})
  BY <1>1, <1>5, DatabaseAssumption, CoreFacts, TombstoneLinks
<1>7. DOMAIN index'.nodes = DOMAIN index.nodes /\ index'.vectors = index.vectors
  BY <1>6 DEF Same
<1>8. Live(index') = Live(index) \ {id}
  BY <1>2, <1>6, <1>7, IndexLinks, LiveNotDead
<1>9. /\ None \notin DOMAIN index.nodes
      /\ index.entryPoint = None => Live(index) = {}
      /\ index.entryPoint = None \/ index.entryPoint \in Live(index)
      /\ \A i \in DOMAIN index.nodes :
          /\ index.nodes[i].links # "alone"
          /\ index.nodes[i].links = "out" => index.vectors[i] \in past.logged
  BY <1>2, IndexLinks DEF Fit
<1>10. (index'.entryPoint = None /\ Live(index') = {}) \/ index'.entryPoint \in Live(index')
  BY <1>6, <1>8, <1>9
<1>11. None \notin Live(index')
  BY <1>8, <1>9 DEF Live
<1>12. Fit(index', past.logged) /\ ~ DeadEntry(index')
  BY <1>6, <1>7, <1>9, <1>10, <1>11 DEF Fit, DeadEntry
<1>13. QED
  BY <1>2, <1>3, <1>4, <1>12, MemoryLinks

(* link() begins: its node is logged, and it finds the entry point at least.*)
LEMMA StartLinkLinks ==
  ASSUME Core, FileCore, LinkCore, NEW c \in Clients, StartLink(c)
  PROVE  LinkCore'
<1> DEFINE id     == call[c].id
           chosen == Chosen(index, id)
           k == [call[c] EXCEPT !.at = "linking", !.gen = Generation, !.top = index.maxLayer,
                                !.chosen = chosen, !.level = index.nodes[id].level]
<1>1. /\ mode = "up" /\ mode' = "up" /\ call[c].at = "toLink"
      /\ id \in DOMAIN index.nodes /\ index.entryPoint \in DOMAIN index.nodes \ {id}
      /\ index' = LinkOut(index, id, chosen)
      /\ call' = [call EXCEPT ![c] = k] /\ past' = past
      /\ wal' = wal /\ snapshot' = snapshot
  BY DEF StartLink, StartLinkIn, At, startup, files
<1>2. IsCall(call[c]) /\ CallInv(c)
  BY CoreFacts
<1>3. call[c].op = "insert" /\ call[c].vec \in past.logged
  BY <1>1, <1>2 DEF CallInv
<1>4. k.at = "linking"
  BY <1>2 DEF IsCall, CallFields
<1>5. index.vectors[id] \in past.logged
  BY <1>1, <1>3, OwnIsHeld DEF Holds
<1>6. /\ Formed(index) /\ Live(index) = DOMAIN index.nodes \ Dead(index)
      /\ Fit(index, past.logged) /\ ~ DeadEntry(index)
      /\ index.entryPoint \in Live(index) /\ index.entryPoint # None
  BY <1>1, IndexLinks
<1>7. index.entryPoint \in chosen
  <2>1. index.entryPoint \in Findable(index)
    BY <1>1, <1>6 DEF Findable
  <2>2. QED
    BY <1>1, <2>1 DEF Chosen
<1> HIDE DEF k, chosen, id
<1>8. /\ Tied(index, index') /\ index'.entryPoint = index.entryPoint
      /\ \A i \in DOMAIN index.nodes :
           index'.nodes[i].links = IF i = id /\ index.nodes[id].links = "none"
                                   THEN (IF chosen = {} THEN "alone" ELSE "out")
                                   ELSE index.nodes[i].links
  BY <1>1, <1>6, LinkOutLinks
<1>9. /\ Formed(index') /\ DOMAIN index'.nodes = DOMAIN index.nodes
      /\ index'.vectors = index.vectors /\ Dead(index') = Dead(index)
  BY <1>8 DEF Tied, Same
<1>10. Live(index') = Live(index)
  BY <1>6, <1>9, LiveNotDead
<1>11. ~ DeadEntry(index')
  BY <1>6, <1>8, <1>10 DEF DeadEntry
<1>12. Fit(index', past.logged)
  <2>1. \A i \in DOMAIN index.nodes :
          /\ index.nodes[i].links # "alone"
          /\ index.nodes[i].links = "out" => index.vectors[i] \in past.logged
    BY <1>6 DEF Fit
  <2>2. \A i \in DOMAIN index.nodes :
          index'.nodes[i].links = index.nodes[i].links \/ (i = id /\ index'.nodes[i].links = "out")
    BY <1>7, <1>8
  <2>3. QED
    BY <2>1, <2>2, <1>5, <1>6, <1>8, <1>9 DEF Fit
<1>13. QED
  BY <1>1, <1>4, <1>11, <1>12, MemoryLinks

(* link() ends: the node and those it found are connected both ways.       *)
LEMMA FinishLinkLinks ==
  ASSUME Core, FileCore, LinkCore, PastInv, ~ past'.stranded, NEW c \in Clients, FinishLink(c)
  PROVE  LinkCore'
<1> DEFINE id     == call[c].id
           linked == IF call[c].gen = Generation THEN LinkBack(index, id, call[c].chosen) ELSE index
           k == [call[c] EXCEPT !.at = "done"]
<1>1. /\ mode = "up" /\ mode' = "up" /\ call[c].at = "linking"
      /\ index' = IF call[c].level > call[c].top THEN Promote(linked, id, call[c].level) ELSE linked
      /\ call' = [call EXCEPT ![c] = k]
      /\ past'.logged = past.logged /\ past'.stranded = (past.stranded \/ DeadEntry(index'))
      /\ wal' = wal /\ snapshot' = snapshot
  BY DEF FinishLink, Goto, At, startup, files, PastInv, IsPast
<1>2. k.at = "done" /\ CallInv(c)
  BY CoreFacts, Moved
<1>3. id \in DOMAIN index.nodes
  <2>1. call[c].op = "insert"
    BY <1>1, <1>2 DEF CallInv
  <2>2. QED
    BY <2>1, <1>1, OwnIsHeld DEF Holds
<1>4. /\ Formed(index) /\ Live(index) = DOMAIN index.nodes \ Dead(index)
      /\ Fit(index, past.logged) /\ None \notin DOMAIN index.nodes
  BY <1>1, IndexLinks
<1>5. /\ Tied(index, linked) /\ linked.entryPoint = index.entryPoint
      /\ \A i \in DOMAIN index.nodes : linked.nodes[i].links \in {"full", index.nodes[i].links}
  <2>1. CASE call[c].gen = Generation
    <3>1. linked = LinkBack(index, id, call[c].chosen)
      BY <2>1
    <3> HIDE DEF linked
    <3>2. /\ Tied(index, linked) /\ linked.entryPoint = index.entryPoint
          /\ \A i \in DOMAIN index.nodes :
               linked.nodes[i].links = IF call[c].chosen # {} /\ i \in call[c].chosen \cup {id}
                                       THEN "full" ELSE index.nodes[i].links
      BY <3>1, <1>4, LinkBackLinks
    <3>3. QED
      BY <3>2
  <2>2. CASE call[c].gen # Generation
    BY <2>2, <1>4, TiedSelf
  <2>3. QED
    BY <2>1, <2>2
<1> HIDE DEF k, linked
<1>6. Formed(linked) /\ id \in DOMAIN linked.nodes /\ DOMAIN linked.nodes = DOMAIN index.nodes
  BY <1>3, <1>5 DEF Tied, Same
<1>7. /\ Tied(linked, index') /\ index'.entryPoint \in {linked.entryPoint, id}
      /\ index'.nodes = linked.nodes
  BY <1>1, <1>6, PromoteLinks, TiedSelf
<1>8. /\ Formed(index') /\ DOMAIN index'.nodes = DOMAIN index.nodes
      /\ index'.vectors = index.vectors /\ Dead(index') = Dead(index)
  BY <1>5, <1>7 DEF Tied, Same
<1>9. Live(index') = Live(index)
  BY <1>4, <1>8, LiveNotDead
<1>10. Fit(index', past.logged)
  <2>1. /\ index.entryPoint = None => Live(index) = {}
        /\ \A i \in DOMAIN index.nodes :
          /\ index.nodes[i].links # "alone"
          /\ index.nodes[i].links = "out" => index.vectors[i] \in past.logged
    BY <1>4 DEF Fit
  <2>2. index'.entryPoint = None => index.entryPoint = None
    BY <1>3, <1>4, <1>5, <1>7
  <2>3. \A i \in DOMAIN index.nodes : index'.nodes[i].links \in {"full", index.nodes[i].links}
    BY <1>5, <1>7
  <2>4. QED
    BY <2>1, <2>2, <2>3, <1>8, <1>9 DEF Fit
<1>11. QED
  BY <1>1, <1>2, <1>10, MemoryLinks

LEMMA TornLogged ==
  ASSUME NEW log \in Seq(Records), NEW record \in Records, record.op = "torn"
  PROVE  Torn(Logged(log, record))
<1>1. TornRecord \in Records /\ TornRecord.op = "torn"
  BY DEF TornRecord, Record, Records
<1>2. CASE log # << >> /\ ~ Last(log).ended
  <2>1. Logged(log, record) = Append(Front(log), TornRecord) /\ Front(log) \in Seq(Records)
    BY <1>2, FrontRecords DEF Logged
  <2>2. QED
    BY <2>1, <1>1, AppendedRecords
<1>3. CASE ~ (log # << >> /\ ~ Last(log).ended)
  <2>1. Logged(log, record) = Append(log, record)
    BY <1>3 DEF Logged
  <2>2. QED
    BY <2>1, AppendedRecords
<1>4. QED
  BY <1>2, <1>3

(* A vector becomes a logged one with its record, or with a torn line.     *)
NewlyLogged(record) ==
  \A w \in past'.logged \ past.logged : Torn(wal') \/ (record.op = "insert" /\ w = record.vec)

(* What is not found in the snapshot still has its record in the log.      *)
LEMMA WriteLinks ==
  ASSUME Core, FileCore, LinkCore, mode = "up", NEW record \in Records,
         wal' = Logged(wal, record), snapshot' = snapshot,
         record.op = "insert" => Holds(index, record.id, record.vec),
         past.logged \subseteq past'.logged, NewlyLogged(record)
  PROVE  /\ Whole(snapshot, past'.logged)
         /\ \/ Torn(wal')
            \/ \A i \in Live(snapshot) :
                 snapshot.vectors[i] \in past'.logged =>
                   i \in Findable(snapshot) \/ <<i, snapshot.vectors[i]>> \in Inserts(wal')
<1>1. wal \in Seq(Records) /\ Keeps(snapshot, index)
  BY CoreFacts DEF DiskInv, MemoryInv
<1>2. /\ Torn(wal) => Torn(wal')
      /\ Torn(wal') \/ Inserts(wal) \cup Inserted(record) \subseteq Inserts(wal')
  BY <1>1, LoggedRecords
<1>3. /\ Whole(snapshot, past.logged)
      /\ \/ Torn(wal)
         \/ \A i \in Live(snapshot) :
              snapshot.vectors[i] \in past.logged =>
                i \in Findable(snapshot) \/ <<i, snapshot.vectors[i]>> \in Inserts(wal)
  BY DEF LinkCore
<1>4. Whole(snapshot, past'.logged)
  BY <1>3, FitMore
<1>5. ASSUME ~ Torn(wal'), NEW i \in Live(snapshot), snapshot.vectors[i] \in past'.logged
      PROVE  i \in Findable(snapshot) \/ <<i, snapshot.vectors[i]>> \in Inserts(wal')
  <2>1. CASE snapshot.vectors[i] \in past.logged
    BY <2>1, <1>2, <1>3, <1>5
  <2>2. CASE snapshot.vectors[i] \notin past.logged
    <3>1. record.op = "insert" /\ snapshot.vectors[i] = record.vec
      BY <2>2, <1>5 DEF NewlyLogged
    <3>2. Holds(index, i, record.vec) /\ Holds(index, record.id, record.vec)
      BY <3>1, <1>1 DEF Keeps, Live
    <3>3. NoTwice(Pairs(index))
      BY IndexFiles
    <3>4. <<i, record.vec>> \in Pairs(index) /\ <<record.id, record.vec>> \in Pairs(index)
      BY <3>2 DEF Pairs, Holds
    <3>5. i = record.id
      <4>1. \A p, q \in Pairs(index) : p[2] = q[2] => p[1] = q[1]
        BY <3>3 DEF NoTwice
      <4>2. QED
        BY <3>4, <4>1
    <3>6. <<record.id, record.vec>> \in Inserted(record)
      BY <3>1 DEF Inserted
    <3>7. QED
      BY <3>1, <3>5, <3>6, <1>2, <1>5
  <2>3. QED
    BY <2>1, <2>2
<1>6. QED
  BY <1>4, <1>5

(* log_insert() and log_delete().                                          *)
LEMMA LogLinks ==
  ASSUME Core, FileCore, LinkCore, mode = "up", mode' = "up", NEW c \in Clients, NEW k,
         NEW record \in Records, call' = [call EXCEPT ![c] = k], index' = index,
         wal' = Logged(wal, record), snapshot' = snapshot, k.at # "captured",
         record.op = "insert" => Holds(index, record.id, record.vec),
         past.logged \subseteq past'.logged, NewlyLogged(record)
  PROVE  LinkCore'
<1>1. call'[c] = k /\ \A d \in Clients : d # c => call'[d] = call[d]
  BY CoreFacts
<1>2. /\ Fit(index, past'.logged) /\ ~ DeadEntry(index)
      /\ \A d \in Clients : call[d].at = "captured" => Fit(call[d].image, past'.logged)
  BY FitMore DEF LinkCore
<1>3. \A d \in Clients : call'[d].at = "captured" => Fit(call'[d].image, past'.logged)
  BY <1>1, <1>2
<1>4. /\ Whole(snapshot, past'.logged)
      /\ \/ Torn(wal')
         \/ \A i \in Live(snapshot) :
              snapshot.vectors[i] \in past'.logged =>
                i \in Findable(snapshot) \/ <<i, snapshot.vectors[i]>> \in Inserts(wal')
  BY WriteLinks
<1>5. QED
  BY <1>2, <1>3, <1>4 DEF LinkCore

LEMMA LogInsertLinks ==
  ASSUME Core, FileCore, LinkCore, PastInv, NEW c \in Clients, LogInsert(c)
  PROVE  LinkCore'
<1> DEFINE k == [call[c] EXCEPT !.at = "toLink"]
           record == InsertRecord(call[c].id, call[c].vec)
<1>1. /\ mode = "up" /\ mode' = "up" /\ call[c].at = "reserved" /\ wal' = Logged(wal, record)
      /\ call' = [call EXCEPT ![c] = k] /\ index' = index /\ snapshot' = snapshot
      /\ past'.logged = past.logged \cup {call[c].vec}
  BY DEF LogInsert, At, Goto, memory, startup, PastInv, IsPast
<1>2. CallInv(c)
  BY CoreFacts
<1>3. /\ call[c].op = "insert" /\ call[c].vec \in Vectors /\ call[c].id \in Nat
      /\ Holds(index, call[c].id, call[c].vec)
  BY <1>1, <1>2 DEF CallInv
<1>4. /\ record \in Records /\ record.op = "insert" /\ record.id = call[c].id
      /\ record.vec = call[c].vec
  BY <1>3 DEF InsertRecord, Record, Records
<1>5. k.at = "toLink"
  BY CoreFacts, Moved
<1> HIDE DEF k, record
<1>6. NewlyLogged(record) /\ past.logged \subseteq past'.logged
  BY <1>1, <1>4 DEF NewlyLogged
<1>7. QED
  BY <1>1, <1>3, <1>4, <1>5, <1>6, LogLinks

LEMMA LogDeleteLinks ==
  ASSUME Core, FileCore, LinkCore, PastInv, NEW c \in Clients, LogDelete(c)
  PROVE  LinkCore'
<1> DEFINE k == [call[c] EXCEPT !.at = "done"]
           record == DeleteRecord(call[c].id)
<1>1. /\ mode = "up" /\ mode' = "up" /\ call[c].at = "tombstoned" /\ wal' = Logged(wal, record)
      /\ call' = [call EXCEPT ![c] = k] /\ index' = index /\ snapshot' = snapshot
      /\ past'.logged = past.logged
  BY DEF LogDelete, At, Goto, memory, startup, PastInv, IsPast
<1>2. CallInv(c)
  BY CoreFacts
<1>3. call[c].id \in Nat
  BY <1>2 DEF CallInv
<1>4. record \in Records /\ record.op = "delete"
  BY <1>3, DatabaseAssumption DEF DeleteRecord, Record, Records
<1>5. k.at = "done"
  BY CoreFacts, Moved
<1> HIDE DEF k, record
<1>6. NewlyLogged(record) /\ past.logged \subseteq past'.logged
  BY <1>1 DEF NewlyLogged
<1>7. QED
  BY <1>1, <1>4, <1>5, <1>6, LogLinks

LEMMA GoneLinks ==
  ASSUME Gone, mode' = "down", Whole(snapshot, past'.logged),
         \/ Torn(wal')
         \/ \A i \in Live(snapshot) :
              snapshot.vectors[i] \in past'.logged =>
                i \in Findable(snapshot) \/ <<i, snapshot.vectors[i]>> \in Inserts(wal')
  PROVE  LinkCore'
<1>1. \A d \in Clients : call'[d].at = "idle"
  BY DEF Gone, IdleCall
<1>2. snapshot' = snapshot
  BY DEF Gone
<1>3. QED
  BY <1>1, <1>2 DEF LinkCore

LEMMA CrashLinks ==
  ASSUME Core, FileCore, LinkCore, PastInv, Crash
  PROVE  LinkCore'
<1>1. Gone /\ mode' = "down" /\ snapshot' = snapshot
  BY DEF Crash, Gone
<1>2. CASE wal' = wal /\ past' = [past EXCEPT !.crashes = @ + 1, !.torn = @ \/ Mixed]
  <2>1. past'.logged = past.logged
    BY <1>2 DEF PastInv, IsPast
  <2>2. QED
    BY <2>1, <1>1, <1>2, GoneLinks DEF LinkCore
<1>3. CASE \E c \in Clients, tear \in Tears :
              /\ At(c, "reserved") \/ At(c, "tombstoned")
              /\ wal' = Cut(wal, Writing(c), tear)
              /\ past' = [past EXCEPT
                   !.crashes = @ + 1,
                   !.logged = IF call[c].op = "insert" THEN @ \cup {call[c].vec} ELSE @,
                   !.torn = @ \/ Mixed \/ Renumbered \/ Early(c)]
  <2>1. PICK c \in Clients, tear \in Tears :
              /\ At(c, "reserved") \/ At(c, "tombstoned")
              /\ wal' = Cut(wal, Writing(c), tear)
              /\ past' = [past EXCEPT
                   !.crashes = @ + 1,
                   !.logged = IF call[c].op = "insert" THEN @ \cup {call[c].vec} ELSE @,
                   !.torn = @ \/ Mixed \/ Renumbered \/ Early(c)]
    BY <1>3
  <2> DEFINE record == Writing(c)
             part   == IF tear = "cut" THEN TornRecord ELSE [record EXCEPT !.ended = FALSE]
             v      == call[c].vec
  <2>2. /\ mode = "up" /\ call[c].at \in {"reserved", "tombstoned"}
    BY <2>1 DEF At
  <2>3. past'.logged = IF call[c].op = "insert" THEN past.logged \cup {v} ELSE past.logged
    BY <2>1 DEF PastInv, IsPast
  <2>4. CallInv(c)
    BY CoreFacts
  <2>5. /\ call[c].id \in Nat
        /\ call[c].op = "insert" => v \in Vectors /\ Holds(index, call[c].id, v)
    BY <2>2, <2>4 DEF CallInv
  <2>6. /\ record \in Records /\ record.id = call[c].id
        /\ record.op = IF call[c].op = "insert" THEN "insert" ELSE "delete"
        /\ call[c].op = "insert" => record.vec = v
    BY <2>5 DEF Writing, InsertRecord, DeleteRecord, Record, Records
  <2>7. /\ part \in Records
        /\ part.op = "torn" \/ (part.op = record.op /\ part.id = record.id /\ part.vec = record.vec)
    BY <2>6 DEF TornRecord, Record, Records
  <2>8. wal' = Logged(wal, part) /\ wal \in Seq(Records)
    BY <2>1, CoreFacts DEF Cut, DiskInv
  <2> HIDE DEF part, record, v
  <2>9. part.op = "insert" => Holds(index, part.id, part.vec)
    BY <2>5, <2>6, <2>7
  <2>10. part.op = "torn" => Torn(wal')
    BY <2>7, <2>8, TornLogged
  <2>11. NewlyLogged(part) /\ past.logged \subseteq past'.logged
    BY <2>3, <2>6, <2>7, <2>10 DEF NewlyLogged
  <2>12. /\ Whole(snapshot, past'.logged)
         /\ \/ Torn(wal')
            \/ \A i \in Live(snapshot) :
                 snapshot.vectors[i] \in past'.logged =>
                   i \in Findable(snapshot) \/ <<i, snapshot.vectors[i]>> \in Inserts(wal')
    BY <2>2, <2>7, <2>8, <2>9, <2>11, <1>1, WriteLinks
  <2>13. QED
    BY <2>12, <1>1, GoneLinks
<1>4. QED
  BY <1>2, <1>3 DEF Crash

LEMMA ReplayDiesLinks ==
  ASSUME LinkCore, ReplayDies
  PROVE  LinkCore'
BY GoneLinks DEF ReplayDies, LinkCore

(* A snapshot that races no write is whole, whichever nodes pickle met in  *)
(* their old state.                                                        *)
LEMMA SaveLinks ==
  ASSUME Core, FileCore, LinkCore, PastInv, Quiet', NEW c \in Clients, Save(c)
  PROVE  LinkCore'
<1> DEFINE k == call[c]
           m == [call[c] EXCEPT !.at = "saved"]
           V == past.logged
<1>1. PICK stale : /\ snapshot' = Pickled(k.image, NodesOf(k.gen), stale)
                   /\ past' = [past EXCEPT !.torn = @ \/ Races(snapshot')]
  BY DEF Save
<1>2. /\ mode = "up" /\ mode' = "up" /\ k.at = "captured" /\ call' = [call EXCEPT ![c] = m]
      /\ wal' = wal /\ index' = index
  BY DEF Save, At, Goto, memory, startup
<1>3. past'.torn = (past.torn \/ Races(snapshot')) /\ past'.logged = past.logged
  BY <1>1 DEF PastInv, IsPast
<1>4. CallInv(c) /\ FileCall(c) /\ MemoryInv
  BY <1>2, CoreFacts, IndexFiles
<1>5. /\ k.gen = 0 /\ Formed(k.image) /\ Newer(k.image, index)
      /\ Dead(k.image) \subseteq Dead(index)
  BY <1>2, <1>4 DEF CallInv, FileCall
<1>6. NodesOf(k.gen) = index
  BY <1>4, <1>5 DEF NodesOf, Generation, MemoryInv
<1> DEFINE s == Pickled(k.image, index, stale)
<1>7. snapshot' = s /\ ~ Races(s)
  BY <1>1, <1>3, <1>6 DEF Quiet
<1>8. DOMAIN index.nodes \subseteq DOMAIN k.image.vectors
  <2>1. DOMAIN s.nodes \subseteq DOMAIN s.vectors
    BY <1>7 DEF Races
  <2>2. DOMAIN s.nodes = DOMAIN index.nodes /\ s.vectors = k.image.vectors
    BY <1>5 DEF Pickled, Formed, IsRecord, Fields
  <2>3. QED
    BY <2>1, <2>2
<1>9. /\ DOMAIN s.nodes = DOMAIN index.nodes /\ DOMAIN k.image.nodes = DOMAIN index.nodes
      /\ s.vectors = k.image.vectors /\ s.entryPoint = k.image.entryPoint
      /\ \A i \in DOMAIN index.nodes : s.nodes[i] \in {k.image.nodes[i], index.nodes[i]}
      /\ \A i \in DOMAIN index.nodes : k.image.vectors[i] = index.vectors[i]
      /\ Dead(k.image) \subseteq Dead(s)
  BY <1>2, <1>5, <1>8, CoreFacts, PickledFiles
<1>10. m.at = "saved"
  BY CoreFacts, Moved
<1> HIDE DEF s, m
<1>11. Formed(index) /\ Fit(index, V) /\ ~ DeadEntry(index) /\ Fit(k.image, V)
  BY <1>2, IndexLinks DEF LinkCore
<1>12. ASSUME NEW i \in DOMAIN index.nodes
       PROVE  /\ s.nodes[i].links \in {"none", "out", "full"}
              /\ s.nodes[i].links = "out" => s.vectors[i] \in V
  <2>1. /\ index.nodes[i].links \in {"none", "out", "alone", "full"}
        /\ k.image.nodes[i].links \in {"none", "out", "alone", "full"}
    BY <1>5, <1>9, <1>11 DEF Formed, AnyNode
  <2>2. /\ index.nodes[i].links # "alone" /\ k.image.nodes[i].links # "alone"
        /\ index.nodes[i].links = "out" => index.vectors[i] \in V
        /\ k.image.nodes[i].links = "out" => k.image.vectors[i] \in V
    BY <1>9, <1>11 DEF Fit
  <2>3. s.nodes[i] = index.nodes[i] \/ s.nodes[i] = k.image.nodes[i]
    BY <1>9
  <2>4. s.vectors[i] = index.vectors[i] /\ s.vectors[i] = k.image.vectors[i]
    BY <1>9
  <2>5. QED
    BY <2>1, <2>2, <2>3, <2>4
<1>13. Live(s) \subseteq DOMAIN index.nodes /\ Live(s) \cap Dead(s) = {}
  BY <1>9 DEF Live, Dead
<1>14. \A i \in Live(s) : s.vectors[i] \in V => i \in Findable(s)
  BY <1>7 DEF Races
<1>15. \A i \in Findable(s) : i = s.entryPoint \/ s.nodes[i].links = "full"
  BY DEF Findable
<1>16. Fit(s, V)
  <2>1. ASSUME s.entryPoint = None
        PROVE  Live(s) = {}
    <3>1. Live(k.image) = {}
      BY <2>1, <1>9, <1>11 DEF Fit
    <3>2. DOMAIN index.nodes \subseteq Dead(k.image)
      BY <3>1, <1>9 DEF Live, Dead
    <3>3. QED
      BY <3>2, <1>9, <1>13
  <2>2. QED
    BY <2>1, <1>9, <1>12 DEF Fit
<1>17. Whole(s, V)
  <2>1. ~ Hides(s)
    BY <1>7 DEF Races
  <2>2. \A i \in Live(s) : i = s.entryPoint \/ s.nodes[i].links \in {"none", "full"}
    BY <1>12, <1>13, <1>14, <1>15
  <2>3. QED
    BY <2>1, <2>2, <1>16 DEF Whole
<1>18. call'[c] = m /\ \A d \in Clients : d # c => call'[d] = call[d]
  BY <1>2, CoreFacts
<1>19. \A d \in Clients : call'[d].at = "captured" => Fit(call'[d].image, V)
  BY <1>10, <1>18 DEF LinkCore
<1>20. QED
  BY <1>2, <1>3, <1>7, <1>11, <1>14, <1>17, <1>19 DEF LinkCore

(* The log is emptied when all that is logged is found in the snapshot.    *)
LEMMA TruncateLinks ==
  ASSUME Core, FileCore, LinkCore, PastInv, NEW c \in Clients, Truncate(c)
  PROVE  LinkCore'
<1>1. /\ mode = "up" /\ call[c].at = "saved" /\ wal' = << >> /\ snapshot' = snapshot
      /\ index' = index /\ Return(c) /\ mode' \in {"up", "down"}
  BY DEF Truncate, TruncateAndHold, At, memory
<1>2. call' = [call EXCEPT ![c] = IdleCall] /\ past'.logged = past.logged
  BY <1>1, ReturnedFiles
<1>3. ~ Races(snapshot)
  <2>1. FileCall(c)
    BY <1>1, IndexFiles
  <2>2. QED
    BY <2>1, <1>1 DEF FileCall
<1>4. \A i \in Live(snapshot) : snapshot.vectors[i] \in past.logged => i \in Findable(snapshot)
  BY <1>3 DEF Races
<1>5. call'[c] = IdleCall /\ \A d \in Clients : d # c => call'[d] = call[d]
  BY <1>2, CoreFacts
<1>6. \A d \in Clients : call'[d].at = "captured" => Fit(call'[d].image, past.logged)
  BY <1>5 DEF LinkCore, IdleCall
<1>7. QED
  BY <1>1, <1>2, <1>4, <1>6 DEF LinkCore

LEMMA StartLinks ==
  ASSUME Core, LinkCore, PastInv, Start
  PROVE  LinkCore'
<1>1. /\ mode' = "replay" /\ index' = snapshot /\ wal' = wal /\ snapshot' = snapshot
      /\ call' = call /\ past'.logged = past.logged
  BY DEF Start, files, PastInv, IsPast
<1>2. QED
  BY <1>1 DEF LinkCore

(* A record leaves the index whole.                                        *)
LEMMA ReplayLinks ==
  ASSUME Core, LinkCore, PastInv, ~ past'.stranded, Replay
  PROVE  LinkCore'
<1>1. PICK level \in Levels : index' = ReplayRecord(index, Head(pending), level)
  BY DEF Replay
<1>2. /\ mode = "replay" /\ mode' = "replay" /\ pending # << >>
      /\ ~ ReplayRaises(index, Head(pending))
      /\ wal' = wal /\ snapshot' = snapshot /\ call' = call
      /\ past'.logged = past.logged /\ past'.stranded = (past.stranded \/ Hides(index'))
  BY DEF Replay, files, PastInv, IsPast
<1>3. Formed(index) /\ Whole(index, past.logged) /\ ReplayInv
  BY <1>2, CoreFacts DEF LinkCore
<1>4. Head(pending) \in Records /\ level \in Nat
  <2>1. pending \in Seq(Records)
    BY <1>2, <1>3 DEF ReplayInv
  <2>2. QED
    BY <2>1, <1>2 DEF Levels
<1> DEFINE record == Head(pending)
<1>5. Whole(index', past.logged)
  <2>1. ~ Hides(ReplayRecord(index, record, level))
    BY <1>1, <1>2
  <2> HIDE DEF record
  <2>2. Whole(ReplayRecord(index, record, level), past.logged)
    BY <2>1, <1>2, <1>3, <1>4, RecordFinds DEF record
  <2>3. QED
    BY <2>2, <1>1 DEF record
<1>6. QED
  BY <1>2, <1>5 DEF LinkCore

LEMMA ServeLinks ==
  ASSUME LinkCore, Serve
  PROVE  LinkCore'
<1>1. /\ mode = "replay" /\ mode' = "up" /\ index' = index
      /\ wal' = wal /\ snapshot' = snapshot /\ call' = call /\ past' = past
  BY DEF Serve, memory, files
<1>2. Fit(index, past.logged) /\ ~ DeadEntry(index)
  BY <1>1 DEF LinkCore, Whole, Hides
<1>3. QED
  BY <1>1, <1>2 DEF LinkCore

LEMMA SameLinks ==
  ASSUME LinkCore, UNCHANGED vars
  PROVE  LinkCore'
<1>1. /\ index' = index /\ wal' = wal /\ snapshot' = snapshot /\ mode' = mode
      /\ call' = call /\ past' = past
  BY DEF vars
<1>2. QED
  BY <1>1 DEF LinkCore

LEMMA CallLinks ==
  ASSUME Core, FileCore, LinkCore, PastInv, Quiet', ~ past'.stranded, NEW c \in Clients,
         Insert(c) \/ Delete(c) \/ BeginCompact(c) \/ Close(c) \/ Proceed(c)
  PROVE  LinkCore'
<1>1. CASE Insert(c) \/ Delete(c) \/ Close(c)
  BY <1>1, InsertLinks, DeleteLinks, StillLinks
<1>2. CASE BeginCompact(c)
  BY <1>2, CompactPast
<1>3. CASE Proceed(c)
  <2>1. CASE LogInsert(c) \/ StartLink(c) \/ FinishLink(c) \/ LogDelete(c)
    BY <2>1, LogInsertLinks, StartLinkLinks, FinishLinkLinks, LogDeleteLinks
  <2>2. CASE LinkEntryPoint(c) \/ LinkRaises(c) \/ MaybeSnapshot(c) \/ Capture(c) \/ SaveRaises(c)
    BY <2>2, StillLinks
  <2>3. CASE Save(c) \/ Truncate(c)
    BY <2>3, SaveLinks, TruncateLinks
  <2>4. ~ (Swap(c) \/ Reinsert(c) \/ LogCompact(c) \/ EndBackground(c))
    <3>1. /\ call[c].at # "rebuilding" /\ call[c].op \notin {"compact", "background"}
          /\ call[c].todo = {}
      BY DEF Core, CallInv
    <3>2. QED
      BY <3>1 DEF Swap, Reinsert, LogCompact, EndBackground, At
  <2>5. QED
    BY <1>3, <2>1, <2>2, <2>3, <2>4 DEF Proceed
<1>4. QED
  BY <1>1, <1>2, <1>3

LEMMA LinkInit == Init => LinkInv
<1> SUFFICES ASSUME Init PROVE LinkCore
  BY DEF LinkInv
<1>1. /\ snapshot = EmptyIndex /\ wal = << >> /\ mode = "down"
      /\ call = [c \in Clients |-> IdleCall]
  BY DEF Init
<1>2. DOMAIN snapshot.nodes = {} /\ snapshot.entryPoint = None
  BY <1>1 DEF EmptyIndex
<1>3. Live(snapshot) = {}
  BY <1>2 DEF Live
<1>4. Whole(snapshot, past.logged)
  BY <1>2, <1>3 DEF Whole, Fit, Hides, DeadEntry, BareEntry
<1>5. \A c \in Clients : call[c].at # "captured"
  BY <1>1 DEF IdleCall
<1>6. QED
  BY <1>1, <1>3, <1>4, <1>5 DEF LinkCore

(* Once the entry point has hidden nodes, history says so for ever.        *)
LEMMA StrandedStays ==
  ASSUME PastInv, [Next]_vars, ~ past'.stranded
  PROVE  ~ past.stranded
<1>1. CASE past' = past
  BY <1>1
<1>2. ASSUME NEW c \in Clients, Return(c)
      PROVE  ~ past.stranded
  <2>1. past'.stranded = past.stranded
    BY <1>2 DEF Return, PastInv, IsPast
  <2>2. QED
    BY <2>1
<1>3. CASE Crash
  <2>1. past'.stranded = past.stranded
    <3>1. CASE past' = [past EXCEPT !.crashes = @ + 1, !.torn = @ \/ Mixed]
      BY <3>1 DEF PastInv, IsPast
    <3>2. ASSUME NEW c \in Clients,
                 past' = [past EXCEPT
                   !.crashes = @ + 1,
                   !.logged = IF call[c].op = "insert" THEN @ \cup {call[c].vec} ELSE @,
                   !.torn = @ \/ Mixed \/ Renumbered \/ Early(c)]
          PROVE  past'.stranded = past.stranded
      BY <3>2 DEF PastInv, IsPast
    <3>3. QED
      BY <1>3, <3>1, <3>2 DEF Crash
  <2>2. QED
    BY <2>1
<1>4. CASE Boot
  <2>1. CASE Start
    BY <2>1 DEF Start, PastInv, IsPast
  <2>2. CASE Replay
    <3>1. past'.stranded = (past.stranded \/ Hides(index'))
      BY <2>2 DEF Replay, PastInv, IsPast
    <3>2. QED
      BY <3>1
  <2>3. CASE ReplayDies \/ Serve
    BY <2>3, <1>1 DEF ReplayDies, Serve
  <2>4. QED
    BY <1>4, <2>1, <2>2, <2>3 DEF Boot
<1>5. ASSUME NEW c \in Clients,
             Insert(c) \/ Delete(c) \/ BeginCompact(c) \/ Close(c) \/ Proceed(c)
      PROVE  ~ past.stranded
  <2>1. CASE Insert(c)
    BY <2>1 DEF Insert, PastInv, IsPast
  <2>2. CASE Delete(c)
    <3>1. PICK id \in Live(index) :
            past' = [past EXCEPT !.erasing = @ \cup {Row(index, id)},
                                 !.seeds = @ \cup Seeded,
                                 !.stranded = @ \/ (id = index.entryPoint /\ BareEntry(index')),
                                 !.crossed = @ \/ Compacting # {}]
      BY <2>2 DEF Delete
    <3>2. past'.stranded = (past.stranded \/ (id = index.entryPoint /\ BareEntry(index')))
      BY <3>1 DEF PastInv, IsPast
    <3>3. QED
      BY <3>2
  <2>3. CASE LogInsert(c)
    BY <2>3 DEF LogInsert, PastInv, IsPast
  <2>4. CASE LogDelete(c)
    BY <2>4 DEF LogDelete, PastInv, IsPast
  <2>5. CASE FinishLink(c)
    <3>1. past'.stranded = (past.stranded \/ DeadEntry(index'))
      BY <2>5 DEF FinishLink, PastInv, IsPast
    <3>2. QED
      BY <3>1
  <2>6. CASE Capture(c)
    BY <2>6 DEF Capture, CaptureLeaving, PastInv, IsPast
  <2>7. CASE Save(c)
    BY <2>7 DEF Save, PastInv, IsPast
  <2>8. CASE BeginCompact(c)
    BY <2>8 DEF BeginCompact, PastInv, IsPast
  <2>9. CASE Swap(c)
    BY <2>9 DEF Swap, PastInv, IsPast
  <2>10. CASE Truncate(c) \/ EndBackground(c) \/ MaybeSnapshot(c)
    <3>1. past' = past \/ Return(c)
      BY <2>10 DEF Truncate, TruncateAndHold, EndBackground, MaybeSnapshot
    <3>2. QED
      BY <3>1, <1>1, <1>2
  <2>11. CASE LinkRaises(c) \/ SaveRaises(c) \/ Close(c) \/ LinkEntryPoint(c) \/ StartLink(c)
           \/ Reinsert(c) \/ LogCompact(c)
    <3>1. past' = past
      BY <2>11 DEF LinkRaises, SaveRaises, Raise, Close, LinkEntryPoint, StartLink, StartLinkIn,
         Reinsert, LogCompact
    <3>2. QED
      BY <3>1, <1>1
  <2>12. QED
    BY <1>5, <2>1, <2>2, <2>3, <2>4, <2>5, <2>6, <2>7, <2>8, <2>9, <2>10, <2>11 DEF Proceed
<1>6. CASE UNCHANGED vars
  BY <1>6, <1>1 DEF vars
<1>7. QED
  BY <1>3, <1>4, <1>5, <1>6 DEF Next

LEMMA LinkNext == WriteInv /\ FileInv /\ LinkInv /\ [Next]_vars => LinkInv'
<1> SUFFICES ASSUME WriteInv, FileInv, LinkInv, [Next]_vars, Quiet', ~ past'.stranded
             PROVE  LinkCore'
  BY DEF LinkInv
<1>1. PastInv
  BY DEF WriteInv
<1>2. Quiet /\ ~ past.stranded
  BY <1>1, PastStep, StrandedStays DEF Later
<1>3. Core /\ FileCore /\ LinkCore
  BY <1>2 DEF WriteInv, FileInv, LinkInv
<1>4. CASE UNCHANGED vars
  BY <1>3, <1>4, SameLinks
<1>5. CASE Crash
  BY <1>1, <1>3, <1>5, CrashLinks
<1>6. CASE Boot
  BY <1>1, <1>3, <1>6, StartLinks, ReplayLinks, ReplayDiesLinks, ServeLinks DEF Boot
<1>7. ASSUME NEW c \in Clients,
             Insert(c) \/ Delete(c) \/ BeginCompact(c) \/ Close(c) \/ Proceed(c)
      PROVE  LinkCore'
  BY <1>1, <1>3, <1>7, CallLinks
<1>8. QED
  BY <1>4, <1>5, <1>6, <1>7 DEF Next

(* No node is hidden, in the snapshot or in memory, by the edges it lacks, *)
(* as long as its record is in the log no more (core/database.py:101-181), *)
(* no compaction ran, no snapshot raced a write and no dead or bare node   *)
(* became the entry point.                                                 *)
THEOREM LinksAreInOrder == Spec => []LinkInv
<1>1. WriteInv /\ FileInv /\ LinkInv /\ [Next]_vars => (WriteInv /\ FileInv /\ LinkInv)'
  BY WriteNext, FileNext, LinkNext
<1>2. Init => WriteInv /\ FileInv /\ LinkInv
  BY WriteInit, FileInit, LinkInit
<1>3. QED
  BY <1>1, <1>2, PTL DEF Spec

LEMMA AckedIsKept ==
  WriteInv /\ FileInv /\ LinkInv => (past.compactions > 0 \/ AckedWritesSurvive)
<1> SUFFICES ASSUME WriteInv, FileInv, LinkInv, ~ (past.compactions > 0),
                    ~ past.torn, ~ Stranded, ~ Doomed
             PROVE  AckedInsertsKept /\ AckedDeletesKept
  BY DEF AckedWritesSurvive
<1>1. Quiet
  BY DEF WriteInv, PastInv, Quiet
<1>2. ~ past.stranded
  BY DEF Stranded
<1>3. Core /\ FileCore /\ LinkCore
  BY <1>1, <1>2 DEF WriteInv, FileInv, LinkInv
<1>4. QED
  BY <1>3, InsertsAreKept, DeletesAreKept

(* "No write is ever acknowledged without first being durable"             *)
(* (core/database.py:112-113): an acknowledged insert is brought back by   *)
(* every start that does not fail, an acknowledged delete stays deleted,   *)
(* whenever the process dies.  For histories without a compaction.         *)
THEOREM WritesSurvive == Spec => [](past.compactions > 0 \/ AckedWritesSurvive)
BY AckedIsKept, WritesAreInOrder, FilesAreInOrder, LinksAreInOrder, PTL

-----------------------------------------------------------------------------
(* Compaction                                                              *)

(* No crash, no write in progress during a compaction, nothing stranded.   *)
Smooth == past.crashes = 0 /\ ~ past.crossed /\ ~ past.stranded

(* An index of which nothing is hidden but what is being linked: every     *)
(* vector has one node, the dead ones are those some delete() was given;   *)
(* and while the entry point is without edges, it is the only one to find. *)
Unique(ix) == \A i, j \in DOMAIN ix.nodes : ix.vectors[i] = ix.vectors[j] => i = j

Entered(ix) == ix.entryPoint \in Live(ix) \/ (ix.entryPoint = None /\ Live(ix) = {})

Unhidden(ix) ==
  /\ \A i \in DOMAIN ix.nodes : ix.nodes[i].links # "alone"
  /\ ix.entryPoint # None /\ ix.nodes[ix.entryPoint].links = "none" =>
       \A i \in Live(ix) \ {ix.entryPoint} : ix.nodes[i].links # "full"

Healthy(ix) ==
  /\ Formed(ix) /\ Unique(ix) /\ Vecs(ix) \subseteq past.submitted
  /\ \A i \in DOMAIN ix.nodes : ix.nodes[i].tombstone <=> ix.vectors[i] \in past.erasing
  /\ Entered(ix) /\ Unhidden(ix)

(* A search finds the vector, and will as long as it is not deleted.       *)
Lasting(ix, i) == ix.nodes[i].links = "full" \/ (i = ix.entryPoint /\ ix.nodes[i].links = "none")
Reached(ix, v) == \E i \in Live(ix) : ix.vectors[i] = v /\ Lasting(ix, i)

(* The vectors whose insert() has returned, or has only the snapshot left  *)
(* to make.                                                                *)
Sure ==
  {v \in Vectors : past.acked[v] # None} \cup
  {call[c].vec : c \in {d \in Clients : /\ call[d].op = "insert"
                                        /\ call[d].at \in {"done", "snapshot", "captured", "saved"}}}

(* What the compacting thread has still to insert again, or to link.       *)
Compacts(k) == k.op \in {"compact", "background"}
InHand(k) == k.todo \cup {v \in {k.vec} : k.at \in {"toLink", "linking"}}
Hand == UNION {InHand(call[c]) : c \in Compacting}

Safe(ix) == \A v \in Sure \ past.erasing : v \in Hand \/ Reached(ix, v)

(* What a call knows at each place, of its node and of the other calls.    *)
Active == {"reserved", "toLink", "linking"}

Placed(c) ==
  LET k == call[c] IN
  /\ k.at = "idle" => k.op = "none"
  /\ k.todo = {} \/ Compacts(k)
  /\ k.at = "reserved" => k.op = "insert"
  /\ k.at \in {"toLink", "linking"} => k.op = "insert" \/ Compacts(k)
  /\ k.at = "tombstoned" => k.op = "delete"
  /\ k.at = "done" => k.op \in {"insert", "delete"} \/ Compacts(k)
  /\ k.at \in {"snapshot", "captured", "saved"} => k.op \in {"insert", "delete", "compact", "close"}
  /\ k.at = "rebuilding" => Compacts(k)
  /\ k.at \in Active => /\ Holds(index, k.id, k.vec)
                        /\ \A d \in Clients \ {c} : call[d].at \in Active => call[d].id # k.id
  /\ k.at = "linking" => k.gen = Generation /\ k.chosen \subseteq DOMAIN index.nodes
  /\ k.op = "delete" => k.vec \in past.erasing
  /\ k.op = "close" => /\ \A d \in Clients \ {c} : call[d].at = "idle"
                       /\ k.at \in {"snapshot", "captured", "saved"}
                       /\ k.at = "captured" => k.gen = Generation /\ k.image = index
                       /\ k.at = "saved" => snapshot = index

(* And of what the compaction has copied and has still to insert.          *)
Copied(k) ==
  /\ \A j \in DOMAIN k.rows : /\ k.rows[j].id \in Live(index)
                              /\ index.vectors[k.rows[j].id] = k.rows[j].vec
  /\ \A i, j \in DOMAIN k.rows : k.rows[i].vec = k.rows[j].vec => i = j

Carried(c) ==
  LET k == call[c] IN
  Compacts(k) =>
    /\ k.todo \subseteq past.submitted \ past.erasing /\ k.todo \cap Vecs(index) = {}
    /\ k.at \in {"toLink", "linking"} => k.vec \notin past.erasing
    /\ k.at \notin {"toLink", "linking", "done"} => k.todo = {}
    /\ \A d \in Clients \ {c} : ~ Compacts(call[d])
    /\ k.at = "rebuilding" => /\ \E n \in Nat : DOMAIN k.rows = 1..n /\ Len(k.rows) = n
                              /\ Copied(k)

(* And of the edges: a node without any is found only as the entry point,  *)
(* and then the calls under way will connect it.                           *)
Chooses(k) ==
  /\ k.chosen # {} /\ index.nodes[k.id].links # "none"
  /\ \A x \in k.chosen : index.nodes[x].links = "none" => x = index.entryPoint \/ x \notin Live(index)
  /\ index.entryPoint # None /\ index.nodes[index.entryPoint].links = "none" =>
       index.entryPoint \in k.chosen \/ (k.chosen \cup {k.id}) \cap Live(index) = {}

Wired(c) ==
  LET k == call[c] IN
  /\ k.at \in {"reserved", "toLink"} => index.nodes[k.id].links \in {"none", "full"}
  /\ k.at = "linking" => Chooses(k)

(* The inductive invariant of compaction, for smooth histories.            *)
AtWork ==
  /\ Healthy(index) /\ Safe(index)
  /\ \A c \in Clients : Placed(c) /\ Carried(c) /\ Wired(c)

AtRest ==
  /\ Healthy(snapshot) /\ Safe(snapshot) /\ wal = << >>
  /\ \A c \in Clients : call[c].at = "idle" /\ call[c].op = "none" /\ call[c].todo = {}
  /\ mode = "replay" => pending = << >> /\ index = snapshot

CompactCore ==
  /\ call = [c \in Clients |-> call[c]] /\ \A c \in Clients : IsCall(call[c])
  /\ past.erasing \subseteq past.submitted /\ past.erased \subseteq past.erasing
  /\ IF mode = "up" THEN AtWork ELSE AtRest

CompactInv == past.crashes \in Nat /\ (Smooth => CompactCore)
-----------------------------------------------------------------------------
(* A smooth history was smooth before, and did not crash.                  *)
LEMMA SmoothBefore ==
  ASSUME PastInv, past.crashes \in Nat, [Next]_vars
  PROVE  past'.crashes \in Nat /\ (Smooth' => Smooth /\ ~ Crash)
<1> DEFINE Goal == past'.crashes \in Nat /\ (Smooth' => Smooth /\ ~ Crash)
           Grows == /\ past'.crashes = past.crashes
                    /\ ~ past'.crossed => ~ past.crossed
<1>1. ~ past'.stranded => ~ past.stranded
  BY StrandedStays
<1>2. CASE Crash
  <2>1. past'.crashes = past.crashes + 1
    <3>1. CASE past' = [past EXCEPT !.crashes = @ + 1, !.torn = @ \/ Mixed]
      BY <3>1 DEF PastInv, IsPast
    <3>2. ASSUME NEW c \in Clients,
                 past' = [past EXCEPT
                   !.crashes = @ + 1,
                   !.logged = IF call[c].op = "insert" THEN @ \cup {call[c].vec} ELSE @,
                   !.torn = @ \/ Mixed \/ Renumbered \/ Early(c)]
          PROVE  past'.crashes = past.crashes + 1
      BY <3>2 DEF PastInv, IsPast
    <3>3. QED
      BY <1>2, <3>1, <3>2 DEF Crash
  <2>2. QED
    BY <2>1 DEF Smooth
<1>3. ASSUME ~ Crash
      PROVE  Grows
  <2>1. CASE past' = past
    BY <2>1
  <2>2. ASSUME NEW c \in Clients, Return(c)
        PROVE  Grows
    BY <2>2 DEF Return, PastInv, IsPast
  <2>3. CASE Boot
    <3>1. CASE Start
      BY <3>1 DEF Start, PastInv, IsPast
    <3>2. CASE Replay
      BY <3>2 DEF Replay, PastInv, IsPast
    <3>3. CASE ReplayDies \/ Serve
      BY <3>3, <2>1 DEF ReplayDies, Serve
    <3>4. QED
      BY <2>3, <3>1, <3>2, <3>3 DEF Boot
  <2>4. ASSUME NEW c \in Clients,
               Insert(c) \/ Delete(c) \/ BeginCompact(c) \/ Close(c) \/ Proceed(c)
        PROVE  Grows
    <3>1. CASE Insert(c)
      BY <3>1 DEF Insert, PastInv, IsPast
    <3>2. CASE Delete(c)
      <4>1. PICK id \in Live(index) :
              past' = [past EXCEPT !.erasing = @ \cup {Row(index, id)},
                                   !.seeds = @ \cup Seeded,
                                   !.stranded = @ \/ (id = index.entryPoint /\ BareEntry(index')),
                                   !.crossed = @ \/ Compacting # {}]
        BY <3>2 DEF Delete
      <4>2. past'.crossed = (past.crossed \/ Compacting # {}) /\ past'.crashes = past.crashes
        BY <4>1 DEF PastInv, IsPast
      <4>3. QED
        BY <4>2
    <3>3. CASE LogInsert(c) \/ LogDelete(c) \/ FinishLink(c) \/ Capture(c) \/ Save(c)
      <4>1. LogInsert(c) => Grows
        BY DEF LogInsert, PastInv, IsPast
      <4>2. LogDelete(c) => Grows
        BY DEF LogDelete, PastInv, IsPast
      <4>3. FinishLink(c) => Grows
        BY DEF FinishLink, PastInv, IsPast
      <4>4. Capture(c) => Grows
        BY DEF Capture, CaptureLeaving, PastInv, IsPast
      <4>5. Save(c) => Grows
        BY DEF Save, PastInv, IsPast
      <4>6. QED
        BY <3>3, <4>1, <4>2, <4>3, <4>4, <4>5
    <3>4. CASE BeginCompact(c)
      <4>1. past'.crossed = (past.crossed \/ Compacting # {}) /\ past'.crashes = past.crashes
        BY <3>4 DEF BeginCompact, PastInv, IsPast
      <4>2. QED
        BY <4>1
    <3>5. CASE Swap(c)
      <4>1. /\ past'.crashes = past.crashes
            /\ past'.crossed = (past.crossed \/ \E d \in Clients :
                                  call[d].at \in {"reserved", "toLink", "linking", "tombstoned"})
        BY <3>5 DEF Swap, PastInv, IsPast
      <4>2. QED
        BY <4>1
    <3>6. CASE Truncate(c) \/ EndBackground(c) \/ MaybeSnapshot(c)
      <4>1. past' = past \/ Return(c)
        BY <3>6 DEF Truncate, TruncateAndHold, EndBackground, MaybeSnapshot
      <4>2. QED
        BY <4>1, <2>1, <2>2
    <3>7. CASE LinkRaises(c) \/ SaveRaises(c) \/ Close(c) \/ LinkEntryPoint(c) \/ StartLink(c)
             \/ Reinsert(c) \/ LogCompact(c)
      <4>1. past' = past
        BY <3>7 DEF LinkRaises, SaveRaises, Raise, Close, LinkEntryPoint, StartLink, StartLinkIn,
           Reinsert, LogCompact
      <4>2. QED
        BY <4>1, <2>1
    <3>8. QED
      BY <2>4, <3>1, <3>2, <3>3, <3>4, <3>5, <3>6, <3>7 DEF Proceed
  <2>5. CASE UNCHANGED vars
    BY <2>5, <2>1 DEF vars
  <2>6. QED
    BY <1>3, <2>3, <2>4, <2>5 DEF Next
<1>4. QED
  BY <1>1, <1>2, <1>3 DEF Smooth

(* While a call moves, no other one is a close(); and one compacts at most.*)
LEMMA NoneCloses ==
  ASSUME CompactCore, mode = "up", NEW c \in Clients
  PROVE  /\ call[c].at # "idle" => \A d \in Clients \ {c} : call[d].op # "close"
         /\ Compacts(call[c]) => \A d \in Clients \ {c} : ~ Compacts(call[d])
BY DEF CompactCore, AtWork, Placed, Carried

(* The parts of the invariant while the server runs, for citing.           *)
LEMMA WorkFacts ==
  ASSUME CompactCore, mode = "up"
  PROVE  /\ call = [d \in Clients |-> call[d]]
         /\ past.erasing \subseteq past.submitted /\ past.erased \subseteq past.erasing
         /\ Healthy(index) /\ Safe(index) /\ Formed(index)
         /\ \A c \in Clients : IsCall(call[c]) /\ Placed(c) /\ Carried(c) /\ Wired(c)
BY DEF CompactCore, AtWork, Healthy

(* The other calls stay right when the index grows, and when nothing is    *)
(* deleted during a compaction.                                            *)
LEMMA OthersPlaced ==
  ASSUME CompactCore, mode = "up", NEW c \in Clients, NEW k,
         call' = [call EXCEPT ![c] = k], retired' = retired,
         Keeps(index, index'),
         past.submitted \subseteq past'.submitted, past.erasing \subseteq past'.erasing,
         \A d \in Clients \ {c} : call[d].op # "close",
         \A d \in Clients \ {c} : Compacts(call[d]) =>
            /\ past'.erasing = past.erasing /\ Live(index) \subseteq Live(index')
            /\ call[d].todo \cap Vecs(index') = {} /\ ~ Compacts(k),
         k.at \in Active =>
            (call[c].at \in Active /\ k.id = call[c].id) \/ k.id \notin DOMAIN index.nodes
  PROVE  \A d \in Clients \ {c} : Placed(d)' /\ Carried(d)'
<1> SUFFICES ASSUME NEW d \in Clients \ {c}
             PROVE  Placed(d)' /\ Carried(d)'
  OBVIOUS
<1>1. /\ call'[c] = k /\ \A e \in Clients \ {c} : call'[e] = call[e]
      /\ d \in Clients /\ d # c /\ Generation' = Generation
  BY WorkFacts DEF Generation
<1>2. Placed(d) /\ Carried(d) /\ Placed(c)
  BY WorkFacts
<1> DEFINE m == call[d]
<1>3. call'[d] = m
  BY <1>1
<1>4. m.at \in Active =>
         /\ Holds(index', m.id, m.vec)
         /\ \A e \in Clients \ {d} : call'[e].at \in Active => call'[e].id # m.id
  <2>1. SUFFICES ASSUME m.at \in Active
                 PROVE  /\ Holds(index', m.id, m.vec)
                        /\ \A e \in Clients \ {d} : call'[e].at \in Active => call'[e].id # m.id
    OBVIOUS
  <2>2. /\ Holds(index, m.id, m.vec)
        /\ \A e \in Clients \ {d} : call[e].at \in Active => call[e].id # m.id
    BY <2>1, <1>2 DEF Placed
  <2>3. Holds(index', m.id, m.vec)
    BY <2>2, HeldIsKept
  <2>4. ASSUME k.at \in Active
        PROVE  k.id # m.id
    <3>1. CASE call[c].at \in Active /\ k.id = call[c].id
      BY <3>1, <2>2, <1>1
    <3>2. CASE k.id \notin DOMAIN index.nodes
      BY <3>2, <2>2 DEF Holds
    <3>3. QED
      BY <2>4, <3>1, <3>2
  <2>5. QED
    BY <2>2, <2>3, <2>4, <1>1
<1>5. m.at = "linking" => m.gen = Generation /\ m.chosen \subseteq DOMAIN index'.nodes
  <2>1. DOMAIN index.nodes \subseteq DOMAIN index'.nodes
    BY DEF Keeps, Holds
  <2>2. QED
    BY <2>1, <1>2 DEF Placed
<1>6. m.op # "close"
  BY <1>1
<1>7. Placed(d)'
  BY <1>1, <1>2, <1>3, <1>4, <1>5, <1>6 DEF Placed
<1>8. Carried(d)'
  <2>1. SUFFICES ASSUME Compacts(m)
                 PROVE  Carried(d)'
    BY <1>3 DEF Carried
  <2>2. /\ past'.erasing = past.erasing /\ Live(index) \subseteq Live(index')
        /\ m.todo \cap Vecs(index') = {} /\ ~ Compacts(k)
    BY <2>1, <1>1
  <2>3. /\ m.todo \subseteq past.submitted \ past.erasing
        /\ m.at \in {"toLink", "linking"} => m.vec \notin past.erasing
        /\ m.at \notin {"toLink", "linking", "done"} => m.todo = {}
        /\ \A e \in Clients \ {d} : ~ Compacts(call[e])
        /\ m.at = "rebuilding" => /\ \E n \in Nat : DOMAIN m.rows = 1..n /\ Len(m.rows) = n
                                  /\ Copied(m)
    BY <2>1, <1>2 DEF Carried
  <2>4. \A e \in Clients \ {d} : ~ Compacts(call'[e])
    BY <2>2, <2>3, <1>1
  <2>5. Copied(m) => Copied(m)'
    BY <2>2 DEF Copied, Keeps, Holds, Live
  <2>6. QED
    BY <2>2, <2>3, <2>4, <2>5, <1>3 DEF Carried
<1>9. QED
  BY <1>7, <1>8

(* One call moves, the server stays up.                                    *)
LEMMA WorkStep ==
  ASSUME CompactCore, mode = "up", mode' = "up", NEW c \in Clients, NEW k, IsCall(k),
         call' = [call EXCEPT ![c] = k],
         past'.erasing \subseteq past'.submitted, past'.erased \subseteq past'.erasing,
         Healthy(index)', Safe(index)', Placed(c)', Carried(c)', Wired(c)',
         \A d \in Clients \ {c} : Placed(d)' /\ Carried(d)' /\ Wired(d)'
  PROVE  CompactCore'
<1>1. call'[c] = k /\ \A d \in Clients \ {c} : call'[d] = call[d]
  BY WorkFacts
<1>2. \A d \in Clients : IsCall(call'[d])
  BY <1>1, WorkFacts
<1>3. call' = [d \in Clients |-> call'[d]]
  BY WorkFacts
<1>4. \A d \in Clients : Placed(d)' /\ Carried(d)' /\ Wired(d)'
  OBVIOUS
<1>5. AtWork'
  BY <1>4 DEF AtWork
<1>6. QED
  BY <1>2, <1>3, <1>5 DEF CompactCore

(* What was in hand of the other calls still is.                           *)
LEMMA HandAfter ==
  ASSUME CompactCore, mode = "up", NEW c \in Clients, NEW k, call' = [call EXCEPT ![c] = k]
  PROVE  \A v \in Hand : (Compacts(call[c]) /\ v \in InHand(call[c])) \/ v \in Hand'
<1>1. call'[c] = k /\ \A d \in Clients \ {c} : call'[d] = call[d]
  BY WorkFacts
<1>2. Compacting = {d \in Clients : Compacts(call[d])}
  BY DEF Compacting, Compacts
<1>3. Compacting' = {d \in Clients : Compacts(call'[d])}
  BY DEF Compacting, Compacts
<1>4. ASSUME NEW v \in Hand
      PROVE  (Compacts(call[c]) /\ v \in InHand(call[c])) \/ v \in Hand'
  <2>1. PICK d \in Clients : Compacts(call[d]) /\ v \in InHand(call[d])
    BY <1>2 DEF Hand
  <2>2. CASE d # c
    <3>1. d \in Compacting' /\ v \in InHand(call'[d])
      BY <2>1, <2>2, <1>1, <1>3
    <3>2. QED
      BY <3>1 DEF Hand
  <2>3. QED
    BY <2>1, <2>2
<1>5. QED
  BY <1>4

LEMMA HandOf ==
  ASSUME NEW c \in Clients, Compacts(call[c])
  PROVE  InHand(call[c]) \subseteq Hand
BY DEF Hand, Compacting, Compacts

(* The inserts that are sure, after one call has moved.                    *)
LEMMA SureAfter ==
  ASSUME CompactCore, mode = "up", NEW c \in Clients, NEW k, call' = [call EXCEPT ![c] = k],
         past'.acked = past.acked
  PROVE  Sure' \subseteq
           Sure \cup {v \in {k.vec} : /\ k.op = "insert"
                                      /\ k.at \in {"done", "snapshot", "captured", "saved"}}
<1>1. call'[c] = k /\ \A d \in Clients \ {c} : call'[d] = call[d]
  BY WorkFacts
<1>2. QED
  BY <1>1 DEF Sure
-----------------------------------------------------------------------------
(* Compaction: the steps that leave memory alone                           *)

LEMMA CallMoves ==
  ASSUME CompactCore, mode = "up", mode' = "up", NEW c \in Clients, NEW k, IsCall(k),
         call' = [call EXCEPT ![c] = k], UNCHANGED memory,
         past'.submitted = past.submitted, past'.erasing = past.erasing,
         past'.erased \subseteq past.erasing,
         \A v \in Sure' \ past.erasing : v \in Sure \/ Reached(index, v),
         Compacts(call[c]) => \A v \in InHand(call[c]) \ past.erasing :
                                (Compacts(k) /\ v \in InHand(k)) \/ Reached(index, v),
         \A d \in Clients \ {c} : call[d].op # "close",
         Compacts(k) => \A d \in Clients \ {c} : ~ Compacts(call[d]),
         k.at \in Active => call[c].at \in Active /\ k.id = call[c].id,
         Placed(c)', Carried(c)', Wired(c)'
  PROVE  CompactCore'
<1>1. index' = index /\ retired' = retired
  BY DEF memory
<1>2. Keeps(index, index') /\ Healthy(index)'
  <2>1. Healthy(index) /\ Formed(index)
    BY WorkFacts
  <2>2. Same(index, index') /\ index.nextId \in Nat
    BY <1>1, <2>1 DEF Same, Formed
  <2>3. Healthy(index)'
    BY <1>1, <2>1 DEF Healthy
  <2>4. QED
    BY <2>2, <2>3, SameIsNewer
<1>3. \A d \in Clients \ {c} : Carried(d) /\ Wired(d)
  BY WorkFacts
<1>4. \A d \in Clients \ {c} : Compacts(call[d]) =>
         /\ past'.erasing = past.erasing /\ Live(index) \subseteq Live(index')
         /\ call[d].todo \cap Vecs(index') = {} /\ ~ Compacts(k)
  BY <1>1, <1>3 DEF Carried
<1>5. \A d \in Clients \ {c} : Placed(d)' /\ Carried(d)'
  BY <1>1, <1>2, <1>4, OthersPlaced
<1>6. call'[c] = k /\ \A d \in Clients \ {c} : call'[d] = call[d]
  BY WorkFacts
<1>7. ASSUME NEW d \in Clients \ {c}
      PROVE  Wired(d)'
  BY <1>1, <1>3, <1>6 DEF Wired, Chooses
<1>8. Safe(index)'
  <2>1. SUFFICES ASSUME NEW v \in Sure' \ past.erasing
                 PROVE  v \in Hand' \/ Reached(index, v)
    BY <1>1 DEF Safe, Reached, Lasting, Live
  <2>2. CASE Reached(index, v)
    BY <2>2
  <2>3. CASE v \in Hand
    <3>1. (Compacts(call[c]) /\ v \in InHand(call[c])) \/ v \in Hand'
      BY <2>3, HandAfter
    <3>2. ASSUME Compacts(k), v \in InHand(k)
          PROVE  v \in Hand'
      <4>1. c \in Compacting' /\ v \in InHand(call'[c])
        BY <3>2, <1>6 DEF Compacting, Compacts
      <4>2. QED
        BY <4>1 DEF Hand
    <3>3. QED
      BY <3>1, <3>2
  <2>4. QED
    BY <2>2, <2>3, WorkFacts DEF Safe
<1>9. past'.erasing \subseteq past'.submitted /\ past'.erased \subseteq past'.erasing
  BY WorkFacts
<1>10. QED
  BY <1>2, <1>5, <1>7, <1>8, <1>9, WorkStep

(* An idle call knows nothing that could be wrong.                         *)
LEMMA IdleIsPlaced ==
  ASSUME NEW c \in Clients, call'[c] = IdleCall
  PROVE  Placed(c)' /\ Carried(c)' /\ Wired(c)'
<1>1. IdleCall.at = "idle" /\ IdleCall.op = "none" /\ IdleCall.todo = {}
  BY DEF IdleCall
<1>2. ~ Compacts(IdleCall) /\ IdleCall.at \notin Active
  BY <1>1 DEF Compacts, Active
<1>3. QED
  BY <1>1, <1>2 DEF Placed, Carried, Wired

(* A call that returns had done what it tells.                             *)
LEMMA ReturnTells ==
  ASSUME CompactCore, PastInv, mode = "up", NEW c \in Clients, Return(c),
         call[c].at \in {"done", "saved"}
  PROVE  /\ call' = [call EXCEPT ![c] = IdleCall] /\ Sure' \subseteq Sure
         /\ past'.submitted = past.submitted /\ past'.erasing = past.erasing
         /\ past'.erased \subseteq past.erasing
<1>1. /\ call' = [call EXCEPT ![c] = IdleCall]
      /\ past'.submitted = past.submitted /\ past'.erasing = past.erasing
      /\ past'.erased = (IF call[c].op = "delete" THEN past.erased \cup {call[c].vec} ELSE past.erased)
      /\ past'.acked = [v \in Vectors |-> IF call[c].op = "insert" /\ v = call[c].vec
                                          THEN call[c].id ELSE past.acked[v]]
  BY DEF Return, PastInv, IsPast
<1>2. past.erased \subseteq past.erasing /\ (call[c].op = "delete" => call[c].vec \in past.erasing)
  BY WorkFacts DEF Placed
<1>3. call'[c].op # "insert" /\ \A d \in Clients : d # c => call'[d] = call[d]
  BY <1>1, WorkFacts DEF IdleCall
<1>4. Sure' \subseteq Sure
  BY <1>1, <1>3 DEF Sure
<1>5. QED
  BY <1>1, <1>2, <1>4

(* A call ends.                                                            *)
LEMMA CallEnds ==
  ASSUME CompactCore, PastInv, mode = "up", mode' = "up", NEW c \in Clients, UNCHANGED memory,
         call[c].at # "idle",
         Raise(c) \/ (Return(c) /\ call[c].at \in {"done", "saved"}),
         Compacts(call[c]) => InHand(call[c]) \subseteq past.erasing
  PROVE  CompactCore'
<1>1. /\ call' = [call EXCEPT ![c] = IdleCall] /\ Sure' \subseteq Sure
      /\ past'.submitted = past.submitted /\ past'.erasing = past.erasing
      /\ past'.erased \subseteq past.erasing
  <2>1. CASE Raise(c)
    <3>1. call' = [call EXCEPT ![c] = IdleCall] /\ past' = past
      BY <2>1 DEF Raise
    <3>2. IdleCall.op # "insert"
      BY DEF IdleCall
    <3>3. QED
      BY <3>1, <3>2, SureAfter, WorkFacts
  <2>2. CASE Return(c) /\ call[c].at \in {"done", "saved"}
    BY <2>2, ReturnTells
  <2>3. QED
    BY <2>1, <2>2
<1>2. call'[c] = IdleCall
  BY <1>1, WorkFacts
<1>3. Placed(c)' /\ Carried(c)' /\ Wired(c)'
  BY <1>2, IdleIsPlaced
<1>4. IsCall(IdleCall) /\ IdleCall.at \notin Active /\ ~ Compacts(IdleCall)
  BY DEF IdleCall, IsCall, CallFields, Active, Compacts
<1>5. \A d \in Clients \ {c} : call[d].op # "close"
  BY NoneCloses
<1>6. QED
  BY <1>1, <1>3, <1>4, <1>5, CallMoves

(* A call goes to another place, with what it holds.                       *)
LEMMA CallGoes ==
  ASSUME CompactCore, mode = "up", mode' = "up", NEW c \in Clients, NEW place,
         Goto(c, place), UNCHANGED memory,
         past'.submitted = past.submitted, past'.erasing = past.erasing,
         past'.erased = past.erased, past'.acked = past.acked,
         call[c].at # "idle",
         place \in {"done", "snapshot", "captured", "saved"} /\ call[c].op = "insert" =>
           \/ call[c].at \in {"done", "snapshot", "captured", "saved"}
           \/ call[c].vec \in past.erasing \/ Reached(index, call[c].vec),
         Compacts(call[c]) /\ call[c].at \in {"toLink", "linking"} /\ place \notin {"toLink", "linking"} =>
           call[c].vec \in past.erasing \/ Reached(index, call[c].vec),
         place \in Active => call[c].at \in Active,
         Placed(c)', Carried(c)', Wired(c)'
  PROVE  CompactCore'
<1> DEFINE k == [call[c] EXCEPT !.at = place]
<1>1. /\ IsCall(k) /\ k.at = place /\ k.op = call[c].op /\ k.id = call[c].id
      /\ k.vec = call[c].vec /\ k.todo = call[c].todo
  BY WorkFacts, Moved
<1>2. call' = [call EXCEPT ![c] = k]
  BY DEF Goto
<1> HIDE DEF k
<1>3. \A v \in Sure' \ past.erasing : v \in Sure \/ Reached(index, v)
  <2>1. Sure' \subseteq
           Sure \cup {v \in {k.vec} : /\ k.op = "insert"
                                      /\ k.at \in {"done", "snapshot", "captured", "saved"}}
    BY <1>2, SureAfter
  <2>2. call[c].op = "insert" /\ call[c].at \in {"done", "snapshot", "captured", "saved"} =>
           call[c].vec \in Sure
    BY DEF Sure
  <2>3. QED
    BY <2>1, <2>2, <1>1
<1>4. Compacts(call[c]) => \A v \in InHand(call[c]) \ past.erasing :
                             (Compacts(k) /\ v \in InHand(k)) \/ Reached(index, v)
  BY <1>1 DEF InHand, Compacts
<1>5. \A d \in Clients \ {c} : call[d].op # "close"
  BY NoneCloses
<1>6. Compacts(k) => \A d \in Clients \ {c} : ~ Compacts(call[d])
  BY <1>1, NoneCloses DEF Compacts
<1>7. k.at \in Active => call[c].at \in Active /\ k.id = call[c].id
  BY <1>1
<1>8. past'.erased \subseteq past.erasing
  BY WorkFacts
<1>9. QED
  BY <1>1, <1>2, <1>3, <1>4, <1>5, <1>6, <1>7, <1>8, CallMoves
LEMMA Goes ==
  ASSUME CompactCore, mode = "up", NEW c \in Clients, NEW place, Goto(c, place)
  PROVE  /\ call'[c].at = place
         /\ call'[c].op = call[c].op /\ call'[c].id = call[c].id /\ call'[c].vec = call[c].vec
         /\ call'[c].gen = call[c].gen /\ call'[c].chosen = call[c].chosen
         /\ call'[c].image = call[c].image /\ call'[c].todo = call[c].todo
         /\ \A d \in Clients \ {c} : call'[d] = call[d]
<1>1. call'[c] = [call[c] EXCEPT !.at = place] /\ \A d \in Clients \ {c} : call'[d] = call[d]
  BY WorkFacts DEF Goto
<1>2. IsCall(call[c])
  BY WorkFacts
<1>3. QED
  BY <1>1, <1>2, Moved

(* An acknowledged or compacted vector is found where it is, or deleted.   *)
LEMMA NodeOf ==
  ASSUME NEW ix, Healthy(ix), NEW id, NEW v, Holds(ix, id, v)
  PROVE  /\ id \in Live(ix) <=> v \notin past.erasing
         /\ id \in Live(ix) /\ Lasting(ix, id) => Reached(ix, v)
<1>1. id \in DOMAIN ix.nodes /\ ix.vectors[id] = v
  BY DEF Holds
<1>2. ix.nodes[id].tombstone <=> v \in past.erasing
  BY <1>1 DEF Healthy
<1>3. QED
  BY <1>1, <1>2 DEF Live, Reached

LEMMA LogInsertWorks ==
  ASSUME CompactCore, PastInv, NEW c \in Clients, LogInsert(c)
  PROVE  CompactCore'
<1>1. /\ mode = "up" /\ mode' = "up" /\ call[c].at = "reserved" /\ Goto(c, "toLink")
      /\ UNCHANGED memory
      /\ past'.submitted = past.submitted /\ past'.erasing = past.erasing
      /\ past'.erased = past.erased /\ past'.acked = past.acked
  BY DEF LogInsert, At, startup, PastInv, IsPast
<1>2. Placed(c) /\ Wired(c) /\ call[c].op = "insert" /\ ~ Compacts(call[c])
  BY <1>1, WorkFacts DEF Placed, Compacts
<1>3. index' = index /\ Generation' = Generation
  BY <1>1 DEF memory, Generation
<1>4. Placed(c)'
  BY <1>1, <1>2, <1>3, Goes DEF Placed, Active
<1>5. Carried(c)' /\ Wired(c)'
  BY <1>1, <1>2, <1>3, Goes DEF Carried, Wired, Compacts
<1>6. QED
  BY <1>1, <1>2, <1>4, <1>5, CallGoes DEF Active

LEMMA LogDeleteWorks ==
  ASSUME CompactCore, PastInv, NEW c \in Clients, LogDelete(c)
  PROVE  CompactCore'
<1>1. /\ mode = "up" /\ mode' = "up" /\ call[c].at = "tombstoned" /\ Goto(c, "done")
      /\ UNCHANGED memory
      /\ past'.submitted = past.submitted /\ past'.erasing = past.erasing
      /\ past'.erased = past.erased /\ past'.acked = past.acked
  BY DEF LogDelete, At, startup, PastInv, IsPast
<1>2. Placed(c) /\ call[c].op = "delete" /\ ~ Compacts(call[c])
  BY <1>1, WorkFacts DEF Placed, Compacts
<1>3. Placed(c)' /\ Carried(c)' /\ Wired(c)'
  BY <1>1, <1>2, Goes DEF Placed, Active, Carried, Wired, Compacts
<1>4. QED
  BY <1>1, <1>2, <1>3, CallGoes DEF Active

LEMMA LinkEntryPointWorks ==
  ASSUME CompactCore, NEW c \in Clients, LinkEntryPoint(c)
  PROVE  CompactCore'
<1>1. /\ mode = "up" /\ mode' = "up" /\ call[c].at = "toLink" /\ Goto(c, "done")
      /\ UNCHANGED memory /\ past' = past /\ call[c].id = index.entryPoint
  BY DEF LinkEntryPoint, At, startup
<1>2. Placed(c) /\ Carried(c) /\ Wired(c) /\ Healthy(index)
  BY <1>1, WorkFacts
<1>3. /\ Holds(index, call[c].id, call[c].vec)
      /\ index.nodes[call[c].id].links \in {"none", "full"}
      /\ call[c].op = "insert" \/ Compacts(call[c])
  BY <1>1, <1>2 DEF Placed, Wired, Active
<1>4. call[c].vec \in past.erasing \/ Reached(index, call[c].vec)
  <2>1. Lasting(index, call[c].id)
    BY <1>1, <1>3 DEF Lasting
  <2>2. QED
    BY <2>1, <1>2, <1>3, NodeOf
<1>5. index' = index
  BY <1>1 DEF memory
<1>6. Placed(c)'
  BY <1>1, <1>2, <1>3, Goes DEF Placed, Active, Compacts
<1>7. Carried(c)' /\ Wired(c)'
  BY <1>1, <1>2, <1>5, Goes DEF Carried, Wired, Compacts
<1>8. QED
  BY <1>1, <1>4, <1>6, <1>7, CallGoes DEF Active

(* link() of an entry point that is None meets only deleted vectors.       *)
LEMMA LinkRaisesWorks ==
  ASSUME CompactCore, PastInv, NEW c \in Clients, LinkRaises(c)
  PROVE  CompactCore'
<1>1. /\ mode = "up" /\ mode' = "up" /\ Raise(c) /\ UNCHANGED memory
      /\ \/ call[c].at = "toLink" /\ {call[c].id, index.entryPoint} \ DOMAIN index.nodes # {}
         \/ call[c].at = "linking" /\ call[c].gen # Generation
  BY DEF LinkRaises, At, startup
<1>2. Placed(c) /\ Carried(c) /\ Healthy(index)
  BY <1>1, WorkFacts
<1>3. call[c].at = "toLink" /\ index.entryPoint \notin DOMAIN index.nodes
  BY <1>1, <1>2 DEF Placed, Active, Holds
<1>4. Live(index) = {}
  BY <1>2, <1>3 DEF Healthy, Entered, Live
<1>5. call[c].vec \in past.erasing
  <2>1. Holds(index, call[c].id, call[c].vec)
    BY <1>2, <1>3 DEF Placed, Active
  <2>2. QED
    BY <2>1, <1>2, <1>4, NodeOf
<1>6. ~ Compacts(call[c])
  BY <1>2, <1>3, <1>5 DEF Carried
<1>7. QED
  BY <1>1, <1>3, <1>6, CallEnds

LEMMA MaybeSnapshotWorks ==
  ASSUME CompactCore, PastInv, NEW c \in Clients, MaybeSnapshot(c)
  PROVE  CompactCore'
<1>1. /\ mode = "up" /\ mode' = "up" /\ call[c].at = "done" /\ call[c].op \in {"insert", "delete"}
      /\ UNCHANGED memory
      /\ (Goto(c, "snapshot") /\ past' = past) \/ Return(c)
  BY DEF MaybeSnapshot, At, startup
<1>2. ~ Compacts(call[c]) /\ Placed(c)
  BY <1>1, WorkFacts DEF Compacts
<1>3. CASE Return(c)
  BY <1>1, <1>2, <1>3, CallEnds
<1>4. CASE Goto(c, "snapshot") /\ past' = past
  <2>1. Placed(c)' /\ Carried(c)' /\ Wired(c)'
    BY <1>1, <1>2, <1>4, Goes DEF Placed, Active, Carried, Wired, Compacts
  <2>2. QED
    BY <1>1, <1>2, <1>4, <2>1, CallGoes DEF Active
<1>5. QED
  BY <1>1, <1>3, <1>4

LEMMA CaptureWorks ==
  ASSUME CompactCore, PastInv, NEW c \in Clients, Capture(c)
  PROVE  CompactCore'
<1> DEFINE k == [call[c] EXCEPT !.at = "captured", !.gen = Generation, !.image = index]
<1>1. /\ mode = "up" /\ mode' = "up" /\ call[c].at = "snapshot" /\ call' = [call EXCEPT ![c] = k]
      /\ UNCHANGED memory
      /\ past'.submitted = past.submitted /\ past'.erasing = past.erasing
      /\ past'.erased = past.erased /\ past'.acked = past.acked
  BY DEF Capture, CaptureLeaving, At, startup, PastInv, IsPast
<1>2. IsCall(call[c]) /\ Placed(c) /\ Carried(c) /\ past.erased \subseteq past.erasing
  BY <1>1, WorkFacts
<1>3. /\ IsCall(k) /\ k.at = "captured" /\ k.gen = Generation /\ k.image = index
      /\ k.op = call[c].op /\ k.vec = call[c].vec /\ k.todo = call[c].todo
  BY <1>2 DEF IsCall, CallFields
<1> HIDE DEF k
<1>4. call'[c] = k /\ \A d \in Clients \ {c} : call'[d] = call[d]
  BY <1>1, WorkFacts
<1>5. index' = index /\ Generation' = Generation
  BY <1>1 DEF memory, Generation
<1>6. Placed(c)'
  BY <1>1, <1>2, <1>3, <1>4, <1>5 DEF Placed, Active, Compacts
<1>7. Carried(c)' /\ Wired(c)'
  BY <1>1, <1>2, <1>3, <1>4, <1>5 DEF Carried, Wired, Compacts
<1>8. Compacts(call[c]) => InHand(call[c]) = {}
  BY <1>1, <1>2 DEF Carried, InHand
<1>9. Sure' \subseteq Sure
  <2>1. Sure' \subseteq
           Sure \cup {v \in {k.vec} : /\ k.op = "insert"
                                      /\ k.at \in {"done", "snapshot", "captured", "saved"}}
    BY <1>1, SureAfter
  <2>2. call[c].op = "insert" => call[c].vec \in Sure
    BY <1>1 DEF Sure
  <2>3. QED
    BY <2>1, <2>2, <1>3
<1>10. \A d \in Clients \ {c} : call[d].op # "close"
  BY <1>1, NoneCloses
<1>11. Compacts(k) => \A d \in Clients \ {c} : ~ Compacts(call[d])
  BY <1>1, <1>3, NoneCloses DEF Compacts
<1>12. k.at \notin Active
  BY <1>3 DEF Active
<1>13. QED
  BY <1>1, <1>2, <1>3, <1>6, <1>7, <1>8, <1>9, <1>10, <1>11, <1>12, CallMoves
(* A snapshot that nothing races is the index that it copies.              *)
LEMMA PickledAlone ==
  ASSUME NEW ix, Formed(ix)
  PROVE  Changed(ix, ix) = {} /\ Pickled(ix, ix, {}) = ix
<1>1. IsRecord(ix) /\ ix.nodes = [i \in DOMAIN ix.nodes |-> ix.nodes[i]]
  BY DEF Formed
<1>2. Changed(ix, ix) = {}
  BY DEF Changed
<1>3. [i \in DOMAIN ix.nodes |-> IF i \in {} THEN ix.nodes[i] ELSE ix.nodes[i]] = ix.nodes
  BY <1>1
<1>4. Pickled(ix, ix, {}) = [ix EXCEPT !.nodes = ix.nodes, !.order = ix.order]
  BY <1>3 DEF Pickled
<1>5. QED
  BY <1>1, <1>2, <1>4 DEF IsRecord, Fields

LEMMA SaveWorks ==
  ASSUME CompactCore, PastInv, NEW c \in Clients, Save(c)
  PROVE  CompactCore'
<1>1. /\ mode = "up" /\ mode' = "up" /\ call[c].at = "captured" /\ Goto(c, "saved")
      /\ UNCHANGED memory
      /\ past'.submitted = past.submitted /\ past'.erasing = past.erasing
      /\ past'.erased = past.erased /\ past'.acked = past.acked
  BY DEF Save, At, startup, PastInv, IsPast
<1>2. Placed(c) /\ Carried(c) /\ Formed(index)
  BY <1>1, WorkFacts
<1>3. index' = index /\ NodesOf(Generation) = index
  BY <1>1 DEF memory, NodesOf
<1>4. call[c].op = "close" => snapshot' = index
  <2>1. SUFFICES ASSUME call[c].op = "close"
                 PROVE  snapshot' = index
    OBVIOUS
  <2>2. call[c].gen = Generation /\ call[c].image = index
    BY <2>1, <1>1, <1>2 DEF Placed
  <2>3. PICK stale \in SUBSET Changed(index, index) : snapshot' = Pickled(index, index, stale)
    BY <2>2, <1>3 DEF Save
  <2>4. stale = {}
    BY <1>2, <2>3, PickledAlone
  <2>5. QED
    BY <1>2, <2>3, <2>4, PickledAlone
<1>5. Placed(c)'
  BY <1>1, <1>2, <1>3, <1>4, Goes DEF Placed, Active, Compacts
<1>6. Carried(c)' /\ Wired(c)'
  BY <1>1, <1>2, <1>3, Goes DEF Carried, Wired, Compacts
<1>7. QED
  BY <1>1, <1>5, <1>6, CallGoes DEF Active

LEMMA SaveRaisesWorks ==
  ASSUME CompactCore, PastInv, NEW c \in Clients, SaveRaises(c)
  PROVE  CompactCore'
<1>1. /\ mode = "up" /\ mode' = "up" /\ call[c].at = "captured" /\ Raise(c) /\ UNCHANGED memory
  BY DEF SaveRaises, At, startup
<1>2. Compacts(call[c]) => InHand(call[c]) = {}
  BY <1>1, WorkFacts DEF Carried, InHand
<1>3. QED
  BY <1>1, <1>2, CallEnds

(* A close() leaves all that is sure in the snapshot.                      *)
LEMMA TruncateWorks ==
  ASSUME CompactCore, PastInv, NEW c \in Clients, Truncate(c)
  PROVE  CompactCore'
<1>1. /\ mode = "up" /\ call[c].at = "saved" /\ Return(c) /\ UNCHANGED memory /\ wal' = << >>
      /\ mode' = (IF call[c].op = "close" THEN "down" ELSE mode) /\ snapshot' = snapshot
  BY DEF Truncate, TruncateAndHold, At
<1>2. Placed(c) /\ Carried(c)
  BY <1>1, WorkFacts
<1>3. CASE call[c].op # "close"
  <2>1. Compacts(call[c]) => InHand(call[c]) = {}
    BY <1>1, <1>2 DEF Carried, InHand
  <2>2. QED
    BY <1>1, <1>3, <2>1, CallEnds
<1>4. CASE call[c].op = "close"
  <2>1. /\ call' = [call EXCEPT ![c] = IdleCall] /\ Sure' \subseteq Sure
        /\ past'.submitted = past.submitted /\ past'.erasing = past.erasing
        /\ past'.erased \subseteq past.erasing
    BY <1>1, ReturnTells
  <2>2. /\ snapshot = index /\ \A d \in Clients \ {c} : call[d].at = "idle"
    BY <1>1, <1>2, <1>4 DEF Placed
  <2>3. \A d \in Clients \ {c} : call[d].op = "none" /\ IsCall(call[d]) /\ call[d].todo = {}
    BY <1>1, <2>2, WorkFacts DEF Placed, Compacts
  <2>4. Compacting = {}
    BY <1>4, <2>3 DEF Compacting
  <2>5. Healthy(index) /\ Safe(index) /\ past.erasing \subseteq past.submitted
    BY <1>1, WorkFacts
  <2>6. Healthy(snapshot)'
    BY <1>1, <2>1, <2>2, <2>5 DEF Healthy
  <2>7. \A v \in Sure \ past.erasing : Reached(index, v)
    BY <2>4, <2>5 DEF Safe, Hand
  <2>8. Safe(snapshot)'
    BY <1>1, <2>1, <2>2, <2>7 DEF Safe
  <2>9. call'[c] = IdleCall /\ \A d \in Clients \ {c} : call'[d] = call[d]
    BY <1>1, <2>1, WorkFacts
  <2>10. IsCall(IdleCall) /\ IdleCall.at = "idle" /\ IdleCall.op = "none" /\ IdleCall.todo = {}
    BY DEF IdleCall, IsCall, CallFields
  <2>11. \A d \in Clients : /\ call'[d].at = "idle" /\ call'[d].op = "none" /\ IsCall(call'[d])
                            /\ call'[d].todo = {}
    BY <2>2, <2>3, <2>9, <2>10
  <2>12. call' = [d \in Clients |-> call'[d]]
    BY <1>1, <2>1, WorkFacts
  <2>13. mode' = "down"
    BY <1>1, <1>4
  <2>14. AtRest'
    BY <1>1, <2>6, <2>8, <2>11, <2>13 DEF AtRest
  <2>15. QED
    BY <2>1, <2>5, <2>11, <2>12, <2>13, <2>14 DEF CompactCore
<1>5. QED
  BY <1>3, <1>4

LEMMA LogCompactWorks ==
  ASSUME CompactCore, PastInv, NEW c \in Clients, LogCompact(c)
  PROVE  CompactCore'
<1>1. /\ mode = "up" /\ mode' = "up" /\ call[c].at = "done" /\ Goto(c, "snapshot")
      /\ call[c].op = "compact" /\ call[c].todo = {} /\ UNCHANGED memory /\ past' = past
  BY DEF LogCompact, At, startup
<1>2. Placed(c) /\ Carried(c) /\ Compacts(call[c])
  BY <1>1, WorkFacts DEF Compacts
<1>3. index' = index
  BY <1>1 DEF memory
<1>4. Placed(c)' /\ Carried(c)' /\ Wired(c)'
  BY <1>1, <1>2, <1>3, Goes DEF Placed, Active, Carried, Wired, Compacts
<1>5. QED
  BY <1>1, <1>4, CallGoes DEF Active

LEMMA EndBackgroundWorks ==
  ASSUME CompactCore, PastInv, NEW c \in Clients, EndBackground(c)
  PROVE  CompactCore'
<1>1. /\ mode = "up" /\ mode' = "up" /\ call[c].at = "done" /\ Return(c)
      /\ call[c].todo = {} /\ UNCHANGED memory
  BY DEF EndBackground, At, startup
<1>2. InHand(call[c]) = {}
  BY <1>1 DEF InHand
<1>3. QED
  BY <1>1, <1>2, CallEnds

(* A call begins that does not touch the index.                            *)
LEMMA CallBegins ==
  ASSUME CompactCore, mode = "up", mode' = "up", NEW c \in Clients, NEW k, IsCall(k),
         Serving, call[c].at = "idle", call' = [call EXCEPT ![c] = k], UNCHANGED memory,
         past'.submitted = past.submitted, past'.erasing = past.erasing,
         past'.erased = past.erased, past'.acked = past.acked,
         k.op # "insert", k.at \notin Active,
         Compacts(k) => Compacting = {},
         Placed(c)', Carried(c)', Wired(c)'
  PROVE  CompactCore'
<1>1. ~ Compacts(call[c])
  BY WorkFacts DEF Placed, Compacts
<1>2. Sure' \subseteq Sure
  BY SureAfter
<1>3. \A d \in Clients \ {c} : call[d].op # "close"
  BY DEF Serving
<1>4. Compacts(k) => \A d \in Clients \ {c} : ~ Compacts(call[d])
  BY DEF Compacting, Compacts
<1>5. past'.erased \subseteq past.erasing
  BY WorkFacts
<1>6. QED
  BY <1>1, <1>2, <1>3, <1>4, <1>5, CallMoves

LEMMA CloseWorks ==
  ASSUME CompactCore, NEW c \in Clients, Close(c)
  PROVE  CompactCore'
<1> DEFINE k == [IdleCall EXCEPT !.at = "snapshot", !.op = "close"]
<1>1. /\ mode = "up" /\ mode' = "up" /\ Serving /\ call' = [call EXCEPT ![c] = k] /\ past' = past
      /\ UNCHANGED memory /\ \A d \in Clients : call[d].at = "idle"
  BY DEF Close, Serving, At, startup
<1>2. IsCall(k) /\ k.at = "snapshot" /\ k.op = "close" /\ k.todo = {}
  BY DEF IdleCall, IsCall, CallFields
<1> HIDE DEF k
<1>3. call'[c] = k /\ \A d \in Clients \ {c} : call'[d] = call[d]
  BY <1>1, WorkFacts
<1>4. Placed(c)' /\ Carried(c)' /\ Wired(c)'
  BY <1>1, <1>2, <1>3 DEF Placed, Active, Carried, Wired, Compacts
<1>5. QED
  BY <1>1, <1>2, <1>4, CallBegins DEF Active, Compacts

(* The live ids and vectors that compact() copies, each once.              *)
LEMMA LiveRowsAreLive ==
  ASSUME NEW ix, Formed(ix)
  PROVE  LET rows == LiveRows(ix) IN
         /\ \E n \in Nat : DOMAIN rows = 1..n /\ Len(rows) = n
         /\ \A k \in DOMAIN rows : rows[k].id \in Live(ix) /\ ix.vectors[rows[k].id] = rows[k].vec
         /\ \A i, j \in DOMAIN rows : rows[i].id = rows[j].id => i = j
         /\ \A i \in Live(ix) : \E k \in DOMAIN rows : rows[k].id = i
<1> DEFINE ids  == LiveIds(ix)
           rows == LiveRows(ix)
<1>1. PICK m \in Nat : InOrder(ix, m)
  BY DEF Formed
<1>2. ids \in Seq(Live(ix)) /\ IsInjective(ids) /\ ToSet(ids) = Live(ix)
  BY <1>1, LiveIdsInOrder
<1>3. Len(ids) \in Nat /\ DOMAIN ids = 1..Len(ids) /\ \A k \in DOMAIN ids : ids[k] \in Live(ix)
  BY <1>2
<1>4. rows = [k \in DOMAIN ids |-> [id |-> ids[k], vec |-> Row(ix, ids[k])]]
  BY DEF LiveRows
<1>5. \A i, j \in DOMAIN ids : ids[i] = ids[j] => i = j
  BY <1>2 DEF IsInjective
<1>6. \A i \in Live(ix) : \E k \in DOMAIN ids : ids[k] = i
  BY <1>2 DEF ToSet
<1>7. \A i \in Live(ix) : Row(ix, i) = ix.vectors[i]
  BY DEF Live, Formed, Row
<1> HIDE DEF ids, rows
<1>8. /\ DOMAIN rows = DOMAIN ids
      /\ \A k \in DOMAIN ids : rows[k].id = ids[k] /\ rows[k].vec = Row(ix, ids[k])
  BY <1>4
<1>9. rows \in Seq({rows[k] : k \in DOMAIN rows}) /\ Len(rows) = Len(ids)
  <2>1. rows \in [1..Len(ids) -> {rows[k] : k \in DOMAIN rows}]
    BY <1>3, <1>4, <1>8
  <2>2. QED
    BY <2>1, <1>3
<1>10. \E n \in Nat : DOMAIN rows = 1..n /\ Len(rows) = n
  BY <1>3, <1>8, <1>9
<1>11. \A k \in DOMAIN rows : rows[k].id \in Live(ix) /\ ix.vectors[rows[k].id] = rows[k].vec
  BY <1>3, <1>7, <1>8
<1>12. \A i, j \in DOMAIN rows : rows[i].id = rows[j].id => i = j
  BY <1>5, <1>8
<1>13. \A i \in Live(ix) : \E k \in DOMAIN rows : rows[k].id = i
  BY <1>6, <1>8
<1>14. QED
  BY <1>10, <1>11, <1>12, <1>13 DEF rows

LEMMA BeginCompactWorks ==
  ASSUME CompactCore, PastInv, NEW c \in Clients, BeginCompact(c), ~ past'.crossed
  PROVE  CompactCore'
<1>1. PICK op \in CompactKinds :
        call' = [call EXCEPT ![c] = [IdleCall EXCEPT !.at = "rebuilding", !.op = op,
                                                     !.rows = LiveRows(index)]]
  BY DEF BeginCompact
<1> DEFINE k == [IdleCall EXCEPT !.at = "rebuilding", !.op = op, !.rows = LiveRows(index)]
<1>2. /\ mode = "up" /\ mode' = "up" /\ Serving /\ call[c].at = "idle" /\ UNCHANGED memory
      /\ past'.submitted = past.submitted /\ past'.erasing = past.erasing
      /\ past'.erased = past.erased /\ past'.acked = past.acked
      /\ past'.crossed = (past.crossed \/ Compacting # {})
  BY DEF BeginCompact, At, startup, PastInv, IsPast
<1>3. Compacting = {}
  BY <1>2
<1>4. op \in {"compact", "background"}
  BY DatabaseAssumption
<1>5. IsCall(k) /\ k.at = "rebuilding" /\ k.op = op /\ k.rows = LiveRows(index) /\ k.todo = {}
  BY DEF IdleCall, IsCall, CallFields
<1> HIDE DEF k
<1>6. call'[c] = k /\ \A d \in Clients \ {c} : call'[d] = call[d]
  BY <1>1, <1>2, WorkFacts DEF k
<1>7. Compacts(k) /\ index' = index
  BY <1>2, <1>4, <1>5 DEF Compacts, memory
<1>8. Placed(c)' /\ Wired(c)'
  BY <1>4, <1>5, <1>6, <1>7 DEF Placed, Active, Wired
<1>9. Copied(k)
  BY <1>2, <1>5, WorkFacts, LiveRowsAreLive DEF Copied, Healthy, Unique, Live
<1>10. \A d \in Clients \ {c} : ~ Compacts(call[d])
  BY <1>3 DEF Compacting, Compacts
<1>11. Carried(c)'
  <2>1. \E n \in Nat : DOMAIN k.rows = 1..n /\ Len(k.rows) = n
    BY <1>2, <1>5, WorkFacts, LiveRowsAreLive
  <2>2. Copied(call[c])'
    BY <1>6, <1>7, <1>9 DEF Copied
  <2>3. QED
    BY <2>1, <2>2, <1>5, <1>6, <1>10 DEF Carried
<1>12. QED
  BY <1>1, <1>2, <1>3, <1>4, <1>5, <1>8, <1>11, CallBegins DEF Active, k
-----------------------------------------------------------------------------
(* Compaction: the steps that change memory                                *)

(* Without the vector, the index gets a node for it, and hides nothing.    *)
LEMMA NodeAdded ==
  ASSUME CompactCore, mode = "up", NEW v, v \notin Vecs(index), v \notin past.erasing,
         NEW level \in Levels, index' = Reserve(index, v, level),
         past.submitted \cup {v} \subseteq past'.submitted, past'.erasing = past.erasing
  PROVE  LET n == index.nextId IN
         /\ n \in Nat /\ n \notin DOMAIN index.nodes
         /\ Formed(index') /\ Healthy(index)' /\ Keeps(index, index')
         /\ Holds(index', n, v) /\ index'.nodes[n].links = "none"
         /\ Live(index') = Live(index) \cup {n}
         /\ Vecs(index') \subseteq Vecs(index) \cup {v}
         /\ \A u : Reached(index, u) => Reached(index', u)
         /\ \A d \in Clients : call'[d] = call[d] => Wired(d)'
<1> DEFINE n == index.nextId
           r == AddNode(index, n, v, level)
           e == index.entryPoint
<1>1. Healthy(index) /\ Formed(index) /\ \A d \in Clients : Placed(d) /\ Wired(d)
  BY WorkFacts
<1>2. n \in Nat /\ n \notin DOMAIN index.nodes /\ n # None /\ level \in Nat /\ index' = r
  <2>1. n \in Nat /\ DOMAIN index.nodes \subseteq 0..(n - 1)
    BY <1>1 DEF Formed
  <2>2. QED
    BY <2>1, DatabaseAssumption DEF Levels, Reserve
<1>3. /\ Formed(r) /\ Keeps(index, r) /\ Holds(r, n, v)
      /\ DOMAIN r.nodes = DOMAIN index.nodes \cup {n}
      /\ r.entryPoint = IF e = None THEN n ELSE e
  BY <1>1, <1>2, AddNodeKeeps
<1>4. /\ \A i \in DOMAIN index.nodes : r.nodes[i] = index.nodes[i]
      /\ r.nodes[n].links = "none" /\ ~ r.nodes[n].tombstone
  BY <1>1, <1>2, AddNodeLinks
<1> HIDE DEF r
<1>5. \A i \in DOMAIN index.nodes : r.vectors[i] = index.vectors[i]
  BY <1>3 DEF Keeps, Holds
<1>6. r.vectors[n] = v
  BY <1>3 DEF Holds
<1>7. Live(r) = Live(index) \cup {n}
  BY <1>3, <1>4 DEF Live
<1>8. Vecs(r) = Vecs(index) \cup {v}
  BY <1>3, <1>5, <1>6 DEF Vecs
<1>9. Unique(r)
  <2>1. \A i \in DOMAIN index.nodes : index.vectors[i] # v
    BY DEF Vecs
  <2>2. QED
    BY <2>1, <1>1, <1>3, <1>5, <1>6 DEF Healthy, Unique
<1>10. e \in Live(index) \/ (e = None /\ Live(index) = {})
  BY <1>1 DEF Healthy, Entered
<1>11. Live(index) \subseteq DOMAIN index.nodes /\ None \notin DOMAIN index.nodes
  BY <1>1, DatabaseAssumption DEF Live, Formed
<1>12. Entered(r)
  BY <1>3, <1>7, <1>10 DEF Entered
<1>13. Unhidden(r)
  <2>1. \A i \in DOMAIN r.nodes : r.nodes[i].links # "alone"
    BY <1>1, <1>3, <1>4 DEF Healthy, Unhidden
  <2>2. ASSUME r.nodes[r.entryPoint].links = "none", NEW i \in Live(r) \ {r.entryPoint}
        PROVE  r.nodes[i].links # "full"
    <3>1. CASE i = n
      BY <3>1, <1>4
    <3>2. CASE i # n
      <4>1. i \in Live(index) /\ e \in Live(index) /\ r.entryPoint = e
        BY <3>2, <2>2, <1>2, <1>3, <1>7, <1>10, <1>11
      <4>2. index.nodes[e].links = "none" /\ e # None
        BY <4>1, <2>2, <1>4, <1>10, <1>11, <1>3
      <4>3. QED
        BY <4>1, <4>2, <2>2, <1>1, <1>4, <1>11 DEF Healthy, Unhidden
    <3>3. QED
      BY <3>1, <3>2
  <2>3. QED
    BY <2>1, <2>2 DEF Unhidden
<1>14. \A i \in DOMAIN r.nodes : r.nodes[i].tombstone <=> r.vectors[i] \in past.erasing
  BY <1>1, <1>3, <1>4, <1>5, <1>6 DEF Healthy
<1>15. Vecs(r) \subseteq past'.submitted
  BY <1>1, <1>8 DEF Healthy
<1>16. Healthy(index)'
  BY <1>2, <1>3, <1>9, <1>12, <1>13, <1>14, <1>15 DEF Healthy
<1>17. ASSUME NEW u, Reached(index, u)
       PROVE  Reached(r, u)
  <2>1. PICK i \in Live(index) : index.vectors[i] = u /\ Lasting(index, i)
    BY <1>17 DEF Reached
  <2>2. i \in Live(r) /\ r.vectors[i] = u /\ Lasting(r, i)
    BY <2>1, <1>3, <1>4, <1>5, <1>7, <1>10, <1>11 DEF Lasting
  <2>3. QED
    BY <2>2 DEF Reached
<1>18. ASSUME NEW d \in Clients, call'[d] = call[d]
       PROVE  Wired(d)'
  <2> DEFINE k == call[d]
  <2>1. /\ k.at \in Active => k.id \in DOMAIN index.nodes
        /\ k.at = "linking" => k.chosen \subseteq DOMAIN index.nodes
        /\ k.at \in {"reserved", "toLink"} => index.nodes[k.id].links \in {"none", "full"}
        /\ k.at = "linking" => Chooses(k)
    BY <1>1 DEF Placed, Wired, Holds
  <2> HIDE DEF k
  <2>2. ASSUME k.at = "linking"
        PROVE  /\ k.chosen # {} /\ r.nodes[k.id].links # "none"
               /\ \A x \in k.chosen : r.nodes[x].links = "none" => x = r.entryPoint \/ x \notin Live(r)
               /\ r.entryPoint # None /\ r.nodes[r.entryPoint].links = "none" =>
                    r.entryPoint \in k.chosen \/ (k.chosen \cup {k.id}) \cap Live(r) = {}
    <3>1. k.id \in DOMAIN index.nodes /\ k.chosen \subseteq DOMAIN index.nodes /\ Chooses(k)
      BY <2>1, <2>2 DEF Active
    <3>2. k.chosen # {} /\ r.nodes[k.id].links # "none"
      BY <3>1, <1>4 DEF Chooses
    <3>3. \A x \in k.chosen : r.nodes[x].links = "none" => x = r.entryPoint \/ x \notin Live(r)
      BY <3>1, <1>2, <1>3, <1>4, <1>7, <1>10, <1>11 DEF Chooses
    <3>4. CASE e = None
      <4>1. (k.chosen \cup {k.id}) \cap Live(r) = {}
        BY <3>1, <3>4, <1>2, <1>7, <1>10, <1>11
      <4>2. QED
        BY <3>2, <3>3, <4>1
    <3>5. CASE e # None
      <4>1. r.entryPoint = e /\ e \in DOMAIN index.nodes /\ r.nodes[e] = index.nodes[e]
        BY <3>5, <1>3, <1>4, <1>10, <1>11
      <4>2. index.nodes[e].links = "none" =>
               e \in k.chosen \/ (k.chosen \cup {k.id}) \cap Live(index) = {}
        BY <3>1, <3>5 DEF Chooses
      <4>3. (k.chosen \cup {k.id}) \cap Live(r) = (k.chosen \cup {k.id}) \cap Live(index)
        BY <3>1, <1>2, <1>7
      <4>4. QED
        BY <3>2, <3>3, <4>1, <4>2, <4>3
    <3>6. QED
      BY <3>4, <3>5
  <2>3. k.at \in {"reserved", "toLink"} => r.nodes[k.id].links \in {"none", "full"}
    BY <2>1, <1>4 DEF Active
  <2>4. call'[d] = k
    BY <1>18 DEF k
  <2>5. k.at = "linking" => Chooses(call[d])'
    BY <2>2, <2>4, <1>2 DEF Chooses
  <2>6. QED
    BY <2>3, <2>4, <2>5, <1>2 DEF Wired
<1>19. QED
  BY <1>2, <1>3, <1>4, <1>7, <1>8, <1>16, <1>17, <1>18
LEMMA InsertWorks ==
  ASSUME CompactCore, PastInv, NEW c \in Clients, Insert(c)
  PROVE  CompactCore'
<1>1. PICK v \in Vectors \ past.submitted, level \in Levels :
        /\ index' = Reserve(index, v, level)
        /\ call' = [call EXCEPT ![c] = [IdleCall EXCEPT !.at = "reserved", !.op = "insert",
                                                        !.id = index.nextId, !.vec = v]]
        /\ past' = [past EXCEPT !.submitted = @ \cup {v}, !.seeds = @ \cup Seeded]
  BY DEF Insert
<1> DEFINE n == index.nextId
           k == [IdleCall EXCEPT !.at = "reserved", !.op = "insert", !.id = n, !.vec = v]
<1>2. /\ mode = "up" /\ mode' = "up" /\ call[c].at = "idle" /\ retired' = retired
      /\ \A d \in Clients : call[d].op # "close"
  BY DEF Insert, Serving, At, startup
<1>3. /\ past'.submitted = past.submitted \cup {v} /\ past'.erasing = past.erasing
      /\ past'.erased = past.erased /\ past'.acked = past.acked
  BY <1>1 DEF PastInv, IsPast
<1>4. v \notin Vecs(index) /\ v \notin past.erasing /\ past.erasing \subseteq past.submitted
      /\ past.erased \subseteq past.erasing
  BY <1>2, WorkFacts DEF Healthy
<1>5. /\ n \in Nat /\ n \notin DOMAIN index.nodes
      /\ Formed(index') /\ Healthy(index)' /\ Keeps(index, index')
      /\ Holds(index', n, v) /\ index'.nodes[n].links = "none"
      /\ Live(index') = Live(index) \cup {n}
      /\ Vecs(index') \subseteq Vecs(index) \cup {v}
      /\ \A u : Reached(index, u) => Reached(index', u)
      /\ \A d \in Clients : call'[d] = call[d] => Wired(d)'
  BY <1>1, <1>2, <1>3, <1>4, NodeAdded
<1>6. /\ IsCall(k) /\ k.at = "reserved" /\ k.op = "insert" /\ k.id = n /\ k.vec = v /\ k.todo = {}
  BY DEF IdleCall, IsCall, CallFields
<1>7. call' = [call EXCEPT ![c] = k]
  BY <1>1
<1> HIDE DEF k, n
<1>8. call'[c] = k /\ \A d \in Clients \ {c} : call'[d] = call[d]
  BY <1>2, <1>7, WorkFacts
<1>9. ~ Compacts(call[c]) /\ ~ Compacts(k)
  BY <1>2, <1>6, WorkFacts DEF Placed, Compacts
<1>10. \A d \in Clients \ {c} : Placed(d)' /\ Carried(d)'
  <2>1. \A d \in Clients \ {c} : Compacts(call[d]) =>
            /\ past'.erasing = past.erasing /\ Live(index) \subseteq Live(index')
            /\ call[d].todo \cap Vecs(index') = {} /\ ~ Compacts(k)
    BY <1>1, <1>2, <1>3, <1>5, <1>9, WorkFacts DEF Carried
  <2>2. QED
    BY <2>1, <1>2, <1>3, <1>5, <1>6, <1>7, OthersPlaced
<1>11. \A d \in Clients \ {c} : call[d].at \in Active => call[d].id # n
  <2>1. \A d \in Clients : call[d].at \in Active => Holds(index, call[d].id, call[d].vec)
    BY <1>2, WorkFacts DEF Placed
  <2>2. QED
    BY <2>1, <1>5 DEF Holds
<1>12. Placed(c)' /\ Carried(c)' /\ Wired(c)'
  BY <1>5, <1>6, <1>8, <1>9, <1>11 DEF Placed, Carried, Wired
<1>13. Safe(index)'
  <2>1. Sure' \subseteq Sure
    BY <1>2, <1>3, <1>6, <1>7, SureAfter
  <2>2. Hand \subseteq Hand'
    BY <1>2, <1>7, <1>9, HandAfter
  <2>3. Safe(index)
    BY <1>2, WorkFacts
  <2>4. QED
    BY <2>1, <2>2, <2>3, <1>3, <1>5 DEF Safe
<1>14. \A d \in Clients \ {c} : Wired(d)'
  BY <1>5, <1>8
<1>15. past'.erasing \subseteq past'.submitted /\ past'.erased \subseteq past'.erasing
  BY <1>3, <1>4
<1>16. QED
  BY <1>2, <1>5, <1>6, <1>7, <1>10, <1>12, <1>13, <1>14, <1>15, WorkStep

LEMMA ReinsertWorks ==
  ASSUME CompactCore, PastInv, NEW c \in Clients, Reinsert(c)
  PROVE  CompactCore'
<1>1. PICK v \in call[c].todo, level \in Levels :
        /\ index' = Reserve(index, v, level)
        /\ call' = [call EXCEPT ![c].at = "toLink", ![c].id = index.nextId,
                                ![c].vec = v, ![c].todo = @ \ {v}]
  BY DEF Reinsert
<1> DEFINE n == index.nextId
           k == [call[c] EXCEPT !.at = "toLink", !.id = n, !.vec = v, !.todo = @ \ {v}]
<1>2. /\ mode = "up" /\ mode' = "up" /\ call[c].at = "done" /\ retired' = retired
      /\ past' = past
  BY DEF Reinsert, At, startup
<1>3. /\ Placed(c) /\ Carried(c) /\ IsCall(call[c]) /\ Compacts(call[c])
  BY <1>1, <1>2, WorkFacts DEF Placed
<1>4. /\ v \in past.submitted /\ v \notin Vecs(index) /\ v \notin past.erasing
      /\ \A d \in Clients \ {c} : ~ Compacts(call[d])
      /\ \A d \in Clients \ {c} : call[d].op # "close"
      /\ call[c].todo \subseteq past.submitted \ past.erasing /\ call[c].todo \cap Vecs(index) = {}
  BY <1>1, <1>2, <1>3, NoneCloses DEF Carried
<1>5. /\ n \in Nat /\ n \notin DOMAIN index.nodes
      /\ Formed(index') /\ Healthy(index)' /\ Keeps(index, index')
      /\ Holds(index', n, v) /\ index'.nodes[n].links = "none"
      /\ Live(index') = Live(index) \cup {n}
      /\ Vecs(index') \subseteq Vecs(index) \cup {v}
      /\ \A u : Reached(index, u) => Reached(index', u)
      /\ \A d \in Clients : call'[d] = call[d] => Wired(d)'
  BY <1>1, <1>2, <1>4, NodeAdded
<1>6. /\ IsCall(k) /\ k.at = "toLink" /\ k.op = call[c].op /\ k.id = n /\ k.vec = v
      /\ k.todo = call[c].todo \ {v}
  BY <1>3 DEF IsCall, CallFields
<1>7. call' = [call EXCEPT ![c] = k]
  BY <1>1
<1> HIDE DEF k, n
<1>8. call'[c] = k /\ \A d \in Clients \ {c} : call'[d] = call[d]
  BY <1>2, <1>7, WorkFacts
<1>9. Compacts(k)
  BY <1>3, <1>6 DEF Compacts
<1>10. \A d \in Clients \ {c} : Placed(d)' /\ Carried(d)'
  BY <1>2, <1>4, <1>5, <1>6, <1>7, OthersPlaced
<1>11. \A d \in Clients \ {c} : call[d].at \in Active => call[d].id # n
  <2>1. \A d \in Clients : call[d].at \in Active => Holds(index, call[d].id, call[d].vec)
    BY <1>2, WorkFacts DEF Placed
  <2>2. QED
    BY <2>1, <1>5 DEF Holds
<1>12. Placed(c)'
  BY <1>5, <1>6, <1>8, <1>9, <1>11 DEF Placed, Compacts
<1>13. Carried(c)' /\ Wired(c)'
  BY <1>2, <1>4, <1>5, <1>6, <1>8, <1>9 DEF Carried, Wired
<1>14. Safe(index)'
  <2>1. Sure' \subseteq Sure
    BY <1>2, <1>6, <1>7, SureAfter
  <2>2. Hand \subseteq Hand'
    <3>1. InHand(call[c]) \subseteq InHand(k)
      BY <1>2, <1>6 DEF InHand
    <3>2. InHand(k) \subseteq Hand'
      BY <1>8, <1>9 DEF Hand, Compacting, Compacts
    <3>3. QED
      BY <3>1, <3>2, <1>2, <1>7, HandAfter
  <2>3. Safe(index)
    BY <1>2, WorkFacts
  <2>4. QED
    BY <2>1, <2>2, <2>3, <1>2, <1>5 DEF Safe
<1>15. \A d \in Clients \ {c} : Wired(d)'
  BY <1>5, <1>8
<1>16. past'.erasing \subseteq past'.submitted /\ past'.erased \subseteq past'.erasing
  BY <1>2, WorkFacts
<1>17. QED
  BY <1>2, <1>5, <1>6, <1>7, <1>10, <1>12, <1>13, <1>14, <1>15, <1>16, WorkStep
(* link() up to the node's own lists: it found the entry point to connect  *)
(* to, which is live.                                                      *)
LEMMA StartLinkWorks ==
  ASSUME CompactCore, PastInv, NEW c \in Clients, StartLink(c)
  PROVE  CompactCore'
<1> DEFINE id == call[c].id
           e == index.entryPoint
           chosen == Chosen(index, id)
           r == LinkOut(index, id, chosen)
           k == [call[c] EXCEPT !.at = "linking", !.gen = Generation, !.top = index.maxLayer,
                                !.chosen = chosen, !.level = index.nodes[id].level]
<1>1. /\ mode = "up" /\ mode' = "up" /\ call[c].at = "toLink" /\ retired' = retired
      /\ past' = past
      /\ id \in DOMAIN index.nodes /\ e \in DOMAIN index.nodes /\ id # e
      /\ index' = r /\ call' = [call EXCEPT ![c] = k]
  BY DEF StartLink, StartLinkIn, At, startup
<1>2. /\ Placed(c) /\ Carried(c) /\ Wired(c) /\ IsCall(call[c]) /\ Healthy(index)
      /\ Formed(index) /\ Safe(index)
  BY <1>1, WorkFacts
<1>3. None \notin DOMAIN index.nodes /\ e # None
  BY <1>1, <1>2, DatabaseAssumption DEF Formed
<1>4. e \in Live(index) /\ Live(index) \subseteq DOMAIN index.nodes
  BY <1>2, <1>3 DEF Healthy, Entered, Live
<1>5. /\ chosen \subseteq Live(index) /\ e \in chosen
      /\ \A x \in chosen : x = e \/ index.nodes[x].links = "full"
  BY <1>1, <1>4 DEF Chosen, Findable
<1>6. /\ IsCall(k) /\ k.at = "linking" /\ k.gen = Generation /\ k.chosen = chosen
      /\ k.op = call[c].op /\ k.id = id /\ k.vec = call[c].vec /\ k.todo = call[c].todo
  BY <1>2 DEF IsCall, CallFields
<1> HIDE DEF k, chosen
<1>7. /\ Tied(index, r) /\ r.entryPoint = e
      /\ \A i \in DOMAIN index.nodes :
           r.nodes[i].links = IF i = id /\ index.nodes[id].links = "none"
                              THEN "out" ELSE index.nodes[i].links
  BY <1>1, <1>2, <1>5, LinkOutLinks
<1> HIDE DEF r
<1>8. /\ Formed(r) /\ Same(index, r) /\ Dead(r) = Dead(index) /\ DOMAIN r.nodes = DOMAIN index.nodes
      /\ r.vectors = index.vectors /\ Keeps(index, r)
  BY <1>2, <1>7, SameIsNewer DEF Tied, Same, Formed
<1>9. /\ Live(r) = Live(index) /\ Vecs(r) = Vecs(index)
      /\ \A i \in DOMAIN index.nodes : r.nodes[i].tombstone <=> index.nodes[i].tombstone
  <2>1. Live(r) = Live(index)
    BY <1>2, <1>8, LiveNotDead
  <2>2. Vecs(r) = Vecs(index)
    BY <1>8 DEF Vecs
  <2>3. \A i \in DOMAIN index.nodes : r.nodes[i].tombstone <=> index.nodes[i].tombstone
    BY <1>8 DEF Dead
  <2>4. QED
    BY <2>1, <2>2, <2>3
<1>10. index.nodes[id].links \in {"none", "full"}
  BY <1>1, <1>2 DEF Wired
<1>11. \A i \in DOMAIN index.nodes :
          /\ r.nodes[i].links = "none" => index.nodes[i].links = "none"
          /\ r.nodes[i].links = "full" <=> index.nodes[i].links = "full"
          /\ r.nodes[i].links = "alone" => index.nodes[i].links = "alone"
  BY <1>7
<1>12. Healthy(index)'
  <2>1. Unique(r) /\ Entered(r)
    BY <1>2, <1>7, <1>8, <1>9 DEF Healthy, Unique, Entered
  <2>2. Unhidden(r)
    BY <1>2, <1>4, <1>7, <1>8, <1>9, <1>11, <1>3 DEF Healthy, Unhidden
  <2>3. /\ Vecs(r) \subseteq past'.submitted
        /\ \A i \in DOMAIN r.nodes : r.nodes[i].tombstone <=> r.vectors[i] \in past'.erasing
    BY <1>1, <1>2, <1>8, <1>9 DEF Healthy
  <2>4. QED
    BY <1>1, <1>8, <2>1, <2>2, <2>3 DEF Healthy
<1>13. call'[c] = k /\ \A d \in Clients \ {c} : call'[d] = call[d]
  BY <1>1, WorkFacts
<1>14. /\ \A d \in Clients \ {c} : call[d].op # "close"
       /\ Compacts(call[c]) => \A d \in Clients \ {c} : ~ Compacts(call[d])
  BY <1>1, NoneCloses
<1>15. Compacts(k) <=> Compacts(call[c])
  BY <1>6 DEF Compacts
<1>16. \A d \in Clients \ {c} : Placed(d)' /\ Carried(d)'
  <2>1. \A d \in Clients \ {c} : Compacts(call[d]) =>
            /\ past'.erasing = past.erasing /\ Live(index) \subseteq Live(index')
            /\ call[d].todo \cap Vecs(index') = {} /\ ~ Compacts(k)
    BY <1>1, <1>9, <1>14, <1>15, WorkFacts DEF Carried
  <2>2. QED
    BY <2>1, <1>1, <1>6, <1>8, <1>14, OthersPlaced DEF Active
<1>17. Placed(c)'
  <2>1. Holds(r, id, k.vec) /\ chosen \subseteq DOMAIN r.nodes
    BY <1>1, <1>2, <1>4, <1>5, <1>6, <1>8 DEF Placed, Active, Holds
  <2>2. \A d \in Clients \ {c} : call[d].at \in Active => call[d].id # id
    BY <1>1, <1>2 DEF Placed, Active
  <2>3. Generation' = Generation /\ (k.op = "insert" \/ Compacts(k))
    BY <1>1, <1>2, <1>6, <1>15 DEF Placed, Generation
  <2>4. k.todo = {} \/ Compacts(k)
    BY <1>2, <1>6, <1>15 DEF Placed
  <2>5. QED
    BY <1>1, <1>6, <1>13, <2>1, <2>2, <2>3, <2>4 DEF Placed, Active, Compacts
<1>18. Carried(c)'
  BY <1>1, <1>2, <1>6, <1>9, <1>13, <1>14, <1>15 DEF Carried
<1>19. Wired(c)'
  <2>1. r.nodes[id].links # "none"
    BY <1>1, <1>7
  <2>2. \A x \in chosen : r.nodes[x].links = "none" => x = e
    BY <1>4, <1>5, <1>11
  <2>3. Chooses(call[c])'
    BY <2>1, <2>2, <1>1, <1>5, <1>6, <1>7, <1>13 DEF Chooses
  <2>4. QED
    BY <2>3, <1>6, <1>13 DEF Wired
<1>20. ASSUME NEW d \in Clients \ {c}
       PROVE  Wired(d)'
  <2> DEFINE m == call[d]
  <2>1. Placed(d) /\ Wired(d)
    BY <1>1, WorkFacts
  <2>2. /\ m.at \in Active => m.id \in DOMAIN index.nodes /\ m.id # id
        /\ m.at = "linking" => m.chosen \subseteq DOMAIN index.nodes
    BY <2>1, <1>1, <1>2 DEF Placed, Holds, Active
  <2>3. m.at \in {"reserved", "toLink"} => r.nodes[m.id].links \in {"none", "full"}
    BY <2>1, <2>2, <1>7 DEF Wired, Active
  <2>4. m.at = "linking" => Chooses(m)'
    <3>1. SUFFICES ASSUME m.at = "linking"
                   PROVE  Chooses(m)'
      OBVIOUS
    <3>2. Chooses(m) /\ call'[d] = m
      BY <3>1, <2>1, <1>13 DEF Wired
    <3>3. m.id \in DOMAIN index.nodes /\ m.chosen \subseteq DOMAIN index.nodes
      BY <3>1, <2>2 DEF Active
    <3>4. QED
      BY <3>2, <3>3, <1>1, <1>7, <1>9, <1>11 DEF Chooses
  <2>5. QED
    BY <2>3, <2>4, <1>1, <1>13 DEF Wired
<1>21. Safe(index)'
  <2>1. Sure' \subseteq Sure
    BY <1>1, <1>6, SureAfter
  <2>2. Hand \subseteq Hand'
    <3>1. InHand(call[c]) \subseteq InHand(k)
      BY <1>1, <1>6 DEF InHand
    <3>2. Compacts(call[c]) => InHand(k) \subseteq Hand'
      BY <1>13, <1>15 DEF Hand, Compacting, Compacts
    <3>3. QED
      BY <3>1, <3>2, <1>1, HandAfter
  <2>3. \A i \in Live(index) : Lasting(index, i) => Lasting(r, i)
    BY <1>1, <1>4, <1>7 DEF Lasting
  <2>4. \A v : Reached(index, v) => Reached(r, v)
    BY <2>3, <1>8, <1>9 DEF Reached
  <2>5. QED
    BY <2>1, <2>2, <2>4, <1>1, <1>2 DEF Safe
<1>22. past'.erasing \subseteq past'.submitted /\ past'.erased \subseteq past'.erasing
  BY <1>1, WorkFacts
<1>23. QED
  BY <1>1, <1>6, <1>12, <1>16, <1>17, <1>18, <1>19, <1>20, <1>21, <1>22, WorkStep
(* The rest of link() connects the node and those it found, so that an     *)
(* entry point that was without edges is connected, or remains alone.      *)
LEMMA FinishLinkWorks ==
  ASSUME CompactCore, PastInv, NEW c \in Clients, FinishLink(c), ~ past'.stranded
  PROVE  CompactCore'
<1> DEFINE id == call[c].id
           e == index.entryPoint
           chosen == call[c].chosen
           linked == LinkBack(index, id, chosen)
           r == index'
           Ends == chosen \cup {id}
           k == [call[c] EXCEPT !.at = "done"]
<1>1. /\ mode = "up" /\ mode' = "up" /\ call[c].at = "linking" /\ retired' = retired
      /\ call' = [call EXCEPT ![c] = k]
      /\ past'.submitted = past.submitted /\ past'.erasing = past.erasing
      /\ past'.erased = past.erased /\ past'.acked = past.acked
      /\ past'.stranded = (past.stranded \/ DeadEntry(index'))
  BY DEF FinishLink, At, Goto, startup, PastInv, IsPast
<1>2. /\ Placed(c) /\ Carried(c) /\ Wired(c) /\ IsCall(call[c]) /\ Healthy(index)
      /\ Formed(index) /\ Safe(index)
  BY <1>1, WorkFacts
<1>3. /\ Holds(index, id, call[c].vec) /\ id \in DOMAIN index.nodes
      /\ call[c].gen = Generation /\ chosen \subseteq DOMAIN index.nodes
      /\ Chooses(call[c]) /\ chosen # {} /\ index.vectors[id] = call[c].vec
  BY <1>1, <1>2 DEF Placed, Wired, Active, Holds, Chooses
<1>4. index' = IF call[c].level > call[c].top THEN Promote(linked, id, call[c].level) ELSE linked
  BY <1>3 DEF FinishLink
<1>5. /\ Tied(index, linked) /\ linked.entryPoint = e
      /\ \A i \in DOMAIN index.nodes :
           linked.nodes[i].links = IF i \in Ends THEN "full" ELSE index.nodes[i].links
  BY <1>2, <1>3, LinkBackLinks
<1> HIDE DEF linked
<1>6. Formed(linked) /\ id \in DOMAIN linked.nodes
  BY <1>3, <1>5 DEF Tied, Same
<1>7. Tied(linked, r) /\ r.entryPoint \in {e, id} /\ r.nodes = linked.nodes
  <2>1. CASE call[c].level > call[c].top
    BY <2>1, <1>4, <1>5, <1>6, PromoteLinks
  <2>2. CASE ~ (call[c].level > call[c].top)
    BY <2>2, <1>4, <1>5, <1>6, TiedSelf
  <2>3. QED
    BY <2>1, <2>2
<1>8. Tied(index, r)
  BY <1>5, <1>7, TiedTwice
<1>9. \A i \in DOMAIN index.nodes :
         r.nodes[i].links = IF i \in Ends THEN "full" ELSE index.nodes[i].links
  BY <1>5, <1>7
<1>10. ~ DeadEntry(r)
  BY <1>1
<1> HIDE DEF r
<1>11. /\ Formed(r) /\ Same(index, r) /\ Dead(r) = Dead(index) /\ DOMAIN r.nodes = DOMAIN index.nodes
       /\ r.vectors = index.vectors /\ Keeps(index, r)
  BY <1>2, <1>8, SameIsNewer DEF Tied, Same, Formed
<1>12. /\ Live(r) = Live(index) /\ Vecs(r) = Vecs(index)
       /\ \A i \in DOMAIN index.nodes : r.nodes[i].tombstone <=> index.nodes[i].tombstone
  <2>1. Live(r) = Live(index)
    BY <1>2, <1>11, LiveNotDead
  <2>2. Vecs(r) = Vecs(index)
    BY <1>11 DEF Vecs
  <2>3. \A i \in DOMAIN index.nodes : r.nodes[i].tombstone <=> index.nodes[i].tombstone
    BY <1>11 DEF Dead
  <2>4. QED
    BY <2>1, <2>2, <2>3
<1>13. /\ Live(index) \subseteq DOMAIN index.nodes /\ None \notin DOMAIN index.nodes
       /\ e \in Live(index) \/ (e = None /\ Live(index) = {})
  BY <1>2, DatabaseAssumption DEF Formed, Live, Healthy, Entered
<1>14. r.entryPoint = id => id \in Live(index)
  BY <1>3, <1>10, <1>11, <1>12 DEF DeadEntry
<1>15. e # None /\ index.nodes[e].links = "none" /\ e \notin Ends =>
          Ends \cap Live(index) = {} /\ r.entryPoint = e
  BY <1>3, <1>7, <1>14 DEF Chooses
<1>16. \A i \in DOMAIN index.nodes :
          r.nodes[i].links # "full" => i \notin Ends /\ r.nodes[i].links = index.nodes[i].links
  BY <1>9
<1>17. \A i \in DOMAIN index.nodes : index.nodes[i].links = "full" => r.nodes[i].links = "full"
  BY <1>9
<1>18. r.nodes[id].links = "full"
  BY <1>3, <1>9
<1> HIDE DEF Ends
<1>19. Healthy(index)'
  <2>1. Unique(r) /\ Entered(r)
    BY <1>2, <1>7, <1>11, <1>12, <1>13, <1>14 DEF Healthy, Unique, Entered
  <2>2. \A i \in DOMAIN r.nodes : r.nodes[i].links # "alone"
    BY <1>2, <1>11, <1>16 DEF Healthy, Unhidden
  <2>3. ASSUME r.entryPoint # None, r.nodes[r.entryPoint].links = "none",
               NEW i \in Live(r) \ {r.entryPoint}
        PROVE  r.nodes[i].links # "full"
    <3>1. r.entryPoint = e /\ e \in DOMAIN index.nodes
      BY <2>3, <1>7, <1>13, <1>18
    <3>2. e \notin Ends /\ index.nodes[e].links = "none" /\ e # None
      BY <2>3, <3>1, <1>13, <1>16
    <3>3. i \in Live(index) /\ i \notin Ends /\ i # e
      BY <2>3, <3>1, <3>2, <1>12, <1>15
    <3>4. index.nodes[i].links # "full"
      BY <3>2, <3>3, <1>2 DEF Healthy, Unhidden
    <3>5. r.nodes[i].links = index.nodes[i].links
      BY <3>3, <1>9, <1>13 DEF Ends
    <3>6. QED
      BY <3>4, <3>5
  <2>4. Unhidden(r)
    BY <2>2, <2>3 DEF Unhidden
  <2>5. /\ Vecs(r) \subseteq past'.submitted
        /\ \A i \in DOMAIN r.nodes : r.nodes[i].tombstone <=> r.vectors[i] \in past'.erasing
    BY <1>1, <1>2, <1>11, <1>12 DEF Healthy
  <2>6. QED
    BY <1>11, <2>1, <2>4, <2>5 DEF Healthy, r
<1>20. /\ IsCall(k) /\ k.at = "done" /\ k.op = call[c].op /\ k.id = id /\ k.vec = call[c].vec
       /\ k.todo = call[c].todo
  BY <1>2, Moved
<1> HIDE DEF k
<1>21. call'[c] = k /\ \A d \in Clients \ {c} : call'[d] = call[d]
  BY <1>1, WorkFacts
<1>22. /\ \A d \in Clients \ {c} : call[d].op # "close"
       /\ Compacts(call[c]) => \A d \in Clients \ {c} : ~ Compacts(call[d])
       /\ Compacts(k) <=> Compacts(call[c])
  BY <1>1, <1>20, NoneCloses DEF Compacts
<1>23. \A d \in Clients \ {c} : Placed(d)' /\ Carried(d)'
  <2>1. \A d \in Clients \ {c} : Compacts(call[d]) =>
            /\ past'.erasing = past.erasing /\ Live(index) \subseteq Live(index')
            /\ call[d].todo \cap Vecs(index') = {} /\ ~ Compacts(k)
    BY <1>1, <1>12, <1>22, WorkFacts DEF Carried, r
  <2>2. QED
    BY <2>1, <1>1, <1>11, <1>20, <1>22, OthersPlaced DEF Active, r
<1>24. Placed(c)' /\ Carried(c)' /\ Wired(c)'
  <2>1. Placed(c)'
    BY <1>1, <1>2, <1>20, <1>21, <1>22 DEF Placed, Active, Compacts
  <2>2. Carried(c)'
    BY <1>1, <1>2, <1>12, <1>20, <1>21, <1>22 DEF Carried, r
  <2>3. Wired(c)'
    BY <1>20, <1>21 DEF Wired
  <2>4. QED
    BY <2>1, <2>2, <2>3
<1>25. ASSUME NEW d \in Clients \ {c}
       PROVE  Wired(d)'
  <2> DEFINE m == call[d]
  <2>1. Placed(d) /\ Wired(d) /\ call'[d] = m
    BY <1>1, <1>21, WorkFacts
  <2>2. /\ m.at \in Active => m.id \in DOMAIN index.nodes
        /\ m.at = "linking" => m.chosen \subseteq DOMAIN index.nodes
    BY <2>1 DEF Placed, Holds
  <2>3. m.at \in {"reserved", "toLink"} => r.nodes[m.id].links \in {"none", "full"}
    BY <2>1, <2>2, <1>16 DEF Wired, Active
  <2>4. ASSUME m.at = "linking"
        PROVE  Chooses(m)'
    <3>1. Chooses(m) /\ m.id \in DOMAIN index.nodes /\ m.chosen \subseteq DOMAIN index.nodes
      BY <2>1, <2>2, <2>4 DEF Wired, Active
    <3>2. m.chosen # {} /\ r.nodes[m.id].links # "none"
      BY <3>1, <1>16 DEF Chooses
    <3>3. ASSUME NEW x \in m.chosen, r.nodes[x].links = "none"
          PROVE  x = r.entryPoint \/ x \notin Live(r)
      <4>1. index.nodes[x].links = "none" /\ x \notin Ends /\ x # None
        BY <3>1, <3>3, <1>13, <1>16
      <4>2. x = e \/ x \notin Live(index)
        BY <3>1, <4>1 DEF Chooses
      <4>3. QED
        BY <4>1, <4>2, <1>12, <1>15
    <3>4. ASSUME r.entryPoint # None, r.nodes[r.entryPoint].links = "none"
          PROVE  r.entryPoint \in m.chosen \/ (m.chosen \cup {m.id}) \cap Live(r) = {}
      <4>1. r.entryPoint = e /\ e \in DOMAIN index.nodes
        BY <3>4, <1>7, <1>13, <1>18
      <4>2. index.nodes[e].links = "none" /\ e # None
        BY <3>4, <4>1, <1>16
      <4>3. QED
        BY <3>1, <4>1, <4>2, <1>12 DEF Chooses
    <3>5. QED
      BY <2>1, <3>2, <3>3, <3>4 DEF Chooses, r
  <2>5. QED
    BY <2>1, <2>3, <2>4 DEF Wired, r
<1>26. Safe(index)'
  <2>1. Sure' \subseteq Sure \cup {call[c].vec}
    BY <1>1, <1>20, SureAfter
  <2>2. ASSUME NEW i \in Live(index), Lasting(index, i)
        PROVE  Lasting(r, i)
    <3>1. CASE index.nodes[i].links = "full"
      BY <3>1, <1>13, <1>17 DEF Lasting
    <3>2. CASE i = e /\ index.nodes[i].links = "none"
      BY <3>2, <1>9, <1>13, <1>15 DEF Lasting, Ends
    <3>3. QED
      BY <2>2, <3>1, <3>2 DEF Lasting
  <2>3. \A v : Reached(index, v) => Reached(r, v)
    BY <2>2, <1>11, <1>12 DEF Reached
  <2>4. call[c].vec \in past.erasing \/ Reached(r, call[c].vec)
    BY <1>2, <1>3, <1>11, <1>12, <1>18, NodeOf DEF Reached, Lasting
  <2>5. \A v \in Hand : v = call[c].vec \/ v \in Hand'
    <3>1. InHand(call[c]) \subseteq InHand(k) \cup {call[c].vec}
      BY <1>20 DEF InHand
    <3>2. Compacts(call[c]) => InHand(k) \subseteq Hand'
      BY <1>21, <1>22 DEF Hand, Compacting, Compacts
    <3>3. QED
      BY <3>1, <3>2, <1>1, HandAfter
  <2>6. QED
    BY <2>1, <2>3, <2>4, <2>5, <1>1, <1>2 DEF Safe, r
<1>27. past'.erasing \subseteq past'.submitted /\ past'.erased \subseteq past'.erasing
  BY <1>1, WorkFacts
<1>28. QED
  BY <1>1, <1>19, <1>20, <1>23, <1>24, <1>25, <1>26, <1>27, WorkStep
(* delete(): no compaction is in progress, and if it is the entry point    *)
(* that dies, its heir hides no node.                                      *)
LEMMA DeleteWorks ==
  ASSUME CompactCore, PastInv, NEW c \in Clients, Delete(c), ~ past'.crossed, ~ past'.stranded
  PROVE  CompactCore'
<1>1. PICK id \in Live(index) :
        /\ index' = Tombstone(index, id)
        /\ call' = [call EXCEPT ![c] = [IdleCall EXCEPT !.at = "tombstoned", !.op = "delete",
                                                        !.id = id, !.vec = Row(index, id)]]
        /\ past' = [past EXCEPT !.erasing = @ \cup {Row(index, id)},
                                !.seeds = @ \cup Seeded,
                                !.stranded = @ \/ (id = index.entryPoint /\ BareEntry(index')),
                                !.crossed = @ \/ Compacting # {}]
  BY DEF Delete
<1> DEFINE v == Row(index, id)
           e == index.entryPoint
           r == index'
           k == [IdleCall EXCEPT !.at = "tombstoned", !.op = "delete", !.id = id, !.vec = v]
<1>2. /\ mode = "up" /\ mode' = "up" /\ call[c].at = "idle" /\ retired' = retired
      /\ \A d \in Clients : call[d].op # "close"
  BY DEF Delete, Serving, At, startup
<1>3. /\ past'.submitted = past.submitted /\ past'.erasing = past.erasing \cup {v}
      /\ past'.erased = past.erased /\ past'.acked = past.acked
      /\ past'.crossed = (past.crossed \/ Compacting # {})
      /\ past'.stranded = (past.stranded \/ (id = e /\ BareEntry(index')))
  BY <1>1 DEF PastInv, IsPast
<1>4. Compacting = {} /\ (id = e => ~ BareEntry(index'))
  BY <1>3
<1>5. \A d \in Clients : ~ Compacts(call[d])
  BY <1>4 DEF Compacting, Compacts
<1>6. Healthy(index) /\ Formed(index) /\ Safe(index) /\ past.erasing \subseteq past.submitted
      /\ past.erased \subseteq past.erasing
  BY <1>2, WorkFacts
<1>7. /\ id \in DOMAIN index.nodes /\ v = index.vectors[id] /\ v \in past.submitted
      /\ Live(index) \subseteq DOMAIN index.nodes /\ None \notin DOMAIN index.nodes
  BY <1>6, DatabaseAssumption DEF Live, Formed, Row, Healthy, Vecs
<1>8. /\ Formed(r) /\ Same(index, r) /\ Dead(r) = Dead(index) \cup {id}
      /\ \A i \in DOMAIN index.nodes : r.nodes[i].links = index.nodes[i].links
      /\ id # e => r.entryPoint = e
      /\ id = e => r.entryPoint \in Live(r) \/ (r.entryPoint = None /\ Live(r) = {})
  BY <1>1, <1>6, <1>7, TombstoneLinks, DatabaseAssumption
<1> HIDE DEF v
<1>9. /\ DOMAIN r.nodes = DOMAIN index.nodes /\ r.vectors = index.vectors /\ Keeps(index, r)
  BY <1>6, <1>8, SameIsNewer DEF Same, Formed
<1>10. /\ Live(r) = Live(index) \ {id} /\ Vecs(r) = Vecs(index)
       /\ \A i \in DOMAIN index.nodes :
            r.nodes[i].tombstone <=> i = id \/ index.nodes[i].tombstone
  <2>1. Live(r) = Live(index) \ {id}
    BY <1>6, <1>8, <1>9, LiveNotDead
  <2>2. Vecs(r) = Vecs(index)
    BY <1>9 DEF Vecs
  <2>3. \A i \in DOMAIN index.nodes : r.nodes[i].tombstone <=> i = id \/ index.nodes[i].tombstone
    BY <1>8, <1>9 DEF Dead
  <2>4. QED
    BY <2>1, <2>2, <2>3
<1>11. e \in Live(index)
  BY <1>6 DEF Healthy, Entered
<1>12. id = e /\ r.entryPoint # None /\ r.nodes[r.entryPoint].links = "none" =>
          \A i \in Live(r) \ {r.entryPoint} : r.nodes[i].links = "none"
  <2>1. SUFFICES ASSUME id = e, r.entryPoint # None, r.nodes[r.entryPoint].links = "none",
                        NEW i \in Live(r) \ {r.entryPoint}
                 PROVE  r.nodes[i].links = "none"
    OBVIOUS
  <2>2. r.entryPoint \in DOMAIN r.nodes
    BY <2>1, <1>8, <1>9, <1>7, <1>10
  <2>3. QED
    BY <2>1, <2>2, <1>4 DEF BareEntry
<1> HIDE DEF r
<1>13. Healthy(index)'
  <2>1. Unique(r) /\ Entered(r)
    BY <1>6, <1>8, <1>9, <1>10, <1>11 DEF Healthy, Unique, Entered
  <2>2. \A i \in DOMAIN r.nodes : r.nodes[i].links # "alone"
    BY <1>6, <1>8, <1>9 DEF Healthy, Unhidden
  <2>3. ASSUME r.entryPoint # None, r.nodes[r.entryPoint].links = "none",
               NEW i \in Live(r) \ {r.entryPoint}
        PROVE  r.nodes[i].links # "full"
    <3>1. CASE id = e
      BY <3>1, <2>3, <1>12
    <3>2. CASE id # e
      <4>1. r.entryPoint = e /\ i \in Live(index) \ {e} /\ index.nodes[e].links = "none" /\ e # None
        BY <3>2, <2>3, <1>7, <1>8, <1>10, <1>11
      <4>2. index.nodes[i].links # "full"
        BY <4>1, <1>6 DEF Healthy, Unhidden
      <4>3. QED
        BY <4>1, <4>2, <1>7, <1>8
    <3>3. QED
      BY <3>1, <3>2
  <2>4. Unhidden(r)
    BY <2>2, <2>3 DEF Unhidden
  <2>5. Vecs(r) \subseteq past'.submitted
    BY <1>3, <1>6, <1>10 DEF Healthy
  <2>6. \A i \in DOMAIN r.nodes : r.nodes[i].tombstone <=> r.vectors[i] \in past'.erasing
    BY <1>3, <1>6, <1>7, <1>9, <1>10 DEF Healthy, Unique
  <2>7. QED
    BY <1>8, <2>1, <2>4, <2>5, <2>6 DEF Healthy, r
<1>14. /\ IsCall(k) /\ k.at = "tombstoned" /\ k.op = "delete" /\ k.vec = v /\ k.todo = {}
  BY DEF IdleCall, IsCall, CallFields
<1>15. call' = [call EXCEPT ![c] = k]
  BY <1>1 DEF v
<1> HIDE DEF k
<1>16. call'[c] = k /\ \A d \in Clients \ {c} : call'[d] = call[d]
  BY <1>2, <1>15, WorkFacts
<1>17. \A d \in Clients \ {c} : Placed(d)' /\ Carried(d)'
  BY <1>2, <1>3, <1>5, <1>9, <1>14, <1>15, OthersPlaced DEF Active, r
<1>18. Placed(c)' /\ Carried(c)' /\ Wired(c)'
  BY <1>3, <1>14, <1>16 DEF Placed, Carried, Wired, Active, Compacts
<1>19. ASSUME NEW d \in Clients \ {c}
       PROVE  Wired(d)'
  <2> DEFINE m == call[d]
  <2>1. Placed(d) /\ Wired(d) /\ call'[d] = m
    BY <1>2, <1>16, WorkFacts
  <2>2. /\ m.at \in Active => m.id \in DOMAIN index.nodes
        /\ m.at = "linking" => m.chosen \subseteq DOMAIN index.nodes
    BY <2>1 DEF Placed, Holds
  <2>3. m.at \in {"reserved", "toLink"} => r.nodes[m.id].links \in {"none", "full"}
    BY <2>1, <2>2, <1>8 DEF Wired, Active
  <2>4. ASSUME m.at = "linking"
        PROVE  Chooses(m)'
    <3>1. Chooses(m) /\ m.id \in DOMAIN index.nodes /\ m.chosen \subseteq DOMAIN index.nodes
      BY <2>1, <2>2, <2>4 DEF Wired, Active
    <3>2. m.chosen # {} /\ r.nodes[m.id].links # "none"
      BY <3>1, <1>8 DEF Chooses
    <3>3. \A x \in m.chosen : r.nodes[x].links = "none" => x = e \/ x \notin Live(index)
      BY <3>1, <1>8 DEF Chooses
    <3>4. \A x \in m.chosen : r.nodes[x].links = "none" => x = r.entryPoint \/ x \notin Live(r)
      BY <3>3, <1>8, <1>10
    <3>5. ASSUME r.entryPoint # None, r.nodes[r.entryPoint].links = "none"
          PROVE  r.entryPoint \in m.chosen \/ (m.chosen \cup {m.id}) \cap Live(r) = {}
      <4>1. CASE id # e
        <5>1. r.entryPoint = e /\ index.nodes[e].links = "none" /\ e # None
          BY <4>1, <3>5, <1>7, <1>8, <1>11
        <5>2. QED
          BY <5>1, <3>1, <1>10 DEF Chooses
      <4>2. CASE id = e
        <5>1. \A x \in (m.chosen \cup {m.id}) \cap Live(r) :
                 x = r.entryPoint \/ r.nodes[x].links = "none"
          BY <4>2, <3>5, <1>12
        <5>2. m.id \notin Live(r)
          BY <5>1, <3>2, <3>5
        <5>3. \A x \in m.chosen \cap Live(r) : x = r.entryPoint
          BY <5>1, <3>3, <4>2, <1>10
        <5>4. QED
          BY <5>2, <5>3
      <4>3. QED
        BY <4>1, <4>2
    <3>6. QED
      BY <2>1, <3>2, <3>4, <3>5 DEF Chooses, r
  <2>5. QED
    BY <2>1, <2>3, <2>4 DEF Wired, r
<1>20. Safe(index)'
  <2>1. Sure' \subseteq Sure
    BY <1>2, <1>3, <1>14, <1>15, SureAfter
  <2>2. Hand = {}
    BY <1>4 DEF Hand
  <2>3. ASSUME NEW u \in Sure \ (past.erasing \cup {v})
        PROVE  Reached(r, u)
    <3>1. PICK i \in Live(index) : index.vectors[i] = u /\ Lasting(index, i)
      BY <2>2, <1>6 DEF Safe, Reached
    <3>2. i # id /\ i \in Live(r) /\ r.vectors[i] = u
      BY <3>1, <1>7, <1>9, <1>10
    <3>3. Lasting(r, i)
      BY <3>1, <3>2, <1>7, <1>8 DEF Lasting
    <3>4. QED
      BY <3>2, <3>3 DEF Reached
  <2>4. QED
    BY <2>1, <2>3, <1>3 DEF Safe, r
<1>21. past'.erasing \subseteq past'.submitted /\ past'.erased \subseteq past'.erasing
  BY <1>3, <1>6, <1>7
<1>22. QED
  BY <1>2, <1>13, <1>14, <1>15, <1>17, <1>18, <1>19, <1>20, <1>21, WorkStep
(* An index on which no operation is in progress is well formed.           *)
LEMMA SoundIsFormed ==
  ASSUME NEW ix, Sound(ix)
  PROVE  Formed(ix)
<1>1. IsRecord(ix) /\ Tables(ix) /\ Enumerated(ix) /\ Entry(ix)
  BY DEF Sound
<1>2. InOrder(ix, ix.nextId)
  BY <1>1 DEF Tables, Enumerated, InOrder
<1>3. ix.entryPoint \in DOMAIN ix.nodes \cup {None}
  BY <1>1 DEF Entry, Live
<1>4. QED
  BY <1>1, <1>2, <1>3 DEF Formed, Tables

(* The swap: the rebuilt graph hides nothing, and what it lacks is what is *)
(* to be inserted again.                                                   *)
LEMMA SwapWorks ==
  ASSUME CompactCore, PastInv, NEW c \in Clients, Swap(c), ~ past'.crossed
  PROVE  CompactCore'
<1> DEFINE rows == call[c].rows
           todo == Missed(c)
           k == [call[c] EXCEPT !.at = "done", !.todo = todo]
           r == index'
<1>1. PICK levels \in [DOMAIN rows -> Levels] : index' = Rebuilt(rows, levels)
  BY DEF Swap
<1>2. /\ mode = "up" /\ mode' = "up" /\ call[c].at = "rebuilding" /\ call' = [call EXCEPT ![c] = k]
  BY DEF Swap, At, startup
<1>3. /\ past'.submitted = past.submitted /\ past'.erasing = past.erasing
      /\ past'.erased = past.erased /\ past'.acked = past.acked
      /\ past'.crossed = (past.crossed \/ \E d \in Clients :
                            call[d].at \in {"reserved", "toLink", "linking", "tombstoned"})
  BY DEF Swap, PastInv, IsPast
<1>4. \A d \in Clients : call[d].at \notin {"reserved", "toLink", "linking", "tombstoned"}
  BY <1>3
<1>5. /\ Healthy(index) /\ Formed(index) /\ Safe(index) /\ past.erasing \subseteq past.submitted
      /\ past.erased \subseteq past.erasing /\ Placed(c) /\ Carried(c) /\ IsCall(call[c])
  BY <1>2, WorkFacts
<1>6. Compacts(call[c])
  BY <1>2, <1>5 DEF Placed
<1>7. /\ call[c].todo = {} /\ Copied(call[c])
      /\ \E n \in Nat : DOMAIN rows = 1..n /\ Len(rows) = n
      /\ \A d \in Clients \ {c} : ~ Compacts(call[d]) /\ call[d].op # "close"
  BY <1>2, <1>5, <1>6, NoneCloses DEF Carried
<1>8. PICK n \in Nat : DOMAIN rows = 1..n /\ Len(rows) = n
  BY <1>7
<1>9. /\ \A j \in 1..n : rows[j].id \in Live(index) /\ index.vectors[rows[j].id] = rows[j].vec
      /\ \A i, j \in 1..n : rows[i].vec = rows[j].vec => i = j
  BY <1>7, <1>8 DEF Copied
<1>10. /\ \A i \in Live(index) : /\ i \in DOMAIN index.nodes /\ Row(index, i) = index.vectors[i]
                                 /\ index.vectors[i] \in past.submitted \ past.erasing
       /\ \A i, j \in Live(index) : index.vectors[i] = index.vectors[j] => i = j
  BY <1>5 DEF Live, Formed, Row, Healthy, Vecs, Unique
<1>11. todo = {Row(index, i) : i \in Live(index) \ {rows[j].id : j \in 1..n}}
  BY <1>8 DEF Missed
<1> HIDE DEF todo, rows
<1>12. /\ Sound(r) /\ r.nextId = n /\ Live(r) = 0..(n - 1)
       /\ r.vectors = [i \in 0..(n - 1) |-> rows[i + 1].vec]
  <2>1. None \notin Nat /\ \A j \in 1..n : levels[j] \in Nat
    BY <1>8, DatabaseAssumption DEF Levels
  <2>2. QED
    BY <2>1, <1>1, <1>8, RebuiltIsSound
<1> HIDE DEF r
<1>13. Formed(r) /\ DOMAIN r.nodes = 0..(n - 1)
  <2>1. Formed(r)
    BY <1>12, SoundIsFormed
  <2>2. DOMAIN r.nodes = 0..(r.nextId - 1)
    BY <1>12 DEF Sound, Tables
  <2>3. QED
    BY <2>1, <2>2, <1>12
<1>14. \A i \in 0..(n - 1) : i + 1 \in 1..n /\ r.vectors[i] = rows[i + 1].vec
  BY <1>8, <1>12
<1>15. \A i \in DOMAIN r.nodes : /\ ~ r.nodes[i].tombstone
                                 /\ \/ r.nodes[i].links = "full"
                                    \/ Live(r) = {i} /\ r.nodes[i].links = "none"
  BY <1>12, <1>13 DEF Live, Sound, Linked
<1>16. r.entryPoint \in Live(r) \/ (r.entryPoint = None /\ Live(r) = {})
  BY <1>12 DEF Sound, Entry
<1>17. Healthy(index)'
  <2>1. Unique(r)
    <3>1. SUFFICES ASSUME NEW i \in 0..(n - 1), NEW j \in 0..(n - 1), r.vectors[i] = r.vectors[j]
                   PROVE  i = j
      BY <1>13 DEF Unique
    <3>2. i + 1 = j + 1
      BY <3>1, <1>9, <1>14
    <3>3. QED
      BY <3>2, <1>8
  <2>2. \A i \in DOMAIN r.nodes : r.vectors[i] \in past.submitted \ past.erasing
    BY <1>9, <1>10, <1>13, <1>14
  <2>3. Vecs(r) \subseteq past.submitted
    BY <2>2 DEF Vecs
  <2>4. \A i \in DOMAIN r.nodes : r.nodes[i].tombstone <=> r.vectors[i] \in past.erasing
    BY <2>2, <1>15
  <2>5. Entered(r)
    BY <1>16 DEF Entered
  <2>6. Unhidden(r)
    BY <1>12, <1>13, <1>15, <1>16 DEF Unhidden
  <2>7. QED
    BY <1>3, <1>13, <2>1, <2>3, <2>4, <2>5, <2>6 DEF Healthy, r
<1>18. /\ IsCall(k) /\ k.at = "done" /\ k.op = call[c].op /\ k.vec = call[c].vec
       /\ k.todo = todo
  BY <1>5 DEF IsCall, CallFields
<1> HIDE DEF k
<1>19. call'[c] = k /\ \A d \in Clients \ {c} : call'[d] = call[d]
  BY <1>2, WorkFacts
<1>20. Compacts(k)
  BY <1>6, <1>18 DEF Compacts
<1>21. ASSUME NEW d \in Clients \ {c}
       PROVE  Placed(d)' /\ Carried(d)' /\ Wired(d)'
  <2>1. Placed(d) /\ call'[d] = call[d] /\ ~ Compacts(call[d]) /\ call[d].op # "close"
    BY <1>2, <1>7, <1>19, WorkFacts
  <2>2. call[d].at \notin {"reserved", "toLink", "linking", "tombstoned"}
    BY <1>4
  <2>3. Placed(d)'
    BY <1>3, <2>1, <2>2 DEF Placed, Active
  <2>4. Carried(d)' /\ Wired(d)'
    BY <2>1, <2>2 DEF Carried, Wired
  <2>5. QED
    BY <2>3, <2>4
<1>22. Placed(c)' /\ Wired(c)'
  BY <1>18, <1>19, <1>20 DEF Placed, Wired, Active, Compacts
<1>23. Carried(c)'
  <2>1. todo \subseteq past.submitted \ past.erasing
    BY <1>10, <1>11
  <2>2. todo \cap Vecs(r) = {}
    <3>1. SUFFICES ASSUME NEW i \in Live(index) \ {rows[j].id : j \in 1..n},
                          Row(index, i) \in Vecs(r)
                   PROVE  FALSE
      BY <1>11
    <3>2. PICK j \in 0..(n - 1) : index.vectors[i] = r.vectors[j]
      BY <3>1, <1>10, <1>13 DEF Vecs
    <3>3. j + 1 \in 1..n /\ index.vectors[i] = rows[j + 1].vec
      BY <3>2, <1>14
    <3>4. i = rows[j + 1].id
      BY <3>1, <3>3, <1>9, <1>10
    <3>5. QED
      BY <3>1, <3>3, <3>4
  <2>3. QED
    BY <2>1, <2>2, <1>3, <1>7, <1>18, <1>19 DEF Carried, r
<1>24. Safe(index)'
  <2>1. Sure' \subseteq Sure
    <3>1. k.op # "insert"
      BY <1>20 DEF Compacts
    <3>2. QED
      BY <3>1, <1>2, <1>3, SureAfter
  <2>2. Hand = {}
    <3>1. \A d \in Compacting : d = c
      BY <1>7 DEF Compacting, Compacts
    <3>2. InHand(call[c]) = {}
      BY <1>2, <1>7 DEF InHand
    <3>3. QED
      BY <3>1, <3>2 DEF Hand
  <2>3. todo \subseteq Hand'
    BY <1>18, <1>19, <1>20 DEF Hand, InHand, Compacting, Compacts
  <2>4. ASSUME NEW v \in Sure \ past.erasing, v \notin todo
        PROVE  Reached(r, v)
    <3>1. PICK i \in Live(index) : index.vectors[i] = v
      BY <2>2, <1>5 DEF Safe, Reached
    <3>2. i \in {rows[j].id : j \in 1..n}
      BY <3>1, <2>4, <1>10, <1>11
    <3>3. PICK j \in 1..n : i = rows[j].id
      BY <3>2
    <3>4. j - 1 \in 0..(n - 1) /\ r.vectors[j - 1] = v
      BY <3>1, <3>3, <1>8, <1>9, <1>12
    <3>5. j - 1 \in Live(r) /\ Lasting(r, j - 1)
      BY <3>4, <1>12, <1>13, <1>15, <1>16 DEF Lasting
    <3>6. QED
      BY <3>4, <3>5 DEF Reached
  <2>5. QED
    BY <2>1, <2>3, <2>4, <1>3 DEF Safe, r
<1>25. past'.erasing \subseteq past'.submitted /\ past'.erased \subseteq past'.erasing
  BY <1>3, <1>5
<1>26. QED
  BY <1>2, <1>17, <1>18, <1>21, <1>22, <1>23, <1>24, <1>25, WorkStep

-----------------------------------------------------------------------------
(* Compaction: the process, and the theorem                                *)

LEMMA StartWorks ==
  ASSUME CompactCore, PastInv, Start
  PROVE  CompactCore'
<1>1. /\ mode = "down" /\ mode' = "replay" /\ index' = snapshot /\ pending' = wal
      /\ wal' = wal /\ snapshot' = snapshot /\ call' = call
      /\ past'.submitted = past.submitted /\ past'.erasing = past.erasing
      /\ past'.erased = past.erased /\ past'.acked = past.acked
  BY DEF Start, files, PastInv, IsPast
<1>2. AtRest
  BY <1>1 DEF CompactCore
<1>3. Healthy(snapshot)'
  BY <1>1, <1>2 DEF AtRest, Healthy
<1>4. Sure' = Sure /\ Hand' = Hand
  BY <1>1 DEF Sure, Hand, InHand, Compacting
<1>5. Safe(snapshot)'
  BY <1>1, <1>2, <1>4 DEF AtRest, Safe
<1>6. AtRest'
  BY <1>1, <1>2, <1>3, <1>5 DEF AtRest
<1>7. QED
  BY <1>1, <1>6 DEF CompactCore

(* After a close(), there is nothing to replay.                            *)
LEMMA ServeWorks ==
  ASSUME CompactCore, Serve
  PROVE  CompactCore'
<1>1. /\ mode = "replay" /\ mode' = "up" /\ index' = index /\ call' = call /\ past' = past
      /\ snapshot' = snapshot
  BY DEF Serve, memory, files
<1>2. AtRest /\ index = snapshot
  BY <1>1 DEF CompactCore, AtRest
<1>3. Healthy(index)'
  BY <1>1, <1>2 DEF AtRest, Healthy
<1>4. Sure' = Sure /\ Hand' = Hand
  BY <1>1 DEF Sure, Hand, InHand, Compacting
<1>5. Safe(index)'
  BY <1>1, <1>2, <1>4 DEF AtRest, Safe
<1>6. ASSUME NEW c \in Clients
      PROVE  Placed(c)' /\ Carried(c)' /\ Wired(c)'
  <2>1. call'[c].at = "idle" /\ call'[c].op = "none" /\ call'[c].todo = {}
    BY <1>1, <1>2 DEF AtRest
  <2>2. QED
    BY <2>1 DEF Placed, Carried, Wired, Active, Compacts
<1>7. AtWork'
  BY <1>3, <1>5, <1>6 DEF AtWork
<1>8. QED
  BY <1>1, <1>7 DEF CompactCore
(* A step that changes nothing.                                            *)
LEMMA SameWorks ==
  ASSUME CompactCore, UNCHANGED vars
  PROVE  CompactCore'
<1>1. /\ index' = index /\ retired' = retired /\ wal' = wal /\ snapshot' = snapshot
      /\ mode' = mode /\ pending' = pending /\ call' = call /\ past' = past
  BY DEF vars
<1>2. Sure' = Sure /\ Hand' = Hand
  BY <1>1 DEF Sure, Hand, InHand, Compacting
<1>3. \A ix : Healthy(ix)' <=> Healthy(ix')
  BY <1>1 DEF Healthy
<1>4. AtRest => AtRest'
  BY <1>1, <1>2 DEF AtRest, Healthy, Safe
<1>5. AtWork => AtWork'
  BY <1>1, <1>2 DEF AtWork, Healthy, Safe, Placed, Carried, Wired, Copied, Chooses, Generation
<1>6. QED
  BY <1>1, <1>4, <1>5 DEF CompactCore

LEMMA CompactInit == Init => CompactInv
<1> SUFFICES ASSUME Init
             PROVE  past.crashes \in Nat /\ CompactCore
  BY DEF CompactInv
<1>1. /\ snapshot = EmptyIndex /\ wal = << >> /\ mode = "down"
      /\ call = [c \in Clients |-> IdleCall]
      /\ past.submitted = {} /\ past.erasing = {} /\ past.erased = {} /\ past.crashes = 0
      /\ past.acked = [v \in Vectors |-> None]
  BY DEF Init
<1>2. IsCall(IdleCall) /\ IdleCall.at = "idle" /\ IdleCall.op = "none" /\ IdleCall.todo = {}
  BY DEF IdleCall, IsCall, CallFields
<1>3. Formed(EmptyIndex)
  BY EmptyIsFormed
<1>4. DOMAIN EmptyIndex.nodes = {} /\ EmptyIndex.entryPoint = None
  BY DEF EmptyIndex
<1>5. Healthy(snapshot)
  BY <1>1, <1>3, <1>4 DEF Healthy, Unique, Vecs, Entered, Unhidden, Live
<1>6. Sure = {}
  BY <1>1, <1>2 DEF Sure
<1>7. AtRest
  BY <1>1, <1>2, <1>5, <1>6 DEF AtRest, Safe
<1>8. QED
  BY <1>1, <1>2, <1>7 DEF CompactCore

LEMMA CompactNext == WriteInv /\ CompactInv /\ [Next]_vars => CompactInv'
<1> SUFFICES ASSUME WriteInv, CompactInv, [Next]_vars
             PROVE  CompactInv'
  OBVIOUS
<1>1. PastInv /\ past.crashes \in Nat
  BY DEF WriteInv, CompactInv
<1>2. past'.crashes \in Nat /\ (Smooth' => Smooth /\ ~ Crash)
  BY <1>1, SmoothBefore
<1>3. SUFFICES ASSUME Smooth'
               PROVE  CompactCore'
  BY <1>2 DEF CompactInv
<1>4. /\ CompactCore /\ ~ Crash /\ ~ past'.crossed /\ ~ past'.stranded
  BY <1>2, <1>3 DEF CompactInv, Smooth
<1>5. CASE UNCHANGED vars
  BY <1>4, <1>5, SameWorks
<1>6. CASE Boot
  <2>1. mode = "replay" => pending = << >>
    BY <1>4 DEF CompactCore, AtRest
  <2>2. ~ Replay /\ ~ ReplayDies
    BY <2>1 DEF Replay, ReplayDies
  <2>3. QED
    BY <2>2, <1>1, <1>4, <1>6, StartWorks, ServeWorks DEF Boot
<1>7. ASSUME NEW c \in Clients,
             Insert(c) \/ Delete(c) \/ BeginCompact(c) \/ Close(c) \/ Proceed(c)
      PROVE  CompactCore'
  <2>1. CASE Insert(c) \/ Delete(c) \/ BeginCompact(c) \/ Close(c)
    BY <2>1, <1>1, <1>4, InsertWorks, DeleteWorks, BeginCompactWorks, CloseWorks
  <2>2. CASE LogInsert(c) \/ LinkEntryPoint(c) \/ StartLink(c) \/ FinishLink(c) \/ LinkRaises(c)
    BY <2>2, <1>1, <1>4, LogInsertWorks, LinkEntryPointWorks, StartLinkWorks, FinishLinkWorks,
       LinkRaisesWorks
  <2>3. CASE LogDelete(c) \/ MaybeSnapshot(c) \/ Capture(c) \/ Save(c) \/ SaveRaises(c)
               \/ Truncate(c)
    BY <2>3, <1>1, <1>4, LogDeleteWorks, MaybeSnapshotWorks, CaptureWorks, SaveWorks,
       SaveRaisesWorks, TruncateWorks
  <2>4. CASE Swap(c) \/ Reinsert(c) \/ LogCompact(c) \/ EndBackground(c)
    BY <2>4, <1>1, <1>4, SwapWorks, ReinsertWorks, LogCompactWorks, EndBackgroundWorks
  <2>5. QED
    BY <1>7, <2>1, <2>2, <2>3, <2>4 DEF Proceed
<1>8. QED
  BY <1>4, <1>5, <1>6, <1>7 DEF Next

(* The invariant of compaction holds for any number of request threads,    *)
(* vectors, snapshots and compactions (core/index.py:432-517 with the      *)
(* calls of core/database.py:101-181 that run beside it).                  *)
THEOREM CompactionsAreInOrder == Spec => []CompactInv
<1>1. WriteInv /\ CompactInv /\ [Next]_vars => (WriteInv /\ CompactInv)'
  BY WriteNext, CompactNext
<1>2. Init => WriteInv /\ CompactInv
  BY WriteInit, CompactInit
<1>3. QED
  BY <1>1, <1>2, PTL DEF Spec

(* A search of a healthy index finds what is reached.                      *)
LEMMA ReachedIsFound ==
  ASSUME NEW ix, Healthy(ix), NEW v, Reached(ix, v)
  PROVE  v \in Contents(ix)
<1> DEFINE e == ix.entryPoint
<1>1. PICK i \in Live(ix) : ix.vectors[i] = v /\ Lasting(ix, i)
  BY DEF Reached
<1>2. /\ i \in DOMAIN ix.nodes /\ Row(ix, i) = v /\ Live(ix) \subseteq DOMAIN ix.nodes
      /\ \A j \in DOMAIN ix.nodes : ix.nodes[j].links \in {"none", "out", "alone", "full"}
  BY <1>1 DEF Live, Healthy, Formed, Row, AnyNode
<1>3. e \in Live(ix) /\ e # None
  BY <1>1, <1>2, DatabaseAssumption DEF Healthy, Formed, Entered
<1>4. i = e \/ (ix.nodes[i].links = "full" /\ ix.nodes[e].links \in {"out", "full"})
  <2>1. SUFFICES ASSUME i # e
                 PROVE  ix.nodes[i].links = "full" /\ ix.nodes[e].links \in {"out", "full"}
    OBVIOUS
  <2>2. ix.nodes[i].links = "full"
    BY <2>1, <1>1 DEF Lasting
  <2>3. ix.nodes[e].links \notin {"none", "alone"}
    BY <2>1, <2>2, <1>1, <1>2, <1>3 DEF Healthy, Unhidden
  <2>4. QED
    BY <2>2, <2>3, <1>2, <1>3
<1>5. i \in Findable(ix)
  BY <1>1, <1>2, <1>3, <1>4 DEF Findable
<1>6. QED
  BY <1>2, <1>5 DEF Contents

LEMMA WorkKeepsWrites == CompactInv => CompactionKeepsWrites
<1> SUFFICES ASSUME CompactInv, ~ past.crossed, ~ past.stranded
             PROVE  CompactionKeepsInserts /\ DeletedStaysDeleted
  BY DEF CompactionKeepsWrites
<1>1. SUFFICES ASSUME ~ (past.crashes > 0), mode = "up"
               PROVE  CompactionKeepsInserts /\ DeletedStaysDeleted
  BY DEF CompactionKeepsInserts, DeletedStaysDeleted
<1>2. CompactCore
  BY <1>1 DEF CompactInv, Smooth
<1>3. Healthy(index) /\ Safe(index) /\ past.erased \subseteq past.erasing
  BY <1>1, <1>2, WorkFacts
<1>4. ASSUME NEW v \in Vectors, past.acked[v] # None, v \notin past.erasing
      PROVE  v \in Contents(index) \cup UNION {call[c].todo \cup {call[c].vec} : c \in Compacting}
  <2>1. v \in Hand \/ Reached(index, v)
    BY <1>3, <1>4 DEF Safe, Sure
  <2>2. Hand \subseteq UNION {call[c].todo \cup {call[c].vec} : c \in Compacting}
    BY DEF Hand, InHand
  <2>3. QED
    BY <2>1, <2>2, <1>3, ReachedIsFound
<1>5. ASSUME NEW v \in Contents(index), v \in past.erased
      PROVE  FALSE
  <2>1. PICK i \in Findable(index) : v = Row(index, i)
    BY <1>5 DEF Contents
  <2>2. i \in Live(index) /\ i \in DOMAIN index.nodes
    BY <2>1 DEF Findable, Live
  <2>3. v = index.vectors[i]
    BY <2>1, <2>2, <1>3 DEF Row, Healthy, Formed
  <2>4. index.nodes[i].tombstone
    BY <2>2, <2>3, <1>3, <1>5 DEF Healthy
  <2>5. QED
    BY <2>2, <2>4 DEF Live
<1>6. QED
  BY <1>4, <1>5 DEF CompactionKeepsInserts, DeletedStaysDeleted

(* A compaction loses no acknowledged insert and brings back no deleted    *)
(* vector (core/index.py:473-474), as long as no write is in progress when *)
(* the graphs are swapped and nothing is deleted meanwhile: for any number *)
(* of request threads, vectors, levels and compactions.                    *)
THEOREM WritesSurviveCompaction == Spec => []CompactionKeepsWrites
BY CompactionsAreInOrder, WorkKeepsWrites, PTL

-----------------------------------------------------------------------------
(* Types                                                                   *)

Stored == Vectors \cup {Zero}

(* What can be said of every index at any time: the dict has each of its   *)
(* nodes once, in some order.                                              *)
Typed(ix) ==
  /\ IsRecord(ix)
  /\ ix.nextId \in Nat
  /\ ix.vectors \in [0..(ix.nextId - 1) -> Stored]
  /\ ix.nodes \in [DOMAIN ix.nodes -> Node] /\ DOMAIN ix.nodes \subseteq Nat
  /\ \E n \in Nat : InOrder(ix, n)
  /\ ix.entryPoint \in Nat \cup {None}
  /\ ix.maxLayer \in Levels \cup {-1}

LEMMA OrderIsSeq ==
  ASSUME NEW ix, NEW n \in Nat, InOrder(ix, n)
  PROVE  /\ ix.order \in Seq(DOMAIN ix.nodes)
         /\ IsInjective(ix.order) /\ ToSet(ix.order) = DOMAIN ix.nodes
<1> DEFINE D == DOMAIN ix.nodes
           s == ix.order
<1>1. s \in [1..n -> D] /\ \A i \in D : \E k \in 1..n : s[k] = i
  BY DEF InOrder
<1>2. \A j, k \in 1..n : s[j] = s[k] => j = k
  BY DEF InOrder
<1> HIDE DEF D, s
<1>3. s \in Seq(D) /\ DOMAIN s = 1..n
  BY <1>1
<1>4. IsInjective(s)
  BY <1>2, <1>3 DEF IsInjective
<1>5. ToSet(s) = D
  BY <1>1, <1>3 DEF ToSet
<1>6. QED
  BY <1>3, <1>4, <1>5 DEF D, s

LEMMA TypedIsIndex ==
  ASSUME NEW ix, Typed(ix)
  PROVE  IsIndex(ix)
<1>1. /\ ix.order \in Seq(DOMAIN ix.nodes)
      /\ IsInjective(ix.order) /\ ToSet(ix.order) = DOMAIN ix.nodes
  BY OrderIsSeq DEF Typed
<1>2. ix = [vectors |-> ix.vectors, nodes |-> ix.nodes, order |-> ix.order,
            entryPoint |-> ix.entryPoint, maxLayer |-> ix.maxLayer, nextId |-> ix.nextId]
  BY DEF Typed, IsRecord, Fields
<1>3. QED
  BY <1>1, <1>2 DEF Typed, IsIndex, Stored

(* Only the order and the domain of the nodes matter to InOrder.           *)
LEMMA SameOrder ==
  ASSUME NEW ix, Typed(ix), NEW jx, jx.order = ix.order, DOMAIN jx.nodes = DOMAIN ix.nodes
  PROVE  \E n \in Nat : InOrder(jx, n)
<1>1. PICK n \in Nat : InOrder(ix, n)
  BY DEF Typed
<1>2. InOrder(jx, n)
  BY <1>1 DEF InOrder
<1>3. QED
  BY <1>2

LEMMA EmptyTyped == Typed(EmptyIndex)
<1>1. 0..(0 - 1) = {} /\ 1..0 = {}
  OBVIOUS
<1>2. /\ IsRecord(EmptyIndex) /\ EmptyIndex.nextId = 0 /\ EmptyIndex.order = << >>
      /\ EmptyIndex.entryPoint = None /\ EmptyIndex.maxLayer = -1
      /\ EmptyIndex.vectors = [i \in {} |-> Zero] /\ EmptyIndex.nodes = [i \in {} |-> Zero]
  BY DEF EmptyIndex, IsRecord, Fields
<1>3. InOrder(EmptyIndex, 0)
  BY <1>1, <1>2 DEF InOrder
<1>4. QED
  BY <1>1, <1>2, <1>3 DEF Typed

LEMMA EnterTyped ==
  ASSUME NEW ix, Typed(ix), NEW e \in Nat \cup {None}, NEW l \in Levels \cup {-1}
  PROVE  Typed(Enter(ix, e, l))
<1> DEFINE r == Enter(ix, e, l)
<1>1. /\ IsRecord(r) /\ r.vectors = ix.vectors /\ r.nodes = ix.nodes /\ r.order = ix.order
      /\ r.entryPoint = e /\ r.maxLayer = l /\ r.nextId = ix.nextId
  BY EnterFields DEF Typed
<1> HIDE DEF r
<1>2. \E n \in Nat : InOrder(r, n)
  BY <1>1, SameOrder
<1>3. QED
  BY <1>1, <1>2 DEF Typed, r

LEMMA RelinkedTyped ==
  ASSUME NEW ix, Typed(ix), NEW ids, NEW links \in {"none", "out", "alone", "full"}
  PROVE  LET r == Relinked(ix, ids, links) IN
         Typed(r) /\ DOMAIN r.nodes = DOMAIN ix.nodes
<1> DEFINE r == Relinked(ix, ids, links)
           D == DOMAIN ix.nodes
<1>1. /\ IsRecord(r) /\ r.vectors = ix.vectors /\ r.order = ix.order /\ r.nextId = ix.nextId
      /\ r.entryPoint = ix.entryPoint /\ r.maxLayer = ix.maxLayer
      /\ r.nodes = [i \in D |-> IF i \in ids THEN [ix.nodes[i] EXCEPT !.links = links]
                                ELSE ix.nodes[i]]
  BY RelinkedFields DEF Typed
<1> HIDE DEF r
<1>2. \A i \in D : ix.nodes[i] \in Node
  BY DEF Typed
<1>3. \A i \in D : [ix.nodes[i] EXCEPT !.links = links] \in Node
  BY <1>2 DEF Node
<1>4. r.nodes \in [D -> Node] /\ DOMAIN r.nodes = D
  BY <1>1, <1>2, <1>3
<1>5. \E n \in Nat : InOrder(r, n)
  BY <1>1, <1>4, SameOrder
<1>6. QED
  BY <1>1, <1>4, <1>5 DEF Typed, r

LEMMA BuriedTyped ==
  ASSUME NEW ix, Typed(ix), NEW id \in DOMAIN ix.nodes
  PROVE  LET r == Buried(ix, id) IN
         Typed(r) /\ DOMAIN r.nodes = DOMAIN ix.nodes
<1> DEFINE r == Buried(ix, id)
           D == DOMAIN ix.nodes
<1>1. /\ IsRecord(r) /\ r.vectors = ix.vectors /\ r.order = ix.order /\ r.nextId = ix.nextId
      /\ r.entryPoint = ix.entryPoint /\ r.maxLayer = ix.maxLayer
      /\ r.nodes = [ix.nodes EXCEPT ![id].tombstone = TRUE]
  BY BuriedFields DEF Typed
<1> HIDE DEF r
<1>2. ix.nodes \in [D -> Node]
  BY DEF Typed
<1>3. [ix.nodes[id] EXCEPT !.tombstone = TRUE] \in Node
  BY <1>2 DEF Node
<1>4. r.nodes \in [D -> Node] /\ DOMAIN r.nodes = D
  BY <1>1, <1>2, <1>3
<1>5. \E n \in Nat : InOrder(r, n)
  BY <1>1, <1>4, SameOrder
<1>6. QED
  BY <1>1, <1>4, <1>5 DEF Typed, r

(* reserve(), and the replay of an insert: also at an id that has a node.  *)
LEMMA AddNodeTyped ==
  ASSUME NEW ix, Typed(ix), NEW id \in Nat, NEW v \in Stored, NEW level \in Levels
  PROVE  LET r == AddNode(ix, id, v, level) IN
         Typed(r) /\ DOMAIN r.nodes = DOMAIN ix.nodes \cup {id}
<1> DEFINE n     == ix.nextId
           D     == DOMAIN ix.nodes
           size  == IF id >= n THEN id + 1 ELSE n
           rows  == [i \in 0..(size - 1) |-> IF i = id THEN v ELSE Row(ix, i)]
           table == [i \in D \cup {id} |-> IF i = id THEN Bare(level) ELSE ix.nodes[i]]
           order == IF id \in D THEN ix.order ELSE Append(ix.order, id)
           added == [ix EXCEPT !.vectors = rows, !.nodes = table, !.order = order,
                               !.nextId = size]
           r     == AddNode(ix, id, v, level)
<1>1. r = IF ix.entryPoint = None THEN Enter(added, id, level) ELSE added
  BY DEF AddNode, Bare
<1>2. /\ n \in Nat /\ ix.vectors \in [0..(n - 1) -> Stored]
      /\ ix.nodes \in [D -> Node] /\ D \subseteq Nat
  BY DEF Typed
<1>3. size \in Nat /\ rows \in [0..(size - 1) -> Stored]
  <2>1. \A i \in 0..(size - 1) : Row(ix, i) \in Stored
    BY <1>2 DEF Row, Stored
  <2>2. size \in Nat
    BY <1>2
  <2> HIDE DEF size
  <2>3. QED
    BY <2>1, <2>2
<1>4. table \in [D \cup {id} -> Node] /\ D \cup {id} \subseteq Nat
  <2>1. Bare(level) \in Node
    BY DEF Bare, Node
  <2>2. QED
    BY <2>1, <1>2
<1> HIDE DEF size, rows, table, r
<1>5. /\ IsRecord(added) /\ added.nextId = size /\ added.vectors = rows /\ added.nodes = table
      /\ added.order = order /\ added.entryPoint = ix.entryPoint /\ added.maxLayer = ix.maxLayer
  BY DEF Typed, IsRecord, Fields
<1> HIDE DEF added
<1>6. \E m \in Nat : InOrder(added, m)
  <2>1. PICK m \in Nat : InOrder(ix, m)
    BY DEF Typed
  <2>2. CASE id \in D
    <3>1. DOMAIN added.nodes = D /\ added.order = ix.order
      BY <2>2, <1>4, <1>5
    <3>2. QED
      BY <3>1, SameOrder
  <2>3. CASE id \notin D
    <3>1. DOMAIN added.nodes = D \cup {id} /\ added.order = Append(ix.order, id)
      BY <2>3, <1>4, <1>5
    <3>2. InOrder(added, m + 1)
      BY <2>1, <2>3, <3>1, NextInOrder
    <3>3. QED
      BY <3>2, <2>1
  <2>4. QED
    BY <2>2, <2>3
<1>7. ix.entryPoint \in Nat \cup {None} /\ ix.maxLayer \in Levels \cup {-1}
  BY DEF Typed
<1>8. Typed(added) /\ DOMAIN added.nodes = D \cup {id}
  BY <1>3, <1>4, <1>5, <1>6, <1>7 DEF Typed
<1>9. CASE ix.entryPoint = None
  <2>1. r = Enter(added, id, level) /\ Typed(r)
    BY <1>1, <1>8, <1>9, EnterTyped
  <2>2. r.nodes = added.nodes
    BY <2>1, <1>5, EnterFields
  <2>3. QED
    BY <2>1, <2>2, <1>8 DEF r
<1>10. CASE ix.entryPoint # None
  BY <1>1, <1>8, <1>10 DEF r
<1>11. QED
  BY <1>9, <1>10

LEMMA PromoteTyped ==
  ASSUME NEW ix, Typed(ix), NEW id \in Nat, NEW level \in Levels \cup {-1}
  PROVE  Typed(Promote(ix, id, level))
BY EnterTyped DEF Promote

LEMMA LinkOutTyped ==
  ASSUME NEW ix, Typed(ix), NEW id, NEW chosen
  PROVE  LET r == LinkOut(ix, id, chosen) IN
         Typed(r) /\ DOMAIN r.nodes = DOMAIN ix.nodes
BY RelinkedTyped DEF LinkOut

LEMMA LinkBackTyped ==
  ASSUME NEW ix, Typed(ix), NEW id, NEW chosen
  PROVE  LET r == LinkBack(ix, id, chosen) IN
         Typed(r) /\ DOMAIN r.nodes = DOMAIN ix.nodes
BY RelinkedTyped DEF LinkBack

LEMMA LevelsTyped ==
  ASSUME NEW ix, Typed(ix), NEW id \in DOMAIN ix.nodes
  PROVE  id \in Nat /\ ix.nodes[id].level \in Levels
<1>1. ix.nodes[id] \in Node /\ id \in Nat
  BY DEF Typed
<1>2. QED
  BY <1>1 DEF Node

LEMMA LinkTyped ==
  ASSUME NEW ix, Typed(ix), NEW id \in DOMAIN ix.nodes
  PROVE  Typed(Link(ix, id))
<1> DEFINE chosen == Chosen(ix, id)
           out    == LinkOut(ix, id, chosen)
           back   == LinkBack(out, id, chosen)
           level  == ix.nodes[id].level
<1>1. Link(ix, id) = IF id = ix.entryPoint THEN ix ELSE Promote(back, id, level)
  BY DEF Link
<1> HIDE DEF chosen
<1>2. Typed(out)
  BY LinkOutTyped
<1> HIDE DEF out
<1>3. Typed(back)
  BY <1>2, LinkBackTyped
<1> HIDE DEF back
<1>4. id \in Nat /\ level \in Levels
  BY LevelsTyped
<1> HIDE DEF level
<1>5. Typed(Promote(back, id, level))
  BY <1>3, <1>4, PromoteTyped
<1>6. QED
  BY <1>1, <1>5

(* delete(): the dict has a live node to offer, if there is one.           *)
LEMMA TombstoneTyped ==
  ASSUME NEW ix, Typed(ix), NEW id \in DOMAIN ix.nodes
  PROVE  Typed(Tombstone(ix, id))
<1> DEFINE b == Buried(ix, id)
           e == Head(LiveIds(b))
<1>1. Typed(b)
  BY BuriedTyped
<1>2. Tombstone(ix, id) = IF id = ix.entryPoint
                          THEN IF Live(b) = {} THEN Enter(b, None, -1)
                               ELSE Enter(b, e, b.nodes[e].level)
                          ELSE b
  BY DEF Tombstone, Reassigned
<1> HIDE DEF b
<1>3. PICK n \in Nat : InOrder(b, n)
  BY <1>1 DEF Typed
<1>4. Live(b) # {} => e \in DOMAIN b.nodes
  <2>1. LiveIds(b) \in Seq(Live(b)) /\ ToSet(LiveIds(b)) = Live(b)
    BY <1>3, LiveIdsInOrder
  <2>2. Live(b) # {} => LiveIds(b) # << >>
    BY <2>1 DEF ToSet
  <2>3. Live(b) # {} => e \in Live(b)
    BY <2>1, <2>2
  <2>4. QED
    BY <2>3 DEF Live
<1> HIDE DEF e
<1>5. Typed(Enter(b, None, -1))
  BY <1>1, EnterTyped
<1>6. Live(b) # {} => Typed(Enter(b, e, b.nodes[e].level))
  <2>1. Live(b) # {} => e \in Nat /\ b.nodes[e].level \in Levels
    BY <1>1, <1>4, LevelsTyped
  <2>2. QED
    BY <2>1, <1>1, EnterTyped
<1>7. QED
  BY <1>1, <1>2, <1>5, <1>6

LEMMA RowTyped ==
  ASSUME NEW ix, Typed(ix), NEW id
  PROVE  Row(ix, id) \in Stored
BY DEF Typed, Row, Stored

(* What compact() collects.                                                *)
LEMMA LiveRowsTyped ==
  ASSUME NEW ix, Typed(ix)
  PROVE  LiveRows(ix) \in Seq(Rows)
<1> DEFINE ids == LiveIds(ix)
<1>1. PICK n \in Nat : InOrder(ix, n)
  BY DEF Typed
<1>2. ids \in Seq(Live(ix))
  BY <1>1, LiveIdsInOrder
<1>3. Len(ids) \in Nat /\ DOMAIN ids = 1..Len(ids) /\ \A k \in DOMAIN ids : ids[k] \in Nat
  BY <1>2 DEF Typed, Live
<1>4. LiveRows(ix) = [k \in DOMAIN ids |-> [id |-> ids[k], vec |-> Row(ix, ids[k])]]
  BY DEF LiveRows
<1> HIDE DEF ids
<1>5. \A k \in DOMAIN ids : [id |-> ids[k], vec |-> Row(ix, ids[k])] \in Rows
  BY <1>3, RowTyped DEF Rows, Stored
<1>6. LiveRows(ix) \in [1..Len(ids) -> Rows]
  BY <1>3, <1>4, <1>5
<1>7. QED
  BY <1>3, <1>6

(* A snapshot: the dict is that of a later index, node by node.            *)
LEMMA PickledTyped ==
  ASSUME NEW image, Typed(image), NEW now, Typed(now), NEW stale \in SUBSET Changed(image, now)
  PROVE  Typed(Pickled(image, now, stale))
<1> DEFINE D     == DOMAIN now.nodes
           table == [i \in D |-> IF i \in stale THEN image.nodes[i] ELSE now.nodes[i]]
           r     == [image EXCEPT !.nodes = table, !.order = now.order]
<1>1. Pickled(image, now, stale) = r
  BY DEF Pickled
<1>2. table \in [D -> Node] /\ DOMAIN table = D
  <2>1. \A i \in stale : image.nodes[i] \in Node
    BY DEF Changed, Typed
  <2>2. \A i \in D : now.nodes[i] \in Node
    BY DEF Typed
  <2>3. QED
    BY <2>1, <2>2
<1> HIDE DEF table
<1>3. /\ IsRecord(r) /\ r.nodes = table /\ r.order = now.order /\ r.vectors = image.vectors
      /\ r.nextId = image.nextId /\ r.entryPoint = image.entryPoint /\ r.maxLayer = image.maxLayer
  BY DEF Typed, IsRecord, Fields
<1> HIDE DEF r
<1>4. \E n \in Nat : InOrder(r, n)
  BY <1>2, <1>3, SameOrder
<1>5. Typed(r)
  BY <1>2, <1>3, <1>4 DEF Typed
<1>6. QED
  BY <1>1, <1>5

LEMMA ReplayTyped ==
  ASSUME NEW ix, Typed(ix), NEW record \in Records, NEW level \in Levels
  PROVE  Typed(ReplayRecord(ix, record, level))
<1> DEFINE id == record.id
           added == AddNode(ix, id, record.vec, level)
<1>1. id \in Nat /\ record.vec \in Stored
  BY DEF Records, Stored
<1>2. Typed(added) /\ id \in DOMAIN added.nodes
  BY <1>1, AddNodeTyped
<1>3. Typed(Link(added, id))
  BY <1>2, LinkTyped
<1>4. id \in DOMAIN ix.nodes => Typed(Link(ix, id))
  BY LinkTyped
<1>5. Typed(ReplayInsert(ix, id, record.vec, level))
  BY <1>3, <1>4 DEF ReplayInsert
<1>6. Typed(DeleteOf(ix, id))
  BY TombstoneTyped DEF DeleteOf, Live
<1>7. QED
  BY <1>5, <1>6 DEF ReplayRecord

(* The typed indexes are a set: the recursion needs one.                   *)
LEMMA TypedOnesAreASet ==
  ASSUME NEW ix, Typed(ix)
  PROVE  ix \in [vectors    : UNION {[0..(n - 1) -> Stored] : n \in Nat},
                 nodes      : UNION {[D -> Node] : D \in SUBSET Nat},
                 order      : Seq(Nat),
                 entryPoint : Nat \cup {None},
                 maxLayer   : Levels \cup {-1},
                 nextId     : Nat]
<1>1. ix.vectors \in UNION {[0..(n - 1) -> Stored] : n \in Nat}
  BY DEF Typed
<1>2. ix.nodes \in UNION {[D -> Node] : D \in SUBSET Nat}
  BY DEF Typed
<1>3. ix.order \in Seq(Nat)
  <2>1. ix.order \in Seq(DOMAIN ix.nodes) /\ DOMAIN ix.nodes \subseteq Nat
    BY OrderIsSeq DEF Typed
  <2>2. QED
    BY <2>1
<1>4. ix = [vectors |-> ix.vectors, nodes |-> ix.nodes, order |-> ix.order,
            entryPoint |-> ix.entryPoint, maxLayer |-> ix.maxLayer, nextId |-> ix.nextId]
  BY DEF Typed, IsRecord, Fields
<1>5. ix.entryPoint \in Nat \cup {None} /\ ix.maxLayer \in Levels \cup {-1} /\ ix.nextId \in Nat
  BY DEF Typed
<1>6. QED
  BY <1>1, <1>2, <1>3, <1>4, <1>5

(* The graph that compact() builds.                                        *)
LEMMA RebuiltTyped ==
  ASSUME NEW rows \in Seq(Rows), NEW levels \in [DOMAIN rows -> Levels]
  PROVE  Typed(Rebuilt(rows, levels))
<1> DEFINE n == Len(rows)
           S == {ix \in [vectors    : UNION {[0..(m - 1) -> Stored] : m \in Nat},
                         nodes      : UNION {[D -> Node] : D \in SUBSET Nat},
                         order      : Seq(Nat),
                         entryPoint : Nat \cup {None},
                         maxLayer   : Levels \cup {-1},
                         nextId     : Nat] : Typed(ix)}
           With(k, ix) == Link(Reserve(ix, rows[k].vec, levels[k]), ix.nextId)
           step == [k \in 1..n |-> [ix \in S |-> With(k, ix)]]
<1>1. n \in Nat /\ DOMAIN rows = 1..n
  OBVIOUS
<1>2. ASSUME NEW k \in 1..n, NEW ix, Typed(ix)
      PROVE  Typed(With(k, ix))
  <2> DEFINE jx == AddNode(ix, ix.nextId, rows[k].vec, levels[k])
  <2>1. rows[k].vec \in Stored /\ levels[k] \in Levels /\ ix.nextId \in Nat
    <3>1. rows[k] \in Rows /\ k \in DOMAIN rows
      BY <1>1
    <3>2. QED
      BY <3>1, <1>2 DEF Rows, Stored, Typed
  <2>2. Typed(jx) /\ ix.nextId \in DOMAIN jx.nodes
    BY <1>2, <2>1, AddNodeTyped
  <2>3. With(k, ix) = Link(jx, ix.nextId)
    BY DEF Reserve
  <2> HIDE DEF jx, With
  <2>4. QED
    BY <2>2, <2>3, LinkTyped
<1>3. \A ix : Typed(ix) <=> ix \in S
  BY TypedOnesAreASet
<1> HIDE DEF n, S
<1>4. step \in Steps(n, S) /\ EmptyIndex \in S
  <2>1. \A k \in 1..n, ix \in S : With(k, ix) \in S
    <3> HIDE DEF With
    <3>1. QED
      BY <1>2, <1>3
  <2> HIDE DEF With
  <2>2. QED
    BY <1>3, <2>1, EmptyTyped DEF Steps
<1>5. PICK f : Follows(f, n, S, EmptyIndex, step)
  <2> HIDE DEF step
  <2>1. QED
    BY <1>1, <1>4, Recursion
<1>6. ASSUME NEW k \in 1..n
      PROVE  f[k - 1] \in S /\ f[k] = With(k, f[k - 1])
  <2> HIDE DEF With
  <2>1. f[k - 1] \in S
    BY <1>1, <1>5 DEF Follows
  <2>2. QED
    BY <1>5, <2>1 DEF Follows
<1> DEFINE Defines(g) == g = [k \in 0..n |-> IF k = 0 THEN EmptyIndex ELSE With(k, g[k - 1])]
<1>7. Defines(f)
  <2> HIDE DEF With
  <2>1. QED
    BY <1>1, <1>5, <1>6 DEF Follows
<1> DEFINE built == CHOOSE g : Defines(g)
<1>8. Defines(built)
  <2> HIDE DEF Defines
  <2>1. QED
    BY <1>7, Zenon
<1>9. Rebuilt(rows, levels) = built[n]
  <2>1. Rebuilt(rows, levels) = (CHOOSE g : g = [k \in 0..Len(rows) |->
             IF k = 0 THEN EmptyIndex
             ELSE Link(Reserve(g[k - 1], rows[k].vec, levels[k]), g[k - 1].nextId)])[Len(rows)]
    BY Zenon DEF Rebuilt
  <2>2. QED
    BY <2>1 DEF n
<1> HIDE DEF built
<1>10. \A k \in 0..n : built[k] = IF k = 0 THEN EmptyIndex ELSE With(k, built[k - 1])
  <2> HIDE DEF With
  <2>1. QED
    BY <1>8, Zenon
<1> DEFINE T == {k \in 0..n : Typed(built[k])}
<1>11. 0 \in T
  <2>1. built[0] = EmptyIndex /\ 0 \in 0..n
    BY <1>1, <1>10
  <2>2. QED
    BY <2>1, EmptyTyped
<1>12. ASSUME NEW k \in 1..n, k - 1 \in T
       PROVE  k \in T
  <2>1. k \in 0..n /\ k # 0 /\ Typed(built[k - 1])
    BY <1>1, <1>12
  <2>2. built[k] = With(k, built[k - 1])
    <3> HIDE DEF With
    <3>1. QED
      BY <1>10, <2>1
  <2> HIDE DEF With
  <2>3. QED
    BY <1>2, <2>1, <2>2
<1> HIDE DEF T
<1>13. 0..n \subseteq T
  BY <1>1, <1>11, <1>12, UpTo
<1>14. Typed(built[n])
  BY <1>1, <1>13 DEF T
<1>15. QED
  BY <1>9, <1>14

-----------------------------------------------------------------------------
(* The types of the variables                                              *)

(* A sequence of typed indexes.                                            *)
AllTyped(s) == s \in Seq(ToSet(s)) /\ \A ix \in ToSet(s) : Typed(ix)

TypedCall(k) ==
  /\ IsCall(k)
  /\ k.at \in Places /\ k.op \in {"none", "insert", "delete", "compact", "background", "close"}
  /\ k.id \in Nat /\ k.vec \in Stored /\ k.gen \in Nat /\ k.chosen \in SUBSET Nat
  /\ k.level \in Levels \cup {-1} /\ k.top \in Levels \cup {-1}
  /\ Typed(k.image) /\ k.rows \in Seq(Rows) /\ k.todo \in SUBSET Stored

(* Besides its type: no call runs before the database is up or beside a    *)
(* close(), and a snapshot in the making is of a generation that exists.   *)
CallTyped(c) ==
  LET k == call[c] IN
  /\ TypedCall(k)
  /\ mode # "up" => k.at = "idle"
  /\ k.at = "captured" => k.gen <= Len(retired)
  /\ k.op = "close" => \A d \in Clients \ {c} : call[d].at = "idle"

TypeInv ==
  /\ Typed(index) /\ Typed(snapshot) /\ AllTyped(retired)
  /\ wal \in Seq(Records) /\ pending \in Seq(Records)
  /\ mode \in {"down", "replay", "up"}
  /\ writes \in Nat
  /\ snapshotLock \in Clients \cup {None}
  /\ call = [c \in Clients |-> call[c]] /\ \A c \in Clients : CallTyped(c)

LEMMA NothingTyped == AllTyped(<< >>)
BY DEF AllTyped, ToSet

LEMMA MoreTyped ==
  ASSUME NEW s, AllTyped(s), NEW ix, Typed(ix)
  PROVE  AllTyped(Append(s, ix)) /\ Len(Append(s, ix)) = Len(s) + 1 /\ Len(s) \in Nat
<1> DEFINE n == Len(s)
           a == Append(s, ix)
<1>1. s \in Seq(ToSet(s) \cup {ix}) /\ n \in Nat
  BY DEF AllTyped
<1>2. /\ a \in Seq(ToSet(s) \cup {ix}) /\ Len(a) = n + 1 /\ a[n + 1] = ix
      /\ \A k \in 1..n : a[k] = s[k]
  BY <1>1
<1>3. \A k \in 1..n : Typed(s[k])
  BY DEF AllTyped, ToSet
<1> HIDE DEF a
<1>4. DOMAIN a = 1..(n + 1)
  BY <1>1, <1>2
<1>5. \A k \in 1..(n + 1) : k = n + 1 \/ k \in 1..n
  BY <1>1
<1>6. \A k \in DOMAIN a : Typed(a[k])
  BY <1>2, <1>3, <1>4, <1>5
<1>7. a \in Seq(ToSet(a))
  <2>1. a \in [1..(n + 1) -> ToSet(a)]
    BY <1>2, <1>4 DEF ToSet
  <2>2. QED
    BY <2>1, <1>1
<1>8. AllTyped(a)
  BY <1>6, <1>7 DEF AllTyped, ToSet
<1>9. QED
  BY <1>1, <1>2, <1>8 DEF a

LEMMA IdleTyped == TypedCall(IdleCall) /\ IdleCall.at = "idle" /\ IdleCall.op = "none"
<1>1. IsCall(IdleCall)
  BY DEF IdleCall, IsCall, CallFields
<1>2. << >> \in Seq(Rows)
  OBVIOUS
<1>3. QED
  BY <1>1, <1>2, EmptyTyped DEF IdleCall, TypedCall, Places, Stored

LEMMA MovedTyped ==
  ASSUME NEW k, TypedCall(k), NEW place \in Places
  PROVE  LET m == [k EXCEPT !.at = place] IN
         TypedCall(m) /\ m.at = place /\ m.op = k.op /\ m.gen = k.gen
<1> DEFINE m == [k EXCEPT !.at = place]
<1>1. /\ IsCall(m) /\ m.at = place /\ m.op = k.op /\ m.id = k.id /\ m.vec = k.vec
      /\ m.gen = k.gen /\ m.chosen = k.chosen /\ m.level = k.level /\ m.top = k.top
      /\ m.image = k.image /\ m.rows = k.rows /\ m.todo = k.todo
  BY DEF TypedCall, IsCall, CallFields
<1> HIDE DEF m
<1>2. TypedCall(m)
  BY <1>1 DEF TypedCall
<1>3. QED
  BY <1>1, <1>2 DEF m

LEMMA TypedInit == Init => TypeInv
<1> SUFFICES ASSUME Init PROVE TypeInv
  OBVIOUS
<1>1. << >> \in Seq(Records) /\ Len(<< >>) = 0
  OBVIOUS
<1>2. \A c \in Clients : call[c] = IdleCall
  BY DEF Init
<1>3. \A c \in Clients : CallTyped(c)
  BY <1>2, IdleTyped DEF CallTyped
<1>4. call = [c \in Clients |-> call[c]]
  BY DEF Init
<1>5. QED
  BY <1>1, <1>3, <1>4, EmptyTyped, NothingTyped DEF Init, TypeInv

LEMMA TypedCorrect == TypeInv => TypeOK
<1> SUFFICES ASSUME TypeInv PROVE TypeOK
  OBVIOUS
<1>1. \A c \in Clients : call[c] \in Calls({call[d].image : d \in Clients})
                         /\ IsIndex(call[c].image)
  <2> SUFFICES ASSUME NEW c \in Clients
               PROVE  /\ call[c] \in Calls({call[d].image : d \in Clients})
                      /\ IsIndex(call[c].image)
    OBVIOUS
  <2> DEFINE k == call[c]
             images == {call[d].image : d \in Clients}
  <2>1. TypedCall(k) /\ k.image \in images
    BY DEF TypeInv, CallTyped
  <2> HIDE DEF k, images
  <2>2. k = [at |-> k.at, op |-> k.op, id |-> k.id, vec |-> k.vec, gen |-> k.gen,
             chosen |-> k.chosen, level |-> k.level, top |-> k.top, image |-> k.image,
             rows |-> k.rows, todo |-> k.todo]
    BY <2>1 DEF TypedCall, IsCall, CallFields
  <2>3. k \in Calls(images)
    BY <2>1, <2>2 DEF TypedCall, Calls, Stored
  <2>4. IsIndex(k.image)
    BY <2>1, TypedIsIndex DEF TypedCall
  <2>5. QED
    BY <2>3, <2>4 DEF k, images
<1>2. call \in [Clients -> Calls({call[d].image : d \in Clients})]
  <2> DEFINE all == Calls({call[d].image : d \in Clients})
  <2>1. \A c \in Clients : call[c] \in all
    BY <1>1
  <2> HIDE DEF all
  <2>2. call \in [Clients -> all]
    BY <2>1 DEF TypeInv
  <2>3. QED
    BY <2>2 DEF all
<1>3. /\ IsIndex(index) /\ IsIndex(snapshot)
      /\ retired \in Seq(ToSet(retired)) /\ \A ix \in ToSet(retired) : IsIndex(ix)
  BY TypedIsIndex DEF TypeInv, AllTyped
<1>4. QED
  BY <1>1, <1>2, <1>3 DEF TypeInv, TypeOK

(* One call moves: the others stay as they are.                            *)
LEMMA TypedStep ==
  ASSUME TypeInv, mode = "up", NEW c \in Clients, NEW k, call' = [call EXCEPT ![c] = k],
         TypedCall(k),
         k.at = "captured" => k.gen <= Len(retired'),
         k.op = "close" => \A d \in Clients \ {c} : call[d].at = "idle",
         call[c].at # "idle" \/ Serving,
         Typed(index'), Typed(snapshot'), AllTyped(retired'),
         Len(retired) <= Len(retired'),
         wal' \in Seq(Records), pending' = pending, mode' = mode, writes' \in Nat,
         snapshotLock' \in Clients \cup {None}
  PROVE  TypeInv'
<1>1. /\ call'[c] = k /\ \A d \in Clients \ {c} : call'[d] = call[d]
      /\ call' = [d \in Clients |-> call'[d]]
  BY DEF TypeInv
<1>2. \A d \in Clients : CallTyped(d)
  BY DEF TypeInv
<1>3. Len(retired) \in Nat /\ Len(retired') \in Nat
  BY DEF TypeInv, AllTyped
<1>4. CallTyped(c)'
  BY <1>1 DEF CallTyped
<1>5. ASSUME NEW d \in Clients \ {c}
      PROVE  CallTyped(d)'
  <2>1. CallTyped(d) /\ call'[d] = call[d]
    BY <1>1, <1>2
  <2>2. call[d].at = "captured" => call[d].gen <= Len(retired')
    <3>1. call[d].gen \in Nat
      BY <2>1 DEF CallTyped, TypedCall
    <3>2. QED
      BY <2>1, <3>1, <1>3 DEF CallTyped
  <2>3. call[d].op # "close"
    BY <2>1 DEF CallTyped, Serving
  <2>4. QED
    BY <2>1, <2>2, <2>3 DEF CallTyped
<1>6. QED
  BY <1>1, <1>4, <1>5 DEF TypeInv

(* A call goes on, and changes neither memory nor the locks.               *)
LEMMA TypedGoto ==
  ASSUME TypeInv, NEW c \in Clients, NEW place \in Places, place # "captured",
         mode = "up", call[c].at # "idle", Goto(c, place),
         UNCHANGED <<retired, snapshot, startup>>, Typed(index'), wal' \in Seq(Records),
         writes' \in Nat, snapshotLock' \in Clients \cup {None}
  PROVE  TypeInv'
<1> DEFINE k == [call[c] EXCEPT !.at = place]
<1>1. TypedCall(k) /\ k.at = place /\ k.op = call[c].op
  BY MovedTyped DEF TypeInv, CallTyped
<1>2. call' = [call EXCEPT ![c] = k]
  BY DEF Goto
<1>3. k.op = "close" => \A d \in Clients \ {c} : call[d].at = "idle"
  BY <1>1 DEF TypeInv, CallTyped
<1>4. /\ Typed(snapshot') /\ AllTyped(retired') /\ Len(retired) <= Len(retired')
      /\ mode' = mode /\ pending' = pending
  BY DEF TypeInv, AllTyped, startup
<1> HIDE DEF k
<1>5. QED
  BY <1>1, <1>2, <1>3, <1>4, TypedStep

(* A call ends.                                                            *)
LEMMA TypedEnd ==
  ASSUME TypeInv, NEW c \in Clients, mode = "up", call[c].at # "idle",
         call' = [call EXCEPT ![c] = IdleCall],
         UNCHANGED <<memory, snapshot, startup>>, wal' \in Seq(Records), writes' \in Nat,
         snapshotLock' \in Clients \cup {None}
  PROVE  TypeInv'
<1>1. /\ Typed(index') /\ Typed(snapshot') /\ AllTyped(retired')
      /\ Len(retired) <= Len(retired') /\ mode' = mode /\ pending' = pending
  BY DEF TypeInv, AllTyped, startup, memory
<1>2. QED
  BY <1>1, IdleTyped, TypedStep

-----------------------------------------------------------------------------
(* Every step keeps the types                                              *)

(* What the steps below need to know of the state before them.             *)
LEMMA TypedFacts ==
  ASSUME TypeInv
  PROVE  /\ Typed(index) /\ Typed(snapshot) /\ AllTyped(retired)
         /\ Len(retired) \in Nat /\ Len(retired) <= Len(retired)
         /\ wal \in Seq(Records) /\ pending \in Seq(Records) /\ writes \in Nat
         /\ snapshotLock \in Clients \cup {None}
         /\ DOMAIN index.nodes \subseteq Nat /\ Live(index) \subseteq DOMAIN index.nodes
         /\ index.nextId \in Nat /\ index.maxLayer \in Levels \cup {-1}
         /\ \A c \in Clients : CallTyped(c) /\ TypedCall(call[c])
<1>1. /\ Typed(index) /\ Typed(snapshot) /\ AllTyped(retired)
      /\ wal \in Seq(Records) /\ pending \in Seq(Records) /\ writes \in Nat
      /\ snapshotLock \in Clients \cup {None}
      /\ \A c \in Clients : CallTyped(c)
  BY DEF TypeInv
<1>2. Len(retired) \in Nat /\ Len(retired) <= Len(retired)
  <2>1. retired \in Seq(ToSet(retired))
    BY <1>1 DEF AllTyped
  <2>2. QED
    BY <2>1
<1>3. /\ DOMAIN index.nodes \subseteq Nat /\ index.nextId \in Nat
      /\ index.maxLayer \in Levels \cup {-1}
  BY <1>1 DEF Typed
<1>4. Live(index) \subseteq DOMAIN index.nodes
  BY DEF Live
<1>5. \A c \in Clients : TypedCall(call[c])
  BY <1>1 DEF CallTyped
<1>6. QED
  BY <1>1, <1>2, <1>3, <1>4, <1>5

LEMMA RecordsTyped ==
  ASSUME NEW id \in Nat, NEW v \in Stored
  PROVE  /\ InsertRecord(id, v) \in Records /\ DeleteRecord(id) \in Records
         /\ CompactRecord \in Records /\ TornRecord \in Records
         /\ [InsertRecord(id, v) EXCEPT !.ended = FALSE] \in Records
         /\ [DeleteRecord(id) EXCEPT !.ended = FALSE] \in Records
BY DEF InsertRecord, DeleteRecord, CompactRecord, TornRecord, Record, Records, Stored

LEMMA InsertTyped ==
  ASSUME TypeInv, NEW c \in Clients, Insert(c)
  PROVE  TypeInv'
<1>1. PICK v \in Vectors, level \in Levels :
        /\ index' = AddNode(index, index.nextId, v, level)
        /\ call' = [call EXCEPT ![c] = [IdleCall EXCEPT !.at = "reserved", !.op = "insert",
                                                        !.id = index.nextId, !.vec = v]]
  BY DEF Insert, Reserve
<1> DEFINE k == [IdleCall EXCEPT !.at = "reserved", !.op = "insert", !.id = index.nextId,
                                 !.vec = v]
<1>2. TypedCall(k) /\ k.at = "reserved" /\ k.op = "insert"
  <2>1. index.nextId \in Nat /\ v \in Stored
    BY TypedFacts DEF Stored
  <2>2. /\ IsCall(k) /\ k.at = "reserved" /\ k.op = "insert" /\ k.id = index.nextId /\ k.vec = v
        /\ k.gen = IdleCall.gen /\ k.chosen = IdleCall.chosen /\ k.level = IdleCall.level
        /\ k.top = IdleCall.top /\ k.image = IdleCall.image /\ k.rows = IdleCall.rows
        /\ k.todo = IdleCall.todo
    BY DEF IdleCall, IsCall, CallFields
  <2> HIDE DEF k
  <2>3. QED
    BY <2>1, <2>2, IdleTyped DEF TypedCall, Places
<1>3. Typed(index')
  BY <1>1, TypedFacts, AddNodeTyped DEF Stored
<1>4. /\ mode = "up" /\ Serving /\ call' = [call EXCEPT ![c] = k]
      /\ retired' = retired /\ wal' = wal /\ snapshot' = snapshot /\ mode' = mode
      /\ pending' = pending /\ writes' = writes /\ snapshotLock' = snapshotLock
  BY <1>1 DEF Insert, At, files, startup, counter
<1> HIDE DEF k
<1>5. QED
  BY <1>2, <1>3, <1>4, TypedFacts, TypedStep

LEMMA LogTyped ==
  ASSUME TypeInv, NEW c \in Clients, LogInsert(c) \/ LogDelete(c) \/ LogCompact(c)
  PROVE  TypeInv'
<1>1. call[c].id \in Nat /\ call[c].vec \in Stored
  BY TypedFacts DEF TypedCall
<1>2. PICK record \in Records, place \in {"toLink", "done", "snapshot"} :
        wal' = Logged(wal, record) /\ Goto(c, place)
  BY <1>1, RecordsTyped DEF LogInsert, LogDelete, LogCompact
<1>3. wal' \in Seq(Records)
  BY <1>2, TypedFacts, LoggedRecords
<1>4. /\ mode = "up" /\ call[c].at # "idle" /\ index' = index /\ UNCHANGED <<retired, snapshot, startup>>
      /\ writes' = writes /\ snapshotLock' = snapshotLock
  BY DEF LogInsert, LogDelete, LogCompact, At, memory, startup, counter
<1>5. place \in Places /\ place # "captured"
  BY DEF Places
<1>6. QED
  BY <1>2, <1>3, <1>4, <1>5, TypedFacts, TypedGoto

LEMMA LinkEntryPointTyped ==
  ASSUME TypeInv, NEW c \in Clients, LinkEntryPoint(c)
  PROVE  TypeInv'
<1>1. /\ mode = "up" /\ call[c].at # "idle" /\ index' = index /\ UNCHANGED <<retired, snapshot, startup>>
      /\ writes' = writes /\ snapshotLock' = snapshotLock /\ wal' = wal /\ Goto(c, "done")
  BY DEF LinkEntryPoint, At, memory, files, startup, counter
<1>2. "done" \in Places
  BY DEF Places
<1>3. QED
  BY <1>1, <1>2, TypedFacts, TypedGoto

LEMMA StartLinkTyped ==
  ASSUME TypeInv, NEW c \in Clients, StartLink(c)
  PROVE  TypeInv'
<1> DEFINE id     == call[c].id
           chosen == Chosen(index, id)
           level  == index.nodes[id].level
           k == [call[c] EXCEPT !.at = "linking", !.gen = Generation, !.top = index.maxLayer,
                                !.chosen = chosen, !.level = level]
<1>1. /\ mode = "up" /\ call[c].at = "toLink" /\ id \in DOMAIN index.nodes
      /\ index' = LinkOut(index, id, chosen)
      /\ retired' = retired /\ wal' = wal /\ snapshot' = snapshot /\ mode' = mode
      /\ pending' = pending /\ writes' = writes /\ snapshotLock' = snapshotLock
  BY DEF StartLink, StartLinkIn, At, files, startup, counter
<1>2. call' = [call EXCEPT ![c] = k]
  BY DEF StartLink, StartLinkIn, TypeInv
<1>3. TypedCall(k) /\ k.at = "linking" /\ k.op = call[c].op
  <2>1. TypedCall(call[c])
    BY TypedFacts
  <2>2. /\ IsCall(k) /\ k.at = "linking" /\ k.op = call[c].op /\ k.id = call[c].id
        /\ k.vec = call[c].vec /\ k.gen = Generation /\ k.chosen = chosen /\ k.level = level
        /\ k.top = index.maxLayer /\ k.image = call[c].image /\ k.rows = call[c].rows
        /\ k.todo = call[c].todo
    BY <2>1 DEF TypedCall, IsCall, CallFields
  <2>3. level \in Levels
    BY <1>1, TypedFacts, LevelsTyped
  <2>4. chosen \in SUBSET Nat
    BY TypedFacts DEF Chosen, Findable
  <2>5. Generation \in Nat /\ index.maxLayer \in Levels \cup {-1}
    BY TypedFacts DEF Generation
  <2> HIDE DEF k, chosen, level
  <2>6. QED
    BY <2>1, <2>2, <2>3, <2>4, <2>5 DEF TypedCall, Places
<1>4. Typed(index')
  BY <1>1, TypedFacts, LinkOutTyped
<1> HIDE DEF k
<1>5. k.op = "close" => \A d \in Clients \ {c} : call[d].at = "idle"
  BY <1>3, TypedFacts DEF CallTyped
<1>6. QED
  BY <1>1, <1>2, <1>3, <1>4, <1>5, TypedFacts, TypedStep

LEMMA FinishLinkTyped ==
  ASSUME TypeInv, NEW c \in Clients, FinishLink(c)
  PROVE  TypeInv'
<1> DEFINE k      == call[c]
           linked == IF k.gen = Generation THEN LinkBack(index, k.id, k.chosen) ELSE index
<1>1. Typed(linked)
  BY TypedFacts, LinkBackTyped
<1>2. k.id \in Nat /\ k.level \in Levels \cup {-1}
  BY TypedFacts DEF TypedCall
<1>3. index' = IF k.level > k.top THEN Promote(linked, k.id, k.level) ELSE linked
  BY DEF FinishLink
<1> HIDE DEF linked
<1>4. Typed(index')
  BY <1>1, <1>2, <1>3, PromoteTyped
<1>5. /\ mode = "up" /\ call[c].at # "idle" /\ UNCHANGED <<retired, snapshot, startup>>
      /\ writes' = writes /\ snapshotLock' = snapshotLock /\ wal' = wal /\ Goto(c, "done")
  BY DEF FinishLink, At, files, startup, counter
<1>6. "done" \in Places
  BY DEF Places
<1>7. QED
  BY <1>4, <1>5, <1>6, TypedFacts, TypedGoto

LEMMA DeleteTyped ==
  ASSUME TypeInv, NEW c \in Clients, Delete(c)
  PROVE  TypeInv'
<1>1. PICK id \in Live(index) :
        /\ index' = Tombstone(index, id)
        /\ call' = [call EXCEPT ![c] = [IdleCall EXCEPT !.at = "tombstoned", !.op = "delete",
                                                        !.id = id, !.vec = Row(index, id)]]
  BY DEF Delete
<1> DEFINE v == Row(index, id)
           k == [IdleCall EXCEPT !.at = "tombstoned", !.op = "delete", !.id = id, !.vec = v]
<1>2. TypedCall(k) /\ k.at = "tombstoned" /\ k.op = "delete"
  <2>1. id \in Nat /\ v \in Stored
    BY TypedFacts, RowTyped
  <2>2. /\ IsCall(k) /\ k.at = "tombstoned" /\ k.op = "delete" /\ k.id = id /\ k.vec = v
        /\ k.gen = IdleCall.gen /\ k.chosen = IdleCall.chosen /\ k.level = IdleCall.level
        /\ k.top = IdleCall.top /\ k.image = IdleCall.image /\ k.rows = IdleCall.rows
        /\ k.todo = IdleCall.todo
    BY DEF IdleCall, IsCall, CallFields
  <2> HIDE DEF k, v
  <2>3. QED
    BY <2>1, <2>2, IdleTyped DEF TypedCall, Places
<1>3. Typed(index')
  BY <1>1, TypedFacts, TombstoneTyped
<1>4. /\ mode = "up" /\ Serving /\ call' = [call EXCEPT ![c] = k]
      /\ retired' = retired /\ wal' = wal /\ snapshot' = snapshot /\ mode' = mode
      /\ pending' = pending /\ writes' = writes /\ snapshotLock' = snapshotLock
  BY <1>1 DEF Delete, At, files, startup, counter
<1> HIDE DEF k
<1>5. QED
  BY <1>2, <1>3, <1>4, TypedFacts, TypedStep

(* The steps that end a call, or leave its snapshot to be made.            *)
LEMMA EndsTyped ==
  ASSUME TypeInv, NEW c \in Clients,
         LinkRaises(c) \/ MaybeSnapshot(c) \/ SaveRaises(c) \/ EndBackground(c)
  PROVE  TypeInv'
<1>1. /\ mode = "up" /\ call[c].at # "idle" /\ UNCHANGED <<memory, files, startup>>
  BY DEF LinkRaises, MaybeSnapshot, SaveRaises, EndBackground, At
<1>2. /\ writes' \in Nat /\ snapshotLock' \in Clients \cup {None}
      /\ call' = [call EXCEPT ![c] = IdleCall] \/ Goto(c, "snapshot")
  BY TypedFacts DEF LinkRaises, MaybeSnapshot, SaveRaises, EndBackground, Raise, Return, counter
<1>3. /\ UNCHANGED <<retired, snapshot, startup>> /\ Typed(index') /\ wal' \in Seq(Records)
  BY <1>1, TypedFacts DEF memory, files
<1>4. "snapshot" \in Places
  BY DEF Places
<1>5. QED
  BY <1>1, <1>2, <1>3, <1>4, TypedGoto, TypedEnd

LEMMA CaptureTyped ==
  ASSUME TypeInv, NEW c \in Clients, Capture(c)
  PROVE  TypeInv'
<1> DEFINE k == [call[c] EXCEPT !.at = "captured", !.gen = Generation, !.image = index]
<1>1. /\ mode = "up" /\ call[c].at = "snapshot" /\ snapshotLock' = c
      /\ index' = index /\ retired' = retired /\ snapshot' = snapshot /\ mode' = mode
      /\ pending' = pending /\ writes' = writes /\ wal' = wal
  BY DEF Capture, CaptureLeaving, At, memory, startup
<1>2. call' = [call EXCEPT ![c] = k]
  BY DEF Capture, CaptureLeaving, TypeInv
<1>3. TypedCall(k) /\ k.at = "captured" /\ k.op = call[c].op /\ k.gen = Len(retired)
  <2>1. TypedCall(call[c]) /\ Typed(index) /\ Len(retired) \in Nat
    BY TypedFacts
  <2>2. /\ IsCall(k) /\ k.at = "captured" /\ k.op = call[c].op /\ k.id = call[c].id
        /\ k.vec = call[c].vec /\ k.gen = Generation /\ k.chosen = call[c].chosen
        /\ k.level = call[c].level /\ k.top = call[c].top /\ k.image = index
        /\ k.rows = call[c].rows /\ k.todo = call[c].todo
    BY <2>1 DEF TypedCall, IsCall, CallFields
  <2> HIDE DEF k
  <2>3. QED
    BY <2>1, <2>2 DEF TypedCall, Places, Generation
<1> HIDE DEF k
<1>4. k.op = "close" => \A d \in Clients \ {c} : call[d].at = "idle"
  BY <1>3, TypedFacts DEF CallTyped
<1>5. k.gen <= Len(retired')
  BY <1>1, <1>3, TypedFacts
<1>6. QED
  BY <1>1, <1>2, <1>3, <1>4, <1>5, TypedFacts, TypedStep

(* The dict that the snapshot refers to is in memory or was swapped out.   *)
LEMMA SaveTyped ==
  ASSUME TypeInv, NEW c \in Clients, Save(c)
  PROVE  TypeInv'
<1> DEFINE k   == call[c]
           now == NodesOf(k.gen)
<1>1. /\ mode = "up" /\ k.at = "captured" /\ Goto(c, "saved")
      /\ UNCHANGED <<memory, wal, startup, counter>>
  BY DEF Save, At
<1>2. PICK stale \in SUBSET Changed(k.image, now) : snapshot' = Pickled(k.image, now, stale)
  BY DEF Save
<1>3. TypedCall(k) /\ CallTyped(c) /\ k.gen \in 0..Len(retired)
  BY <1>1, TypedFacts DEF CallTyped, TypedCall
<1>4. Typed(now)
  <2>1. CASE k.gen = Len(retired)
    BY <2>1, TypedFacts DEF NodesOf, Generation
  <2>2. CASE k.gen # Len(retired)
    <3>1. k.gen + 1 \in 1..Len(retired) /\ DOMAIN retired = 1..Len(retired)
      BY <2>2, <1>3, TypedFacts DEF AllTyped
    <3>2. retired[k.gen + 1] \in ToSet(retired)
      BY <3>1 DEF ToSet
    <3>3. QED
      BY <2>2, <3>2, TypedFacts DEF NodesOf, Generation, AllTyped
  <2>3. QED
    BY <2>1, <2>2
<1>5. Typed(k.image)
  BY <1>3 DEF TypedCall
<1> HIDE DEF now
<1>6. Typed(snapshot')
  BY <1>2, <1>4, <1>5, PickledTyped
<1> DEFINE m == [k EXCEPT !.at = "saved"]
<1>7. TypedCall(m) /\ m.at = "saved" /\ m.op = k.op
  BY <1>3, MovedTyped DEF Places
<1>8. call' = [call EXCEPT ![c] = m]
  BY <1>1 DEF Goto
<1>9. m.op = "close" => \A d \in Clients \ {c} : call[d].at = "idle"
  BY <1>3, <1>7 DEF CallTyped
<1>10. /\ index' = index /\ retired' = retired /\ wal' = wal /\ mode' = mode
       /\ pending' = pending /\ writes' = writes /\ snapshotLock' = snapshotLock
  BY <1>1 DEF memory, startup, counter
<1> HIDE DEF m
<1>11. QED
  BY <1>1, <1>6, <1>7, <1>8, <1>9, <1>10, TypedFacts, TypedStep

(* The process may end with the snapshot of a close(): nothing else runs.  *)
LEMMA TruncateTyped ==
  ASSUME TypeInv, NEW c \in Clients, Truncate(c)
  PROVE  TypeInv'
<1>1. /\ mode = "up" /\ call[c].at = "saved" /\ wal' = << >> /\ writes' = 0
      /\ snapshotLock' = None /\ call' = [call EXCEPT ![c] = IdleCall]
      /\ mode' = (IF call[c].op = "close" THEN "down" ELSE mode)
      /\ UNCHANGED <<memory, snapshot, pending>>
  BY DEF Truncate, TruncateAndHold, At, Return
<1>2. << >> \in Seq(Records)
  OBVIOUS
<1>3. CASE call[c].op # "close"
  <2>1. mode' = mode
    BY <1>1, <1>3
  <2>2. UNCHANGED <<memory, snapshot, startup>>
    BY <1>1, <2>1 DEF startup
  <2>3. QED
    BY <1>1, <1>2, <2>2, TypedEnd
<1>4. CASE call[c].op = "close"
  <2>1. /\ call'[c] = IdleCall /\ \A d \in Clients \ {c} : call'[d] = call[d]
        /\ call' = [d \in Clients |-> call'[d]]
    BY <1>1 DEF TypeInv
  <2>2. \A d \in Clients \ {c} : call[d].at = "idle" /\ TypedCall(call[d])
    BY <1>4, TypedFacts DEF CallTyped
  <2>3. \A d \in Clients : TypedCall(call'[d]) /\ call'[d].at = "idle"
    BY <2>1, <2>2, IdleTyped
  <2>4. \A d \in Clients : CallTyped(d)'
    BY <2>3 DEF CallTyped
  <2>5. mode' = "down" /\ retired' = retired /\ index' = index
    BY <1>1, <1>4 DEF memory
  <2>6. QED
    BY <1>1, <1>2, <2>1, <2>4, <2>5, TypedFacts DEF TypeInv
<1>5. QED
  BY <1>3, <1>4

LEMMA CloseTyped ==
  ASSUME TypeInv, NEW c \in Clients, Close(c)
  PROVE  TypeInv'
<1> DEFINE k == [IdleCall EXCEPT !.at = "snapshot", !.op = "close"]
<1>1. /\ IsCall(k) /\ k.at = "snapshot" /\ k.op = "close" /\ k.id = IdleCall.id
      /\ k.vec = IdleCall.vec /\ k.gen = IdleCall.gen /\ k.chosen = IdleCall.chosen
      /\ k.level = IdleCall.level /\ k.top = IdleCall.top /\ k.image = IdleCall.image
      /\ k.rows = IdleCall.rows /\ k.todo = IdleCall.todo
  BY DEF IdleCall, IsCall, CallFields
<1>2. /\ mode = "up" /\ Serving /\ call' = [call EXCEPT ![c] = k]
      /\ \A d \in Clients : call[d].at = "idle"
      /\ index' = index /\ retired' = retired /\ wal' = wal /\ snapshot' = snapshot
      /\ mode' = mode /\ pending' = pending /\ writes' = writes /\ snapshotLock' = snapshotLock
  BY DEF Close, Serving, At, memory, files, startup, counter
<1> HIDE DEF k
<1>3. TypedCall(k)
  BY <1>1, IdleTyped DEF TypedCall, Places
<1>4. QED
  BY <1>1, <1>2, <1>3, TypedFacts, TypedStep

LEMMA BeginCompactTyped ==
  ASSUME TypeInv, NEW c \in Clients, BeginCompact(c)
  PROVE  TypeInv'
<1>1. PICK op \in CompactKinds :
        call' = [call EXCEPT ![c] = [IdleCall EXCEPT !.at = "rebuilding", !.op = op,
                                                     !.rows = LiveRows(index)]]
  BY DEF BeginCompact
<1> DEFINE rows == LiveRows(index)
           k == [IdleCall EXCEPT !.at = "rebuilding", !.op = op, !.rows = rows]
<1>2. op \in {"compact", "background"}
  BY DatabaseAssumption
<1>3. /\ IsCall(k) /\ k.at = "rebuilding" /\ k.op = op /\ k.id = IdleCall.id
      /\ k.vec = IdleCall.vec /\ k.gen = IdleCall.gen /\ k.chosen = IdleCall.chosen
      /\ k.level = IdleCall.level /\ k.top = IdleCall.top /\ k.image = IdleCall.image
      /\ k.rows = rows /\ k.todo = IdleCall.todo
  BY DEF IdleCall, IsCall, CallFields
<1>4. /\ mode = "up" /\ Serving /\ call' = [call EXCEPT ![c] = k]
      /\ index' = index /\ retired' = retired /\ wal' = wal /\ snapshot' = snapshot
      /\ mode' = mode /\ pending' = pending /\ writes' = writes /\ snapshotLock' = snapshotLock
  BY <1>1 DEF BeginCompact, At, memory, files, startup, counter
<1>5. rows \in Seq(Rows)
  BY TypedFacts, LiveRowsTyped
<1> HIDE DEF k, rows
<1>6. TypedCall(k)
  BY <1>2, <1>3, <1>5, IdleTyped DEF TypedCall, Places
<1>7. QED
  BY <1>2, <1>3, <1>4, <1>6, TypedFacts, TypedStep

LEMMA SwapTyped ==
  ASSUME TypeInv, NEW c \in Clients, Swap(c)
  PROVE  TypeInv'
<1> DEFINE todo == Missed(c)
           k == [call[c] EXCEPT !.at = "done", !.todo = todo]
<1>1. /\ mode = "up" /\ call[c].at = "rebuilding" /\ retired' = Append(retired, index)
      /\ wal' = wal /\ snapshot' = snapshot /\ mode' = mode /\ pending' = pending
      /\ writes' = writes /\ snapshotLock' = snapshotLock
  BY DEF Swap, At, files, startup, counter
<1>2. PICK levels \in [DOMAIN call[c].rows -> Levels] : index' = Rebuilt(call[c].rows, levels)
  BY DEF Swap
<1>3. call' = [call EXCEPT ![c] = k]
  BY DEF Swap, TypeInv
<1>4. TypedCall(k) /\ k.at = "done" /\ k.op = call[c].op
  <2>1. TypedCall(call[c])
    BY TypedFacts
  <2>2. /\ IsCall(k) /\ k.at = "done" /\ k.op = call[c].op /\ k.id = call[c].id
        /\ k.vec = call[c].vec /\ k.gen = call[c].gen /\ k.chosen = call[c].chosen
        /\ k.level = call[c].level /\ k.top = call[c].top /\ k.image = call[c].image
        /\ k.rows = call[c].rows /\ k.todo = todo
    BY <2>1 DEF TypedCall, IsCall, CallFields
  <2>3. todo \in SUBSET Stored
    BY TypedFacts, RowTyped DEF Missed
  <2> HIDE DEF k, todo
  <2>4. QED
    BY <2>1, <2>2, <2>3 DEF TypedCall, Places
<1>5. Typed(index')
  <2>1. call[c].rows \in Seq(Rows)
    BY TypedFacts DEF TypedCall
  <2>2. QED
    BY <1>2, <2>1, RebuiltTyped
<1>6. AllTyped(retired') /\ Len(retired) <= Len(retired')
  BY <1>1, TypedFacts, MoreTyped
<1> HIDE DEF k
<1>7. k.op = "close" => \A d \in Clients \ {c} : call[d].at = "idle"
  BY <1>4, TypedFacts DEF CallTyped
<1>8. QED
  BY <1>1, <1>3, <1>4, <1>5, <1>6, <1>7, TypedFacts, TypedStep

LEMMA ReinsertTyped ==
  ASSUME TypeInv, NEW c \in Clients, Reinsert(c)
  PROVE  TypeInv'
<1>1. PICK v \in call[c].todo, level \in Levels :
        /\ index' = AddNode(index, index.nextId, v, level)
        /\ call' = [call EXCEPT ![c].at = "toLink", ![c].id = index.nextId,
                                ![c].vec = v, ![c].todo = @ \ {v}]
  BY DEF Reinsert, Reserve
<1> DEFINE id == index.nextId
           todo == call[c].todo \ {v}
           k == [call[c] EXCEPT !.at = "toLink", !.id = id, !.vec = v, !.todo = todo]
<1>2. /\ mode = "up" /\ call[c].at = "done"
      /\ retired' = retired /\ wal' = wal /\ snapshot' = snapshot /\ mode' = mode
      /\ pending' = pending /\ writes' = writes /\ snapshotLock' = snapshotLock
  BY DEF Reinsert, At, files, startup, counter
<1>3. call' = [call EXCEPT ![c] = k]
  BY <1>1 DEF TypeInv
<1>4. id \in Nat /\ v \in Stored /\ todo \in SUBSET Stored
  BY TypedFacts DEF TypedCall
<1>5. TypedCall(k) /\ k.at = "toLink" /\ k.op = call[c].op
  <2>1. TypedCall(call[c])
    BY TypedFacts
  <2>2. /\ IsCall(k) /\ k.at = "toLink" /\ k.op = call[c].op /\ k.id = id
        /\ k.vec = v /\ k.gen = call[c].gen /\ k.chosen = call[c].chosen
        /\ k.level = call[c].level /\ k.top = call[c].top /\ k.image = call[c].image
        /\ k.rows = call[c].rows /\ k.todo = todo
    BY <2>1 DEF TypedCall, IsCall, CallFields
  <2> HIDE DEF k, todo, id
  <2>3. QED
    BY <2>1, <2>2, <1>4 DEF TypedCall, Places
<1>6. Typed(index')
  BY <1>1, <1>4, TypedFacts, AddNodeTyped
<1> HIDE DEF k
<1>7. k.op = "close" => \A d \in Clients \ {c} : call[d].at = "idle"
  BY <1>5, TypedFacts DEF CallTyped
<1>8. QED
  BY <1>2, <1>3, <1>5, <1>6, <1>7, TypedFacts, TypedStep

(* What the process does with every call idle.                             *)
LEMMA AllIdleTyped ==
  ASSUME call' = [c \in Clients |-> call'[c]],
         \A c \in Clients : TypedCall(call'[c]) /\ call'[c].at = "idle",
         Typed(index'), Typed(snapshot'), AllTyped(retired'),
         wal' \in Seq(Records), pending' \in Seq(Records),
         mode' \in {"down", "replay", "up"}, writes' \in Nat,
         snapshotLock' \in Clients \cup {None}
  PROVE  TypeInv'
<1>1. \A c \in Clients : CallTyped(c)'
  BY DEF CallTyped
<1>2. QED
  BY <1>1 DEF TypeInv

LEMMA GoneTyped ==
  ASSUME TypeInv, Gone, mode' = "down", wal' \in Seq(Records)
  PROVE  TypeInv'
<1>1. << >> \in Seq(Records)
  OBVIOUS
<1>2. call' = [c \in Clients |-> IdleCall]
  BY DEF Gone
<1>3. /\ call' = [c \in Clients |-> call'[c]]
      /\ \A c \in Clients : TypedCall(call'[c]) /\ call'[c].at = "idle"
  BY <1>2, IdleTyped
<1>4. /\ index' = EmptyIndex /\ retired' = << >> /\ pending' = << >> /\ writes' = 0
      /\ snapshotLock' = None /\ snapshot' = snapshot
  BY DEF Gone
<1>5. QED
  BY <1>1, <1>3, <1>4, TypedFacts, EmptyTyped, NothingTyped, AllIdleTyped

LEMMA CrashTyped ==
  ASSUME TypeInv, Crash
  PROVE  TypeInv'
<1>1. Gone /\ mode' = "down"
  BY DEF Crash
<1>2. wal' \in Seq(Records)
  <2>1. CASE wal' = wal
    BY <2>1, TypedFacts
  <2>2. ASSUME NEW c \in Clients, NEW tear \in Tears, wal' = Cut(wal, Writing(c), tear)
        PROVE  wal' \in Seq(Records)
    <3> DEFINE id == call[c].id
               v  == call[c].vec
               record == IF tear = "cut" THEN TornRecord ELSE [Writing(c) EXCEPT !.ended = FALSE]
    <3>1. id \in Nat /\ v \in Stored
      BY TypedFacts DEF TypedCall
    <3>2. Writing(c) \in {InsertRecord(id, v), DeleteRecord(id)}
      BY DEF Writing
    <3> HIDE DEF id, v
    <3>3. record \in Records
      BY <3>1, <3>2, RecordsTyped
    <3>4. wal' = Logged(wal, record)
      BY <2>2 DEF Cut
    <3> HIDE DEF record
    <3>5. QED
      BY <3>3, <3>4, TypedFacts, LoggedRecords
  <2>3. QED
    BY <2>1, <2>2 DEF Crash
<1>3. QED
  BY <1>1, <1>2, GoneTyped

LEMMA BootTyped ==
  ASSUME TypeInv, Boot
  PROVE  TypeInv'
<1>1. CASE ReplayDies
  BY <1>1, TypedFacts, GoneTyped DEF ReplayDies
<1>2. CASE Start \/ Replay \/ Serve
  <2>1. mode # "up" /\ call' = call
    BY <1>2 DEF Start, Replay, Serve
  <2>2. /\ call' = [c \in Clients |-> call'[c]]
        /\ \A c \in Clients : TypedCall(call'[c]) /\ call'[c].at = "idle"
    BY <2>1, TypedFacts DEF TypeInv, CallTyped
  <2>3. /\ mode' \in {"down", "replay", "up"} /\ writes' \in Nat
        /\ snapshotLock' \in Clients \cup {None}
        /\ wal' \in Seq(Records) /\ Typed(snapshot')
    BY <1>2, TypedFacts DEF Start, Replay, Serve, TypeInv, files, counter
  <2>4. AllTyped(retired')
    BY <1>2, TypedFacts, NothingTyped DEF Start, Replay, Serve, memory
  <2>5. Typed(index') /\ pending' \in Seq(Records)
    <3>1. CASE Start
      BY <3>1, TypedFacts DEF Start
    <3>2. CASE Replay
      <4>1. PICK level \in Levels : index' = ReplayRecord(index, Head(pending), level)
        BY <3>2 DEF Replay
      <4>2. pending \in Seq(Records) /\ pending # << >> /\ pending' = Tail(pending)
        BY <3>2, TypedFacts DEF Replay
      <4>3. Head(pending) \in Records /\ pending' \in Seq(Records)
        BY <4>2
      <4>4. QED
        BY <4>1, <4>3, TypedFacts, ReplayTyped
    <3>3. CASE Serve
      BY <3>3, TypedFacts DEF Serve, memory
    <3>4. QED
      BY <1>2, <3>1, <3>2, <3>3
  <2>6. QED
    BY <2>2, <2>3, <2>4, <2>5, AllIdleTyped
<1>3. QED
  BY <1>1, <1>2 DEF Boot

LEMMA TypedNext == TypeInv /\ [Next]_vars => TypeInv'
<1> SUFFICES ASSUME TypeInv, [Next]_vars
             PROVE  TypeInv'
  OBVIOUS
<1>1. ASSUME NEW c \in Clients,
             Insert(c) \/ Delete(c) \/ BeginCompact(c) \/ Close(c) \/ Proceed(c)
      PROVE  TypeInv'
  BY <1>1, InsertTyped, DeleteTyped, BeginCompactTyped, CloseTyped, LogTyped,
     LinkEntryPointTyped, StartLinkTyped, FinishLinkTyped, EndsTyped, CaptureTyped, SaveTyped,
     TruncateTyped, SwapTyped, ReinsertTyped DEF Proceed
<1>2. CASE UNCHANGED vars
  BY <1>2 DEF vars, TypeInv, CallTyped
<1>3. QED
  BY <1>1, <1>2, CrashTyped, BootTyped DEF Next

(* Type correctness of the database, in every history: with torn lines,    *)
(* racing snapshots and overlapping compactions.  The dict of nodes is     *)
(* enumerated without gaps or repetitions, in memory and in every snapshot *)
(* (core/index.py:99-104), so that _reassign_entry_point and compact() meet*)
(* every live node.                                                        *)
THEOREM DatabaseTypes == Spec => []TypeOK
<1>1. QED
  BY TypedInit, TypedNext, TypedCorrect, PTL DEF Spec
=============================================================================
