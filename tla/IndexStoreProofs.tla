-------------------------- MODULE IndexStoreProofs --------------------------
(***************************************************************************)
(* Proofs about the operators of IndexStore, for indexes of any size, rows *)
(* of any kind and any levels: what reserve() and link(), delete() and     *)
(* compact() make of a sound index, and that a search then finds exactly the*)
(* live nodes.  The recursions (the ids that compact() collects, the index *)
(* that it fills again) are taken apart with the lemmas that come first.   *)
(***************************************************************************)
EXTENDS IndexStore, FiniteSetTheorems, TLAPS

(***************************************************************************)
(* Induction without operators as parameters.  A predicate is given by the *)
(* set of the numbers that have it and a step of a recursion by a function,*)
(* so that the provers instantiate the lemmas.                             *)
(***************************************************************************)
(* A non-empty set of natural numbers has a least element.                 *)
LEMMA LeastNumber ==
  ASSUME NEW T \in SUBSET Nat, T # {}
  PROVE  \E m \in T : \A k \in T : m <= k
<1> DEFINE Less == {p \in Nat \X Nat : p[1] < p[2]}
<1>1. OpToRel(<, Nat) = Less
  BY Zenon DEF OpToRel
<1>2. IsWellFoundedOn(Less, Nat)
  BY <1>1, NatLessThanWellFounded
<1>3. \A k, m \in Nat : k < m => <<k, m>> \in Less
  OBVIOUS
<1> HIDE DEF Less
<1>4. PICK m \in T : \A k \in T : <<k, m>> \notin Less
  BY <1>2, WFMin, Zenon
<1>5. ASSUME NEW k \in T
      PROVE  m <= k
  <2>1. k \in Nat /\ m \in Nat
    OBVIOUS
  <2>2. ~ (k < m)
    BY <2>1, <1>3, <1>4, Zenon
  <2>3. QED
    BY <2>1, <2>2
<1>6. QED
  BY <1>5

(* Induction up to n: T holds of 0 and, with a number, of the next.        *)
LEMMA UpTo ==
  ASSUME NEW n \in Nat, NEW T,
         0 \in T,
         \A k \in 1..n : k - 1 \in T => k \in T
  PROVE  0..n \subseteq T
<1> SUFFICES ASSUME NEW x \in 0..n, x \notin T PROVE FALSE
  OBVIOUS
<1> DEFINE Outside == {k \in 0..n : k \notin T}
<1>1. Outside \in SUBSET Nat /\ Outside # {}
  OBVIOUS
<1>2. PICK m \in Outside : \A k \in Outside : m <= k
  <2> HIDE DEF Outside
  <2>1. QED
    BY <1>1, LeastNumber
<1>3. m \in 1..n /\ m - 1 \in 0..n
  OBVIOUS
<1>4. m - 1 \in T
  BY <1>2, <1>3
<1>5. QED
  BY <1>3, <1>4

(* Recursion up to n in a set S: what starts with c and goes on by step[k] *)
(* is a function, defined everywhere.                                      *)
Steps(n, S) == [1..n -> [S -> S]]
Follows(f, n, S, c, step) ==
  f \in [0..n -> S] /\ f[0] = c /\ \A k \in 1..n : f[k] = step[k][f[k - 1]]

(* Such a function exists: what TLA+'s f[k \in 0..n] == IF ... chooses.    *)
LEMMA Recursion ==
  ASSUME NEW n \in Nat, NEW S, NEW c \in S, NEW step \in Steps(n, S)
  PROVE  \E f : Follows(f, n, S, c, step)
<1> DEFINE T == {m \in 0..n : \E f : Follows(f, m, S, c, step)}
<1>1. 0 \in T
  <2>1. Follows([k \in 0..0 |-> c], 0, S, c, step)
    BY DEF Follows
  <2>2. QED
    BY <2>1
<1>2. ASSUME NEW k \in 1..n, k - 1 \in T
      PROVE  k \in T
  <2>1. PICK f : Follows(f, k - 1, S, c, step)
    BY <1>2
  <2> DEFINE g == [j \in 0..k |-> IF j = k THEN step[k][f[k - 1]] ELSE f[j]]
  <2>2. k - 1 \in 0..(k - 1) /\ \A j \in 0..k : j # k => j \in 0..(k - 1)
    OBVIOUS
  <2>3. step[k][f[k - 1]] \in S
    BY <2>1, <2>2 DEF Steps, Follows
  <2>4. g \in [0..k -> S]
    BY <2>1, <2>2, <2>3 DEF Follows
  <2>5. g[0] = c /\ g[k] = step[k][g[k - 1]]
    BY <2>1 DEF Follows
  <2>6. \A j \in 1..(k - 1) : g[j] = step[j][g[j - 1]]
    BY <2>1 DEF Follows
  <2>7. \A j \in 1..k : j = k \/ j \in 1..(k - 1)
    OBVIOUS
  <2>8. Follows(g, k, S, c, step)
    <3> HIDE DEF g
    <3>1. QED
      BY <2>4, <2>5, <2>6, <2>7 DEF Follows
  <2> HIDE DEF g
  <2>9. QED
    BY <2>8
<1> HIDE DEF T
<1>3. 0..n \subseteq T
  BY <1>1, <1>2, UpTo
<1>4. n \in T
  BY <1>3
<1>5. QED
  BY <1>4 DEF T

-----------------------------------------------------------------------------
(* The fields of an index: it is a record with these and no others.        *)
Fields == {"vectors", "nodes", "order", "entryPoint", "maxLayer", "nextId"}
IsRecord(ix) == ix = [f \in Fields |-> ix[f]]

(* What a node can be.                                                     *)
AnyNode == [tombstone : BOOLEAN, links : {"none", "out", "alone", "full"}, level : Nat]

(* _vectors and nodes have a row and a node for every id that was given    *)
(* out.                                                                    *)
Tables(ix) ==
  /\ ix.nextId \in Nat
  /\ ix.vectors = [i \in 0..(ix.nextId - 1) |-> ix.vectors[i]]
  /\ ix.nodes \in [0..(ix.nextId - 1) -> AnyNode]

(* The dictionary of nodes has every id once, in some order.               *)
Enumerated(ix) ==
  /\ ix.order \in [1..ix.nextId -> 0..(ix.nextId - 1)]
  /\ \A j, k \in 1..ix.nextId : ix.order[j] = ix.order[k] => j = k
  /\ \A i \in 0..(ix.nextId - 1) : \E k \in 1..ix.nextId : ix.order[k] = i

(* The entry point is a live node of the highest layer in use, or None     *)
(* when no node is left.                                                   *)
Entry(ix) ==
  IF Live(ix) = {} THEN ix.entryPoint = None /\ ix.maxLayer = -1
  ELSE ix.entryPoint \in Live(ix) /\ ix.maxLayer = ix.nodes[ix.entryPoint].level

(* A search reaches every live node: each is linked both ways, or is the   *)
(* only one and has no edges.                                              *)
Linked(ix) ==
  \A i \in Live(ix) : \/ ix.nodes[i].links = "full"
                      \/ Live(ix) = {i} /\ ix.nodes[i].links = "none"

(* An index on which no operation is in progress.                          *)
Sound(ix) == IsRecord(ix) /\ Tables(ix) /\ Enumerated(ix) /\ Entry(ix) /\ Linked(ix)

(* Enter() changes the entry point and the top layer.                      *)
LEMMA EnterFields ==
  ASSUME NEW ix, IsRecord(ix), NEW e, NEW l
  PROVE  LET r == Enter(ix, e, l) IN
         /\ IsRecord(r)
         /\ r.vectors = ix.vectors /\ r.nodes = ix.nodes /\ r.order = ix.order
         /\ r.entryPoint = e /\ r.maxLayer = l /\ r.nextId = ix.nextId
BY DEF IsRecord, Fields, Enter

(* Relinked() changes the links of the nodes named.                        *)
LEMMA RelinkedFields ==
  ASSUME NEW ix, IsRecord(ix), NEW ids, NEW links
  PROVE  LET r == Relinked(ix, ids, links) IN
         /\ IsRecord(r)
         /\ r.vectors = ix.vectors /\ r.order = ix.order /\ r.nextId = ix.nextId
         /\ r.entryPoint = ix.entryPoint /\ r.maxLayer = ix.maxLayer
         /\ r.nodes = [i \in DOMAIN ix.nodes |->
              IF i \in ids THEN [ix.nodes[i] EXCEPT !.links = links] ELSE ix.nodes[i]]
BY DEF IsRecord, Fields, Relinked

(* Buried() changes one tombstone.                                         *)
LEMMA BuriedFields ==
  ASSUME NEW ix, IsRecord(ix), NEW id
  PROVE  LET r == Buried(ix, id) IN
         /\ IsRecord(r)
         /\ r.vectors = ix.vectors /\ r.order = ix.order /\ r.nextId = ix.nextId
         /\ r.entryPoint = ix.entryPoint /\ r.maxLayer = ix.maxLayer
         /\ r.nodes = [ix.nodes EXCEPT ![id].tombstone = TRUE]
BY DEF IsRecord, Fields, Buried

(* A new HNSWIndex is sound and has no live node.                          *)
LEMMA EmptyIsSound == Sound(EmptyIndex) /\ Live(EmptyIndex) = {}
<1>1. IsRecord(EmptyIndex)
  BY DEF IsRecord, Fields, EmptyIndex
<1>2. /\ EmptyIndex.nextId = 0 /\ EmptyIndex.vectors = [i \in {} |-> Zero]
      /\ EmptyIndex.nodes = [i \in {} |-> Zero] /\ EmptyIndex.order = << >>
      /\ EmptyIndex.entryPoint = None /\ EmptyIndex.maxLayer = -1
  BY DEF EmptyIndex
<1>3. 0..(0 - 1) = {} /\ 1..0 = {}
  OBVIOUS
<1>4. Live(EmptyIndex) = {}
  BY <1>2 DEF Live
<1>5. Tables(EmptyIndex) /\ Enumerated(EmptyIndex) /\ Entry(EmptyIndex) /\ Linked(EmptyIndex)
  BY <1>2, <1>3, <1>4 DEF Tables, Enumerated, Entry, Linked
<1>6. QED
  BY <1>1, <1>4, <1>5 DEF Sound

(* The live ids are below nextId.                                          *)
LEMMA LiveOnes ==
  ASSUME NEW ix, Tables(ix)
  PROVE  /\ Live(ix) = {i \in 0..(ix.nextId - 1) : ~ ix.nodes[i].tombstone}
         /\ Live(ix) \subseteq Nat
         /\ ix.nextId \notin Live(ix)
BY DEF Tables, Live

(* A search of a sound index, with k large enough, finds exactly the live  *)
(* nodes: no tombstoned one (core/index.py:274, 314), and all the others.  *)
LEMMA FindableIsLive ==
  ASSUME NEW ix, Sound(ix), None \notin Nat
  PROVE  Findable(ix) = Live(ix)
<1>1. CASE Live(ix) = {}
  <2>1. ix.entryPoint \notin DOMAIN ix.nodes
    BY <1>1 DEF Sound, Entry, Tables
  <2>2. QED
    BY <2>1, <1>1 DEF Findable
<1>2. CASE Live(ix) # {}
  <2>1. ix.entryPoint \in Live(ix) /\ ix.entryPoint \in DOMAIN ix.nodes
    BY <1>2 DEF Sound, Entry, Live
  <2>2. \A i \in Live(ix) : \/ i = ix.entryPoint
                            \/ ix.nodes[i].links = "full" /\ ix.nodes[ix.entryPoint].links = "full"
    BY <2>1 DEF Sound, Linked
  <2>3. QED
    BY <2>1, <2>2 DEF Findable
<1>3. QED
  BY <1>1, <1>2

(* A node that reserve() has made and link() has not linked yet.           *)
Bare(level) == [tombstone |-> FALSE, links |-> "none", level |-> level]

(* What reserve() makes of each field (core/index.py:187-224).             *)
LEMMA ReserveFields ==
  ASSUME NEW ix, IsRecord(ix), Tables(ix), NEW v, NEW level
  PROVE  LET r == Reserve(ix, v, level) IN
         /\ IsRecord(r)
         /\ r.nextId = ix.nextId + 1
         /\ r.vectors = [i \in 0..ix.nextId |-> IF i = ix.nextId THEN v ELSE ix.vectors[i]]
         /\ r.nodes = [i \in 0..ix.nextId |-> IF i = ix.nextId THEN Bare(level) ELSE ix.nodes[i]]
         /\ r.order = Append(ix.order, ix.nextId)
         /\ r.entryPoint = IF ix.entryPoint = None THEN ix.nextId ELSE ix.entryPoint
         /\ r.maxLayer = IF ix.entryPoint = None THEN level ELSE ix.maxLayer
<1> DEFINE n == ix.nextId
           added == [ix EXCEPT
                       !.vectors = [i \in 0..((n + 1) - 1) |-> IF i = n THEN v ELSE Row(ix, i)],
                       !.nodes   = [i \in DOMAIN ix.nodes \cup {n} |->
                                      IF i = n THEN Bare(level) ELSE ix.nodes[i]],
                       !.order   = IF n \in DOMAIN ix.nodes THEN @ ELSE Append(@, n),
                       !.nextId  = n + 1]
<1>1. n \in Nat /\ n \notin DOMAIN ix.nodes /\ n >= n /\ DOMAIN ix.nodes \cup {n} = 0..n
      /\ (n + 1) - 1 = n /\ \A i \in 0..n : i # n => i \in 0..(n - 1)
  BY DEF Tables
<1>2. DOMAIN ix.vectors = 0..(n - 1)
  BY DEF Tables
<1>3. Reserve(ix, v, level) = IF ix.entryPoint = None THEN Enter(added, n, level) ELSE added
  BY <1>1 DEF Reserve, AddNode, Bare
<1>4. /\ IsRecord(added) /\ added.nextId = n + 1
      /\ added.entryPoint = ix.entryPoint /\ added.maxLayer = ix.maxLayer
      /\ added.order = Append(ix.order, n)
  BY <1>1 DEF IsRecord, Fields
<1>5. added.vectors = [i \in 0..((n + 1) - 1) |-> IF i = n THEN v ELSE Row(ix, i)]
  BY DEF IsRecord, Fields
<1>6. added.nodes = [i \in DOMAIN ix.nodes \cup {n} |->
                       IF i = n THEN Bare(level) ELSE ix.nodes[i]]
  BY DEF IsRecord, Fields
<1>7. added.vectors = [i \in 0..n |-> IF i = n THEN v ELSE ix.vectors[i]]
  BY <1>1, <1>2, <1>5 DEF Row
<1>8. added.nodes = [i \in 0..n |-> IF i = n THEN Bare(level) ELSE ix.nodes[i]]
  BY <1>1, <1>6
<1> HIDE DEF added
<1>9. CASE ix.entryPoint = None
  BY <1>9, <1>3, <1>4, <1>7, <1>8, EnterFields
<1>10. CASE ix.entryPoint # None
  BY <1>10, <1>3, <1>4, <1>7, <1>8
<1>11. QED
  BY <1>9, <1>10

(* An enumeration of the ids below n, with n behind, is one of those       *)
(* below n + 1.                                                            *)
LEMMA AppendEnumerates ==
  ASSUME NEW n \in Nat, NEW s \in [1..n -> 0..(n - 1)],
         \A j, k \in 1..n : s[j] = s[k] => j = k,
         \A i \in 0..(n - 1) : \E k \in 1..n : s[k] = i
  PROVE  /\ Append(s, n) \in [1..(n + 1) -> 0..n]
         /\ \A j, k \in 1..(n + 1) : Append(s, n)[j] = Append(s, n)[k] => j = k
         /\ \A i \in 0..n : \E k \in 1..(n + 1) : Append(s, n)[k] = i
<1>1. s \in Seq(0..n) /\ Len(s) = n
  OBVIOUS
<1> DEFINE a == Append(s, n)
<1>2. a \in Seq(0..n) /\ Len(a) = n + 1 /\ a[n + 1] = n /\ \A k \in 1..n : a[k] = s[k]
  BY <1>1
<1> HIDE DEF a
<1>3. \A k \in 1..(n + 1) : k = n + 1 \/ k \in 1..n
  OBVIOUS
<1>4. \A k \in 1..n : a[k] = s[k] /\ a[k] # n
  BY <1>2
<1>5. a[n + 1] = n
  BY <1>2
<1>6. a \in [1..(n + 1) -> 0..n]
  BY <1>2
<1>7. ASSUME NEW j \in 1..(n + 1), NEW k \in 1..(n + 1), a[j] = a[k]
      PROVE  j = k
  <2>1. CASE j \in 1..n /\ k \in 1..n
    BY <2>1, <1>4, <1>7
  <2>2. CASE j = n + 1 \/ k = n + 1
    BY <2>2, <1>3, <1>4, <1>5, <1>7, Zenon
  <2>3. QED
    BY <2>1, <2>2, <1>3
<1>8. ASSUME NEW i \in 0..n
      PROVE  \E k \in 1..(n + 1) : a[k] = i
  <2>1. CASE i = n
    BY <2>1, <1>5
  <2>2. CASE i # n
    <3>1. i \in 0..(n - 1)
      BY <2>2
    <3>2. PICK k \in 1..n : s[k] = i
      BY <3>1
    <3>3. k \in 1..(n + 1) /\ a[k] = i
      BY <3>2, <1>4
    <3>4. QED
      BY <3>3
  <2>3. QED
    BY <2>1, <2>2
<1>9. QED
  BY <1>6, <1>7, <1>8 DEF a

(* reserve() keeps the tables and adds one live id.                        *)
LEMMA ReservedIsBare ==
  ASSUME NEW ix, Sound(ix), None \notin Nat, NEW v, NEW level \in Nat
  PROVE  LET r == Reserve(ix, v, level) IN
         /\ IsRecord(r) /\ Tables(r) /\ Enumerated(r)
         /\ Live(r) = Live(ix) \cup {ix.nextId}
<1> DEFINE r == Reserve(ix, v, level)
           n == ix.nextId
<1>1. /\ IsRecord(r) /\ r.nextId = n + 1
      /\ r.vectors = [i \in 0..n |-> IF i = n THEN v ELSE ix.vectors[i]]
      /\ r.nodes = [i \in 0..n |-> IF i = n THEN Bare(level) ELSE ix.nodes[i]]
      /\ r.order = Append(ix.order, n)
  BY ReserveFields DEF Sound
<1> HIDE DEF r
<1>2. n \in Nat /\ (n + 1) - 1 = n /\ \A i \in 0..n : i # n => i \in 0..(n - 1)
  BY DEF Sound, Tables
<1>3. Tables(r)
  <2>1. Bare(level) \in AnyNode
    BY DEF Bare, AnyNode
  <2>2. r.nodes \in [0..n -> AnyNode]
    BY <1>1, <1>2, <2>1 DEF Sound, Tables
  <2>3. r.vectors = [i \in 0..n |-> r.vectors[i]]
    BY <1>1
  <2>4. r.nextId \in Nat
    BY <1>1, <1>2
  <2>5. QED
    BY <1>1, <1>2, <2>2, <2>3, <2>4 DEF Tables
<1>4. Enumerated(r)
  <2>1. /\ n \in Nat /\ ix.order \in [1..n -> 0..(n - 1)]
        /\ \A j, k \in 1..n : ix.order[j] = ix.order[k] => j = k
        /\ \A i \in 0..(n - 1) : \E k \in 1..n : ix.order[k] = i
    BY <1>2 DEF Sound, Enumerated
  <2>2. /\ Append(ix.order, n) \in [1..(n + 1) -> 0..n]
        /\ \A j, k \in 1..(n + 1) : Append(ix.order, n)[j] = Append(ix.order, n)[k] => j = k
        /\ \A i \in 0..n : \E k \in 1..(n + 1) : Append(ix.order, n)[k] = i
    <3> DEFINE s == ix.order
    <3> HIDE DEF n, s
    <3>1. /\ n \in Nat /\ s \in [1..n -> 0..(n - 1)]
          /\ \A j, k \in 1..n : s[j] = s[k] => j = k
          /\ \A i \in 0..(n - 1) : \E k \in 1..n : s[k] = i
      BY <2>1 DEF s
    <3>2. /\ Append(s, n) \in [1..(n + 1) -> 0..n]
          /\ \A j, k \in 1..(n + 1) : Append(s, n)[j] = Append(s, n)[k] => j = k
          /\ \A i \in 0..n : \E k \in 1..(n + 1) : Append(s, n)[k] = i
      BY <3>1, AppendEnumerates
    <3>3. QED
      BY <3>2 DEF s
  <2>3. QED
    BY <1>1, <1>2, <2>2 DEF Enumerated
<1>5. Live(r) = Live(ix) \cup {n}
  <2>1. r.nodes[n].tombstone = FALSE /\ \A i \in 0..n : i # n => r.nodes[i] = ix.nodes[i]
    BY <1>1, <1>2 DEF Bare
  <2>2. Live(r) = {i \in 0..n : ~ r.nodes[i].tombstone}
    BY <1>1, <1>2, <1>3, LiveOnes
  <2>3. Live(ix) = {i \in 0..(n - 1) : ~ ix.nodes[i].tombstone}
    BY LiveOnes DEF Sound
  <2>4. \A i \in 0..(n - 1) : i \in 0..n /\ i # n
    BY <1>2
  <2>5. n \in 0..n
    BY <1>2
  <2>6. QED
    BY <2>1, <2>2, <2>3, <2>4, <2>5, <1>2
<1>6. QED
  BY <1>1, <1>3, <1>4, <1>5 DEF r

(* reserve() and link() together make a sound index of a sound one, which  *)
(* has one more row.                                                       *)
LEMMA InsertIsSound ==
  ASSUME NEW ix, Sound(ix), None \notin Nat, NEW v, NEW level \in Nat
  PROVE  LET jx == Link(Reserve(ix, v, level), ix.nextId) IN
         /\ Sound(jx)
         /\ jx.nextId = ix.nextId + 1
         /\ jx.vectors = [i \in 0..ix.nextId |-> IF i = ix.nextId THEN v ELSE ix.vectors[i]]
         /\ Live(jx) = Live(ix) \cup {ix.nextId}
<1> DEFINE r == Reserve(ix, v, level)
           n == ix.nextId
           jx == Link(r, n)
<1> SUFFICES /\ Sound(jx)
             /\ jx.nextId = n + 1
             /\ jx.vectors = [i \in 0..n |-> IF i = n THEN v ELSE ix.vectors[i]]
             /\ Live(jx) = Live(ix) \cup {n}
  OBVIOUS
<1>1. /\ IsRecord(r) /\ Tables(r) /\ Enumerated(r)
      /\ Live(r) = Live(ix) \cup {n}
  BY ReservedIsBare
<1>2. /\ r.nextId = n + 1
      /\ r.vectors = [i \in 0..n |-> IF i = n THEN v ELSE ix.vectors[i]]
      /\ r.nodes = [i \in 0..n |-> IF i = n THEN Bare(level) ELSE ix.nodes[i]]
      /\ r.entryPoint = IF ix.entryPoint = None THEN n ELSE ix.entryPoint
      /\ r.maxLayer = IF ix.entryPoint = None THEN level ELSE ix.maxLayer
  BY ReserveFields DEF Sound
<1> HIDE DEF r
<1>3. n \in Nat /\ n \in 0..n /\ n \notin Live(ix) /\ Live(ix) \subseteq Nat
      /\ \A i \in Live(ix) : i \in 0..n /\ i # n /\ ix.nodes[i] \in AnyNode
  BY LiveOnes DEF Sound, Tables
<1>4. r.nodes[n] = Bare(level)
  BY <1>2, <1>3
<1>5. CASE Live(ix) = {}
  <2>1. r.entryPoint = n /\ r.maxLayer = level
    BY <1>2, <1>5 DEF Sound, Entry
  <2>2. jx = r
    BY <2>1 DEF Link
  <2>3. Live(r) = {n}
    BY <1>1, <1>5
  <2>4. Entry(r) /\ Linked(r)
    BY <2>1, <2>3, <1>4 DEF Entry, Linked, Bare
  <2>5. QED
    BY <1>1, <1>2, <2>2, <2>4 DEF Sound
<1>6. CASE Live(ix) # {}
  <2> DEFINE e == ix.entryPoint
             o == Relinked(r, {n}, "out")
             linked == Live(ix) \cup {n}
             b == Relinked(o, linked, "full")
  <2>1. e \in Live(ix) /\ ix.maxLayer = ix.nodes[e].level /\ e # None /\ e # n
    BY <1>3, <1>6 DEF Sound, Entry
  <2>2. r.entryPoint = e /\ r.maxLayer = ix.maxLayer
    BY <1>2, <2>1
  <2>3. \A i \in Live(ix) : r.nodes[i] = ix.nodes[i]
    BY <1>2, <1>3
  <2>4. Chosen(r, n) = Live(ix)
    <3>1. \A i \in Live(ix) : \/ i = e
                              \/ r.nodes[i].links = "full" /\ r.nodes[e].links = "full"
      BY <2>1, <2>3 DEF Sound, Linked
    <3>2. e \in DOMAIN r.nodes
      BY <1>2, <1>3, <2>1
    <3>3. Findable(r) \ {n} = Live(ix)
      BY <1>1, <1>3, <2>1, <2>2, <3>1, <3>2 DEF Findable
    <3>4. QED
      BY <3>3 DEF Chosen
  <2>5. jx = Promote(b, n, level)
    <3>1. r.nodes[n].links = "none" /\ r.nodes[n].level = level
      BY <1>4 DEF Bare
    <3>2. LinkOut(r, n, Live(ix)) = o
      BY <1>6, <3>1 DEF LinkOut
    <3>3. LinkBack(o, n, Live(ix)) = b
      BY <1>6 DEF LinkBack
    <3>4. Link(r, n) = Promote(LinkBack(LinkOut(r, n, Live(ix)), n, Live(ix)), n, level)
      BY <2>1, <2>2, <2>4, <3>1 DEF Link
    <3>5. QED
      BY <3>2, <3>3, <3>4
  <2>6. /\ IsRecord(o)
        /\ o.vectors = r.vectors /\ o.order = r.order /\ o.nextId = r.nextId
        /\ o.entryPoint = r.entryPoint /\ o.maxLayer = r.maxLayer
        /\ o.nodes = [i \in DOMAIN r.nodes |->
              IF i \in {n} THEN [r.nodes[i] EXCEPT !.links = "out"] ELSE r.nodes[i]]
    BY <1>1, RelinkedFields
  <2> HIDE DEF o
  <2>7. /\ IsRecord(b)
        /\ b.vectors = r.vectors /\ b.order = r.order /\ b.nextId = r.nextId
        /\ b.entryPoint = r.entryPoint /\ b.maxLayer = r.maxLayer
        /\ b.nodes = [i \in DOMAIN o.nodes |->
              IF i \in linked THEN [o.nodes[i] EXCEPT !.links = "full"] ELSE o.nodes[i]]
    <3>0. IsRecord(o)
      BY <2>6
    <3>1. /\ IsRecord(b)
          /\ b.vectors = o.vectors /\ b.order = o.order /\ b.nextId = o.nextId
          /\ b.entryPoint = o.entryPoint /\ b.maxLayer = o.maxLayer
          /\ b.nodes = [i \in DOMAIN o.nodes |->
               IF i \in linked THEN [o.nodes[i] EXCEPT !.links = "full"] ELSE o.nodes[i]]
      <4> HIDE DEF linked
      <4>1. QED
        BY <3>0, RelinkedFields
    <3> HIDE DEF b
    <3>2. QED
      BY <3>1, <2>6
  <2> HIDE DEF b
  <2>8. DOMAIN o.nodes = 0..n /\ DOMAIN b.nodes = 0..n
    BY <1>2, <2>6, <2>7
  <2>9. \A i \in 0..n : r.nodes[i] \in AnyNode
    BY <1>1, <1>2, <1>3 DEF Tables
  <2>10. \A i \in 0..n : /\ o.nodes[i] \in AnyNode
                         /\ o.nodes[i].tombstone = r.nodes[i].tombstone
                         /\ o.nodes[i].level = r.nodes[i].level
    <3> SUFFICES ASSUME NEW i \in 0..n
                 PROVE  /\ o.nodes[i] \in AnyNode
                        /\ o.nodes[i].tombstone = r.nodes[i].tombstone
                        /\ o.nodes[i].level = r.nodes[i].level
      OBVIOUS
    <3>1. r.nodes[i] \in AnyNode
      BY <2>9
    <3>2. \/ o.nodes[i] = [r.nodes[i] EXCEPT !.links = "out"]
          \/ o.nodes[i] = r.nodes[i]
      BY <1>2, <2>6
    <3>3. QED
      BY <3>1, <3>2 DEF AnyNode
  <2>11. \A i \in 0..n : /\ b.nodes[i] \in AnyNode
                         /\ b.nodes[i].tombstone = r.nodes[i].tombstone
                         /\ b.nodes[i].level = r.nodes[i].level
                         /\ i \in Live(ix) \cup {n} => b.nodes[i].links = "full"
    BY <2>7, <2>8, <2>10 DEF AnyNode
  <2> DEFINE p == Promote(b, n, level)
  <2>12. /\ IsRecord(p) /\ p.vectors = b.vectors /\ p.nodes = b.nodes
         /\ p.order = b.order /\ p.nextId = b.nextId
         /\ \/ p.entryPoint = b.entryPoint /\ p.maxLayer = b.maxLayer
            \/ p.entryPoint = n /\ p.maxLayer = level
    BY <2>7, EnterFields DEF Promote
  <2> HIDE DEF p
  <2>13. Tables(p)
    <3>1. p.nodes \in [0..n -> AnyNode]
      <4>1. b.nodes = [i \in 0..n |-> b.nodes[i]]
        BY <2>7, <2>8
      <4>2. QED
        BY <4>1, <2>11, <2>12
    <3>2. p.nextId = r.nextId /\ p.vectors = r.vectors /\ r.nextId - 1 = n
      BY <2>7, <2>12, <1>2, <1>3
    <3>3. QED
      BY <3>1, <3>2, <1>1 DEF Tables
  <2>14. Enumerated(p)
    BY <1>1, <2>7, <2>12 DEF Enumerated
  <2>15. Live(p) = Live(ix) \cup {n}
    <3>1. Live(p) = {i \in 0..n : ~ p.nodes[i].tombstone}
      BY <2>8, <2>12 DEF Live
    <3>2. Live(r) = {i \in 0..n : ~ r.nodes[i].tombstone}
      BY <1>2 DEF Live
    <3>3. QED
      BY <3>1, <3>2, <1>1, <2>11, <2>12
  <2>16. Entry(p)
    <3>1. b.nodes[n].level = level /\ b.nodes[e].level = ix.nodes[e].level
      BY <1>3, <1>4, <2>1, <2>3, <2>11 DEF Bare
    <3>2. QED
      BY <3>1, <2>1, <2>2, <2>7, <2>12, <2>15 DEF Entry
  <2>17. Linked(p)
    BY <1>3, <2>11, <2>12, <2>15 DEF Linked
  <2>18. p.nextId = n + 1 /\ p.vectors = r.vectors
    BY <1>2, <2>7, <2>12
  <2>19. jx = p
    BY <2>5 DEF p
  <2>20. QED
    BY <1>2, <2>12, <2>13, <2>14, <2>15, <2>16, <2>17, <2>18, <2>19 DEF Sound
<1>7. QED
  BY <1>5, <1>6 DEF r

(* A sequence without repetitions stays one when something new is          *)
(* appended.                                                               *)
LEMMA AppendNew ==
  ASSUME NEW S, NEW s \in Seq(S), NEW x \in S, IsInjective(s), x \notin ToSet(s)
  PROVE  /\ Append(s, x) \in Seq(S)
         /\ IsInjective(Append(s, x))
         /\ ToSet(Append(s, x)) = ToSet(s) \cup {x}
<1> DEFINE a == Append(s, x)
           n == Len(s)
<1>1. /\ a \in Seq(S) /\ Len(a) = n + 1 /\ a[n + 1] = x /\ \A k \in 1..n : a[k] = s[k]
      /\ n \in Nat
  OBVIOUS
<1> HIDE DEF a
<1>2. DOMAIN s = 1..n /\ DOMAIN a = 1..(n + 1)
  BY <1>1
<1> HIDE DEF n
<1>3. \A k \in 1..(n + 1) : k = n + 1 \/ k \in 1..n
  BY <1>1
<1>4. \A k \in 1..n : a[k] = s[k] /\ a[k] # x /\ k \in 1..(n + 1)
  BY <1>1, <1>2 DEF ToSet
<1>5. n + 1 \in 1..(n + 1)
  BY <1>1
<1>6. IsInjective(a)
  <2>1. ASSUME NEW j \in 1..(n + 1), NEW k \in 1..(n + 1), a[j] = a[k]
        PROVE  j = k
    <3>1. CASE j \in 1..n /\ k \in 1..n
      BY <2>1, <3>1, <1>2, <1>4 DEF IsInjective
    <3>2. CASE j = n + 1 \/ k = n + 1
      BY <2>1, <3>2, <1>1, <1>3, <1>4, Zenon
    <3>3. QED
      BY <3>1, <3>2, <1>3
  <2>2. QED
    BY <1>2, <2>1 DEF IsInjective
<1>7. ToSet(a) = ToSet(s) \cup {x}
  BY <1>1, <1>2, <1>3, <1>4, <1>5 DEF ToSet
<1>8. QED
  BY <1>1, <1>6, <1>7 DEF a

(* `order` has every node once.                                            *)
InOrder(ix, n) ==
  /\ ix.order \in [1..n -> DOMAIN ix.nodes]
  /\ \A j, k \in 1..n : ix.order[j] = ix.order[k] => j = k
  /\ \A i \in DOMAIN ix.nodes : \E k \in 1..n : ix.order[k] = i

(* The ids that compact() collects are the live ones, each once: also when *)
(* the dictionary lacks some of the ids given out.                         *)
LEMMA LiveIdsInOrder ==
  ASSUME NEW ix, NEW n \in Nat, InOrder(ix, n)
  PROVE  /\ LiveIds(ix) \in Seq(Live(ix))
         /\ IsInjective(LiveIds(ix))
         /\ ToSet(LiveIds(ix)) = Live(ix)
<1> DEFINE D     == DOMAIN ix.nodes
           order == ix.order
           L     == Live(ix)
           seqs  == Seq(L)
           With(k, s) == IF order[k] \in L THEN Append(s, order[k]) ELSE s
           step  == [k \in 1..n |-> [s \in seqs |-> With(k, s)]]
<1>1. n \in Nat
  OBVIOUS
<1>2. /\ order \in [1..n -> D]
      /\ \A j, k \in 1..n : order[j] = order[k] => j = k
      /\ \A i \in D : \E k \in 1..n : order[k] = i
  BY DEF InOrder
<1>3. L \subseteq D
  BY DEF Live
<1>4. Len(order) = n
  <2> HIDE DEF order, D
  <2>1. QED
    BY <1>1, <1>2
<1> HIDE DEF L
<1>5. step \in Steps(n, seqs) /\ << >> \in seqs
  <2>1. \A k \in 1..n, s \in seqs : With(k, s) \in seqs
    OBVIOUS
  <2> HIDE DEF With, seqs
  <2>2. step \in Steps(n, seqs)
    BY <2>1 DEF Steps
  <2>3. << >> \in seqs
    BY DEF seqs
  <2>4. QED
    BY <2>2, <2>3
<1>6. PICK f : Follows(f, n, seqs, << >>, step)
  <2> HIDE DEF seqs, step
  <2>1. QED
    BY <1>1, <1>5, Recursion
<1> HIDE DEF order, D
<1>7. ASSUME NEW k \in 1..n
      PROVE  f[k - 1] \in seqs /\ f[k] = With(k, f[k - 1])
  <2> HIDE DEF With, seqs
  <2>1. f[k - 1] \in seqs
    BY <1>6, <1>1 DEF Follows
  <2>2. QED
    BY <1>6, <2>1 DEF Follows
<1> DEFINE Defines(g) == g = [k \in 0..n |-> IF k = 0 THEN << >> ELSE With(k, g[k - 1])]
<1>8. Defines(f)
  <2> HIDE DEF With, seqs
  <2>1. QED
    BY <1>1, <1>6, <1>7 DEF Follows
<1> DEFINE kept == CHOOSE g : Defines(g)
<1>9. Defines(kept)
  <2> HIDE DEF Defines
  <2>1. QED
    BY <1>8, Zenon
<1>10. LiveIds(ix) = kept[n]
  <2>1. LiveIds(ix) = (CHOOSE g : g = [k \in 0..Len(order) |->
                         IF k = 0 THEN << >>
                         ELSE IF order[k] \in L THEN Append(g[k - 1], order[k])
                         ELSE g[k - 1]])[Len(order)]
    BY Zenon DEF LiveIds, order, L
  <2>2. QED
    BY <2>1, <1>4
<1> HIDE DEF kept
<1>11. \A k \in 0..n : kept[k] = IF k = 0 THEN << >> ELSE With(k, kept[k - 1])
  <2> HIDE DEF With
  <2>1. QED
    BY <1>9, Zenon
<1> DEFINE First(k) == {order[j] : j \in 1..k} \cap L
           Good(k) == kept[k] \in seqs /\ IsInjective(kept[k]) /\ ToSet(kept[k]) = First(k)
           T == {k \in 0..n : Good(k)}
<1>12. 0 \in T
  <2>1. kept[0] = << >> /\ 0 \in 0..n
    BY <1>1, <1>11
  <2>2. IsInjective(<< >>) /\ ToSet(<< >>) = {}
    BY DEF IsInjective, ToSet
  <2>3. First(0) = {}
    OBVIOUS
  <2> HIDE DEF First
  <2>4. QED
    BY <2>1, <2>2, <2>3, <1>5
<1>13. ASSUME NEW k \in 1..n, k - 1 \in T
       PROVE  k \in T
  <2>1. Good(k - 1) /\ k \in 0..n
    BY <1>13
  <2>2. kept[k] = With(k, kept[k - 1])
    <3> HIDE DEF With
    <3>1. QED
      BY <1>11, <2>1
  <2>3. \A j \in 1..k : j = k \/ j \in 1..(k - 1)
    OBVIOUS
  <2>4. \A j \in 1..(k - 1) : j \in 1..n /\ j # k /\ j \in 1..k
    BY <1>1
  <2>5. CASE order[k] \in L
    <3>1. order[k] \notin {order[j] : j \in 1..(k - 1)}
      BY <1>2, <2>4
    <3>2. First(k) = First(k - 1) \cup {order[k]}
      BY <2>3, <2>4, <2>5
    <3>3. kept[k] = Append(kept[k - 1], order[k])
      BY <2>2, <2>5
    <3>4. kept[k - 1] \in Seq(L) /\ IsInjective(kept[k - 1]) /\ order[k] \notin ToSet(kept[k - 1])
      BY <2>1, <3>1
    <3>5. /\ kept[k] \in Seq(L) /\ IsInjective(kept[k])
          /\ ToSet(kept[k]) = ToSet(kept[k - 1]) \cup {order[k]}
      BY <3>3, <3>4, <2>5, AppendNew
    <3>6. QED
      BY <2>1, <3>2, <3>5
  <2>6. CASE order[k] \notin L
    <3>1. First(k) = First(k - 1)
      BY <2>3, <2>4, <2>6
    <3>2. kept[k] = kept[k - 1]
      BY <2>2, <2>6
    <3> HIDE DEF First
    <3>3. QED
      BY <2>1, <3>1, <3>2
  <2>7. QED
    BY <2>5, <2>6
<1> HIDE DEF T
<1>14. 0..n \subseteq T
  BY <1>1, <1>12, <1>13, UpTo
<1>15. Good(n)
  <2>1. n \in T
    BY <1>1, <1>14
  <2>2. QED
    BY <2>1 DEF T
<1>16. First(n) = L
  <2>1. \A i \in L : \E k \in 1..n : order[k] = i
    BY <1>2, <1>3
  <2>2. L \subseteq {order[j] : j \in 1..n}
    BY <2>1
  <2>3. QED
    BY <2>2
<1>17. QED
  BY <1>10, <1>15, <1>16 DEF L

(* So it is for an index that has a node for every id.                     *)
LEMMA LiveIdsAreLive ==
  ASSUME NEW ix, Tables(ix), Enumerated(ix)
  PROVE  /\ LiveIds(ix) \in Seq(Live(ix))
         /\ IsInjective(LiveIds(ix))
         /\ ToSet(LiveIds(ix)) = Live(ix)
<1>1. InOrder(ix, ix.nextId) /\ ix.nextId \in Nat
  BY DEF Tables, Enumerated, InOrder
<1>2. QED
  BY <1>1, LiveIdsInOrder

(* delete() of a live node makes a sound index of a sound one, with the    *)
(* rows it had and that node no longer live, also if it was the entry      *)
(* point.                                                                  *)
LEMMA DeleteIsSound ==
  ASSUME NEW ix, Sound(ix), None \notin Nat, NEW id \in Live(ix)
  PROVE  LET jx == Tombstone(ix, id) IN
         /\ Sound(jx)
         /\ jx.nextId = ix.nextId /\ jx.vectors = ix.vectors
         /\ Live(jx) = Live(ix) \ {id}
<1> DEFINE b  == Buried(ix, id)
           jx == Tombstone(ix, id)
<1> SUFFICES /\ Sound(jx)
             /\ jx.nextId = ix.nextId /\ jx.vectors = ix.vectors
             /\ Live(jx) = Live(ix) \ {id}
  OBVIOUS
<1>1. /\ IsRecord(b)
      /\ b.vectors = ix.vectors /\ b.order = ix.order /\ b.nextId = ix.nextId
      /\ b.entryPoint = ix.entryPoint /\ b.maxLayer = ix.maxLayer
      /\ b.nodes = [ix.nodes EXCEPT ![id].tombstone = TRUE]
  BY BuriedFields DEF Sound
<1>2. jx = IF id = ix.entryPoint THEN Reassigned(b) ELSE b
  BY DEF Tombstone
<1> HIDE DEF b, jx
<1>3. /\ Live(ix) = {i \in 0..(ix.nextId - 1) : ~ ix.nodes[i].tombstone}
      /\ ix.nodes \in [0..(ix.nextId - 1) -> AnyNode] /\ Live(ix) \subseteq Nat
  BY LiveOnes DEF Sound, Tables
<1>4. /\ b.nodes \in [0..(ix.nextId - 1) -> AnyNode]
      /\ b.nodes[id].tombstone
      /\ \A i \in 0..(ix.nextId - 1) : i # id => b.nodes[i] = ix.nodes[i]
  <2>1. id \in 0..(ix.nextId - 1) /\ ix.nodes[id] \in AnyNode
    BY <1>3
  <2>2. /\ [ix.nodes[id] EXCEPT !.tombstone = TRUE] \in AnyNode
        /\ [ix.nodes[id] EXCEPT !.tombstone = TRUE].tombstone
    BY <2>1 DEF AnyNode
  <2>3. b.nodes = [ix.nodes EXCEPT ![id] = [ix.nodes[id] EXCEPT !.tombstone = TRUE]]
    BY <1>1
  <2>4. QED
    BY <1>3, <2>1, <2>2, <2>3
<1>5. Tables(b) /\ Enumerated(b)
  BY <1>1, <1>4 DEF Sound, Tables, Enumerated
<1>6. Live(b) = Live(ix) \ {id}
  <2>1. Live(b) = {i \in 0..(ix.nextId - 1) : ~ b.nodes[i].tombstone}
    BY <1>1, <1>5, LiveOnes
  <2>2. QED
    BY <2>1, <1>3, <1>4
<1>7. Linked(b)
  <2>1. ASSUME NEW i \in Live(b)
        PROVE  b.nodes[i].links = "full"
    <3>1. i \in Live(ix) /\ i # id /\ b.nodes[i] = ix.nodes[i]
      BY <1>3, <1>4, <1>6
    <3>2. ix.nodes[i].links = "full"
      BY <3>1 DEF Sound, Linked
    <3>3. QED
      BY <3>1, <3>2
  <2>2. QED
    BY <2>1 DEF Linked
<1>8. ix.entryPoint \in Live(ix) /\ ix.maxLayer = ix.nodes[ix.entryPoint].level
  BY DEF Sound, Entry
<1>9. CASE id # ix.entryPoint
  <2>1. jx = b
    BY <1>2, <1>9
  <2>2. b.entryPoint \in Live(b) /\ b.maxLayer = b.nodes[b.entryPoint].level
    BY <1>1, <1>3, <1>4, <1>6, <1>8, <1>9
  <2>3. Entry(b)
    BY <2>2 DEF Entry
  <2>4. QED
    BY <1>1, <1>5, <1>6, <1>7, <2>1, <2>3 DEF Sound
<1>10. CASE id = ix.entryPoint
  <2> DEFINE e == IF Live(b) = {} THEN None ELSE Head(LiveIds(b))
             l == IF Live(b) = {} THEN -1 ELSE b.nodes[Head(LiveIds(b))].level
  <2>1. jx = Enter(b, e, l)
    BY <1>2, <1>10 DEF Reassigned
  <2>2. Live(b) # {} => Head(LiveIds(b)) \in Live(b)
    <3>1. LiveIds(b) \in Seq(Live(b)) /\ ToSet(LiveIds(b)) = Live(b)
      BY <1>5, LiveIdsAreLive
    <3>2. Live(b) # {} => LiveIds(b) # << >>
      BY <3>1 DEF ToSet
    <3>3. QED
      BY <3>1, <3>2
  <2>3. Live(b) # {} => e \in Live(b) /\ l = b.nodes[e].level
    BY <2>2
  <2>4. Live(b) = {} => e = None /\ l = -1
    OBVIOUS
  <2> HIDE DEF e, l
  <2>5. /\ IsRecord(jx)
        /\ jx.vectors = b.vectors /\ jx.nodes = b.nodes /\ jx.order = b.order
        /\ jx.entryPoint = e /\ jx.maxLayer = l /\ jx.nextId = b.nextId
    BY <1>1, <2>1, EnterFields
  <2>6. Live(jx) = Live(b)
    BY <2>5 DEF Live
  <2>7. Tables(jx) /\ Enumerated(jx) /\ Linked(jx)
    BY <1>5, <1>7, <2>5, <2>6 DEF Tables, Enumerated, Linked
  <2>8. Entry(jx)
    BY <2>3, <2>4, <2>5, <2>6 DEF Entry
  <2>9. QED
    BY <1>1, <1>6, <2>5, <2>6, <2>7, <2>8 DEF Sound
<1>11. QED
  BY <1>9, <1>10

(* The rows of Rebuilt and the index it makes of the first k of them.      *)
Arrays(V) == UNION {[0..(n - 1) -> V] : n \in Nat}

(* The sound indexes with rows from V are a set: the recursion needs one.  *)
Indexes(V) == [vectors : Arrays(V), nodes : Arrays(AnyNode), order : Seq(Nat),
               entryPoint : Nat \cup {None}, maxLayer : Int, nextId : Nat]

(* A sound index is one of them.                                           *)
LEMMA SoundOnesAreASet ==
  ASSUME NEW ix, Sound(ix), NEW V, \A i \in 0..(ix.nextId - 1) : ix.vectors[i] \in V
  PROVE  ix \in Indexes(V)
<1>1. ix.nextId \in Nat
  BY DEF Sound, Tables
<1>2. ix.vectors \in Arrays(V)
  <2>1. ix.vectors \in [0..(ix.nextId - 1) -> V]
    BY DEF Sound, Tables
  <2>2. QED
    BY <1>1, <2>1 DEF Arrays
<1>3. ix.nodes \in Arrays(AnyNode)
  BY <1>1 DEF Sound, Tables, Arrays
<1>4. ix.order \in Seq(Nat)
  <2> DEFINE n == ix.nextId
             s == ix.order
  <2>1. s \in [1..n -> 0..(n - 1)] /\ 0..(n - 1) \subseteq Nat
    BY <1>1 DEF Sound, Enumerated
  <2>2. n \in Nat
    BY <1>1
  <2> HIDE DEF n, s
  <2>3. s \in Seq(Nat)
    BY <2>1, <2>2
  <2>4. QED
    BY <2>3 DEF s
<1>5. ix.entryPoint \in Nat \cup {None} /\ ix.maxLayer \in Int
  <2>1. CASE Live(ix) = {}
    BY <2>1 DEF Sound, Entry
  <2>2. CASE Live(ix) # {}
    <3>1. ix.entryPoint \in 0..(ix.nextId - 1) /\ ix.maxLayer = ix.nodes[ix.entryPoint].level
      BY <2>2, LiveOnes DEF Sound, Entry
    <3>2. ix.nodes[ix.entryPoint] \in AnyNode
      BY <3>1 DEF Sound, Tables
    <3>3. QED
      BY <3>1, <3>2, <1>1 DEF AnyNode
  <2>3. QED
    BY <2>1, <2>2
<1>6. ix = [vectors |-> ix.vectors, nodes |-> ix.nodes, order |-> ix.order,
            entryPoint |-> ix.entryPoint, maxLayer |-> ix.maxLayer, nextId |-> ix.nextId]
  BY DEF Sound, IsRecord, Fields
<1> HIDE DEF Arrays
<1>7. QED
  BY <1>1, <1>2, <1>3, <1>4, <1>5, <1>6 DEF Indexes

(* Filling a new index with rows gives a sound one that has these, in      *)
(* order, and all of them live.                                            *)
LEMMA RebuiltIsSound ==
  ASSUME NEW n \in Nat, NEW rows, Len(rows) = n, None \notin Nat,
         NEW levels, \A k \in 1..n : levels[k] \in Nat
  PROVE  LET jx == Rebuilt(rows, levels) IN
         /\ Sound(jx)
         /\ jx.nextId = n /\ Live(jx) = 0..(n - 1)
         /\ jx.vectors = [i \in 0..(n - 1) |-> rows[i + 1].vec]
<1> DEFINE V == {rows[k].vec : k \in 1..n}
           Filled(ix) == Sound(ix) /\ \A i \in 0..(ix.nextId - 1) : ix.vectors[i] \in V
           S == {ix \in Indexes(V) : Filled(ix)}
           With(k, ix) == Link(Reserve(ix, rows[k].vec, levels[k]), ix.nextId)
           step == [k \in 1..n |-> [ix \in S |-> With(k, ix)]]
<1>1. ASSUME NEW k \in 1..n, NEW ix, Filled(ix)
      PROVE  /\ Filled(With(k, ix))
             /\ With(k, ix).nextId = ix.nextId + 1
             /\ Live(With(k, ix)) = Live(ix) \cup {ix.nextId}
             /\ With(k, ix).vectors =
                  [i \in 0..ix.nextId |-> IF i = ix.nextId THEN rows[k].vec ELSE ix.vectors[i]]
  <2> DEFINE jx == With(k, ix)
  <2>1. Sound(ix) /\ levels[k] \in Nat
    BY <1>1
  <2>2. /\ Sound(jx)
        /\ jx.nextId = ix.nextId + 1
        /\ jx.vectors = [i \in 0..ix.nextId |->
                           IF i = ix.nextId THEN rows[k].vec ELSE ix.vectors[i]]
        /\ Live(jx) = Live(ix) \cup {ix.nextId}
    BY <2>1, InsertIsSound
  <2> HIDE DEF jx
  <2>3. ix.nextId \in Nat
    BY <2>1 DEF Sound, Tables
  <2>4. \A i \in 0..(jx.nextId - 1) : i \in 0..ix.nextId /\ (i # ix.nextId => i \in 0..(ix.nextId - 1))
    BY <2>2, <2>3
  <2>5. rows[k].vec \in V
    OBVIOUS
  <2>6. \A i \in 0..(ix.nextId - 1) : ix.vectors[i] \in V
    BY <1>1
  <2> HIDE DEF V
  <2>7. \A i \in 0..(jx.nextId - 1) : jx.vectors[i] \in V
    BY <2>2, <2>4, <2>5, <2>6
  <2>8. Filled(jx)
    BY <2>2, <2>7
  <2>9. QED
    BY <2>2, <2>8 DEF jx
<1>2. \A ix : Filled(ix) => ix \in S
  BY SoundOnesAreASet
<1>3. /\ EmptyIndex.nextId = 0 /\ EmptyIndex.vectors = [i \in 0..(0 - 1) |-> rows[i + 1].vec]
      /\ Live(EmptyIndex) = 0..(0 - 1) /\ Filled(EmptyIndex)
  <2>1. 0..(0 - 1) = {}
    OBVIOUS
  <2>2. EmptyIndex.nextId = 0 /\ EmptyIndex.vectors = [i \in {} |-> Zero]
    BY DEF EmptyIndex
  <2>3. QED
    BY <2>1, <2>2, EmptyIsSound
<1> HIDE DEF Filled
<1>4. step \in Steps(n, S) /\ EmptyIndex \in S
  <2>1. \A ix \in S : Filled(ix)
    OBVIOUS
  <2>2. \A k \in 1..n, ix \in S : With(k, ix) \in S
    <3> HIDE DEF S, With
    <3>1. QED
      BY <1>1, <1>2, <2>1
  <2> HIDE DEF With, S
  <2>3. QED
    BY <1>2, <1>3, <2>2 DEF Steps
<1>5. PICK f : Follows(f, n, S, EmptyIndex, step)
  <2> HIDE DEF S, step
  <2>1. QED
    BY <1>4, Recursion
<1>6. ASSUME NEW k \in 1..n
      PROVE  f[k - 1] \in S /\ f[k] = With(k, f[k - 1])
  <2> HIDE DEF With, S
  <2>1. f[k - 1] \in S
    BY <1>5 DEF Follows
  <2>2. QED
    BY <1>5, <2>1 DEF Follows
<1> HIDE DEF S
<1> DEFINE Defines(g) == g = [k \in 0..n |-> IF k = 0 THEN EmptyIndex ELSE With(k, g[k - 1])]
<1>7. Defines(f)
  <2> HIDE DEF With
  <2>1. QED
    BY <1>5, <1>6 DEF Follows
<1> DEFINE built == CHOOSE g : Defines(g)
<1>8. Defines(built)
  <2> HIDE DEF Defines
  <2>1. QED
    BY <1>7, Zenon
<1>9. Rebuilt(rows, levels) = built[n]
  <2>1. Rebuilt(rows, levels) = (CHOOSE g : g = [k \in 0..Len(rows) |->
             IF k = 0 THEN EmptyIndex
             ELSE Link(Reserve(g[k - 1], rows[k].vec, levels[k]), g[k - 1].nextId)])[Len(rows)]
    BY Zenon DEF Rebuilt
  <2>2. QED
    BY <2>1
<1> HIDE DEF built
<1>10. \A k \in 0..n : built[k] = IF k = 0 THEN EmptyIndex ELSE With(k, built[k - 1])
  <2> HIDE DEF With
  <2>1. QED
    BY <1>8, Zenon
<1> DEFINE Copied(k) == [i \in 0..(k - 1) |-> rows[i + 1].vec]
           Good(k) == /\ Filled(built[k]) /\ built[k].nextId = k /\ Live(built[k]) = 0..(k - 1)
                      /\ built[k].vectors = Copied(k)
           T == {k \in 0..n : Good(k)}
<1>11. 0 \in T
  <2>1. built[0] = EmptyIndex /\ 0 \in 0..n
    BY <1>10
  <2>2. QED
    BY <1>3, <2>1
<1>12. ASSUME NEW k \in 1..n, k - 1 \in T
       PROVE  k \in T
  <2>1. Good(k - 1) /\ k \in 0..n /\ (k - 1) + 1 = k
    BY <1>12
  <2>2. built[k] = With(k, built[k - 1])
    <3> HIDE DEF With
    <3>1. QED
      BY <1>10, <2>1
  <2> HIDE DEF With
  <2>3. /\ Filled(built[k]) /\ built[k].nextId = k
        /\ Live(built[k]) = 0..((k - 1) - 1) \cup {k - 1}
        /\ built[k].vectors = [i \in 0..(k - 1) |->
                                 IF i = k - 1 THEN rows[k].vec ELSE Copied(k - 1)[i]]
    <3> HIDE DEF Copied
    <3> DEFINE ix == built[k - 1]
    <3>1. Filled(ix) /\ ix.nextId = k - 1 /\ Live(ix) = 0..((k - 1) - 1)
          /\ ix.vectors = Copied(k - 1)
      BY <2>1
    <3> HIDE DEF ix
    <3>2. /\ Filled(With(k, ix))
          /\ With(k, ix).nextId = ix.nextId + 1
          /\ Live(With(k, ix)) = Live(ix) \cup {ix.nextId}
          /\ With(k, ix).vectors =
               [i \in 0..ix.nextId |-> IF i = ix.nextId THEN rows[k].vec ELSE ix.vectors[i]]
      BY <1>1, <3>1
    <3>3. built[k] = With(k, ix)
      BY <2>2 DEF ix
    <3>4. QED
      BY <2>1, <3>1, <3>2, <3>3
  <2>4. 0..((k - 1) - 1) \cup {k - 1} = 0..(k - 1)
    OBVIOUS
  <2>5. \A i \in 0..(k - 1) : i # k - 1 => i \in 0..((k - 1) - 1)
    OBVIOUS
  <2>6. \A i \in 0..(k - 1) : (IF i = k - 1 THEN rows[k].vec ELSE Copied(k - 1)[i]) = rows[i + 1].vec
    BY <2>1, <2>5
  <2>7. built[k].vectors = Copied(k)
    BY <2>3, <2>6
  <2> HIDE DEF Copied
  <2>8. QED
    BY <2>1, <2>3, <2>4, <2>7
<1> HIDE DEF T
<1>13. 0..n \subseteq T
  BY <1>11, <1>12, UpTo
<1>14. Good(n)
  <2>1. n \in T
    BY <1>13
  <2>2. QED
    BY <2>1 DEF T
<1>15. QED
  BY <1>9, <1>14 DEF Filled

(* No two rows hold the same.                                              *)
Distinct(ix) == \A i, j \in 0..(ix.nextId - 1) : ix.vectors[i] = ix.vectors[j] => i = j

(* compact() makes a sound index of a sound one, in which all is live and  *)
(* which holds what was live before.                                       *)
LEMMA CompactIsSound ==
  ASSUME NEW ix, Sound(ix), None \notin Nat,
         NEW levels, \A k \in DOMAIN LiveRows(ix) : levels[k] \in Nat
  PROVE  LET jx == Rebuilt(LiveRows(ix), levels) IN
         /\ Sound(jx)
         /\ Live(jx) = 0..(jx.nextId - 1)
         /\ {jx.vectors[i] : i \in Live(jx)} = {ix.vectors[i] : i \in Live(ix)}
         /\ Distinct(ix) => Distinct(jx)
<1> DEFINE ids  == LiveIds(ix)
           n    == Len(ids)
           rows == LiveRows(ix)
           jx   == Rebuilt(rows, levels)
<1> SUFFICES /\ Sound(jx)
             /\ Live(jx) = 0..(jx.nextId - 1)
             /\ {jx.vectors[i] : i \in Live(jx)} = {ix.vectors[i] : i \in Live(ix)}
             /\ Distinct(ix) => Distinct(jx)
  OBVIOUS
<1>1. ids \in Seq(Live(ix)) /\ IsInjective(ids) /\ ToSet(ids) = Live(ix)
  BY LiveIdsAreLive DEF Sound
<1>2. rows = [k \in DOMAIN ids |-> [id |-> ids[k], vec |-> Row(ix, ids[k])]]
  BY Zenon DEF LiveRows
<1>3. \A i \in Live(ix) : Row(ix, i) = ix.vectors[i] /\ i \in 0..(ix.nextId - 1)
  BY LiveOnes DEF Sound, Tables, Row
<1> HIDE DEF ids, rows
<1>4. n \in Nat /\ DOMAIN ids = 1..n /\ \A k \in 1..n : ids[k] \in Live(ix)
  BY <1>1
<1>5. Len(rows) = n /\ DOMAIN rows = 1..n
  <2> DEFINE R == [id : Live(ix), vec : {ix.vectors[i] : i \in Live(ix)}]
  <2>1. rows \in [1..n -> R]
    BY <1>2, <1>3, <1>4
  <2> HIDE DEF n, R
  <2>2. n \in Nat
    BY <1>4
  <2>3. QED
    BY <2>1, <2>2
<1>6. \A k \in 1..n : rows[k].vec = ix.vectors[ids[k]]
  BY <1>2, <1>3, <1>4
<1>7. \A k \in 1..n : levels[k] \in Nat
  BY <1>5 DEF rows
<1> HIDE DEF n
<1>8. /\ Sound(jx)
      /\ jx.nextId = n /\ Live(jx) = 0..(n - 1)
      /\ jx.vectors = [i \in 0..(n - 1) |-> rows[i + 1].vec]
  <2>1. n \in Nat /\ Len(rows) = n /\ \A k \in 1..n : levels[k] \in Nat
    BY <1>4, <1>5, <1>7
  <2>2. QED
    BY <2>1, RebuiltIsSound
<1> HIDE DEF jx
<1>9. \A i \in 0..(n - 1) : i + 1 \in 1..n /\ jx.vectors[i] = ix.vectors[ids[i + 1]]
  BY <1>4, <1>6, <1>8
<1>10. \A k \in 1..n : k - 1 \in 0..(n - 1) /\ (k - 1) + 1 = k
  BY <1>4
<1>11. {jx.vectors[i] : i \in 0..(n - 1)} = {ix.vectors[i] : i \in Live(ix)}
  <2>1. \A i \in 0..(n - 1) : \E j \in Live(ix) : jx.vectors[i] = ix.vectors[j]
    BY <1>4, <1>9
  <2>2. \A j \in Live(ix) : \E i \in 0..(n - 1) : jx.vectors[i] = ix.vectors[j]
    <3> SUFFICES ASSUME NEW j \in Live(ix)
                 PROVE  \E i \in 0..(n - 1) : jx.vectors[i] = ix.vectors[j]
      OBVIOUS
    <3>1. PICK k \in 1..n : ids[k] = j
      BY <1>1, <1>4 DEF ToSet
    <3>2. k - 1 \in 0..(n - 1) /\ jx.vectors[k - 1] = ix.vectors[ids[k]]
      BY <1>9, <1>10
    <3>3. QED
      BY <3>1, <3>2
  <2>3. QED
    BY <2>1, <2>2
<1>12. ASSUME Distinct(ix)
       PROVE  Distinct(jx)
  <2>1. ASSUME NEW i \in 0..(n - 1), NEW j \in 0..(n - 1), jx.vectors[i] = jx.vectors[j]
        PROVE  i = j
    <3>1. ix.vectors[ids[i + 1]] = ix.vectors[ids[j + 1]]
          /\ i + 1 \in 1..n /\ j + 1 \in 1..n
      BY <1>9, <2>1
    <3>2. ids[i + 1] = ids[j + 1]
      BY <3>1, <1>3, <1>4, <1>12 DEF Distinct
    <3>3. i + 1 = j + 1
      BY <3>1, <3>2, <1>1, <1>4 DEF IsInjective
    <3>4. QED
      BY <3>3, <1>4
  <2>2. QED
    BY <2>1, <1>8 DEF Distinct
<1>13. QED
  BY <1>8, <1>11, <1>12
-----------------------------------------------------------------------------
(* What the live rows hold, and the deleted ones.                          *)
LiveVectors(ix) == {ix.vectors[i] : i \in Live(ix)}
DeadVectors(ix) == {ix.vectors[i] : i \in (0..(ix.nextId - 1)) \ Live(ix)}

(* An index keeps the rows it has: where they are, and what they hold.     *)
KeepsRows(ix, jx) ==
  /\ ix.nextId <= jx.nextId
  /\ \A i \in 0..(ix.nextId - 1) : jx.vectors[i] = ix.vectors[i]

(* When no two rows hold the same, nothing is both live and deleted.       *)
LEMMA LiveIsNotDead ==
  ASSUME NEW ix, Sound(ix), Distinct(ix)
  PROVE  LiveVectors(ix) \cap DeadVectors(ix) = {}
<1>1. Live(ix) \subseteq 0..(ix.nextId - 1)
  BY LiveOnes DEF Sound
<1>2. QED
  BY <1>1 DEF LiveVectors, DeadVectors, Distinct

(* What an insert makes of the live and the deleted vectors.               *)
LEMMA InsertEffect ==
  ASSUME NEW ix, Sound(ix), Distinct(ix), None \notin Nat, NEW level \in Nat,
         NEW v, v \notin LiveVectors(ix) \cup DeadVectors(ix)
  PROVE  LET jx == Link(Reserve(ix, v, level), ix.nextId) IN
         /\ Sound(jx) /\ Distinct(jx) /\ KeepsRows(ix, jx)
         /\ jx.nextId = ix.nextId + 1 /\ jx.vectors[ix.nextId] = v
         /\ LiveVectors(jx) = LiveVectors(ix) \cup {v}
         /\ DeadVectors(jx) = DeadVectors(ix)
<1> DEFINE jx == Link(Reserve(ix, v, level), ix.nextId)
           n  == ix.nextId
<1>1. /\ Sound(jx)
      /\ jx.nextId = n + 1
      /\ jx.vectors = [i \in 0..n |-> IF i = n THEN v ELSE ix.vectors[i]]
      /\ Live(jx) = Live(ix) \cup {n}
  BY InsertIsSound
<1> HIDE DEF jx
<1>2. n \in Nat /\ Live(ix) \subseteq 0..(n - 1)
  BY LiveOnes DEF Sound, Tables
<1> HIDE DEF n
<1>3. /\ (n + 1) - 1 = n /\ n \in 0..n /\ n \notin 0..(n - 1)
      /\ \A i \in 0..(n - 1) : i \in 0..n /\ i # n
      /\ \A i \in 0..n : i = n \/ i \in 0..(n - 1)
  BY <1>2
<1>4. jx.vectors[n] = v /\ \A i \in 0..(n - 1) : jx.vectors[i] = ix.vectors[i]
  BY <1>1, <1>3
<1>5. LiveVectors(jx) = LiveVectors(ix) \cup {v}
  <2>1. \A i \in Live(ix) : jx.vectors[i] = ix.vectors[i]
    BY <1>2, <1>4
  <2>2. {jx.vectors[i] : i \in Live(ix) \cup {n}} = {ix.vectors[i] : i \in Live(ix)} \cup {v}
    BY <2>1, <1>4
  <2>3. QED
    BY <2>2, <1>1 DEF LiveVectors
<1>6. (0..n) \ Live(jx) = (0..(n - 1)) \ Live(ix)
  BY <1>1, <1>2, <1>3
<1>7. DeadVectors(jx) = DeadVectors(ix)
  BY <1>1, <1>3, <1>4, <1>6 DEF DeadVectors, n
<1>8. \A i \in 0..(n - 1) : ix.vectors[i] # v
  BY DEF LiveVectors, DeadVectors, n
<1>9. Distinct(jx)
  <2>1. ASSUME NEW i \in 0..n, NEW j \in 0..n, jx.vectors[i] = jx.vectors[j]
        PROVE  i = j
    BY <2>1, <1>3, <1>4, <1>8 DEF Distinct, n
  <2>2. QED
    BY <2>1, <1>1, <1>3 DEF Distinct
<1>10. KeepsRows(ix, jx)
  BY <1>1, <1>2, <1>4 DEF KeepsRows, n
<1>11. QED
  BY <1>1, <1>4, <1>5, <1>7, <1>9, <1>10 DEF jx, n

(* What a delete makes of them.                                            *)
LEMMA DeleteEffect ==
  ASSUME NEW ix, Sound(ix), Distinct(ix), None \notin Nat, NEW id \in Live(ix)
  PROVE  LET jx == Tombstone(ix, id) IN
         /\ Sound(jx) /\ Distinct(jx) /\ KeepsRows(ix, jx) /\ jx.nextId = ix.nextId
         /\ LiveVectors(jx) = LiveVectors(ix) \ {ix.vectors[id]}
         /\ DeadVectors(jx) = DeadVectors(ix) \cup {ix.vectors[id]}
<1> DEFINE jx == Tombstone(ix, id)
<1>1. /\ Sound(jx)
      /\ jx.nextId = ix.nextId /\ jx.vectors = ix.vectors
      /\ Live(jx) = Live(ix) \ {id}
  BY DeleteIsSound
<1> HIDE DEF jx
<1>2. ix.nextId \in Nat /\ Live(ix) \subseteq 0..(ix.nextId - 1)
  BY LiveOnes DEF Sound, Tables
<1>3. Distinct(jx) /\ KeepsRows(ix, jx)
  BY <1>1, <1>2 DEF Distinct, KeepsRows
<1>4. \A i \in Live(ix) : ix.vectors[i] = ix.vectors[id] => i = id
  BY <1>2 DEF Distinct
<1>5. LiveVectors(jx) = LiveVectors(ix) \ {ix.vectors[id]}
  BY <1>1, <1>4 DEF LiveVectors
<1>6. (0..(jx.nextId - 1)) \ Live(jx) = ((0..(ix.nextId - 1)) \ Live(ix)) \cup {id}
  BY <1>1, <1>2
<1>7. DeadVectors(jx) = DeadVectors(ix) \cup {ix.vectors[id]}
  BY <1>1, <1>6 DEF DeadVectors
<1>8. QED
  BY <1>1, <1>3, <1>5, <1>7 DEF jx

(* What a compaction makes of them.                                        *)
LEMMA CompactEffect ==
  ASSUME NEW ix, Sound(ix), Distinct(ix), None \notin Nat,
         NEW levels, \A k \in DOMAIN LiveRows(ix) : levels[k] \in Nat
  PROVE  LET jx == Rebuilt(LiveRows(ix), levels) IN
         /\ Sound(jx) /\ Distinct(jx)
         /\ LiveVectors(jx) = LiveVectors(ix)
         /\ DeadVectors(jx) = {}
<1> DEFINE jx == Rebuilt(LiveRows(ix), levels)
<1>1. /\ Sound(jx)
      /\ Live(jx) = 0..(jx.nextId - 1)
      /\ {jx.vectors[i] : i \in Live(jx)} = {ix.vectors[i] : i \in Live(ix)}
      /\ Distinct(ix) => Distinct(jx)
  BY CompactIsSound, Zenon
<1> HIDE DEF jx
<1>2. QED
  BY <1>1 DEF LiveVectors, DeadVectors, jx
-----------------------------------------------------------------------------
(* Indexes on which operations are in progress                             *)

(* An index between any two steps: the dictionary may lack some ids, which *)
(* a crash has taken before their record was written.                      *)
Formed(ix) ==
  /\ IsRecord(ix)
  /\ ix.nextId \in Nat
  /\ ix.vectors = [i \in 0..(ix.nextId - 1) |-> ix.vectors[i]]
  /\ DOMAIN ix.nodes \subseteq 0..(ix.nextId - 1)
  /\ ix.nodes \in [DOMAIN ix.nodes -> AnyNode]
  /\ \E n \in Nat : InOrder(ix, n)
  /\ ix.entryPoint \in DOMAIN ix.nodes \cup {None}

(* All that a search can meet has its vector in V.                         *)
Shown(ix, V) ==
  \A i \in DOMAIN ix.nodes :
     i = ix.entryPoint \/ ix.nodes[i].links # "none" => ix.vectors[i] \in V

(* The id denotes the vector.                                              *)
Holds(ix, id, v) == id \in DOMAIN ix.nodes /\ ix.vectors[id] = v

(* jx still holds what ix holds.                                           *)
Keeps(ix, jx) == \A i \in DOMAIN ix.nodes : Holds(jx, i, ix.vectors[i])

(* The nodes that jx has more than ix are beyond the rows of ix.           *)
Newer(ix, jx) ==
  /\ Keeps(ix, jx)
  /\ ix.nextId <= jx.nextId
  /\ \A i \in DOMAIN jx.nodes \ DOMAIN ix.nodes : ix.nextId <= i

(* The index contradicts none of the pairs <<id, vector>>, or holds them   *)
(* all.                                                                    *)
Agrees(ix, P) == \A p \in P : p[1] \in DOMAIN ix.nodes => ix.vectors[p[1]] = p[2]
HoldsAll(ix, P) == \A p \in P : Holds(ix, p[1], p[2])

(* The rows and the ids in use are the same.                               *)
Same(ix, jx) ==
  jx.vectors = ix.vectors /\ jx.nextId = ix.nextId /\ DOMAIN jx.nodes = DOMAIN ix.nodes

(* Same, Keeps and Newer are orders, each weaker than the one before.      *)
LEMMA SameIsNewer ==
  ASSUME NEW ix, NEW jx, Same(ix, jx), ix.nextId \in Nat
  PROVE  Newer(ix, jx) /\ Keeps(ix, jx)
BY DEF Same, Newer, Keeps, Holds

LEMMA SameTwice ==
  ASSUME NEW ix, NEW jx, NEW kx, Same(ix, jx), Same(jx, kx)
  PROVE  Same(ix, kx)
BY DEF Same

LEMMA KeepsTwice ==
  ASSUME NEW ix, NEW jx, NEW kx, Keeps(ix, jx), Keeps(jx, kx)
  PROVE  Keeps(ix, kx)
BY DEF Keeps, Holds

LEMMA NewerTwice ==
  ASSUME NEW ix, NEW jx, NEW kx, Newer(ix, jx), Newer(jx, kx),
         ix.nextId \in Nat, jx.nextId \in Nat, kx.nextId \in Nat,
         DOMAIN kx.nodes \subseteq Nat
  PROVE  Newer(ix, kx)
<1>1. Keeps(ix, kx)
  BY KeepsTwice DEF Newer
<1>2. ix.nextId <= kx.nextId
  BY DEF Newer
<1>3. ASSUME NEW i \in DOMAIN kx.nodes \ DOMAIN ix.nodes
      PROVE  ix.nextId <= i
  <2>1. CASE i \in DOMAIN jx.nodes
    BY <2>1 DEF Newer
  <2>2. CASE i \notin DOMAIN jx.nodes
    <3>1. jx.nextId <= i /\ i \in Nat
      BY <2>2 DEF Newer
    <3>2. ix.nextId <= jx.nextId
      BY DEF Newer
    <3>3. QED
      BY <3>1, <3>2
  <2>3. QED
    BY <2>1, <2>2
<1>4. QED
  BY <1>1, <1>2, <1>3 DEF Newer

(* What an index holds, the ones that keep it hold.                        *)
LEMMA HeldIsKept ==
  ASSUME NEW ix, NEW jx, Keeps(ix, jx)
  PROVE  /\ \A id, v : Holds(ix, id, v) => Holds(jx, id, v)
         /\ \A P : HoldsAll(ix, P) => HoldsAll(jx, P)
BY DEF Keeps, Holds, HoldsAll

(* A search returns only what is shown.                                    *)
LEMMA FoundIsShown ==
  ASSUME NEW ix, NEW V, Formed(ix), Shown(ix, V)
  PROVE  /\ \A i \in Findable(ix) : i \in DOMAIN ix.nodes /\ ix.vectors[i] \in V
         /\ Contents(ix) \subseteq V
<1>1. ASSUME NEW i \in Findable(ix)
      PROVE  i \in DOMAIN ix.nodes /\ ix.vectors[i] \in V /\ Row(ix, i) = ix.vectors[i]
  <2>1. i \in Live(ix) /\ (i = ix.entryPoint \/ ix.nodes[i].links = "full")
    BY DEF Findable
  <2>2. i \in DOMAIN ix.nodes
    BY <2>1 DEF Live
  <2>3. ix.vectors[i] \in V
    BY <2>1, <2>2 DEF Shown
  <2>4. i \in DOMAIN ix.vectors
    BY <2>2 DEF Formed
  <2>5. QED
    BY <2>2, <2>3, <2>4 DEF Row
<1>2. QED
  BY <1>1 DEF Contents

(* An enumeration goes on with something new.                              *)
LEMMA NextInOrder ==
  ASSUME NEW ix, NEW jx, NEW n \in Nat, InOrder(ix, n), NEW id, id \notin DOMAIN ix.nodes,
         jx.order = Append(ix.order, id), DOMAIN jx.nodes = DOMAIN ix.nodes \cup {id}
  PROVE  InOrder(jx, n + 1)
<1> DEFINE s == ix.order
           a == jx.order
           D == DOMAIN ix.nodes
           E == DOMAIN jx.nodes
<1>1. /\ s \in [1..n -> D]
      /\ \A j, k \in 1..n : s[j] = s[k] => j = k
      /\ \A i \in D : \E k \in 1..n : s[k] = i
  BY DEF InOrder
<1>2. E = D \cup {id} /\ id \notin D /\ a = Append(s, id)
  OBVIOUS
<1> HIDE DEF s, a, D, E
<1>3. s \in Seq(E) /\ Len(s) = n /\ id \in E
  BY <1>1, <1>2
<1>4. a \in Seq(E) /\ Len(a) = n + 1 /\ a[n + 1] = id /\ \A k \in 1..n : a[k] = s[k]
  BY <1>2, <1>3
<1>5. \A k \in 1..(n + 1) : k = n + 1 \/ k \in 1..n
  OBVIOUS
<1>6. \A k \in 1..n : a[k] = s[k] /\ a[k] # id /\ k \in 1..(n + 1)
  BY <1>1, <1>2, <1>4
<1>7. a \in [1..(n + 1) -> E]
  BY <1>4
<1>8. ASSUME NEW j \in 1..(n + 1), NEW k \in 1..(n + 1), a[j] = a[k]
      PROVE  j = k
  <2>1. CASE j \in 1..n /\ k \in 1..n
    BY <2>1, <1>1, <1>6, <1>8
  <2>2. CASE j = n + 1 \/ k = n + 1
    BY <2>2, <1>4, <1>5, <1>6, <1>8, Zenon
  <2>3. QED
    BY <2>1, <2>2, <1>5
<1>9. ASSUME NEW i \in E
      PROVE  \E k \in 1..(n + 1) : a[k] = i
  <2>1. CASE i = id
    <3>1. n + 1 \in 1..(n + 1)
      OBVIOUS
    <3>2. QED
      BY <2>1, <3>1, <1>4
  <2>2. CASE i # id
    <3>1. PICK k \in 1..n : s[k] = i
      BY <2>2, <1>1, <1>2
    <3>2. QED
      BY <3>1, <1>6
  <2>3. QED
    BY <2>1, <2>2
<1>10. QED
  BY <1>7, <1>8, <1>9 DEF InOrder, a, E

(* A new row and node (core/index.py:187-224, core/database.py:82-100)      *)
(* disturb no other, and are not found unless they are the first.          *)
LEMMA AddNodeKeeps ==
  ASSUME NEW ix, Formed(ix), NEW id \in Nat, id \notin DOMAIN ix.nodes, NEW v, NEW level \in Nat
  PROVE  LET r == AddNode(ix, id, v, level) IN
         /\ Formed(r) /\ Keeps(ix, r) /\ Holds(r, id, v)
         /\ DOMAIN r.nodes = DOMAIN ix.nodes \cup {id}
         /\ r.entryPoint = IF ix.entryPoint = None THEN id ELSE ix.entryPoint
         /\ ix.nextId <= id => Newer(ix, r)
         /\ \A V : Shown(ix, V) /\ (ix.entryPoint = None => v \in V) => Shown(r, V)
<1> DEFINE r == AddNode(ix, id, v, level)
           n == ix.nextId
           m == r.nextId
<1>1. /\ IsRecord(r)
      /\ m = IF id >= n THEN id + 1 ELSE n
      /\ r.vectors = [i \in 0..(m - 1) |-> r.vectors[i]]
      /\ \A i \in 0..(m - 1) : r.vectors[i] = IF i = id THEN v ELSE Row(ix, i)
      /\ r.nodes = [i \in DOMAIN ix.nodes \cup {id} |-> r.nodes[i]]
      /\ r.nodes[id] = Bare(level) /\ \A i \in DOMAIN ix.nodes : r.nodes[i] = ix.nodes[i]
      /\ r.order = Append(ix.order, id)
      /\ r.entryPoint = IF ix.entryPoint = None THEN id ELSE ix.entryPoint
  <2> DEFINE size  == IF id >= n THEN id + 1 ELSE n
             rows  == [i \in 0..(size - 1) |-> IF i = id THEN v ELSE Row(ix, i)]
             table == [i \in DOMAIN ix.nodes \cup {id} |->
                         IF i = id THEN Bare(level) ELSE ix.nodes[i]]
             added == [ix EXCEPT !.vectors = rows, !.nodes = table,
                         !.order = IF id \in DOMAIN ix.nodes THEN @ ELSE Append(@, id),
                         !.nextId = size]
  <2>1. r = IF ix.entryPoint = None THEN Enter(added, id, level) ELSE added
    BY DEF AddNode, Bare
  <2>2. IsRecord(ix)
    BY DEF Formed
  <2>3. /\ DOMAIN rows = 0..(size - 1)
        /\ \A i \in 0..(size - 1) : rows[i] = IF i = id THEN v ELSE Row(ix, i)
        /\ rows = [i \in 0..(size - 1) |-> rows[i]]
        /\ table = [i \in DOMAIN ix.nodes \cup {id} |-> table[i]]
        /\ table[id] = Bare(level) /\ \A i \in DOMAIN ix.nodes : table[i] = ix.nodes[i]
    OBVIOUS
  <2> HIDE DEF r, rows, table
  <2>4. /\ IsRecord(added) /\ added.nextId = size /\ added.vectors = rows
        /\ added.nodes = table /\ added.entryPoint = ix.entryPoint
        /\ added.order = Append(ix.order, id)
    BY <2>2 DEF IsRecord, Fields
  <2> HIDE DEF added
  <2>5. /\ IsRecord(r) /\ r.nextId = size /\ r.vectors = rows
        /\ r.nodes = table /\ r.order = Append(ix.order, id)
        /\ r.entryPoint = IF ix.entryPoint = None THEN id ELSE ix.entryPoint
    <3>1. CASE ix.entryPoint = None
      BY <3>1, <2>1, <2>4, EnterFields
    <3>2. CASE ix.entryPoint # None
      BY <3>2, <2>1, <2>4
    <3>3. QED
      BY <3>1, <3>2
  <2>6. QED
    BY <2>3, <2>5
<1>2. n \in Nat /\ DOMAIN ix.nodes \subseteq 0..(n - 1) /\ DOMAIN ix.vectors = 0..(n - 1)
      /\ ix.nodes \in [DOMAIN ix.nodes -> AnyNode] /\ ix.entryPoint \in DOMAIN ix.nodes \cup {None}
  BY DEF Formed
<1>3. PICK c \in Nat : InOrder(ix, c)
  BY DEF Formed
<1> HIDE DEF r, n, m
<1>4. m \in Nat /\ n <= m /\ id < m /\ 0..(n - 1) \subseteq 0..(m - 1) /\ id \in 0..(m - 1)
  BY <1>1, <1>2
<1>5. DOMAIN r.nodes = DOMAIN ix.nodes \cup {id} /\ DOMAIN r.vectors = 0..(m - 1)
  BY <1>1
<1>6. \A i \in DOMAIN ix.nodes : r.nodes[i] = ix.nodes[i] /\ i # id
  BY <1>1
<1>7. r.nodes[id] = Bare(level) /\ Bare(level) \in AnyNode /\ Bare(level).links = "none"
  BY <1>1 DEF Bare, AnyNode
<1>8. \A i \in DOMAIN ix.nodes : r.vectors[i] = ix.vectors[i] /\ i \in 0..(n - 1)
  BY <1>1, <1>2, <1>4, <1>6 DEF Row
<1>9. r.vectors[id] = v
  BY <1>1, <1>4
<1>10. Formed(r)
  <2>1. r.nodes \in [DOMAIN r.nodes -> AnyNode]
    <3>1. \A i \in DOMAIN r.nodes : r.nodes[i] \in AnyNode
      BY <1>2, <1>5, <1>6, <1>7
    <3>2. QED
      BY <3>1, <1>1, <1>5
  <2>2. r.vectors = [i \in 0..(m - 1) |-> r.vectors[i]]
    BY <1>1
  <2>3. c + 1 \in Nat /\ InOrder(r, c + 1)
    <3>1. r.order = Append(ix.order, id)
      BY <1>1
    <3>2. InOrder(r, c + 1)
      BY <3>1, <1>3, <1>5, NextInOrder, Zenon
    <3>3. QED
      BY <3>2
  <2>4. DOMAIN r.nodes \subseteq 0..(m - 1)
    BY <1>2, <1>4, <1>5
  <2>5. r.entryPoint \in DOMAIN r.nodes \cup {None}
    BY <1>1, <1>2, <1>5
  <2>6. QED
    BY <1>1, <1>4, <2>1, <2>2, <2>3, <2>4, <2>5 DEF Formed, m
<1>11. Keeps(ix, r) /\ Holds(r, id, v)
  BY <1>5, <1>8, <1>9 DEF Keeps, Holds
<1>12. n <= id => Newer(ix, r)
  BY <1>4, <1>5, <1>11 DEF Newer, n, m
<1>13. ASSUME NEW V, Shown(ix, V), ix.entryPoint = None => v \in V
       PROVE  Shown(r, V)
  <2>1. ASSUME NEW i \in DOMAIN r.nodes, i = r.entryPoint \/ r.nodes[i].links # "none"
        PROVE  r.vectors[i] \in V
    <3>1. CASE i = id
      <4>1. r.nodes[i].links = "none"
        BY <3>1, <1>7
      <4>2. ix.entryPoint = None
        BY <3>1, <4>1, <2>1, <1>1, <1>2
      <4>3. QED
        BY <3>1, <4>2, <1>9, <1>13
    <3>2. CASE i # id
      <4>1. i \in DOMAIN ix.nodes
        BY <3>2, <1>5
      <4>2. i = ix.entryPoint \/ ix.nodes[i].links # "none"
        BY <4>1, <3>2, <2>1, <1>1, <1>6
      <4>3. QED
        BY <4>1, <4>2, <1>8, <1>13 DEF Shown
    <3>3. QED
      BY <3>1, <3>2
  <2>2. QED
    BY <2>1 DEF Shown
<1>14. QED
  BY <1>1, <1>5, <1>10, <1>11, <1>12, <1>13 DEF r, n

(* A change of links or of the entry point, after which the index shows    *)
(* nothing but V.                                                          *)
Steady(ix, jx, V) == Formed(jx) /\ Same(ix, jx) /\ Shown(jx, V)

(* Steady changes in a row are one.                                        *)
LEMMA SteadyTwice ==
  ASSUME NEW ix, NEW jx, NEW kx, NEW V, Steady(ix, jx, V), Steady(jx, kx, V)
  PROVE  Steady(ix, kx, V)
BY SameTwice DEF Steady

(* Lists are set, of nodes whose vectors are in V.                         *)
LEMMA NewLinks ==
  ASSUME NEW ix, Formed(ix), NEW V, Shown(ix, V),
         NEW ids, \A i \in ids : i \in DOMAIN ix.nodes => ix.vectors[i] \in V,
         NEW links \in {"none", "out", "alone", "full"}
  PROVE  Steady(ix, Relinked(ix, ids, links), V)
<1> DEFINE r == Relinked(ix, ids, links)
           D == DOMAIN ix.nodes
<1>1. IsRecord(ix) /\ ix.nodes \in [D -> AnyNode]
  BY DEF Formed
<1>2. /\ IsRecord(r)
      /\ r.vectors = ix.vectors /\ r.order = ix.order /\ r.nextId = ix.nextId
      /\ r.entryPoint = ix.entryPoint
      /\ r.nodes = [i \in D |->
           IF i \in ids THEN [ix.nodes[i] EXCEPT !.links = links] ELSE ix.nodes[i]]
  BY <1>1, RelinkedFields
<1> HIDE DEF r
<1>3. \A i \in D : [ix.nodes[i] EXCEPT !.links = links] \in AnyNode
  BY <1>1 DEF AnyNode
<1>4. r.nodes \in [D -> AnyNode] /\ DOMAIN r.nodes = D
  BY <1>1, <1>2, <1>3
<1>5. \A i \in D : i \notin ids => r.nodes[i] = ix.nodes[i]
  BY <1>2
<1>6. Formed(r)
  <2>1. PICK c \in Nat : InOrder(ix, c)
    BY DEF Formed
  <2>2. InOrder(r, c)
    BY <2>1, <1>2, <1>4 DEF InOrder
  <2>3. QED
    BY <2>2, <1>2, <1>4 DEF Formed
<1>7. Shown(r, V)
  BY <1>2, <1>4, <1>5 DEF Shown
<1>8. QED
  BY <1>2, <1>4, <1>6, <1>7 DEF Steady, Same, r

(* A node whose vector is in V becomes the entry point, or none.           *)
LEMMA NewEntry ==
  ASSUME NEW ix, Formed(ix), NEW V, Shown(ix, V), NEW e \in DOMAIN ix.nodes \cup {None}, NEW l,
         e \in DOMAIN ix.nodes => ix.vectors[e] \in V
  PROVE  Steady(ix, Enter(ix, e, l), V)
<1> DEFINE r == Enter(ix, e, l)
<1>1. /\ IsRecord(r)
      /\ r.vectors = ix.vectors /\ r.nodes = ix.nodes /\ r.order = ix.order
      /\ r.entryPoint = e /\ r.nextId = ix.nextId
  BY EnterFields DEF Formed
<1> HIDE DEF r
<1>2. Formed(r)
  <2>1. PICK c \in Nat : InOrder(ix, c)
    BY DEF Formed
  <2>2. InOrder(r, c)
    BY <2>1, <1>1 DEF InOrder
  <2>3. QED
    BY <2>2, <1>1 DEF Formed
<1>3. Shown(r, V)
  BY <1>1 DEF Shown
<1>4. QED
  BY <1>1, <1>2, <1>3 DEF Steady, Same, r

(* No change is a steady one.                                              *)
LEMMA Unchanged ==
  ASSUME NEW ix, Formed(ix), NEW V, Shown(ix, V)
  PROVE  Steady(ix, ix, V)
BY DEF Steady, Same

(* link() shows the node and what a search finds.                          *)
LEMMA LinkOutKeeps ==
  ASSUME NEW ix, Formed(ix), NEW V, Shown(ix, V), NEW id, NEW chosen,
         id \in DOMAIN ix.nodes => ix.vectors[id] \in V
  PROVE  Steady(ix, LinkOut(ix, id, chosen), V)
<1> DEFINE links == IF chosen = {} THEN "alone" ELSE "out"
<1>1. links \in {"none", "out", "alone", "full"}
  OBVIOUS
<1>2. LinkOut(ix, id, chosen) = IF ix.nodes[id].links # "none" THEN ix ELSE Relinked(ix, {id}, links)
  BY DEF LinkOut
<1> HIDE DEF links
<1>3. Steady(ix, Relinked(ix, {id}, links), V)
  <2>1. \A i \in {id} : i \in DOMAIN ix.nodes => ix.vectors[i] \in V
    OBVIOUS
  <2>2. QED
    BY <2>1, <1>1, NewLinks
<1>4. Steady(ix, ix, V)
  BY Unchanged
<1>5. QED
  BY <1>2, <1>3, <1>4

(* _connect: the chosen nodes are those that were found.                   *)
LEMMA LinkBackKeeps ==
  ASSUME NEW ix, Formed(ix), NEW V, Shown(ix, V), NEW id, NEW chosen,
         id \in DOMAIN ix.nodes => ix.vectors[id] \in V,
         \A i \in chosen : i \in DOMAIN ix.nodes => ix.vectors[i] \in V
  PROVE  Steady(ix, LinkBack(ix, id, chosen), V)
<1>1. LinkBack(ix, id, chosen) = IF chosen = {} THEN ix ELSE Relinked(ix, chosen \cup {id}, "full")
  BY DEF LinkBack
<1>2. Steady(ix, Relinked(ix, chosen \cup {id}, "full"), V)
  <2> DEFINE ids == chosen \cup {id}
  <2>1. \A i \in ids : i \in DOMAIN ix.nodes => ix.vectors[i] \in V
    OBVIOUS
  <2> HIDE DEF ids
  <2>2. Steady(ix, Relinked(ix, ids, "full"), V)
    BY <2>1, NewLinks
  <2>3. QED
    BY <2>2 DEF ids
<1>3. Steady(ix, ix, V)
  BY Unchanged
<1>4. QED
  BY <1>1, <1>2, <1>3

(* The end of link().                                                      *)
LEMMA PromoteKeeps ==
  ASSUME NEW ix, Formed(ix), NEW V, Shown(ix, V), NEW id \in DOMAIN ix.nodes, NEW level,
         ix.vectors[id] \in V
  PROVE  Steady(ix, Promote(ix, id, level), V)
<1>1. Promote(ix, id, level) = IF level > ix.maxLayer THEN Enter(ix, id, level) ELSE ix
  BY DEF Promote
<1>2. Steady(ix, Enter(ix, id, level), V)
  BY NewEntry
<1>3. Steady(ix, ix, V)
  BY Unchanged
<1>4. QED
  BY <1>1, <1>2, <1>3

(* All of link() (core/index.py:226-288).                                  *)
LEMMA LinkKeeps ==
  ASSUME NEW ix, Formed(ix), NEW V, Shown(ix, V), NEW id \in DOMAIN ix.nodes, ix.vectors[id] \in V
  PROVE  Steady(ix, Link(ix, id), V)
<1> DEFINE chosen == Chosen(ix, id)
           out    == LinkOut(ix, id, chosen)
           back   == LinkBack(out, id, chosen)
           level  == ix.nodes[id].level
<1>1. \A i \in chosen : i \in DOMAIN ix.nodes /\ ix.vectors[i] \in V
  BY FoundIsShown DEF Chosen
<1>2. Link(ix, id) = IF id = ix.entryPoint THEN ix ELSE Promote(back, id, level)
  BY DEF Link
<1> HIDE DEF chosen, level
<1>3. Steady(ix, out, V)
  BY LinkOutKeeps
<1> HIDE DEF out
<1>4. Formed(out) /\ Shown(out, V) /\ DOMAIN out.nodes = DOMAIN ix.nodes /\ out.vectors = ix.vectors
  BY <1>3 DEF Steady, Same
<1>5. Steady(out, back, V)
  BY <1>1, <1>4, LinkBackKeeps
<1> HIDE DEF back
<1>6. Formed(back) /\ Shown(back, V) /\ DOMAIN back.nodes = DOMAIN ix.nodes /\ back.vectors = ix.vectors
  BY <1>4, <1>5 DEF Steady, Same
<1>7. Steady(back, Promote(back, id, level), V)
  BY <1>6, PromoteKeeps
<1>8. Steady(ix, Promote(back, id, level), V)
  BY <1>3, <1>5, <1>7, SteadyTwice
<1>9. Steady(ix, ix, V)
  BY Unchanged
<1>10. QED
  BY <1>2, <1>8, <1>9

(* delete() changes a tombstone, and the entry point to a live node.       *)
LEMMA TombstoneKeeps ==
  ASSUME NEW ix, Formed(ix), None \notin Nat, NEW id \in DOMAIN ix.nodes
  PROVE  LET r == Tombstone(ix, id) IN
         \A V : Shown(ix, V)
                /\ (r.entryPoint # ix.entryPoint /\ r.entryPoint # None => Row(r, r.entryPoint) \in V)
                => Steady(ix, r, V)
<1> DEFINE r == Tombstone(ix, id)
           b == Buried(ix, id)
           D == DOMAIN ix.nodes
           e == Head(LiveIds(b))
<1>1. IsRecord(ix) /\ ix.nodes \in [D -> AnyNode]
  BY DEF Formed
<1>2. /\ IsRecord(b)
      /\ b.vectors = ix.vectors /\ b.order = ix.order /\ b.nextId = ix.nextId
      /\ b.entryPoint = ix.entryPoint
      /\ b.nodes = [ix.nodes EXCEPT ![id].tombstone = TRUE]
  BY <1>1, BuriedFields
<1>3. r = IF id = ix.entryPoint
          THEN IF Live(b) = {} THEN Enter(b, None, -1) ELSE Enter(b, e, b.nodes[e].level)
          ELSE b
  BY DEF Tombstone, Reassigned
<1> HIDE DEF b, r
<1>4. /\ DOMAIN b.nodes = D /\ b.nodes \in [D -> AnyNode]
      /\ \A i \in D : b.nodes[i].links = ix.nodes[i].links
  <2>1. [ix.nodes[id] EXCEPT !.tombstone = TRUE] \in AnyNode
    BY <1>1 DEF AnyNode
  <2>2. [ix.nodes[id] EXCEPT !.tombstone = TRUE].links = ix.nodes[id].links
    BY <1>1 DEF AnyNode
  <2>3. QED
    BY <1>1, <1>2, <2>1, <2>2
<1>5. PICK c \in Nat : InOrder(ix, c)
  BY DEF Formed
<1>6. InOrder(b, c)
  BY <1>2, <1>4, <1>5 DEF InOrder
<1>7. Formed(b)
  BY <1>2, <1>4, <1>6 DEF Formed
<1>8. Live(b) # {} => e \in Live(b) /\ e \in D
  <2>1. LiveIds(b) \in Seq(Live(b)) /\ ToSet(LiveIds(b)) = Live(b)
    BY <1>6, LiveIdsInOrder
  <2>2. Live(b) # {} => LiveIds(b) # << >>
    BY <2>1 DEF ToSet
  <2>3. Live(b) # {} => e \in Live(b)
    BY <2>1, <2>2
  <2>4. QED
    BY <2>3, <1>4 DEF Live
<1> HIDE DEF e
<1>9. SUFFICES ASSUME NEW V, Shown(ix, V),
                      r.entryPoint # ix.entryPoint /\ r.entryPoint # None
                        => Row(r, r.entryPoint) \in V
               PROVE  Steady(ix, r, V)
  BY DEF r
<1>10. Shown(b, V)
  BY <1>2, <1>4, <1>9 DEF Shown
<1>11. Steady(ix, b, V)
  BY <1>2, <1>4, <1>7, <1>10 DEF Steady, Same
<1>12. ASSUME NEW f \in D \cup {None}, NEW l, r = Enter(b, f, l)
       PROVE  Steady(ix, r, V)
  <2>1. r.entryPoint = f /\ r.vectors = ix.vectors
    BY <1>2, <1>12, EnterFields
  <2>2. ASSUME f \in D
        PROVE  ix.vectors[f] \in V
    <3>1. f # None /\ f # ix.entryPoint => ix.vectors[f] \in V
      <4>1. Row(r, f) = ix.vectors[f]
        BY <2>1, <2>2 DEF Row, Formed
      <4>2. QED
        BY <4>1, <2>1, <1>9
    <3>2. f = ix.entryPoint => ix.vectors[f] \in V
      BY <2>2, <1>9 DEF Shown
    <3>3. f # None
      BY <2>2 DEF Formed
    <3>4. QED
      BY <3>1, <3>2, <3>3
  <2>3. Steady(b, Enter(b, f, l), V)
    BY <1>2, <1>4, <1>7, <1>10, <2>2, NewEntry
  <2>4. QED
    BY <2>3, <1>11, <1>12, SteadyTwice
<1>13. QED
  <2>1. CASE id # ix.entryPoint
    BY <2>1, <1>3, <1>11
  <2>2. CASE id = ix.entryPoint /\ Live(b) = {}
    BY <2>2, <1>3, <1>12
  <2>3. CASE id = ix.entryPoint /\ Live(b) # {}
    BY <2>3, <1>3, <1>8, <1>12
  <2>4. QED
    BY <2>1, <2>2, <2>3

(* A new index.                                                            *)
LEMMA EmptyIsFormed ==
  Formed(EmptyIndex) /\ \A V : Shown(EmptyIndex, V)
<1>1. /\ EmptyIndex.nextId = 0 /\ EmptyIndex.entryPoint = None /\ EmptyIndex.order = << >>
      /\ EmptyIndex.vectors = [i \in {} |-> Zero] /\ EmptyIndex.nodes = [i \in {} |-> Zero]
      /\ IsRecord(EmptyIndex)
  BY DEF EmptyIndex, IsRecord, Fields
<1>2. DOMAIN EmptyIndex.nodes = {} /\ EmptyIndex.nodes \in [{} -> AnyNode]
  BY <1>1
<1>3. 0..(0 - 1) = {}
  OBVIOUS
<1>4. EmptyIndex.vectors = [i \in 0..(EmptyIndex.nextId - 1) |-> EmptyIndex.vectors[i]]
  BY <1>1, <1>3
<1>5. InOrder(EmptyIndex, 0)
  BY <1>1, <1>2 DEF InOrder
<1>6. Formed(EmptyIndex)
  BY <1>1, <1>2, <1>4, <1>5 DEF Formed
<1>7. \A V : Shown(EmptyIndex, V)
  BY <1>2 DEF Shown
<1>8. QED
  BY <1>6, <1>7
-----------------------------------------------------------------------------
(* Tombstones                                                              *)

(* The tombstoned nodes.                                                   *)
Dead(ix) == {i \in DOMAIN ix.nodes : ix.nodes[i].tombstone}

(* The ids and vectors of an index.                                        *)
Pairs(ix) == {<<i, ix.vectors[i]>> : i \in DOMAIN ix.nodes}

(* The vectors of an index.                                                *)
Vecs(ix) == {ix.vectors[i] : i \in DOMAIN ix.nodes}

LEMMA AllShown ==
  ASSUME NEW ix
  PROVE  Shown(ix, Vecs(ix))
BY DEF Shown, Vecs

LEMMA LiveNotDead ==
  ASSUME NEW ix, Formed(ix)
  PROVE  /\ Live(ix) = DOMAIN ix.nodes \ Dead(ix)
         /\ \A i \in DOMAIN ix.nodes : ix.nodes[i].tombstone \in BOOLEAN
         /\ Dead(ix) \subseteq DOMAIN ix.nodes
BY DEF Formed, Live, Dead, AnyNode

LEMMA AddNodeLinks ==
  ASSUME NEW ix, Formed(ix), NEW id \in Nat, id \notin DOMAIN ix.nodes, NEW v, NEW level \in Nat
  PROVE  LET r == AddNode(ix, id, v, level) IN
         /\ \A i \in DOMAIN ix.nodes : r.nodes[i] = ix.nodes[i]
         /\ r.nodes[id].links = "none" /\ ~ r.nodes[id].tombstone /\ r.nodes[id].level = level
         /\ Dead(r) = Dead(ix)
         /\ Pairs(r) = Pairs(ix) \cup {<<id, v>>}
<1> DEFINE r     == AddNode(ix, id, v, level)
           fresh == [tombstone |-> FALSE, links |-> "none", level |-> level]
<1>1. r.nodes = [i \in DOMAIN ix.nodes \cup {id} |-> IF i = id THEN fresh ELSE ix.nodes[i]]
  BY EnterFields DEF AddNode, Formed, IsRecord, Fields, Enter
<1>2. Keeps(ix, r) /\ Holds(r, id, v) /\ DOMAIN r.nodes = DOMAIN ix.nodes \cup {id}
  BY AddNodeKeeps
<1> HIDE DEF r
<1>3. /\ \A i \in DOMAIN ix.nodes : r.nodes[i] = ix.nodes[i]
      /\ r.nodes[id] = fresh
  BY <1>1
<1>4. Dead(r) = Dead(ix)
  BY <1>2, <1>3 DEF Dead
<1>5. Pairs(r) = Pairs(ix) \cup {<<id, v>>}
  BY <1>2 DEF Pairs, Keeps, Holds
<1>6. QED
  BY <1>3, <1>4, <1>5 DEF r

(* Edges bury nobody.                                                      *)
Tied(ix, jx) ==
  /\ Formed(jx) /\ Same(ix, jx) /\ Dead(jx) = Dead(ix)

LEMMA RelinkedLinks ==
  ASSUME NEW ix, Formed(ix), NEW ids, NEW links \in {"none", "out", "alone", "full"}
  PROVE  LET r == Relinked(ix, ids, links) IN
         /\ Tied(ix, r) /\ r.entryPoint = ix.entryPoint /\ r.maxLayer = ix.maxLayer
         /\ \A i \in DOMAIN ix.nodes :
              r.nodes[i].links = IF i \in ids THEN links ELSE ix.nodes[i].links
<1> DEFINE r == Relinked(ix, ids, links)
<1>1. Shown(ix, Vecs(ix)) /\ \A i \in ids : i \in DOMAIN ix.nodes => ix.vectors[i] \in Vecs(ix)
  BY AllShown DEF Vecs
<1>2. Steady(ix, r, Vecs(ix))
  BY <1>1, NewLinks
<1>3. IsRecord(ix) /\ \A i \in DOMAIN ix.nodes : ix.nodes[i] \in AnyNode
  BY DEF Formed
<1>4. /\ r.nodes = [i \in DOMAIN ix.nodes |->
              IF i \in ids THEN [ix.nodes[i] EXCEPT !.links = links] ELSE ix.nodes[i]]
      /\ r.entryPoint = ix.entryPoint /\ r.maxLayer = ix.maxLayer
  BY <1>3, RelinkedFields
<1> HIDE DEF r
<1>5. \A i \in DOMAIN ix.nodes :
         /\ r.nodes[i].links = IF i \in ids THEN links ELSE ix.nodes[i].links
         /\ r.nodes[i].tombstone = ix.nodes[i].tombstone
  BY <1>3, <1>4 DEF AnyNode
<1>6. Dead(r) = Dead(ix)
  BY <1>4, <1>5 DEF Dead
<1>7. QED
  BY <1>2, <1>4, <1>5, <1>6 DEF r, Tied, Steady

LEMMA EnterLinks ==
  ASSUME NEW ix, Formed(ix), NEW e \in DOMAIN ix.nodes \cup {None}, NEW l
  PROVE  LET r == Enter(ix, e, l) IN
         Tied(ix, r) /\ r.entryPoint = e /\ r.nodes = ix.nodes
<1>1. Shown(ix, Vecs(ix)) /\ (e \in DOMAIN ix.nodes => ix.vectors[e] \in Vecs(ix))
  BY AllShown DEF Vecs
<1>2. Steady(ix, Enter(ix, e, l), Vecs(ix))
  BY <1>1, NewEntry
<1>3. Enter(ix, e, l).nodes = ix.nodes /\ Enter(ix, e, l).entryPoint = e
  BY EnterFields DEF Formed
<1>4. QED
  BY <1>2, <1>3 DEF Tied, Steady, Dead

LEMMA TiedTwice ==
  ASSUME NEW ix, NEW jx, NEW kx, Tied(ix, jx), Tied(jx, kx)
  PROVE  Tied(ix, kx)
BY SameTwice DEF Tied

LEMMA TiedSelf ==
  ASSUME NEW ix, Formed(ix)
  PROVE  Tied(ix, ix)
BY DEF Tied, Same

LEMMA TiedPairs ==
  ASSUME NEW ix, NEW jx, Tied(ix, jx)
  PROVE  Pairs(jx) = Pairs(ix)
BY DEF Tied, Same, Pairs

(* link(), in its parts and as a whole.                                    *)
LEMMA PromoteLinks ==
  ASSUME NEW ix, Formed(ix), NEW id \in DOMAIN ix.nodes, NEW level
  PROVE  LET r == Promote(ix, id, level) IN
         Tied(ix, r) /\ r.entryPoint \in {ix.entryPoint, id} /\ r.nodes = ix.nodes
BY EnterLinks, TiedSelf DEF Promote

LEMMA LinkOutLinks ==
  ASSUME NEW ix, Formed(ix), NEW id \in DOMAIN ix.nodes, NEW chosen
  PROVE  LET r == LinkOut(ix, id, chosen) IN
         /\ Tied(ix, r) /\ r.entryPoint = ix.entryPoint
         /\ \A i \in DOMAIN ix.nodes :
              r.nodes[i].links = IF i = id /\ ix.nodes[id].links = "none"
                                 THEN (IF chosen = {} THEN "alone" ELSE "out") ELSE ix.nodes[i].links
<1> DEFINE links == IF chosen = {} THEN "alone" ELSE "out"
<1>1. CASE ix.nodes[id].links # "none"
  BY <1>1, TiedSelf DEF LinkOut
<1>2. CASE ix.nodes[id].links = "none"
  <2>1. LinkOut(ix, id, chosen) = Relinked(ix, {id}, links)
    BY <1>2 DEF LinkOut
  <2>2. links \in {"none", "out", "alone", "full"}
    OBVIOUS
  <2> HIDE DEF links
  <2>3. QED
    BY <2>1, <2>2, <1>2, RelinkedLinks DEF links
<1>3. QED
  BY <1>1, <1>2

LEMMA LinkBackLinks ==
  ASSUME NEW ix, Formed(ix), NEW id, NEW chosen
  PROVE  LET r == LinkBack(ix, id, chosen) IN
         /\ Tied(ix, r) /\ r.entryPoint = ix.entryPoint
         /\ \A i \in DOMAIN ix.nodes :
              r.nodes[i].links = IF chosen # {} /\ i \in chosen \cup {id}
                                 THEN "full" ELSE ix.nodes[i].links
<1>1. CASE chosen = {}
  BY <1>1, TiedSelf DEF LinkBack
<1>2. CASE chosen # {}
  <2>1. LinkBack(ix, id, chosen) = Relinked(ix, chosen \cup {id}, "full")
    BY <1>2 DEF LinkBack
  <2>2. QED
    BY <2>1, <1>2, RelinkedLinks
<1>3. QED
  BY <1>1, <1>2

LEMMA LinkLinks ==
  ASSUME NEW ix, Formed(ix), NEW id \in DOMAIN ix.nodes, id # ix.entryPoint
  PROVE  LET r == Link(ix, id)
             chosen == Chosen(ix, id) IN
         /\ Tied(ix, r) /\ r.entryPoint \in {ix.entryPoint, id}
         /\ \A i \in DOMAIN ix.nodes :
              r.nodes[i].links =
                IF chosen # {} /\ i \in chosen \cup {id} THEN "full"
                ELSE IF i = id /\ ix.nodes[id].links = "none" THEN "alone"
                ELSE ix.nodes[i].links
<1> DEFINE chosen == Chosen(ix, id)
           a == LinkOut(ix, id, chosen)
           b == LinkBack(a, id, chosen)
           r == Promote(b, id, ix.nodes[id].level)
<1>1. Link(ix, id) = r
  BY DEF Link
<1> HIDE DEF chosen
<1>2. /\ Tied(ix, a) /\ a.entryPoint = ix.entryPoint
      /\ \A i \in DOMAIN ix.nodes :
           a.nodes[i].links = IF i = id /\ ix.nodes[id].links = "none"
                              THEN (IF chosen = {} THEN "alone" ELSE "out") ELSE ix.nodes[i].links
  BY LinkOutLinks
<1> HIDE DEF a
<1>3. Formed(a) /\ DOMAIN a.nodes = DOMAIN ix.nodes
  BY <1>2 DEF Tied, Same
<1>4. /\ Tied(a, b) /\ b.entryPoint = ix.entryPoint
      /\ \A i \in DOMAIN ix.nodes :
           b.nodes[i].links = IF chosen # {} /\ i \in chosen \cup {id}
                              THEN "full" ELSE a.nodes[i].links
  BY <1>2, <1>3, LinkBackLinks
<1> HIDE DEF b
<1>5. Formed(b) /\ id \in DOMAIN b.nodes
  BY <1>3, <1>4 DEF Tied, Same
<1>6. Tied(b, r) /\ r.entryPoint \in {ix.entryPoint, id} /\ r.nodes = b.nodes
  BY <1>4, <1>5, PromoteLinks
<1> HIDE DEF r
<1>7. Tied(ix, r)
  BY <1>2, <1>4, <1>6, TiedTwice
<1>8. \A i \in DOMAIN ix.nodes :
         r.nodes[i].links =
           IF chosen # {} /\ i \in chosen \cup {id} THEN "full"
           ELSE IF i = id /\ ix.nodes[id].links = "none" THEN "alone"
           ELSE ix.nodes[i].links
  BY <1>2, <1>4, <1>6
<1>9. QED
  BY <1>1, <1>6, <1>7, <1>8 DEF chosen

(* delete() buries one node, and takes the entry point from the rest if it *)
(* was that.                                                               *)
LEMMA TombstoneLinks ==
  ASSUME NEW ix, Formed(ix), None \notin Nat, NEW id \in DOMAIN ix.nodes
  PROVE  LET r == Tombstone(ix, id) IN
         /\ Formed(r) /\ Same(ix, r) /\ Dead(r) = Dead(ix) \cup {id}
         /\ \A i \in DOMAIN ix.nodes : r.nodes[i].links = ix.nodes[i].links
         /\ id # ix.entryPoint => r.entryPoint = ix.entryPoint
         /\ id = ix.entryPoint => r.entryPoint \in Live(r) \/ (r.entryPoint = None /\ Live(r) = {})
<1> DEFINE b == Buried(ix, id)
           e == IF Live(b) = {} THEN None ELSE Head(LiveIds(b))
           r == Tombstone(ix, id)
<1>1. /\ IsRecord(b) /\ b.entryPoint = ix.entryPoint /\ b.order = ix.order
      /\ b.nodes = [ix.nodes EXCEPT ![id].tombstone = TRUE]
      /\ IsRecord(ix)
  BY BuriedFields DEF Formed
<1>2. \A i \in DOMAIN ix.nodes : ix.nodes[i] \in AnyNode
  BY DEF Formed
<1> HIDE DEF b
<1>3. /\ DOMAIN b.nodes = DOMAIN ix.nodes
      /\ \A i \in DOMAIN ix.nodes : /\ b.nodes[i].links = ix.nodes[i].links
                                    /\ b.nodes[i].tombstone = (i = id \/ ix.nodes[i].tombstone)
  BY <1>1, <1>2 DEF AnyNode
<1>4. Dead(b) = Dead(ix) \cup {id} /\ Live(b) \subseteq DOMAIN ix.nodes
  BY <1>3 DEF Dead, Live
<1>5. Live(b) # {} => e \in Live(b)
  <2>1. PICK n \in Nat : InOrder(ix, n)
    BY DEF Formed
  <2>2. InOrder(b, n)
    BY <2>1, <1>1, <1>3 DEF InOrder
  <2>3. LiveIds(b) \in Seq(Live(b)) /\ ToSet(LiveIds(b)) = Live(b)
    BY <2>2, LiveIdsInOrder
  <2>4. Live(b) # {} => LiveIds(b) # << >>
    BY <2>3 DEF ToSet
  <2>5. QED
    BY <2>3, <2>4
<1>6. Formed(r) /\ Same(ix, r)
  <2> DEFINE V == Vecs(ix) \cup {Row(r, r.entryPoint)}
  <2>1. Shown(ix, V) /\ Row(r, r.entryPoint) \in V
    BY DEF Shown, Vecs
  <2> HIDE DEF V, r
  <2>2. Steady(ix, r, V)
    BY <2>1, TombstoneKeeps DEF r
  <2>3. QED
    BY <2>2 DEF Steady
<1>7. CASE id # ix.entryPoint
  <2>1. r = b
    BY <1>7 DEF Tombstone, b
  <2>2. QED
    BY <2>1, <1>1, <1>3, <1>4, <1>6, <1>7
<1>8. CASE id = ix.entryPoint
  <2>1. r = Reassigned(b)
    BY <1>8 DEF Tombstone, b
  <2>2. \E l : r = Enter(b, e, l)
    BY <2>1 DEF Reassigned
  <2>3. r.nodes = b.nodes /\ r.entryPoint = e
    BY <2>2, <1>1, EnterFields
  <2>4. Dead(r) = Dead(b) /\ Live(r) = Live(b)
    BY <2>3 DEF Dead, Live
  <2>5. Live(b) = {} => e = None
    OBVIOUS
  <2> HIDE DEF e, r
  <2>6. QED
    BY <2>3, <2>4, <2>5, <1>3, <1>4, <1>5, <1>6, <1>8 DEF r
<1>9. QED
  BY <1>7, <1>8
=============================================================================
