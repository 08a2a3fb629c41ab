--------------------------- MODULE HNSWGraphProofs ---------------------------
(***************************************************************************)
(* Proofs about HNSWGraph, for any number of threads, nodes, layers and    *)
(* deletes and for any distances.                                          *)
(*                                                                         *)
(* First what the operators of HNSWSearch return, for any graph and any    *)
(* number of candidates: sorting is a permutation, a selection is made of  *)
(* candidates and no longer than asked for, a search stays in every set of *)
(* nodes that the lists it reads do not lead out of.                       *)
(*                                                                         *)
(* Then, that no _connect drops an edge it has not weighed.  And: what a   *)
(* call holds are nodes of the graph and, while an insert is at work on a  *)
(* layer, of that layer; the lists stay proper; no lost race leaves a list *)
(* too long.  These three depend on each other, so they are parts of one   *)
(* inductive invariant, GraphInv.                                          *)
(***************************************************************************)
EXTENDS HNSWGraph, SequenceTheorems, FiniteSetTheorems, TLAPS

(***************************************************************************)
(* Induction without operators as parameters.  A predicate is given by the *)
(* set of the numbers that have it and a step of a recursion by a function,*)
(* so that the provers instantiate the lemmas.                             *)
(***************************************************************************)
(* A non-empty set of natural numbers has a least element.                 *)
LEMMA LeastNumber ==
  ASSUME NEW T \in SUBSET Nat, T # {}
  PROVE  \E m \in T : \A k \in T : m <= k
<1> DEFINE Less == {p \in Nat \X Nat : p[1] < p[2]}
<1>1. OpToRel(<, Nat) = Less
  BY Zenon DEF OpToRel
<1>2. IsWellFoundedOn(Less, Nat)
  BY <1>1, NatLessThanWellFounded
<1>3. \A k, m \in Nat : k < m => <<k, m>> \in Less
  OBVIOUS
<1> HIDE DEF Less
<1>4. PICK m \in T : \A k \in T : <<k, m>> \notin Less
  BY <1>2, WFMin, Zenon
<1>5. ASSUME NEW k \in T
      PROVE  m <= k
  <2>1. k \in Nat /\ m \in Nat
    OBVIOUS
  <2>2. ~ (k < m)
    BY <2>1, <1>3, <1>4, Zenon
  <2>3. QED
    BY <2>1, <2>2
<1>6. QED
  BY <1>5

(* Induction up to n: T holds of 0 and, with a number, of the next.        *)
LEMMA UpTo ==
  ASSUME NEW n \in Nat, NEW T,
         0 \in T,
         \A k \in 1..n : k - 1 \in T => k \in T
  PROVE  0..n \subseteq T
<1> SUFFICES ASSUME NEW x \in 0..n, x \notin T PROVE FALSE
  OBVIOUS
<1> DEFINE Outside == {k \in 0..n : k \notin T}
<1>1. Outside \in SUBSET Nat /\ Outside # {}
  OBVIOUS
<1>2. PICK m \in Outside : \A k \in Outside : m <= k
  <2> HIDE DEF Outside
  <2>1. QED
    BY <1>1, LeastNumber
<1>3. m \in 1..n /\ m - 1 \in 0..n
  OBVIOUS
<1>4. m - 1 \in T
  BY <1>2, <1>3
<1>5. QED
  BY <1>3, <1>4

(* Recursion up to n in a set S: what starts with c and goes on by step[k] *)
(* is a function, defined everywhere.                                      *)
Steps(n, S) == [1..n -> [S -> S]]
Follows(f, n, S, c, step) ==
  f \in [0..n -> S] /\ f[0] = c /\ \A k \in 1..n : f[k] = step[k][f[k - 1]]

(* Such a function exists: what TLA+'s f[k \in 0..n] == IF ... chooses.    *)
LEMMA Recursion ==
  ASSUME NEW n \in Nat, NEW S, NEW c \in S, NEW step \in Steps(n, S)
  PROVE  \E f : Follows(f, n, S, c, step)
<1> DEFINE T == {m \in 0..n : \E f : Follows(f, m, S, c, step)}
<1>1. 0 \in T
  <2>1. Follows([k \in 0..0 |-> c], 0, S, c, step)
    BY DEF Follows
  <2>2. QED
    BY <2>1
<1>2. ASSUME NEW k \in 1..n, k - 1 \in T
      PROVE  k \in T
  <2>1. PICK f : Follows(f, k - 1, S, c, step)
    BY <1>2
  <2> DEFINE g == [j \in 0..k |-> IF j = k THEN step[k][f[k - 1]] ELSE f[j]]
  <2>2. k - 1 \in 0..(k - 1) /\ \A j \in 0..k : j # k => j \in 0..(k - 1)
    OBVIOUS
  <2>3. step[k][f[k - 1]] \in S
    BY <2>1, <2>2 DEF Steps, Follows
  <2>4. g \in [0..k -> S]
    BY <2>1, <2>2, <2>3 DEF Follows
  <2>5. g[0] = c /\ g[k] = step[k][g[k - 1]]
    BY <2>1 DEF Follows
  <2>6. \A j \in 1..(k - 1) : g[j] = step[j][g[j - 1]]
    BY <2>1 DEF Follows
  <2>7. \A j \in 1..k : j = k \/ j \in 1..(k - 1)
    OBVIOUS
  <2>8. Follows(g, k, S, c, step)
    <3> HIDE DEF g
    <3>1. QED
      BY <2>4, <2>5, <2>6, <2>7 DEF Follows
  <2> HIDE DEF g
  <2>9. QED
    BY <2>8
<1> HIDE DEF T
<1>3. 0..n \subseteq T
  BY <1>1, <1>2, UpTo
<1>4. n \in T
  BY <1>3
<1>5. QED
  BY <1>4 DEF T

-----------------------------------------------------------------------------
(* The ids of X have a vector, and q is one.                               *)
Placed(table, X, q) == q \in Int /\ \A i \in X : table[i].pos \in Int

(* Distances on a line of integer points.                                  *)
LEMMA FarIsNat ==
  ASSUME NEW table, NEW X, NEW q, Placed(table, X, q)
  PROVE  \A i \in X : Far(table, i, q) \in Nat
BY DEF Placed, Far, Dist

(* The distances are natural numbers, so some node is nearest.             *)
LEMMA NearestIsIn ==
  ASSUME NEW table, NEW X, NEW q, Placed(table, X, q), X # {}
  PROVE  /\ Nearest(table, X, q) \in X
         /\ \A j \in X : Far(table, Nearest(table, X, q), q) <= Far(table, j, q)
<1> DEFINE D == {Far(table, i, q) : i \in X}
<1>1. D \in SUBSET Nat /\ D # {}
  BY FarIsNat
<1>2. PICK d \in D : \A e \in D : d <= e
  <2> HIDE DEF D
  <2>1. QED
    BY <1>1, LeastNumber
<1>3. PICK i \in X : d = Far(table, i, q)
  OBVIOUS
<1>4. \A j \in X : Far(table, i, q) <= Far(table, j, q)
  BY <1>2, <1>3
<1>5. QED
  BY <1>4, Zenon DEF Nearest

(* _greedy_step goes to a neighbor or stays.                               *)
LEMMA ImproveIsIn ==
  ASSUME NEW table, NEW ep, NEW layer, NEW q,
         Placed(table, Neighbors(table, ep, layer), q)
  PROVE  Improve(table, q, ep, layer) \in Neighbors(table, ep, layer) \cup {ep}
<1> DEFINE nearer == {n \in Neighbors(table, ep, layer) :
                        ~ table[n].tombstone /\ Far(table, n, q) < Far(table, ep, q)}
<1>1. Placed(table, nearer, q)
  BY DEF Placed
<1>2. nearer # {} => Nearest(table, nearer, q) \in nearer
  <2> HIDE DEF nearer
  <2>1. QED
    BY <1>1, NearestIsIn
<1>3. QED
  BY <1>2, Zenon DEF Improve

(* What is left of S when the k nearest are taken away, one by one.        *)
Rest(table, S, q) ==
  CHOOSE rest : rest = [k \in 0..Cardinality(S) |->
    IF k = 0 THEN S ELSE rest[k - 1] \ {Nearest(table, rest[k - 1], q)}]

(* The recursion of ByDistance ends: it is a function on 0..|S|.           *)
LEMMA RestIsDefined ==
  ASSUME NEW table, NEW S, NEW q, IsFiniteSet(S)
  PROVE  /\ Rest(table, S, q) \in [0..Cardinality(S) -> SUBSET S]
         /\ Rest(table, S, q)[0] = S
         /\ \A k \in 1..Cardinality(S) :
              Rest(table, S, q)[k] =
                Rest(table, S, q)[k - 1] \ {Nearest(table, Rest(table, S, q)[k - 1], q)}
<1> DEFINE n    == Cardinality(S)
           sets == SUBSET S
           step == [k \in 1..n |-> [R \in sets |-> R \ {Nearest(table, R, q)}]]
<1>1. n \in Nat /\ S \in sets
  BY FS_CardinalityType
<1>2. step \in Steps(n, sets)
  BY DEF Steps
<1>3. PICK f : Follows(f, n, sets, S, step)
  <2> HIDE DEF n, sets, step
  <2>1. QED
    BY <1>1, <1>2, Recursion
<1>4. ASSUME NEW k \in 1..n
      PROVE  f[k] = f[k - 1] \ {Nearest(table, f[k - 1], q)}
  <2>1. f[k - 1] \in SUBSET S
    BY <1>1, <1>3 DEF Follows
  <2>2. QED
    BY <1>3, <2>1 DEF Follows
<1>5. f = [k \in 0..n |-> IF k = 0 THEN S ELSE f[k - 1] \ {Nearest(table, f[k - 1], q)}]
  BY <1>1, <1>3, <1>4 DEF Follows
<1> DEFINE rest == Rest(table, S, q)
<1>6. rest = [k \in 0..n |-> IF k = 0 THEN S ELSE rest[k - 1] \ {Nearest(table, rest[k - 1], q)}]
  BY <1>5, Zenon DEF Rest
<1> HIDE DEF n, rest
<1>7. /\ rest[0] = S
      /\ \A k \in 1..n : rest[k] = rest[k - 1] \ {Nearest(table, rest[k - 1], q)}
  <2>1. \A k \in 0..n :
          rest[k] = IF k = 0 THEN S ELSE rest[k - 1] \ {Nearest(table, rest[k - 1], q)}
    BY <1>6, Zenon
  <2>2. 0 \in 0..n /\ \A k \in 1..n : k \in 0..n /\ k # 0
    BY <1>1
  <2>3. QED
    BY <2>1, <2>2, Zenon
<1>8. \A k \in 0..n : rest[k] \in SUBSET S
  <2> DEFINE T == {k \in 0..n : rest[k] \in SUBSET S}
  <2>1. 0 \in T /\ \A k \in 1..n : k - 1 \in T => k \in T
    BY <1>1, <1>7
  <2> HIDE DEF T
  <2>2. 0..n \subseteq T
    BY <1>1, <2>1, UpTo
  <2>3. QED
    BY <2>2 DEF T
<1>9. rest \in [0..n -> SUBSET S]
  BY <1>6, <1>8
<1>10. QED
  BY <1>7, <1>9 DEF n, rest

(* Each round takes away one id.                                           *)
LEMMA RestCounts ==
  ASSUME NEW table, NEW S, NEW q, IsFiniteSet(S), Placed(table, S, q)
  PROVE  \A k \in 0..Cardinality(S) :
            /\ IsFiniteSet(Rest(table, S, q)[k])
            /\ Cardinality(Rest(table, S, q)[k]) = Cardinality(S) - k
<1> DEFINE n    == Cardinality(S)
           rest == Rest(table, S, q)
           T    == {k \in 0..n : IsFiniteSet(rest[k]) /\ Cardinality(rest[k]) = n - k}
<1>1. n \in Nat
  BY FS_CardinalityType
<1>2. 0 \in T
  BY <1>1, RestIsDefined
<1>3. ASSUME NEW k \in 1..n, k - 1 \in T
      PROVE  k \in T
  <2> DEFINE R == rest[k - 1]
  <2>1. R \in SUBSET S /\ IsFiniteSet(R) /\ Cardinality(R) = n - (k - 1)
    BY <1>1, <1>3, RestIsDefined
  <2>2. rest[k] = R \ {Nearest(table, R, q)}
    BY RestIsDefined
  <2>3. R # {}
    BY <1>1, <2>1, FS_EmptySet
  <2>4. Nearest(table, R, q) \in R
    BY <2>1, <2>3, NearestIsIn DEF Placed
  <2> HIDE DEF R
  <2>5. IsFiniteSet(rest[k]) /\ Cardinality(rest[k]) = n - (k - 1) - 1
    BY <2>1, <2>2, <2>4, FS_RemoveElement
  <2>6. QED
    BY <1>1, <2>5
<1> HIDE DEF T
<1>4. 0..n \subseteq T
  BY <1>1, <1>2, <1>3, UpTo
<1>5. QED
  BY <1>4 DEF T

(* Sorting by distance loses no id and repeats none.                       *)
LEMMA SortedIsPermutation ==
  ASSUME NEW table, NEW S, NEW q, IsFiniteSet(S), Placed(table, S, q)
  PROVE  /\ ByDistance(table, S, q) \in [1..Cardinality(S) -> S]
         /\ IsInjective(ByDistance(table, S, q))
         /\ ToSet(ByDistance(table, S, q)) = S
<1> DEFINE n    == Cardinality(S)
           rest == Rest(table, S, q)
           sorted == ByDistance(table, S, q)
<1>1. n \in Nat
  BY FS_CardinalityType
<1>2. sorted = [k \in 1..n |-> Nearest(table, rest[k - 1], q)]
  BY DEF ByDistance, Rest
<1>3. rest \in [0..n -> SUBSET S]
  BY RestIsDefined
<1>4. \A k \in 0..n : rest[k] \in SUBSET S
  <2> HIDE DEF n, rest
  <2>1. QED
    BY <1>3
<1>5. \A k \in 0..n : IsFiniteSet(rest[k]) /\ Cardinality(rest[k]) = n - k
  BY RestCounts
<1>6. \A k \in 1..n : rest[k] = rest[k - 1] \ {Nearest(table, rest[k - 1], q)}
  BY RestIsDefined
<1>7. ASSUME NEW k \in 1..n
      PROVE  sorted[k] \in rest[k - 1] /\ rest[k] = rest[k - 1] \ {sorted[k]}
  <2> HIDE DEF n, rest, sorted
  <2>1. k - 1 \in 0..n /\ k \in 1..n /\ n - (k - 1) # 0
    BY <1>1
  <2>2. rest[k - 1] \in SUBSET S /\ Cardinality(rest[k - 1]) # 0 /\ IsFiniteSet(rest[k - 1])
    BY <1>4, <1>5, <2>1
  <2>3. rest[k - 1] # {}
    BY <2>2, FS_EmptySet
  <2>4. Nearest(table, rest[k - 1], q) \in rest[k - 1]
    BY <2>2, <2>3, NearestIsIn DEF Placed
  <2>5. QED
    BY <1>2, <1>6, <2>4
<1> HIDE DEF n, rest, sorted
<1>8. sorted \in [1..n -> S]
  <2>1. DOMAIN sorted = 1..n /\ sorted = [k \in 1..n |-> sorted[k]]
    BY <1>2
  <2>2. ASSUME NEW k \in 1..n
        PROVE  sorted[k] \in S
    <3>1. k - 1 \in 0..n
      BY <1>1
    <3>2. QED
      BY <3>1, <1>4, <1>7
  <2>3. QED
    BY <2>1, <2>2
<1>9. ASSUME NEW j \in 1..n, NEW k \in j..n
      PROVE  sorted[j] \notin rest[k]
  <2> DEFINE T == {i \in 0..(n - j) : sorted[j] \notin rest[j + i]}
  <2>1. 0 \in T
    BY <1>1, <1>7
  <2>2. ASSUME NEW i \in 1..(n - j), i - 1 \in T
        PROVE  i \in T
    <3>1. j + i \in 1..n /\ (j + i) - 1 = j + (i - 1)
      BY <1>1
    <3>2. rest[j + i] \subseteq rest[j + (i - 1)]
      BY <1>7, <3>1
    <3>3. QED
      BY <2>2, <3>2
  <2>3. n - j \in Nat /\ k - j \in 0..(n - j) /\ j + (k - j) = k
    BY <1>1
  <2> HIDE DEF T
  <2>4. 0..(n - j) \subseteq T
    BY <2>1, <2>2, <2>3, UpTo
  <2>5. QED
    BY <2>3, <2>4 DEF T
<1>10. \A j, k \in 1..n : j < k => sorted[j] # sorted[k]
  <2>1. ASSUME NEW j \in 1..n, NEW k \in 1..n, j < k
        PROVE  sorted[j] # sorted[k]
    <3>1. k - 1 \in j..n
      BY <1>1, <2>1
    <3>2. QED
      BY <1>7, <1>9, <3>1
  <2>2. QED
    BY <2>1
<1>11. IsInjective(sorted)
  BY <1>1, <1>8, <1>10 DEF IsInjective
<1>12. sorted \in Injection(1..n, S)
  BY <1>8, <1>11 DEF Injection, IsInjective
<1>13. sorted \in Surjection(1..n, S)
  BY <1>1, <1>12, FS_Injection, FS_Interval DEF n
<1>14. ToSet(sorted) = S
  BY <1>8, <1>13 DEF ToSet, Surjection
<1>15. QED
  BY <1>8, <1>11, <1>14 DEF n, sorted
-----------------------------------------------------------------------------
(* The heuristic keeps candidates, whichever it finds diverse.             *)
LEMMA DiverseIsIn ==
  ASSUME NEW table, NEW S, NEW q, IsFiniteSet(S), Placed(table, S, q)
  PROVE  Diverse(table, S, q) \subseteq S
<1> DEFINE ranked == ByDistance(table, S, q)
           n      == Len(ranked)
           sets   == SUBSET S
           With(k, sel) ==
             IF \E s \in sel : Dist(table[ranked[k]].pos, table[s].pos) < Far(table, ranked[k], q)
             THEN sel ELSE sel \cup {ranked[k]}
           step   == [k \in 1..n |-> [sel \in sets |-> With(k, sel)]]
<1>1. ranked \in [1..Cardinality(S) -> S]
  BY SortedIsPermutation
<1>2. Cardinality(S) \in Nat
  BY FS_CardinalityType
<1>3. n = Cardinality(S)
  <2> HIDE DEF ranked
  <2>1. QED
    BY <1>1, <1>2
<1>4. \A k \in 1..n : ranked[k] \in S
  BY <1>1, <1>3
<1>5. step \in Steps(n, sets) /\ {} \in sets
  <2>1. \A k \in 1..n, sel \in sets : With(k, sel) \in sets
    BY <1>4
  <2> HIDE DEF With
  <2>2. QED
    BY <2>1 DEF Steps
<1>6. PICK f : Follows(f, n, sets, {}, step)
  <2> HIDE DEF n, sets, step
  <2>1. QED
    BY <1>2, <1>3, <1>5, Recursion
<1>7. n \in Nat
  BY <1>2, <1>3
<1> HIDE DEF n
<1>8. ASSUME NEW k \in 1..n
      PROVE  f[k - 1] \in sets /\ f[k] = With(k, f[k - 1])
  <2>1. f[k - 1] \in sets
    BY <1>6, <1>7 DEF Follows
  <2> HIDE DEF With, sets
  <2>2. QED
    BY <1>6, <2>1 DEF Follows
<1> DEFINE Defines(g) == g = [k \in 0..n |-> IF k = 0 THEN {} ELSE With(k, g[k - 1])]
<1>9. Defines(f)
  <2> HIDE DEF With, sets
  <2>1. QED
    BY <1>6, <1>7, <1>8 DEF Follows
<1> DEFINE chosen == CHOOSE g : Defines(g)
<1>10. Defines(chosen)
  <2> HIDE DEF Defines
  <2>1. QED
    BY <1>9, Zenon
<1>11. Diverse(table, S, q) = chosen[n]
  BY DEF Diverse, n
<1> HIDE DEF chosen
<1>12. \A k \in 0..n : chosen[k] = IF k = 0 THEN {} ELSE With(k, chosen[k - 1])
  <2> HIDE DEF With
  <2>1. QED
    BY <1>10, Zenon
<1> DEFINE T == {k \in 0..n : chosen[k] \in SUBSET S}
<1>13. 0 \in T
  <2> HIDE DEF With
  <2>1. 0 \in 0..n /\ chosen[0] = {}
    BY <1>7, <1>12
  <2>2. QED
    BY <2>1
<1>14. ASSUME NEW k \in 1..n, k - 1 \in T
       PROVE  k \in T
  <2>1. chosen[k] = With(k, chosen[k - 1])
    BY <1>12
  <2>2. QED
    BY <1>4, <1>14, <2>1
<1> HIDE DEF T
<1>15. 0..n \subseteq T
  BY <1>7, <1>13, <1>14, UpTo
<1>16. QED
  BY <1>7, <1>11, <1>15 DEF T

(* Two sequences without repetition and without a common element, one      *)
(* after the other, repeat nothing, nor does a prefix.                     *)
LEMMA PrefixOfTwo ==
  ASSUME NEW S, NEW a \in Seq(S), NEW b \in Seq(S), IsInjective(a), IsInjective(b),
         ToSet(a) \cap ToSet(b) = {},
         NEW m \in 0..Len(a \o b)
  PROVE  /\ SubSeq(a \o b, 1, m) \in Seq(S)
         /\ Len(SubSeq(a \o b, 1, m)) = m
         /\ IsInjective(SubSeq(a \o b, 1, m))
<1> DEFINE all == a \o b
<1>1. /\ Len(a) \in Nat /\ Len(b) \in Nat
      /\ all \in Seq(S) /\ Len(all) = Len(a) + Len(b)
      /\ \A i \in 1..Len(all) : all[i] = IF i <= Len(a) THEN a[i] ELSE b[i - Len(a)]
  OBVIOUS
<1>2. ASSUME NEW i \in 1..Len(all), NEW j \in 1..Len(all), all[i] = all[j]
      PROVE  i = j
  <2>1. CASE i <= Len(a) /\ j <= Len(a)
    BY <1>1, <1>2, <2>1 DEF IsInjective
  <2>2. CASE i > Len(a) /\ j > Len(a)
    <3>1. i - Len(a) \in DOMAIN b /\ j - Len(a) \in DOMAIN b /\ b[i - Len(a)] = b[j - Len(a)]
      BY <1>1, <1>2, <2>2
    <3>2. QED
      BY <1>1, <3>1 DEF IsInjective
  <2>3. ASSUME NEW k \in 1..Len(a), NEW l \in 1..Len(b), a[k] = b[l]
        PROVE  FALSE
    BY <2>3 DEF ToSet
  <2>4. CASE i <= Len(a) /\ j > Len(a)
    BY <1>1, <1>2, <2>3, <2>4
  <2>5. CASE i > Len(a) /\ j <= Len(a)
    BY <1>1, <1>2, <2>3, <2>5
  <2>6. QED
    BY <1>1, <2>1, <2>2, <2>4, <2>5
<1> DEFINE prefix == SubSeq(all, 1, m)
<1> HIDE DEF all
<1>3. /\ prefix \in Seq(S) /\ Len(prefix) = m
      /\ \A i \in 1..m : prefix[i] = all[i] /\ i \in 1..Len(all)
  BY <1>1 DEF all
<1>4. IsInjective(prefix)
  <2> HIDE DEF prefix
  <2>1. QED
    BY <1>2, <1>3 DEF IsInjective
<1>5. QED
  BY <1>3, <1>4 DEF all

(* The selected neighbors are candidates, none twice, m of them or all.    *)
LEMMA SelectedAreCandidates ==
  ASSUME NEW table, NEW S, NEW q, NEW m \in Nat, IsFiniteSet(S), Placed(table, S, q)
  PROVE  /\ SelectNeighbors(table, S, q, m) \in Seq(S)
         /\ Len(SelectNeighbors(table, S, q, m)) <= m
         /\ IsInjective(SelectNeighbors(table, S, q, m))
<1> DEFINE D == Diverse(table, S, q)
           a == ByDistance(table, D, q)
           b == ByDistance(table, S \ D, q)
<1>1. D \subseteq S
  BY DiverseIsIn
<1> HIDE DEF D
<1>2. /\ IsFiniteSet(D) /\ IsFiniteSet(S \ D)
      /\ Placed(table, D, q) /\ Placed(table, S \ D, q)
  BY <1>1, FS_Subset DEF Placed
<1>3. ASSUME NEW T, T \subseteq S, IsFiniteSet(T), Placed(table, T, q)
      PROVE  /\ ByDistance(table, T, q) \in Seq(S)
             /\ IsInjective(ByDistance(table, T, q)) /\ ToSet(ByDistance(table, T, q)) = T
  <2>1. /\ ByDistance(table, T, q) \in [1..Cardinality(T) -> T]
        /\ IsInjective(ByDistance(table, T, q)) /\ ToSet(ByDistance(table, T, q)) = T
    BY <1>3, SortedIsPermutation
  <2>2. Cardinality(T) \in Nat
    BY <1>3, FS_CardinalityType
  <2>3. QED
    BY <1>3, <2>1, <2>2
<1>4. /\ a \in Seq(S) /\ IsInjective(a) /\ ToSet(a) = D
      /\ b \in Seq(S) /\ IsInjective(b) /\ ToSet(b) = S \ D
  BY <1>1, <1>2, <1>3
<1>5. SelectNeighbors(table, S, q, m) =
        SubSeq(a \o b, 1, IF Len(a \o b) < m THEN Len(a \o b) ELSE m)
  BY DEF SelectNeighbors, D
<1> HIDE DEF a, b
<1>6. PICK k \in 0..Len(a \o b) :
        k <= m /\ SelectNeighbors(table, S, q, m) = SubSeq(a \o b, 1, k)
  BY <1>4, <1>5
<1>7. ToSet(a) \cap ToSet(b) = {}
  BY <1>4
<1>8. QED
  BY <1>4, <1>6, <1>7, PrefixOfTwo
-----------------------------------------------------------------------------
(* The states of a search that has met only ids of X.                      *)
Beams(X) == [open : SUBSET X, seen : SUBSET X, found : SUBSET X]

(* It begins with its entry point,                                         *)
LEMMA BeamIsIn ==
  ASSUME NEW table, NEW X, NEW ep \in X, NEW allowed
  PROVE  Beam(table, ep, allowed) \in Beams(X)
BY DEF Beam, Beams

(* meets one id after the other,                                           *)
LEMMA MeetIsIn ==
  ASSUME NEW table, NEW X, NEW beam \in Beams(X), NEW i \in X,
         NEW q, NEW ef, NEW allowed
  PROVE  Meet(table, beam, i, q, ef, allowed) \in Beams(X)
BY DEF Meet, Beams

(* and so stays where the lists it reads lead.                             *)
LEMMA ExpandIsIn ==
  ASSUME NEW table, NEW X, NEW q, Placed(table, X, q),
         NEW beam \in Beams(X), beam.open # {},
         NEW ef, NEW layer, NEW allowed,
         \A i \in X : table[i].neighbors[layer] \in Seq(X)
  PROVE  Expand(table, beam, q, ef, layer, allowed) \in Beams(X)
<1> DEFINE current == Nearest(table, beam.open, q)
           list  == table[current].neighbors[layer]
           n     == Len(list)
           start == [open |-> beam.open \ {current}, seen |-> beam.seen \cup ToSet(list),
                     found |-> beam.found]
           beams == Beams(X)
           With(k, b) == IF list[k] \in beam.seen THEN b
                         ELSE Meet(table, b, list[k], q, ef, allowed)
           step  == [k \in 1..n |-> [b \in beams |-> With(k, b)]]
<1>1. current \in X
  <2>1. beam.open \subseteq X
    BY DEF Beams
  <2>2. QED
    BY <2>1, NearestIsIn DEF Placed
<1> HIDE DEF current
<1>2. list \in Seq(X)
  BY <1>1
<1> HIDE DEF list
<1>3. n \in Nat /\ ToSet(list) \subseteq X /\ \A k \in 1..n : list[k] \in X
  BY <1>2 DEF ToSet
<1>4. start \in beams
  BY <1>3 DEF Beams
<1>5. step \in Steps(n, beams)
  <2>1. \A k \in 1..n, b \in beams : With(k, b) \in beams
    BY <1>3, MeetIsIn
  <2> HIDE DEF With, beams
  <2>2. QED
    BY <2>1 DEF Steps
<1>6. PICK f : Follows(f, n, beams, start, step)
  <2> HIDE DEF n, beams, start, step
  <2>1. QED
    BY <1>3, <1>4, <1>5, Recursion
<1> HIDE DEF n, start
<1>7. ASSUME NEW k \in 1..n
      PROVE  f[k - 1] \in beams /\ f[k] = With(k, f[k - 1])
  <2>1. f[k - 1] \in beams
    BY <1>6, <1>3 DEF Follows
  <2> HIDE DEF With, beams
  <2>2. QED
    BY <1>6, <2>1 DEF Follows
<1> DEFINE Defines(g) == g = [k \in 0..n |-> IF k = 0 THEN start ELSE With(k, g[k - 1])]
<1>8. Defines(f)
  <2> HIDE DEF With, beams
  <2>1. QED
    BY <1>3, <1>6, <1>7 DEF Follows
<1> DEFINE met == CHOOSE g : Defines(g)
<1>9. Defines(met)
  <2> HIDE DEF Defines
  <2>1. QED
    BY <1>8, Zenon
<1>10. Expand(table, beam, q, ef, layer, allowed) = met[n]
  BY Zenon DEF Expand, n, start, list, current
<1> HIDE DEF met
<1>11. \A k \in 0..n : met[k] = IF k = 0 THEN start ELSE With(k, met[k - 1])
  <2> HIDE DEF With
  <2>1. QED
    BY <1>9, Zenon
<1> DEFINE T == {k \in 0..n : met[k] \in beams}
<1>12. 0 \in T
  <2> HIDE DEF With, beams
  <2>1. 0 \in 0..n /\ met[0] = start
    BY <1>3, <1>11
  <2>2. QED
    BY <1>4, <2>1
<1>13. ASSUME NEW k \in 1..n, k - 1 \in T
       PROVE  k \in T
  <2>1. met[k] = With(k, met[k - 1])
    BY <1>11
  <2>2. QED
    BY <1>3, <1>13, <2>1, MeetIsIn
<1> HIDE DEF T
<1>14. 0..n \subseteq T
  BY <1>3, <1>12, <1>13, UpTo
<1>15. QED
  BY <1>3, <1>10, <1>14 DEF T
-----------------------------------------------------------------------------
(* Every node is a record with one list for each layer.                    *)
WellShaped(node) ==
  node = [pos       |-> node.pos,
          level     |-> node.level,
          tombstone |-> node.tombstone,
          neighbors |-> [l \in Layers |-> node.neighbors[l]]]

(* Every node has a list for each layer.                                   *)
Shape == \A i \in Ids : WellShaped(nodes[i])

(* The step writes `list` to node x in a layer, and nothing else.          *)
Writes(x, layer, list) == nodes' = [nodes EXCEPT ![x].neighbors[layer] = list]

(* Writing one list of one node, or a tombstone, keeps the shape.          *)
LEMMA ListWritten ==
  ASSUME Shape, NEW x, NEW layer, NEW list, Writes(x, layer, list)
  PROVE  /\ Shape'
         /\ Ids' = Ids
         /\ \A a \in Ids, l \in Layers :
              nodes'[a].neighbors[l] = IF a = x /\ l = layer THEN list ELSE nodes[a].neighbors[l]
<1>1. Ids' = Ids
  BY DEF Ids, Writes
<1>2. \A a \in Ids : a # x => nodes'[a] = nodes[a]
  BY DEF Ids, Writes
<1>3. ASSUME x \in Ids
      PROVE  /\ WellShaped(nodes[x])'
             /\ \A l \in Layers :
                  nodes'[x].neighbors[l] = IF l = layer THEN list ELSE nodes[x].neighbors[l]
  <2>1. nodes'[x] = [nodes[x] EXCEPT !.neighbors[layer] = list]
    BY <1>3 DEF Ids, Writes
  <2>2. WellShaped(nodes[x])
    BY <1>3 DEF Shape
  <2>3. QED
    BY <2>1, <2>2 DEF WellShaped
<1>4. QED
  BY <1>1, <1>2, <1>3 DEF Shape, WellShaped

LEMMA ShapeInit == Init => Shape
BY DEF Init, Shape, Ids

(* What no action but those on edges does: neither the ids nor the lists   *)
(* there are change, except that a new id comes with a node.               *)
EdgesKept ==
  \A a \in Ids : /\ a \in Ids'
                 /\ \A l \in Layers : nodes'[a].neighbors[l] = nodes[a].neighbors[l]

LEMMA ReserveKeeps ==
  ASSUME Shape, NEW t \in Threads, Reserve(t)
  PROVE  Shape' /\ EdgesKept
<1>1. PICK draw \in Draws :
        nodes' = [i \in Ids \cup {Cardinality(Ids)} |->
                    IF i \in Ids THEN nodes[i]
                    ELSE [pos |-> Layout[Cardinality(Ids) + 1],
                          level |-> draw[Cardinality(Ids) + 1],
                          tombstone |-> FALSE,
                          neighbors |-> [l \in Layers |-> << >>]]]
  BY DEF Reserve
<1>2. /\ Ids' = Ids \cup {Cardinality(Ids)}
      /\ \A a \in Ids : nodes'[a] = nodes[a]
  BY <1>1 DEF Ids
<1>3. Cardinality(Ids) \notin Ids => WellShaped(nodes'[Cardinality(Ids)])
  BY <1>1 DEF Ids, WellShaped
<1>4. QED
  BY <1>2, <1>3 DEF Shape, EdgesKept, WellShaped

LEMMA DeleteKeeps ==
  ASSUME Shape, NEW t \in Threads, Delete(t)
  PROVE  Shape' /\ EdgesKept
<1>1. PICK id \in Live, dead \in BOOLEAN : nodes' = [nodes EXCEPT ![id].tombstone = dead]
  BY DEF Delete
<1>2. Ids' = Ids /\ id \in Ids /\ \A a \in Ids : a # id => nodes'[a] = nodes[a]
  BY <1>1 DEF Ids, Live
<1>3. nodes'[id] = [nodes[id] EXCEPT !.tombstone = dead]
  BY <1>1, <1>2 DEF Ids
<1>4. WellShaped(nodes[id])
  BY <1>2 DEF Shape
<1>5. WellShaped(nodes[id])'
  BY <1>3, <1>4 DEF WellShaped
<1>6. \A l \in Layers : nodes'[id].neighbors[l] = nodes[id].neighbors[l]
  BY <1>3, <1>4 DEF WellShaped
<1>7. QED
  BY <1>2, <1>5, <1>6 DEF Shape, EdgesKept, WellShaped

(* The steps that only read the graph.                                     *)
LEMMA ReadersKeep ==
  ASSUME Shape, UNCHANGED nodes
  PROVE  Shape' /\ EdgesKept
BY DEF Shape, EdgesKept, WellShaped, Ids

(* Edges that are kept are not dropped.                                    *)
LEMMA KeptNotDropped == EdgesKept => DropsOnlyWeighedEdges
BY DEF EdgesKept, DropsOnlyWeighedEdges, Neighbors

(* An action that writes the list of x in a layer drops an edge only from  *)
(* that list.                                                              *)
LEMMA OnlyThatList ==
  ASSUME Shape, NEW x, NEW layer, NEW list,
         Writes(x, layer, list),
         \A b \in ToSet(nodes[x].neighbors[layer]) \ ToSet(list) :
            \E t \in Threads :
               /\ call[t].layer = layer
               /\ \/ call[t].at = "search" /\ call[t].id = x
                  \/ call[t].at = "commit" /\ b \in ToSet(call[t].read)
  PROVE  Shape' /\ DropsOnlyWeighedEdges
<1>1. /\ Shape'
      /\ Ids' = Ids
      /\ \A a \in Ids, l \in Layers :
           nodes'[a].neighbors[l] = IF a = x /\ l = layer THEN list ELSE nodes[a].neighbors[l]
  BY ListWritten
<1>2. ASSUME NEW a \in Ids, NEW l \in Layers,
             NEW b \in Neighbors(nodes, a, l) \ ToSet(nodes'[a].neighbors[l])
      PROVE  a = x /\ l = layer /\ b \in ToSet(nodes[x].neighbors[layer]) \ ToSet(list)
  BY <1>1, <1>2 DEF Neighbors
<1>3. DropsOnlyWeighedEdges
  BY <1>2 DEF DropsOnlyWeighedEdges
<1>4. QED
  BY <1>1, <1>3

LEMMA SetNeighborsStep ==
  ASSUME Shape, NEW t \in Threads, SetNeighbors(t)
  PROVE  Shape' /\ DropsOnlyWeighedEdges
<1>1. PICK list : Writes(call[t].id, call[t].layer, list)
  BY Zenon DEF SetNeighbors, Writes
<1>2. call[t].at = "search"
  BY DEF SetNeighbors, At
<1>3. QED
  BY <1>1, <1>2, OnlyThatList

LEMMA ConnectStep ==
  ASSUME Shape, NEW t \in Threads, Connect(t)
  PROVE  Shape' /\ DropsOnlyWeighedEdges
<1>1. PICK list :
        /\ Writes(Head(call[t].list), call[t].layer, list)
        /\ list = Theirs(t) \/ list = Append(Theirs(t), call[t].id)
  BY Zenon DEF Connect, ConnectWith, Writes
<1>2. ToSet(Theirs(t)) \subseteq ToSet(list)
  BY <1>1 DEF ToSet
<1>3. QED
  BY <1>1, <1>2, OnlyThatList DEF Theirs

LEMMA CommitStep ==
  ASSUME Shape, NEW t \in Threads, Commit(t)
  PROVE  Shape' /\ DropsOnlyWeighedEdges
<1>1. CASE Theirs(t) = call[t].read
  <2>1. PICK list : Writes(Head(call[t].list), call[t].layer, list)
    BY <1>1, Zenon DEF Commit, CommitIf, Writes
  <2>2. call[t].at = "commit"
    BY DEF Commit, CommitIf, At
  <2>3. QED
    BY <1>1, <2>1, <2>2, OnlyThatList DEF Theirs
<1>2. CASE Theirs(t) # call[t].read
  BY <1>2, ReadersKeep, KeptNotDropped DEF Commit, CommitIf
<1>3. QED
  BY <1>1, <1>2

LEMMA GraphStep == Shape /\ [Next]_vars => Shape' /\ (DropsOnlyWeighedEdges \/ UNCHANGED nodes)
<1> SUFFICES ASSUME Shape, [Next]_vars
             PROVE  Shape' /\ DropsOnlyWeighedEdges
  OBVIOUS
<1>1. CASE UNCHANGED vars
  BY <1>1, ReadersKeep, KeptNotDropped DEF vars
<1>2. ASSUME NEW t \in Threads, Reserve(t)
      PROVE  Shape' /\ DropsOnlyWeighedEdges
  BY <1>2, ReserveKeeps, KeptNotDropped
<1>3. ASSUME NEW t \in Threads, Delete(t)
      PROVE  Shape' /\ DropsOnlyWeighedEdges
  BY <1>3, DeleteKeeps, KeptNotDropped
<1>4. ASSUME NEW t \in Threads,
             \/ Begin(t) \/ Descend(t) \/ Explore(t) \/ Check(t) \/ NextLayer(t) \/ Promote(t)
             \/ StartSearch(t) \/ ReadTop(t) \/ Answer(t) \/ Return(t)
      PROVE  Shape' /\ DropsOnlyWeighedEdges
  <2>1. UNCHANGED nodes
    BY <1>4 DEF Begin, Descend, Explore, Check, CheckReading, NextLayer, NextLayerDownTo, Promote,
                StartSearch, ReadTop, Answer, Return, graph
  <2>2. QED
    BY <2>1, ReadersKeep, KeptNotDropped
<1>5. QED
  BY <1>1, <1>2, <1>3, <1>4, SetNeighborsStep, ConnectStep, CommitStep DEF Next, Proceed

(* No _connect drops an edge from a list without having weighed it: of two *)
(* inserts that append to the list of the same node and prune it, neither  *)
(* loses the edge of the other to a stale copy (index.py:391-398).         *)
THEOREM EdgesAreWeighed == Spec => NoEdgeIsDroppedUnseen
<1>1. Init => Shape
  BY ShapeInit
<1>2. Shape /\ [Next]_vars => Shape'
  BY GraphStep
<1>3. Shape /\ [Next]_vars => [DropsOnlyWeighedEdges]_nodes
  BY GraphStep
<1>4. QED
  BY <1>1, <1>2, <1>3, PTL DEF Spec, NoEdgeIsDroppedUnseen
-----------------------------------------------------------------------------
(* What a node and a call may hold when X are the ids.                     *)
NodeType(X) ==
  [pos : Positions, level : Layers, tombstone : BOOLEAN, neighbors : [Layers -> Seq(X)]]

(* The fields of a call.                                                   *)
CallType(X) ==
  [at : Places, op : {"none", "insert", "search"}, id : X \cup {None},
   q : Positions \cup {0}, ep : X \cup {None}, top : Layers \cup {-1}, layer : Layers,
   allowed : SUBSET Positions,
   beam : [open : SUBSET X, seen : SUBSET X, found : SUBSET X],
   list : Seq(X), read : Seq(X), before : SUBSET X]

(* The nodes that have a list in the layer.                                *)
OnLayer(ns, layer) == {i \in DOMAIN ns : ns[i].level >= layer}

(* reserve() numbers the nodes without a gap.                              *)
IdsAreDense == \E n \in Nat : Ids = 0..(n - 1)

(* What holds of the nodes.                                                *)
NodesInv == /\ IdsAreDense
            /\ \A i \in Ids : nodes[i] \in NodeType(Ids)
            /\ ListsAreProper

(* max_layer is the level of the entry point, also after a delete().       *)
EntryInv == /\ entryPoint \in Ids \cup {None}
            /\ maxLayer \in Layers \cup {-1}
            /\ entryPoint # None => nodes[entryPoint].level = maxLayer

(* A call at work on a layer is at nodes of that layer, and so is the node *)
(* that it inserts.                                                        *)
Wires(c) == c.at # "idle" /\ c.op = "insert"
(* The call c on the nodes ns.                                             *)
CallInv(c, ns) ==
  /\ c \in CallType(DOMAIN ns)
  /\ c.at # "idle" => c.op # "none"
  /\ c.at \in {"begin", "append", "check", "commit", "promote"} => c.op = "insert"
  /\ c.at \in {"top", "answer"} => c.op = "search"
  /\ Wires(c) => c.id \in DOMAIN ns
  /\ c.at \in {"top", "descend", "search"} => c.ep \in DOMAIN ns
  /\ Wires(c) /\ c.at \notin {"begin", "promote"} => c.ep \in OnLayer(ns, c.layer)
  /\ Wires(c) /\ c.at \in {"search", "append", "check", "commit"} => c.id \in OnLayer(ns, c.layer)
  /\ Wires(c) /\ c.at = "search" => c.beam \in Beams(OnLayer(ns, c.layer))
  /\ c.at \in {"append", "check", "commit"} => c.list \in Seq(OnLayer(ns, c.layer))
  /\ c.at \in {"check", "commit"} => c.list # << >>

(* All calls are sound.                                                    *)
CallsInv == /\ call \in [Threads -> CallType(Ids)]
            /\ \A t \in Threads : CallInv(call[t], nodes)

(* The inductive invariant.                                                *)
GraphInv == NodesInv /\ EntryInv /\ CallsInv /\ DegreeBound
-----------------------------------------------------------------------------
(* What the proofs need of the constants.                                  *)
LEMMA ConstantFacts ==
  /\ 0 \in Layers /\ Layers \subseteq Int
  /\ \A l \in Layers : l >= 0 /\ (l > 0 => l - 1 \in Layers)
  /\ Positions \subseteq Int
  /\ \A l : Target(l) \in Nat
  /\ None \notin Nat
<1>1. MaxLevel \in Nat /\ M \in Nat /\ None \notin Nat
  BY GraphAssumption
<1>2. Positions \subseteq Int
  BY GraphAssumption DEF Positions, ToSet
<1>3. QED
  BY <1>1, <1>2 DEF Layers, Target

(* The next id is a new one.                                               *)
LEMMA IdFacts ==
  ASSUME IdsAreDense
  PROVE  /\ Ids \subseteq Nat /\ IsFiniteSet(Ids) /\ None \notin Ids
         /\ Cardinality(Ids) \in Nat /\ Cardinality(Ids) \notin Ids
         /\ Ids \cup {Cardinality(Ids)} = 0..Cardinality(Ids)
<1>1. PICK n \in Nat : Ids = 0..(n - 1)
  BY DEF IdsAreDense
<1>2. IsFiniteSet(Ids) /\ Cardinality(Ids) = n
  BY <1>1, FS_Interval
<1>3. QED
  BY <1>1, <1>2, ConstantFacts

(* Ids are added and no level changes: what a call holds stays what it is. *)
LevelsKept(ns, ms) == \A i \in DOMAIN ns : i \in DOMAIN ms /\ ms[i].level = ns[i].level

(* A node that is on a layer stays on it.                                  *)
LEMMA OnLayerKept ==
  ASSUME NEW ns, NEW ms, LevelsKept(ns, ms)
  PROVE  DOMAIN ns \subseteq DOMAIN ms /\ \A l : OnLayer(ns, l) \subseteq OnLayer(ms, l)
BY DEF LevelsKept, OnLayer

(* A call that is typed stays typed when nodes are added.                  *)
LEMMA CallGrows ==
  ASSUME NEW X, NEW Y, X \subseteq Y, NEW c \in CallType(X)
  PROVE  c \in CallType(Y)
<1>1. Seq(X) \subseteq Seq(Y)
  BY SeqMonotonic
<1>2. QED
  BY <1>1 DEF CallType

(* A sound call stays sound while others change the graph.                 *)
LEMMA CallStays ==
  ASSUME NEW ns, NEW ms, LevelsKept(ns, ms), NEW c, CallInv(c, ns)
  PROVE  CallInv(c, ms)
<1>1. c \in CallType(DOMAIN ms)
  BY OnLayerKept, CallGrows DEF CallInv
<1>2. ASSUME NEW l
      PROVE  /\ Seq(OnLayer(ns, l)) \subseteq Seq(OnLayer(ms, l))
             /\ Beams(OnLayer(ns, l)) \subseteq Beams(OnLayer(ms, l))
  BY OnLayerKept, SeqMonotonic DEF Beams
<1>3. QED
  BY <1>1, <1>2, OnLayerKept DEF CallInv, Wires

(* Do() replaces the fields it names.                                      *)
LEMMA UpdatedFields ==
  ASSUME NEW X, NEW c \in CallType(X), NEW fields
  PROVE  \A f \in {"at", "op", "id", "q", "ep", "top", "layer", "allowed", "beam", "list", "read",
                    "before"} :
           Updated(c, fields)[f] = IF f \in DOMAIN fields THEN fields[f] ELSE c[f]
BY DEF CallType, Updated

(* The call of one thread is replaced, and no level changes.               *)
LEMMA CallReplaced ==
  ASSUME CallsInv, LevelsKept(nodes, nodes'), NEW t \in Threads, NEW d, CallInv(d, nodes'),
         call' = [call EXCEPT ![t] = d]
  PROVE  CallsInv'
<1>1. \A u \in Threads : call'[u] = IF u = t THEN d ELSE call[u]
  BY DEF CallsInv
<1>2. \A u \in Threads : CallInv(call[u], nodes')
  BY CallStays DEF CallsInv
<1>3. \A u \in Threads : CallInv(call'[u], nodes')
  BY <1>1, <1>2
<1>4. \A u \in Threads : call'[u] \in CallType(Ids')
  BY <1>3 DEF CallInv, Ids
<1>5. DOMAIN call' = Threads /\ call' = [u \in Threads |-> call'[u]]
  BY DEF CallsInv
<1>6. call' \in [Threads -> CallType(Ids')]
  BY <1>4, <1>5
<1>7. QED
  BY <1>3, <1>6 DEF CallsInv
-----------------------------------------------------------------------------
(* What the steps do to the nodes.                                         *)

(* Writing a list, or a tombstone, leaves a node a node of its level.      *)
LEMMA ListUpdated ==
  ASSUME NEW X, NEW r \in NodeType(X), NEW l \in Layers, NEW list \in Seq(X)
  PROVE  /\ [r EXCEPT !.neighbors[l] = list] \in NodeType(X)
         /\ [r EXCEPT !.neighbors[l] = list].level = r.level
BY DEF NodeType

LEMMA TombstoneUpdated ==
  ASSUME NEW X, NEW r \in NodeType(X)
  PROVE  /\ [r EXCEPT !.tombstone = TRUE] \in NodeType(X)
         /\ [r EXCEPT !.tombstone = TRUE].level = r.level
         /\ [r EXCEPT !.tombstone = TRUE].neighbors = r.neighbors
BY DEF NodeType

(* The nodes have the shape that GraphStep asks for.                       *)
LEMMA NodesHaveShape == NodesInv => Shape
BY DEF NodesInv, NodeType, Shape, WellShaped

(* A list holds nodes of its layer.                                        *)
LEMMA ListIsTyped ==
  ASSUME NodesInv, NEW a \in Ids, NEW l \in Layers
  PROVE  /\ nodes[a].neighbors[l] \in Seq(Ids)
         /\ nodes[a].neighbors[l] \in Seq(OnLayer(nodes, l))
         /\ Len(nodes[a].neighbors[l]) \in Nat
<1>1. nodes[a].neighbors[l] \in Seq(Ids)
  BY DEF NodesInv, NodeType
<1>2. \A k \in 1..Len(nodes[a].neighbors[l]) : nodes[a].neighbors[l][k] \in OnLayer(nodes, l)
  BY <1>1 DEF NodesInv, ListsAreProper, Neighbors, ToSet, OnLayer, Ids
<1>3. QED
  BY <1>1, <1>2

(* What is true of the nodes stays so as long as they are not written.     *)
LEMMA NodesUntouched ==
  ASSUME NodesInv, UNCHANGED nodes
  PROVE  NodesInv' /\ Ids' = Ids /\ LevelsKept(nodes, nodes')
BY DEF NodesInv, IdsAreDense, ListsAreProper, Neighbors, Ids, LevelsKept

(* Only levels and lists matter for what is proper about the lists.        *)
LEMMA ListReplaced ==
  ASSUME NodesInv, NEW x \in Ids, NEW layer \in Layers, NEW list,
         Writes(x, layer, list),
         nodes[x].level >= layer, list \in Seq(OnLayer(nodes, layer)), IsInjective(list)
  PROVE  /\ NodesInv' /\ Ids' = Ids /\ LevelsKept(nodes, nodes')
         /\ \A a \in Ids, l \in Layers :
              nodes'[a].neighbors[l] = IF a = x /\ l = layer THEN list ELSE nodes[a].neighbors[l]
<1>1. /\ Ids' = Ids
      /\ \A a \in Ids, l \in Layers :
           nodes'[a].neighbors[l] = IF a = x /\ l = layer THEN list ELSE nodes[a].neighbors[l]
  BY NodesHaveShape, ListWritten
<1>2. list \in Seq(Ids)
  <2>1. OnLayer(nodes, layer) \subseteq Ids
    BY DEF OnLayer, Ids
  <2>2. QED
    BY <2>1, SeqMonotonic
<1>3. \A a \in Ids : a # x => nodes'[a] = nodes[a]
  BY DEF Writes, Ids
<1>4. nodes'[x] = [nodes[x] EXCEPT !.neighbors[layer] = list]
  BY DEF Writes, Ids
<1>5. nodes'[x] \in NodeType(Ids) /\ nodes'[x].level = nodes[x].level
  <2>1. nodes[x] \in NodeType(Ids)
    BY DEF NodesInv
  <2>2. /\ [nodes[x] EXCEPT !.neighbors[layer] = list] \in NodeType(Ids)
        /\ [nodes[x] EXCEPT !.neighbors[layer] = list].level = nodes[x].level
    BY <1>2, <2>1, ListUpdated
  <2>3. QED
    BY <1>4, <2>2, Zenon
<1>6. \A a \in Ids : nodes'[a] \in NodeType(Ids) /\ nodes'[a].level = nodes[a].level
  BY <1>3, <1>5 DEF NodesInv
<1>7. LevelsKept(nodes, nodes')
  BY <1>1, <1>6 DEF LevelsKept, Ids
<1>8. ToSet(list) \subseteq OnLayer(nodes, layer)
  BY DEF ToSet
<1>9. ListsAreProper'
  <2> SUFFICES ASSUME NEW a \in Ids, NEW l \in Layers
               PROVE  /\ IsInjective(nodes'[a].neighbors[l])
                      /\ \A b \in ToSet(nodes'[a].neighbors[l]) : nodes'[b].level >= l
                      /\ nodes'[a].level < l => nodes'[a].neighbors[l] = << >>
    BY <1>1 DEF ListsAreProper, Neighbors
  <2>1. CASE a = x /\ l = layer
    <3>1. nodes'[a].neighbors[l] = list /\ nodes'[a].level = nodes[x].level
      BY <1>1, <1>6, <2>1
    <3>2. nodes[x].level \in Int /\ l \in Int
      BY ConstantFacts DEF NodesInv, NodeType
    <3>3. \A b \in ToSet(list) : b \in Ids /\ nodes[b].level >= l
      BY <1>8, <2>1 DEF OnLayer, Ids
    <3>4. QED
      BY <1>6, <2>1, <3>1, <3>2, <3>3
  <2>2. CASE ~ (a = x /\ l = layer)
    <3>1. nodes'[a].neighbors[l] = nodes[a].neighbors[l]
      BY <1>1, <2>2
    <3>2. ToSet(nodes[a].neighbors[l]) \subseteq OnLayer(nodes, l)
      BY ListIsTyped DEF ToSet
    <3>3. QED
      BY <1>6, <3>1, <3>2 DEF NodesInv, ListsAreProper, OnLayer, Ids
  <2>3. QED
    BY <2>1, <2>2
<1>10. QED
  BY <1>1, <1>6, <1>7, <1>9 DEF NodesInv, IdsAreDense

(* reserve() adds a node with empty lists.                                 *)
LEMMA NodeAdded ==
  ASSUME NodesInv, NEW t \in Threads, Reserve(t)
  PROVE  /\ NodesInv' /\ LevelsKept(nodes, nodes')
         /\ Ids' = Ids \cup {Cardinality(Ids)}
         /\ \A l \in Layers :
              /\ nodes'[Cardinality(Ids)].neighbors[l] = << >>
              /\ \A a \in Ids : nodes'[a].neighbors[l] = nodes[a].neighbors[l]
         /\ \A a \in Ids : nodes'[a] = nodes[a]
<1> DEFINE id == Cardinality(Ids)
<1>1. /\ Ids \subseteq Nat /\ IsFiniteSet(Ids)
      /\ id \in Nat /\ id \notin Ids /\ Ids \cup {id} = 0..id
  BY IdFacts DEF NodesInv
<1>2. id < Len(Layout)
  BY DEF Reserve
<1>3. PICK draw \in Draws :
        nodes' = [i \in Ids \cup {id} |->
                    IF i \in Ids THEN nodes[i]
                    ELSE [pos |-> Layout[id + 1], level |-> draw[id + 1], tombstone |-> FALSE,
                          neighbors |-> [l \in Layers |-> << >>]]]
  BY DEF Reserve
<1> HIDE DEF id
<1>4. Layout[id + 1] \in Positions /\ draw[id + 1] \in Layers
  <2>1. id + 1 \in DOMAIN Layout /\ draw \in [DOMAIN Layout -> Layers]
    BY <1>1, <1>2, GraphAssumption
  <2>2. QED
    BY <2>1 DEF Positions, ToSet
<1>5. Ids' = Ids \cup {id} /\ \A a \in Ids : nodes'[a] = nodes[a]
  BY <1>3 DEF Ids
<1>6. /\ nodes'[id] \in NodeType(Ids \cup {id})
      /\ \A l \in Layers : nodes'[id].neighbors[l] = << >>
  BY <1>1, <1>3, <1>4 DEF NodeType
<1>7. \A a \in Ids : nodes'[a] \in NodeType(Ids \cup {id})
  <2>1. Seq(Ids) \subseteq Seq(Ids \cup {id})
    BY SeqMonotonic
  <2>2. QED
    BY <1>5, <2>1 DEF NodesInv, NodeType
<1>8. ListsAreProper'
  <2> SUFFICES ASSUME NEW a \in Ids', NEW l \in Layers
               PROVE  /\ IsInjective(nodes'[a].neighbors[l])
                      /\ \A b \in ToSet(nodes'[a].neighbors[l]) : nodes'[b].level >= l
                      /\ nodes'[a].level < l => nodes'[a].neighbors[l] = << >>
    BY DEF ListsAreProper, Neighbors
  <2>1. CASE a = id
    BY <1>6, <2>1 DEF IsInjective, ToSet
  <2>2. CASE a \in Ids
    <3>1. ToSet(nodes[a].neighbors[l]) \subseteq Ids
      BY <2>2, ListIsTyped DEF ToSet
    <3>2. QED
      BY <1>5, <2>2, <3>1 DEF NodesInv, ListsAreProper, Neighbors
  <2>3. QED
    BY <1>5, <2>1, <2>2
<1>9. IdsAreDense'
  <2>1. Ids' = 0..((id + 1) - 1) /\ id + 1 \in Nat
    BY <1>1, <1>5
  <2>2. QED
    BY <2>1 DEF IdsAreDense
<1>10. LevelsKept(nodes, nodes')
  BY <1>5 DEF LevelsKept, Ids
<1>11. QED
  BY <1>5, <1>6, <1>7, <1>8, <1>9, <1>10 DEF NodesInv, id

(* delete() changes no list and no level.                                  *)
LEMMA NodeDeleted ==
  ASSUME NodesInv, NEW id \in Ids, nodes' = [nodes EXCEPT ![id].tombstone = TRUE]
  PROVE  /\ NodesInv' /\ Ids' = Ids /\ LevelsKept(nodes, nodes')
         /\ \A a \in Ids : /\ nodes'[a].level = nodes[a].level
                           /\ nodes'[a].neighbors = nodes[a].neighbors
<1>1. Ids' = Ids /\ \A a \in Ids : a # id => nodes'[a] = nodes[a]
  BY DEF Ids
<1>2. nodes'[id] = [nodes[id] EXCEPT !.tombstone = TRUE]
  BY DEF Ids
<1>3. /\ nodes'[id] \in NodeType(Ids)
      /\ nodes'[id].level = nodes[id].level
      /\ nodes'[id].neighbors = nodes[id].neighbors
  BY <1>2, TombstoneUpdated DEF NodesInv
<1>4. \A a \in Ids : /\ nodes'[a] \in NodeType(Ids)
                    /\ nodes'[a].level = nodes[a].level
                    /\ nodes'[a].neighbors = nodes[a].neighbors
  BY <1>1, <1>3 DEF NodesInv
<1>5. ListsAreProper'
  <2> SUFFICES ASSUME NEW a \in Ids, NEW l \in Layers
               PROVE  /\ IsInjective(nodes'[a].neighbors[l])
                      /\ \A b \in ToSet(nodes'[a].neighbors[l]) : nodes'[b].level >= l
                      /\ nodes'[a].level < l => nodes'[a].neighbors[l] = << >>
    BY <1>1 DEF ListsAreProper, Neighbors
  <2>1. ToSet(nodes[a].neighbors[l]) \subseteq Ids
    BY ListIsTyped DEF ToSet
  <2>2. QED
    BY <1>4, <2>1 DEF NodesInv, ListsAreProper, Neighbors
<1>6. QED
  BY <1>1, <1>4, <1>5 DEF NodesInv, IdsAreDense, LevelsKept, Ids
-----------------------------------------------------------------------------
(* A list may grow only by the edge of an insert that then has to prune.   *)
LEMMA DegreeStep ==
  ASSUME NodesInv, NodesInv', DegreeBound,
         \A a \in Ids', l \in Layers :
            \/ Len(nodes'[a].neighbors[l]) <= Target(l)
            \/ /\ a \in Ids
               /\ \A u \in Pruning(a, l) : u \in Pruning(a, l)'
               /\ \/ nodes'[a].neighbors[l] = nodes[a].neighbors[l]
                  \/ /\ Len(nodes'[a].neighbors[l]) = Len(nodes[a].neighbors[l]) + 1
                     /\ \E t \in Threads : t \in Pruning(a, l)' /\ t \notin Pruning(a, l)
  PROVE  DegreeBound'
<1> SUFFICES ASSUME NEW a \in Ids', NEW l \in Layers
             PROVE  Len(nodes'[a].neighbors[l]) <= Target(l) + Cardinality(Pruning(a, l)')
  BY DEF DegreeBound
<1> DEFINE P == Pruning(a, l)
           Q == Pruning(a, l)'
<1>1. P \in SUBSET Threads /\ Q \in SUBSET Threads
  BY DEF Pruning
<1>2. Len(nodes'[a].neighbors[l]) \in Nat /\ Target(l) \in Nat
  BY ConstantFacts DEF NodesInv, NodeType
<1>3. a \in Ids => /\ Len(nodes[a].neighbors[l]) \in Nat
                   /\ Len(nodes[a].neighbors[l]) <= Target(l) + Cardinality(P)
  BY ListIsTyped DEF DegreeBound
<1> HIDE DEF P, Q
<1>4. IsFiniteSet(P) /\ IsFiniteSet(Q) /\ Cardinality(P) \in Nat /\ Cardinality(Q) \in Nat
  BY <1>1, ThreadsAssumption, FS_Subset, FS_CardinalityType
<1>5. P \subseteq Q => Cardinality(P) <= Cardinality(Q)
  BY <1>4, FS_Subset
<1>6. ASSUME P \subseteq Q, NEW t \in Q, t \notin P
      PROVE  Cardinality(P) + 1 <= Cardinality(Q)
  <2>1. IsFiniteSet(P \cup {t}) /\ Cardinality(P \cup {t}) = Cardinality(P) + 1
    BY <1>4, <1>6, FS_AddElement
  <2>2. Cardinality(P \cup {t}) <= Cardinality(Q)
    BY <1>4, <1>6, FS_Subset
  <2>3. QED
    BY <2>1, <2>2
<1>7. ASSUME Len(nodes'[a].neighbors[l]) <= Target(l)
      PROVE  Len(nodes'[a].neighbors[l]) <= Target(l) + Cardinality(Q)
  BY <1>2, <1>4, <1>7
<1>8. ASSUME a \in Ids, P \subseteq Q, nodes'[a].neighbors[l] = nodes[a].neighbors[l]
      PROVE  Len(nodes'[a].neighbors[l]) <= Target(l) + Cardinality(Q)
  BY <1>2, <1>3, <1>4, <1>5, <1>8
<1>9. ASSUME a \in Ids, P \subseteq Q, NEW t \in Q, t \notin P,
             Len(nodes'[a].neighbors[l]) = Len(nodes[a].neighbors[l]) + 1
      PROVE  Len(nodes'[a].neighbors[l]) <= Target(l) + Cardinality(Q)
  BY <1>2, <1>3, <1>4, <1>6, <1>9
<1>10. QED
  BY <1>7, <1>8, <1>9 DEF P, Q

(* A call that prunes nothing changes, and so do no lists.                 *)
LEMMA DegreeKept ==
  ASSUME NodesInv, UNCHANGED nodes, DegreeBound,
         NEW t \in Threads, call[t].at \notin {"check", "commit"},
         \A u \in Threads : u # t => call'[u] = call[u]
  PROVE  DegreeBound'
<1>1. NodesInv' /\ Ids' = Ids
  BY NodesUntouched
<1>2. ASSUME NEW a, NEW l, NEW u \in Pruning(a, l)
      PROVE  u \in Pruning(a, l)'
  BY <1>2 DEF Pruning
<1>3. QED
  BY <1>1, <1>2, DegreeStep

(* A step of one call that changes nothing in the graph.                   *)
LEMMA GraphUntouched ==
  ASSUME GraphInv, UNCHANGED graph,
         NEW t \in Threads, call[t].at \notin {"check", "commit"},
         NEW d, call' = [call EXCEPT ![t] = d], CallInv(d, nodes)
  PROVE  GraphInv'
<1>1. /\ UNCHANGED nodes
      /\ NodesInv' /\ Ids' = Ids /\ LevelsKept(nodes, nodes')
  BY NodesUntouched DEF graph, GraphInv
<1>2. CallsInv'
  BY <1>1, CallReplaced DEF GraphInv
<1>3. DegreeBound'
  BY <1>1, DegreeKept DEF GraphInv, CallsInv
<1>4. EntryInv'
  BY <1>1 DEF graph, EntryInv, GraphInv
<1>5. QED
  BY <1>1, <1>2, <1>3, <1>4 DEF GraphInv

(* A thread that is in no call is sound.                                   *)
LEMMA IdleIsTyped ==
  ASSUME NEW ns
  PROVE  CallInv(Idle, ns)
<1>1. 0 \in Layers /\ Positions \in SUBSET Positions
  BY ConstantFacts
<1>2. QED
  BY <1>1 DEF CallInv, CallType, Wires, Idle, Places

(* The sets that a call searches in.                                       *)
LEMMA PlacesInGraph ==
  ASSUME NodesInv, NEW X, X \subseteq Ids, NEW q \in Positions \cup {0}
  PROVE  Placed(nodes, X, q) /\ IsFiniteSet(X)
<1>1. q \in Int /\ \A i \in Ids : nodes[i].pos \in Int
  BY ConstantFacts DEF NodesInv, NodeType
<1>2. QED
  BY <1>1, IdFacts, FS_Subset DEF Placed, NodesInv

(* _greedy_step stays on the layer, and every node is on the one below.    *)
LEMMA DescendStep ==
  ASSUME GraphInv, NEW t \in Threads, Descend(t)
  PROVE  GraphInv'
<1> DEFINE c == call[t]
<1>1. c.at = "descend" /\ CallInv(c, nodes) /\ UNCHANGED graph
  BY DEF Descend, At, GraphInv, CallsInv
<1>2. NodesInv
  BY DEF GraphInv
<1>3. /\ c \in CallType(Ids) /\ c.ep \in Ids /\ c.layer \in Layers
      /\ c.op \in {"insert", "search"}
      /\ c.op = "insert" => c.id \in Ids /\ c.ep \in OnLayer(nodes, c.layer)
  BY <1>1 DEF CallInv, CallType, Wires, Ids
<1>4. Bottom(t) \in Layers /\ (c.op = "insert" => Bottom(t) = nodes[c.id].level)
  BY <1>2, <1>3, ConstantFacts DEF Bottom, NodesInv, NodeType
<1>5. /\ c.layer \in Int /\ Bottom(t) \in Int /\ Bottom(t) >= 0
      /\ c.layer > 0 => c.layer - 1 \in Layers
      /\ \A i \in Ids : nodes[i].level \in Int
  <2> HIDE DEF c
  <2>1. QED
    BY <1>2, <1>3, <1>4, ConstantFacts DEF NodesInv, NodeType
<1>6. PICK d : call' = [call EXCEPT ![t] = d] /\ CallInv(d, nodes)
  <2>1. CASE c.layer <= Bottom(t)
    <3> DEFINE beam == Beam(nodes, c.ep, Admitted(t))
               d    == Updated(c, [at |-> "search", beam |-> beam])
    <3>1. call' = [call EXCEPT ![t] = d]
      BY <2>1 DEF Descend, Do
    <3>2. /\ beam \in Beams(Ids)
          /\ c.op = "insert" => /\ beam \in Beams(OnLayer(nodes, c.layer))
                               /\ c.id \in OnLayer(nodes, c.layer)
      BY <1>3, <1>4, <2>1, BeamIsIn DEF Ids, OnLayer
    <3> HIDE DEF beam
    <3>3. d \in CallType(Ids)
      BY <1>3, <3>2 DEF CallType, Updated, Beams, Places
    <3>4. /\ d.at = "search" /\ d.beam = beam
          /\ d.op = c.op /\ d.id = c.id /\ d.ep = c.ep /\ d.layer = c.layer
      BY <1>3, UpdatedFields
    <3> HIDE DEF c, d
    <3>5. CallInv(d, nodes)
      BY <1>3, <3>2, <3>3, <3>4 DEF CallInv, Wires, Ids
    <3>6. QED
      BY <3>1, <3>5
  <2>2. CASE c.layer > Bottom(t)
    <3>1. ~ (c.layer <= Bottom(t))
      BY <1>5, <2>2
    <3> DEFINE nearer == Improve(nodes, c.q, c.ep, c.layer)
    <3>2. nearer \in Neighbors(nodes, c.ep, c.layer) \cup {c.ep}
      <4>1. Neighbors(nodes, c.ep, c.layer) \subseteq Ids
        BY <1>2, <1>3, ListIsTyped DEF Neighbors, ToSet
      <4>2. c.q \in Int
        BY <1>3, ConstantFacts DEF CallType
      <4>3. Placed(nodes, Neighbors(nodes, c.ep, c.layer), c.q)
        BY <1>2, <4>1, <4>2, ConstantFacts DEF Placed, NodesInv, NodeType
      <4>4. QED
        BY <4>3, ImproveIsIn
    <3>3. nearer \in Ids /\ (c.op = "insert" => nearer \in OnLayer(nodes, c.layer))
      BY <1>2, <1>3, <3>2, ListIsTyped DEF Neighbors, ToSet
    <3> HIDE DEF nearer
    <3>4. CASE nearer # c.ep
      <4> DEFINE d == Updated(c, [ep |-> nearer])
      <4>1. call' = [call EXCEPT ![t] = d]
        BY <3>1, <3>4 DEF Descend, Do, nearer
      <4>2. d \in CallType(Ids)
        BY <1>3, <3>3 DEF CallType, Updated
      <4>3. /\ d.at = c.at /\ d.ep = nearer /\ d.op = c.op /\ d.id = c.id /\ d.layer = c.layer
        BY <1>3, UpdatedFields
      <4>4. c.at = "descend"
        BY <1>1
      <4> HIDE DEF c, d
      <4>5. CallInv(d, nodes)
        BY <1>3, <3>3, <4>2, <4>3, <4>4 DEF CallInv, Wires, Ids
      <4>6. QED
        BY <4>1, <4>5
    <3>5. CASE nearer = c.ep
      <4> DEFINE d == Updated(c, [layer |-> c.layer - 1])
      <4>1. call' = [call EXCEPT ![t] = d]
        BY <3>1, <3>5 DEF Descend, Do, nearer
      <4>2. c.layer - 1 \in Layers
        BY <1>5, <2>2
      <4>3. d \in CallType(Ids)
        BY <1>3, <4>2 DEF CallType, Updated
      <4>4. /\ d.at = c.at /\ d.ep = c.ep /\ d.op = c.op /\ d.id = c.id /\ d.layer = c.layer - 1
        BY <1>3, UpdatedFields
      <4>5. c.at = "descend"
        BY <1>1
      <4>6. OnLayer(nodes, c.layer) \subseteq OnLayer(nodes, c.layer - 1)
        BY <1>5 DEF OnLayer, Ids
      <4> HIDE DEF c, d
      <4>7. CallInv(d, nodes)
        BY <1>3, <4>3, <4>4, <4>5, <4>6 DEF CallInv, Wires, Ids
      <4>8. QED
        BY <4>1, <4>7
    <3>6. QED
      BY <3>4, <3>5
  <2>3. QED
    BY <1>5, <2>1, <2>2
<1>7. QED
  BY <1>1, <1>6, GraphUntouched

(* link() starts at the entry point, which is on the top layer.            *)
LEMMA BeginStep ==
  ASSUME GraphInv, NEW t \in Threads, Begin(t)
  PROVE  GraphInv'
<1> DEFINE c == call[t]
<1>1. c.at = "begin" /\ CallInv(c, nodes) /\ UNCHANGED graph
  BY DEF Begin, At, GraphInv, CallsInv
<1>2. c \in CallType(Ids) /\ c.op = "insert" /\ c.id \in Ids
  BY <1>1 DEF CallInv, Wires, Ids
<1>3. PICK d : call' = [call EXCEPT ![t] = d] /\ CallInv(d, nodes)
  <2>1. CASE entryPoint \in {c.id, None}
    BY <2>1, IdleIsTyped DEF Begin, Leave
  <2>2. CASE entryPoint \notin {c.id, None}
    <3> DEFINE d == Updated(c, [at |-> "descend", ep |-> entryPoint,
                                top |-> maxLayer, layer |-> maxLayer])
    <3>1. call' = [call EXCEPT ![t] = d]
      BY <2>2 DEF Begin, Do
    <3>2. entryPoint \in Ids /\ maxLayer \in Layers /\ entryPoint \in OnLayer(nodes, maxLayer)
      <4>1. entryPoint \in Ids /\ nodes[entryPoint].level = maxLayer
        BY <2>2 DEF GraphInv, EntryInv
      <4>2. nodes[entryPoint].level \in Layers
        BY <4>1 DEF GraphInv, NodesInv, NodeType
      <4>3. maxLayer \in Layers /\ maxLayer >= maxLayer
        <5>1. maxLayer \in Layers /\ maxLayer \in Int
          BY <4>1, <4>2, ConstantFacts
        <5>2. QED
          BY <5>1
      <4>4. QED
        BY <4>1, <4>3 DEF OnLayer, Ids
    <3>3. d \in CallType(Ids)
      BY <1>2, <3>2 DEF CallType, Updated, Places
    <3>4. /\ d.at = "descend" /\ d.ep = entryPoint /\ d.layer = maxLayer
          /\ d.op = c.op /\ d.id = c.id
      BY <1>2, UpdatedFields
    <3> HIDE DEF c, d
    <3>5. CallInv(d, nodes)
      BY <1>2, <3>2, <3>3, <3>4 DEF CallInv, Wires, Ids
    <3>6. QED
      BY <3>1, <3>5
  <2>3. QED
    BY <2>1, <2>2
<1>4. QED
  BY <1>1, <1>3, GraphUntouched

(* _search_layer stays on the layer.                                       *)
LEMMA ExploreStep ==
  ASSUME GraphInv, NEW t \in Threads, Explore(t)
  PROVE  GraphInv'
<1> DEFINE c == call[t]
           beam == Expand(nodes, c.beam, c.q, Ef(t), c.layer, Admitted(t))
           d    == Updated(c, [beam |-> beam])
<1>1. /\ c.at = "search" /\ CallInv(c, nodes) /\ UNCHANGED graph
      /\ call' = [call EXCEPT ![t] = d]
      /\ c.beam.open # {}
  BY DEF Explore, At, GraphInv, CallsInv, Do, Exhausted
<1>2. /\ c \in CallType(Ids) /\ c.layer \in Layers /\ c.q \in Positions \cup {0}
      /\ c.beam \in Beams(Ids) /\ c.op # "none" /\ c.ep \in Ids
      /\ c.op = "insert" => /\ c.id \in Ids /\ c.id \in OnLayer(nodes, c.layer)
                           /\ c.ep \in OnLayer(nodes, c.layer)
                           /\ c.beam \in Beams(OnLayer(nodes, c.layer))
  BY <1>1 DEF CallInv, CallType, Wires, Ids, Beams
<1>3. ASSUME NEW X, X \subseteq Ids, c.beam \in Beams(X),
             \A i \in X : nodes[i].neighbors[c.layer] \in Seq(X)
      PROVE  beam \in Beams(X)
  BY <1>1, <1>2, <1>3, PlacesInGraph, ExpandIsIn DEF GraphInv
<1>4. /\ beam \in Beams(Ids)
      /\ c.op = "insert" => beam \in Beams(OnLayer(nodes, c.layer))
  <2>1. OnLayer(nodes, c.layer) \subseteq Ids
    BY DEF OnLayer, Ids
  <2>2. \A i \in Ids : /\ nodes[i].neighbors[c.layer] \in Seq(Ids)
                      /\ nodes[i].neighbors[c.layer] \in Seq(OnLayer(nodes, c.layer))
    BY <1>2, ListIsTyped DEF GraphInv
  <2> HIDE DEF c, beam
  <2>3. QED
    BY <1>2, <1>3, <2>1, <2>2
<1> HIDE DEF beam
<1>5. d \in CallType(Ids)
  BY <1>2, <1>4 DEF CallType, Updated, Beams
<1>6. /\ d.at = c.at /\ d.beam = beam
      /\ d.op = c.op /\ d.id = c.id /\ d.ep = c.ep /\ d.layer = c.layer
  BY <1>2, UpdatedFields
<1>7. PICK e : e = d
  OBVIOUS
<1>8. c.at = "search"
  BY <1>1
<1> HIDE DEF c, d
<1>9. CallInv(e, nodes)
  BY <1>2, <1>4, <1>5, <1>6, <1>7, <1>8 DEF CallInv, Wires, Ids
<1>10. QED
  BY <1>1, <1>7, <1>9, GraphUntouched DEF c

(* The next layer is entered at a node that is on it.                      *)
LEMMA NextLayerStep ==
  ASSUME GraphInv, NEW t \in Threads, NextLayer(t)
  PROVE  GraphInv'
<1> DEFINE c == call[t]
<1>1. c.at = "append" /\ CallInv(c, nodes) /\ UNCHANGED graph
  BY DEF NextLayer, NextLayerDownTo, At, GraphInv, CallsInv
<1>2. /\ c \in CallType(Ids) /\ c.layer \in Layers
      /\ c.op = "insert" /\ c.id \in OnLayer(nodes, c.layer)
      /\ c.ep \in OnLayer(nodes, c.layer)
  BY <1>1 DEF CallInv, CallType, Wires, Ids
<1>3. PICK d : call' = [call EXCEPT ![t] = d] /\ CallInv(d, nodes)
  <2>1. CASE c.layer > 0
    <3> DEFINE beam == Beam(nodes, c.ep, Admitted(t))
               l == c.layer - 1
               d == Updated(c, [at |-> "search", layer |-> l, beam |-> beam])
    <3>1. call' = [call EXCEPT ![t] = d]
      BY <2>1 DEF NextLayer, NextLayerDownTo, Do
    <3>2. l \in Layers /\ OnLayer(nodes, c.layer) \subseteq OnLayer(nodes, l)
      <4>1. c.layer \in Int /\ \A i \in Ids : nodes[i].level \in Int
        BY <1>2, ConstantFacts DEF GraphInv, NodesInv, NodeType
      <4>2. QED
        BY <1>2, <2>1, <4>1, ConstantFacts DEF OnLayer, Ids
    <3> HIDE DEF l
    <3>3. /\ c.id \in OnLayer(nodes, l) /\ c.ep \in OnLayer(nodes, l)
          /\ OnLayer(nodes, l) \subseteq Ids
      BY <1>2, <3>2 DEF OnLayer, Ids
    <3>4. beam \in Beams(OnLayer(nodes, l)) /\ beam \in Beams(Ids)
      BY <3>3, BeamIsIn
    <3> HIDE DEF beam
    <3>5. d \in CallType(Ids)
      BY <1>2, <3>2, <3>4 DEF CallType, Updated, Beams, Places
    <3>6. /\ d.at = "search" /\ d.beam = beam /\ d.layer = l
          /\ d.op = c.op /\ d.id = c.id /\ d.ep = c.ep
      BY <1>2, UpdatedFields
    <3> HIDE DEF c, d
    <3>7. CallInv(d, nodes)
      BY <1>2, <3>3, <3>4, <3>5, <3>6 DEF CallInv, Wires, Ids
    <3>8. QED
      BY <3>1, <3>7
  <2>2. CASE ~ (c.layer > 0) /\ nodes[c.id].level > c.top
    <3> DEFINE d == Updated(c, [at |-> "promote"])
    <3>1. call' = [call EXCEPT ![t] = d]
      BY <2>2 DEF NextLayer, NextLayerDownTo, Do
    <3>2. d \in CallType(Ids)
      BY <1>2 DEF CallType, Updated, Places
    <3>3. d.at = "promote" /\ d.op = c.op /\ d.id = c.id
      BY <1>2, UpdatedFields
    <3> HIDE DEF c, d
    <3>4. CallInv(d, nodes)
      BY <1>2, <3>2, <3>3 DEF CallInv, Wires, Ids, OnLayer
    <3>5. QED
      BY <3>1, <3>4
  <2>3. CASE ~ (c.layer > 0) /\ ~ (nodes[c.id].level > c.top)
    BY <2>3, IdleIsTyped DEF NextLayer, NextLayerDownTo, Leave
  <2>4. QED
    BY <2>1, <2>2, <2>3
<1>4. QED
  BY <1>1, <1>3, GraphUntouched

(* search() begins at a node and returns nodes.                            *)
LEMMA SearcherStep ==
  ASSUME GraphInv, NEW t \in Threads, StartSearch(t) \/ ReadTop(t) \/ Answer(t) \/ Return(t)
  PROVE  GraphInv'
<1> DEFINE c == call[t]
<1>1. /\ c.at \in {"idle", "top", "search", "answer"} /\ CallInv(c, nodes) /\ UNCHANGED graph
      /\ c \in CallType(Ids)
  BY DEF StartSearch, ReadTop, Answer, Return, At, GraphInv, CallsInv
<1>2. CASE StartSearch(t)
  <2>1. PICK q \in Queries, allowed \in Filters :
          Do(t, [at |-> "top", op |-> "search", q |-> q, allowed |-> allowed, ep |-> entryPoint,
                 before |-> {i \in Reachable \cap Live : nodes[i].pos \in allowed}])
    BY <1>2 DEF StartSearch
  <2> DEFINE before == {i \in Reachable \cap Live : nodes[i].pos \in allowed}
             d == Updated(c, [at |-> "top", op |-> "search", q |-> q, allowed |-> allowed,
                              ep |-> entryPoint, before |-> before])
  <2>2. /\ before \in SUBSET Ids
        /\ q \in Positions /\ allowed \in SUBSET Positions
        /\ entryPoint \in Ids
    BY <1>2, GraphAssumption DEF Live, StartSearch, GraphInv, EntryInv
  <2> HIDE DEF before
  <2>3. d \in CallType(Ids)
    BY <1>1, <2>2 DEF CallType, Updated, Places
  <2>4. d.at = "top" /\ d.op = "search" /\ d.ep = entryPoint
    BY <1>1, UpdatedFields
  <2>5. PICK e : e = d
    OBVIOUS
  <2>6. call' = [call EXCEPT ![t] = e]
    BY <2>1, <2>5 DEF Do, before
  <2> HIDE DEF c, d
  <2>7. CallInv(e, nodes)
    BY <2>2, <2>3, <2>4, <2>5 DEF CallInv, Wires, Ids
  <2>8. QED
    BY <1>1, <2>6, <2>7, GraphUntouched DEF c
<1>3. CASE ReadTop(t)
  <2> DEFINE l == IF maxLayer > 0 THEN maxLayer ELSE 0
             d == Updated(c, [at |-> "descend", layer |-> l])
  <2>1. l \in Layers
    BY ConstantFacts DEF GraphInv, EntryInv
  <2>2. c.at = "top" /\ c.ep \in Ids /\ c.op = "search"
    BY <1>1, <1>3 DEF ReadTop, At, CallInv, Ids
  <2> HIDE DEF l
  <2>3. d \in CallType(Ids)
    BY <1>1, <2>1 DEF CallType, Updated, Places
  <2>4. d.at = "descend" /\ d.op = c.op /\ d.ep = c.ep /\ d.id = c.id /\ d.layer = l
    BY <1>1, UpdatedFields
  <2>5. PICK e : e = d
    OBVIOUS
  <2>6. call' = [call EXCEPT ![t] = e]
    BY <1>3, <2>5 DEF ReadTop, Do, l
  <2> HIDE DEF c, d
  <2>7. CallInv(e, nodes)
    BY <2>2, <2>3, <2>4, <2>5 DEF CallInv, Wires, Ids
  <2>8. QED
    BY <1>1, <2>6, <2>7, GraphUntouched DEF c
<1>4. CASE Answer(t)
  <2> DEFINE hits == ByDistance(nodes, c.beam.found, c.q)
             list == SubSeq(hits, 1, IF Len(hits) < K THEN Len(hits) ELSE K)
             d    == Updated(c, [at |-> "answer", list |-> list])
  <2>1. c.beam.found \subseteq Ids /\ c.q \in Positions \cup {0} /\ c.op = "search"
    BY <1>1, <1>4 DEF CallType, Answer
  <2>2. list \in Seq(Ids)
    <3>1. hits \in [1..Cardinality(c.beam.found) -> c.beam.found]
      BY <2>1, PlacesInGraph, SortedIsPermutation DEF GraphInv
    <3>2. Cardinality(c.beam.found) \in Nat
      BY <2>1, PlacesInGraph, FS_CardinalityType DEF GraphInv
    <3> HIDE DEF hits
    <3>3. hits \in Seq(Ids)
      BY <2>1, <3>1, <3>2
    <3>4. K \in Nat
      BY GraphAssumption
    <3>5. QED
      BY <3>3, <3>4
  <2>3. call' = [call EXCEPT ![t] = d]
    BY <1>4 DEF Answer, Do
  <2> HIDE DEF list
  <2>4. d \in CallType(Ids)
    BY <1>1, <2>2 DEF CallType, Updated, Places
  <2>5. d.at = "answer" /\ d.op = c.op
    BY <1>1, UpdatedFields
  <2>6. PICK e : e = d
    OBVIOUS
  <2> HIDE DEF c, d
  <2>7. CallInv(e, nodes)
    BY <2>1, <2>4, <2>5, <2>6 DEF CallInv, Wires, Ids
  <2>8. QED
    BY <1>1, <2>3, <2>6, <2>7, GraphUntouched DEF c
<1>5. CASE Return(t)
  BY <1>1, <1>5, IdleIsTyped, GraphUntouched DEF Return, Leave
<1>6. QED
  BY <1>2, <1>3, <1>4, <1>5

(* A list that is short enough needs no prune.                             *)
LEMMA CheckStep ==
  ASSUME GraphInv, NEW t \in Threads, Check(t)
  PROVE  GraphInv'
<1> DEFINE c == call[t]
           l == c.layer
           a == Head(c.list)
           their == nodes[a].neighbors[l]
<1>1. c.at = "check" /\ CallInv(c, nodes) /\ UNCHANGED graph
  BY DEF Check, CheckReading, At, GraphInv, CallsInv
<1>2. /\ c \in CallType(Ids) /\ l \in Layers
      /\ c.op = "insert" /\ c.id \in OnLayer(nodes, l) /\ c.ep \in OnLayer(nodes, l)
      /\ c.list \in Seq(OnLayer(nodes, l)) /\ c.list # << >>
  BY <1>1 DEF CallInv, CallType, Wires, Ids
<1>3. /\ a \in OnLayer(nodes, l) /\ Tail(c.list) \in Seq(OnLayer(nodes, l))
      /\ OnLayer(nodes, l) \subseteq Ids /\ a \in Ids
  BY <1>2 DEF OnLayer, Ids
<1>4. /\ UNCHANGED nodes /\ Ids' = Ids
      /\ NodesInv /\ NodesInv' /\ LevelsKept(nodes, nodes')
  BY <1>1, NodesUntouched DEF graph, GraphInv
<1>5. their \in Seq(Ids) /\ Len(their) \in Nat
  BY <1>2, <1>3, <1>4, ListIsTyped
<1>6. PICK d : /\ call' = [call EXCEPT ![t] = d] /\ CallInv(d, nodes)
               /\ \/ Len(their) <= Target(l)
                  \/ d.at = "commit" /\ d.list = c.list /\ d.layer = l
  <2>1. CASE Len(their) <= Target(l)
    <3> DEFINE rest == Tail(c.list)
               none == << >>
               d    == Updated(c, [at |-> "append", list |-> rest, read |-> none])
    <3>1. call' = [call EXCEPT ![t] = d]
      BY <2>1 DEF Check, CheckReading, Theirs, Do
    <3>2. d \in CallType(Ids)
      <4>1. rest \in Seq(Ids)
        <5>1. Seq(OnLayer(nodes, l)) \subseteq Seq(Ids)
          BY <1>3, SeqMonotonic
        <5>2. QED
          BY <1>3, <5>1, Zenon
      <4>2. none \in Seq(Ids)
        OBVIOUS
      <4> HIDE DEF rest, none
      <4>3. QED
        BY <1>2, <4>1, <4>2 DEF CallType, Updated, Places
    <3> HIDE DEF rest, none
    <3>3. /\ d.at = "append" /\ d.list = rest
          /\ d.op = c.op /\ d.id = c.id /\ d.ep = c.ep /\ d.layer = l
      BY <1>2, UpdatedFields
    <3>4. rest \in Seq(OnLayer(nodes, l))
      BY <1>3 DEF rest
    <3> HIDE DEF c, l, d
    <3>5. CallInv(d, nodes)
      BY <1>2, <1>3, <3>2, <3>3, <3>4 DEF CallInv, Wires, Ids
    <3>6. QED
      BY <2>1, <3>1, <3>5
  <2>2. CASE ~ (Len(their) <= Target(l))
    <3> DEFINE d == Updated(c, [at |-> "commit", read |-> their])
    <3>1. call' = [call EXCEPT ![t] = d]
      BY <2>2 DEF Check, CheckReading, Theirs, Do
    <3> HIDE DEF their
    <3>2. d \in CallType(Ids)
      BY <1>2, <1>5 DEF CallType, Updated, Places
    <3>3. /\ d.at = "commit" /\ d.list = c.list
          /\ d.op = c.op /\ d.id = c.id /\ d.ep = c.ep /\ d.layer = l
      BY <1>2, UpdatedFields
    <3> HIDE DEF c, l, d
    <3>4. CallInv(d, nodes)
      BY <1>2, <1>3, <3>2, <3>3 DEF CallInv, Wires, Ids
    <3>5. QED
      BY <3>1, <3>3, <3>4
  <2>3. QED
    BY <2>1, <2>2
<1>7. CallsInv'
  BY <1>4, <1>6, CallReplaced DEF GraphInv
<1>8. DegreeBound'
  <2>1. \A u \in Threads : call'[u] = IF u = t THEN d ELSE call[u]
    BY <1>6 DEF GraphInv, CallsInv
  <2>2. ASSUME NEW x \in Ids', NEW k \in Layers, Len(nodes'[x].neighbors[k]) > Target(k),
               NEW u \in Pruning(x, k)
        PROVE  u \in Pruning(x, k)'
    <3>1. CASE u # t
      BY <2>1, <2>2, <3>1 DEF Pruning
    <3>2. CASE u = t
      <4>1. x = a /\ k = l
        BY <2>2, <3>2 DEF Pruning
      <4>2. d.at = "commit" /\ d.list = c.list /\ d.layer = l
        <5>1. Len(their) > Target(l)
          BY <1>4, <2>2, <4>1
        <5>2. Target(l) \in Nat
          BY ConstantFacts
        <5>3. ~ (Len(their) <= Target(l))
          <6>1. \A m, n \in Nat : m > n => ~ (m <= n)
            OBVIOUS
          <6>2. QED
            BY <1>5, <5>1, <5>2, <6>1, Zenon
        <5>4. QED
          BY <1>6, <5>3
      <4>3. QED
        BY <2>1, <3>2, <4>1, <4>2 DEF Pruning
    <3>3. QED
      BY <3>1, <3>2
  <2>3. \A x \in Ids', k \in Layers :
          /\ x \in Ids /\ nodes'[x].neighbors[k] = nodes[x].neighbors[k]
          /\ Len(nodes'[x].neighbors[k]) \in Nat /\ Target(k) \in Nat
    BY <1>4, ListIsTyped, ConstantFacts
  <2>4. QED
    BY <1>4, <2>2, <2>3, DegreeStep DEF GraphInv
<1>9. EntryInv'
  BY <1>1, <1>4 DEF graph, EntryInv, GraphInv
<1>10. QED
  BY <1>4, <1>7, <1>8, <1>9 DEF GraphInv

(* The step gives thread t the call d, and nothing else.                   *)
Calls(t, d) == call' = [call EXCEPT ![t] = d]

(* A step of a call that rewrites one list of a node of that layer.        *)
LEMMA ListStep ==
  ASSUME GraphInv, NEW x \in Ids, NEW layer \in Layers, NEW list,
         Writes(x, layer, list), entryPoint' = entryPoint, maxLayer' = maxLayer,
         nodes[x].level >= layer, list \in Seq(OnLayer(nodes, layer)), IsInjective(list),
         NEW t \in Threads, NEW d, Calls(t, d), CallInv(d, nodes)
  PROVE  /\ NodesInv' /\ EntryInv' /\ CallsInv' /\ Ids' = Ids
         /\ \A a \in Ids, l \in Layers :
              nodes'[a].neighbors[l] = IF a = x /\ l = layer THEN list ELSE nodes[a].neighbors[l]
<1>1. /\ NodesInv' /\ Ids' = Ids /\ LevelsKept(nodes, nodes')
      /\ \A a \in Ids, l \in Layers :
           nodes'[a].neighbors[l] = IF a = x /\ l = layer THEN list ELSE nodes[a].neighbors[l]
  BY ListReplaced DEF GraphInv
<1>2. CallsInv'
  BY <1>1, CallStays, CallReplaced DEF GraphInv, Calls
<1>3. EntryInv'
  BY <1>1 DEF GraphInv, EntryInv, LevelsKept, Ids
<1>4. QED
  BY <1>1, <1>2, <1>3

(* A thread goes on pruning a list unless its call moves on from it.       *)
LEMMA PruningKept ==
  ASSUME CallsInv, NEW t \in Threads, NEW d, call' = [call EXCEPT ![t] = d], NEW a, NEW l,
         t \in Pruning(a, l) =>
           d.at \in {"check", "commit"} /\ Head(d.list) = a /\ d.layer = l
  PROVE  \A u \in Pruning(a, l) : u \in Pruning(a, l)'
<1>1. \A u \in Threads : call'[u] = IF u = t THEN d ELSE call[u]
  BY DEF CallsInv
<1>2. QED
  BY <1>1 DEF Pruning

(* set_neighbors writes nodes of the layer, at most m_target of them.      *)
LEMMA SelectStep ==
  ASSUME GraphInv, NEW t \in Threads, SetNeighbors(t)
  PROVE  GraphInv'
<1> DEFINE c          == call[t]
           l          == c.layer
           candidates == ByDistance(nodes, c.beam.found, c.q)
           selected   == SelectNeighbors(nodes, c.beam.found, c.q, Target(l))
           ep         == IF candidates = << >> THEN c.ep ELSE Head(candidates)
           d          == Updated(c, [at |-> "append", list |-> selected,
                                     beam |-> Idle.beam, ep |-> ep])
<1>1. /\ c.at = "search" /\ c.op = "insert" /\ CallInv(c, nodes)
      /\ Writes(c.id, l, selected)
      /\ call' = [call EXCEPT ![t] = d]
      /\ UNCHANGED <<entryPoint, maxLayer>>
  BY DEF SetNeighbors, At, Do, Writes, GraphInv, CallsInv
<1>2. /\ c \in CallType(Ids) /\ l \in Layers /\ c.q \in Positions \cup {0}
      /\ c.id \in OnLayer(nodes, l) /\ c.ep \in OnLayer(nodes, l)
      /\ c.beam.found \subseteq OnLayer(nodes, l)
      /\ OnLayer(nodes, l) \subseteq Ids
  BY <1>1 DEF CallInv, CallType, Wires, Ids, Beams, OnLayer
<1>3. c.id \in Ids /\ nodes[c.id].level >= l
  BY <1>2 DEF OnLayer, Ids
<1>4. Placed(nodes, c.beam.found, c.q) /\ IsFiniteSet(c.beam.found)
  BY <1>2, PlacesInGraph DEF GraphInv
<1>5. /\ selected \in Seq(c.beam.found) /\ IsInjective(selected)
      /\ Len(selected) <= Target(l)
  BY <1>4, ConstantFacts, SelectedAreCandidates
<1>6. ep \in OnLayer(nodes, l)
  <2>1. candidates \in [1..Cardinality(c.beam.found) -> c.beam.found]
    BY <1>4, SortedIsPermutation
  <2>2. Cardinality(c.beam.found) \in Nat
    BY <1>4, FS_CardinalityType
  <2> HIDE DEF candidates
  <2>3. candidates # << >> => Head(candidates) \in c.beam.found
    BY <2>1, <2>2
  <2>4. QED
    BY <1>2, <2>3
<1> HIDE DEF selected, ep
<1>7. selected \in Seq(OnLayer(nodes, l)) /\ selected \in Seq(Ids)
  <2>1. c.beam.found \subseteq Ids
    BY <1>2
  <2>2. QED
    BY <1>2, <1>5, <2>1, SeqMonotonic
<1>8. d \in CallType(Ids)
  <2>1. Idle.beam \in [open : SUBSET Ids, seen : SUBSET Ids, found : SUBSET Ids]
    BY DEF Idle
  <2>2. QED
    BY <1>2, <1>6, <1>7, <2>1 DEF CallType, Updated, Places
<1>9. /\ d.at = "append" /\ d.list = selected /\ d.ep = ep
      /\ d.op = c.op /\ d.id = c.id /\ d.layer = l
  BY <1>2, UpdatedFields
<1>10. PICK e : e = d
  OBVIOUS
<1>11. CallInv(e, nodes)
  <2>1. c.op = "insert"
    BY <1>1
  <2> HIDE DEF c, l, d
  <2>2. QED
    BY <1>2, <1>3, <1>6, <1>7, <1>8, <1>9, <1>10, <2>1 DEF CallInv, Wires, Ids
<1>12. call' = [call EXCEPT ![t] = e]
  BY <1>1, <1>10
<1>13. /\ NodesInv' /\ EntryInv' /\ CallsInv' /\ Ids' = Ids
       /\ \A a \in Ids, k \in Layers :
            nodes'[a].neighbors[k] = IF a = c.id /\ k = l THEN selected
                                     ELSE nodes[a].neighbors[k]
  <2> HIDE DEF c, l
  <2>1. /\ Writes(c.id, l, selected) /\ entryPoint' = entryPoint /\ maxLayer' = maxLayer
        /\ c.id \in Ids /\ l \in Layers /\ nodes[c.id].level >= l
        /\ selected \in Seq(OnLayer(nodes, l)) /\ IsInjective(selected)
        /\ Calls(t, e) /\ CallInv(e, nodes)
    BY <1>1, <1>2, <1>3, <1>5, <1>7, <1>11, <1>12 DEF Calls
  <2>2. QED
    BY <2>1, ListStep
<1>14. \A a, k : \A u \in Pruning(a, k) : u \in Pruning(a, k)'
  <2>1. \A a, k : t \notin Pruning(a, k)
    BY <1>1 DEF Pruning
  <2>2. QED
    BY <1>12, <2>1, PruningKept DEF GraphInv
<1>15. DegreeBound'
  <2> HIDE DEF c, l
  <2>1. QED
    BY <1>5, <1>13, <1>14, DegreeStep DEF GraphInv
<1>16. QED
  BY <1>13, <1>15 DEF GraphInv

(* Appending what is not in a sequence repeats nothing.                    *)
LEMMA AppendIsProper ==
  ASSUME NEW S, NEW s \in Seq(S), IsInjective(s), NEW x \in S, x \notin ToSet(s)
  PROVE  Append(s, x) \in Seq(S) /\ IsInjective(Append(s, x)) /\ Len(Append(s, x)) = Len(s) + 1
<1>1. Append(s, x) \in Seq(S) /\ Len(Append(s, x)) = Len(s) + 1 /\ Len(s) \in Nat
  OBVIOUS
<1>2. \A k \in DOMAIN s : s[k] # x
  BY DEF ToSet
<1>3. \A k \in 1..(Len(s) + 1) : Append(s, x)[k] = IF k = Len(s) + 1 THEN x ELSE s[k]
  OBVIOUS
<1>4. DOMAIN s = 1..Len(s) /\ DOMAIN Append(s, x) = 1..(Len(s) + 1)
  OBVIOUS
<1> DEFINE r == Append(s, x)
           n == Len(s)
<1> HIDE DEF r, n
<1>5. ASSUME NEW i \in DOMAIN r, NEW j \in DOMAIN r, r[i] = r[j]
      PROVE  i = j
  <2>1. /\ i \in 1..(n + 1) /\ j \in 1..(n + 1)
        /\ r[i] = (IF i = n + 1 THEN x ELSE s[i]) /\ r[j] = (IF j = n + 1 THEN x ELSE s[j])
    BY <1>3, <1>4, <1>5 DEF r, n
  <2>2. /\ i # n + 1 => i \in DOMAIN s
        /\ j # n + 1 => j \in DOMAIN s
    BY <1>1, <1>4, <2>1 DEF n
  <2>3. QED
    BY <1>2, <1>5, <2>1, <2>2 DEF IsInjective
<1>6. QED
  BY <1>1, <1>5 DEF r, IsInjective

(* An append makes a list one longer, and its thread one that prunes it.   *)
LEMMA AppendStep ==
  ASSUME GraphInv, NEW t \in Threads, Connect(t)
  PROVE  GraphInv'
<1> DEFINE c     == call[t]
           l     == c.layer
           a     == Head(c.list)
           their == nodes[a].neighbors[l]
           d     == Updated(c, [at |-> "check"])
<1>1. PICK list :
        /\ Writes(a, l, list)
        /\ \/ list = their
           \/ list = Append(their, c.id) /\ c.id \notin ToSet(their)
  BY Zenon DEF Connect, ConnectWith, Theirs, Writes
<1>2. /\ c.at = "append" /\ c.list # << >> /\ CallInv(c, nodes)
      /\ call' = [call EXCEPT ![t] = d]
      /\ UNCHANGED <<entryPoint, maxLayer>>
  BY DEF Connect, ConnectWith, At, Do, GraphInv, CallsInv
<1>3. /\ c \in CallType(Ids) /\ l \in Layers /\ c.op = "insert"
      /\ c.id \in OnLayer(nodes, l) /\ c.ep \in OnLayer(nodes, l)
      /\ c.list \in Seq(OnLayer(nodes, l))
  BY <1>2 DEF CallInv, CallType, Wires, Ids
<1>4. a \in OnLayer(nodes, l)
  BY <1>2, <1>3
<1>5. a \in Ids /\ nodes[a].level >= l /\ c.id \in Ids
  BY <1>3, <1>4 DEF OnLayer, Ids
<1>6. /\ their \in Seq(OnLayer(nodes, l)) /\ IsInjective(their)
      /\ Len(their) \in Nat
  BY <1>3, <1>5, ListIsTyped DEF GraphInv, NodesInv, ListsAreProper
<1>7. /\ list \in Seq(OnLayer(nodes, l)) /\ IsInjective(list)
      /\ list = their \/ Len(list) = Len(their) + 1
  <2> HIDE DEF c, a, l, their
  <2>1. CASE list = their
    BY <1>6, <2>1
  <2>2. CASE list = Append(their, c.id) /\ c.id \notin ToSet(their)
    BY <1>3, <1>6, <2>2, AppendIsProper
  <2>3. QED
    BY <1>1, <2>1, <2>2
<1>8. d \in CallType(Ids)
  BY <1>3 DEF CallType, Updated, Places
<1>9. /\ d.at = "check" /\ d.list = c.list
      /\ d.op = c.op /\ d.id = c.id /\ d.ep = c.ep /\ d.layer = l
  BY <1>3, UpdatedFields
<1>10. PICK e : e = d
  OBVIOUS
<1>11. CallInv(e, nodes)
  <2>1. c.list # << >>
    BY <1>2
  <2> HIDE DEF c, l, d
  <2>2. QED
    BY <1>3, <1>5, <1>8, <1>9, <1>10, <2>1 DEF CallInv, Wires, Ids
<1>12. call' = [call EXCEPT ![t] = e]
  BY <1>2, <1>10
<1>13. /\ NodesInv' /\ EntryInv' /\ CallsInv' /\ Ids' = Ids
       /\ \A x \in Ids, k \in Layers :
            nodes'[x].neighbors[k] = IF x = a /\ k = l THEN list ELSE nodes[x].neighbors[k]
  <2> HIDE DEF c, l, a
  <2>1. /\ Writes(a, l, list) /\ entryPoint' = entryPoint /\ maxLayer' = maxLayer
        /\ a \in Ids /\ l \in Layers /\ nodes[a].level >= l
        /\ list \in Seq(OnLayer(nodes, l)) /\ IsInjective(list)
        /\ Calls(t, e) /\ CallInv(e, nodes)
    BY <1>1, <1>2, <1>3, <1>5, <1>7, <1>11, <1>12 DEF Calls
  <2>2. QED
    BY <2>1, ListStep
<1>14. /\ \A x, k : t \notin Pruning(x, k)
       /\ \A x, k : x = a /\ k = l => t \in Pruning(x, k)'
  <2>1. \A x, k : t \notin Pruning(x, k)
    BY <1>2 DEF Pruning
  <2>2. call'[t] = d
    BY <1>2 DEF GraphInv, CallsInv
  <2>3. QED
    BY <1>9, <2>1, <2>2 DEF Pruning
<1>15. \A x, k : \A u \in Pruning(x, k) : u \in Pruning(x, k)'
  BY <1>12, <1>14, PruningKept DEF GraphInv
<1>16. DegreeBound'
  <2>1. \A x \in Ids', k \in Layers :
           /\ x \in Ids
           /\ \/ nodes'[x].neighbors[k] = nodes[x].neighbors[k]
              \/ /\ Len(nodes'[x].neighbors[k]) = Len(nodes[x].neighbors[k]) + 1
                 /\ t \in Pruning(x, k)' /\ t \notin Pruning(x, k)
    <3>1. ASSUME NEW x \in Ids, NEW k \in Layers
          PROVE  \/ nodes'[x].neighbors[k] = nodes[x].neighbors[k]
                 \/ /\ x = a /\ k = l
                    /\ Len(nodes'[x].neighbors[k]) = Len(nodes[x].neighbors[k]) + 1
      BY <1>7, <1>13
    <3> HIDE DEF c, l, a
    <3>2. QED
      BY <1>13, <1>14, <3>1
  <2> HIDE DEF c, l
  <2>2. QED
    BY <1>13, <1>15, <2>1, DegreeStep DEF GraphInv
<1>17. QED
  BY <1>13, <1>16 DEF GraphInv

(* A committed list is within m_target; a retry still prunes it.           *)
LEMMA PruneStep ==
  ASSUME GraphInv, NEW t \in Threads, Commit(t)
  PROVE  GraphInv'
<1> DEFINE c     == call[t]
           l     == c.layer
           a     == Head(c.list)
           their == nodes[a].neighbors[l]
<1>1. /\ c.at = "commit" /\ CallInv(c, nodes)
      /\ UNCHANGED <<entryPoint, maxLayer>>
  BY DEF Commit, CommitIf, At, GraphInv, CallsInv
<1>2. /\ c \in CallType(Ids) /\ l \in Layers /\ c.op = "insert"
      /\ c.id \in OnLayer(nodes, l) /\ c.ep \in OnLayer(nodes, l)
      /\ c.list \in Seq(OnLayer(nodes, l)) /\ c.list # << >>
  BY <1>1 DEF CallInv, CallType, Wires, Ids
<1>3. /\ a \in OnLayer(nodes, l) /\ Tail(c.list) \in Seq(OnLayer(nodes, l))
      /\ OnLayer(nodes, l) \subseteq Ids /\ a \in Ids /\ nodes[a].level >= l
  BY <1>2 DEF OnLayer, Ids
<1>4. CASE their = c.read
  <2> DEFINE pruned == Pruned(a, c.read, Target(l))
             rest   == Tail(c.list)
             none   == << >>
             d      == Updated(c, [at |-> "append", list |-> rest, read |-> none])
  <2>1. Writes(a, l, pruned) /\ call' = [call EXCEPT ![t] = d]
    BY <1>4 DEF Commit, CommitIf, Theirs, Do, Writes
  <2>2. /\ pruned \in Seq(ToSet(their)) /\ IsInjective(pruned) /\ Len(pruned) <= Target(l)
        /\ ToSet(their) \subseteq OnLayer(nodes, l)
    <3> DEFINE S == ToSet(their)
               p == nodes[a].pos
    <3>1. S \subseteq OnLayer(nodes, l)
      BY <1>2, <1>3, ListIsTyped DEF ToSet, GraphInv
    <3>2. S \subseteq Ids /\ p \in Positions \cup {0}
      BY <1>3, <3>1 DEF GraphInv, NodesInv, NodeType
    <3> HIDE DEF S, p
    <3>3. Placed(nodes, S, p) /\ IsFiniteSet(S)
      BY <3>2, PlacesInGraph DEF GraphInv
    <3>4. /\ SelectNeighbors(nodes, S, p, Target(l)) \in Seq(S)
          /\ Len(SelectNeighbors(nodes, S, p, Target(l))) <= Target(l)
          /\ IsInjective(SelectNeighbors(nodes, S, p, Target(l)))
      BY <3>3, ConstantFacts, SelectedAreCandidates
    <3>5. pruned = SelectNeighbors(nodes, S, p, Target(l))
      BY <1>4 DEF Pruned, S, p
    <3>6. QED
      BY <3>1, <3>4, <3>5 DEF S
  <2> HIDE DEF pruned
  <2>3. pruned \in Seq(OnLayer(nodes, l))
    BY <2>2, SeqMonotonic
  <2>4. rest \in Seq(OnLayer(nodes, l))
    BY <1>3
  <2>5. d \in CallType(Ids)
    <3>1. rest \in Seq(Ids)
      <4>1. Seq(OnLayer(nodes, l)) \subseteq Seq(Ids)
        BY <1>3, SeqMonotonic
      <4>2. QED
        BY <2>4, <4>1, Zenon
    <3>2. none \in Seq(Ids)
      OBVIOUS
    <3> HIDE DEF rest, none
    <3>3. QED
      BY <1>2, <3>1, <3>2 DEF CallType, Updated, Places
  <2> HIDE DEF rest, none
  <2>6. /\ d.at = "append" /\ d.list = rest
        /\ d.op = c.op /\ d.id = c.id /\ d.ep = c.ep /\ d.layer = l
    BY <1>2, UpdatedFields
  <2>7. PICK e : e = d
    OBVIOUS
  <2>8. CallInv(e, nodes)
    <3> HIDE DEF c, l, d
    <3>1. QED
      BY <1>2, <1>3, <2>4, <2>5, <2>6, <2>7 DEF CallInv, Wires, Ids
  <2>9. call' = [call EXCEPT ![t] = e]
    BY <2>1, <2>7
  <2>10. /\ NodesInv' /\ EntryInv' /\ CallsInv' /\ Ids' = Ids
         /\ \A x \in Ids, k \in Layers :
              nodes'[x].neighbors[k] = IF x = a /\ k = l THEN pruned ELSE nodes[x].neighbors[k]
    <3> HIDE DEF c, l, a
    <3>1. /\ Writes(a, l, pruned) /\ entryPoint' = entryPoint /\ maxLayer' = maxLayer
          /\ a \in Ids /\ l \in Layers /\ nodes[a].level >= l
          /\ pruned \in Seq(OnLayer(nodes, l)) /\ IsInjective(pruned)
          /\ Calls(t, e) /\ CallInv(e, nodes)
      BY <1>1, <1>2, <1>3, <2>1, <2>2, <2>3, <2>8, <2>9 DEF Calls
    <3>2. QED
      BY <3>1, ListStep
  <2>11. ASSUME NEW x \in Ids, NEW k \in Layers, ~ (x = a /\ k = l)
         PROVE  \A u \in Pruning(x, k) : u \in Pruning(x, k)'
    <3>1. t \notin Pruning(x, k)
      BY <2>11 DEF Pruning
    <3>2. QED
      BY <2>9, <3>1, PruningKept DEF GraphInv
  <2>12. DegreeBound'
    <3>1. \A x \in Ids', k \in Layers :
            \/ Len(nodes'[x].neighbors[k]) <= Target(k)
            \/ /\ x \in Ids
               /\ \A u \in Pruning(x, k) : u \in Pruning(x, k)'
               /\ nodes'[x].neighbors[k] = nodes[x].neighbors[k]
      <4> HIDE DEF c, l, a
      <4>1. QED
        BY <2>2, <2>10, <2>11
    <3>2. QED
      BY <2>10, <3>1, DegreeStep DEF GraphInv
  <2>13. QED
    BY <2>10, <2>12 DEF GraphInv
<1>5. CASE their # c.read
  <2> DEFINE d == Updated(c, [at |-> "check"])
  <2>1. UNCHANGED graph /\ call' = [call EXCEPT ![t] = d]
    BY <1>5 DEF Commit, CommitIf, Theirs, Do, graph
  <2>2. d \in CallType(Ids)
    BY <1>2 DEF CallType, Updated, Places
  <2>3. /\ d.at = "check" /\ d.list = c.list
        /\ d.op = c.op /\ d.id = c.id /\ d.ep = c.ep /\ d.layer = l
    BY <1>2, UpdatedFields
  <2>4. PICK e : e = d
    OBVIOUS
  <2>5. CallInv(e, nodes)
    <3> HIDE DEF c, l, d
    <3>1. QED
      BY <1>2, <1>3, <2>2, <2>3, <2>4 DEF CallInv, Wires, Ids
  <2>6. call' = [call EXCEPT ![t] = e]
    BY <2>1, <2>4
  <2>7. \A x, k : \A u \in Pruning(x, k) : u \in Pruning(x, k)'
    <3>1. ASSUME NEW x, NEW k
          PROVE  t \in Pruning(x, k) =>
                   e.at \in {"check", "commit"} /\ Head(e.list) = x /\ e.layer = k
      BY <2>3, <2>4 DEF Pruning
    <3>2. QED
      BY <2>6, <3>1, PruningKept DEF GraphInv
  <2>8. /\ UNCHANGED nodes
        /\ NodesInv' /\ Ids' = Ids /\ LevelsKept(nodes, nodes')
    BY <2>1, NodesUntouched DEF graph, GraphInv
  <2>9. CallsInv'
    BY <2>5, <2>6, <2>8, CallReplaced DEF GraphInv
  <2>10. DegreeBound'
    BY <2>7, <2>8, DegreeStep DEF GraphInv
  <2>11. EntryInv'
    BY <2>1, <2>8 DEF graph, EntryInv, GraphInv
  <2>12. QED
    BY <2>8, <2>9, <2>10, <2>11 DEF GraphInv
<1>6. QED
  BY <1>4, <1>5

(* max_layer becomes the level of the new entry point.                     *)
LEMMA PromoteStep ==
  ASSUME GraphInv, NEW t \in Threads, Promote(t)
  PROVE  GraphInv'
<1> DEFINE c == call[t]
<1>1. /\ c.at = "promote" /\ CallInv(c, nodes) /\ UNCHANGED nodes
      /\ call' = [call EXCEPT ![t] = Idle]
  BY DEF Promote, At, Leave, GraphInv, CallsInv
<1>2. c.id \in Ids
  BY <1>1 DEF CallInv, Wires, Ids
<1>3. /\ NodesInv' /\ Ids' = Ids /\ LevelsKept(nodes, nodes')
  BY <1>1, NodesUntouched DEF GraphInv
<1>4. CallsInv'
  BY <1>1, <1>3, IdleIsTyped, CallReplaced DEF GraphInv
<1>5. DegreeBound'
  <2>1. \A u \in Threads : u # t => call'[u] = call[u]
    BY <1>1 DEF GraphInv, CallsInv
  <2>2. QED
    BY <1>1, <2>1, DegreeKept DEF GraphInv
<1>6. EntryInv'
  <2>1. nodes[c.id].level \in Layers
    BY <1>2 DEF GraphInv, NodesInv, NodeType
  <2>2. \/ maxLayer' = nodes[c.id].level /\ entryPoint' = c.id
        \/ UNCHANGED <<entryPoint, maxLayer>>
    BY DEF Promote
  <2> HIDE DEF c
  <2>3. QED
    BY <1>1, <1>2, <1>3, <2>1, <2>2 DEF GraphInv, EntryInv
<1>7. QED
  BY <1>3, <1>4, <1>5, <1>6 DEF GraphInv

(* A new node has no neighbors and is not yet being linked anywhere.       *)
LEMMA ReserveStep ==
  ASSUME GraphInv, NEW t \in Threads, Reserve(t)
  PROVE  GraphInv'
<1> DEFINE c  == call[t]
           id == Cardinality(Ids)
<1>1. /\ NodesInv' /\ LevelsKept(nodes, nodes')
      /\ Ids' = Ids \cup {id}
      /\ \A l \in Layers :
           /\ nodes'[id].neighbors[l] = << >>
           /\ \A a \in Ids : nodes'[a].neighbors[l] = nodes[a].neighbors[l]
      /\ \A a \in Ids : nodes'[a] = nodes[a]
  BY NodeAdded DEF GraphInv
<1>2. /\ c.at = "idle" /\ CallInv(c, nodes) /\ c \in CallType(Ids)
      /\ id < Len(Layout)
  BY DEF Reserve, At, GraphInv, CallsInv
<1>3. /\ Ids \subseteq Nat /\ id \in Nat /\ id \notin Ids /\ None \notin Ids
  BY IdFacts DEF GraphInv, NodesInv
<1>4. PICK level, p :
        /\ p = Layout[id + 1]
        /\ nodes' = [i \in Ids \cup {id} |->
                      IF i \in Ids THEN nodes[i]
                      ELSE [pos |-> p, level |-> level, tombstone |-> FALSE,
                            neighbors |-> [l \in Layers |-> << >>]]]
        /\ entryPoint' = IF entryPoint = None THEN id ELSE entryPoint
        /\ maxLayer' = IF entryPoint = None THEN level ELSE maxLayer
        /\ Do(t, [at |-> "begin", op |-> "insert", id |-> id, q |-> p])
  BY DEF Reserve
<1> DEFINE d == Updated(c, [at |-> "begin", op |-> "insert", id |-> id, q |-> p])
<1>5. call' = [call EXCEPT ![t] = d]
  BY <1>4 DEF Do
<1>6. p \in Positions /\ id \in Ids'
  <2> HIDE DEF id
  <2>1. id + 1 \in DOMAIN Layout
    BY <1>2, <1>3, GraphAssumption
  <2>2. QED
    BY <1>1, <1>4, <2>1 DEF Positions, ToSet
<1>7. nodes'[id].level = level /\ level \in Layers
  <2> HIDE DEF id
  <2>1. nodes'[id].level = level
    BY <1>3, <1>4
  <2>2. QED
    BY <1>1, <1>6, <2>1 DEF NodesInv, NodeType
<1> HIDE DEF id
<1>8. d \in CallType(Ids')
  <2>1. c \in CallType(Ids')
    BY <1>1, <1>2, CallGrows
  <2>2. QED
    BY <1>6, <2>1 DEF CallType, Updated, Places
<1>9. d.at = "begin" /\ d.op = "insert" /\ d.id = id
  BY <1>2, UpdatedFields
<1>10. PICK e : e = d
  OBVIOUS
<1>11. CallInv(e, nodes')
  <2> HIDE DEF c, d
  <2>1. QED
    BY <1>6, <1>8, <1>9, <1>10 DEF CallInv, Wires, Ids
<1>12. CallsInv'
  <2>1. call' = [call EXCEPT ![t] = e]
    BY <1>5, <1>10
  <2>2. QED
    BY <1>1, <1>11, <2>1, CallReplaced DEF GraphInv
<1>13. EntryInv'
  <2>1. CASE entryPoint = None
    BY <1>4, <1>6, <1>7, <2>1 DEF EntryInv
  <2>2. CASE entryPoint # None
    BY <1>1, <1>4, <2>2 DEF GraphInv, EntryInv
  <2>3. QED
    BY <2>1, <2>2
<1>14. DegreeBound'
  <2>1. \A a, l : \A u \in Pruning(a, l) : u \in Pruning(a, l)'
    <3>1. \A a, l : t \notin Pruning(a, l)
      BY <1>2 DEF Pruning
    <3>2. \A u \in Threads : u # t => call'[u] = call[u]
      BY <1>5 DEF GraphInv, CallsInv
    <3>3. QED
      BY <3>1, <3>2 DEF Pruning
  <2>2. \A l \in Layers : Len(nodes'[id].neighbors[l]) <= Target(l)
    <3>1. \A l \in Layers : Len(nodes'[id].neighbors[l]) = 0 /\ Target(l) \in Nat
      BY <1>1, ConstantFacts
    <3>2. QED
      BY <3>1
  <2>3. QED
    BY <1>1, <2>1, <2>2, DegreeStep DEF GraphInv
<1>15. QED
  BY <1>1, <1>12, <1>13, <1>14 DEF GraphInv

(* The first live node, if there is one, becomes the entry point.          *)
LEMMA DeleteStep ==
  ASSUME GraphInv, NEW t \in Threads, Delete(t)
  PROVE  GraphInv'
<1>1. PICK id \in Live :
        /\ nodes' = [nodes EXCEPT ![id].tombstone = TRUE]
        /\ LET left == Live \ {id}
               next == CHOOSE i \in left : \A j \in left : i <= j IN
           IF id # entryPoint THEN UNCHANGED <<entryPoint, maxLayer>>
           ELSE IF left = {} THEN entryPoint' = None /\ maxLayer' = -1
           ELSE entryPoint' = next /\ maxLayer' = nodes[next].level
  BY DEF Delete
<1> DEFINE left == Live \ {id}
           next == CHOOSE i \in left : \A j \in left : i <= j
<1>2. id \in Ids /\ UNCHANGED call
  BY DEF Live, Delete
<1>3. /\ NodesInv' /\ Ids' = Ids /\ LevelsKept(nodes, nodes')
      /\ \A a \in Ids : /\ nodes'[a].level = nodes[a].level
                        /\ nodes'[a].neighbors = nodes[a].neighbors
  BY <1>1, <1>2, NodeDeleted DEF GraphInv
<1>4. left # {} => next \in left
  <2>1. left \in SUBSET Nat
    BY IdFacts DEF Live, GraphInv, NodesInv
  <2>2. left # {} => \E i \in left : \A j \in left : i <= j
    <3> HIDE DEF left
    <3>1. QED
      BY <2>1, LeastNumber
  <2> HIDE DEF left
  <2>3. QED
    BY <2>2, Zenon
<1>5. EntryInv'
  <2>1. \A i \in Live : i \in Ids /\ nodes[i].level \in Layers
    BY DEF Live, GraphInv, NodesInv, NodeType
  <2>2. \/ UNCHANGED <<entryPoint, maxLayer>>
        \/ entryPoint' = None /\ maxLayer' = -1
        \/ entryPoint' \in Live /\ maxLayer' = nodes[entryPoint'].level
    <3>1. CASE id # entryPoint
      BY <1>1, <3>1
    <3>2. CASE id = entryPoint /\ left = {}
      BY <1>1, <3>2
    <3>3. CASE id = entryPoint /\ left # {}
      <4>1. entryPoint' = next /\ maxLayer' = nodes[next].level
        BY <1>1, <3>3
      <4> HIDE DEF next
      <4>2. QED
        BY <1>4, <3>3, <4>1
    <3>4. QED
      BY <3>1, <3>2, <3>3
  <2>3. QED
    BY <1>3, <2>1, <2>2 DEF GraphInv, EntryInv
<1>6. CallsInv'
  <2>1. \A u \in Threads : CallInv(call[u], nodes')
    BY <1>3, CallStays DEF GraphInv, CallsInv
  <2>2. QED
    BY <1>2, <1>3, <2>1 DEF GraphInv, CallsInv
<1>7. DegreeBound'
  <2>1. \A a, l : \A u \in Pruning(a, l) : u \in Pruning(a, l)'
    BY <1>2 DEF Pruning
  <2>2. QED
    BY <1>3, <2>1, DegreeStep DEF GraphInv
<1>8. QED
  BY <1>3, <1>5, <1>6, <1>7 DEF GraphInv

(* An empty graph.                                                         *)
LEMMA GraphInit == Init => GraphInv
<1> SUFFICES ASSUME Init PROVE GraphInv
  OBVIOUS
<1>1. Ids = {} /\ entryPoint = None /\ maxLayer = -1 /\ call = [t \in Threads |-> Idle]
  BY DEF Init, Ids
<1>2. NodesInv
  <2>1. Ids = 0..(0 - 1)
    BY <1>1
  <2>2. IdsAreDense
    BY <2>1 DEF IdsAreDense
  <2>3. QED
    BY <1>1, <2>2 DEF NodesInv, ListsAreProper
<1>3. CallsInv
  BY <1>1, IdleIsTyped DEF CallsInv, CallInv, Ids
<1>4. EntryInv /\ DegreeBound
  BY <1>1 DEF EntryInv, DegreeBound
<1>5. QED
  BY <1>2, <1>3, <1>4 DEF GraphInv

(* Every step keeps the invariant.                                         *)
LEMMA GraphInvStep == GraphInv /\ [Next]_vars => GraphInv'
<1> SUFFICES ASSUME GraphInv, [Next]_vars PROVE GraphInv'
  OBVIOUS
<1>1. CASE UNCHANGED vars
  <2>1. UNCHANGED nodes /\ NodesInv' /\ Ids' = Ids
    BY <1>1, NodesUntouched DEF vars, GraphInv
  <2>2. QED
    BY <1>1, <2>1 DEF vars, GraphInv, EntryInv, CallsInv, DegreeBound, Pruning
<1>2. CASE Next
  BY <1>2, ReserveStep, DeleteStep, BeginStep, DescendStep, ExploreStep, SelectStep, AppendStep,
     CheckStep, PruneStep, NextLayerStep, PromoteStep, SearcherStep DEF Next, Proceed
<1>3. QED
  BY <1>1, <1>2

(* The inductive invariant.                                                *)
LEMMA GraphInvariant == Spec => []GraphInv
<1>1. GraphInv /\ [Next]_vars => GraphInv'
  BY GraphInvStep
<1>2. QED
  BY GraphInit, <1>1, PTL DEF Spec

(* The calls always hold nodes of the graph, and the entry point is one:   *)
(* no step of a search or of link() looks up an id that does not exist     *)
(* (index.py:278-303, 318-372).                                            *)
THEOREM GraphTypes == Spec => []TypeOK
<1>1. GraphInv => TypeOK
  BY IdFacts DEF GraphInv, NodesInv, NodeType, EntryInv, CallsInv, CallType, TypeOK
<1>2. QED
  BY <1>1, GraphInvariant, PTL

(* No neighbor list is left longer than m_target by a lost race: what is   *)
(* above it is at most one edge of each insert that has still to prune     *)
(* (index.py:355-372).                                                     *)
THEOREM DegreesAreBounded == Spec => []DegreeBound
<1>1. GraphInv => DegreeBound
  BY DEF GraphInv
<1>2. QED
  BY <1>1, GraphInvariant, PTL

(* Lists name no node twice and none that is not on their layer, though    *)
(* appends, prunes and set_neighbors of several inserts meet in them.      *)
THEOREM ListsStayProper == Spec => []ListsAreProper
<1>1. GraphInv => ListsAreProper
  BY DEF GraphInv, NodesInv
<1>2. QED
  BY <1>1, GraphInvariant, PTL

=============================================================================
