----------------------------- MODULE HNSWSearch -----------------------------
(***************************************************************************)
(* The search algorithms of core/index.py on a graph `nodes`, a function   *)
(* from ids to [pos, level, tombstone, neighbors].  A vector is a point on *)
(* a line, `pos`; HNSWGraph assumes that no two points are equally far     *)
(* from a third, so that neither heaps nor sorts meet a tie.               *)
(*                                                                         *)
(* A thread reads the neighbor lists of a live graph one by one: Improve   *)
(* and Expand are what it does with one list.                              *)
(***************************************************************************)
EXTENDS Integers, Sequences, SequencesExt

Dist(p, q) == IF p > q THEN p - q ELSE q - p

Far(nodes, i, q) == Dist(nodes[i].pos, q)

Nearest(nodes, S, q)  == CHOOSE i \in S : \A j \in S : Far(nodes, i, q) <= Far(nodes, j, q)
Farthest(nodes, S, q) == CHOOSE i \in S : \A j \in S : Far(nodes, i, q) >= Far(nodes, j, q)

(* The ids of S, nearest first: the nearest of S, of the rest, and so on.  *)
ByDistance(nodes, S, q) ==
  LET rest[k \in 0..Cardinality(S)] ==
        IF k = 0 THEN S ELSE LET R == rest[k - 1] IN R \ {Nearest(nodes, R, q)}
  IN  [k \in 1..Cardinality(S) |-> Nearest(nodes, rest[k - 1], q)]

Neighbors(nodes, i, layer) == ToSet(nodes[i].neighbors[layer])

(* One turn of _greedy_step: the nearest live neighbor, if it is nearer.   *)
Improve(nodes, q, ep, layer) ==
  LET nearer == {n \in Neighbors(nodes, ep, layer) :
                   ~ nodes[n].tombstone /\ Far(nodes, n, q) < Far(nodes, ep, q)}
  IN  IF nearer = {} THEN ep ELSE Nearest(nodes, nearer, q)
-----------------------------------------------------------------------------
(* _search_layer.  A beam has the heap of candidates (`open`), the nodes   *)
(* met (`seen`) and the heap of results (`found`).                         *)

Admissible(nodes, allowed, i) == i \in allowed /\ ~ nodes[i].tombstone

Beam(nodes, ep, allowed) ==
  [open |-> {ep}, seen |-> {ep}, found |-> {i \in {ep} : Admissible(nodes, allowed, i)}]

(* Fault for the checks: the best result is taken for the worst.           *)
StopsEarly(nodes, beam, q) ==
  \/ beam.open = {}
  \/ \E j \in beam.found : \A i \in beam.open : Far(nodes, i, q) > Far(nodes, j, q)

(* No candidate is left, or the nearest is farther than every result.      *)
Exhausted(nodes, beam, q) ==
  \/ beam.open = {}
  \/ /\ beam.found # {}
     /\ \A i \in beam.open, j \in beam.found : Far(nodes, i, q) > Far(nodes, j, q)

(* A node met is explored, and kept if it may be returned, when there is   *)
(* room among the `ef` results or it is nearer than the farthest of them.  *)
Meet(nodes, beam, i, q, ef, allowed) ==
  LET worst == Farthest(nodes, beam.found, q)
      more  == beam.found \cup {i}
      full  == Cardinality(beam.found) = ef
  IN  IF full /\ Far(nodes, i, q) >= Far(nodes, worst, q) THEN beam
      ELSE [beam EXCEPT
              !.open  = @ \cup {i},
              !.found = IF ~ Admissible(nodes, allowed, i) THEN @
                        ELSE IF full THEN more \ {worst} ELSE more]

(* Read the list of the nearest candidate; meet what it has not seen.      *)
Expand(nodes, beam, q, ef, layer, allowed) ==
  LET current == Nearest(nodes, beam.open, q)
      list    == nodes[current].neighbors[layer]
      start   == [open |-> beam.open \ {current}, seen |-> beam.seen \cup ToSet(list),
                  found |-> beam.found]
      met[k \in 0..Len(list)] ==
        IF k = 0 THEN start
        ELSE IF list[k] \in beam.seen THEN met[k - 1]
        ELSE Meet(nodes, met[k - 1], list[k], q, ef, allowed)
  IN  met[Len(list)]
-----------------------------------------------------------------------------
(* _select_neighbors_heuristic: of the candidates S those nearer to `q`    *)
(* than to every one selected before, nearest first, then the others; m at *)
(* most.                                                                   *)
Diverse(nodes, S, q) ==
  LET ranked == ByDistance(nodes, S, q)
      selected[k \in 0..Len(ranked)] ==
        IF k = 0 THEN {}
        ELSE LET sel == selected[k - 1]
                 c   == ranked[k]
             IN  IF \E s \in sel : Dist(nodes[c].pos, nodes[s].pos) < Far(nodes, c, q)
                 THEN sel ELSE sel \cup {c}
  IN  selected[Len(ranked)]

SelectNeighbors(nodes, S, q, m) ==
  LET diverse == Diverse(nodes, S, q)
      all     == ByDistance(nodes, diverse, q) \o ByDistance(nodes, S \ diverse, q)
  IN  SubSeq(all, 1, IF Len(all) < m THEN Len(all) ELSE m)
=============================================================================
