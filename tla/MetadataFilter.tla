--------------------------- MODULE MetadataFilter ---------------------------
(***************************************************************************)
(* filtering/metadata_filter.py: what a filter lets pass, and which        *)
(* filters raise.  A filter is a dict, here a record                       *)
(*   keys    which of "$and" and "$or" it has, and and, or: their lists    *)
(*   fields  its other items, <<field, condition>>                         *)
(* A condition is a literal value, or a dict of tests <<operator, target>>.*)
(* Strings are ordered like the numbers of their records; the test of a    *)
(* string for a substring ("$in" with a string for target) is left out.    *)
(***************************************************************************)
EXTENDS Integers, Sequences, SequencesExt

CONSTANTS Fields,    \* field names
          Leaves,    \* filters of one field, from which others are composed
          MaxDepth   \* bound: compositions of a filter

ASSUME FilterAssumption == MaxDepth \in Nat /\ Fields # {}

VARIABLES filter, depth

vars == <<filter, depth>>

None      == [type |-> "none", n |-> 0]
Number(n) == [type |-> "number", n |-> n]
String(n) == [type |-> "string", n |-> n]
List(s)   == [type |-> "list", items |-> s]

(* The metadata of a node: meta.get() of a field that is missing is None.  *)
Metas == [Fields -> {None, Number(1), Number(2), String(1)}]

Truth(b) == IF b THEN "yes" ELSE "no"

Order(op, a, b) ==
  CASE op = "$gt"  -> a > b
    [] op = "$gte" -> a >= b
    [] op = "$lt"  -> a < b
    [] op = "$lte" -> a <= b

(* Fault for the checks: no test for None, which cannot be compared.       *)
CompareAnything(op, a, b) ==
  IF a.type # b.type THEN "raises" ELSE Truth(Order(op, a.n, b.n))

(* The four order operators of _OPS; Python compares only like with like.  *)
Compare(op, a, b) ==
  IF a = None THEN "no"
  ELSE IF a.type # b.type THEN "raises" ELSE Truth(Order(op, a.n, b.n))

(* a in b                                                                  *)
Within(a, b) == IF b.type # "list" THEN "raises" ELSE Truth(a \in b.items)

Not(truth) ==
  CASE truth = "yes" -> "no" [] truth = "no" -> "yes" [] OTHER -> "raises"

(* _OPS, and what becomes of an operator that is not in it.                *)
Test(op, a, b) ==
  CASE op = "$eq"  -> Truth(a = b)
    [] op = "$ne"  -> Truth(a # b)
    [] op = "$in"  -> Within(a, b)
    [] op = "$nin" -> Not(Within(a, b))
    [] op \in {"$gt", "$gte", "$lt", "$lte"} -> Compare(op, a, b)
    [] OTHER -> "no"

(* all() and any(): the first that is not "yes", or not "no", decides.     *)
AllOf(truths) == FoldLeft(LAMBDA so, t : IF so = "yes" THEN t ELSE so, "yes", truths)
AnyOf(truths) == FoldLeft(LAMBDA so, t : IF so = "no" THEN t ELSE so, "no", truths)

(* Fault for the checks: one test of a condition is enough.                *)
FieldByAny(value, cond) ==
  IF cond.literal THEN Truth(value = cond.value)
  ELSE AnyOf([k \in DOMAIN cond.tests |-> Test(cond.tests[k][1], value, cond.tests[k][2])])

Field(value, cond) ==
  IF cond.literal THEN Truth(value = cond.value)
  ELSE AllOf([k \in DOMAIN cond.tests |-> Test(cond.tests[k][1], value, cond.tests[k][2])])

(* evaluate(); an empty filter, too, lets everything pass.                 *)
RECURSIVE Evaluate(_, _)
Evaluate(meta, node) ==
  IF "$and" \in node.keys THEN AllOf([k \in DOMAIN node.and |-> Evaluate(meta, node.and[k])])
  ELSE IF "$or" \in node.keys THEN AnyOf([k \in DOMAIN node.or |-> Evaluate(meta, node.or[k])])
  ELSE AllOf([k \in DOMAIN node.fields |-> Field(meta[node.fields[k][1]], node.fields[k][2])])
-----------------------------------------------------------------------------
(* The filters a caller composes                                           *)

Empty == [keys |-> {}, and |-> << >>, or |-> << >>, fields |-> << >>]

Init == filter = Empty /\ depth = 0

Compose(new) == depth < MaxDepth /\ filter' = new /\ depth' = depth + 1

FieldsOf(node) == {item[1] : item \in ToSet(node.fields)}

AddField ==
  \E leaf \in Leaves :
    /\ FieldsOf(leaf) \cap FieldsOf(filter) = {}
    /\ Compose([filter EXCEPT !.fields = @ \o leaf.fields])

AddAnd ==
  \E leaf \in Leaves :
    \/ Compose([Empty EXCEPT !.keys = {"$and"}, !.and = <<filter, leaf>>])
    \/ Compose([filter EXCEPT !.keys = @ \cup {"$and"}, !.and = Append(@, leaf)])

AddOr ==
  \E leaf \in Leaves :
    \/ Compose([Empty EXCEPT !.keys = {"$or"}, !.or = <<leaf, filter>>])
    \/ Compose([filter EXCEPT !.keys = @ \cup {"$or"}, !.or = Append(@, leaf)])

Next == AddField \/ AddAnd \/ AddOr

Spec == Init /\ [][Next]_vars
-----------------------------------------------------------------------------
(* What the items of a filter say, all of which should hold (the examples  *)
(* of metadata_filter.py:5-7).  "$gt" and its like need a value.           *)
Satisfies(value, op, target) ==
  CASE op = "$eq"  -> value = target
    [] op = "$ne"  -> value # target
    [] op = "$in"  -> target.type = "list" /\ value \in target.items
    [] op = "$nin" -> target.type = "list" /\ value \notin target.items
    [] op \in {"$gt", "$gte", "$lt", "$lte"} ->
         value # None /\ value.type = target.type /\ Order(op, value.n, target.n)
    [] OTHER -> FALSE

Says(value, cond) ==
  IF cond.literal THEN value = cond.value
  ELSE \A k \in DOMAIN cond.tests : Satisfies(value, cond.tests[k][1], cond.tests[k][2])

RECURSIVE Means(_, _)
Means(meta, node) ==
  /\ "$and" \in node.keys => \A k \in DOMAIN node.and : Means(meta, node.and[k])
  /\ "$or" \in node.keys => \E k \in DOMAIN node.or : Means(meta, node.or[k])
  /\ \A k \in DOMAIN node.fields : Says(meta[node.fields[k][1]], node.fields[k][2])

(* "$or" beside "$and", or one of them beside fields: evaluate() looks at  *)
(* the first it knows and ignores the rest.                                *)
Subfilters(node) == ToSet(node.and) \cup ToSet(node.or)
RECURSIVE IgnoresItems(_)
IgnoresItems(node) ==
  \/ node.keys = {"$and", "$or"}
  \/ node.keys # {} /\ node.fields # << >>
  \/ \E sub \in Subfilters(node) : IgnoresItems(sub)

(* The order of evaluation, its short cuts and the missing fields make no  *)
(* difference: what passes is what the filter says, item by item.          *)
PassesWhatItSays ==
  IgnoresItems(filter) \/
  \A meta \in Metas :
    LET truth == Evaluate(meta, filter) IN truth = "raises" \/ (truth = "yes") = Means(meta, filter)

RECURSIVE Tests(_)
Tests(node) ==
  UNION {Tests(sub) : sub \in Subfilters(node)} \cup
  UNION {{<<item[1], item[2].tests[k][1], item[2].tests[k][2]>> : k \in DOMAIN item[2].tests} :
           item \in {f \in ToSet(node.fields) : ~ f[2].literal}}

(* A filter raises, and the whole search with it, only where a value that  *)
(* is present is ordered against one of another type, or "$in" has no      *)
(* list: never because a node lacks the field (metadata_filter.py:20-23).  *)
RaisesOnTypesOnly ==
  \A meta \in Metas : Evaluate(meta, filter) = "raises" =>
    \E t \in Tests(filter) :
      \/ t[2] \in {"$gt", "$gte", "$lt", "$lte"} /\ meta[t[1]] # None /\ meta[t[1]].type # t[3].type
      \/ t[2] \in {"$in", "$nin"} /\ t[3].type # "list"
=============================================================================
