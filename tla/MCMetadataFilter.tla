-------------------------- MODULE MCMetadataFilter --------------------------
(* The instance of MetadataFilter for TLC: every operator and a misspelt   *)
(* one, a literal, an empty and a double condition.                        *)
EXTENDS MetadataFilter

Leaf(field, cond) == [Empty EXCEPT !.fields = <<<<field, cond>>>>]
Tested(tests)     == [literal |-> FALSE, tests |-> tests]

MCLeaves ==
  {Leaf("category", [literal |-> TRUE, value |-> String(1)]),
   Leaf("category", Tested(<<<<"$ne", String(1)>>>>)),
   Leaf("category", Tested(<<<<"$in", List({String(1), Number(1)})>>>>)),
   Leaf("category", Tested(<<<<"$nin", Number(1)>>>>)),
   Leaf("category", Tested(<<<<"$regex", String(1)>>>>)),
   Leaf("score", Tested(<< >>)),
   Leaf("score", Tested(<<<<"$eq", None>>>>)),
   Leaf("score", Tested(<<<<"$nin", List({Number(1), Number(2)})>>>>)),
   Leaf("score", Tested(<<<<"$gt", Number(1)>>>>)),
   Leaf("score", Tested(<<<<"$gte", Number(1)>>, <<"$lt", Number(2)>>>>)),
   Leaf("score", Tested(<<<<"$lte", None>>>>))}
=============================================================================
