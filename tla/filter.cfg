CONSTANTS
  Fields = {"category", "score"}
  Leaves <- MCLeaves
  MaxDepth = 3
SPECIFICATION Spec
INVARIANTS
  PassesWhatItSays
  RaisesOnTypesOnly
CHECK_DEADLOCK FALSE
