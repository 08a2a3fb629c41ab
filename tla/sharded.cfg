SPECIFICATION FairSpec
CONSTANTS
  Callers = {c1, c2}
  NumShards = 2
  Workers = 2
  Stored <- MCStoredTwo
  K = 2
  Kinds = {"search", "compact", "health"}
  MaxCalls = 2
INVARIANTS
  TypeOK
  MergeIsGlobalTopK
  BlameIsNotShared
  NothingIsForgotten
PROPERTIES
  SearchReturns
CHECK_DEADLOCK FALSE
