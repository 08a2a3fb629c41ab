SPECIFICATION FairSpec
CONSTANTS
  Threads = {t1, t2}
  Layout <- MCLayout
  Draws <- MCDraws
  Queries = {9}
  Filters <- MCFilters
  M = 2
  EfConstruction = 3
  EfSearch = 4
  K = 2
  MaxLevel = 1
  Warmup = 3
  MaxDeletes = 1
  MaxOthers = 1
  None = None
INVARIANTS
  TypeOK
  DegreeBound
  ListsAreProper
  FindableUnlessLost
  SearchMissesNothing
PROPERTIES
  NoEdgeIsDroppedUnseen
  CallsReturn
CHECK_DEADLOCK FALSE
