SPECIFICATION Spec
CONSTANTS
  Threads = {t1, t2}
  Layout <- MCLayout
  Draws <- MCDraws
  Queries = {}
  Filters <- MCFilters
  M = 2
  EfConstruction = 3
  EfSearch = 4
  K = 2
  MaxLevel = 1
  Warmup = 2
  MaxDeletes = 0
  MaxOthers = 0
  None = None
INVARIANTS
  InsertedStaysFindable
SYMMETRY Alike
CHECK_DEADLOCK FALSE
