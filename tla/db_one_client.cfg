CONSTANTS
  Clients = {c1}
  Vectors = {v1, v2, v3}
  Zero = Zero
  None = None
  MaxLevel = 0
  Tears = {"cut", "unended"}
  SnapshotEvery = 3
  CompactKinds = {"compact"}
  MaxCrashes = 1
  MaxCompactions = 1
SPECIFICATION StoreSpec
SYMMETRY Alike
INVARIANTS
  ReplayIsIdempotent
  AckedWritesSurvive
PROPERTY ImplementsDurableStore
