CONSTANTS
  Clients = {c1, c2}
  Vectors = {v1, v2, v3}
  Zero = Zero
  None = None
  MaxLevel = 0
  Tears = {}
  SnapshotEvery = 2
  CompactKinds = {"compact"}
  MaxCrashes = 0
  MaxCompactions = 0
SPECIFICATION Spec
INVARIANT AckedInsertsKept
