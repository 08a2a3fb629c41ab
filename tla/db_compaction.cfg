CONSTANTS
  Clients = {c1, c2}
  Vectors = {v1, v2}
  Zero = Zero
  None = None
  CompactKinds = {"compact", "background"}
  MaxLevel = 1
  Tears = {}
  SnapshotEvery = 3
  MaxCrashes = 0
  MaxCompactions = 1
SPECIFICATION Spec
SYMMETRY Alike
INVARIANTS
  CompactionKeepsWrites
