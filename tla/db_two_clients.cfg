CONSTANTS
  Clients = {c1, c2}
  Vectors = {v1, v2}
  Zero = Zero
  None = None
  MaxLevel = 1
  Tears = {"cut"}
  SnapshotEvery = 2
  CompactKinds = {}
  MaxCrashes = 1
  MaxCompactions = 0
SPECIFICATION FairSpec
INVARIANTS
  TypeOK
  AckedWritesSurvive
  ReadsAreLogged
  IdsAreStable
PROPERTIES
  
  CallsReturn
