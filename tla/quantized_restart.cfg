CONSTANTS
  Clients = {c1, c2}
  Values = {1, 5}
  Samples <- MCSamples
  Largest = 5
  Zero = 0
  None = None
  MaxLevel = 0
  MinSamples = 2
  SnapshotEvery = 3
  MaxFits = 1
  MaxCompactions = 0
  MaxSearches = 1
  MaxRestarts = 1
SPECIFICATION Spec
SYMMETRY Alike
INVARIANT StartSucceeds
CHECK_DEADLOCK FALSE
