CONSTANTS
  u = u
  v = v
  w = w
  Callers = {c1, c2, c3}
  NumShards = 2
  Vectors = {u, v, w}
  ShardOf <- MCShardOf
  Batches <- MCBatches
  Zero = Zero
  None = None
  MaxLevel = 0
  MaxCalls = 3
  MaxRounds = 2
SPECIFICATION Spec
SYMMETRY Alike
INVARIANTS
  IdsHoldBetweenCompactions
  ToldVectorsStay
  
  
  CompactPurges
CHECK_DEADLOCK FALSE
