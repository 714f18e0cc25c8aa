SPECIFICATION FairSpec
CONSTANTS
  None = None
  Batch = 2
  MaxN = 2
  MaxTiles = 2
  Projs <- MCProjs
  Clusters <- MCClusters
  MaxOps = 4
  Fails = TRUE
CHECK_DEADLOCK FALSE
INVARIANTS
  TypeOK
  ConsumedIsProduced
PROPERTIES
  EveryClusterEnds
  MatmulContract
  OnlyCalls
