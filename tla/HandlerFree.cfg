SPECIFICATION FairSpec
CONSTANTS
  None = None
  Tags <- MCTags
  Host = "free"
  Bursts = TRUE
  HostOps = {"COMPUTE_MM", "UNDEFINED"}
  MaxInstr = 3
INVARIANTS
  Whereabouts
PROPERTIES
  ServiceRefinement
  EveryAcceptedRetires
