SPECIFICATION Spec
CONSTANTS
  None = None
  Deployments <- MCDeployments
  Fails = TRUE
CHECK_DEADLOCK FALSE
INVARIANTS
  TypeOK
  OwnBenchPasses
  TransfersFit
  CleanMeansMatched
  NothingAfterFault
