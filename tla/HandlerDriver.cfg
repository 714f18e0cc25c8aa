SPECIFICATION FairSpec
CONSTANTS
  None = None
  Tags <- MCTags
  Host = "driver"
  Bursts = FALSE
  HostOps = {"LOAD_ACT", "STORE_OUT", "UNDEFINED"}
  MaxInstr = 3
INVARIANTS
  TypeOK
  IrqNeverDropped
  AcceptedIsWritten
  CompletionIsMine
  StatusIsOfCompleted
  PushNeverRefused
PROPERTIES
  EveryPushCompletes
