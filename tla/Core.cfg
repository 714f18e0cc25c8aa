SPECIFICATION FairSpec
CONSTANTS
  None = None
  Configs <- MCConfigs
  Programs <- MCPrograms
  Stalling = {"ultra"}
  MaxInstr = 6
CHECK_DEADLOCK FALSE
INVARIANTS
  TypeOK
  ResultLanded
  DmaDelivered
  PairsAligned
  StreamIsRows
PROPERTIES
  HandlerContract
  CoreContract
  ProgramCompletes
