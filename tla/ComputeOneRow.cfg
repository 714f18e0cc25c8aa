SPECIFICATION FairSpec
CONSTANTS
  None = None
  Configs <- MCOneRow
  Programs <- MCOneRowed
  Stalling = {}
  MaxInstr = 2
CHECK_DEADLOCK FALSE
PROPERTIES
  ProgramCompletes
