SPECIFICATION Spec
CONSTANTS
  None = None
  Configs <- MCBlock
  Programs <- MCOneStore
  Stalling = {"block"}
  MaxInstr = 3
CHECK_DEADLOCK FALSE
INVARIANTS
  StreamIsRows
