SPECIFICATION FairSpec
CONSTANTS
  None = None
  NumPorts = 2
  Modes = {"poll", "irq"}
  Lengths = {1, 3}
  OutQDepth = 2
  MaxCalls = 3
  MaxOpens = 2
  CrashAt <- MCCrashAt
  Faults = {"reset", "start", "timeout"}
CHECK_DEADLOCK FALSE
INVARIANTS
  TypeOK
  SuccessIsMine
  PendingIsThisOp
  ProgrammedWhileIdle
PROPERTIES
  EveryCallReturns
  CallContract
