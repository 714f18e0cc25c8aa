SPECIFICATION Spec
CONSTANTS
  None = None
  InspectedBeats = 16
  Deployments <- MCWideBatch
INVARIANT LoadBeatsAreRows
CHECK_DEADLOCK FALSE
