SPECIFICATION Spec
CONSTANTS
  None = None
  InspectedBeats = 16
  Deployments <- MCLargest
INVARIANT MaxMatmulStreams
CHECK_DEADLOCK FALSE
