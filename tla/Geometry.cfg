SPECIFICATION Spec
CONSTANTS
  None = None
  InspectedBeats = 16
  Deployments <- MCDeployments
INVARIANTS TypeOK BeatCountsAgree TransfersFit WeightsMeetTheirLanes LoadBeatsAreRows ModelRuns
CHECK_DEADLOCK FALSE
