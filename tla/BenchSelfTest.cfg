SPECIFICATION Spec
CONSTANTS
  None = None
  Deployments <- MCWirings
  Fails = FALSE
CHECK_DEADLOCK FALSE
INVARIANT SelfTestProves
