SPECIFICATION Spec
CONSTANTS
  quietPeriod = 1
  txPeriod = 1
  reAuthMax = 1
  serverTimeout = 1
  suppTimeout = 1
  maxReq = 2
  reAuthPeriod = 2
  sessionTimeoutSet = TRUE
  SessionTimeouts = {0, 1, 15}
  IntModulus = 16
PROPERTIES
  StepTerminates
  WaitsEnd
  Reauthenticates
  OpenPortIsRenewed
