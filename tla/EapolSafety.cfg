SPECIFICATION SafetySpec
CONSTANTS
  quietPeriod = 1
  txPeriod = 1
  reAuthMax = 1
  serverTimeout = 1
  suppTimeout = 1
  maxReq = 2
  reAuthPeriod = 2
  sessionTimeoutSet = FALSE
  SessionTimeouts = {0, 1, 15}
  IntModulus = 16
INVARIANTS
  TypeOK
  AuthenticatedByAccept
  MachinesAgree
  NoStaleReauthentication
  ExchangeInStep
  FailureCloses
  RetryBounds
  KeyOnlyOnAccept
PROPERTIES
  ChallengeReplyCarriesState
  ImplementsPortAccess
  WorkFalls
