SPECIFICATION SafetySpec
CONSTANTS
  Stations = {s1, s2}
  NumRequests = 4
  IdModulus = 3
  MaxEntries = 2
  MaxRetries = 4
  NumFailover = 2
  FirstWait = 1
  MaxWait = 3
  secret <- ThreeServers
  RetryPrimary = TRUE
INVARIANTS
  TypeOK
  CountCovers
  ListInOrder
  SignedForServer
PROPERTIES
  WaitingTakesItsAnswer
  GivenUpInTime
