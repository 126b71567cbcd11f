SPECIFICATION Spec
CONSTANTS
  Stations = {s1, s2}
  NumRequests = 3
  IdModulus = 3
  MaxEntries = 2
  MaxRetries = 4
  NumFailover = 2
  FirstWait = 1
  MaxWait = 3
  secret <- OneServer
  RetryPrimary = FALSE
PROPERTIES
  GivenUp
