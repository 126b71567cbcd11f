SPECIFICATION Spec
CONSTANTS
  a1 = a1
  a2 = a2
  a3 = a3
  Mem = {m1, m2}
  Addr = {a1, a2, a3}
  NoAddr = NoAddr
  STA_HASH <- Hash
  MAX_STA_COUNT = 2
  TickPeriod = 1
  SessionTimeouts = {0, 2, 6}
  MaxTime = 4
  TimeModulus = 8
  MaxLate = 1
INVARIANTS
  TypeOK
  EarliestFirst
  OneTimeoutEach
  TableAgrees
PROPERTIES
  NoOvertaking
  DueIsServed
  Terminates
