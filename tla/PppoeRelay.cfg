SPECIFICATION Spec
CONSTANTS
  c1 = c1
  c2 = c2
  a1 = a1
  a2 = a2
  lan = lan
  wan = wan
  none = none
  Clients = {c1, c2}
  ACs = {a1, a2}
  AcSessions = {1, 2}
  Nodes <- MCNodes
  MaxNodes = 2
  MaxSessions = 2
  Timeout = 2
  JiffiesModulus = 8
  NoEnd <- MCNoEnd
SYMMETRY Symmetry
INVARIANTS
  TypeOK
  TableConsistent
  NoHalfSessions
  IdleBound
PROPERTIES
  NoEarlyExpiry
  ImplementsSessionNumbers
