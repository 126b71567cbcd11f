SPECIFICATION Spec
CONSTANTS
  c1 = c1
  c2 = c2
  Clients = {c1, c2}
  NoClient = NoClient
  NumSessionSlots = 2
  Pids = {101, 102}
INVARIANTS
  TypeOK
  SlotsAndChildren
  NoExitUnnoticed
PROPERTIES
  ImplementsSessionNumbers
  Reclaimed
CHECK_DEADLOCK FALSE
