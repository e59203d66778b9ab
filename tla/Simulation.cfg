SPECIFICATION McSpec
CONSTANTS
  r1 = r1
  r2 = r2
  r3 = r3
  Routers <- McRouters
  Asns <- McAsns
  Local = TRUE
  AsOf <- McAsOf
  Links <- McSquare
  Shapes <- McShapes
  InitialAs <- McAs
  InitialLinks <- McLinks
  InitialSessions <- McSessions
  Unlimited = Unlimited
  Limits <- McLimits
  SetAsnLimit = 1
  MaxQueue = 2
  MaxOps = 2
INVARIANTS
  EventsAddressed
  OperationsComplete
  AddressesUnambiguous
CHECK_DEADLOCK FALSE
