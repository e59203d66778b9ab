SPECIFICATION FairSpec
CONSTANTS
  Unlimited = Unlimited
  Routers <- McRouters
  Threads = 2
  Limits <- McLimits
  MayFail = TRUE
  InitialPairs <- McInitialPairs
  MaxEvents = 6
INVARIANTS
  RoutersConserved
  LimitRespected
  NothingLostOnSuccess
PROPERTIES
  Returns
CHECK_DEADLOCK FALSE
