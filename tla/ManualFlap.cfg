SPECIFICATION Spec
CONSTANTS
  None = None
  Routers <- RrRouters
  AsOf <- RrAs
  Advertisements <- FlapAds
  SessionChanges <- RrFlap
  RouteMapChanges = {}
  Topologies = {}
  InitialSessions <- RrSessions
  InitialTopology <- RrNear2
  Manual = TRUE
  MaxOps = 4
INVARIANTS
  ConvergedIsStable
CHECK_DEADLOCK FALSE
