SPECIFICATION Spec
CONSTANTS
  None = None
  Routers <- RrRouters
  AsOf <- RrAs
  Advertisements <- RrAds
  SessionChanges <- RrFlap
  RouteMapChanges <- RrMaps
  Topologies <- RrTopologies
  InitialSessions <- RrSessions
  InitialTopology <- RrNear2
  Manual = FALSE
  MaxOps = 4
INVARIANTS
  TypeOK
  MedDecides
  ConvergedIsStable
  EgressConsistent
CHECK_DEADLOCK FALSE
