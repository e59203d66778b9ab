SPECIFICATION FairSpec
CONSTANTS
  None = None
  Routers <- CycleRouters
  AsOf <- CycleAs
  Advertisements <- CycleAds
  SessionChanges <- CycleFlap
  RouteMapChanges <- CycleMaps
  Topologies <- CycleTopologies
  InitialSessions <- CycleSessions
  InitialTopology <- CycleEven
  Manual = TRUE
  MaxOps = 2
INVARIANTS
  SessionsPaired
  NoReflectionLoop
  PropagationExplained
  ChannelCoherent
  NoRedundantEvents
  LocallySettled
PROPERTIES
  EventuallyConverged
CHECK_DEADLOCK FALSE
