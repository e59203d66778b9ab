SPECIFICATION Spec
CONSTANTS
  Wide = Wide
  Narrow = Narrow
  Routers <- McRouters
  AllPrefixes <- McPrefixes
  Within <- McWithin
  Explored <- ExploredCache
  Igp <- McIgp
  Neighbors <- McNeighbors
  Networks <- McNetworks
  Changes <- McChanges
  Operations <- McOperations
  Events <- McEvents
  Queries = {Narrow}
  Single = Wide
  MaxTrace = 3
  Conditions <- McConditions
INVARIANTS
  CacheFresh
CHECK_DEADLOCK FALSE
