SPECIFICATION OspfSpec
CONSTANTS
  Routers = {1, 2, 3}
  Externals = {9}
  Areas = {0, 1}
  MaxSeq = 6
  DefaultWeight = 1
  Scenarios <- LastLink
  Reorder = FALSE
  Order <- McOrder
  Topologies <- McTopologies
  Operations <- McOperations
  Conversions = {}
INVARIANTS
  SummariesCurrent
CHECK_DEADLOCK FALSE
