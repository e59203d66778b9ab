SPECIFICATION FairOspfSpec
CONSTANTS
  Routers = {1, 2, 3}
  Externals = {9}
  Areas = {0, 1}
  MaxSeq = 6
  DefaultWeight = 1
  Scenarios <- AllScenarios
  Reorder = TRUE
  Order <- McOrder
  Topologies <- McTopologies
  Operations <- McOperations
  Conversions <- McConversions
INVARIANTS
  TypeOK
  AdjacenciesFull
  DatabasesCurrent
  SummariesCurrent
  TablesCurrent
  TablesAsGlobal
  Convertible
  GlobalCurrent
PROPERTIES
  FlushComplete
  EventuallySettled
CHECK_DEADLOCK FALSE
