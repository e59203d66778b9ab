CONSTANTS
  Routers <- MCRouters
  Links <- MCLinks
  Clauses <- MCClauses
  DefaultWeight = 100
  Infinite = 1000
  Backbone = 0
  Areas = {0, 1}
  Modifiers <- MCModifiers
  Goals <- MCGoals
  Entries <- MCEntries
SPECIFICATION Spec
INVARIANTS
  WellFormed
  MapsAsDocumented
  ModifiersReliable
  ConfigReached
PROPERTIES
  FailsOnlyWhenHidden
