SPECIFICATION McSpec
CONSTANTS
  Routers <- McRouters
  Events <- McEvents
  MaxPending = 4
  Pairs <- McPairs
  Payloads <- McPayloads
  Delays <- McDelays
  Collision = 1
  Ties = FALSE
  MaxSent = 4
  MaxOspf = 1
  MaxTime = 6
INVARIANTS
  CountersExact
  SessionsExact
PROPERTIES
  QueuesAreChannels
