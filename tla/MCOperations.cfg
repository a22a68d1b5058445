SPECIFICATION Spec
CONSTANTS
  r1 = r1
  r2 = r2
  t1 = t1
  t2 = t2
  w1 = w1
  w2 = w2
  Replicas <- MCReplicas
  NoReplica = NoReplica
  InitialReleases <- MCInitialReleases
  MaxReverts = 2
  Travels <- MCTravels
  Workers <- MCWorkers
  NoTravel = NoTravel
  Batch = 1
  Attempts = 2
  MaxExtensions = 1
  MaxFaults = 1
  Planets <- MCPlanets
  Minutes <- MCMinutes
  Horizon = 50
  Missing = Missing
  Never = Never
INVARIANTS
  SchemaIsARelease
  NoticesExplained
  PromiseKept
PROPERTIES
  StartsOnWholeSchema
  OngoingEndsOnlyByRace
  ExpiredIsDeactivated
CHECK_DEADLOCK FALSE
