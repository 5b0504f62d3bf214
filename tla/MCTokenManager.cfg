\* Three overlapping calls, both authentication styles, lifetimes of 60 s and
\* more; no symmetry, for the sake of the liveness properties.
SPECIFICATION FairSpec
CONSTANTS
  c1 = c1
  c2 = c2
  c3 = c3
  integrationUser = integrationUser
  None = None
  Failed = Failed
  Callers <- ThreeCallers
  Integration <- integrationUser
  Lifetimes <- LongLifetimes
  NumStyles = 2
  MaxTime = 8
INVARIANTS
  SingleFlight
  NobodyIsOrphaned
  BoundedWait
PROPERTIES
  LiveTokenIsNeverDisplaced
  EveryCallIsAnswered
  ImplementsService
