\* Two overlapping calls of two users, with and without an oid.
SPECIFICATION FairSpec
CONSTANTS
  c1 = c1
  c2 = c2
  alice = alice
  bob = bob
  None = None
  Failed = Failed
  Callers <- TwoCallers
  Users <- TwoUsers
  Lifetimes <- ShortestLong
  MaxLatency = 1
  MaxTime = 4
INVARIANTS
  FlightsArePublished
  TokensAreTheCallersOwn
PROPERTIES
  EveryCallIsAnswered
  ImplementsService
