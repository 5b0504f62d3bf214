SPECIFICATION FairSpec
CONSTANTS
  r1 = r1
  r2 = r2
  home = home
  guest = guest
  alice = alice
  bob = bob
  None = None
  Requests <- TwoRequests
  Inputs <- SomeInputs
  Configs <- SomeConfigs
  Tenants <- TwoTenants
  Users <- TwoUsers
  Audiences <- SomeAudiences
  Own <- OwnAudiences
  Home = home
  Skew = 1
  FetchTime = 1
  MaxTime = 2
INVARIANTS
  OperationsSeeTheirOwnContext
  OneReply
PROPERTIES
  OperationsAreAuthorized
  RequestsAreAnswered
