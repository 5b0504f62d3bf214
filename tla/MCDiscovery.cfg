\* Requests that overlap while Entra answers, is slow or fails, under every kind of
\* configuration.
SPECIFICATION FairSpec
CONSTANTS
  r1 = r1
  r2 = r2
  home = home
  guest = guest
  other = other
  domain = domain
  token = token
  None = None
  Common = Common
  Requests <- TwoRequests
  Tenants <- ThreeTenants
  Names <- AllNames
  TenantOf <- Denotes
  RegTokens <- OneToken
  Configs <- ManyConfigs
  TTL = 2
  FetchTime = 1
  MaxTime = 5
INVARIANTS
  EveryoneInvitedCanSignIn
  RegistrationFollowsPolicy
PROPERTIES
  ServedMetadataIsRecent
  FailuresAreForgotten
  DiscoveriesAreAnswered
