\* ENTRA_TENANT_ID is a domain: are the tenant's own users accepted?
SPECIFICATION Spec
CONSTANTS
  r1 = r1
  r2 = r2
  home = home
  guest = guest
  other = other
  domain = domain
  token = token
  None = None
  Common = Common
  Requests <- TwoRequests
  Tenants <- ThreeTenants
  Names <- AllNames
  TenantOf <- Denotes
  RegTokens <- OneToken
  Configs <- DomainConfigs
  TTL = 2
  FetchTime = 1
  MaxTime = 5
INVARIANTS
  HomeTokensAreAccepted
