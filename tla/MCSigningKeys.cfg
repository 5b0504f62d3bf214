\* Two tenants rotate a key of the same id while two validations fetch it.
SPECIFICATION Spec
CONSTANTS
  v1 = v1
  v2 = v2
  home = home
  guest = guest
  kid = kid
  None = None
  Validations <- TwoValidations
  Tenants <- TwoTenants
  Kids <- OneKid
  TTL = 2
  FetchTime = 1
  MaxTime = 4
SYMMETRY ValidationAndTenantSymmetry
INVARIANTS
  AcceptedKeysAreCurrent
  PublishedKeysAreFound
  AtMostTwoFetches
