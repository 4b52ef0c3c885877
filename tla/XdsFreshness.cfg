SPECIFICATION FairSpec
CONSTANTS
  Tenants = {t1}
  Kinds = {policy, revocation}
  PolicyKind = policy
  RevKind = revocation
  Streams = {s1}
  Ticker = ticker
  BadName = badName
  NoTenant = noTenant
  Strict = TRUE
  Certs <- OnlyPops
  Requests <- ClientRequests
  MaxRequests = 1
  MaxVersion = 1
  MaxDbErrors = 1
  MaxDrops = 1
PROPERTIES Convergence
