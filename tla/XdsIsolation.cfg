SPECIFICATION Spec
CONSTANTS
  Tenants = {t1, t2}
  Kinds = {policy, revocation}
  PolicyKind = policy
  RevKind = revocation
  Streams = {s1, s2}
  Ticker = ticker
  BadName = badName
  NoTenant = noTenant
  Strict = TRUE
  Certs <- OneOfEach
  Requests <- AnyRequests
  MaxRequests = 3
  MaxVersion = 0
  MaxDbErrors = 0
  MaxDrops = 0
SYMMETRY StreamSymmetry
INVARIANTS TypeOK TenantIsolation RefsConsistent
PROPERTIES EvictOnlyUnsubscribed
