SPECIFICATION Spec
CONSTANTS
  Addrs = {a1}
  Jtis = {j1, j2}
  Tenants = {home, other}
  TenantOf <- AllHome
  Exp <- ExpireLast
  IPs = {ip1}
  Apps = {app}
  ConnectorApps = {app}
  NoApp = noApp
  Handshakes = {h1}
  Workers = {w1}
  SessionCap = 1
  FlowTTL = 1
  MaxSessions = 2
  MaxTime = 2
  MaxSets = 2
  MaxPolicies = 1
SYMMETRY JtiSymmetry
INVARIANTS TypeOK RevokedNotForwarded CacheBounded
PROPERTIES EvictJustified
