SPECIFICATION Spec
CONSTANTS
  Workers = {w1, w2}
  Identities = {d1, d2}
  States = {s1, s2}
  None = None
  CertTTL = 5
  RenewLead = 4
  ConnAge = 2
  StateTTL = 1
  Environments <- MixedEnvironments
INVARIANTS TypeOK RevokedCut NeverLapses LoginGated
PROPERTIES OneTimeSecrets
CHECK_DEADLOCK FALSE
