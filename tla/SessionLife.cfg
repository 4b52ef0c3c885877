SPECIFICATION Spec
CONSTANTS
  MaxTTL = 3
  MaxTime = 3
  MaxCreds = 2
  SessionTTL = 2
  RefreshLead = 1
  AskedTTLs = {4}
  Environments <- MixedEnvironments
  Handlers = {h1, h2}
  Findings <- TwoFindings
  EventTTL = 1
  MaxSignals = 2
  BufCap = 1
  Healths = {"healthy"}
INVARIANTS TypeOK RevokedNotAdmitted RefreshGated
PROPERTIES RiskRevokes TunnelFollows
CHECK_DEADLOCK FALSE
