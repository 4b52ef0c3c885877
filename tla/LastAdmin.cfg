SPECIFICATION Spec
CONSTANTS
  Tenants = {"t1", "t2"}
  Workers = {w1, w2}
  MaxTime = 2
  DefaultGrace = 2
  MaxGrace = 2
  MaxFails = 1
  Subjects = {"alice", "carol", "boot"}
  BootSubject = "boot"
  MaxAdmins = 3
  Apps = {1}
  Policies <- PolicySet
  Claims <- TwoClaims
  MaxPolicies = 2
  Scenarios <- AllScenarios
  PolicyList <- FourPolicies
  MaxCrashes = 1
PROPERTIES LastAdminKept
