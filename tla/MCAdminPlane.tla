---------------------------- MODULE MCAdminPlane ----------------------------
(***************************************************************************)
(* Instances of AdminPlane for TLC.                                        *)
(***************************************************************************)
EXTENDS AdminPlane

\* A user's allow, a group's deny of a lower priority, the rule of the
\* highest priority for a credential at risk, and one that contradicts the
\* first.
FourPolicies ==
  <<[prio |-> 2, kind |-> User, val |-> 1, res |-> 1, act |-> 1, eff |-> Allow],
    [prio |-> 3, kind |-> Group, val |-> 1, res |-> 1, act |-> 1, eff |-> Deny],
    [prio |-> 1, kind |-> RiskGte, val |-> 3, res |-> 1, act |-> 1, eff |-> Deny],
    [prio |-> 0, kind |-> User, val |-> 1, res |-> 1, act |-> 1, eff |-> Inspect]>>
PolicySet == {FourPolicies[i] : i \in DOMAIN FourPolicies}

TwoClaims == {[user |-> 1, groups |-> {1}, posture |-> 0, risk |-> 0],
              [user |-> 2, groups |-> {1}, posture |-> 0, risk |-> 3]}

PlatformToken(s) == [role |-> Platform, sub |-> s, ten |-> NoTenant]
TenantToken(r, t) == [role |-> r, sub |-> "carol", ten |-> t]
Row(s, st) == [sub |-> s, st |-> st]

\* The life of one tenant, with or without a key.
Lifecycle(K) ==
  [ops |-> {"patchTenant", "decommission", "cancel", "sweep"},
   tenants |-> {"t1"}, keys |-> K, admins |-> <<Row("alice", "active")>>,
   boot |-> FALSE, tokens |-> {PlatformToken("alice")}, requests |-> 3]

\* Two tenants are created and swept.
TwoTenants ==
  [ops |-> {"createTenant", "decommission"},
   tenants |-> {"t1"}, keys |-> {"t1"}, admins |-> <<Row("alice", "active")>>,
   boot |-> FALSE, tokens |-> {PlatformToken("alice")}, requests |-> 3]

\* Two tenants that may be due at once, for the cron and for requests.
TwoDue ==
  [ops |-> {"decommission", "sweep"},
   tenants |-> {"t1", "t2"}, keys |-> {"t1"}, admins |-> <<Row("alice", "active")>>,
   boot |-> FALSE, tokens |-> {PlatformToken("alice")}, requests |-> 3]

\* The operator with the bootstrap token and an administrator change the table.
Admins(st) ==
  [ops |-> {"createAdmin", "patchAdmin", "deleteAdmin"},
   tenants |-> {}, keys |-> {}, admins |-> <<Row("alice", "active"), Row("carol", st)>>,
   boot |-> TRUE, tokens |-> {PlatformToken("alice")}, requests |-> 3]

\* Tokens of all roles.
Roles ==
  [ops |-> {"issueToken", "patchAdmin", "patchTenant", "createApp"},
   tenants |-> {"t1"}, keys |-> {"t1"}, admins |-> <<Row("alice", "active"), Row("carol", "active")>>,
   boot |-> FALSE, tokens |-> {PlatformToken("alice"), TenantToken(TenantAdmin, "t1"), TenantToken(Auditor, "t1")},
   requests |-> 2]

\* A tenant's policies.
Authoring ==
  [ops |-> {"createApp", "createPolicy", "compile"},
   tenants |-> {"t1"}, keys |-> {"t1"}, admins |-> <<>>,
   boot |-> FALSE, tokens |-> {TenantToken(TenantAdmin, "t1")}, requests |-> 5]

AllScenarios == {Lifecycle({}), Lifecycle({"t1"}), TwoTenants, TwoDue, Admins("active"), Admins("disabled"), Roles, Authoring}
=============================================================================
