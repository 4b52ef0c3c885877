--------------------------- MODULE PolicyCompile ---------------------------
(***************************************************************************)
(* From policies to the bundle a PoP enforces: the transactions of         *)
(* internal/policy and internal/resource, the compiler                     *)
(* (internal/policy/compiler) and the decision of the enforcement point    *)
(* (internal/pop/pep).                                                     *)
(*                                                                         *)
(* A policy is a record of numbers: strings are represented by their rank  *)
(* in the order the compiler sorts by, the resource "" by 0.  A bundle is  *)
(* its rules in order; its content hash identifies them and is not kept.   *)
(***************************************************************************)
EXTENDS AdminBase, Integers, Sequences, FiniteSets, SequencesExt

CONSTANTS
  Apps,         \* app keys: ranks from 1
  Policies,     \* policies an administrator may write
  Claims,       \* credentials that ask for access
  MaxPolicies   \* bound: policies of a tenant

Group == 1
Posture == 2
RiskGte == 3
User == 4
Kinds == {Group, Posture, RiskGte, User}
Allow == 1
Deny == 2
Inspect == 3
Effects == {Allow, Deny, Inspect}
RiskLevels == 0 .. 3    \* low, medium, high, critical

Policy == [prio : Nat, kind : Nat, val : Nat, res : Nat, act : Nat, eff : Nat]
Claim == [user : Nat, groups : SUBSET Nat, posture : Nat, risk : RiskLevels]

Free == "free"

ASSUME PolicyAssumption ==
  /\ MaxPolicies \in Nat
  /\ Apps \subseteq Nat \ {0}
  /\ Policies \subseteq Policy
  /\ Claims \subseteq Claim
  /\ Free \notin Workers

VARIABLES
  pol,      \* rows of policies: a sequence for each tenant, in the order of their ids
  apps,     \* rows of apps
  bundles,  \* rows of policy_bundles: the versions of each tenant, oldest first
  active,   \* the version that is active, 0 for none
  lock,     \* pg_advisory_xact_lock: the worker that holds a tenant's lock
  comp      \* Compile of each worker: the apps and the policies it has read

policyVars == <<pol, apps, bundles, active, lock, comp>>

NoComp == [known |-> {}, read |-> <<>>]

PolicyTypeOK ==
  /\ \A t \in Tenants : /\ \A i \in DOMAIN pol[t] : pol[t][i] \in Policy
                        /\ active[t] \in 0 .. Len(bundles[t])
  /\ apps \in [Tenants -> SUBSET Apps]
  /\ lock \in [Tenants -> Workers \cup {Free}]
  /\ \A w \in Workers : comp[w].known \subseteq Apps

PolicyInit ==
  /\ pol = [t \in Tenants |-> <<>>]
  /\ apps = [t \in Tenants |-> {}]
  /\ bundles = [t \in Tenants |-> <<>>]
  /\ active = [t \in Tenants |-> 0]
  /\ lock = [t \in Tenants |-> Free]
  /\ comp = [w \in Workers |-> NoComp]

-----------------------------------------------------------------------------
(* The compiler: a pure function of the policies and the known apps.       *)

ValidPolicy(p, known) ==
  /\ p.eff \in Effects
  /\ p.kind \in Kinds
  /\ p.kind = RiskGte => p.val \in RiskLevels
  /\ p.res # 0 /\ p.act # 0
  /\ p.res \in known

SameMatch(p, q) == p.kind = q.kind /\ p.val = q.val /\ p.res = q.res /\ p.act = q.act

Conflicting(ps) == \E i, j \in DOMAIN ps : SameMatch(ps[i], ps[j]) /\ ps[i].eff # ps[j].eff

CompileError(ps, known) == Conflicting(ps) \/ \E i \in DOMAIN ps : ~ValidPolicy(ps[i], known)

\* Mutant: the priority does not come first.
SortKeyMut(p) == <<p.res, p.kind, p.val, p.act, p.eff, p.prio>>

SortKey(p) == <<p.prio, p.res, p.kind, p.val, p.act, p.eff>>

Before(a, b) == \E k \in DOMAIN a : a[k] < b[k] /\ \A m \in 1 .. k - 1 : a[m] = b[m]

\* The sort is stable: policies with equal keys (equal rules) keep the order of their ids.
Precedes(ps, i, j) ==
  \/ Before(SortKey(ps[i]), SortKey(ps[j]))
  \/ SortKey(ps[i]) = SortKey(ps[j]) /\ i < j

SortRules(ps) ==
  LET order == CHOOSE f \in SetToSeqs(DOMAIN ps) : \A k, l \in DOMAIN ps : k < l => Precedes(ps, f[k], f[l])
  IN  [k \in DOMAIN ps |-> ps[order[k]]]

-----------------------------------------------------------------------------
(* The enforcement point.                                                  *)

\* RiskAtLeast compares ranks; an unknown level of the credential is the lowest.
RiskAtLeast(level, threshold) == level >= threshold

SubjectMatch(r, c) ==
  \/ r.kind = User /\ c.user = r.val
  \/ r.kind = Group /\ r.val \in c.groups
  \/ r.kind = Posture /\ c.posture = r.val
  \/ r.kind = RiskGte /\ RiskAtLeast(c.risk, r.val)

RuleMatch(r, c, res, act) ==
  /\ r.res = res
  /\ r.act = 0 \/ act = 0 \/ r.act = act
  /\ SubjectMatch(r, c)

\* Decide: the first rule that matches, and deny without one.
Decide(rules, c, res, act) ==
  LET i == SelectInSeq(rules, LAMBDA r : RuleMatch(r, c, res, act))
  IN  IF i = 0 THEN Deny ELSE rules[i].eff

ActiveRules(t) == IF active[t] = 0 THEN <<>> ELSE bundles[t][active[t]]

-----------------------------------------------------------------------------
(* Transactions.                                                           *)

CreateApp(t, a) ==
  /\ apps' = [apps EXCEPT ![t] = @ \cup {a}]
  /\ UNCHANGED <<pol, bundles, active, lock, comp>>

\* Nothing is validated before the compilation; priority 0 stands for 100.
CreatePolicy(t, p) ==
  /\ Len(pol[t]) < MaxPolicies
  /\ pol' = [pol EXCEPT ![t] = Append(@, IF p.prio = 0 THEN [p EXCEPT !.prio = 100] ELSE p)]
  /\ UNCHANGED <<apps, bundles, active, lock, comp>>

\* Compile reads the registered apps before its transaction.
CompileApps(w, t) ==
  /\ comp' = [comp EXCEPT ![w].known = apps[t]]
  /\ UNCHANGED <<pol, apps, bundles, active, lock>>

\* Mutant: compilations of a tenant do not exclude each other.
CompileLockMut(w, t) ==
  /\ lock' = [lock EXCEPT ![t] = w]
  /\ UNCHANGED <<pol, apps, bundles, active, comp>>

\* pg_advisory_xact_lock.
CompileLock(w, t) ==
  /\ lock[t] = Free
  /\ lock' = [lock EXCEPT ![t] = w]
  /\ UNCHANGED <<pol, apps, bundles, active, comp>>

\* loadPolicies.
CompileLoad(w, t) ==
  /\ comp' = [comp EXCEPT ![w].read = pol[t]]
  /\ UNCHANGED <<pol, apps, bundles, active, lock>>

CompileFails(w) == CompileError(comp[w].read, comp[w].known)

\* Compiles, compares with the active version and, when the rules differ,
\* demotes it and inserts the new one as MAX(version) + 1; commits.
CompileActivate(w, t) ==
  /\ LET rules == SortRules(comp[w].read)
         changed == ~CompileFails(w) /\ ~(active[t] # 0 /\ ActiveRules(t) = rules)
     IN  /\ bundles' = IF changed THEN [bundles EXCEPT ![t] = Append(@, rules)] ELSE bundles
         /\ active' = IF changed THEN [active EXCEPT ![t] = Len(bundles[t]) + 1] ELSE active
  /\ lock' = [lock EXCEPT ![t] = Free]
  /\ comp' = [comp EXCEPT ![w] = NoComp]
  /\ UNCHANGED <<pol, apps>>
=============================================================================
