-------------------------- MODULE AdminPlane_proofs --------------------------
(***************************************************************************)
(* Proofs about AdminPlane, for any tenants, workers, administrators,      *)
(* policies and scenarios: the invariant PlaneInv, and from it the         *)
(* properties that AdminPlane.cfg checks, all but SweepCompletes.          *)
(*                                                                         *)
(* LinkInv ties what a request is doing to its transaction, its sweep and  *)
(* its advisory lock, and says that whoever is past the gate is allowed    *)
(* what he does.  Every step is shown once to keep it (WorkerOK); the      *)
(* parts about tenants (GraceInv), administrators (GuardInv) and policies  *)
(* (CompileInv) then look at their own operations only.                    *)
(***************************************************************************)
EXTENDS AdminPlane, FiniteSetTheorems, FunctionTheorems, WellFoundedInduction, TLAPS

-----------------------------------------------------------------------------
(* Types, and the parts of the invariant. *)

Phases == {"idle", "gate", "run", "sweep", "self", "guard", "write", "mint", "lock", "load", "activate"}
Sweeps == [pc : {"off", "destroy", "status"}, todo : Seq(Tenants)]
Queries ==
  [op : Ops \cup {""}, t : Scopes, s : Statuses \cup Subjects \cup {"", "disabled"},
   role : {"", Platform, TenantAdmin, Auditor}, n : {0, 1} \cup Ids \cup Apps \cup DOMAIN PolicyList]
Reqs == [pc : Phases, tok : Token \cup {Anonymous}, q : Queries, forged : {FALSE}, need : Nat]
Comps == [known : SUBSET Apps, read : Seq(Policy)]

\* The fields of a request are what its handler takes them for.
FieldsOK(q) ==
  /\ q.op \in {"createTenant", "patchTenant", "decommission", "cancel", "createApp", "createPolicy", "compile"}
       => q.t \in Tenants
  /\ q.op = "createTenant" => q.s \in {"", "offboarding"}
  /\ q.op = "decommission" => q.n \in {0, 1}
  /\ q.op \in {"patchAdmin", "deleteAdmin"} => q.n \in Ids
  /\ q.op \in {"createAdmin", "issueToken"} => q.s \in Subjects
  /\ q.op = "issueToken" => q.role # ""
  /\ q.op = "createApp" => q.n \in Apps
  /\ q.op = "createPolicy" => q.n \in DOMAIN PolicyList

TenantT == TenantTypeOK /\ sweep \in [Sweepers -> Sweeps]
PolicyT ==
  /\ pol \in [Tenants -> Seq(Policy)] /\ apps \in [Tenants -> SUBSET Apps]
  /\ bundles \in [Tenants -> Seq(Seq(Policy))]
  /\ active \in [Tenants -> Nat] /\ \A t \in Tenants : active[t] <= Len(bundles[t])
  /\ lock \in [Tenants -> Workers \cup {Free}]
  /\ comp \in [Workers -> Comps]
PlaneT ==
  /\ scene \in Scenarios /\ tokens \subseteq Token
  /\ served \in 0 .. scene.requests /\ crashes \in 0 .. MaxCrashes
  /\ promised \in [Tenants -> Nat]
ReqT == req \in [Workers -> Reqs] /\ \A w \in Workers : FieldsOK(req[w].q)

Held(w) == {t \in Tenants : lock[t] = w}

\* What a request r is doing, its transaction x, its sweep s and the locks L it holds.
LinkOK(r, x, s, L) ==
  /\ r.pc \in {"guard", "write"} => x.open
  /\ r.pc \notin {"guard", "write"} => x = NoTx
  /\ r.pc = "sweep" <=> s.pc # "off"
  /\ L = IF r.pc \in {"load", "activate"} THEN {r.q.t} ELSE {}
  /\ r.pc = "sweep" => r.q.op = "sweep"
  /\ r.pc \in {"self", "guard", "write"} => Disables(r.q)
  /\ r.pc = "mint" => r.q.op = "issueToken"
  /\ r.pc \in {"lock", "load", "activate"} => r.q.op = "compile"
  /\ r.pc = "idle" => r = Idle
  /\ r.pc \notin {"idle", "gate"} => Authorize(r.tok, r.q)
LinkInv == \A w \in Workers : LinkOK(req[w], tx[w], sweep[w], Held(w))

\* The earliest deadline of a tenant has passed.
Past(t) == firstDue[t] # Null /\ firstDue[t] < now
GraceInv ==
  /\ \A t \in Tenants : ten[t].due # Null => firstDue[t] # Null /\ firstDue[t] <= ten[t].due
  /\ \A s \in Sweepers : sweep[s].pc # "off" => sweep[s].todo # <<>>
  /\ \A s \in Sweepers : \A i \in DOMAIN sweep[s].todo : Past(sweep[s].todo[i])
  /\ GraceRespected

\* The rows a transaction has locked are active.
LockInv == \A w \in Workers : tx[w].locked \subseteq ActiveIds

\* A guard that lets a write of a locked row through has locked another.
WriteOK(w) == req[w].pc = "write" /\ req[w].q.n \in tx[w].locked => \E j \in tx[w].locked : j # req[w].q.n
GuardInv == LockInv /\ \A w \in Workers : WriteOK(w)

Begins(s, u) == Len(s) <= Len(u) /\ \A i \in 1 .. Len(s) : s[i] = u[i]
Sound(rules, known) ==
  /\ \A k \in DOMAIN rules : rules[k].res \in known
  /\ ~Conflicting(rules)
  /\ \A k, l \in DOMAIN rules : k < l => rules[k].prio <= rules[l].prio
CompOK(w) ==
  /\ req[w].q.op = "compile" => req[w].need <= Len(pol[req[w].q.t])
  /\ req[w].pc \in {"lock", "load", "activate"} => comp[w].known \subseteq apps[req[w].q.t]
  /\ req[w].pc = "activate" => /\ Begins(comp[w].read, pol[req[w].q.t])
                               /\ req[w].need <= Len(comp[w].read)
                               /\ promised[req[w].q.t] <= Len(comp[w].read)
BundleOK(t) ==
  /\ promised[t] <= Len(pol[t])
  /\ \A i \in 1 .. promised[t] : \E k \in DOMAIN ActiveRules(t) : ActiveRules(t)[k] = pol[t][i]
  /\ Sound(ActiveRules(t), apps[t])
CompileInv == (\A w \in Workers : CompOK(w)) /\ (\A t \in Tenants : BundleOK(t))

-----------------------------------------------------------------------------
(* The order of the rules and the decision. *)

\* A nonempty set of naturals has a least element.
LEMMA NatMin ==
  ASSUME NEW T, T \subseteq Nat, T # {}
  PROVE  \E x \in T : \A y \in T : x <= y
<1> DEFINE R == OpToRel(<, Nat)
<1>1. IsWellFoundedOn(R, Nat)
  BY NatLessThanWellFounded
<1>2. \A x, y \in Nat : y < x => <<y, x>> \in R
  BY DEF OpToRel
<1> HIDE DEF R
<1>3. PICK x \in T : \A y \in T : ~(<<y, x>> \in R)
  BY <1>1, WFMin
<1>4. \A y \in T : x \in Nat /\ y \in Nat /\ ~(y < x)
  BY <1>2, <1>3
<1> QED
  BY <1>4

Keys == [1 .. 6 -> Nat]

\* The sort key of a policy is six numbers, the priority first.
LEMMA KeyType ==
  ASSUME NEW p \in Policy
  PROVE  SortKey(p) \in Keys /\ SortKey(p)[1] = p.prio
BY DEF SortKey, Keys, Policy

\* Before is a strict total order.
LEMMA BeforeOrder ==
  ASSUME NEW a \in Keys, NEW b \in Keys, NEW c \in Keys
  PROVE  /\ ~Before(a, a)
         /\ Before(a, b) /\ Before(b, c) => Before(a, c)
         /\ a = b \/ Before(a, b) \/ Before(b, a)
         /\ Before(a, b) => a[1] <= b[1]
<1>1. /\ DOMAIN a = 1 .. 6 /\ DOMAIN b = 1 .. 6
      /\ \A k \in 1 .. 6 : a[k] \in Nat /\ b[k] \in Nat /\ c[k] \in Nat
  BY DEF Keys
<1>2. ~Before(a, a)
  BY <1>1 DEF Before
<1>3. ASSUME Before(a, b), Before(b, c) PROVE Before(a, c)
  <2>1. PICK k \in 1 .. 6 : a[k] < b[k] /\ \A m \in 1 .. k - 1 : a[m] = b[m]
    BY <1>1, <1>3 DEF Before
  <2>2. PICK l \in 1 .. 6 : b[l] < c[l] /\ \A m \in 1 .. l - 1 : b[m] = c[m]
    BY <1>1, <1>3 DEF Before
  <2>3. CASE k <= l
    <3>1. a[k] < c[k]
      <4>1. CASE k = l
        BY <1>1, <2>1, <2>2, <4>1
      <4>2. CASE k < l
        <5>1. b[k] = c[k]
          BY <2>2, <4>2
        <5> QED
          BY <2>1, <5>1
      <4> QED
        BY <2>3, <4>1, <4>2
    <3>2. \A m \in 1 .. k - 1 : a[m] = c[m]
      BY <2>1, <2>2, <2>3
    <3> QED
      BY <1>1, <3>1, <3>2 DEF Before
  <2>4. CASE l < k
    <3>1. a[l] < c[l]
      <4>1. a[l] = b[l]
        BY <2>1, <2>4
      <4> QED
        BY <2>2, <4>1
    <3>2. \A m \in 1 .. l - 1 : a[m] = c[m]
      BY <2>1, <2>2, <2>4
    <3> QED
      BY <1>1, <3>1, <3>2 DEF Before
  <2> QED
    BY <2>3, <2>4
<1>4. ASSUME a # b PROVE Before(a, b) \/ Before(b, a)
  <2> DEFINE D == {k \in 1 .. 6 : a[k] # b[k]}
  <2>1. PICK i \in 1 .. 6 : a[i] # b[i]
    BY <1>4 DEF Keys
  <2>2. D \subseteq Nat /\ D # {}
    BY <2>1
  <2>3. PICK k \in D : \A m \in D : k <= m
    <3> HIDE DEF D
    <3> QED
      BY <2>2, NatMin
  <2>4. \A m \in 1 .. k - 1 : a[m] = b[m]
    BY <2>3
  <2>5. a[k] < b[k] \/ b[k] < a[k]
    BY <1>1, <2>3
  <2> QED
    BY <1>1, <2>4, <2>5 DEF Before
<1>5. Before(a, b) => a[1] <= b[1]
  BY <1>1 DEF Before
<1> QED
  BY <1>2, <1>3, <1>4, <1>5

\* Precedes orders the policies of a list strictly and totally, by priority first.
LEMMA PrecedesOrder ==
  ASSUME NEW ps \in Seq(Policy), NEW i \in DOMAIN ps, NEW j \in DOMAIN ps, NEW k \in DOMAIN ps
  PROVE  /\ ~Precedes(ps, i, i)
         /\ Precedes(ps, i, j) /\ Precedes(ps, j, k) => Precedes(ps, i, k)
         /\ i = j \/ Precedes(ps, i, j) \/ Precedes(ps, j, i)
         /\ Precedes(ps, i, j) => ps[i].prio <= ps[j].prio
<1>1. ps[i] \in Policy /\ ps[j] \in Policy /\ ps[k] \in Policy /\ i \in Nat /\ j \in Nat /\ k \in Nat
  OBVIOUS
<1> DEFINE a == SortKey(ps[i])
           b == SortKey(ps[j])
           c == SortKey(ps[k])
<1>2. a \in Keys /\ b \in Keys /\ c \in Keys /\ a[1] = ps[i].prio /\ b[1] = ps[j].prio
  BY <1>1, KeyType
<1>3. ps[i].prio \in Nat /\ ps[j].prio \in Nat
  BY <1>1 DEF Policy
<1>4. /\ Precedes(ps, i, i) <=> (Before(a, a) \/ i < i)
      /\ Precedes(ps, i, j) <=> (Before(a, b) \/ (a = b /\ i < j))
      /\ Precedes(ps, j, i) <=> (Before(b, a) \/ (b = a /\ j < i))
      /\ Precedes(ps, j, k) <=> (Before(b, c) \/ (b = c /\ j < k))
      /\ Precedes(ps, i, k) <=> (Before(a, c) \/ (a = c /\ i < k))
  BY DEF Precedes
<1> HIDE DEF a, b, c
<1>5. /\ ~Before(a, a) /\ (Before(a, b) /\ Before(b, c) => Before(a, c))
      /\ a = b \/ Before(a, b) \/ Before(b, a)
      /\ Before(a, b) => a[1] <= b[1]
  BY <1>2, BeforeOrder
<1> QED
  BY <1>1, <1>2, <1>3, <1>4, <1>5

\* There is an order to sort by: the rank of a policy is the number of those before it.
LEMMA SortOrder ==
  ASSUME NEW ps \in Seq(Policy)
  PROVE  \E f \in SetToSeqs(DOMAIN ps) :
           \A k, l \in DOMAIN ps : k < l => Precedes(ps, f[k], f[l])
<1> DEFINE n == Len(ps)
           D == 1 .. n
           P(i) == {j \in D : Precedes(ps, j, i)}
           rank == [i \in D |-> Cardinality(P(i)) + 1]
<1>1. n \in Nat /\ DOMAIN ps = D
  OBVIOUS
<1>2. IsFiniteSet(D) /\ Cardinality(D) = n
  BY <1>1, FS_Interval
<1> HIDE DEF n, D
<1>3. \A i, j, k \in D :
        /\ ~Precedes(ps, i, i)
        /\ Precedes(ps, i, j) /\ Precedes(ps, j, k) => Precedes(ps, i, k)
        /\ i = j \/ Precedes(ps, i, j) \/ Precedes(ps, j, i)
  BY <1>1, PrecedesOrder
<1>4. ASSUME NEW i \in D
      PROVE  IsFiniteSet(P(i)) /\ Cardinality(P(i)) \in 0 .. n - 1
  <2>1. P(i) \in SUBSET D /\ P(i) # D
    BY <1>3
  <2> HIDE DEF P
  <2>2. IsFiniteSet(P(i)) /\ Cardinality(P(i)) <= n /\ Cardinality(P(i)) # n
    BY <1>2, <2>1, FS_Subset
  <2>3. Cardinality(P(i)) \in Nat
    BY <2>2, FS_CardinalityType
  <2> QED
    BY <1>1, <2>2, <2>3
<1>5. ASSUME NEW i \in D, NEW j \in D, Precedes(ps, i, j)
      PROVE  rank[i] < rank[j]
  <2>1. P(i) \in SUBSET P(j) /\ i \in P(j) /\ i \notin P(i)
    BY <1>3, <1>5
  <2>2. IsFiniteSet(P(j)) /\ Cardinality(P(i)) \in 0 .. n - 1 /\ Cardinality(P(j)) \in 0 .. n - 1
    BY <1>4
  <2>3. rank[i] = Cardinality(P(i)) + 1 /\ rank[j] = Cardinality(P(j)) + 1
    OBVIOUS
  <2> HIDE DEF P, rank
  <2>4. Cardinality(P(i)) <= Cardinality(P(j)) /\ Cardinality(P(j)) # Cardinality(P(i))
    BY <2>1, <2>2, FS_Subset
  <2> QED
    BY <1>1, <2>2, <2>3, <2>4
<1>6. rank \in [D -> D]
  <2>1. \A i \in D : Cardinality(P(i)) \in 0 .. n - 1
    BY <1>4
  <2> HIDE DEF P
  <2>2. \A i \in D : Cardinality(P(i)) + 1 \in 1 .. n
    BY <1>1, <2>1
  <2> QED
    BY <2>2 DEF D
<1> HIDE DEF rank, P
<1>7. \A i \in D : rank[i] \in Nat
  BY <1>6, <1>1 DEF D
<1>8. \A i, j \in D : rank[i] = rank[j] => i = j
  BY <1>3, <1>5, <1>7
<1>9. rank \in Injection(D, D)
  BY <1>6, <1>8 DEF Injection, IsInjective
<1>10. rank \in Surjection(D, D)
  BY <1>2, <1>9, FS_Injection
<1>11. \A k \in D : \E i \in D : rank[i] = k
  BY <1>10 DEF Surjection
<1> DEFINE f == [k \in D |-> CHOOSE i \in D : rank[i] = k]
<1>12. \A k \in D : f[k] \in D /\ rank[f[k]] = k
  BY <1>11
<1>13. f \in [D -> D]
  BY <1>12
<1> HIDE DEF f
<1>14. f \in SetToSeqs(DOMAIN ps)
  <2>1. \A k, l \in D : k # l => f[k] # f[l]
    BY <1>12
  <2>2. 1 .. Cardinality(DOMAIN ps) = D
    BY <1>1, <1>2 DEF D
  <2> QED
    BY <1>1, <1>13, <2>1, <2>2 DEF SetToSeqs
<1>15. ASSUME NEW k \in D, NEW l \in D, k < l
       PROVE  Precedes(ps, f[k], f[l])
  <2>1. k \in Nat /\ l \in Nat
    BY <1>1 DEF D
  <2>2. f[k] \in D /\ f[l] \in D /\ rank[f[k]] = k /\ rank[f[l]] = l
    BY <1>12
  <2>3. f[k] # f[l] /\ ~(rank[f[l]] < rank[f[k]])
    BY <1>15, <2>1, <2>2
  <2>4. ~Precedes(ps, f[l], f[k])
    BY <1>5, <2>2, <2>3
  <2> QED
    BY <1>3, <2>2, <2>3, <2>4
<1> QED
  BY <1>1, <1>14, <1>15

\* The rules of a bundle are the policies, all of them, in the order of their priority.
LEMMA SortedRules ==
  ASSUME NEW ps \in Seq(Policy)
  PROVE  LET rules == SortRules(ps)
         IN  /\ rules \in Seq(Policy) /\ DOMAIN rules = DOMAIN ps
             /\ \A k \in DOMAIN ps : \E i \in DOMAIN ps : rules[k] = ps[i]
             /\ \A i \in DOMAIN ps : \E k \in DOMAIN ps : rules[k] = ps[i]
             /\ \A k, l \in DOMAIN ps : k < l => rules[k].prio <= rules[l].prio
<1> DEFINE n == Len(ps)
           D == DOMAIN ps
           S(f) == \A k, l \in D : k < l => Precedes(ps, f[k], f[l])
           o == CHOOSE f \in SetToSeqs(D) : S(f)
           rules == SortRules(ps)
<1>1. n \in Nat /\ D = 1 .. n /\ \A i \in D : ps[i] \in Policy
  OBVIOUS
<1>2. IsFiniteSet(D) /\ Cardinality(D) = n
  BY <1>1, FS_Interval
<1>3. o \in SetToSeqs(D) /\ S(o)
  BY SortOrder
<1>4. rules = [k \in D |-> ps[o[k]]]
  BY DEF SortRules
<1> HIDE DEF o, n, D, rules
<1>5. o \in [D -> D] /\ \A k, l \in D : k # l => o[k] # o[l]
  BY <1>1, <1>2, <1>3 DEF SetToSeqs
<1>6. o \in Injection(D, D)
  BY <1>5 DEF Injection, IsInjective
<1>7. o \in Surjection(D, D)
  BY <1>2, <1>6, FS_Injection
<1>8. \A i \in D : \E k \in D : o[k] = i
  BY <1>7 DEF Surjection
<1>9. \A k \in D : o[k] \in D /\ rules[k] = ps[o[k]]
  BY <1>4, <1>5
<1>10. rules \in [1 .. n -> Policy] /\ DOMAIN rules = D
  BY <1>1, <1>4, <1>9
<1>11. \A k, l \in D : k < l => rules[k].prio <= rules[l].prio
  BY <1>3, <1>9, PrecedesOrder DEF D
<1>12. rules \in Seq(Policy)
  BY <1>1, <1>10
<1> QED
  BY <1>8, <1>9, <1>10, <1>11, <1>12, ZenonT(40) DEF D, rules

\* Rules sorted from policies that compile are sound, and hold every policy.
LEMMA Compiled ==
  ASSUME NEW ps \in Seq(Policy), NEW known, ~CompileError(ps, known)
  PROVE  Sound(SortRules(ps), known)
<1> DEFINE rules == SortRules(ps)
<1>1. /\ DOMAIN rules = DOMAIN ps
      /\ \A k \in DOMAIN ps : \E i \in DOMAIN ps : rules[k] = ps[i]
      /\ \A k, l \in DOMAIN ps : k < l => rules[k].prio <= rules[l].prio
  BY SortedRules
<1>2. ~Conflicting(ps) /\ \A i \in DOMAIN ps : ps[i].res \in known
  BY DEF CompileError, ValidPolicy
<1> HIDE DEF rules
<1>3. ~Conflicting(rules)
  <2> SUFFICES ASSUME NEW k \in DOMAIN ps, NEW l \in DOMAIN ps, SameMatch(rules[k], rules[l]), rules[k].eff # rules[l].eff
               PROVE  FALSE
    BY <1>1 DEF Conflicting
  <2>1. PICK i \in DOMAIN ps : rules[k] = ps[i]
    BY <1>1
  <2>2. PICK j \in DOMAIN ps : rules[l] = ps[j]
    BY <1>1
  <2> QED
    BY <1>2, <2>1, <2>2 DEF Conflicting
<1>4. \A k \in DOMAIN rules : rules[k].res \in known
  BY <1>1, <1>2
<1> QED
  BY <1>1, <1>3, <1>4 DEF Sound, rules

\* Decide takes the first rule that matches, which has the least priority number.
LEMMA DecideFirst ==
  ASSUME NEW rules \in Seq(Policy), NEW known, Sound(rules, known), NEW c, NEW a
  PROVE  LET m == {k \in DOMAIN rules : RuleMatch(rules[k], c, a, 1)}
         IN  IF m = {} THEN Decide(rules, c, a, 1) = Deny
             ELSE \E k \in m : /\ rules[k].eff = Decide(rules, c, a, 1)
                               /\ \A j \in m : rules[k].prio <= rules[j].prio
<1> DEFINE m == {k \in DOMAIN rules : RuleMatch(rules[k], c, a, 1)}
           d == Decide(rules, c, a, 1)
<1>1. DOMAIN rules = 1 .. Len(rules) /\ Len(rules) \in Nat
  OBVIOUS
<1>2. \A k \in m : k \in Nat /\ rules[k].prio \in Nat /\ k # 0
  <2>1. \A k \in m : k \in 1 .. Len(rules) /\ rules[k] \in Policy
    BY <1>1
  <2>2. \A p \in Policy : p.prio \in Nat
    BY DEF Policy
  <2>3. \A k \in 1 .. Len(rules) : k \in Nat /\ k # 0
    BY <1>1
  <2> HIDE DEF m
  <2> QED
    BY <2>1, <2>2, <2>3
<1>3. d = IF m # {} THEN LET i == CHOOSE k \in m : \A j \in m : k <= j
                         IN  IF i = 0 THEN Deny ELSE rules[i].eff
          ELSE Deny
  BY <1>1 DEF Decide, SelectInSeq, Min
<1>4. CASE m = {}
  BY <1>3, <1>4
<1>5. CASE m # {}
  <2> HIDE DEF m, d
  <2>1. \E k \in m : \A j \in m : k <= j
    BY <1>2, <1>5, NatMin
  <2>2. PICK i : i = CHOOSE k \in m : \A j \in m : k <= j
    OBVIOUS
  <2>3. i \in m /\ \A j \in m : i <= j
    BY <2>1, <2>2
  <2>4. d = rules[i].eff
    BY <1>2, <1>3, <1>5, <2>2, <2>3
  <2>5. \A j \in m : rules[i].prio <= rules[j].prio
    <3> SUFFICES ASSUME NEW j \in m PROVE rules[i].prio <= rules[j].prio
      OBVIOUS
    <3>1. i \in DOMAIN rules /\ j \in DOMAIN rules
      BY <2>3 DEF m
    <3>2. i = j \/ i < j
      BY <1>2, <2>3
    <3> QED
      BY <1>2, <2>3, <3>1, <3>2 DEF Sound
  <2> QED
    BY <1>5, <2>3, <2>4, <2>5 DEF m, d
<1> QED
  BY <1>4, <1>5

-----------------------------------------------------------------------------
(* Tenants: types, and the period of grace. *)

\* Nothing of the tenants changes.
LEMMA TenantStutter ==
  ASSUME TenantT, GraceInv, UNCHANGED tenantVars
  PROVE  TenantT' /\ GraceInv'
<1>1. UNCHANGED <<now, ten, dek, sweep, fails, firstDue>>
  BY DEF tenantVars
<1> QED
  BY <1>1 DEF TenantT, TenantTypeOK, GraceInv, GraceRespected, Past

\* A new tenant has no deadline and its key is not destroyed.
LEMMA CreateTenantGrace ==
  ASSUME TenantT, GraceInv, NEW t \in Tenants, NEW s \in {"", "offboarding"},
         CreateTenant(t, s), UNCHANGED <<now, sweep, fails>>
  PROVE  TenantT' /\ GraceInv'
<1>1. CASE UNCHANGED rowVars
  BY <1>1, TenantStutter DEF rowVars, tenantVars
<1>2. CASE /\ ten' = [ten EXCEPT ![t].status = IF s = "" THEN "active" ELSE s]
           /\ dek' = [dek EXCEPT ![t] = KeyAfterCreate(t)]
           /\ UNCHANGED firstDue
  <2>1. KeyAfterCreate(t) \in {"none", "live", "destroyed"} /\ (KeyAfterCreate(t) = "destroyed" => dek[t] = "destroyed")
    BY DEF KeyAfterCreate, TenantT, TenantTypeOK
  <2>2. \A u \in Tenants : ten'[u].due = ten[u].due /\ (dek'[u] = "destroyed" => dek[u] = "destroyed")
    BY <1>2, <2>1 DEF TenantT, TenantTypeOK
  <2>3. TenantT'
    BY <1>2, <2>1 DEF TenantT, TenantTypeOK, Statuses
  <2>4. GraceInv'
    BY <1>2, <2>2 DEF GraceInv, GraceRespected, Past
  <2> QED
    BY <2>3, <2>4
<1> QED
  BY <1>1, <1>2 DEF CreateTenant

\* A tenant's status is set; its deadline stays.
LEMMA StatusGrace ==
  ASSUME TenantT, NEW t \in Tenants, NEW s, PatchTenant(t, s)
  PROVE  /\ ten' \in [Tenants -> [status : Statuses \cup {"none"}, due : {Null} \cup 0 .. MaxTime + MaxGrace]]
         /\ UNCHANGED <<dek, firstDue>>
         /\ \A u \in Tenants : ten'[u].due = ten[u].due
BY DEF TenantT, TenantTypeOK, PatchTenant, rowVars

\* PATCH leaves deadlines and keys alone.
LEMMA PatchTenantGrace ==
  ASSUME TenantT, GraceInv, NEW t \in Tenants, NEW s, PatchTenant(t, s), UNCHANGED <<now, sweep, fails>>
  PROVE  TenantT' /\ GraceInv'
<1>1. /\ ten' \in [Tenants -> [status : Statuses \cup {"none"}, due : {Null} \cup 0 .. MaxTime + MaxGrace]]
      /\ UNCHANGED <<dek, firstDue>>
      /\ \A u \in Tenants : ten'[u].due = ten[u].due
  BY StatusGrace
<1>2. TenantT'
  BY <1>1 DEF TenantT, TenantTypeOK
<1>3. GraceInv'
  BY <1>1 DEF GraceInv, GraceRespected, Past
<1> QED
  BY <1>2, <1>3

\* A later deadline does not undo an earlier one.
LEMMA DecommissionGrace ==
  ASSUME TenantT, GraceInv, NEW t \in Tenants, NEW g \in Nat, Decommission(t, g), UNCHANGED <<now, sweep, fails>>
  PROVE  TenantT' /\ GraceInv'
<1>1. CASE UNCHANGED rowVars
  BY <1>1, TenantStutter DEF rowVars, tenantVars
<1>2. CASE /\ g > 0 /\ g <= MaxGrace
           /\ ten' = [ten EXCEPT ![t] = [status |-> "offboarding", due |-> now + g]]
           /\ firstDue' = [firstDue EXCEPT ![t] = Earliest(@, now + g)]
           /\ UNCHANGED dek
  <2>1. now + g \in 0 .. MaxTime + MaxGrace /\ now \in Nat /\ firstDue[t] \in {Null} \cup 0 .. MaxTime + MaxGrace
    BY <1>2, TenantAssumption DEF TenantT, TenantTypeOK
  <2>2. /\ Earliest(firstDue[t], now + g) \in 0 .. MaxTime + MaxGrace
        /\ Earliest(firstDue[t], now + g) <= now + g
        /\ firstDue[t] # Null => Earliest(firstDue[t], now + g) <= firstDue[t]
    BY <2>1, TenantAssumption DEF Earliest, Null
  <2>3. TenantT'
    BY <1>2, <2>1, <2>2 DEF TenantT, TenantTypeOK, Statuses
  <2>4. \A u \in Tenants :
          firstDue[u] # Null => /\ firstDue'[u] # Null /\ firstDue'[u] <= firstDue[u]
                                /\ firstDue[u] \in Int /\ firstDue'[u] \in Int
    BY <1>2, <2>1, <2>2, TenantAssumption DEF TenantT, TenantTypeOK, Null
  <2>5. \A u \in Tenants : Past(u) => Past(u)'
    BY <2>1, <2>4 DEF Past
  <2>6. \A u \in Tenants : ten'[u].due # Null => firstDue'[u] # Null /\ firstDue'[u] <= ten'[u].due
    <3> SUFFICES ASSUME NEW u \in Tenants, ten'[u].due # Null
                 PROVE  firstDue'[u] # Null /\ firstDue'[u] <= ten'[u].due
      OBVIOUS
    <3>1. CASE u = t
      <4>1. ten'[u].due = now + g /\ firstDue'[u] = Earliest(firstDue[t], now + g)
        BY <1>2, <3>1 DEF TenantT, TenantTypeOK
      <4> QED
        BY <2>1, <2>2, <4>1, TenantAssumption DEF Null
    <3>2. CASE u # t
      BY <1>2, <3>2 DEF TenantT, TenantTypeOK, GraceInv
    <3> QED
      BY <3>1, <3>2
  <2>7. \A s \in Sweepers : \A i \in DOMAIN sweep[s].todo : sweep[s].todo[i] \in Tenants
    BY DEF TenantT, TenantTypeOK
  <2>8. GraceInv'
    BY <1>2, <2>5, <2>6, <2>7 DEF GraceInv, GraceRespected, Past
  <2> QED
    BY <2>3, <2>8
<1> QED
  BY <1>1, <1>2 DEF Decommission

\* Cancellation takes the deadline away and keeps its history.
LEMMA CancelGrace ==
  ASSUME TenantT, GraceInv, NEW t \in Tenants, CancelDecommission(t), UNCHANGED <<now, sweep, fails>>
  PROVE  TenantT' /\ GraceInv'
<1>1. CASE UNCHANGED rowVars
  BY <1>1, TenantStutter DEF rowVars, tenantVars
<1>2. CASE /\ ten' = [ten EXCEPT ![t] = [status |-> "active", due |-> Null]]
           /\ UNCHANGED <<dek, firstDue>>
  <2>1. TenantT'
    BY <1>2 DEF TenantT, TenantTypeOK, Statuses
  <2>2. \A u \in Tenants : ten'[u].due = Null \/ ten'[u].due = ten[u].due
    BY <1>2 DEF TenantT, TenantTypeOK
  <2>3. GraceInv'
    BY <1>2, <2>2 DEF GraceInv, GraceRespected, Past
  <2> QED
    BY <2>1, <2>3
<1> QED
  BY <1>1, <1>2 DEF CancelDecommission

\* The list of the sweep: tenants whose deadline, and so whose earliest deadline, has passed.
LEMMA ListDuePast ==
  ASSUME TenantT, GraceInv, NEW l \in ListDue
  PROVE  l \in Seq(Tenants) /\ \A i \in DOMAIN l : Past(l[i])
<1> DEFINE D == {t \in Tenants : Due(t)}
<1>1. IsFiniteSet(D)
  BY FS_Subset, TenantAssumption
<1>2. Cardinality(D) \in Nat
  BY <1>1, FS_CardinalityType
<1>3. l \in [1 .. Cardinality(D) -> D]
  BY DEF ListDue, SetToSeqs
<1>4. \A t \in D : t \in Tenants /\ Past(t)
  <2> SUFFICES ASSUME NEW t \in D PROVE t \in Tenants /\ Past(t)
    OBVIOUS
  <2>1. t \in Tenants /\ ten[t].due # Null /\ ten[t].due < now
    BY DEF Due
  <2>2. firstDue[t] # Null /\ firstDue[t] <= ten[t].due
    BY <2>1 DEF GraceInv
  <2>3. firstDue[t] \in Int /\ ten[t].due \in Int /\ now \in Int
    BY <2>1, TenantAssumption DEF TenantT, TenantTypeOK, Null
  <2> QED
    BY <2>1, <2>2, <2>3 DEF Past
<1> HIDE DEF D
<1>5. l \in Seq(D)
  BY <1>2, <1>3
<1> QED
  BY <1>2, <1>3, <1>4, <1>5

\* A sweeper's next state is one of its type, whose tenants are past their deadline.
SweepGood(x) ==
  /\ x \in Sweeps /\ (x.pc # "off" => x.todo # <<>>)
  /\ \A i \in DOMAIN x.todo : Past(x.todo[i])

\* Only the list of one sweeper changes.
LEMMA SweepGrace ==
  ASSUME TenantT, GraceInv, NEW s \in Sweepers, NEW x, SweepGood(x),
         sweep' = [sweep EXCEPT ![s] = x], UNCHANGED <<now, rowVars>>, fails' \in 0 .. MaxFails
  PROVE  TenantT' /\ GraceInv'
<1>1. UNCHANGED <<now, ten, dek, firstDue>>
  BY DEF rowVars
<1>2. sweep' \in [Sweepers -> Sweeps] /\ \A u \in Sweepers : sweep'[u] = IF u = s THEN x ELSE sweep[u]
  BY DEF TenantT, SweepGood
<1>3. \A u \in Sweepers : /\ sweep'[u].pc \in {"off", "destroy", "status"}
                          /\ \A i \in DOMAIN sweep'[u].todo : sweep'[u].todo[i] \in Tenants
  <2>1. \A u \in Sweepers : sweep'[u] \in Sweeps
    BY <1>2
  <2> QED
    BY <2>1 DEF Sweeps
<1>4. TenantT'
  BY <1>1, <1>2, <1>3 DEF TenantT, TenantTypeOK
<1>5. \A u \in Sweepers : /\ sweep'[u].pc # "off" => sweep'[u].todo # <<>>
                          /\ \A i \in DOMAIN sweep'[u].todo : Past(sweep'[u].todo[i])
  BY <1>2 DEF GraceInv, SweepGood
<1>6. GraceInv'
  BY <1>1, <1>5 DEF GraceInv, GraceRespected, Past
<1> QED
  BY <1>4, <1>6

\* A sweep starts with tenants whose earliest deadline is past.
LEMMA SweepListGrace ==
  ASSUME TenantT, GraceInv, NEW s \in Sweepers, SweepList(s)
  PROVE  TenantT' /\ GraceInv'
<1>1. PICK l \in ListDue :
        sweep' = [sweep EXCEPT ![s] = IF l = <<>> THEN Resting ELSE [pc |-> "destroy", todo |-> l]]
  BY DEF SweepList
<1>2. UNCHANGED <<now, rowVars>> /\ fails' \in 0 .. MaxFails
  BY DEF SweepList, TenantT, TenantTypeOK
<1>3. l \in Seq(Tenants) /\ \A i \in DOMAIN l : Past(l[i])
  BY ListDuePast
<1>4. SweepGood(Resting)
  BY DEF SweepGood, Resting, Sweeps
<1>5. l # <<>> => SweepGood([pc |-> "destroy", todo |-> l])
  BY <1>3 DEF SweepGood, Sweeps
<1> QED
  BY <1>1, <1>2, <1>4, <1>5, SweepGrace

\* What a sweeper has still to do.
LEMMA TodoGood ==
  ASSUME TenantT, GraceInv, NEW s \in Sweepers, sweep[s].pc # "off"
  PROVE  /\ SweepGood(NextTenant(s)) /\ Head(sweep[s].todo) \in Tenants /\ Past(Head(sweep[s].todo))
         /\ SweepGood([sweep[s] EXCEPT !.pc = "status"])
<1> DEFINE l == sweep[s].todo
<1>1. sweep[s] \in Sweeps
  BY DEF TenantT
<1>2. l \in Seq(Tenants) /\ l # <<>>
  BY <1>1 DEF Sweeps, GraceInv
<1>3. \A i \in DOMAIN l : Past(l[i])
  BY DEF GraceInv
<1>4. Head(l) \in Tenants /\ Past(Head(l))
  BY <1>2, <1>3
<1>5. Tail(l) \in Seq(Tenants) /\ \A i \in DOMAIN Tail(l) : Past(Tail(l)[i])
  BY <1>2, <1>3
<1>6. SweepGood(Resting) /\ (Tail(l) # <<>> => SweepGood([pc |-> "destroy", todo |-> Tail(l)]))
  BY <1>5 DEF SweepGood, Resting, Sweeps
<1>7. SweepGood(NextTenant(s))
  <2>1. Len(l) = 1 \/ Tail(l) # <<>>
    <3> HIDE DEF l
    <3>1. Len(l) \in Nat /\ Len(l) # 0 /\ Len(Tail(l)) = Len(l) - 1
      BY <1>2
    <3> QED
      BY <3>1
  <2> QED
    BY <1>6, <2>1 DEF NextTenant
<1>8. SweepGood([sweep[s] EXCEPT !.pc = "status"])
  BY <1>1, <1>2, <1>3 DEF SweepGood, Sweeps
<1> QED
  BY <1>4, <1>7, <1>8

\* A sweep destroys keys of tenants on its list only, however old the list is.
LEMMA SweepStepGrace ==
  ASSUME TenantT, GraceInv, NEW s \in Sweepers, SweepStep(s)
  PROVE  TenantT' /\ GraceInv'
<1> DEFINE t == Head(sweep[s].todo)
<1>1. sweep[s].pc # "off"
  BY DEF SweepStep, SweepDestroy, SweepStatus, SweepFail
<1>2. SweepGood(NextTenant(s)) /\ t \in Tenants /\ Past(t) /\ SweepGood([sweep[s] EXCEPT !.pc = "status"])
  BY <1>1, TodoGood
<1>3. fails \in 0 .. MaxFails
  BY DEF TenantT, TenantTypeOK
<1> HIDE DEF t
<1>4. CASE SweepDestroy(s)
  <2>1. /\ dek' = [dek EXCEPT ![t] = IF @ = "none" THEN @ ELSE "destroyed"]
        /\ sweep' = [sweep EXCEPT ![s].pc = "status"]
        /\ UNCHANGED <<now, ten, firstDue, fails>>
    BY <1>4 DEF SweepDestroy, Destroyable, t
  <2>2. sweep' = [sweep EXCEPT ![s] = [sweep[s] EXCEPT !.pc = "status"]]
    BY <2>1 DEF TenantT
  <2>3. /\ sweep' \in [Sweepers -> Sweeps]
        /\ \A u \in Sweepers : sweep'[u].todo = sweep[u].todo /\ (sweep'[u].pc # "off" => sweep'[u].todo # <<>>)
    BY <1>1, <1>2, <2>2 DEF TenantT, SweepGood, Sweeps, GraceInv
  <2>4. dek' \in [Tenants -> {"none", "live", "destroyed"}]
        /\ \A u \in Tenants : dek'[u] = "destroyed" => dek[u] = "destroyed" \/ u = t
    BY <1>2, <2>1 DEF TenantT, TenantTypeOK
  <2>5. \A u \in Sweepers : sweep'[u].pc \in {"off", "destroy", "status"}
    BY <2>3 DEF Sweeps
  <2>6. TenantT'
    BY <2>1, <2>3, <2>4, <2>5 DEF TenantT, TenantTypeOK
  <2>7. GraceInv'
    BY <1>2, <2>1, <2>3, <2>4 DEF GraceInv, GraceRespected, Past
  <2> QED
    BY <2>6, <2>7
<1>5. CASE SweepStatus(s)
  <2>1. PatchTenant(t, "decommissioned") /\ sweep' = [sweep EXCEPT ![s] = NextTenant(s)] /\ UNCHANGED <<now, fails>>
    BY <1>5 DEF SweepStatus, t
  <2>2. /\ ten' \in [Tenants -> [status : Statuses \cup {"none"}, due : {Null} \cup 0 .. MaxTime + MaxGrace]]
        /\ UNCHANGED <<dek, firstDue>>
        /\ \A u \in Tenants : ten'[u].due = ten[u].due
    BY <1>2, <2>1, StatusGrace
  <2>3. sweep' \in [Sweepers -> Sweeps] /\ \A u \in Sweepers : sweep'[u] = IF u = s THEN NextTenant(s) ELSE sweep[u]
    BY <1>2, <2>1 DEF TenantT, SweepGood
  <2>4. \A u \in Sweepers : /\ sweep'[u].pc \in {"off", "destroy", "status"}
                            /\ \A i \in DOMAIN sweep'[u].todo : sweep'[u].todo[i] \in Tenants
    BY <2>3 DEF Sweeps
  <2>5. TenantT'
    BY <2>1, <2>2, <2>3, <2>4 DEF TenantT, TenantTypeOK
  <2>6. \A u \in Sweepers : /\ sweep'[u].pc # "off" => sweep'[u].todo # <<>>
                            /\ \A i \in DOMAIN sweep'[u].todo : Past(sweep'[u].todo[i])
    BY <1>2, <2>3 DEF GraceInv, SweepGood
  <2>7. GraceInv'
    BY <2>1, <2>2, <2>6 DEF GraceInv, GraceRespected, Past
  <2> QED
    BY <2>5, <2>7
<1>6. CASE SweepFail(s)
  <2>1. sweep' = [sweep EXCEPT ![s] = NextTenant(s)] /\ UNCHANGED <<now, rowVars>>
    BY <1>6 DEF SweepFail
  <2>2. fails' \in 0 .. MaxFails
    BY <1>3, <1>6, TenantAssumption DEF SweepFail
  <2> QED
    BY <1>2, <2>1, <2>2, SweepGrace
<1> QED
  BY <1>4, <1>5, <1>6 DEF SweepStep

\* A deadline that is past stays past.
LEMMA TickGrace ==
  ASSUME TenantT, GraceInv, Tick
  PROVE  TenantT' /\ GraceInv'
<1>1. now' = now + 1 /\ now < MaxTime /\ UNCHANGED <<ten, dek, firstDue, sweep, fails>>
  BY DEF Tick, rowVars
<1>2. now \in Nat /\ now' \in 0 .. MaxTime
  BY <1>1, TenantAssumption DEF TenantT, TenantTypeOK
<1>3. TenantT'
  BY <1>1, <1>2 DEF TenantT, TenantTypeOK
<1>4. \A t \in Tenants : firstDue[t] \in Int
  BY TenantAssumption DEF TenantT, TenantTypeOK, Null
<1>5. \A t \in Tenants : Past(t) => Past(t)'
  BY <1>1, <1>2, <1>4 DEF Past
<1>6. \A s \in Sweepers : \A i \in DOMAIN sweep[s].todo : sweep[s].todo[i] \in Tenants
  BY DEF TenantT, TenantTypeOK
<1>7. GraceInv'
  BY <1>1, <1>5, <1>6 DEF GraceInv, GraceRespected, Past
<1> QED
  BY <1>3, <1>7

-----------------------------------------------------------------------------
(* Platform administrators: types, and what a guard has locked. *)

Row == [sub : Subjects, st : {"free", "active", "disabled", "gone"}]
Txs == [open : BOOLEAN, todo : SUBSET Ids, locked : SUBSET Ids]

\* A row becomes active, or one changes that no transaction holds but the writer's, which ends.
LEMMA RowLocks ==
  ASSUME AdminTypeOK, LockInv, NEW i \in Ids, NEW r \in Row, adm' = [adm EXCEPT ![i] = r],
         tx' \in [Workers -> Txs], \A w \in Workers : tx'[w].locked \subseteq tx[w].locked,
         r.st = "active" \/ \A w \in Workers : i \notin tx'[w].locked
  PROVE  AdminTypeOK' /\ LockInv'
<1>1. adm \in [Ids -> Row] /\ adm' \in [Ids -> Row]
  BY DEF AdminTypeOK, Row
<1>2. AdminTypeOK'
  BY <1>1 DEF AdminTypeOK, Row, Txs
<1>3. ASSUME NEW w \in Workers, NEW j \in tx'[w].locked PROVE j \in ActiveIds'
  <2>1. j \in Ids /\ adm[j].st = "active"
    BY DEF LockInv, ActiveIds
  <2>2. adm'[j].st = "active"
    BY <1>1, <2>1
  <2> QED
    BY <2>1, <2>2 DEF ActiveIds
<1> QED
  BY <1>2, <1>3 DEF LockInv

\* Only transactions change.
LEMMA TxLocks ==
  ASSUME AdminTypeOK, LockInv, NEW w \in Workers, NEW x \in Txs, x.locked \subseteq ActiveIds,
         tx' = [tx EXCEPT ![w] = x], UNCHANGED adm
  PROVE  AdminTypeOK' /\ LockInv' /\ tx'[w] = x /\ \A v \in Workers \ {w} : tx'[v] = tx[v]
<1>1. tx \in [Workers -> Txs]
  BY DEF AdminTypeOK, Txs
<1>2. tx' \in [Workers -> Txs] /\ tx'[w] = x /\ \A v \in Workers \ {w} : tx'[v] = tx[v]
  BY <1>1
<1>3. AdminTypeOK'
  BY <1>2 DEF AdminTypeOK, Txs
<1>4. LockInv'
  BY <1>2 DEF LockInv, ActiveIds
<1> QED
  BY <1>2, <1>3, <1>4

\* Steps without administrators.
LEMMA AdminStutter ==
  ASSUME AdminTypeOK, LockInv, UNCHANGED adminVars
  PROVE  AdminTypeOK' /\ LockInv'
<1>1. UNCHANGED <<adm, tx>>
  BY DEF adminVars
<1> QED
  BY <1>1 DEF AdminTypeOK, LockInv, ActiveIds

\* A worker without a transaction holds no row.
LEMMA NoTxType == NoTx \in Txs /\ NoTx.locked = {} /\ ~NoTx.open
BY DEF NoTx, Txs

\* A free row is taken: the insert finds the least one.
LEMMA CreateAdminLocks ==
  ASSUME AdminTypeOK, LockInv, NEW s \in Subjects, CanCreateAdmin, CreateAdmin(s)
  PROVE  AdminTypeOK' /\ LockInv' /\ UNCHANGED tx
<1>1. CASE UNCHANGED adminVars
  BY <1>1, AdminStutter DEF adminVars
<1>2. CASE ~UNCHANGED adminVars
  <2> DEFINE F == {i \in Ids : adm[i].st = "free"}
             i == CHOOSE i \in Ids : adm[i].st = "free" /\ \A j \in Ids : adm[j].st = "free" => i <= j
             r == [sub |-> s, st |-> "active"]
  <2>1. F \subseteq Nat /\ F # {}
    BY AdminAssumption DEF CanCreateAdmin, Ids
  <2>2. \E k \in F : \A j \in F : k <= j
    <3> HIDE DEF F
    <3> QED
      BY <2>1, NatMin
  <2>3. i \in Ids
    BY <2>2
  <2>4. adm' = [adm EXCEPT ![i] = r] /\ UNCHANGED tx
    BY <1>2 DEF CreateAdmin
  <2> HIDE DEF i
  <2>5. r \in Row /\ r.st = "active"
    BY DEF Row
  <2>6. tx' \in [Workers -> Txs] /\ \A w \in Workers : tx'[w].locked \subseteq tx[w].locked
    BY <2>4 DEF AdminTypeOK, Txs
  <2> QED
    BY <2>3, <2>4, <2>5, <2>6, RowLocks
<1> QED
  BY <1>1, <1>2

\* Enabling a row keeps the locked rows active.
LEMMA EnableAdminLocks ==
  ASSUME AdminTypeOK, LockInv, NEW w \in Workers, NEW i \in Ids, EnableAdmin(w, i)
  PROVE  AdminTypeOK' /\ LockInv' /\ UNCHANGED tx
<1>1. CASE UNCHANGED adm
  BY <1>1, AdminStutter DEF adminVars, EnableAdmin
<1>2. CASE ~UNCHANGED adm
  <2> DEFINE r == [adm[i] EXCEPT !.st = "active"]
  <2>1. adm' = [adm EXCEPT ![i].st = "active"] /\ UNCHANGED tx
    BY <1>2 DEF EnableAdmin
  <2>2. adm[i] \in Row
    BY DEF AdminTypeOK, Row
  <2>3. r \in Row /\ r.st = "active"
    BY <2>2 DEF Row
  <2>4. adm' = [adm EXCEPT ![i] = r]
    BY <2>1 DEF AdminTypeOK
  <2> HIDE DEF r
  <2>5. tx' \in [Workers -> Txs] /\ \A v \in Workers : tx'[v].locked \subseteq tx[v].locked
    BY <2>1 DEF AdminTypeOK, Txs
  <2> QED
    BY <2>1, <2>3, <2>4, <2>5, RowLocks
<1> QED
  BY <1>1, <1>2

\* The snapshot of the guard locks nothing.
LEMMA SnapshotLocks ==
  ASSUME AdminTypeOK, LockInv, NEW w \in Workers, GuardSnapshot(w)
  PROVE  AdminTypeOK' /\ LockInv' /\ tx'[w].open /\ \A v \in Workers \ {w} : tx'[v] = tx[v]
<1> DEFINE x == [open |-> TRUE, todo |-> ActiveIds, locked |-> {}]
<1>1. x \in Txs /\ x.locked = {} /\ x.open
  BY DEF Txs, ActiveIds
<1>2. tx' = [tx EXCEPT ![w] = x] /\ UNCHANGED adm
  BY DEF GuardSnapshot
<1> HIDE DEF x
<1> QED
  BY <1>1, <1>2, TxLocks

\* FOR UPDATE keeps a row only if it is still active.
LEMMA GuardLockLocks ==
  ASSUME AdminTypeOK, LockInv, NEW w \in Workers, GuardLock(w)
  PROVE  /\ AdminTypeOK' /\ LockInv' /\ UNCHANGED adm
         /\ tx'[w].open = tx[w].open /\ \A v \in Workers \ {w} : tx'[v] = tx[v]
<1>1. PICK i \in tx[w].todo :
        /\ tx' = [tx EXCEPT ![w].todo = @ \ {i}, ![w].locked = IF i \in ActiveIds THEN @ \cup {i} ELSE @]
        /\ UNCHANGED adm
  BY DEF GuardLock
<1> DEFINE x == [open |-> tx[w].open, todo |-> tx[w].todo \ {i},
                 locked |-> IF i \in ActiveIds THEN tx[w].locked \cup {i} ELSE tx[w].locked]
<1>2. tx \in [Workers -> Txs] /\ tx[w] \in Txs
  BY DEF AdminTypeOK, Txs
<1>3. x \in Txs /\ x.open = tx[w].open
  BY <1>2 DEF Txs, ActiveIds
<1>4. x.locked \subseteq ActiveIds
  BY DEF LockInv
<1>5. tx' = [tx EXCEPT ![w] = x]
  <2> DEFINE z == [tx[w] EXCEPT !.todo = tx[w].todo \ {i}]
             y == [tx EXCEPT ![w] = z]
  <2>1. z \in Txs /\ z.open = tx[w].open /\ z.locked = tx[w].locked /\ z.todo = tx[w].todo \ {i}
    BY <1>2 DEF Txs
  <2>2. y \in [Workers -> Txs] /\ y[w] = z /\ y = [tx EXCEPT ![w].todo = @ \ {i}]
    BY <1>2, <2>1
  <2>3. tx' = [y EXCEPT ![w].locked = IF i \in ActiveIds THEN @ \cup {i} ELSE @]
    BY <1>1, <2>2
  <2>4. [z EXCEPT !.locked = x.locked] = x
    <3> DEFINE e == [z EXCEPT !.locked = x.locked]
    <3>1. \A a, b \in Txs : a.open = b.open /\ a.todo = b.todo /\ a.locked = b.locked => a = b
      BY DEF Txs
    <3>2. x.open = z.open /\ x.todo = z.todo /\ x.locked \in SUBSET Ids
      BY <1>3, <2>1 DEF Txs
    <3> HIDE DEF x, z
    <3>3. e \in Txs /\ e.open = z.open /\ e.todo = z.todo /\ e.locked = x.locked
      BY <2>1, <3>2 DEF Txs
    <3> QED
      BY <1>3, <3>1, <3>2, <3>3
  <2>5. tx' = [y EXCEPT ![w] = x]
    BY <2>1, <2>2, <2>3, <2>4
  <2> QED
    BY <1>2, <2>5
<1> HIDE DEF x
<1> QED
  BY <1>1, <1>3, <1>4, <1>5, TxLocks

\* A rollback releases the rows.
LEMMA RollbackLocks ==
  ASSUME AdminTypeOK, LockInv, NEW w \in Workers, Rollback(w)
  PROVE  AdminTypeOK' /\ LockInv' /\ UNCHANGED adm /\ tx'[w] = NoTx /\ \A v \in Workers \ {w} : tx'[v] = tx[v]
<1>1. NoTx \in Txs /\ NoTx.locked \subseteq ActiveIds
  BY NoTxType
<1>2. tx' = [tx EXCEPT ![w] = NoTx] /\ UNCHANGED adm
  BY DEF Rollback
<1> QED
  BY <1>1, <1>2, TxLocks

\* The write changes one row, which nobody else has locked, and releases the others.
LEMMA WriteLocks ==
  ASSUME AdminTypeOK, LockInv, NEW w \in Workers, NEW i \in Ids, NEW st \in {"disabled", "gone"},
         GuardedWrite(w, i, st)
  PROVE  /\ AdminTypeOK' /\ LockInv' /\ tx'[w] = NoTx /\ \A v \in Workers \ {w} : tx'[v] = tx[v]
         /\ \A j \in Ids \ {i} : adm'[j] = adm[j]
<1>1. tx \in [Workers -> Txs] /\ adm \in [Ids -> Row]
  BY DEF AdminTypeOK, Txs, Row
<1>2. tx' = [tx EXCEPT ![w] = NoTx]
  BY DEF GuardedWrite
<1>3. /\ tx' \in [Workers -> Txs] /\ tx'[w] = NoTx /\ \A v \in Workers \ {w} : tx'[v] = tx[v]
      /\ \A v \in Workers : tx'[v].locked \subseteq tx[v].locked
  BY <1>1, <1>2, NoTxType
<1>4. CASE UNCHANGED adm
  BY <1>2, <1>3, <1>4, TxLocks, NoTxType
<1>5. CASE ~UNCHANGED adm
  <2> DEFINE r == [adm[i] EXCEPT !.st = st]
  <2>1. adm' = [adm EXCEPT ![i].st = st]
    BY <1>5 DEF GuardedWrite
  <2>2. r \in Row
    BY <1>1 DEF Row
  <2>3. adm' = [adm EXCEPT ![i] = r]
    BY <1>1, <2>1
  <2> HIDE DEF r
  <2>4. \A v \in Workers : i \notin tx'[v].locked
    BY <1>3, NoTxType DEF GuardedWrite, LockedByOther
  <2>5. AdminTypeOK' /\ LockInv'
    BY <1>3, <2>2, <2>3, <2>4, RowLocks
  <2>6. \A j \in Ids \ {i} : adm'[j] = adm[j]
    BY <1>1, <2>3
  <2> QED
    BY <1>3, <2>5, <2>6
<1> QED
  BY <1>4, <1>5

\* GuardRefuses lets a write of a locked row through only if another is locked.
LEMMA NotLast ==
  ASSUME AdminTypeOK, NEW w \in Workers, NEW i, ~GuardRefuses(w, i), i \in tx[w].locked
  PROVE  \E j \in tx[w].locked : j # i
<1> DEFINE L == tx[w].locked
<1>1. IsFiniteSet(Ids)
  BY FS_Interval, AdminAssumption DEF Ids
<1>2. L \in SUBSET Ids
  BY DEF AdminTypeOK
<1>3. ~(Cardinality(L) <= 1)
  BY DEF GuardRefuses
<1> HIDE DEF L
<1>4. ASSUME \A j \in L : j = i PROVE FALSE
  <2>1. L = {i}
    BY <1>4 DEF L
  <2>2. Cardinality(L) = 1
    BY <2>1, FS_Singleton
  <2> QED
    BY <1>3, <2>2
<1> QED
  BY <1>4 DEF L

-----------------------------------------------------------------------------
(* Steps, by what they change. *)

TenantMove(w) ==
  \/ HandleCreateTenant(w) \/ HandlePatchTenant(w) \/ HandleDecommission(w)
  \/ HandleCancel(w) \/ HandleSweep(w)
AdminMove(w) ==
  \/ HandleCreateAdmin(w) \/ HandleEnableAdmin(w) \/ BeginGuard(w)
  \/ Guard(w) \/ GuardDone(w) \/ WriteAdmin(w)
PolicyMove(w) == HandleCreateApp(w) \/ HandleCreatePolicy(w) \/ HandleCompile(w) \/ FinishCompile(w)
PlainMove(w) == Arrive(w) \/ Gate(w) \/ SelfCheck(w) \/ CheckToken(w) \/ MintToken(w)
WorkerMove(w) == TenantMove(w) \/ AdminMove(w) \/ PolicyMove(w) \/ PlainMove(w) \/ HandlerFails(w)

\* Every step belongs to a worker, a token's expiry, the cron, the clock or a crash.
LEMMA StepCases ==
  ASSUME Step
  PROVE  \/ \E w \in Workers : WorkerMove(w)
         \/ \E tok \in tokens : TokenExpires(tok)
         \/ CronSweep \/ Clock \/ Crash
BY Zenon DEF Step, Handle, WorkerMove, TenantMove, AdminMove, PolicyMove, PlainMove

\* Handlers of tenants leave administrators and policies alone.
LEMMA TenantFrame ==
  ASSUME NEW w, TenantMove(w)
  PROVE  SameElsewhere /\ UNCHANGED <<adminVars, policyVars>>
<1>1. HandleCreateTenant(w) => SameElsewhere /\ UNCHANGED <<adminVars, policyVars>>
  BY DEF HandleCreateTenant
<1>2. HandlePatchTenant(w) => SameElsewhere /\ UNCHANGED <<adminVars, policyVars>>
  BY DEF HandlePatchTenant
<1>3. HandleDecommission(w) => SameElsewhere /\ UNCHANGED <<adminVars, policyVars>>
  BY DEF HandleDecommission
<1>4. HandleCancel(w) => SameElsewhere /\ UNCHANGED <<adminVars, policyVars>>
  BY DEF HandleCancel
<1>5. HandleSweep(w) => SameElsewhere /\ UNCHANGED <<adminVars, policyVars>>
  BY DEF HandleSweep
<1> QED
  BY <1>1, <1>2, <1>3, <1>4, <1>5 DEF TenantMove

\* Handlers of administrators leave tenants and policies alone.
LEMMA AdminFrame ==
  ASSUME NEW w, AdminMove(w)
  PROVE  SameElsewhere /\ UNCHANGED <<tenantVars, policyVars>>
<1>1. HandleCreateAdmin(w) => SameElsewhere /\ UNCHANGED <<tenantVars, policyVars>>
  BY DEF HandleCreateAdmin
<1>2. HandleEnableAdmin(w) => SameElsewhere /\ UNCHANGED <<tenantVars, policyVars>>
  BY DEF HandleEnableAdmin
<1>3. BeginGuard(w) => SameElsewhere /\ UNCHANGED <<tenantVars, policyVars>>
  BY DEF BeginGuard
<1>4. Guard(w) => SameElsewhere /\ UNCHANGED <<tenantVars, policyVars>>
  BY DEF Guard
<1>5. GuardDone(w) => SameElsewhere /\ UNCHANGED <<tenantVars, policyVars>>
  BY DEF GuardDone
<1>6. WriteAdmin(w) => SameElsewhere /\ UNCHANGED <<tenantVars, policyVars>>
  BY DEF WriteAdmin
<1> QED
  BY <1>1, <1>2, <1>3, <1>4, <1>5, <1>6 DEF AdminMove

\* Handlers of policies leave tenants, administrators and tokens alone.
LEMMA PolicyFrame ==
  ASSUME NEW w, PolicyMove(w)
  PROVE  UNCHANGED <<tenantVars, adminVars, scene, tokens, served, crashes>>
<1>1. HandleCreateApp(w) => UNCHANGED <<tenantVars, adminVars, scene, tokens, served, crashes>>
  BY DEF HandleCreateApp, SameElsewhere
<1>2. HandleCreatePolicy(w) => UNCHANGED <<tenantVars, adminVars, scene, tokens, served, crashes>>
  BY DEF HandleCreatePolicy, SameElsewhere
<1>3. HandleCompile(w) => UNCHANGED <<tenantVars, adminVars, scene, tokens, served, crashes>>
  BY DEF HandleCompile, SameElsewhere
<1>4. FinishCompile(w) => UNCHANGED <<tenantVars, adminVars, scene, tokens, served, crashes>>
  BY DEF FinishCompile
<1> QED
  BY <1>1, <1>2, <1>3, <1>4 DEF PolicyMove

\* The checks before a handler and the tokens' handlers touch no table.
LEMMA PlainFrame ==
  ASSUME NEW w, PlainMove(w)
  PROVE  UNCHANGED <<tenantVars, adminVars, policyVars, scene, crashes, promised>>
<1>1. Arrive(w) => UNCHANGED <<tenantVars, adminVars, policyVars, scene, crashes, promised>>
  BY DEF Arrive
<1>2. Gate(w) => UNCHANGED <<tenantVars, adminVars, policyVars, scene, crashes, promised>>
  BY DEF Gate, SameElsewhere
<1>3. SelfCheck(w) => UNCHANGED <<tenantVars, adminVars, policyVars, scene, crashes, promised>>
  BY DEF SelfCheck, SameElsewhere
<1>4. CheckToken(w) => UNCHANGED <<tenantVars, adminVars, policyVars, scene, crashes, promised>>
  BY DEF CheckToken, SameElsewhere
<1>5. MintToken(w) => UNCHANGED <<tenantVars, adminVars, policyVars, scene, crashes, promised>>
  BY DEF MintToken
<1> QED
  BY <1>1, <1>2, <1>3, <1>4, <1>5 DEF PlainMove

-----------------------------------------------------------------------------
(* Requests: their types, and how far they get. *)

Others(w) == \A v \in Workers \ {w} : req'[v] = req[v]
Kept(w) == /\ req'[w].tok = req[w].tok /\ req'[w].q = req[w].q
           /\ req'[w].forged = req[w].forged /\ req'[w].need = req[w].need

\* A worker without a request.
LEMMA IdleType == Idle \in Reqs /\ FieldsOK(Idle.q) /\ Idle.pc = "idle" /\ Idle.q.op = ""
BY DEF Idle, Reqs, Phases, Anonymous, NoRequest, Queries, FieldsOK, Scopes

\* The answer ends one request.
LEMMA RespondReq ==
  ASSUME ReqT, NEW w \in Workers, Respond(w)
  PROVE  ReqT' /\ req'[w] = Idle /\ Others(w)
BY IdleType DEF ReqT, Respond, Others

\* A request goes on and stays the same request.
LEMMA GotoReq ==
  ASSUME ReqT, NEW w \in Workers, NEW pc \in Phases, Goto(w, pc)
  PROVE  ReqT' /\ req'[w].pc = pc /\ Kept(w) /\ Others(w)
<1> DEFINE r == [req[w] EXCEPT !.pc = pc]
<1>1. req[w] \in Reqs /\ FieldsOK(req[w].q)
  BY DEF ReqT
<1>2. /\ r \in Reqs /\ r.pc = pc /\ r.tok = req[w].tok /\ r.q = req[w].q
      /\ r.forged = req[w].forged /\ r.need = req[w].need
  BY <1>1 DEF Reqs
<1>3. req' = [req EXCEPT ![w] = r]
  BY DEF Goto, ReqT
<1> HIDE DEF r
<1>4. req' \in [Workers -> Reqs] /\ req'[w] = r /\ Others(w)
  BY <1>2, <1>3 DEF ReqT, Others
<1>5. \A v \in Workers : FieldsOK(req'[v].q)
  BY <1>1, <1>2, <1>4 DEF ReqT, Others
<1> QED
  BY <1>2, <1>4, <1>5 DEF ReqT, Kept

\* The fields of a request that arrives.
LEMMA RequestFields ==
  ASSUME NEW op \in Ops, scene \in Scenarios, NEW q \in Request(op)
  PROVE  q \in Queries /\ FieldsOK(q) /\ q.op = op
<1>1. q.op = op
  BY DEF Request
<1>2. q.t \in Scopes
  BY PlaneAssumption DEF Request, Scopes
<1>3. q.s \in Statuses \cup Subjects \cup {"", "disabled"}
  BY DEF Request, Statuses
<1>4. q.role \in {"", Platform, TenantAdmin, Auditor}
  BY DEF Request
<1>5. q.n \in {0, 1} \cup Ids \cup Apps \cup DOMAIN PolicyList
  BY DEF Request
<1>6. q = [op |-> q.op, t |-> q.t, s |-> q.s, role |-> q.role, n |-> q.n]
  BY DEF Request
<1>7. q \in Queries
  BY <1>1, <1>2, <1>3, <1>4, <1>5, <1>6 DEF Queries
<1>8. op \in {"createTenant", "patchTenant", "decommission", "cancel", "createApp", "createPolicy", "compile"}
        => q.t \in Tenants
  BY DEF Request, Area
<1>9. /\ op = "createTenant" => q.s \in {"", "offboarding"}
      /\ op \in {"createAdmin", "issueToken"} => q.s \in Subjects
  BY DEF Request
<1>10. /\ op = "decommission" => q.n \in {0, 1}
       /\ op \in {"patchAdmin", "deleteAdmin"} => q.n \in Ids
       /\ op = "createApp" => q.n \in Apps
       /\ op = "createPolicy" => q.n \in DOMAIN PolicyList
  BY DEF Request
<1>11. op = "issueToken" => q.role # ""
  BY DEF Request, Platform, TenantAdmin, Auditor
<1>12. FieldsOK(q)
  BY <1>1, <1>8, <1>9, <1>10, <1>11 DEF FieldsOK
<1> QED
  BY <1>1, <1>7, <1>12

\* A request that arrives is at the gate, or needs none.
Arrived(w) ==
  /\ req[w].pc = "idle" /\ req'[w].tok \in tokens
  /\ req'[w].need = IF req'[w].q.op = "compile" THEN Len(pol[req'[w].q.t]) ELSE 0
  /\ \/ req'[w].pc = "gate" /\ req'[w].tok.role = Platform
     \/ req'[w].pc = "run" /\ req'[w].tok.role # Platform /\ Authorize(req'[w].tok, req'[w].q)

\* A request that arrives is well formed, genuine and authenticated.
LEMMA ArriveReq ==
  ASSUME ReqT, PlaneT, PolicyT, NEW w \in Workers, Arrive(w)
  PROVE  ReqT' /\ Others(w) /\ Arrived(w)
<1>1. req[w].pc = "idle"
  BY DEF Arrive
<1> DEFINE Comes(op, q, tok, forged) ==
             /\ CsrfPasses(~forged, ~forged)
             /\ tok.role = Platform \/ Authorize(tok, q)
             /\ req' = [req EXCEPT ![w] =
                  [pc |-> IF tok.role = Platform THEN "gate" ELSE "run", tok |-> tok, q |-> q, forged |-> forged,
                   need |-> IF op = "compile" THEN Len(pol[q.t]) ELSE 0]]
<1>2. PICK op \in scene.ops : \E q \in Request(op) : \E tok \in tokens, forged \in BOOLEAN : Comes(op, q, tok, forged)
  BY Zenon DEF Arrive
<1>3. PICK q \in Request(op) : \E tok \in tokens, forged \in BOOLEAN : Comes(op, q, tok, forged)
  BY <1>2
<1>4. PICK tok \in tokens, forged \in BOOLEAN : Comes(op, q, tok, forged)
  BY <1>3
<1> DEFINE r == [pc |-> IF tok.role = Platform THEN "gate" ELSE "run", tok |-> tok, q |-> q, forged |-> forged,
                 need |-> IF op = "compile" THEN Len(pol[q.t]) ELSE 0]
<1>5. op \in Ops /\ scene \in Scenarios /\ tok \in Token
  BY PlaneAssumption DEF PlaneT
<1>6. q \in Queries /\ FieldsOK(q) /\ q.op = op
  BY <1>5, RequestFields
<1>7. forged = FALSE
  BY <1>4 DEF CsrfPasses
<1>8. (IF op = "compile" THEN Len(pol[q.t]) ELSE 0) \in Nat
  <2>1. op = "compile" => q.t \in Tenants
    BY <1>6 DEF FieldsOK
  <2> QED
    BY <2>1 DEF PolicyT
<1>9. r \in Reqs
  BY <1>5, <1>6, <1>7, <1>8 DEF Reqs, Phases
<1>10. req' = [req EXCEPT ![w] = r]
  BY <1>4
<1>11. r.q = q /\ r.tok = tok /\ r.need = (IF op = "compile" THEN Len(pol[q.t]) ELSE 0)
      /\ r.pc = (IF tok.role = Platform THEN "gate" ELSE "run")
  OBVIOUS
<1> HIDE DEF r
<1>12. req' \in [Workers -> Reqs] /\ req'[w] = r /\ Others(w)
  BY <1>9, <1>10 DEF ReqT, Others
<1>13. \A v \in Workers : FieldsOK(req'[v].q)
  BY <1>6, <1>11, <1>12 DEF ReqT, Others
<1>14. Arrived(w)
  BY <1>1, <1>4, <1>6, <1>11, <1>12 DEF Arrived
<1> QED
  BY <1>12, <1>13, <1>14 DEF ReqT

\* A request that has passed the gate goes on, or passes it, or arrives.
Advanced(w) == Kept(w) /\ req[w].pc \notin {"idle", "gate"} /\ req'[w].pc \notin {"idle", "gate"}
Passed(w) ==
  /\ Kept(w) /\ req[w].pc = "gate" /\ req'[w].pc = "run"
  /\ GateOpen(req[w].tok) /\ Authorize(req[w].tok, req[w].q) /\ UNCHANGED adm

\* What a step of worker w does to the requests and to what hangs on them.
WorkerOK(w) ==
  /\ ReqT' /\ Others(w)
  /\ req'[w] = Idle \/ Advanced(w) \/ Passed(w) \/ Arrived(w)
  /\ \A v \in Workers \ {w} : tx'[v] = tx[v] /\ sweep'[v] = sweep[v] /\ Held(v)' = Held(v)
  /\ LinkOK(req'[w], tx'[w], sweep'[w], Held(w)')

\* A step of one worker keeps the links of all.
LEMMA LinkMove ==
  ASSUME LinkInv, NEW w \in Workers, WorkerOK(w)
  PROVE  LinkInv'
<1> SUFFICES ASSUME NEW v \in Workers PROVE LinkOK(req'[v], tx'[v], sweep'[v], Held(v)')
  BY DEF LinkInv
<1>1. CASE v = w
  BY <1>1 DEF WorkerOK
<1>2. CASE v # w
  BY <1>2 DEF WorkerOK, Others, LinkInv
<1> QED
  BY <1>1, <1>2

\* A request without transaction, sweep and lock, before and after.
Light == {"idle", "gate", "run", "self", "mint", "lock"}

\* Such a request holds nothing.
LEMMA LinkLight ==
  ASSUME NEW r, NEW x, NEW s, NEW L, LinkOK(r, x, s, L), r.pc \in Light
  PROVE  x = NoTx /\ s.pc = "off" /\ L = {}
BY DEF LinkOK, Light

\* A worker without a request holds nothing.
LEMMA LinkIdle ==
  ASSUME NEW s, s.pc = "off"
  PROVE  LinkOK(Idle, NoTx, s, {})
BY DEF LinkOK, Idle

\* A request that holds nothing has its links if it is allowed what it does.
LEMMA LinkGo ==
  ASSUME NEW r, NEW s, s.pc = "off", r.pc \in Light \ {"idle"},
         r.pc = "gate" \/ Authorize(r.tok, r.q),
         r.pc = "self" => Disables(r.q), r.pc = "mint" => r.q.op = "issueToken", r.pc = "lock" => r.q.op = "compile"
  PROVE  LinkOK(r, NoTx, s, {})
BY DEF LinkOK, Light

\* The step of a request that has nothing of the kind and gets nothing.
LEMMA LightMove ==
  ASSUME LinkInv, NEW w \in Workers, ReqT', Others(w), req[w].pc \in Light,
         \A v \in Workers \ {w} : sweep'[v] = sweep[v], sweep'[w] = sweep[w], UNCHANGED <<tx, lock>>,
         \/ req'[w] = Idle
         \/ /\ Advanced(w) \/ Passed(w) \/ Arrived(w)
            /\ req'[w].pc \in Light
            /\ req'[w].pc = "self" => Disables(req'[w].q)
            /\ req'[w].pc = "mint" => req'[w].q.op = "issueToken"
            /\ req'[w].pc = "lock" => req'[w].q.op = "compile"
  PROVE  WorkerOK(w)
<1>1. \A v \in Workers : Held(v)' = Held(v) /\ tx'[v] = tx[v]
  BY DEF Held
<1>2. LinkOK(req[w], tx[w], sweep[w], Held(w))
  BY DEF LinkInv
<1>3. tx[w] = NoTx /\ sweep[w].pc = "off" /\ Held(w) = {}
  BY <1>2, LinkLight
<1>4. LinkOK(req'[w], NoTx, sweep[w], {})
  <2>1. CASE req'[w] = Idle
    BY <1>3, <2>1, LinkIdle
  <2>2. CASE req'[w] # Idle
    <3>1. req'[w].pc = "gate" \/ Authorize(req'[w].tok, req'[w].q)
      BY <1>2, <2>2 DEF LinkOK, Advanced, Passed, Arrived, Kept
    <3>2. req'[w].pc # "idle"
      BY <2>2 DEF Advanced, Passed, Arrived
    <3> QED
      BY <1>3, <2>2, <3>1, <3>2, LinkGo
  <2> QED
    BY <2>1, <2>2
<1> QED
  BY <1>1, <1>3, <1>4 DEF WorkerOK

\* The checks before a handler and the tokens' handlers.
LEMMA PlainLink ==
  ASSUME ReqT, PlaneT, PolicyT, LinkInv, NEW w \in Workers, PlainMove(w)
  PROVE  WorkerOK(w)
<1>1. /\ UNCHANGED <<tx, lock, adm, sweep>>
  BY PlainFrame DEF tenantVars, adminVars, policyVars
<1>2. LinkOK(req[w], tx[w], sweep[w], Held(w))
  BY DEF LinkInv
<1>3. CASE Arrive(w)
  <2>1. ReqT' /\ Others(w) /\ Arrived(w)
    BY <1>3, ArriveReq
  <2> QED
    BY <1>1, <2>1, LightMove DEF Arrived, Light
<1>4. CASE Gate(w)
  <2>1. CASE Respond(w)
    <3>1. ReqT' /\ req'[w] = Idle /\ Others(w) /\ req[w].pc = "gate"
      BY <1>4, <2>1, RespondReq DEF Gate
    <3> QED
      BY <1>1, <3>1, LightMove DEF Light
  <2>2. CASE GateOpen(req[w].tok) /\ Authorize(req[w].tok, req[w].q) /\ Goto(w, "run")
    <3>1. ReqT' /\ req'[w].pc = "run" /\ Kept(w) /\ Others(w) /\ req[w].pc = "gate"
      BY <1>4, <2>2, GotoReq DEF Gate, Phases
    <3>2. Passed(w)
      BY <1>1, <2>2, <3>1 DEF Passed
    <3> QED
      BY <1>1, <3>1, <3>2, LightMove DEF Light
  <2> QED
    BY <1>4, <2>1, <2>2 DEF Gate
<1>5. CASE SelfCheck(w)
  <2>1. req[w].pc = "run" /\ Disables(req[w].q) /\ (Respond(w) \/ Goto(w, "self"))
    BY <1>5 DEF SelfCheck
  <2>2. CASE Respond(w)
    <3>1. ReqT' /\ req'[w] = Idle /\ Others(w)
      BY <2>2, RespondReq
    <3> QED
      BY <1>1, <2>1, <3>1, LightMove DEF Light
  <2>3. CASE Goto(w, "self")
    <3>1. ReqT' /\ req'[w].pc = "self" /\ Kept(w) /\ Others(w)
      BY <2>3, GotoReq DEF Phases
    <3>2. Advanced(w) /\ Disables(req'[w].q)
      BY <2>1, <3>1 DEF Advanced, Kept
    <3> QED
      BY <1>1, <2>1, <3>1, <3>2, LightMove DEF Light
  <2> QED
    BY <2>1, <2>2, <2>3
<1>6. CASE CheckToken(w)
  <2>1. req[w].pc = "run" /\ req[w].q.op = "issueToken" /\ (Respond(w) \/ Goto(w, "mint"))
    BY <1>6 DEF CheckToken, Running
  <2>2. CASE Respond(w)
    <3>1. ReqT' /\ req'[w] = Idle /\ Others(w)
      BY <2>2, RespondReq
    <3> QED
      BY <1>1, <2>1, <3>1, LightMove DEF Light
  <2>3. CASE Goto(w, "mint")
    <3>1. ReqT' /\ req'[w].pc = "mint" /\ Kept(w) /\ Others(w)
      BY <2>3, GotoReq DEF Phases
    <3>2. Advanced(w) /\ req'[w].q.op = "issueToken"
      BY <2>1, <3>1 DEF Advanced, Kept
    <3> QED
      BY <1>1, <2>1, <3>1, <3>2, LightMove DEF Light
  <2> QED
    BY <2>1, <2>2, <2>3
<1>7. CASE MintToken(w)
  <2>1. req[w].pc = "mint" /\ Respond(w)
    BY <1>7 DEF MintToken
  <2>2. ReqT' /\ req'[w] = Idle /\ Others(w)
    BY <2>1, RespondReq
  <2> QED
    BY <1>1, <2>1, <2>2, LightMove DEF Light
<1> QED
  BY <1>3, <1>4, <1>5, <1>6, <1>7 DEF PlainMove

\* The step of a sweeper leaves the others alone.
LEMMA SweepOthers ==
  ASSUME TenantT, NEW s \in Sweepers, SweepList(s) \/ SweepStep(s)
  PROVE  \A u \in Sweepers \ {s} : sweep'[u] = sweep[u]
<1>1. SweepList(s) => \A u \in Sweepers \ {s} : sweep'[u] = sweep[u]
  BY DEF SweepList, TenantT
<1>2. SweepStep(s) => \A u \in Sweepers \ {s} : sweep'[u] = sweep[u]
  <2>1. SweepDestroy(s) => \E x : sweep' = [sweep EXCEPT ![s] = x]
    BY DEF SweepDestroy, TenantT
  <2>2. SweepStatus(s) \/ SweepFail(s) => \E x : sweep' = [sweep EXCEPT ![s] = x]
    BY DEF SweepStatus, SweepFail
  <2> QED
    BY <2>1, <2>2 DEF SweepStep, TenantT
<1> QED
  BY <1>1, <1>2

\* The handlers of tenants.
LEMMA TenantLink ==
  ASSUME ReqT, TenantT, LinkInv, NEW w \in Workers, TenantMove(w)
  PROVE  WorkerOK(w)
<1>1. UNCHANGED <<tx, lock>>
  BY TenantFrame DEF adminVars, policyVars
<1>2. LinkOK(req[w], tx[w], sweep[w], Held(w))
  BY DEF LinkInv
<1>3. CASE HandleCreateTenant(w) \/ HandlePatchTenant(w) \/ HandleDecommission(w) \/ HandleCancel(w)
  <2>1. req[w].pc = "run" /\ Respond(w) /\ UNCHANGED sweep
    BY <1>3 DEF HandleCreateTenant, HandlePatchTenant, HandleDecommission, HandleCancel, Running
  <2>2. ReqT' /\ req'[w] = Idle /\ Others(w)
    BY <2>1, RespondReq
  <2> QED
    BY <1>1, <2>1, <2>2, LightMove DEF Light
<1>4. CASE HandleSweep(w)
  <2>1. SweepList(w) \/ SweepStep(w)
    BY <1>4 DEF HandleSweep
  <2>2. \A u \in Sweepers \ {w} : sweep'[u] = sweep[u]
    BY <2>1, SweepOthers DEF Sweepers
  <2>3. \A v \in Workers : tx'[v] = tx[v] /\ Held(v)' = Held(v)
    BY <1>1 DEF Held
  <2>4. req[w].pc \in {"run", "sweep"} /\ req[w].q.op = "sweep"
    BY <1>2, <1>4 DEF HandleSweep, Running, LinkOK
  <2>5. tx[w] = NoTx /\ Held(w) = {} /\ Authorize(req[w].tok, req[w].q)
    BY <1>2, <2>4 DEF LinkOK
  <2>6. CASE sweep'[w].pc = "off"
    <3>1. Respond(w)
      BY <1>4, <2>6 DEF HandleSweep
    <3>2. ReqT' /\ req'[w] = Idle /\ Others(w)
      BY <3>1, RespondReq
    <3>3. LinkOK(Idle, NoTx, sweep'[w], {})
      BY <2>6, LinkIdle
    <3> QED
      BY <2>2, <2>3, <2>5, <3>2, <3>3 DEF WorkerOK, Sweepers
  <2>7. CASE sweep'[w].pc # "off"
    <3>1. Goto(w, "sweep")
      BY <1>4, <2>7 DEF HandleSweep
    <3>2. ReqT' /\ req'[w].pc = "sweep" /\ Kept(w) /\ Others(w)
      BY <3>1, GotoReq DEF Phases
    <3>3. Advanced(w)
      BY <2>4, <3>2 DEF Advanced
    <3>4. LinkOK(req'[w], NoTx, sweep'[w], {})
      BY <2>4, <2>5, <2>7, <3>2 DEF LinkOK, Kept
    <3> QED
      BY <2>2, <2>3, <2>5, <3>2, <3>3, <3>4 DEF WorkerOK, Sweepers
  <2> QED
    BY <2>6, <2>7
<1> QED
  BY <1>3, <1>4 DEF TenantMove

\* Only the writer's own transaction can be about to write.
LEMMA WriteKeep ==
  ASSUME GuardInv, NEW w \in Workers, WorkerOK(w), LockInv', WriteOK(w)'
  PROVE  GuardInv'
<1> SUFFICES ASSUME NEW v \in Workers PROVE WriteOK(v)'
  BY DEF GuardInv
<1>1. CASE v = w
  BY <1>1
<1>2. CASE v # w
  BY <1>2 DEF WorkerOK, Others, GuardInv, WriteOK
<1> QED
  BY <1>1, <1>2

\* The handlers of administrators.
LEMMA AdminStep ==
  ASSUME ReqT, AdminTypeOK, LinkInv, GuardInv, NEW w \in Workers, AdminMove(w)
  PROVE  WorkerOK(w) /\ AdminTypeOK' /\ GuardInv'
<1>1. UNCHANGED <<lock, sweep>>
  BY AdminFrame DEF tenantVars, policyVars
<1>2. LinkOK(req[w], tx[w], sweep[w], Held(w)) /\ LockInv /\ req[w] \in Reqs /\ FieldsOK(req[w].q)
  BY DEF LinkInv, GuardInv, ReqT
<1>3. \A v \in Workers : Held(v)' = Held(v) /\ sweep'[v] = sweep[v]
  BY <1>1 DEF Held
<1>4. WriteOK(w)' \/ req'[w].pc = "write"
  BY DEF WriteOK
<1>5. CASE HandleCreateAdmin(w) \/ HandleEnableAdmin(w)
  <2>1. req[w].pc = "run" /\ Respond(w)
    BY <1>5 DEF HandleCreateAdmin, HandleEnableAdmin, Running
  <2>2. ReqT' /\ req'[w] = Idle /\ Others(w)
    BY <2>1, RespondReq
  <2>3. AdminTypeOK' /\ LockInv' /\ UNCHANGED tx
    <3>1. CASE HandleCreateAdmin(w)
      <4>1. CanCreateAdmin /\ CreateAdmin(req[w].q.s) /\ req[w].q.op = "createAdmin"
        BY <3>1 DEF HandleCreateAdmin, Running
      <4>2. req[w].q.s \in Subjects
        BY <1>2, <4>1 DEF FieldsOK
      <4> QED
        BY <1>2, <4>1, <4>2, CreateAdminLocks
    <3>2. CASE HandleEnableAdmin(w)
      <4>1. EnableAdmin(w, req[w].q.n) /\ req[w].q.op = "patchAdmin"
        BY <3>2 DEF HandleEnableAdmin, Running
      <4>2. req[w].q.n \in Ids
        BY <1>2, <4>1 DEF FieldsOK
      <4> QED
        BY <1>2, <4>1, <4>2, EnableAdminLocks
    <3> QED
      BY <1>5, <3>1, <3>2
  <2>4. WorkerOK(w)
    BY <1>1, <2>1, <2>2, <2>3, LightMove DEF Light
  <2> QED
    BY <1>4, <2>2, <2>3, <2>4, WriteKeep, IdleType
<1>6. CASE BeginGuard(w)
  <2>1. req[w].pc = "self" /\ GuardSnapshot(w) /\ Goto(w, "guard")
    BY <1>6 DEF BeginGuard
  <2>2. ReqT' /\ req'[w].pc = "guard" /\ Kept(w) /\ Others(w)
    BY <2>1, GotoReq DEF Phases
  <2>3. AdminTypeOK' /\ LockInv' /\ tx'[w].open /\ \A v \in Workers \ {w} : tx'[v] = tx[v]
    BY <1>2, <2>1, SnapshotLocks
  <2>4. Advanced(w)
    BY <2>1, <2>2 DEF Advanced
  <2>5. LinkOK(req'[w], tx'[w], sweep[w], Held(w))
    BY <1>2, <2>1, <2>2, <2>3 DEF LinkOK, Kept
  <2>6. WorkerOK(w)
    BY <1>3, <2>2, <2>3, <2>4, <2>5 DEF WorkerOK
  <2> QED
    BY <1>4, <2>2, <2>3, <2>6, WriteKeep
<1>7. ASSUME Rollback(w), Respond(w), req[w].pc \in {"guard", "write"} PROVE WorkerOK(w) /\ AdminTypeOK' /\ GuardInv'
  <2>1. ReqT' /\ req'[w] = Idle /\ Others(w)
    BY <1>7, RespondReq
  <2>2. AdminTypeOK' /\ LockInv' /\ tx'[w] = NoTx /\ \A v \in Workers \ {w} : tx'[v] = tx[v]
    BY <1>2, <1>7, RollbackLocks
  <2>3. sweep[w].pc = "off" /\ Held(w) = {}
    BY <1>2, <1>7 DEF LinkOK
  <2>4. LinkOK(Idle, NoTx, sweep[w], {})
    BY <2>3, LinkIdle
  <2>5. WorkerOK(w)
    BY <1>3, <2>1, <2>2, <2>3, <2>4 DEF WorkerOK
  <2> QED
    BY <1>4, <2>1, <2>2, <2>5, WriteKeep, IdleType
<1>8. CASE Guard(w)
  <2>1. req[w].pc = "guard"
    BY <1>8 DEF Guard
  <2>2. CASE GuardLock(w) /\ UNCHANGED req
    <3>1. AdminTypeOK' /\ LockInv' /\ tx'[w].open = tx[w].open /\ \A v \in Workers \ {w} : tx'[v] = tx[v]
      BY <1>2, <2>2, GuardLockLocks
    <3>2. ReqT' /\ Others(w) /\ Advanced(w) /\ req'[w] = req[w]
      BY <2>1, <2>2 DEF ReqT, Others, Advanced, Kept
    <3>3. LinkOK(req[w], tx'[w], sweep[w], Held(w))
      BY <1>2, <2>1, <3>1 DEF LinkOK
    <3>4. WorkerOK(w)
      BY <1>3, <3>1, <3>2, <3>3 DEF WorkerOK
    <3> QED
      BY <1>4, <2>1, <3>1, <3>2, <3>4, WriteKeep
  <2> QED
    BY <1>7, <1>8, <2>1, <2>2 DEF Guard
<1>9. CASE GuardDone(w)
  <2>1. req[w].pc = "guard"
    BY <1>9 DEF GuardDone
  <2>2. CASE ~GuardRefuses(w, req[w].q.n) /\ UNCHANGED adminVars /\ Goto(w, "write")
    <3>1. ReqT' /\ req'[w].pc = "write" /\ Kept(w) /\ Others(w)
      BY <2>2, GotoReq DEF Phases
    <3>2. AdminTypeOK' /\ LockInv' /\ UNCHANGED <<adm, tx>>
      BY <1>2, <2>2, AdminStutter DEF adminVars
    <3>3. Advanced(w)
      BY <2>1, <3>1 DEF Advanced
    <3>4. LinkOK(req'[w], tx[w], sweep[w], Held(w))
      BY <1>2, <2>1, <3>1 DEF LinkOK, Kept
    <3>5. WorkerOK(w)
      BY <1>3, <3>1, <3>2, <3>3, <3>4 DEF WorkerOK
    <3>6. WriteOK(w)'
      BY <2>2, <3>1, <3>2, NotLast DEF WriteOK, Kept
    <3> QED
      BY <3>2, <3>5, <3>6, WriteKeep
  <2> QED
    BY <1>7, <1>9, <2>1, <2>2 DEF GuardDone
<1>10. CASE WriteAdmin(w)
  <2>1. /\ req[w].pc = "write" /\ Respond(w)
        /\ GuardedWrite(w, req[w].q.n, IF req[w].q.op = "deleteAdmin" THEN "gone" ELSE "disabled")
    BY <1>10 DEF WriteAdmin
  <2>2. req[w].q.n \in Ids
    BY <1>2, <2>1 DEF LinkOK, Disables, FieldsOK
  <2>3. ReqT' /\ req'[w] = Idle /\ Others(w)
    BY <2>1, RespondReq
  <2>4. AdminTypeOK' /\ LockInv' /\ tx'[w] = NoTx /\ \A v \in Workers \ {w} : tx'[v] = tx[v]
    <3>1. CASE req[w].q.op = "deleteAdmin"
      BY <1>2, <2>1, <2>2, <3>1, WriteLocks
    <3>2. CASE req[w].q.op # "deleteAdmin"
      BY <1>2, <2>1, <2>2, <3>2, WriteLocks
    <3> QED
      BY <3>1, <3>2
  <2>5. sweep[w].pc = "off" /\ Held(w) = {}
    BY <1>2, <2>1 DEF LinkOK
  <2>6. LinkOK(Idle, NoTx, sweep[w], {})
    BY <2>5, LinkIdle
  <2>7. WorkerOK(w)
    BY <1>3, <2>3, <2>4, <2>5, <2>6 DEF WorkerOK
  <2> QED
    BY <1>4, <2>3, <2>4, <2>7, WriteKeep, IdleType
<1> QED
  BY <1>5, <1>6, <1>8, <1>9, <1>10 DEF AdminMove

\* The locks of a worker that fails are released.
LEMMA FailsStep ==
  ASSUME ReqT, AdminTypeOK, LinkInv, GuardInv, NEW w \in Workers, HandlerFails(w)
  PROVE  WorkerOK(w) /\ AdminTypeOK' /\ GuardInv' /\ UNCHANGED adm
<1>1. /\ req[w].pc \notin {"idle", "gate", "sweep"} /\ Rollback(w) /\ Respond(w) /\ UNCHANGED tenantVars
      /\ lock' = [t \in Tenants |-> IF lock[t] = w THEN Free ELSE lock[t]]
  BY Zenon DEF HandlerFails
<1>2. LinkOK(req[w], tx[w], sweep[w], Held(w)) /\ LockInv
  BY DEF LinkInv, GuardInv
<1>3. ReqT' /\ req'[w] = Idle /\ Others(w)
  BY <1>1, RespondReq
<1>4. AdminTypeOK' /\ LockInv' /\ UNCHANGED adm /\ tx'[w] = NoTx /\ \A v \in Workers \ {w} : tx'[v] = tx[v]
  BY <1>1, <1>2, RollbackLocks
<1>5. UNCHANGED sweep /\ sweep[w].pc = "off"
  BY <1>1, <1>2 DEF tenantVars, LinkOK
<1>6. Held(w)' = {} /\ \A v \in Workers \ {w} : Held(v)' = Held(v)
  <2>1. Free \notin Workers
    BY PolicyAssumption
  <2>2. \A t \in Tenants : lock'[t] = IF lock[t] = w THEN Free ELSE lock[t]
    BY <1>1
  <2> QED
    BY <2>1, <2>2 DEF Held
<1>7. LinkOK(Idle, NoTx, sweep[w], {})
  BY <1>5, LinkIdle
<1>8. WorkerOK(w)
  BY <1>3, <1>4, <1>5, <1>6, <1>7 DEF WorkerOK
<1>9. WriteOK(w)'
  BY <1>3, IdleType DEF WriteOK
<1> QED
  BY <1>4, <1>8, <1>9, WriteKeep

\* A step that leaves the administrators alone.
LEMMA AdminKeep ==
  ASSUME AdminTypeOK, GuardInv, NEW w \in Workers, WorkerOK(w), UNCHANGED adminVars, req'[w].pc # "write"
  PROVE  AdminTypeOK' /\ GuardInv'
<1>1. AdminTypeOK' /\ LockInv'
  BY AdminStutter DEF GuardInv
<1>2. WriteOK(w)'
  BY DEF WriteOK
<1> QED
  BY <1>1, <1>2, WriteKeep

-----------------------------------------------------------------------------
(* Policies: types, and what a compilation has read. *)

\* Where a step of another component's handler leaves a request.
LEMMA NextPhase ==
  ASSUME ReqT, PlaneT, PolicyT, NEW w \in Workers
  PROVE  /\ TenantMove(w) => req'[w].pc \in {"idle", "sweep"}
         /\ AdminMove(w) => req'[w].pc = "idle" \/ req'[w].pc \in {"guard", "write"}
         /\ PlainMove(w) => req'[w].pc \in {"idle", "gate", "run", "self", "mint"}
         /\ HandlerFails(w) => req'[w].pc = "idle"
<1>1. Respond(w) => req'[w].pc = "idle"
  BY RespondReq, IdleType
<1>2. \A pc \in Phases : Goto(w, pc) => req'[w].pc = pc
  BY GotoReq
<1>3. Goto(w, "sweep") => req'[w].pc = "sweep"
  BY <1>2 DEF Phases
<1>4. TenantMove(w) => Respond(w) \/ Goto(w, "sweep")
  BY Zenon DEF TenantMove, HandleCreateTenant, HandlePatchTenant, HandleDecommission, HandleCancel, HandleSweep
<1>5. AdminMove(w) => Respond(w) \/ Goto(w, "guard") \/ Goto(w, "write") \/ (req[w].pc = "guard" /\ UNCHANGED req)
  BY Zenon DEF AdminMove, HandleCreateAdmin, HandleEnableAdmin, BeginGuard, Guard, GuardDone, WriteAdmin
<1>6. /\ Goto(w, "guard") => req'[w].pc = "guard"
      /\ Goto(w, "write") => req'[w].pc = "write"
  BY <1>2 DEF Phases
<1>7. PlainMove(w) => Arrive(w) \/ Respond(w) \/ Goto(w, "run") \/ Goto(w, "self") \/ Goto(w, "mint")
  BY Zenon DEF PlainMove, Gate, SelfCheck, CheckToken, MintToken
<1>8. /\ Goto(w, "run") => req'[w].pc = "run"
      /\ Goto(w, "self") => req'[w].pc = "self"
      /\ Goto(w, "mint") => req'[w].pc = "mint"
  BY <1>2 DEF Phases
<1>9. Arrive(w) => req'[w].pc \in {"gate", "run"}
  BY ArriveReq DEF Arrived
<1>10. HandlerFails(w) => Respond(w)
  BY Zenon DEF HandlerFails
<1> QED
  BY <1>1, <1>3, <1>4, <1>5, <1>6, <1>7, <1>8, <1>9, <1>10

\* Policies and apps are only added.
Grows == \A t \in Tenants : Begins(pol[t], pol'[t]) /\ apps[t] \subseteq apps'[t]

\* Begins is a preorder.
LEMMA BeginsOrder ==
  ASSUME NEW s \in Seq(Policy), NEW u \in Seq(Policy), NEW v \in Seq(Policy), Begins(s, u), Begins(u, v)
  PROVE  Begins(s, v) /\ Begins(s, s)
BY DEF Begins

\* What a compilation has read stays a beginning of what there is.
LEMMA CompKeep ==
  ASSUME ReqT, PolicyT, PolicyT', LinkInv, Grows, NEW v \in Workers, CompOK(v),
         req'[v] = req[v], comp'[v] = comp[v],
         req[v].pc = "activate" => promised'[req[v].q.t] = promised[req[v].q.t]
  PROVE  CompOK(v)'
<1> DEFINE t == req[v].q.t
<1>1. FieldsOK(req[v].q) /\ LinkOK(req[v], tx[v], sweep[v], Held(v)) /\ req[v] \in Reqs
  BY DEF ReqT, LinkInv
<1>2. req[v].pc \in {"lock", "load", "activate"} => req[v].q.op = "compile"
  BY <1>1 DEF LinkOK
<1>3. req[v].q.op = "compile" => t \in Tenants
  BY <1>1 DEF FieldsOK
<1>4. req[v].need \in Nat
  BY <1>1 DEF Reqs
<1>5. comp[v].read \in Seq(Policy)
  BY DEF PolicyT, Comps
<1> HIDE DEF t
<1>6. t \in Tenants => pol[t] \in Seq(Policy) /\ pol'[t] \in Seq(Policy) /\ Begins(pol[t], pol'[t]) /\ apps[t] \subseteq apps'[t]
  BY DEF PolicyT, Grows
<1>7. req[v].q.op = "compile" => req[v].need <= Len(pol'[t])
  <2> SUFFICES ASSUME req[v].q.op = "compile" PROVE req[v].need <= Len(pol'[t])
    OBVIOUS
  <2>1. req[v].need <= Len(pol[t]) /\ Len(pol[t]) <= Len(pol'[t]) /\ Len(pol[t]) \in Nat /\ Len(pol'[t]) \in Nat
    BY <1>3, <1>6 DEF CompOK, Begins, t
  <2> QED
    BY <1>4, <2>1
<1>8. req[v].pc \in {"lock", "load", "activate"} => comp[v].known \subseteq apps'[t]
  BY <1>2, <1>3, <1>6 DEF CompOK, t
<1>9. req[v].pc = "activate" => Begins(comp[v].read, pol'[t])
  BY <1>2, <1>3, <1>5, <1>6, BeginsOrder DEF CompOK, t
<1> QED
  BY <1>7, <1>8, <1>9 DEF CompOK, t

\* A bundle that stays is as good as it was when policies and apps are added.
LEMMA BundleKeep ==
  ASSUME PolicyT, PolicyT', promised \in [Tenants -> Nat], Grows, NEW t \in Tenants, BundleOK(t),
         ActiveRules(t)' = ActiveRules(t), promised'[t] = promised[t]
  PROVE  BundleOK(t)'
<1>1. pol[t] \in Seq(Policy) /\ pol'[t] \in Seq(Policy) /\ Begins(pol[t], pol'[t]) /\ apps[t] \subseteq apps'[t]
  BY DEF PolicyT, Grows
<1>2. promised[t] \in Nat /\ promised[t] <= Len(pol[t]) /\ Len(pol[t]) \in Nat /\ Len(pol'[t]) \in Nat
  BY <1>1 DEF BundleOK
<1>3. promised[t] <= Len(pol'[t])
  BY <1>1, <1>2 DEF Begins
<1>4. \A i \in 1 .. promised[t] : pol'[t][i] = pol[t][i]
  BY <1>1, <1>2 DEF Begins
<1>5. Sound(ActiveRules(t), apps'[t])
  BY <1>1 DEF BundleOK, Sound
<1> QED
  BY <1>3, <1>4, <1>5 DEF BundleOK

\* A step that adds nothing and activates nothing, of a request that does not compile.
LEMMA CompileKeep ==
  ASSUME ReqT, PolicyT, PolicyT', PlaneT, LinkInv, CompileInv, NEW w \in Workers, WorkerOK(w),
         Grows, UNCHANGED <<bundles, active, promised>>, \A v \in Workers \ {w} : comp'[v] = comp[v],
         CompOK(w)'
  PROVE  CompileInv'
<1>1. \A v \in Workers \ {w} : CompOK(v)'
  BY CompKeep DEF CompileInv, WorkerOK, Others
<1>2. \A t \in Tenants : ActiveRules(t)' = ActiveRules(t)
  BY DEF ActiveRules
<1>3. \A t \in Tenants : BundleOK(t)'
  BY <1>2, BundleKeep DEF CompileInv, PlaneT
<1> QED
  BY <1>1, <1>3 DEF CompileInv

\* The policies a request to compile has to find are there.
LEMMA NeedKept ==
  ASSUME ReqT, PolicyT, CompileInv, NEW w \in Workers, WorkerOK(w), UNCHANGED pol
  PROVE  req'[w].q.op = "compile" => req'[w].need <= Len(pol[req'[w].q.t])
<1>1. FieldsOK(req'[w].q)
  BY DEF WorkerOK, ReqT
<1>2. req'[w].q.op = "compile" => Len(pol[req'[w].q.t]) \in Nat
  BY <1>1 DEF FieldsOK, PolicyT
<1>3. CASE req'[w] = Idle
  BY <1>3, IdleType
<1>4. CASE Advanced(w) \/ Passed(w)
  BY <1>4 DEF Advanced, Passed, Kept, CompileInv, CompOK
<1>5. CASE Arrived(w)
  BY <1>2, <1>5 DEF Arrived
<1> QED
  BY <1>3, <1>4, <1>5 DEF WorkerOK

\* Nothing added.
LEMMA GrowsSame ==
  ASSUME PolicyT, UNCHANGED <<pol, apps>>
  PROVE  Grows
BY DEF Grows, Begins, PolicyT

\* Handlers that have nothing to do with policies.
LEMMA CompileQuiet ==
  ASSUME ReqT, PolicyT, PlaneT, LinkInv, CompileInv, NEW w \in Workers, WorkerOK(w),
         UNCHANGED <<policyVars, promised>>, req'[w].pc \notin {"lock", "load", "activate"}
  PROVE  PolicyT' /\ CompileInv'
<1>1. UNCHANGED <<pol, apps, bundles, active, lock, comp>>
  BY DEF policyVars
<1>2. PolicyT'
  BY <1>1 DEF PolicyT
<1>3. CompOK(w)'
  BY <1>1, NeedKept DEF CompOK
<1> QED
  BY <1>1, <1>2, <1>3, GrowsSame, CompileKeep

\* A handler that fails drops what it has read and activates nothing.
LEMMA FailsCompile ==
  ASSUME ReqT, PolicyT, PlaneT, LinkInv, CompileInv, NEW w \in Workers, WorkerOK(w), HandlerFails(w)
  PROVE  PolicyT' /\ CompileInv'
<1>1. /\ lock' = [t \in Tenants |-> IF lock[t] = w THEN Free ELSE lock[t]]
      /\ comp' = [comp EXCEPT ![w] = NoComp]
      /\ UNCHANGED <<pol, apps, bundles, active, promised>>
  BY DEF HandlerFails, SameElsewhere
<1>2. NoComp \in Comps
  BY DEF NoComp, Comps
<1>3. PolicyT'
  BY <1>1, <1>2 DEF PolicyT
<1>4. \A v \in Workers \ {w} : comp'[v] = comp[v]
  BY <1>1 DEF PolicyT
<1>5. req'[w].pc = "idle"
  BY NextPhase
<1>6. CompOK(w)'
  BY <1>1, <1>5, NeedKept DEF CompOK
<1> QED
  BY <1>1, <1>3, <1>4, <1>6, GrowsSame, CompileKeep

\* A new app makes no bundle worse.
LEMMA CreateAppStep ==
  ASSUME ReqT, PolicyT, PlaneT, LinkInv, CompileInv, NEW w \in Workers, HandleCreateApp(w)
  PROVE  WorkerOK(w) /\ PolicyT' /\ CompileInv'
<1> DEFINE t == req[w].q.t
           a == req[w].q.n
<1>1. /\ req[w].pc = "run" /\ req[w].q.op = "createApp" /\ Respond(w)
      /\ apps' = [apps EXCEPT ![t] = @ \cup {a}] /\ UNCHANGED <<pol, bundles, active, lock, comp, promised, tx, sweep>>
  BY DEF HandleCreateApp, Running, CreateApp, SameElsewhere, tenantVars, adminVars
<1>2. t \in Tenants /\ a \in Apps
  BY <1>1 DEF ReqT, FieldsOK
<1>3. ReqT' /\ req'[w] = Idle /\ Others(w)
  BY <1>1, RespondReq
<1>4. WorkerOK(w)
  BY <1>1, <1>3, LightMove DEF Light
<1>5. PolicyT'
  BY <1>1, <1>2 DEF PolicyT
<1>6. Grows
  BY <1>1, <1>2 DEF PolicyT, Grows, Begins
<1>7. CompOK(w)'
  BY <1>3, IdleType DEF CompOK
<1> QED
  BY <1>1, <1>4, <1>5, <1>6, <1>7, CompileKeep

\* A new policy comes after those a compilation has read.
LEMMA CreatePolicyStep ==
  ASSUME ReqT, PolicyT, PlaneT, LinkInv, CompileInv, NEW w \in Workers, HandleCreatePolicy(w)
  PROVE  WorkerOK(w) /\ PolicyT' /\ CompileInv'
<1> DEFINE t == req[w].q.t
           p == PolicyList[req[w].q.n]
           new == IF p.prio = 0 THEN [p EXCEPT !.prio = 100] ELSE p
<1>1. /\ req[w].pc = "run" /\ req[w].q.op = "createPolicy" /\ Respond(w)
      /\ pol' = [pol EXCEPT ![t] = Append(@, new)]
      /\ UNCHANGED <<apps, bundles, active, lock, comp, promised, tx, sweep>>
  BY DEF HandleCreatePolicy, Running, CreatePolicy, SameElsewhere, tenantVars, adminVars
<1>2. t \in Tenants /\ p \in Policies
  BY <1>1, PlaneAssumption DEF ReqT, FieldsOK
<1>3. new \in Policy
  <2>1. p \in Policy
    BY <1>2, PolicyAssumption
  <2> HIDE DEF p
  <2> QED
    BY <2>1 DEF Policy
<1> HIDE DEF new, t
<1>4. ReqT' /\ req'[w] = Idle /\ Others(w)
  BY <1>1, RespondReq
<1>5. WorkerOK(w)
  BY <1>1, <1>4, LightMove DEF Light
<1>6. \A u \in Tenants : pol[u] \in Seq(Policy) /\ pol'[u] = IF u = t THEN Append(pol[u], new) ELSE pol[u]
  BY <1>1, <1>2 DEF PolicyT
<1>7. pol' \in [Tenants -> Seq(Policy)]
  <2>1. Append(pol[t], new) \in Seq(Policy)
    BY <1>2, <1>3, <1>6
  <2> QED
    BY <1>1, <1>2, <2>1 DEF PolicyT
<1>8. PolicyT'
  BY <1>1, <1>7 DEF PolicyT
<1>9. Grows
  <2> SUFFICES ASSUME NEW u \in Tenants PROVE Begins(pol[u], pol'[u]) /\ apps[u] \subseteq apps'[u]
    BY DEF Grows
  <2>1. CASE u = t
    BY <1>1, <1>3, <1>6, <2>1 DEF Begins
  <2>2. CASE u # t
    BY <1>1, <1>6, <2>2 DEF Begins
  <2> QED
    BY <2>1, <2>2
<1>10. CompOK(w)'
  BY <1>4, IdleType DEF CompOK
<1> QED
  BY <1>1, <1>5, <1>8, <1>9, <1>10, CompileKeep

\* Compile reads the apps, takes the lock and reads the policies.
LEMMA CompileStep ==
  ASSUME ReqT, PolicyT, PlaneT, LinkInv, CompileInv, NEW w \in Workers, HandleCompile(w)
  PROVE  WorkerOK(w) /\ PolicyT' /\ CompileInv'
<1> DEFINE t == req[w].q.t
<1>1. UNCHANGED <<tx, sweep, promised>>
  BY DEF HandleCompile, SameElsewhere, tenantVars, adminVars
<1>2. LinkOK(req[w], tx[w], sweep[w], Held(w)) /\ FieldsOK(req[w].q) /\ req[w] \in Reqs /\ CompOK(w) /\ comp[w] \in Comps
  BY DEF LinkInv, ReqT, CompileInv, PolicyT
<1>3. CASE Running(w, "compile") /\ CompileApps(w, t) /\ Goto(w, "lock")
  <2>1. /\ req[w].pc = "run" /\ req[w].q.op = "compile" /\ comp' = [comp EXCEPT ![w].known = apps[t]]
        /\ UNCHANGED <<pol, apps, bundles, active, lock>>
    BY <1>3 DEF Running, CompileApps
  <2>2. ReqT' /\ req'[w].pc = "lock" /\ Kept(w) /\ Others(w)
    BY <1>3, GotoReq DEF Phases
  <2>3. t \in Tenants /\ apps[t] \in SUBSET Apps
    BY <1>2, <2>1 DEF FieldsOK, PolicyT
  <2>4. [comp[w] EXCEPT !.known = apps[t]] \in Comps /\ [comp[w] EXCEPT !.known = apps[t]].known = apps[t]
    BY <1>2, <2>3 DEF Comps
  <2>5. comp' \in [Workers -> Comps] /\ comp'[w].known = apps[t] /\ \A v \in Workers \ {w} : comp'[v] = comp[v]
    BY <2>1, <2>4 DEF PolicyT
  <2>6. PolicyT'
    BY <2>1, <2>5 DEF PolicyT
  <2>7. Advanced(w) /\ req'[w].q.op = "compile"
    BY <2>1, <2>2 DEF Advanced, Kept
  <2>8. WorkerOK(w)
    BY <1>1, <2>1, <2>2, <2>7, LightMove DEF Light
  <2>9. CompOK(w)'
    BY <2>1, <2>2, <2>5, <2>8, NeedKept DEF CompOK, Kept
  <2> QED
    BY <1>1, <2>1, <2>5, <2>6, <2>8, <2>9, GrowsSame, CompileKeep
<1>4. CASE req[w].pc = "lock" /\ CompileLock(w, t) /\ Goto(w, "load")
  <2>1. lock[t] = Free /\ lock' = [lock EXCEPT ![t] = w] /\ UNCHANGED <<pol, apps, bundles, active, comp>>
    BY <1>4 DEF CompileLock
  <2>2. ReqT' /\ req'[w].pc = "load" /\ Kept(w) /\ Others(w)
    BY <1>4, GotoReq DEF Phases
  <2>3. req[w].q.op = "compile" /\ t \in Tenants /\ tx[w] = NoTx /\ sweep[w].pc = "off" /\ Held(w) = {}
        /\ Authorize(req[w].tok, req[w].q)
    BY <1>2, <1>4 DEF LinkOK, FieldsOK
  <2>4. PolicyT'
    BY <2>1 DEF PolicyT
  <2>5. Held(w)' = {t} /\ \A v \in Workers \ {w} : Held(v)' = Held(v)
    <3> HIDE DEF t
    <3>1. \A u \in Tenants : lock'[u] = IF u = t THEN w ELSE lock[u]
      BY <2>1, <2>3 DEF PolicyT
    <3>2. Free \notin Workers
      BY PolicyAssumption
    <3> QED
      BY <2>1, <2>3, <3>1, <3>2 DEF Held
  <2>6. LinkOK(req'[w], tx'[w], sweep'[w], {t})
    BY <1>1, <2>2, <2>3 DEF LinkOK, Kept
  <2>7. Advanced(w)
    BY <1>4, <2>2 DEF Advanced
  <2>8. WorkerOK(w)
    BY <1>1, <2>2, <2>5, <2>6, <2>7 DEF WorkerOK
  <2>9. CompOK(w)'
    BY <1>2, <1>4, <2>1, <2>2, <2>8, NeedKept DEF CompOK, Kept
  <2> QED
    BY <1>1, <2>1, <2>4, <2>8, <2>9, GrowsSame, CompileKeep
<1>5. CASE req[w].pc = "load" /\ CompileLoad(w, t) /\ Goto(w, "activate")
  <2>1. comp' = [comp EXCEPT ![w].read = pol[t]] /\ UNCHANGED <<pol, apps, bundles, active, lock>>
    BY <1>5 DEF CompileLoad
  <2>2. ReqT' /\ req'[w].pc = "activate" /\ Kept(w) /\ Others(w)
    BY <1>5, GotoReq DEF Phases
  <2>3. req[w].q.op = "compile" /\ t \in Tenants /\ tx[w] = NoTx /\ sweep[w].pc = "off" /\ Held(w) = {t}
        /\ Authorize(req[w].tok, req[w].q)
    BY <1>2, <1>5 DEF LinkOK, FieldsOK
  <2>4. pol[t] \in Seq(Policy) /\ BundleOK(t)
    BY <2>3 DEF PolicyT, CompileInv
  <2>5. /\ [comp[w] EXCEPT !.read = pol[t]] \in Comps
        /\ [comp[w] EXCEPT !.read = pol[t]].read = pol[t] /\ [comp[w] EXCEPT !.read = pol[t]].known = comp[w].known
    BY <1>2, <2>4 DEF Comps
  <2>6. /\ comp' \in [Workers -> Comps] /\ \A v \in Workers \ {w} : comp'[v] = comp[v]
        /\ comp'[w].read = pol[t] /\ comp'[w].known = comp[w].known
    BY <2>1, <2>5 DEF PolicyT
  <2>7. PolicyT'
    BY <2>1, <2>6 DEF PolicyT
  <2>8. Advanced(w) /\ \A v \in Workers : Held(v)' = Held(v)
    BY <1>5, <2>1, <2>2 DEF Advanced, Held
  <2>9. LinkOK(req'[w], tx'[w], sweep'[w], {t})
    BY <1>1, <2>2, <2>3 DEF LinkOK, Kept
  <2>10. WorkerOK(w)
    BY <1>1, <2>2, <2>3, <2>8, <2>9 DEF WorkerOK
  <2>11. Begins(pol[t], pol[t]) /\ promised[t] <= Len(pol[t]) /\ req[w].need <= Len(pol[t])
    BY <1>2, <2>3, <2>4 DEF Begins, BundleOK, CompOK
  <2>12. comp[w].known \subseteq apps[t]
    BY <1>2, <1>5 DEF CompOK
  <2>13. CompOK(w)'
    BY <1>1, <2>1, <2>2, <2>3, <2>6, <2>11, <2>12 DEF CompOK, Kept
  <2> QED
    BY <1>1, <2>1, <2>6, <2>7, <2>10, <2>13, GrowsSame, CompileKeep
<1> QED
  BY <1>3, <1>4, <1>5 DEF HandleCompile

\* The active rules after a compilation that succeeds are the rules it made.
LEMMA ActivateRules ==
  ASSUME PolicyT, NEW w \in Workers, NEW t \in Tenants, CompileActivate(w, t)
  PROVE  /\ PolicyT'
         /\ \A u \in Tenants : u # t => ActiveRules(u)' = ActiveRules(u)
         /\ ActiveRules(t)' = IF CompileFails(w) THEN ActiveRules(t) ELSE SortRules(comp[w].read)
<1> DEFINE rules == SortRules(comp[w].read)
           changed == ~CompileFails(w) /\ ~(active[t] # 0 /\ ActiveRules(t) = rules)
<1>1. /\ bundles' = IF changed THEN [bundles EXCEPT ![t] = Append(@, rules)] ELSE bundles
      /\ active' = IF changed THEN [active EXCEPT ![t] = Len(bundles[t]) + 1] ELSE active
      /\ lock' = [lock EXCEPT ![t] = Free] /\ comp' = [comp EXCEPT ![w] = NoComp] /\ UNCHANGED <<pol, apps>>
  BY DEF CompileActivate
<1>2. comp[w].read \in Seq(Policy) /\ bundles[t] \in Seq(Seq(Policy)) /\ active[t] \in Nat
  BY DEF PolicyT, Comps
<1>3. rules \in Seq(Policy)
  BY <1>2, SortedRules
<1> HIDE DEF rules
<1>4. lock' \in [Tenants -> Workers \cup {Free}] /\ comp' \in [Workers -> Comps]
  BY <1>1 DEF PolicyT, Comps, NoComp
<1>5. CASE changed
  <2> DEFINE b == Append(bundles[t], rules)
  <2>1. b \in Seq(Seq(Policy)) /\ Len(b) = Len(bundles[t]) + 1 /\ b[Len(bundles[t]) + 1] = rules /\ Len(bundles[t]) \in Nat
    BY <1>2, <1>3
  <2>2. bundles' = [bundles EXCEPT ![t] = b] /\ active' = [active EXCEPT ![t] = Len(bundles[t]) + 1]
    BY <1>1, <1>5
  <2> HIDE DEF b
  <2>3. \A u \in Tenants : /\ bundles'[u] = IF u = t THEN b ELSE bundles[u]
                           /\ active'[u] = IF u = t THEN Len(bundles[t]) + 1 ELSE active[u]
    BY <2>2 DEF PolicyT
  <2>4. bundles' \in [Tenants -> Seq(Seq(Policy))] /\ active' \in [Tenants -> Nat]
    BY <2>1, <2>2 DEF PolicyT
  <2>5. ASSUME NEW u \in Tenants PROVE active'[u] <= Len(bundles'[u])
    <3>1. CASE u = t
      BY <2>1, <2>3, <3>1
    <3>2. CASE u # t
      BY <2>3, <3>2 DEF PolicyT
    <3> QED
      BY <3>1, <3>2
  <2>6. PolicyT'
    BY <1>1, <1>4, <2>4, <2>5 DEF PolicyT
  <2>7. active'[t] = Len(bundles[t]) + 1 /\ active'[t] # 0 /\ bundles'[t] = b
    BY <2>1, <2>3
  <2>8. ActiveRules(t)' = rules
    BY <2>1, <2>7 DEF ActiveRules
  <2>9. \A u \in Tenants : u # t => ActiveRules(u)' = ActiveRules(u)
    BY <2>3 DEF ActiveRules
  <2> QED
    BY <1>5, <2>6, <2>8, <2>9 DEF rules
<1>6. CASE ~changed
  <2>1. UNCHANGED <<bundles, active>>
    BY <1>1, <1>6
  <2>2. PolicyT'
    BY <1>1, <1>4, <2>1 DEF PolicyT
  <2>3. \A u \in Tenants : ActiveRules(u)' = ActiveRules(u)
    BY <2>1 DEF ActiveRules
  <2>4. CompileFails(w) \/ ActiveRules(t) = rules
    BY <1>6
  <2> QED
    BY <2>2, <2>3, <2>4 DEF rules
<1> QED
  BY <1>5, <1>6

\* The commit of Compile: the lock is what keeps another bundle from overtaking it.
LEMMA FinishStep ==
  ASSUME ReqT, PolicyT, PlaneT, LinkInv, CompileInv, NEW w \in Workers, FinishCompile(w)
  PROVE  WorkerOK(w) /\ PolicyT' /\ CompileInv' /\ promised' \in [Tenants -> Nat]
<1>0. PICK t, read, known, need : t = req[w].q.t /\ read = comp[w].read /\ known = comp[w].known /\ need = req[w].need
  OBVIOUS
<1>1. /\ req[w].pc = "activate" /\ CompileActivate(w, t) /\ Respond(w) /\ UNCHANGED <<tx, sweep>>
      /\ promised' = IF CompileFails(w) \/ need <= promised[t] THEN promised ELSE [promised EXCEPT ![t] = need]
  BY <1>0 DEF FinishCompile, tenantVars, adminVars
<1>2. /\ LinkOK(req[w], tx[w], sweep[w], Held(w)) /\ FieldsOK(req[w].q) /\ req[w] \in Reqs
      /\ CompOK(w) /\ comp[w] \in Comps /\ promised \in [Tenants -> Nat]
  BY DEF LinkInv, ReqT, CompileInv, PolicyT, PlaneT
<1>3. req[w].q.op = "compile" /\ t \in Tenants /\ tx[w] = NoTx /\ sweep[w].pc = "off" /\ Held(w) = {t}
  BY <1>0, <1>1, <1>2 DEF LinkOK, FieldsOK
<1>4. lock[t] = w
  BY <1>3 DEF Held
<1>5. ReqT' /\ req'[w] = Idle /\ Others(w)
  BY <1>1, RespondReq
<1>6. need \in Nat /\ read \in Seq(Policy) /\ promised[t] \in Nat
  BY <1>0, <1>2, <1>3 DEF Reqs, Comps
<1>7. /\ known \subseteq apps[t] /\ Begins(read, pol[t])
      /\ need <= Len(read) /\ promised[t] <= Len(read)
  BY <1>0, <1>1, <1>2 DEF CompOK
<1>8. /\ lock' = [lock EXCEPT ![t] = Free] /\ comp' = [comp EXCEPT ![w] = NoComp] /\ UNCHANGED <<pol, apps>>
  BY <1>1 DEF CompileActivate
<1>9. /\ PolicyT'
      /\ \A u \in Tenants : u # t => ActiveRules(u)' = ActiveRules(u)
      /\ ActiveRules(t)' = IF CompileFails(w) THEN ActiveRules(t) ELSE SortRules(read)
  BY <1>0, <1>1, <1>3, ActivateRules
<1>10. /\ promised' \in [Tenants -> Nat] /\ \A u \in Tenants : u # t => promised'[u] = promised[u]
       /\ promised'[t] <= Len(read) /\ (CompileFails(w) => promised'[t] = promised[t])
  BY <1>1, <1>2, <1>3, <1>6, <1>7
<1>11. WorkerOK(w)
  <2>1. \A u \in Tenants : lock'[u] = IF u = t THEN Free ELSE lock[u]
    BY <1>3, <1>8 DEF PolicyT
  <2>2. Free \notin Workers
    BY PolicyAssumption
  <2>3. Held(w)' = {} /\ \A v \in Workers \ {w} : Held(v)' = Held(v)
    BY <1>3, <1>4, <2>1, <2>2 DEF Held
  <2>4. LinkOK(Idle, NoTx, sweep[w], {})
    BY <1>3, LinkIdle
  <2> QED
    BY <1>1, <1>3, <1>5, <2>3, <2>4 DEF WorkerOK
<1>12. Grows
  BY <1>8, GrowsSame
<1>13. ASSUME NEW v \in Workers PROVE CompOK(v)'
  <2>1. CASE v = w
    BY <1>5, <2>1, IdleType DEF CompOK
  <2>2. CASE v # w
    <3>1. req'[v] = req[v] /\ comp'[v] = comp[v] /\ CompOK(v)
      BY <1>5, <1>8, <2>2 DEF Others, PolicyT, CompileInv
    <3>2. LinkOK(req[v], tx[v], sweep[v], Held(v)) /\ FieldsOK(req[v].q)
      BY DEF LinkInv, ReqT
    <3>3. req[v].pc = "activate" => req[v].q.t \in Tenants /\ req[v].q.t \in Held(v)
      BY <3>2 DEF LinkOK, FieldsOK
    <3>4. req[v].pc = "activate" => req[v].q.t \in Tenants /\ req[v].q.t # t
      BY <1>4, <2>2, <3>3 DEF Held
    <3> QED
      BY <1>9, <1>10, <1>12, <3>1, <3>4, CompKeep
  <2> QED
    BY <2>1, <2>2
<1>14. ASSUME NEW u \in Tenants, u # t \/ CompileFails(w) PROVE BundleOK(u)'
  <2>1. ActiveRules(u)' = ActiveRules(u) /\ promised'[u] = promised[u] /\ BundleOK(u)
    BY <1>9, <1>10, <1>14 DEF CompileInv
  <2> QED
    BY <1>2, <1>9, <1>12, <2>1, BundleKeep
<1>15. ASSUME ~CompileFails(w) PROVE BundleOK(t)'
  <2> DEFINE rules == SortRules(read)
  <2>1. ActiveRules(t)' = rules
    BY <1>9, <1>15
  <2>2. DOMAIN rules = DOMAIN read /\ \A i \in DOMAIN read : \E k \in DOMAIN read : rules[k] = read[i]
    BY <1>6, SortedRules
  <2>3. Sound(rules, known)
    BY <1>0, <1>6, <1>15, Compiled DEF CompileFails
  <2> HIDE DEF rules
  <2>4. Sound(rules, apps[t])
    BY <1>7, <2>3 DEF Sound
  <2>5. /\ pol[t] \in Seq(Policy) /\ Len(pol[t]) \in Nat /\ promised'[t] \in Nat
        /\ Len(read) \in Nat /\ DOMAIN read = 1 .. Len(read)
    BY <1>3, <1>6, <1>10 DEF PolicyT
  <2>6. promised'[t] <= Len(pol[t])
    BY <1>7, <1>10, <2>5 DEF Begins
  <2>7. \A i \in 1 .. promised'[t] : \E k \in DOMAIN rules : rules[k] = pol[t][i]
    <3> SUFFICES ASSUME NEW i \in 1 .. promised'[t] PROVE \E k \in DOMAIN rules : rules[k] = pol[t][i]
      OBVIOUS
    <3>1. i \in 1 .. Len(read)
      BY <1>10, <2>5
    <3>2. read[i] = pol[t][i]
      BY <1>7, <3>1 DEF Begins
    <3> QED
      BY <2>2, <2>5, <3>1, <3>2
  <2> QED
    BY <1>8, <2>1, <2>4, <2>6, <2>7 DEF BundleOK
<1>16. \A u \in Tenants : BundleOK(u)'
  BY <1>14, <1>15
<1> QED
  BY <1>9, <1>10, <1>11, <1>13, <1>16 DEF CompileInv

\* The handlers of apps and policies.
LEMMA PolicyStep ==
  ASSUME ReqT, PolicyT, PlaneT, LinkInv, CompileInv, NEW w \in Workers, PolicyMove(w)
  PROVE  WorkerOK(w) /\ PolicyT' /\ CompileInv' /\ promised' \in [Tenants -> Nat] /\ req'[w].pc # "write"
<1>1. WorkerOK(w) /\ PolicyT' /\ CompileInv'
  BY CreateAppStep, CreatePolicyStep, CompileStep, FinishStep DEF PolicyMove
<1>2. promised' \in [Tenants -> Nat]
  <2>1. FinishCompile(w) \/ UNCHANGED promised
    BY Zenon DEF PolicyMove, HandleCreateApp, HandleCreatePolicy, HandleCompile, SameElsewhere
  <2> QED
    BY <2>1, FinishStep DEF PlaneT
<1>3. req'[w].pc # "write"
  <2>1. Respond(w) \/ Goto(w, "lock") \/ Goto(w, "load") \/ Goto(w, "activate")
    BY Zenon DEF PolicyMove, HandleCreateApp, HandleCreatePolicy, HandleCompile, FinishCompile
  <2>2. Respond(w) => req'[w].pc = "idle"
    BY RespondReq, IdleType
  <2>3. \A pc \in Phases : Goto(w, pc) => req'[w].pc = pc
    BY GotoReq
  <2> QED
    BY <2>1, <2>2, <2>3 DEF Phases
<1> QED
  BY <1>1, <1>2, <1>3

-----------------------------------------------------------------------------
(* One step of the plane. *)

\* The handlers of tenants and the period of grace.
LEMMA TenantStep ==
  ASSUME ReqT, TenantT, GraceInv, NEW w \in Workers, TenantMove(w)
  PROVE  TenantT' /\ GraceInv'
<1>1. FieldsOK(req[w].q) /\ w \in Sweepers
  BY DEF ReqT, Sweepers
<1>2. CASE HandleCreateTenant(w)
  <2>1. /\ req[w].q.op = "createTenant" /\ CreateTenant(req[w].q.t, req[w].q.s) /\ UNCHANGED <<now, sweep, fails>>
    BY <1>2 DEF HandleCreateTenant, Running
  <2>2. req[w].q.t \in Tenants /\ req[w].q.s \in {"", "offboarding"}
    BY <1>1, <2>1 DEF FieldsOK
  <2> QED
    BY <2>1, <2>2, CreateTenantGrace
<1>3. CASE HandlePatchTenant(w)
  <2>1. req[w].q.op = "patchTenant" /\ PatchTenant(req[w].q.t, req[w].q.s) /\ UNCHANGED <<now, sweep, fails>>
    BY <1>3 DEF HandlePatchTenant, Running
  <2>2. req[w].q.t \in Tenants
    BY <1>1, <2>1 DEF FieldsOK
  <2> QED
    BY <2>1, <2>2, PatchTenantGrace
<1>4. CASE HandleDecommission(w)
  <2>1. /\ req[w].q.op = "decommission" /\ Decommission(req[w].q.t, Grace(req[w].q.n))
        /\ UNCHANGED <<now, sweep, fails>>
    BY <1>4 DEF HandleDecommission, Running
  <2>2. req[w].q.t \in Tenants /\ req[w].q.n \in {0, 1}
    BY <1>1, <2>1 DEF FieldsOK
  <2>3. Grace(req[w].q.n) \in Nat
    BY <2>2, TenantAssumption DEF Grace
  <2> QED
    BY <2>1, <2>2, <2>3, DecommissionGrace
<1>5. CASE HandleCancel(w)
  <2>1. req[w].q.op = "cancel" /\ CancelDecommission(req[w].q.t) /\ UNCHANGED <<now, sweep, fails>>
    BY <1>5 DEF HandleCancel, Running
  <2>2. req[w].q.t \in Tenants
    BY <1>1, <2>1 DEF FieldsOK
  <2> QED
    BY <2>1, <2>2, CancelGrace
<1>6. CASE HandleSweep(w)
  BY <1>1, <1>6, SweepListGrace, SweepStepGrace DEF HandleSweep
<1> QED
  BY <1>2, <1>3, <1>4, <1>5, <1>6 DEF TenantMove

\* A crash loses the sweeps that are under way and nothing that is stored.
LEMMA CrashGrace ==
  ASSUME TenantT, GraceInv, Crash
  PROVE  TenantT' /\ GraceInv'
<1>1. UNCHANGED <<now, ten, dek, firstDue, fails>> /\ sweep' = [s \in Sweepers |-> Resting]
  BY DEF Crash, rowVars
<1>2. Resting \in Sweeps /\ Resting.pc = "off" /\ Resting.todo = <<>> /\ DOMAIN Resting.todo = {}
  BY DEF Resting, Sweeps
<1>3. sweep' \in [Sweepers -> Sweeps] /\ \A s \in Sweepers : sweep'[s] = Resting
  BY <1>1, <1>2
<1>4. TenantT'
  BY <1>1, <1>2, <1>3 DEF TenantT, TenantTypeOK
<1> QED
  BY <1>1, <1>2, <1>3, <1>4 DEF GraceInv, GraceRespected, Past

\* The tokens in use are tokens: a request for one names its role.
LEMMA MintedToken ==
  ASSUME ReqT, PlaneT, LinkInv, NEW w \in Workers, MintToken(w)
  PROVE  tokens' \subseteq Token
<1> DEFINE q == req[w].q
           new == [role |-> q.role, sub |-> q.s, ten |-> q.t]
<1>1. req[w].pc = "mint" /\ tokens' = tokens \cup {new} /\ tokens \subseteq Token
  BY DEF MintToken, PlaneT
<1>2. LinkOK(req[w], tx[w], sweep[w], Held(w)) /\ FieldsOK(q) /\ q \in Queries
  BY DEF LinkInv, ReqT, Reqs
<1>3. q.op = "issueToken"
  BY <1>1, <1>2 DEF LinkOK
<1>4. q.role \in {Platform, TenantAdmin, Auditor} /\ q.s \in Subjects /\ q.t \in Scopes
  BY <1>2, <1>3 DEF FieldsOK, Queries
<1>5. new \in Token
  BY <1>4 DEF Token
<1> QED
  BY <1>1, <1>5

\* The bootstrap token is a token.
LEMMA BootTokensType ==
  ASSUME scene \in Scenarios
  PROVE  BootTokens \subseteq Token
BY AdminAssumption DEF BootTokens, Token, Scopes

\* Tokens and counters keep their types.
LEMMA PlaneStep ==
  ASSUME ReqT, PlaneT, LinkInv, NEW w \in Workers, WorkerMove(w), promised' \in [Tenants -> Nat]
  PROVE  PlaneT'
<1>1. CASE UNCHANGED <<scene, tokens, served, crashes>>
  BY <1>1 DEF PlaneT
<1>2. CASE TenantMove(w) \/ AdminMove(w) \/ HandlerFails(w)
  BY <1>1, <1>2, TenantFrame, AdminFrame DEF SameElsewhere, HandlerFails
<1>3. CASE PolicyMove(w)
  BY <1>1, <1>3, PolicyFrame
<1>4. CASE PlainMove(w)
  <2>1. UNCHANGED <<scene, crashes>>
    BY <1>4, PlainFrame
  <2>2. CASE Arrive(w)
    <3>1. served < scene.requests /\ served' = served + 1 /\ UNCHANGED tokens
      BY <2>2 DEF Arrive
    <3>2. scene.requests \in Nat
      BY PlaneAssumption DEF PlaneT
    <3>3. served' \in 0 .. scene.requests
      BY <3>1, <3>2 DEF PlaneT
    <3> QED
      BY <2>1, <3>1, <3>3 DEF PlaneT
  <2>3. CASE MintToken(w)
    BY <2>1, <2>3, MintedToken DEF MintToken, PlaneT
  <2>4. CASE Gate(w) \/ SelfCheck(w) \/ CheckToken(w)
    BY <1>1, <2>4 DEF Gate, SelfCheck, CheckToken, SameElsewhere
  <2> QED
    BY <1>4, <2>2, <2>3, <2>4 DEF PlainMove
<1> QED
  BY <1>2, <1>3, <1>4 DEF WorkerMove

\* The inductive invariant, without the history of who was active.
PlaneInv ==
  /\ TenantT /\ AdminTypeOK /\ PolicyT /\ PlaneT /\ ReqT
  /\ LinkInv /\ GraceInv /\ GuardInv /\ CompileInv

\* A step of a worker keeps the invariant.
LEMMA WorkerStep ==
  ASSUME PlaneInv, NEW w \in Workers, WorkerMove(w)
  PROVE  PlaneInv' /\ WorkerOK(w)
<1> USE DEF PlaneInv
<1>1. CASE TenantMove(w)
  <2>1. UNCHANGED <<adminVars, policyVars, promised>> /\ req'[w].pc \in {"idle", "sweep"}
    BY <1>1, TenantFrame, NextPhase DEF SameElsewhere
  <2>2. WorkerOK(w) /\ LinkInv' /\ ReqT'
    BY <1>1, TenantLink, LinkMove DEF WorkerOK
  <2>3. TenantT' /\ GraceInv'
    BY <1>1, TenantStep
  <2>4. AdminTypeOK' /\ GuardInv'
    BY <2>1, <2>2, AdminKeep
  <2>5. PolicyT' /\ CompileInv'
    BY <2>1, <2>2, CompileQuiet
  <2>6. PlaneT'
    BY <2>1, PlaneStep DEF PlaneT
  <2> QED
    BY <2>2, <2>3, <2>4, <2>5, <2>6
<1>2. CASE AdminMove(w)
  <2>1. UNCHANGED <<tenantVars, policyVars, promised>> /\ req'[w].pc \in {"idle", "guard", "write"}
    BY <1>2, AdminFrame, NextPhase DEF SameElsewhere
  <2>2. WorkerOK(w) /\ AdminTypeOK' /\ GuardInv'
    BY <1>2, AdminStep
  <2>3. LinkInv' /\ ReqT'
    BY <2>2, LinkMove DEF WorkerOK
  <2>4. TenantT' /\ GraceInv'
    BY <2>1, TenantStutter
  <2>5. PolicyT' /\ CompileInv'
    BY <2>1, <2>2, CompileQuiet
  <2>6. PlaneT'
    BY <2>1, PlaneStep DEF PlaneT
  <2> QED
    BY <2>2, <2>3, <2>4, <2>5, <2>6
<1>3. CASE PolicyMove(w)
  <2>1. UNCHANGED <<tenantVars, adminVars>>
    BY <1>3, PolicyFrame
  <2>2. WorkerOK(w) /\ PolicyT' /\ CompileInv' /\ promised' \in [Tenants -> Nat] /\ req'[w].pc # "write"
    BY <1>3, PolicyStep
  <2>3. LinkInv' /\ ReqT'
    BY <2>2, LinkMove DEF WorkerOK
  <2>4. TenantT' /\ GraceInv'
    BY <2>1, TenantStutter
  <2>5. AdminTypeOK' /\ GuardInv'
    BY <2>1, <2>2, AdminKeep
  <2>6. PlaneT'
    BY <2>2, PlaneStep
  <2> QED
    BY <2>2, <2>3, <2>4, <2>5, <2>6
<1>4. CASE PlainMove(w)
  <2>1. /\ UNCHANGED <<tenantVars, adminVars, policyVars, promised>>
        /\ req'[w].pc \in {"idle", "gate", "run", "self", "mint"}
    BY <1>4, PlainFrame, NextPhase
  <2>2. WorkerOK(w) /\ LinkInv' /\ ReqT'
    BY <1>4, PlainLink, LinkMove DEF WorkerOK
  <2>3. TenantT' /\ GraceInv'
    BY <2>1, TenantStutter
  <2>4. AdminTypeOK' /\ GuardInv'
    BY <2>1, <2>2, AdminKeep
  <2>5. PolicyT' /\ CompileInv'
    BY <2>1, <2>2, CompileQuiet
  <2>6. PlaneT'
    BY <2>1, PlaneStep DEF PlaneT
  <2> QED
    BY <2>2, <2>3, <2>4, <2>5, <2>6
<1>5. CASE HandlerFails(w)
  <2>1. UNCHANGED <<tenantVars, promised>>
    BY <1>5 DEF HandlerFails, SameElsewhere
  <2>2. WorkerOK(w) /\ AdminTypeOK' /\ GuardInv'
    BY <1>5, FailsStep
  <2>3. LinkInv' /\ ReqT'
    BY <2>2, LinkMove DEF WorkerOK
  <2>4. TenantT' /\ GraceInv'
    BY <2>1, TenantStutter
  <2>5. PolicyT' /\ CompileInv'
    BY <1>5, <2>2, FailsCompile
  <2>6. PlaneT'
    BY <2>1, PlaneStep DEF PlaneT
  <2> QED
    BY <2>2, <2>3, <2>4, <2>5, <2>6
<1> QED
  BY <1>1, <1>2, <1>3, <1>4, <1>5 DEF WorkerMove

\* Without a step of a worker, the requests and what hangs on them stay.
LEMMA QuietStep ==
  ASSUME PlaneInv, UNCHANGED <<adminVars, policyVars, req, promised>>, \A w \in Workers : sweep'[w] = sweep[w]
  PROVE  AdminTypeOK' /\ PolicyT' /\ ReqT' /\ LinkInv' /\ GuardInv' /\ CompileInv'
<1>1. UNCHANGED <<adm, tx, pol, apps, bundles, active, lock, comp, req, promised>>
  BY DEF adminVars, policyVars
<1>2. AdminTypeOK' /\ LockInv'
  BY AdminStutter DEF PlaneInv, GuardInv
<1>3. PolicyT' /\ ReqT'
  BY <1>1 DEF PlaneInv, PolicyT, ReqT
<1>4. LinkInv'
  BY <1>1 DEF PlaneInv, LinkInv, Held
<1>5. GuardInv'
  BY <1>1, <1>2 DEF PlaneInv, GuardInv, WriteOK
<1>6. CompileInv'
  <2>1. \A w \in Workers : CompOK(w) /\ CompOK(w)' = CompOK(w)
    BY <1>1 DEF PlaneInv, CompileInv, CompOK
  <2>2. \A t \in Tenants : ActiveRules(t)' = ActiveRules(t)
    BY <1>1 DEF ActiveRules
  <2>3. \A t \in Tenants : BundleOK(t) /\ BundleOK(t)' = BundleOK(t)
    BY <1>1, <2>2 DEF PlaneInv, CompileInv, BundleOK
  <2> QED
    BY <2>1, <2>3 DEF CompileInv
<1> QED
  BY <1>2, <1>3, <1>4, <1>5, <1>6

\* A crash keeps the invariant.
LEMMA CrashStep ==
  ASSUME PlaneInv, Crash
  PROVE  PlaneInv'
<1> USE DEF PlaneInv
<1>1. /\ req' = [w \in Workers |-> Idle] /\ sweep' = [s \in Sweepers |-> Resting]
      /\ tx' = [w \in Workers |-> NoTx] /\ lock' = [t \in Tenants |-> Free]
      /\ comp' = [w \in Workers |-> NoComp] /\ tokens' = tokens \cup BootTokens
      /\ crashes < MaxCrashes /\ crashes' = crashes + 1
      /\ UNCHANGED <<adm, pol, apps, bundles, active, scene, served, promised>>
  BY DEF Crash
<1>2. \A w \in Workers : req'[w] = Idle /\ tx'[w] = NoTx /\ sweep'[w] = Resting /\ comp'[w] = NoComp
  BY <1>1 DEF Sweepers
<1>3. TenantT' /\ GraceInv'
  BY CrashGrace
<1>4. AdminTypeOK' /\ GuardInv'
  <2>1. tx' \in [Workers -> Txs]
    BY <1>1, NoTxType
  <2>2. AdminTypeOK'
    BY <1>1, <2>1 DEF AdminTypeOK, Txs
  <2> QED
    BY <1>2, <2>2, NoTxType, IdleType DEF GuardInv, LockInv, WriteOK
<1>5. PolicyT'
  <2>1. NoComp \in Comps
    BY DEF NoComp, Comps
  <2> QED
    BY <1>1, <2>1 DEF PolicyT
<1>6. PlaneT'
  <2>1. BootTokens \subseteq Token
    BY BootTokensType DEF PlaneT
  <2>2. crashes' \in 0 .. MaxCrashes
    BY <1>1, PlaneAssumption DEF PlaneT
  <2> QED
    BY <1>1, <2>1, <2>2 DEF PlaneT
<1>7. ReqT'
  BY <1>1, IdleType DEF ReqT
<1>8. LinkInv'
  <2>1. Free \notin Workers
    BY PolicyAssumption
  <2>2. \A w \in Workers : Held(w)' = {}
    BY <1>1, <2>1 DEF Held
  <2>3. LinkOK(Idle, NoTx, Resting, {})
    BY LinkIdle DEF Resting
  <2> QED
    BY <1>2, <2>2, <2>3 DEF LinkInv
<1>9. CompileInv'
  <2>1. \A w \in Workers : CompOK(w)'
    BY <1>2, IdleType DEF CompOK
  <2>2. \A t \in Tenants : ActiveRules(t)' = ActiveRules(t)
    BY <1>1 DEF ActiveRules
  <2>3. \A t \in Tenants : BundleOK(t) /\ BundleOK(t)' = BundleOK(t)
    BY <1>1, <2>2 DEF CompileInv, BundleOK
  <2> QED
    BY <2>1, <2>3 DEF CompileInv
<1> QED
  BY <1>3, <1>4, <1>5, <1>6, <1>7, <1>8, <1>9

\* A start with any scenario.
LEMMA PlaneInitial ==
  ASSUME Init
  PROVE  PlaneInv
<1>1. /\ scene \in Scenarios /\ TenantInit(scene.tenants, scene.keys) /\ AdminInit(scene.admins) /\ PolicyInit
      /\ tokens = scene.tokens \cup BootTokens /\ req = [w \in Workers |-> Idle]
      /\ served = 0 /\ crashes = 0 /\ promised = [t \in Tenants |-> 0]
  BY DEF Init
<1>2. /\ \A i \in DOMAIN scene.admins : i \in Ids /\ scene.admins[i] \in [sub : Subjects, st : {"active", "disabled"}]
      /\ scene.tokens \subseteq Token /\ scene.requests \in Nat /\ MaxCrashes \in Nat
  BY <1>1, PlaneAssumption
<1>3. \A s \in Sweepers : sweep[s] = Resting
  BY <1>1 DEF TenantInit
<1>4. Resting \in Sweeps /\ Resting.pc = "off" /\ Resting.todo = <<>> /\ DOMAIN Resting.todo = {}
  BY DEF Resting, Sweeps
<1>5. TenantT
  <2>1. sweep \in [Sweepers -> Sweeps]
    BY <1>1, <1>4 DEF TenantInit
  <2>2. /\ now \in 0 .. MaxTime /\ fails \in 0 .. MaxFails
        /\ ten \in [Tenants -> [status : Statuses \cup {"none"}, due : {Null} \cup 0 .. MaxTime + MaxGrace]]
        /\ dek \in [Tenants -> {"none", "live", "destroyed"}]
        /\ firstDue \in [Tenants -> {Null} \cup 0 .. MaxTime + MaxGrace]
    BY <1>1, TenantAssumption DEF TenantInit, Statuses
  <2> QED
    BY <1>3, <1>4, <2>1, <2>2 DEF TenantT, TenantTypeOK
<1>6. GraceInv
  <2>1. \A t \in Tenants : ten[t].due = Null /\ dek[t] # "destroyed"
    BY <1>1 DEF TenantInit
  <2> QED
    BY <1>3, <1>4, <2>1 DEF GraceInv, GraceRespected
<1>7. AdminTypeOK /\ \A w \in Workers : tx[w] = NoTx
  <2>1. adm \in [Ids -> [sub : Subjects, st : {"free", "active", "disabled", "gone"}]]
    BY <1>1, <1>2, AdminAssumption DEF AdminInit
  <2>2. tx \in [Workers -> Txs] /\ \A w \in Workers : tx[w] = NoTx
    BY <1>1, NoTxType DEF AdminInit
  <2> QED
    BY <2>1, <2>2 DEF AdminTypeOK, Txs
<1>8. PolicyT
  <2>1. NoComp \in Comps
    BY DEF NoComp, Comps
  <2> QED
    BY <1>1, <2>1 DEF PolicyInit, PolicyT
<1>9. PlaneT
  <2>1. BootTokens \subseteq Token
    BY <1>1, BootTokensType
  <2> QED
    BY <1>1, <1>2, <2>1 DEF PlaneT
<1>10. ReqT /\ \A w \in Workers : req[w] = Idle
  BY <1>1, IdleType DEF ReqT
<1>11. LinkInv
  <2>1. Free \notin Workers
    BY PolicyAssumption
  <2>2. \A w \in Workers : Held(w) = {}
    BY <1>1, <2>1 DEF Held, PolicyInit
  <2>3. LinkOK(Idle, NoTx, Resting, {})
    BY <1>4, LinkIdle
  <2> QED
    BY <1>3, <1>7, <1>10, <2>2, <2>3 DEF LinkInv, Sweepers
<1>12. GuardInv
  BY <1>7, <1>10, NoTxType, IdleType DEF GuardInv, LockInv, WriteOK
<1>13. CompileInv
  <2>1. \A w \in Workers : CompOK(w)
    BY <1>10, IdleType DEF CompOK
  <2>2. \A t \in Tenants : ActiveRules(t) = <<>> /\ pol[t] = <<>> /\ promised[t] = 0
    BY <1>1 DEF ActiveRules, PolicyInit
  <2>3. Sound(<<>>, {}) /\ \A t \in Tenants : apps[t] = {}
    BY <1>1 DEF Sound, Conflicting, PolicyInit
  <2>4. ASSUME NEW t \in Tenants PROVE BundleOK(t)
    <3>1. 1 .. promised[t] = {} /\ promised[t] <= Len(pol[t])
      BY <2>2
    <3> QED
      BY <2>2, <2>3, <3>1 DEF BundleOK
  <2> QED
    BY <2>1, <2>4 DEF CompileInv
<1> QED
  BY <1>5, <1>6, <1>7, <1>8, <1>9, <1>10, <1>11, <1>12, <1>13 DEF PlaneInv

-----------------------------------------------------------------------------
(* The invariant of the specification. *)

\* Steps that are no worker's.
LEMMA OtherStep ==
  ASSUME PlaneInv, (\E tok \in tokens : TokenExpires(tok)) \/ CronSweep \/ Clock
  PROVE  PlaneInv' /\ UNCHANGED req
<1> USE DEF PlaneInv
<1>1. CASE \E tok \in tokens : TokenExpires(tok)
  <2>1. UNCHANGED <<tenantVars, adminVars, policyVars, scene, req, served, crashes, promised>> /\ tokens' \subseteq tokens
    BY <1>1 DEF TokenExpires
  <2>2. TenantT' /\ GraceInv' /\ UNCHANGED sweep
    BY <2>1, TenantStutter DEF tenantVars
  <2>3. PlaneT'
    BY <2>1 DEF PlaneT
  <2> QED
    BY <2>1, <2>2, <2>3, QuietStep
<1>2. CASE CronSweep
  <2>1. UNCHANGED <<adminVars, policyVars, scene, tokens, req, served, crashes, promised>>
        /\ (SweepList(Cron) \/ SweepStep(Cron)) /\ Cron \in Sweepers
    BY <1>2 DEF CronSweep, CronTick, planeVars, Sweepers
  <2>2. TenantT' /\ GraceInv'
    BY <2>1, SweepListGrace, SweepStepGrace
  <2>3. \A w \in Workers : sweep'[w] = sweep[w]
    BY <2>1, SweepOthers, TenantAssumption DEF Sweepers
  <2>4. PlaneT'
    BY <2>1 DEF PlaneT
  <2> QED
    BY <2>1, <2>2, <2>3, <2>4, QuietStep
<1>3. CASE Clock
  <2>1. UNCHANGED <<adminVars, policyVars, scene, tokens, req, served, crashes, promised>> /\ Tick
    BY <1>3 DEF Clock, planeVars
  <2>2. TenantT' /\ GraceInv' /\ UNCHANGED sweep
    BY <2>1, TickGrace DEF Tick
  <2>3. PlaneT'
    BY <2>1 DEF PlaneT
  <2> QED
    BY <2>1, <2>2, <2>3, QuietStep
<1> QED
  BY <1>1, <1>2, <1>3

\* Every step keeps the invariant.
LEMMA PlaneNext ==
  ASSUME PlaneInv, [Next]_vars
  PROVE  PlaneInv'
<1>1. CASE Next
  <2>1. Step
    BY <1>1 DEF Next
  <2> QED
    BY <2>1, StepCases, WorkerStep, OtherStep, CrashStep
<1>2. CASE UNCHANGED vars
  <2>1. UNCHANGED <<tenantVars, adminVars, policyVars, scene, tokens, req, served, crashes, promised>>
    BY <1>2 DEF vars, planeVars
  <2>2. TenantT' /\ GraceInv' /\ UNCHANGED sweep
    BY <2>1, TenantStutter DEF tenantVars, PlaneInv
  <2>3. PlaneT'
    BY <2>1 DEF PlaneT, PlaneInv
  <2> QED
    BY <2>1, <2>2, <2>3, QuietStep DEF PlaneInv
<1> QED
  BY <1>1, <1>2

\* The invariant holds in every state api-server reaches, through crashes,
\* failing calls and any interleaving of its requests and the cron.
THEOREM Invariance == Spec => []PlaneInv
BY PlaneInitial, PlaneNext, PTL DEF Spec

-----------------------------------------------------------------------------
(* What follows. *)

\* The variables keep their types; a request has a transaction open exactly
\* in guardLastActive and the write after it, a sweep exactly while its
\* handler sweeps, and the advisory lock of a tenant exactly between the lock
\* of Compile and its commit.
THEOREM TypeCorrect == Spec => []TypeOK
<1>1. PlaneInv => TypeOK
  <2> SUFFICES ASSUME PlaneInv PROVE TypeOK
    OBVIOUS
  <2> USE DEF PlaneInv
  <2>1. TenantTypeOK /\ AdminTypeOK /\ tokens \subseteq Token /\ served \in 0 .. scene.requests /\ crashes \in 0 .. MaxCrashes
    BY DEF TenantT, PlaneT
  <2>2. PolicyTypeOK
    <3>1. ASSUME NEW t \in Tenants
          PROVE  active[t] \in 0 .. Len(bundles[t]) /\ \A i \in DOMAIN pol[t] : pol[t][i] \in Policy
      BY DEF PolicyT
    <3>2. \A w \in Workers : comp[w].known \subseteq Apps
      BY DEF PolicyT, Comps
    <3> QED
      BY <3>1, <3>2 DEF PolicyT, PolicyTypeOK
  <2>3. ASSUME NEW w \in Workers
        PROVE  /\ req[w].pc \in Phases
               /\ tx[w].open <=> req[w].pc \in {"guard", "write"}
               /\ req[w].pc = "sweep" <=> sweep[w].pc # "off"
               /\ req[w].pc \in {"load", "activate"} <=> \E t \in Tenants : lock[t] = w
    <3>1. LinkOK(req[w], tx[w], sweep[w], Held(w)) /\ req[w].pc \in Phases
      BY DEF LinkInv, ReqT, Reqs
    <3>2. tx[w].open <=> req[w].pc \in {"guard", "write"}
      BY <3>1, NoTxType DEF LinkOK
    <3>3. req[w].pc = "sweep" <=> sweep[w].pc # "off"
      BY <3>1 DEF LinkOK
    <3>4. Held(w) # {} <=> req[w].pc \in {"load", "activate"}
      BY <3>1 DEF LinkOK
    <3>5. Held(w) # {} <=> \E t \in Tenants : lock[t] = w
      BY DEF Held
    <3> QED
      BY <3>1, <3>2, <3>3, <3>4, <3>5
  <2> QED
    BY <2>1, <2>2, <2>3 DEF TypeOK, Phases
<1> QED
  BY <1>1, Invariance, PTL

\* No sweep, of the cron or of a request, shreds the key of a tenant before
\* the earliest deadline the tenant was given.
THEOREM GraceKept == Spec => []GraceRespected
<1>1. PlaneInv => GraceRespected
  BY DEF PlaneInv, GraceInv
<1> QED
  BY <1>1, Invariance, PTL

\* A request to compile that succeeds leaves every policy there was when it
\* arrived in the active bundle, whatever compiles beside it.
THEOREM CompileComplete == Spec => []CompileReflects
<1>1. PlaneInv => CompileReflects
  BY DEF PlaneInv, CompileInv, BundleOK, CompileReflects
<1> QED
  BY <1>1, Invariance, PTL

\* The active bundle has no contradiction and names registered apps only, and
\* the enforcement point decides with it by the least priority that matches.
THEOREM BundlesSound == Spec => []BundleSound
<1>1. PlaneInv => BundleSound
  <2> SUFFICES ASSUME PlaneInv, NEW t \in Tenants
               PROVE  LET rules == ActiveRules(t)
                      IN  /\ \A k \in DOMAIN rules : rules[k].res \in apps[t]
                          /\ ~Conflicting(rules)
                          /\ \A c \in Claims, a \in Apps :
                               LET m == {k \in DOMAIN rules : RuleMatch(rules[k], c, a, 1)}
                               IN  IF m = {} THEN Decide(rules, c, a, 1) = Deny
                                   ELSE \E k \in m : /\ rules[k].eff = Decide(rules, c, a, 1)
                                                     /\ \A j \in m : rules[k].prio <= rules[j].prio
    BY DEF BundleSound
  <2> DEFINE rules == ActiveRules(t)
  <2>1. Sound(rules, apps[t])
    BY DEF PlaneInv, CompileInv, BundleOK
  <2>2. rules \in Seq(Policy)
    <3>1. bundles[t] \in Seq(Seq(Policy)) /\ active[t] \in Nat /\ active[t] <= Len(bundles[t])
      BY DEF PlaneInv, PolicyT
    <3>2. active[t] # 0 => bundles[t][active[t]] \in Seq(Policy)
      BY <3>1
    <3> QED
      BY <3>2 DEF ActiveRules
  <2> HIDE DEF rules
  <2>3. (\A k \in DOMAIN rules : rules[k].res \in apps[t]) /\ ~Conflicting(rules)
    BY <2>1 DEF Sound
  <2>4. ASSUME NEW c \in Claims, NEW a \in Apps
        PROVE  LET m == {k \in DOMAIN rules : RuleMatch(rules[k], c, a, 1)}
               IN  IF m = {} THEN Decide(rules, c, a, 1) = Deny
                   ELSE \E k \in m : /\ rules[k].eff = Decide(rules, c, a, 1)
                                     /\ \A j \in m : rules[k].prio <= rules[j].prio
    BY <2>1, <2>2, DecideFirst
  <2> QED
    BY <2>3, <2>4 DEF rules
<1> QED
  BY <1>1, Invariance, PTL

\* No request is served at the start.
LEMMA InertInit ==
  ASSUME Init
  PROVE  RevokedAdminInert
<1>1. \A w \in Workers : req[w] = Idle
  BY DEF Init
<1> QED
  BY <1>1, IdleType DEF RevokedAdminInert

\* A worker's request was let through after its subject was seen active.
LEMMA InertStep ==
  ASSUME PlaneInv, RevokedAdminInert, [Next]_vars
  PROVE  RevokedAdminInert'
<1> SUFFICES ASSUME NEW v \in Workers, req'[v].pc \notin {"idle", "gate"}, req'[v].tok.role = Platform
             PROVE  req'[v].tok.sub \in alive'[v]
  BY DEF RevokedAdminInert
<1>1. CASE UNCHANGED vars
  BY <1>1 DEF vars, planeVars, RevokedAdminInert
<1>2. CASE Next
  <2>1. Step /\ alive'[v] = alive[v] \cup ActiveSubjects'
    BY <1>2 DEF Next, Remember
  <2>2. CASE req'[v] = req[v]
    BY <2>1, <2>2 DEF RevokedAdminInert
  <2>3. CASE Crash
    <3>1. req'[v] = Idle
      BY <2>3 DEF Crash
    <3> QED
      BY <3>1, IdleType
  <2>4. ASSUME NEW w \in Workers, WorkerMove(w) PROVE req'[v].tok.sub \in alive'[v]
    <3>1. WorkerOK(w)
      BY <2>4, WorkerStep
    <3>2. CASE v # w
      BY <2>2, <3>1, <3>2 DEF WorkerOK, Others
    <3>3. CASE v = w
      <4>1. CASE req'[w] = Idle
        BY <3>3, <4>1, IdleType
      <4>2. CASE Advanced(w)
        BY <2>1, <3>3, <4>2 DEF Advanced, Kept, RevokedAdminInert
      <4>3. CASE Passed(w)
        <5>1. AdminActive(req[w].tok.sub) /\ UNCHANGED adm /\ req'[w].tok = req[w].tok
          BY <4>3 DEF Passed, GateOpen, Kept
        <5>2. req[w].tok.sub \in Subjects
          <6>1. req[w].tok \in Token \cup {Anonymous}
            BY DEF PlaneInv, ReqT, Reqs
          <6>2. CASE req[w].tok \in Token
            BY <6>2 DEF Token
          <6>3. Anonymous.sub = BootSubject
            BY DEF Anonymous
          <6>4. CASE req[w].tok = Anonymous
            BY <6>3, <6>4, AdminAssumption
          <6> QED
            BY <6>1, <6>2, <6>4
        <5>3. ActiveSubjects' = ActiveSubjects
          BY <5>1 DEF ActiveSubjects, AdminActive, IsActive, ActiveIds
        <5> QED
          BY <2>1, <3>3, <5>1, <5>2, <5>3 DEF ActiveSubjects
      <4>4. CASE Arrived(w)
        BY <3>3, <4>4 DEF Arrived
      <4> QED
        BY <3>1, <4>1, <4>2, <4>3, <4>4 DEF WorkerOK
    <3> QED
      BY <3>2, <3>3
  <2> QED
    BY <2>1, <2>2, <2>3, <2>4, StepCases, OtherStep
<1> QED
  BY <1>1, <1>2

\* A request works for a platform token only if the token's subject was an
\* active administrator at some time after the request arrived.
THEOREM RevokedInert == Spec => []RevokedAdminInert
<1>1. PlaneInv /\ RevokedAdminInert /\ [Next]_vars => RevokedAdminInert'
  BY InertStep
<1> QED
  BY <1>1, InertInit, Invariance, PTL DEF Spec

-----------------------------------------------------------------------------
(* What a step may change. *)

\* Only WriteAdmin changes the table for a request that holds locks.
LEMMA LockedWrite ==
  ASSUME PlaneInv, NEW w \in Workers, WorkerMove(w), adm' # adm, req[w].q.n \in tx[w].locked
  PROVE  WriteAdmin(w)
<1>1. LinkOK(req[w], tx[w], sweep[w], Held(w))
  BY DEF PlaneInv, LinkInv
<1>2. req[w].pc \in {"guard", "write"}
  BY <1>1, NoTxType DEF LinkOK
<1>3. AdminMove(w)
  <2>1. TenantMove(w) \/ PolicyMove(w) \/ PlainMove(w) => UNCHANGED adm
    BY TenantFrame, PolicyFrame, PlainFrame DEF adminVars
  <2>2. HandlerFails(w) => UNCHANGED adm
    BY FailsStep DEF PlaneInv
  <2> QED
    BY <2>1, <2>2 DEF WorkerMove
<1>4. ~HandleCreateAdmin(w) /\ ~HandleEnableAdmin(w) /\ ~BeginGuard(w)
  BY <1>2 DEF HandleCreateAdmin, HandleEnableAdmin, BeginGuard, Running
<1>5. ~Guard(w) /\ ~GuardDone(w)
  BY Zenon DEF Guard, GuardDone, GuardLock, Rollback, adminVars
<1> QED
  BY <1>3, <1>4, <1>5 DEF AdminMove

\* The row a guard found besides the target is still locked and active when
\* the target is written, and stays active.
LEMMA WriteLeavesOne ==
  ASSUME PlaneInv, NEW w \in Workers, WriteAdmin(w), req[w].q.n \in tx[w].locked
  PROVE  ActiveIds' # {}
<1>1. /\ req[w].pc = "write"
      /\ GuardedWrite(w, req[w].q.n, IF req[w].q.op = "deleteAdmin" THEN "gone" ELSE "disabled")
  BY DEF WriteAdmin
<1>2. LinkOK(req[w], tx[w], sweep[w], Held(w)) /\ FieldsOK(req[w].q) /\ AdminTypeOK /\ LockInv /\ WriteOK(w)
  BY DEF PlaneInv, LinkInv, ReqT, GuardInv
<1>3. PICK j \in tx[w].locked : j # req[w].q.n
  BY <1>1, <1>2 DEF WriteOK
<1>4. req[w].q.n \in Ids
  BY <1>1, <1>2 DEF LinkOK, Disables, FieldsOK
<1>5. \A i \in Ids \ {req[w].q.n} : adm'[i] = adm[i]
  <2>1. CASE req[w].q.op = "deleteAdmin"
    BY <1>1, <1>2, <1>4, <2>1, WriteLocks
  <2>2. CASE req[w].q.op # "deleteAdmin"
    BY <1>1, <1>2, <1>4, <2>2, WriteLocks
  <2> QED
    BY <2>1, <2>2
<1>6. j \in ActiveIds
  BY <1>2 DEF LockInv
<1> QED
  BY <1>3, <1>5, <1>6 DEF ActiveIds

\* A transaction that takes an active row it has locked out of service leaves
\* another one active.
THEOREM GuardsSound == Spec => GuardSound
<1>1. ASSUME PlaneInv, Next, NEW w \in Workers, adm' # adm, req'[w] # req[w], req[w].q.n \in tx[w].locked
      PROVE  ActiveIds' # {}
  <2>1. ~Crash /\ ~CronSweep /\ ~Clock /\ ~(\E tok \in tokens : TokenExpires(tok))
    BY <1>1, OtherStep DEF Crash
  <2>2. PICK v \in Workers : WorkerMove(v)
    BY <1>1, <2>1, StepCases DEF Next
  <2>3. v = w
    BY <1>1, <2>2, WorkerStep DEF WorkerOK, Others
  <2> QED
    BY <1>1, <2>2, <2>3, LockedWrite, WriteLeavesOne
<1>2. PlaneInv /\ [Next]_vars =>
        [\A w \in Workers : adm' # adm /\ req'[w] # req[w] /\ req[w].q.n \in tx[w].locked => ActiveIds' # {}]_vars
  BY <1>1
<1> QED
  BY <1>2, Invariance, PTL DEF Spec, GuardSound

\* A handler of the platform's routes works for a platform token.
LEMMA PlatformToken ==
  ASSUME PlaneInv, NEW w \in Workers, req[w].pc \notin {"idle", "gate"},
         req[w].q.op \in Ops \ {"createApp", "createPolicy", "compile"}
  PROVE  req[w].tok.role = Platform
<1>1. Authorize(req[w].tok, req[w].q)
  BY DEF PlaneInv, LinkInv, LinkOK
<1>2. Area(req[w].q.op) # "inTenant"
  BY DEF Area
<1> QED
  BY <1>1, <1>2 DEF Authorize

\* A handler of a tenant's routes works for the platform or that tenant.
LEMMA TenantToken ==
  ASSUME PlaneInv, NEW w \in Workers, req[w].pc \notin {"idle", "gate"},
         req[w].q.op \in {"createApp", "createPolicy", "compile"}
  PROVE  req[w].tok.role = Platform \/ (req[w].tok.role = TenantAdmin /\ req[w].tok.ten = req[w].q.t)
<1>1. Authorize(req[w].tok, req[w].q)
  BY DEF PlaneInv, LinkInv, LinkOK
<1>2. Area(req[w].q.op) = "inTenant"
  BY DEF Area
<1> QED
  BY <1>1, <1>2 DEF Authorize

\* A worker that answers, and one whose sweep goes on, acts.
LEMMA ActsMove ==
  ASSUME PlaneInv, NEW w \in Workers, req[w].pc # "idle", Respond(w) \/ sweep'[w] # sweep[w]
  PROVE  Acts(w)
<1>1. ~req[w].forged
  BY DEF PlaneInv, ReqT, Reqs
<1>2. Respond(w) => req'[w] # req[w]
  BY RespondReq, IdleType DEF PlaneInv
<1> QED
  BY <1>1, <1>2 DEF Acts

\* A step of a sweep that changes a tenant moves the sweep on.
LEMMA SweepActs ==
  ASSUME PlaneInv, NEW s \in Sweepers, SweepList(s) \/ SweepStep(s), ten' # ten \/ dek' # dek
  PROVE  sweep'[s] # sweep[s]
<1>1. sweep \in [Sweepers -> Sweeps]
  BY DEF PlaneInv, TenantT
<1>2. SweepDestroy(s) \/ SweepStatus(s)
  BY DEF SweepList, SweepStep, SweepFail, rowVars
<1>3. CASE SweepDestroy(s)
  <2>1. sweep[s].pc = "destroy" /\ sweep' = [sweep EXCEPT ![s].pc = "status"]
    BY <1>3 DEF SweepDestroy, Destroyable
  <2>2. sweep'[s].pc = "status"
    BY <1>1, <2>1 DEF Sweeps
  <2> QED
    BY <2>1, <2>2
<1>4. CASE SweepStatus(s)
  <2>1. sweep[s].pc = "status" /\ sweep' = [sweep EXCEPT ![s] = NextTenant(s)]
    BY <1>4 DEF SweepStatus
  <2>2. sweep'[s] = NextTenant(s) /\ NextTenant(s).pc # "status"
    BY <1>1, <2>1 DEF NextTenant, Resting
  <2> QED
    BY <2>1, <2>2
<1> QED
  BY <1>2, <1>3, <1>4

RowsChange == ten' # ten \/ dek' # dek \/ adm' # adm \/ ~(tokens' \subseteq tokens)

\* A request that changes rows of the platform or tokens has a platform token.
LEMMA RowsConfined ==
  ASSUME PlaneInv, NEW w \in Workers, WorkerMove(w), RowsChange
  PROVE  Acts(w) /\ req[w].tok.role = Platform
<1>1. LinkOK(req[w], tx[w], sweep[w], Held(w))
  BY DEF PlaneInv, LinkInv
<1>2. CASE HandleCreateTenant(w) \/ HandlePatchTenant(w) \/ HandleDecommission(w) \/ HandleCancel(w)
  <2>1. /\ req[w].pc = "run" /\ Respond(w)
        /\ req[w].q.op \in {"createTenant", "patchTenant", "decommission", "cancel"}
    BY <1>2 DEF HandleCreateTenant, HandlePatchTenant, HandleDecommission, HandleCancel, Running
  <2> QED
    BY <2>1, PlatformToken, ActsMove DEF Ops
<1>3. CASE HandleSweep(w)
  <2>1. /\ SweepList(w) \/ SweepStep(w)
        /\ req[w].pc \in {"run", "sweep"} /\ req[w].q.op = "sweep"
    BY <1>1, <1>3 DEF HandleSweep, Running, LinkOK
  <2>2. ten' # ten \/ dek' # dek
    BY <1>3 DEF HandleSweep, SameElsewhere, adminVars, RowsChange
  <2>3. sweep'[w] # sweep[w]
    BY <2>1, <2>2, SweepActs DEF Sweepers
  <2> QED
    BY <2>1, <2>3, PlatformToken, ActsMove DEF Ops
<1>4. CASE AdminMove(w)
  <2>1. adm' # adm
    BY <1>4, AdminFrame DEF SameElsewhere, tenantVars, RowsChange
  <2>2. HandleCreateAdmin(w) \/ HandleEnableAdmin(w) \/ WriteAdmin(w)
    BY <1>4, <2>1, Zenon DEF AdminMove, BeginGuard, GuardSnapshot, Guard, GuardDone, GuardLock, Rollback, adminVars
  <2>3. /\ Respond(w) /\ req[w].pc \in {"run", "write"}
        /\ req[w].q.op \in {"createAdmin", "patchAdmin", "deleteAdmin"}
    BY <1>1, <2>2 DEF HandleCreateAdmin, HandleEnableAdmin, WriteAdmin, Running, LinkOK, Disables
  <2> QED
    BY <2>3, PlatformToken, ActsMove DEF Ops
<1>5. CASE PlainMove(w)
  <2>1. ~(tokens' \subseteq tokens)
    BY <1>5, PlainFrame DEF tenantVars, adminVars, RowsChange
  <2>2. MintToken(w)
    BY <1>5, <2>1 DEF PlainMove, Arrive, Gate, SelfCheck, CheckToken, SameElsewhere
  <2>3. Respond(w) /\ req[w].pc = "mint" /\ req[w].q.op = "issueToken"
    BY <1>1, <2>2 DEF MintToken, LinkOK
  <2> QED
    BY <2>3, PlatformToken, ActsMove DEF Ops
<1>6. ~PolicyMove(w)
  BY PolicyFrame DEF tenantVars, adminVars, RowsChange
<1>7. ~HandlerFails(w)
  BY DEF HandlerFails, Rollback, SameElsewhere, tenantVars, RowsChange
<1> QED
  BY <1>2, <1>3, <1>4, <1>5, <1>6, <1>7 DEF WorkerMove, TenantMove

TenantChange(t) == <<pol[t], apps[t], bundles[t]>>' # <<pol[t], apps[t], bundles[t]>>

\* A request that changes what belongs to a tenant may.
LEMMA TenantConfined ==
  ASSUME PlaneInv, NEW w \in Workers, WorkerMove(w), NEW t \in Tenants, TenantChange(t)
  PROVE  /\ Acts(w)
         /\ req[w].tok.role = Platform \/ (req[w].tok.role = TenantAdmin /\ req[w].tok.ten = t)
<1>1. LinkOK(req[w], tx[w], sweep[w], Held(w))
  BY DEF PlaneInv, LinkInv
<1>2. ~(UNCHANGED <<pol, apps, bundles>>)
  BY DEF TenantChange
<1>3. PolicyMove(w)
  <2>1. TenantMove(w) \/ AdminMove(w) \/ PlainMove(w) => UNCHANGED <<pol, apps, bundles>>
    BY TenantFrame, AdminFrame, PlainFrame DEF policyVars
  <2>2. HandlerFails(w) => UNCHANGED <<pol, apps, bundles>>
    BY DEF HandlerFails
  <2> QED
    BY <1>2, <2>1, <2>2 DEF WorkerMove
<1>4. HandleCreateApp(w) \/ HandleCreatePolicy(w) \/ FinishCompile(w)
  BY <1>2, <1>3 DEF PolicyMove, HandleCompile, CompileApps, CompileLock, CompileLoad
<1>5. /\ Respond(w) /\ req[w].pc \in {"run", "activate"}
      /\ req[w].q.op \in {"createApp", "createPolicy", "compile"}
  BY <1>1, <1>4 DEF HandleCreateApp, HandleCreatePolicy, FinishCompile, Running, LinkOK
<1>6. t = req[w].q.t
  <2> SUFFICES ASSUME t # req[w].q.t PROVE pol'[t] = pol[t] /\ apps'[t] = apps[t] /\ bundles'[t] = bundles[t]
    BY DEF TenantChange
  <2>1. PolicyT
    BY DEF PlaneInv
  <2>2. CASE HandleCreateApp(w)
    BY <2>1, <2>2 DEF HandleCreateApp, CreateApp, PolicyT
  <2>3. CASE HandleCreatePolicy(w)
    BY <2>1, <2>3 DEF HandleCreatePolicy, CreatePolicy, PolicyT
  <2>4. CASE FinishCompile(w)
    BY <2>1, <2>4 DEF FinishCompile, CompileActivate, PolicyT
  <2> QED
    BY <1>4, <2>2, <2>3, <2>4
<1> QED
  BY <1>5, <1>6, TenantToken, ActsMove

\* Steps that are no request's: only the cron's sweep and a start of the
\* process change rows or tokens.
LEMMA OtherConfined ==
  ASSUME PlaneInv, (\E tok \in tokens : TokenExpires(tok)) \/ CronSweep \/ Clock \/ Crash
  PROVE  /\ RowsChange => sweep'[Cron] # sweep[Cron] \/ crashes' # crashes
         /\ UNCHANGED <<pol, apps, bundles>>
<1>1. CASE \E tok \in tokens : TokenExpires(tok)
  BY <1>1 DEF TokenExpires, RowsChange, tenantVars, adminVars, policyVars
<1>2. CASE CronSweep
  <2>1. UNCHANGED <<adm, tokens, pol, apps, bundles>> /\ (SweepList(Cron) \/ SweepStep(Cron)) /\ Cron \in Sweepers
    BY <1>2 DEF CronSweep, CronTick, adminVars, policyVars, planeVars, Sweepers
  <2> QED
    BY <2>1, SweepActs DEF RowsChange
<1>3. CASE Clock
  BY <1>3 DEF Clock, Tick, RowsChange, rowVars, adminVars, policyVars, planeVars
<1>4. CASE Crash
  <2>1. crashes \in Nat /\ crashes' = crashes + 1 /\ UNCHANGED <<pol, apps, bundles>>
    BY <1>4, PlaneAssumption DEF Crash, PlaneInv, PlaneT
  <2> QED
    BY <2>1
<1> QED
  BY <1>1, <1>2, <1>3, <1>4

\* Rows of tenants and administrators, keys and tokens change only by requests
\* with a platform token, by the cron and by a start of the process; what
\* belongs to a tenant only by the platform's or the tenant's administrators.
THEOREM PlaneConfined == Spec => Confined
<1>1. ASSUME PlaneInv, Next
      PROVE  /\ RowsChange => \/ \E w \in Workers : Acts(w) /\ req[w].tok.role = Platform
                              \/ sweep'[Cron] # sweep[Cron] \/ crashes' # crashes
             /\ \A t \in Tenants : TenantChange(t) =>
                  \E w \in Workers : /\ Acts(w)
                                     /\ \/ req[w].tok.role = Platform
                                        \/ req[w].tok.role = TenantAdmin /\ req[w].tok.ten = t
  <2>1. CASE \E w \in Workers : WorkerMove(w)
    BY <1>1, <2>1, RowsConfined, TenantConfined
  <2>2. CASE (\E tok \in tokens : TokenExpires(tok)) \/ CronSweep \/ Clock \/ Crash
    <3>1. \A t \in Tenants : ~TenantChange(t)
      BY <1>1, <2>2, OtherConfined DEF TenantChange
    <3> QED
      BY <1>1, <2>2, <3>1, OtherConfined
  <2> QED
    BY <1>1, <2>1, <2>2, StepCases DEF Next
<1>2. PlaneInv /\ [Next]_vars =>
        [/\ ten' # ten \/ dek' # dek \/ adm' # adm \/ ~(tokens' \subseteq tokens) =>
              \/ \E w \in Workers : Acts(w) /\ req[w].tok.role = Platform
              \/ sweep'[Cron] # sweep[Cron] \/ crashes' # crashes
         /\ \A t \in Tenants : <<pol[t], apps[t], bundles[t]>>' # <<pol[t], apps[t], bundles[t]>> =>
              \E w \in Workers : /\ Acts(w)
                                 /\ \/ req[w].tok.role = Platform
                                    \/ req[w].tok.role = TenantAdmin /\ req[w].tok.ten = t]_vars
  BY <1>1 DEF RowsChange, TenantChange
<1> QED
  BY <1>2, Invariance, PTL DEF Spec, Confined
=============================================================================
