----------------------------- MODULE AdminPlane -----------------------------
(***************************************************************************)
(* The administration API of api-server: requests of administrators pass   *)
(* the CSRF check, authentication, the check that a platform               *)
(* administrator is still active, and authorization, and then run their    *)
(* handler, which calls the services of TenantLife, PlatformAdmins and     *)
(* PolicyCompile.  Requests are served concurrently, the sweep's cron runs *)
(* beside them, and the process may crash and start again: what is in      *)
(* memory is lost, open transactions are rolled back.                      *)
(*                                                                         *)
(* A step is one database transaction or one statement of it; checks that  *)
(* read nothing shared are part of the step after them.  A request that is *)
(* refused before it has read anything is no step.  A scenario says what   *)
(* the installation has at the start and which operations are requested,   *)
(* so that an instance mixes the operations that share state.              *)
(***************************************************************************)
EXTENDS TenantLife, PlatformAdmins, PolicyCompile

CONSTANTS
  Scenarios,     \* what there is at the start, and the operations and number of requests
  PolicyList,    \* Policies as a sequence: a request names one by its index
  MaxCrashes     \* bound: crashes of api-server

Platform == "platform_admin"
TenantAdmin == "tenant_admin"
Auditor == "auditor"
NoTenant == "no tenant"
Scopes == Tenants \cup {NoTenant}
Ops == {"createTenant", "patchTenant", "decommission", "cancel", "sweep", "createAdmin", "patchAdmin",
        "deleteAdmin", "issueToken", "createApp", "createPolicy", "compile"}
Token == [role : {Platform, TenantAdmin, Auditor}, sub : Subjects, ten : Scopes]

ASSUME PlaneAssumption ==
  /\ MaxCrashes \in Nat
  /\ \A sc \in Scenarios :
       /\ sc.ops \subseteq Ops
       /\ sc.keys \subseteq sc.tenants /\ sc.tenants \subseteq Tenants
       /\ \A i \in DOMAIN sc.admins : i \in Ids /\ sc.admins[i] \in [sub : Subjects, st : {"active", "disabled"}]
       /\ sc.boot \in BOOLEAN /\ sc.tokens \subseteq Token
       /\ sc.requests \in Nat
  /\ NoTenant \notin Tenants
  /\ Policies = {PolicyList[i] : i \in DOMAIN PolicyList}

VARIABLES
  scene,     \* the scenario
  tokens,    \* admin tokens issued and not expired
  req,       \* the request each worker serves
  served,    \* counter of a bound: requests
  crashes,   \* counter of a bound: crashes
  alive,     \* history: subjects that were active at some time since a worker's request arrived
  promised   \* history: how many policies a tenant had when a request came that compiled them

planeVars == <<scene, tokens, req, served, crashes, promised>>
vars == <<tenantVars, adminVars, policyVars, planeVars, alive>>

-----------------------------------------------------------------------------
(* Routes.                                                                 *)

\* Where a route lives: the collection of tenants, a tenant, something of a
\* tenant, or the platform.
Area(op) ==
  CASE op = "createTenant" -> "tenants"
    [] op = "patchTenant" -> "tenant"
    [] op \in {"createApp", "createPolicy", "compile"} -> "inTenant"
    [] OTHER -> "platform"

\* The fields a request has: t the tenant, s a status, a subject or a role,
\* n a number: grace, id of an administrator, app or index of a policy.
Request(op) ==
  [op : {op},
   t : IF Area(op) \in {"tenant", "inTenant"} \/ op \in {"createTenant", "decommission", "cancel"}
       THEN Tenants ELSE IF op = "issueToken" THEN scene.tenants \cup {NoTenant} ELSE {NoTenant},
   s : CASE op = "createTenant" -> {"", "offboarding"}
         [] op = "patchTenant" -> Statuses
         [] op \in {"createAdmin", "issueToken"} -> Subjects
         [] op = "patchAdmin" -> {"active", "disabled"}
         [] OTHER -> {""},
   role : IF op = "issueToken" THEN {Platform, TenantAdmin, Auditor} ELSE {""},
   n : CASE op = "decommission" -> {0, 1}
         [] op \in {"patchAdmin", "deleteAdmin"} -> {i \in Ids : adm[i].st # "free"}
         [] op = "createApp" -> Apps
         [] op = "createPolicy" -> DOMAIN PolicyList
         [] OTHER -> {0}]

Anonymous == [role |-> "", sub |-> BootSubject, ten |-> NoTenant]
NoRequest == [op |-> "", t |-> NoTenant, s |-> "", role |-> "", n |-> 0]
Idle == [pc |-> "idle", tok |-> Anonymous, q |-> NoRequest, forged |-> FALSE, need |-> 0]

TypeOK ==
  /\ TenantTypeOK /\ AdminTypeOK /\ PolicyTypeOK
  /\ tokens \subseteq Token
  /\ served \in 0 .. scene.requests /\ crashes \in 0 .. MaxCrashes
  /\ \A w \in Workers :
       /\ req[w].pc \in {"idle", "gate", "run", "sweep", "self", "guard", "write", "mint",
                         "lock", "load", "activate"}
       /\ tx[w].open <=> req[w].pc \in {"guard", "write"}
       /\ req[w].pc = "sweep" <=> sweep[w].pc # "off"
       /\ req[w].pc \in {"load", "activate"} <=> \E t \in Tenants : lock[t] = w

-----------------------------------------------------------------------------
(* The checks in front of every handler.                                   *)

\* csrf.Middleware, for a method that writes: the cookie repeated in the
\* header, and an origin that is allowed.
CsrfPasses(cookieIsHeader, goodOrigin) == cookieIsHeader /\ goodOrigin

\* authenticate: bearer token or session cookie, one verification for both.
Authenticates(tok) == tok \in tokens

\* Mutant: a tenant's own row is like the rest of the tenant.
AuthorizeMut(tok, q) ==
  CASE Area(q.op) \in {"tenant", "inTenant"} ->
         tok.role = Platform \/ (tok.role = TenantAdmin /\ tok.ten = q.t)
    [] OTHER -> tok.role = Platform

\* authorize: all requests here write.
Authorize(tok, q) ==
  CASE Area(q.op) = "inTenant" -> tok.role = Platform \/ (tok.role = TenantAdmin /\ tok.ten = q.t)
    [] OTHER -> tok.role = Platform

\* Mutant: a platform administrator is looked up when the token is issued only.
GateOpenMut(tok) == TRUE

\* Guard.Middleware: the subject of a platform token must be active.
GateOpen(tok) == AdminActive(tok.sub)

\* A page of another site can have the browser send the cookie, but cannot
\* read it and cannot choose the origin.
Arrive(w) ==
  /\ req[w].pc = "idle"
  /\ served < scene.requests
  /\ \E op \in scene.ops : \E q \in Request(op) : \E tok \in tokens, forged \in BOOLEAN :
       /\ CsrfPasses(~forged, ~forged)
       /\ Authenticates(tok)
       /\ tok.role = Platform \/ Authorize(tok, q)
       /\ req' = [req EXCEPT ![w] =
            [pc |-> IF tok.role = Platform THEN "gate" ELSE "run", tok |-> tok, q |-> q, forged |-> forged,
             need |-> IF op = "compile" THEN Len(pol[q.t]) ELSE 0]]
  /\ served' = served + 1
  /\ UNCHANGED <<tenantVars, adminVars, policyVars, scene, tokens, crashes, promised>>

Goto(w, pc) == req' = [req EXCEPT ![w].pc = pc]
Respond(w) == req' = [req EXCEPT ![w] = Idle]
SameElsewhere == UNCHANGED <<scene, tokens, served, crashes, promised>>

\* The look-up, which may also fail: either way the request is refused.
Gate(w) ==
  /\ req[w].pc = "gate"
  /\ \/ GateOpen(req[w].tok) /\ Authorize(req[w].tok, req[w].q) /\ Goto(w, "run")
     \/ Respond(w)
  /\ SameElsewhere
  /\ UNCHANGED <<tenantVars, adminVars, policyVars>>

Running(w, op) == req[w].pc = "run" /\ req[w].q.op = op

\* A database call fails, or the client is gone and its context cancelled:
\* the transaction is rolled back and the handler answers with an error.
HandlerFails(w) ==
  /\ req[w].pc \notin {"idle", "gate", "sweep"}
  /\ Rollback(w)
  /\ lock' = [t \in Tenants |-> IF lock[t] = w THEN Free ELSE lock[t]]
  /\ comp' = [comp EXCEPT ![w] = NoComp]
  /\ Respond(w) /\ SameElsewhere
  /\ UNCHANGED <<tenantVars, pol, apps, bundles, active>>

-----------------------------------------------------------------------------
(* Handlers: tenants.                                                      *)

HandleCreateTenant(w) ==
  /\ Running(w, "createTenant")
  /\ CreateTenant(req[w].q.t, req[w].q.s)
  /\ Respond(w) /\ SameElsewhere
  /\ UNCHANGED <<now, sweep, fails, adminVars, policyVars>>

HandlePatchTenant(w) ==
  /\ Running(w, "patchTenant")
  /\ PatchTenant(req[w].q.t, req[w].q.s)
  /\ Respond(w) /\ SameElsewhere
  /\ UNCHANGED <<now, sweep, fails, adminVars, policyVars>>

\* grace_hours, or the default when it is absent or not positive.
Grace(n) == IF n > 0 THEN n ELSE DefaultGrace

HandleDecommission(w) ==
  /\ Running(w, "decommission")
  /\ Decommission(req[w].q.t, Grace(req[w].q.n))
  /\ Respond(w) /\ SameElsewhere
  /\ UNCHANGED <<now, sweep, fails, adminVars, policyVars>>

HandleCancel(w) ==
  /\ Running(w, "cancel")
  /\ CancelDecommission(req[w].q.t)
  /\ Respond(w) /\ SameElsewhere
  /\ UNCHANGED <<now, sweep, fails, adminVars, policyVars>>

\* sweepDecommissions runs the sweep within the request.
HandleSweep(w) ==
  /\ \/ Running(w, "sweep") /\ SweepList(w)
     \/ req[w].pc = "sweep" /\ SweepStep(w)
  /\ IF sweep'[w].pc = "off" THEN Respond(w) ELSE Goto(w, "sweep")
  /\ SameElsewhere
  /\ UNCHANGED <<adminVars, policyVars>>

-----------------------------------------------------------------------------
(* Handlers: platform administrators and their tokens.                     *)

HandleCreateAdmin(w) ==
  /\ Running(w, "createAdmin")
  /\ CanCreateAdmin
  /\ CreateAdmin(req[w].q.s)
  /\ Respond(w) /\ SameElsewhere
  /\ UNCHANGED <<tenantVars, policyVars>>

HandleEnableAdmin(w) ==
  /\ Running(w, "patchAdmin") /\ req[w].q.s = "active"
  /\ EnableAdmin(w, req[w].q.n)
  /\ Respond(w) /\ SameElsewhere
  /\ UNCHANGED <<tenantVars, policyVars>>

IsSelf(w) == req[w].q.n \in Rows /\ adm[req[w].q.n].sub = req[w].tok.sub

Disables(q) == q.op = "deleteAdmin" \/ (q.op = "patchAdmin" /\ q.s = "disabled")

\* updatePlatformAdmin and deletePlatformAdmin read the row first: nobody
\* disables or deletes himself, and DELETE needs the row.
SelfCheck(w) ==
  /\ req[w].pc = "run" /\ Disables(req[w].q)
  /\ IF IsSelf(w) \/ (req[w].q.op = "deleteAdmin" /\ req[w].q.n \notin Rows)
     THEN Respond(w) ELSE Goto(w, "self")
  /\ SameElsewhere
  /\ UNCHANGED <<tenantVars, adminVars, policyVars>>

BeginGuard(w) ==
  /\ req[w].pc = "self"
  /\ GuardSnapshot(w)
  /\ Goto(w, "guard") /\ SameElsewhere
  /\ UNCHANGED <<tenantVars, policyVars>>

Guard(w) ==
  /\ req[w].pc = "guard" /\ tx[w].todo # {}
  /\ \/ GuardLock(w) /\ UNCHANGED req
     \/ Deadlocked(w) /\ Rollback(w) /\ Respond(w)
  /\ SameElsewhere
  /\ UNCHANGED <<tenantVars, policyVars>>

GuardDone(w) ==
  /\ req[w].pc = "guard" /\ tx[w].todo = {}
  /\ IF GuardRefuses(w, req[w].q.n) THEN Rollback(w) /\ Respond(w)
                                    ELSE UNCHANGED adminVars /\ Goto(w, "write")
  /\ SameElsewhere
  /\ UNCHANGED <<tenantVars, policyVars>>

WriteAdmin(w) ==
  /\ req[w].pc = "write"
  /\ GuardedWrite(w, req[w].q.n, IF req[w].q.op = "deleteAdmin" THEN "gone" ELSE "disabled")
  /\ Respond(w) /\ SameElsewhere
  /\ UNCHANGED <<tenantVars, policyVars>>

\* issueAdminToken: a tenant role needs a tenant, the platform role none and
\* an active subject.
TokenAllowed(q) ==
  \/ q.role \in {TenantAdmin, Auditor} /\ q.t # NoTenant
  \/ q.role = Platform /\ q.t = NoTenant /\ IsActive(q.s)

CheckToken(w) ==
  /\ Running(w, "issueToken")
  /\ IF TokenAllowed(req[w].q) THEN Goto(w, "mint") ELSE Respond(w)
  /\ SameElsewhere
  /\ UNCHANGED <<tenantVars, adminVars, policyVars>>

\* IssueAdminToken signs; it checks role and scope again, both of which hold.
MintToken(w) ==
  /\ req[w].pc = "mint"
  /\ tokens' = tokens \cup {[role |-> req[w].q.role, sub |-> req[w].q.s, ten |-> req[w].q.t]}
  /\ Respond(w)
  /\ UNCHANGED <<tenantVars, adminVars, policyVars, scene, served, crashes, promised>>

\* At most MaxAdminTTL after it was issued.
TokenExpires(tok) ==
  /\ tokens' = tokens \ {tok}
  /\ "issueToken" \in scene.ops
  /\ UNCHANGED <<tenantVars, adminVars, policyVars, scene, req, served, crashes, promised>>

-----------------------------------------------------------------------------
(* Handlers: apps and policies.                                            *)

HandleCreateApp(w) ==
  /\ Running(w, "createApp")
  /\ CreateApp(req[w].q.t, req[w].q.n)
  /\ Respond(w) /\ SameElsewhere
  /\ UNCHANGED <<tenantVars, adminVars>>

HandleCreatePolicy(w) ==
  /\ Running(w, "createPolicy")
  /\ CreatePolicy(req[w].q.t, PolicyList[req[w].q.n])
  /\ Respond(w) /\ SameElsewhere
  /\ UNCHANGED <<tenantVars, adminVars>>

HandleCompile(w) ==
  /\ LET t == req[w].q.t IN
       \/ Running(w, "compile") /\ CompileApps(w, t) /\ Goto(w, "lock")
       \/ req[w].pc = "lock" /\ CompileLock(w, t) /\ Goto(w, "load")
       \/ req[w].pc = "load" /\ CompileLoad(w, t) /\ Goto(w, "activate")
  /\ SameElsewhere
  /\ UNCHANGED <<tenantVars, adminVars>>

FinishCompile(w) ==
  /\ req[w].pc = "activate"
  /\ CompileActivate(w, req[w].q.t)
  /\ promised' = IF CompileFails(w) \/ req[w].need <= promised[req[w].q.t] THEN promised
                 ELSE [promised EXCEPT ![req[w].q.t] = req[w].need]
  /\ Respond(w)
  /\ UNCHANGED <<tenantVars, adminVars, scene, tokens, served, crashes>>

-----------------------------------------------------------------------------
(* The process.                                                            *)

\* SASE_BOOTSTRAP_PLATFORM_ADMIN may be set.
BootTokens == IF scene.boot THEN {[role |-> Platform, sub |-> BootSubject, ten |-> NoTenant]} ELSE {}

\* run of api-server: a token for the bootstrap subject is issued at every start.
Init ==
  /\ scene \in Scenarios
  /\ TenantInit(scene.tenants, scene.keys)
  /\ AdminInit(scene.admins)
  /\ PolicyInit
  /\ tokens = scene.tokens \cup BootTokens
  /\ req = [w \in Workers |-> Idle]
  /\ served = 0 /\ crashes = 0
  /\ alive = [w \in Workers |-> {}]
  /\ promised = [t \in Tenants |-> 0]

Crash ==
  /\ crashes < MaxCrashes
  /\ crashes' = crashes + 1
  /\ req' = [w \in Workers |-> Idle]
  /\ sweep' = [s \in Sweepers |-> Resting]
  /\ tx' = [w \in Workers |-> NoTx]
  /\ lock' = [t \in Tenants |-> Free]
  /\ comp' = [w \in Workers |-> NoComp]
  /\ tokens' = tokens \cup BootTokens
  /\ UNCHANGED <<now, rowVars, fails, adm, pol, apps, bundles, active, scene, served, promised>>

CronSweep ==
  /\ CronTick \/ SweepStep(Cron)
  /\ UNCHANGED <<adminVars, policyVars, planeVars>>

Clock == Tick /\ UNCHANGED <<adminVars, policyVars, planeVars>>

Handle(w) ==
  \/ HandleCreateTenant(w) \/ HandlePatchTenant(w) \/ HandleDecommission(w)
  \/ HandleCancel(w) \/ HandleSweep(w)
  \/ HandleCreateAdmin(w) \/ HandleEnableAdmin(w) \/ SelfCheck(w) \/ BeginGuard(w)
  \/ Guard(w) \/ GuardDone(w) \/ WriteAdmin(w) \/ CheckToken(w) \/ MintToken(w)
  \/ HandleCreateApp(w) \/ HandleCreatePolicy(w) \/ HandleCompile(w) \/ FinishCompile(w)
  \/ HandlerFails(w)

Step ==
  \/ \E w \in Workers : Arrive(w) \/ Gate(w) \/ Handle(w)
  \/ \E tok \in tokens : TokenExpires(tok)
  \/ CronSweep
  \/ Clock
  \/ Crash

ActiveSubjects == {s \in Subjects : AdminActive(s)}

Remember == alive' = [w \in Workers |-> IF req'[w].pc = "idle" THEN {} ELSE alive[w] \cup ActiveSubjects']

Next == Step /\ Remember

\* The cron's ticker fires again and again and its calls return.
Spec == Init /\ [][Next]_vars /\ WF_vars(CronSweep /\ Remember)

-----------------------------------------------------------------------------
(* Properties.                                                             *)

\* RunDecommissionSweep destroys the key of no tenant before the earliest
\* deadline that tenant was given has passed, however decommissioning,
\* cancellation, status changes, sweeps and crashes interleave.
GraceRespected == \A t \in Tenants : dek[t] = "destroyed" => firstDue[t] # Null /\ firstDue[t] < now

\* A request runs the handler of a platform operation only if its subject
\* was an active administrator at some time after the request arrived: a
\* token issued earlier, or while its subject was being disabled, is
\* worth nothing to a later request.
RevokedAdminInert ==
  \A w \in Workers :
    req[w].pc \notin {"idle", "gate"} /\ req[w].tok.role = Platform => req[w].tok.sub \in alive[w]

\* Once a request to compile has succeeded, the active bundle holds every
\* policy that existed when the request arrived, whatever other
\* compilations run at the same time.
CompileReflects ==
  \A t \in Tenants : \A i \in 1 .. promised[t] : \E k \in DOMAIN ActiveRules(t) : ActiveRules(t)[k] = pol[t][i]

\* What a PoP decides with the active bundle is the effect of a matching
\* rule of the least priority number and deny without one; no two rules
\* with the same condition contradict each other, and every rule is about
\* an app that is registered.
BundleSound ==
  \A t \in Tenants :
    LET rules == ActiveRules(t)
    IN  /\ \A k \in DOMAIN rules : rules[k].res \in apps[t]
        /\ ~Conflicting(rules)
        /\ \A c \in Claims, a \in Apps :
             LET m == {k \in DOMAIN rules : RuleMatch(rules[k], c, a, 1)}
             IN  IF m = {} THEN Decide(rules, c, a, 1) = Deny
                 ELSE \E k \in m : /\ rules[k].eff = Decide(rules, c, a, 1)
                                   /\ \A j \in m : rules[k].prio <= rules[j].prio

\* A worker takes a step of a genuine request; the sweep stays at one step of
\* its handler for several tenants.
Acts(w) == (req'[w] # req[w] \/ sweep'[w] # sweep[w]) /\ ~req[w].forged

\* Only requests with a platform token change a tenant's row or key, the table
\* of administrators or the tokens in use, and only those and administrators
\* of the tenant itself change its apps, policies and bundles; auditors
\* change nothing.
Confined ==
  [][/\ ten' # ten \/ dek' # dek \/ adm' # adm \/ ~(tokens' \subseteq tokens) =>
          \/ \E w \in Workers : Acts(w) /\ req[w].tok.role = Platform
          \/ sweep'[Cron] # sweep[Cron] \/ crashes' # crashes
     /\ \A t \in Tenants : <<pol[t], apps[t], bundles[t]>>' # <<pol[t], apps[t], bundles[t]>> =>
          \E w \in Workers : /\ Acts(w)
                             /\ \/ req[w].tok.role = Platform
                                \/ req[w].tok.role = TenantAdmin /\ req[w].tok.ten = t]_vars

\* guardLastActive: a transaction that disables or deletes a row its guard
\* found active leaves another administrator active.
GuardSound ==
  [][\A w \in Workers : adm' # adm /\ req'[w] # req[w] /\ req[w].q.n \in tx[w].locked => ActiveIds' # {}]_vars

\* A tenant that is due is swept, or saved by an administrator, as long as
\* the cron runs and the database does not fail for ever.
SweepCompletes == \A t \in Tenants : Due(t) ~> ~Due(t)

\* The comment of guardLastActive: concurrent requests do not leave the
\* platform without an active administrator.
LastAdminKept == [][ActiveIds # {} => ActiveIds' # {}]_vars

\* The lifecycle: the key is kept until the tenant is decommissioned, so a
\* tenant in service can read its data.
ActiveKeyLive == \A t \in Tenants : ten[t].status = "active" => dek[t] # "destroyed"
=============================================================================
