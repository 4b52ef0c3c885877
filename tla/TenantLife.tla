----------------------------- MODULE TenantLife -----------------------------
(***************************************************************************)
(* The life of a tenant and of its data key: tenant rows                   *)
(* (internal/tenant), the wrapped key of each tenant (internal/secret) and *)
(* the sweep that shreds the keys of tenants whose period of grace is over *)
(* (internal/platform, RunDecommissionSweep), which runs from the cron of  *)
(* cmd/api-server and from an administrator's request.                     *)
(*                                                                         *)
(* The operations are the transactions of the services; AdminPlane says    *)
(* which request runs them.  Names, plans and quotas of a tenant are left  *)
(* out: nothing here reads them.                                           *)
(***************************************************************************)
EXTENDS AdminBase, Integers, Sequences, FiniteSets, SequencesExt

CONSTANTS
  MaxTime,       \* bound: the clock
  DefaultGrace,  \* defaultDecommissionGrace
  MaxGrace,      \* maxDecommissionGrace
  MaxFails       \* bound: database calls of a sweep that fail

Cron == "cron"

ASSUME TenantAssumption ==
  /\ MaxTime \in Nat /\ MaxFails \in Nat
  /\ DefaultGrace \in 1 .. MaxGrace /\ MaxGrace \in Nat
  /\ IsFiniteSet(Tenants)
  /\ Cron \notin Workers

Sweepers == Workers \cup {Cron}
Statuses == {"active", "suspended", "offboarding", "decommissioned"}
Null == 0 - 1

VARIABLES
  now,       \* the database's clock
  ten,       \* rows of tenants: status and decommission_at
  dek,       \* rows of tenant_keys
  sweep,     \* RunDecommissionSweep of each sweeper: where it is, whom it has still to do
  fails,     \* counter of a bound
  firstDue   \* history: the earliest deadline a tenant was ever given

tenantVars == <<now, ten, dek, sweep, fails, firstDue>>
rowVars == <<ten, dek, firstDue>>

TenantTypeOK ==
  /\ now \in 0 .. MaxTime
  /\ ten \in [Tenants -> [status : Statuses \cup {"none"}, due : {Null} \cup 0 .. MaxTime + MaxGrace]]
  /\ dek \in [Tenants -> {"none", "live", "destroyed"}]
  /\ \A s \in Sweepers : /\ sweep[s].pc \in {"off", "destroy", "status"}
                         /\ \A i \in DOMAIN sweep[s].todo : sweep[s].todo[i] \in Tenants
  /\ fails \in 0 .. MaxFails
  /\ firstDue \in [Tenants -> {Null} \cup 0 .. MaxTime + MaxGrace]

Resting == [pc |-> "off", todo |-> <<>>]

\* An installation with tenants T; those older than the key store, outside K, have no key.
TenantInit(T, K) ==
  /\ now = 0
  /\ ten = [t \in Tenants |-> [status |-> IF t \in T THEN "active" ELSE "none", due |-> Null]]
  /\ dek = [t \in Tenants |-> IF t \in K THEN "live" ELSE "none"]
  /\ sweep = [s \in Sweepers |-> Resting]
  /\ fails = 0
  /\ firstDue = [t \in Tenants |-> Null]

\* The clock is read only against a deadline.
Tick ==
  /\ now < MaxTime
  /\ \E t \in Tenants : ten[t].due >= now
  /\ now' = now + 1
  /\ UNCHANGED <<rowVars, sweep, fails>>

-----------------------------------------------------------------------------
(* Transactions on a tenant's row.  One that finds no row to change fails  *)
(* and leaves everything as it is.                                         *)

Exists(t) == ten[t].status # "none"

\* CreateInTx: ON CONFLICT DO NOTHING.
KeyAfterCreate(t) == IF dek[t] = "none" THEN "live" ELSE dek[t]

\* Create inserts the row and the key in one transaction; an absent status
\* is active, any other is taken as it is.
CreateTenant(t, s) ==
  IF Exists(t) THEN UNCHANGED rowVars
  ELSE /\ ten' = [ten EXCEPT ![t].status = IF s = "" THEN "active" ELSE s]
       /\ dek' = [dek EXCEPT ![t] = KeyAfterCreate(t)]
       /\ UNCHANGED firstDue

\* Update with a status: the deadline is not touched.
PatchTenant(t, s) ==
  IF Exists(t) /\ s \in Statuses
  THEN /\ ten' = [ten EXCEPT ![t].status = s]
       /\ UNCHANGED <<dek, firstDue>>
  ELSE UNCHANGED rowVars

Earliest(a, b) == IF a = Null \/ b < a THEN b ELSE a

Decommission(t, grace) ==
  IF Exists(t) /\ grace > 0 /\ grace <= MaxGrace
  THEN /\ ten' = [ten EXCEPT ![t] = [status |-> "offboarding", due |-> now + grace]]
       /\ firstDue' = [firstDue EXCEPT ![t] = Earliest(@, now + grace)]
       /\ UNCHANGED dek
  ELSE UNCHANGED rowVars

CancelDecommission(t) ==
  IF ten[t].status = "offboarding"
  THEN /\ ten' = [ten EXCEPT ![t] = [status |-> "active", due |-> Null]]
       /\ UNCHANGED <<dek, firstDue>>
  ELSE UNCHANGED rowVars

-----------------------------------------------------------------------------
(* The sweep.                                                              *)

\* Mutant: a tenant is due from the moment its deadline is set.
DueMut(t) == ten[t].status = "offboarding" /\ ten[t].due # Null

Due(t) == ten[t].status = "offboarding" /\ ten[t].due # Null /\ ten[t].due < now

\* ListDecommissionsDue: the tenants that are due in the order of their
\* deadlines; the query says nothing of tenants with the same deadline.
ListDue ==
  {l \in SetToSeqs({t \in Tenants : Due(t)}) :
     \A i, j \in DOMAIN l : i < j => ten[l[i]].due <= ten[l[j]].due}

\* One statement; nothing is locked for the rest of the sweep.
SweepList(s) ==
  /\ sweep[s].pc = "off"
  /\ \E l \in ListDue :
       sweep' = [sweep EXCEPT ![s] = IF l = <<>> THEN Resting ELSE [pc |-> "destroy", todo |-> l]]
  /\ UNCHANGED <<now, rowVars, fails>>

NextTenant(s) ==
  IF Len(sweep[s].todo) = 1 THEN Resting ELSE [pc |-> "destroy", todo |-> Tail(sweep[s].todo)]

\* Mutant: a key that is destroyed already is an error.
DestroyableMut(t) == dek[t] = "live"

\* DestroyTenantKey accepts a key destroyed before, and the sweep's adapter a
\* tenant without a key.
Destroyable(t) == TRUE

SweepDestroy(s) ==
  /\ sweep[s].pc = "destroy"
  /\ LET t == Head(sweep[s].todo) IN
       IF Destroyable(t)
       THEN /\ dek' = [dek EXCEPT ![t] = IF @ = "none" THEN @ ELSE "destroyed"]
            /\ sweep' = [sweep EXCEPT ![s].pc = "status"]
       ELSE /\ sweep' = [sweep EXCEPT ![s] = NextTenant(s)]
            /\ UNCHANGED dek
  /\ UNCHANGED <<now, ten, firstDue, fails>>

\* SetStatus is Update with the status: it does not look at the current one.
SweepStatus(s) ==
  /\ sweep[s].pc = "status"
  /\ PatchTenant(Head(sweep[s].todo), "decommissioned")
  /\ sweep' = [sweep EXCEPT ![s] = NextTenant(s)]
  /\ UNCHANGED <<now, fails>>

\* Either call fails: the tenant is skipped.
SweepFail(s) ==
  /\ sweep[s].pc # "off"
  /\ fails < MaxFails
  /\ fails' = fails + 1
  /\ sweep' = [sweep EXCEPT ![s] = NextTenant(s)]
  /\ UNCHANGED <<now, rowVars>>

SweepStep(s) == SweepDestroy(s) \/ SweepStatus(s) \/ SweepFail(s)

\* runSweepCron: at start and at every tick, one sweep at a time.
CronTick == SweepList(Cron)
=============================================================================
