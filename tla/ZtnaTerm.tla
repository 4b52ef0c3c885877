------------------------------ MODULE ZtnaTerm ------------------------------
(***************************************************************************)
(* The ZTNA terminator of a PoP (internal/pop/ztnaterm): sessions that     *)
(* agents establish by a handshake (internal/tunhandshake) and that the    *)
(* data plane looks up by source address (bySrc) and, for return traffic   *)
(* and the transparent proxy, by inner address (byInnerIP).                *)
(*                                                                         *)
(* The goroutines are the handshake handlers, the data-plane workers       *)
(* (datagrams and proxied connections), the return pump, the callback of   *)
(* the revocation stream, and the expiry sweep.  Every critical section of *)
(* Terminator.mu, termSession.mu and the stores' locks is one step.        *)
(* Packets that are dropped without touching any state (unknown source,    *)
(* failed decryption, parse error) are not steps.  Cryptography is         *)
(* external: a datagram that opens under a session's key was sent by that  *)
(* session's agent.                                                        *)
(***************************************************************************)
EXTENDS Integers, FiniteSets

CONSTANTS
  Addrs,       \* UDP source addresses of agents
  Jtis,        \* session credentials
  Tenants,     \* tenants, of certificates and of credentials
  TenantOf,    \* claims.TenantID
  Exp,         \* claims.ExpireAt
  IPs,         \* inner source addresses
  Apps,        \* resources the AppResolver knows
  ConnectorApps, \* those marked @connector
  NoApp,       \* a destination no rule resolves
  Handshakes,  \* handshake handlers
  Workers,     \* data-plane goroutines
  SessionCap,  \* Terminator.cap
  FlowTTL,     \* flowCacheTTL
  MaxSessions, \* bound: sessions established
  MaxTime,     \* bound: the clock
  MaxSets,     \* bound: updates of the revocation list
  MaxPolicies  \* bound: policy updates

Ids == 1 .. MaxSessions
None == 0
Time == 0 .. MaxTime

ASSUME CredAssumption == /\ TenantOf \in [Jtis -> Tenants]
                         /\ Exp \in [Jtis -> Time]
ASSUME AppsAssumption == ConnectorApps \subseteq Apps /\ NoApp \notin Apps
ASSUME TimeAssumption == /\ SessionCap \in Nat \ {0}
                         /\ FlowTTL \in Nat \ {0}
                         /\ MaxTime \in Nat
                         /\ MaxSessions \in Nat /\ MaxSets \in Nat /\ MaxPolicies \in Nat

VARIABLES
  now,        \* the wall clock
  n,          \* sessions created so far
  claims,     \* per session: source address, credential, deadline
  innerIPs,   \* termSession.innerIPs
  flows,      \* termSession.flows: cached verdicts
  bySrc, byInnerIP,  \* the two indexes of the Terminator
  revoked,    \* RevocationStore
  policy,     \* BundleStore: the resources the bundle allows
  hs,         \* handshakes past VerifyCred and before OnEstablished
  callback,   \* the revocation callback: idle, or set, or evicting victims
  sweep,      \* victims of the running sweep
  wk,         \* the workers' program counters and locals
  sets, policies, \* counters of the bounds
  enforced,   \* history: revoked credentials whose callback has returned
  deniedAt,   \* history: when a denied resource became denied
  lateIndex,  \* history: inner addresses indexed for a session already out of the table
  leaked      \* history: a return packet went to a torn-down session over another entry

tableVars == <<n, claims, innerIPs, flows, bySrc, byInnerIP>>
revVars   == <<revoked, callback, sets, enforced>>
polVars   == <<policy, policies, deniedAt>>
backVars  == <<lateIndex, leaked>>
vars      == <<now, tableVars, revVars, polVars, hs, sweep, wk, backVars>>

Idle == [pc |-> "idle"]
At(w, pc) == wk[w].pc = pc

Init ==
  /\ now = 0
  /\ n = 0
  /\ claims = [k \in {} |-> None]
  /\ innerIPs = [k \in Ids |-> {}]
  /\ flows = [k \in Ids |-> [a \in {} |-> None]]
  /\ bySrc = [a \in Addrs |-> None]
  /\ byInnerIP = [i \in IPs |-> None]
  /\ revoked = {}
  /\ policy = Apps
  /\ hs = [h \in Handshakes |-> {}]
  /\ callback = [pc |-> "idle", victims |-> {}]
  /\ sweep = {}
  /\ wk = [w \in Workers |-> Idle]
  /\ sets = 0
  /\ policies = 0
  /\ enforced = {}
  /\ deniedAt = [a \in Apps |-> None]
  /\ lateIndex = {}
  /\ leaked = FALSE

Live == {k \in 1 .. n : bySrc[claims[k].src] = k}
Expired(k) == now >= claims[k].deadline

\* dropInnerIPsLocked: remove the entries that still point to the session.
Unindexed(k) == [i \in IPs |-> IF i \in innerIPs[k] /\ byInnerIP[i] = k THEN None ELSE byInnerIP[i]]

\* Mutant: whatever session is at the address is removed.
EvictMut(k) ==
  /\ bySrc' = [bySrc EXCEPT ![claims[k].src] = None]
  /\ byInnerIP' = Unindexed(k)

\* evictSession: nothing happens when the address already belongs to a newer
\* session.
Evict(k) ==
  IF k \in Live
  THEN /\ bySrc' = [bySrc EXCEPT ![claims[k].src] = None]
       /\ byInnerIP' = Unindexed(k)
  ELSE UNCHANGED <<bySrc, byInnerIP>>

-----------------------------------------------------------------------------
(* The environment: time passes, and the policy stream installs bundles. *)

Tick ==
  /\ now < MaxTime
  /\ now' = now + 1
  /\ UNCHANGED <<tableVars, revVars, polVars, hs, sweep, wk, backVars>>

SetBundle(p) ==
  /\ policies < MaxPolicies /\ p # policy
  /\ policies' = policies + 1
  /\ policy' = p
  /\ deniedAt' = [a \in Apps |-> IF a \in policy \ p THEN now ELSE deniedAt[a]]
  /\ UNCHANGED <<now, tableVars, revVars, hs, sweep, wk, backVars>>

-----------------------------------------------------------------------------
(* Handshakes. *)

\* VerifyCred, called by tunhandshake with the tenant of the certificate.
VerifyCred(h, a, t, j) ==
  /\ hs[h] = {}
  /\ now < Exp[j]
  /\ TenantOf[j] = t
  /\ j \notin revoked
  /\ hs' = [hs EXCEPT ![h] = {[src |-> a, jti |-> j]}]
  /\ UNCHANGED <<now, tableVars, revVars, polVars, sweep, wk, backVars>>

\* computeDeadline
Deadline(j) == IF Exp[j] < now + SessionCap THEN Exp[j] ELSE now + SessionCap

\* OnEstablished: enter the session, replacing an older one of the address.
OnEstablished(h) ==
  /\ n < MaxSessions
  /\ \E e \in hs[h] :
       /\ claims' = [k \in 1 .. n + 1 |->
            IF k <= n THEN claims[k]
            ELSE [src |-> e.src, jti |-> e.jti, deadline |-> Deadline(e.jti)]]
       /\ byInnerIP' = IF bySrc[e.src] = None THEN byInnerIP ELSE Unindexed(bySrc[e.src])
       /\ bySrc' = [bySrc EXCEPT ![e.src] = n + 1]
  /\ n' = n + 1
  /\ hs' = [hs EXCEPT ![h] = {}]
  /\ UNCHANGED <<now, innerIPs, flows, revVars, polVars, sweep, wk, backVars>>

-----------------------------------------------------------------------------
(* Revocation: the stream delivers full lists; its callback replaces the    *)
(* store and then tears the revoked sessions down.                          *)

\* RevocationStore.Set.  History: a credential that leaves the list is no
\* longer enforced, and a packet in progress no longer counts as late.
SetRevoked(s) ==
  /\ callback.pc = "idle"
  /\ sets < MaxSets /\ s # revoked
  /\ sets' = sets + 1
  /\ revoked' = s
  /\ callback' = [pc |-> "scan", victims |-> {}]
  /\ enforced' = enforced \cap s
  /\ wk' = [w \in Workers |->
       IF wk[w] # Idle /\ claims[wk[w].ts].jti \notin s
       THEN [wk[w] EXCEPT !.late = FALSE] ELSE wk[w]]
  /\ UNCHANGED <<now, tableVars, polVars, hs, sweep, backVars>>

\* EvictRevoked, under the read lock
RevokedSessions == {k \in Live : claims[k].jti \in revoked}

ScanRevoked ==
  /\ callback.pc = "scan"
  /\ callback' = [pc |-> "evict", victims |-> RevokedSessions]
  /\ UNCHANGED <<now, tableVars, revoked, sets, enforced, polVars, hs, sweep, wk, backVars>>

\* EvictRevoked, after the read lock
EvictNextRevoked ==
  /\ \E k \in callback.victims :
       /\ Evict(k)
       /\ callback' = [callback EXCEPT !.victims = @ \ {k}]
  /\ UNCHANGED <<now, n, claims, innerIPs, flows, revoked, sets, enforced, polVars, hs, sweep, wk, backVars>>

CallbackReturns ==
  /\ callback.pc = "evict" /\ callback.victims = {}
  /\ callback' = [callback EXCEPT !.pc = "idle"]
  /\ enforced' = revoked
  /\ UNCHANGED <<now, tableVars, revoked, sets, polVars, hs, sweep, wk, backVars>>

-----------------------------------------------------------------------------
(* The expiry sweep. *)

ExpiredSessions == {k \in Live : Expired(k)}

\* sweepExpired, under the read lock
ScanExpired ==
  /\ sweep = {}
  /\ sweep' = ExpiredSessions
  /\ UNCHANGED <<now, tableVars, revVars, polVars, hs, wk, backVars>>

\* sweepExpired, after the read lock
EvictNextExpired ==
  /\ \E k \in sweep : Evict(k) /\ sweep' = sweep \ {k}
  /\ UNCHANGED <<now, n, claims, innerIPs, flows, revVars, polVars, hs, wk, backVars>>

-----------------------------------------------------------------------------
(* The data plane. *)

Goto(w, pc) == wk' = [wk EXCEPT ![w].pc = pc]
Done(w) == wk' = [wk EXCEPT ![w] = Idle]

Begin(w, k, path, ip, app, pc) ==
  wk' = [wk EXCEPT ![w] =
    [pc |-> pc, ts |-> k, path |-> path, ip |-> ip, app |-> app, at |-> 0, allow |-> FALSE,
     late |-> claims[k].jti \in enforced]]

\* handleDatagram: find the session, check its deadline, open the datagram.
HandleDatagram(w, a, ip, app) ==
  /\ At(w, "idle")
  /\ bySrc[a] # None
  /\ Begin(w, bySrc[a], "packet", ip, app, IF Expired(bySrc[a]) THEN "evict" ELSE "learn")
  /\ UNCHANGED <<now, tableVars, revVars, polVars, hs, sweep, backVars>>

\* learnInnerIP, under termSession.mu
LearnInnerIP(w) ==
  /\ At(w, "learn")
  /\ LET k == wk[w].ts
     IN  /\ Goto(w, IF wk[w].ip \in innerIPs[k] THEN "decide" ELSE "index")
         /\ innerIPs' = [innerIPs EXCEPT ![k] = @ \cup {wk[w].ip}]
  /\ UNCHANGED <<now, n, claims, flows, bySrc, byInnerIP, revVars, polVars, hs, sweep, backVars>>

\* learnInnerIP, under Terminator.mu: the session may have left the table
\* since termSession.mu was released, and its entry is written all the same.
IndexInnerIP(w) ==
  /\ At(w, "index")
  /\ byInnerIP' = [byInnerIP EXCEPT ![wk[w].ip] = wk[w].ts]
  /\ lateIndex' = IF wk[w].ts \in Live THEN lateIndex \ {wk[w].ip} ELSE lateIndex \cup {wk[w].ip}
  /\ Goto(w, "decide")
  /\ UNCHANGED <<now, n, claims, innerIPs, flows, bySrc, revVars, polVars, hs, sweep, leaked>>

\* Mutant: a destination without a rule is judged, and cached, like any other.
UnresolvedMut(a) == FALSE

\* AppResolver.Resolve finds no rule.
Unresolved(a) == a = NoApp

Cached(k, a) == a \in DOMAIN flows[k] /\ now < flows[k][a].expire

\* decide: the flow cache, then the AppResolver.  The time read here also
\* dates the verdict that Store will cache.
Decide(w) ==
  /\ At(w, "decide")
  /\ LET k == wk[w].ts
         a == wk[w].app
     IN  \/ /\ Cached(k, a) /\ flows[k][a].allow
            /\ Goto(w, "write")
         \/ /\ IF Cached(k, a) THEN ~flows[k][a].allow ELSE Unresolved(a)
            /\ Done(w)
         \/ /\ ~Cached(k, a) /\ ~Unresolved(a)
            /\ wk' = [wk EXCEPT ![w].pc = "gate", ![w].at = now]
  /\ UNCHANGED <<now, tableVars, revVars, polVars, hs, sweep, backVars>>

\* Mutant: the revocation list is not consulted for a new flow.
GateOpenMut(k) == TRUE

\* decideResource, step 1: is the session's credential revoked?
GateOpen(k) == claims[k].jti \notin revoked

Gate(w) ==
  /\ At(w, "gate")
  /\ Goto(w, IF GateOpen(wk[w].ts) THEN "pep" ELSE "evict")
  /\ UNCHANGED <<now, tableVars, revVars, polVars, hs, sweep, backVars>>

\* The worker tears down a session it found expired or revoked, and drops
\* the packet or closes the connection.
EvictFound(w) ==
  /\ At(w, "evict")
  /\ Evict(wk[w].ts)
  /\ Done(w)
  /\ UNCHANGED <<now, n, claims, innerIPs, flows, revVars, polVars, hs, sweep, backVars>>

\* decideResource, step 2: pep.Decide on the current bundle.
Pep(w) ==
  /\ At(w, "pep")
  /\ LET ok == wk[w].app \in policy
     IN  \/ /\ wk[w].path = "packet"
            /\ wk' = [wk EXCEPT ![w].pc = "store", ![w].allow = ok]
         \/ /\ wk[w].path = "proxy" /\ ok
            /\ Goto(w, "open")
         \/ /\ wk[w].path = "proxy" /\ ~ok
            /\ Done(w)
  /\ UNCHANGED <<now, tableVars, revVars, polVars, hs, sweep, backVars>>

\* Mutant: the verdict's lifetime starts when it is stored.
ExpireMut(w) == now + FlowTTL

Expire(w) == wk[w].at + FlowTTL

\* decide: cache the verdict.
Store(w) ==
  /\ At(w, "store")
  /\ flows' = [flows EXCEPT ![wk[w].ts] =
       [a \in DOMAIN @ \cup {wk[w].app} |->
          IF a = wk[w].app THEN [allow |-> wk[w].allow, expire |-> Expire(w)] ELSE @[a]]]
  /\ IF wk[w].allow
     THEN wk' = [wk EXCEPT ![w].pc = "write", ![w].at = 0, ![w].allow = FALSE]
     ELSE Done(w)
  /\ UNCHANGED <<now, n, claims, innerIPs, bySrc, byInnerIP, revVars, polVars, hs, sweep, backVars>>

\* forwardInner: the packet goes to the TUN device.
WriteTun(w) ==
  /\ At(w, "write")
  /\ Done(w)
  /\ UNCHANGED <<now, tableVars, revVars, polVars, hs, sweep, backVars>>

\* proxyConn: a connection redirected to the proxy is attributed to the
\* session of its source address.
ProxyConn(w, ip, app) ==
  /\ At(w, "idle")
  /\ byInnerIP[ip] # None
  /\ Expired(byInnerIP[ip]) \/ app \in ConnectorApps
  /\ Begin(w, byInnerIP[ip], "proxy", ip, app, IF Expired(byInnerIP[ip]) THEN "evict" ELSE "gate")
  /\ UNCHANGED <<now, tableVars, revVars, polVars, hs, sweep, backVars>>

\* proxyConn: OpenStream to the connector, or no connector and the
\* connection is closed.
ProxyOpen(w) ==
  /\ At(w, "open")
  /\ Done(w)
  /\ UNCHANGED <<now, tableVars, revVars, polVars, hs, sweep, backVars>>

-----------------------------------------------------------------------------
(* The return pump: one goroutine. *)

\* History: the session is out of the table and its credential's callback has
\* returned.
TornDown(k) == k \notin Live /\ claims[k].jti \in enforced

\* returnPump: the session that the destination names is looked up under the
\* read lock, the packet is sealed for it and written to its address.  The
\* pump reads nothing of the tables after the lookup (the seal works on the
\* session's own counters, DpSession), so the packet is one step.  Neither
\* the session's deadline nor its credential is looked at.
ReturnPump(ip) ==
  /\ byInnerIP[ip] # None
  /\ leaked' = (leaked \/ (TornDown(byInnerIP[ip]) /\ ip \notin lateIndex))
  /\ UNCHANGED <<now, tableVars, revVars, polVars, hs, sweep, wk, lateIndex>>

Next ==
  \/ Tick
  \/ \E p \in SUBSET Apps : SetBundle(p)
  \/ \E h \in Handshakes :
       \/ \E a \in Addrs, t \in Tenants, j \in Jtis : VerifyCred(h, a, t, j)
       \/ OnEstablished(h)
  \/ \E s \in SUBSET Jtis : SetRevoked(s)
  \/ ScanRevoked \/ EvictNextRevoked \/ CallbackReturns
  \/ ScanExpired \/ EvictNextExpired
  \/ \E w \in Workers :
       \/ \E a \in Addrs, ip \in IPs, app \in Apps \cup {NoApp} : HandleDatagram(w, a, ip, app)
       \/ LearnInnerIP(w) \/ IndexInnerIP(w) \/ Decide(w) \/ Gate(w) \/ EvictFound(w)
       \/ Pep(w) \/ Store(w) \/ WriteTun(w)
       \/ \E ip \in IPs, app \in Apps \cup {NoApp} : ProxyConn(w, ip, app)
       \/ ProxyOpen(w)
  \/ \E ip \in IPs : ReturnPump(ip)

Spec == Init /\ [][Next]_vars

-----------------------------------------------------------------------------
(* Properties. *)

Verdict == [allow : BOOLEAN, expire : Nat]
Busy == [pc : {"evict", "learn", "index", "decide", "gate", "pep", "store", "write", "open"},
         ts : Ids, path : {"packet", "proxy"}, ip : IPs, app : Apps \cup {NoApp},
         at : Time, allow : BOOLEAN, late : BOOLEAN]

\* The variables have their types; in particular no index, victim list or
\* worker refers to a session that was never established.
TypeOK ==
  /\ now \in Time
  /\ n \in 0 .. MaxSessions
  /\ claims \in [1 .. n -> [src : Addrs, jti : Jtis, deadline : Nat]]
  /\ innerIPs \in [Ids -> SUBSET IPs]
  /\ \A k \in Ids : \A a \in DOMAIN flows[k] : a \in Apps /\ flows[k][a] \in Verdict
  /\ bySrc \in [Addrs -> 0 .. n]
  /\ byInnerIP \in [IPs -> 0 .. n]
  /\ revoked \in SUBSET Jtis /\ enforced \in SUBSET revoked
  /\ policy \in SUBSET Apps
  /\ hs \in [Handshakes -> SUBSET [src : Addrs, jti : Jtis]]
  /\ callback \in [pc : {"idle", "scan", "evict"}, victims : SUBSET (1 .. n)]
  /\ sweep \in SUBSET (1 .. n)
  /\ \A w \in Workers : wk[w] = Idle \/ (wk[w] \in Busy /\ wk[w].ts <= n)
  /\ lateIndex \in SUBSET IPs /\ leaked \in BOOLEAN
  /\ deniedAt \in [Apps -> Time]

\* The revocation callback is authoritative.  What an agent sends: a packet or
\* a proxied connection whose handling began after the callback for its
\* credential returned is never let through while the credential stays
\* revoked, although a handshake that passed VerifyCred before the revocation
\* may enter its session afterwards and flow verdicts are cached (VerifyCred,
\* OnEstablished, EvictRevoked, decideResource).  What goes back to it: after
\* the callback returned, returnPump takes no packet for a session that was
\* torn down, unless over an index entry that a worker wrote after the
\* session had left the table (evictSession, dropInnerIPsLocked).  The
\* exception is real: learnInnerIP takes the session's lock and then the
\* table's, and for such an entry the comment of EvictRevoked, that the return
\* flow of a revoked session is cut, does not hold.  A session entered after
\* the callback is in the table and has its return packets until an agent's
\* packet meets the gate.
RevokedNotForwarded ==
  /\ \A w \in Workers : wk[w].pc \in {"write", "open"} =>
       ~(wk[w].late /\ claims[wk[w].ts].jti \in enforced)
  /\ ~leaked

\* A session leaves the table only for a reason of its own: its credential is
\* on the revocation list or was when it was found, its deadline has passed,
\* or its address handshakes again.  A late teardown of an old session never
\* takes the session that replaced it (the identity check of evictSession).
EvictJustified ==
  [][\A k \in Live : k \notin Live' =>
       \/ Expired(k)
       \/ claims[k].jti \in revoked
       \/ k \in callback.victims
       \/ \E w \in Workers : wk[w].pc = "evict" /\ wk[w].ts = k
       \/ bySrc'[claims[k].src] > k]_vars

\* A cached verdict never outlives the policy that gave it by more than
\* flowCacheTTL, even if the worker that asked the policy was suspended
\* before it stored the answer (decide dates the verdict before it asks).
CacheBounded ==
  \A k \in Ids : \A a \in DOMAIN flows[k] :
    flows[k][a].allow /\ a \notin policy => flows[k][a].expire <= deniedAt[a] + FlowTTL
=============================================================================
