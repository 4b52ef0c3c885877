----------------------------- MODULE XdsServer -----------------------------
(***************************************************************************)
(* Configuration distribution: the xDS server (internal/xds), the          *)
(* LISTEN/NOTIFY loops that feed it (internal/data/listen.go, wired in     *)
(* cmd/xds-server), and the Delta client of a PoP or CPE                   *)
(* (internal/pop/client.go).                                               *)
(*                                                                         *)
(* A resource is a pair <<tenant, kind>>.  Its content is abstracted to    *)
(* the revision of the database rows it is derived from: revision 0 is "no *)
(* rows yet" (no active bundle for the policy kind, the empty list for the *)
(* other five kinds).  The gRPC library go-control-plane (LinearCache,     *)
(* watches) is outside the repository and is modelled from its use here.   *)
(*                                                                         *)
(* Every load of a resource is two steps, because the database read and    *)
(* the cache update are not under a common lock: LoadRead and LoadUpdate.  *)
(* Loads are run by concurrent goroutines, the Workers: one per stream     *)
(* (onDeltaRequest), one LISTEN loop per kind, and the reconcile ticker.   *)
(***************************************************************************)
EXTENDS Integers, Sequences, FiniteSets

CONSTANTS
  Tenants,      \* tenant ids
  Kinds,        \* resource type URLs
  PolicyKind,   \* the kind whose load is skipped when there is no row
  RevKind,      \* the kind whose LISTEN loop reconciles on (re)connect
  Streams,      \* Delta streams; a slot is one subscription loop of a client
  Ticker,       \* the periodic reconcile goroutine
  BadName,      \* any subscribed name that is not tenant/<id>, "*" included
  NoTenant,     \* certificate without an Organization
  Strict,       \* SASE_XDS_REQUIRE_CERT_SCOPE
  Certs,        \* the client certificates in use: role and bound tenant
  Requests,     \* the subscription requests clients may send
  MaxRequests,  \* bound: subscription requests sent by clients
  MaxVersion,   \* bound: revisions per resource
  MaxDbErrors,  \* bound: failed database reads
  MaxDrops      \* bound: lost LISTEN connections

Res == Tenants \X Kinds
Workers == Streams \cup Kinds \cup {Ticker}
Roles == {"pop", "device", "none"}
Absent == -1
Version == 0 .. MaxVersion
Cert == [role : Roles, tenant : Tenants \cup {NoTenant}]
Request == [kind : Kinds, names : SUBSET (Tenants \cup {BadName})]

ASSUME KindsAssumption == /\ PolicyKind \in Kinds
                          /\ RevKind \in Kinds
ASSUME WorkersAssumption == /\ Streams \cap Kinds = {}
                            /\ Ticker \notin Streams \cup Kinds
                            /\ IsFiniteSet(Streams)
ASSUME NamesAssumption == /\ BadName \notin Tenants
                          /\ NoTenant \notin Tenants
                          /\ Strict \in BOOLEAN
                          /\ Certs \subseteq Cert
                          /\ Requests \subseteq Request
ASSUME BoundsAssumption == /\ MaxVersion \in Nat
                           /\ MaxDbErrors \in Nat
                           /\ MaxDrops \in Nat
                           /\ MaxRequests \in Nat

VARIABLES
  db,        \* committed revision of each resource
  listening, \* is the LISTEN connection of a kind up?
  notifyq,   \* notifications delivered to that connection, not yet handled
  todo,      \* resources a worker still has to load
  held,      \* what a worker has read and not yet written to the cache
  cache,     \* the six LinearCaches
  refs,      \* Server.tenantRefs
  conn,      \* "closed", "open" or "failed" (handler returned an error)
  role,      \* streamAuth.role
  certTenant,\* streamAuth.certTenant
  tenants,   \* streamAuth.tenants
  named,     \* streamAuth.namedTypes
  req,       \* the request the stream's handler is working on (0 or 1)
  watch,     \* go-control-plane: resources subscribed, wildcard kinds
  armed,     \* go-control-plane: kinds with an open watch
  known,     \* go-control-plane: revision the client is known to have
  inflight,  \* responses sent and not yet received
  pop,       \* the client's store, which outlives its streams
  sent, dbErrs, drops  \* counters of the bounds

serverVars == <<todo, held, cache, refs>>
streamVars == <<conn, role, certTenant, tenants, named, req>>
gcpVars    == <<watch, armed, known, inflight>>
notifyVars == <<listening, notifyq, drops>>
vars == <<db, notifyVars, serverVars, streamVars, gcpVars, pop, sent, dbErrs>>

-----------------------------------------------------------------------------
(* Server-side helpers. *)

\* authorizeSubscription, for a tenant name
Authorized(r, ct, t) ==
  \/ r = "pop"
  \/ r = "device" /\ ct = t
  \/ r = "none" /\ ~Strict

\* Mutant: the reconciliation finds nothing to reload.
ReconcileSetMut == {}

\* The resources ReconcileAll reloads: all kinds of the tenants referenced
\* when it takes its snapshot.
ReconcileSet == {r \in Res : refs[r[1]] > 0}

\* The policy load finds no active bundle and returns without an update.
NothingToLoad(r) == r[2] = PolicyKind /\ db[r] = 0

\* Mutant: every tenant is released, subscribed by this stream or not.
ReleasedRefsMut(s) == [t \in Tenants |-> refs[t] - 1]

\* The counter after the stream's tenants are released.
ReleasedRefs(s) == [t \in Tenants |-> IF t \in tenants[s]
                                      THEN IF refs[t] > 1 THEN refs[t] - 1 ELSE 0
                                      ELSE refs[t]]

Init ==
  /\ db = [r \in Res |-> 0]
  /\ listening = [k \in Kinds |-> TRUE]
  /\ notifyq = [k \in Kinds |-> <<>>]
  /\ todo = [w \in Workers |-> {}]
  /\ held = [w \in Workers |-> {}]
  /\ cache = [r \in Res |-> Absent]
  /\ refs = [t \in Tenants |-> 0]
  /\ conn = [s \in Streams |-> "closed"]
  /\ role = [s \in Streams |-> "none"]
  /\ certTenant = [s \in Streams |-> NoTenant]
  /\ tenants = [s \in Streams |-> {}]
  /\ named = [s \in Streams |-> {}]
  /\ req = [s \in Streams |-> {}]
  /\ watch = [s \in Streams |-> [sub |-> {}, wild |-> {}]]
  /\ armed = [s \in Streams |-> {}]
  /\ known = [s \in Streams |-> [r \in Res |-> Absent]]
  /\ inflight = [s \in Streams |-> {}]
  /\ pop = [s \in Streams |-> [r \in Res |-> Absent]]
  /\ sent = 0
  /\ dbErrs = 0
  /\ drops = 0

-----------------------------------------------------------------------------
(* The api-server commits a change and pg_notify delivers it if someone     *)
(* listens on the channel of that kind; otherwise the signal is lost.       *)
Commit(r) ==
  /\ db[r] < MaxVersion
  /\ db' = [db EXCEPT ![r] = @ + 1]
  /\ notifyq' = IF listening[r[2]]
                THEN [notifyq EXCEPT ![r[2]] = Append(@, r[1])]
                ELSE notifyq
  /\ UNCHANGED <<listening, drops, serverVars, streamVars, gcpVars, pop, sent, dbErrs>>

\* The LISTEN connection breaks; undelivered notifications are gone.
ListenDrop(k) ==
  /\ listening[k]
  /\ drops < MaxDrops
  /\ drops' = drops + 1
  /\ listening' = [listening EXCEPT ![k] = FALSE]
  /\ notifyq' = [notifyq EXCEPT ![k] = <<>>]
  /\ UNCHANGED <<db, serverVars, streamVars, gcpVars, pop, sent, dbErrs>>

\* listenOnce: LISTEN again, then onReconnect, which only the revocation
\* channel has (ReconcileAll).
ListenReconnect(k) ==
  /\ ~listening[k]
  /\ todo[k] = {}
  /\ listening' = [listening EXCEPT ![k] = TRUE]
  /\ todo' = IF k = RevKind THEN [todo EXCEPT ![k] = ReconcileSet] ELSE todo
  /\ UNCHANGED <<db, notifyq, drops, held, cache, refs, streamVars, gcpVars, pop, sent, dbErrs>>

\* WaitForNotification returns and onNotify starts to load the resource.
OnNotify(k) ==
  /\ todo[k] = {}
  /\ notifyq[k] # <<>>
  /\ notifyq' = [notifyq EXCEPT ![k] = Tail(@)]
  /\ todo' = [todo EXCEPT ![k] = {<<Head(notifyq[k]), k>>}]
  /\ UNCHANGED <<db, listening, drops, held, cache, refs, streamVars, gcpVars, pop, sent, dbErrs>>

\* reconcileLoop: the ticker fires and ReconcileAll snapshots tenantRefs.
ReconcileAll ==
  /\ todo[Ticker] = {}
  /\ ReconcileSet # {}
  /\ todo' = [todo EXCEPT ![Ticker] = ReconcileSet]
  /\ UNCHANGED <<db, notifyVars, held, cache, refs, streamVars, gcpVars, pop, sent, dbErrs>>

\* read*: the read-only transaction sees the committed revision.
LoadRead(w) ==
  /\ held[w] = {}
  /\ \E r \in todo[w] :
       IF NothingToLoad(r)
       THEN /\ todo' = [todo EXCEPT ![w] = @ \ {r}]
            /\ held' = held
       ELSE /\ held' = [held EXCEPT ![w] = {[res |-> r, val |-> db[r]]}]
            /\ todo' = todo
  /\ UNCHANGED <<db, notifyVars, cache, refs, streamVars, gcpVars, pop, sent, dbErrs>>

\* read* fails: the load is logged and dropped, nothing is retried.
LoadError(w) ==
  /\ held[w] = {}
  /\ dbErrs < MaxDbErrors
  /\ dbErrs' = dbErrs + 1
  /\ \E r \in todo[w] : todo' = [todo EXCEPT ![w] = @ \ {r}]
  /\ UNCHANGED <<db, notifyVars, held, cache, refs, streamVars, gcpVars, pop, sent>>

\* UpdateResource: overwrite the cache entry, whoever wrote it last.
LoadUpdate(w) ==
  /\ \E h \in held[w] :
       /\ cache' = [cache EXCEPT ![h.res] = h.val]
       /\ todo' = [todo EXCEPT ![w] = @ \ {h.res}]
  /\ held' = [held EXCEPT ![w] = {}]
  /\ UNCHANGED <<db, notifyVars, refs, streamVars, gcpVars, pop, sent, dbErrs>>

-----------------------------------------------------------------------------
(* Streams. *)

\* onDeltaStreamOpen: the verified client certificate fixes the identity.
StreamOpen(s, c) ==
  /\ conn[s] = "closed"
  /\ conn' = [conn EXCEPT ![s] = "open"]
  /\ role' = [role EXCEPT ![s] = c.role]
  /\ certTenant' = [certTenant EXCEPT ![s] = c.tenant]
  /\ UNCHANGED <<tenants, named, req, db, notifyVars, serverVars, gcpVars, pop, sent, dbErrs>>

\* A client sends a subscription (stream.Send).
Subscribe(s, q) ==
  /\ conn[s] = "open"
  /\ req[s] = {}
  /\ sent < MaxRequests
  /\ sent' = sent + 1
  /\ req' = [req EXCEPT ![s] = {[kind |-> q.kind, all |-> q.names, left |-> q.names]}]
  /\ UNCHANGED <<conn, role, certTenant, tenants, named,
                 db, notifyVars, serverVars, gcpVars, pop, dbErrs>>

\* Mutant: a tenant is counted again for every request that names it.
RecordRefMut(s, t, k) ==
  /\ named' = [named EXCEPT ![s] = @ \cup {k}]
  /\ tenants' = [tenants EXCEPT ![s] = @ \cup {t}]
  /\ refs' = [refs EXCEPT ![t] = @ + 1]

\* recordRef
RecordRef(s, t, k) ==
  /\ named' = [named EXCEPT ![s] = @ \cup {k}]
  /\ tenants' = [tenants EXCEPT ![s] = @ \cup {t}]
  /\ refs' = IF t \in tenants[s] THEN refs ELSE [refs EXCEPT ![t] = @ + 1]

\* onDeltaRequest, one name of the loop: refuse it and end the stream, or
\* count it and load the resource.
HandleName(s) ==
  /\ todo[s] = {}
  /\ \E q \in req[s] : \E n \in q.left :
       \/ /\ n = BadName \/ ~Authorized(role[s], certTenant[s], n)
          /\ conn' = [conn EXCEPT ![s] = "failed"]
          /\ req' = [req EXCEPT ![s] = {}]
          /\ UNCHANGED <<todo, tenants, named, refs>>
       \/ /\ n # BadName /\ Authorized(role[s], certTenant[s], n)
          /\ RecordRef(s, n, q.kind)
          /\ todo' = [todo EXCEPT ![s] = {<<n, q.kind>>}]
          /\ req' = [req EXCEPT ![s] = {[q EXCEPT !.left = @ \ {n}]}]
          /\ conn' = conn
  /\ UNCHANGED <<role, certTenant, held, cache,
                 db, notifyVars, gcpVars, pop, sent, dbErrs>>

\* Mutant: remember only that the stream has subscribed something by name.
RefusesEmptyMut(s, k) == named[s] = {}

\* onDeltaRequest with no names: an ACK of a kind subscribed by name, or a
\* wildcard subscription, which is refused.
RefusesEmpty(s, k) == k \notin named[s]

HandleEmpty(s) ==
  /\ \E q \in req[s] : q.all = {} /\ RefusesEmpty(s, q.kind)
  /\ conn' = [conn EXCEPT ![s] = "failed"]
  /\ req' = [req EXCEPT ![s] = {}]
  /\ UNCHANGED <<role, certTenant, tenants, named,
                 db, notifyVars, serverVars, gcpVars, pop, sent, dbErrs>>

\* The callback returned nil: go-control-plane opens the watch.  A first
\* request for a kind that names nothing opens a wildcard watch.
CreateWatch(s) ==
  /\ todo[s] = {}
  /\ \E q \in req[s] :
       /\ q.left = {}
       /\ q.all = {} => ~RefusesEmpty(s, q.kind)
       /\ watch' = [watch EXCEPT
            ![s] = [sub  |-> @.sub \cup {<<t, q.kind>> : t \in q.all},
                    wild |-> IF q.all = {} /\ \A r \in @.sub : r[2] # q.kind
                             THEN @.wild \cup {q.kind} ELSE @.wild]]
       /\ armed' = [armed EXCEPT ![s] = @ \cup {q.kind}]
  /\ req' = [req EXCEPT ![s] = {}]
  /\ UNCHANGED <<conn, role, certTenant, tenants, named, known, inflight,
                 db, notifyVars, serverVars, pop, sent, dbErrs>>

\* Mutant: the tenants of the closing stream are evicted whoever else
\* references them.
EvictedMut(s) == {r \in Res : r[1] \in tenants[s]}

\* evictTenant: all kinds of the tenants whose last reference goes.
Evicted(s) == {r \in Res : r[1] \in tenants[s] /\ refs[r[1]] <= 1}

\* onDeltaStreamClosed, after the client or the handler ended the stream:
\* release the references and evict the tenants nobody references any more.
StreamClosed(s) ==
  /\ conn[s] # "closed"
  /\ req[s] = {}
  /\ todo[s] = {}
  /\ conn' = [conn EXCEPT ![s] = "closed"]
  /\ refs' = ReleasedRefs(s)
  /\ cache' = [r \in Res |-> IF r \in Evicted(s) THEN Absent ELSE cache[r]]
  /\ role' = [role EXCEPT ![s] = "none"]
  /\ certTenant' = [certTenant EXCEPT ![s] = NoTenant]
  /\ tenants' = [tenants EXCEPT ![s] = {}]
  /\ named' = [named EXCEPT ![s] = {}]
  /\ watch' = [watch EXCEPT ![s] = [sub |-> {}, wild |-> {}]]
  /\ armed' = [armed EXCEPT ![s] = {}]
  /\ known' = [known EXCEPT ![s] = [r \in Res |-> Absent]]
  /\ inflight' = [inflight EXCEPT ![s] = {}]
  /\ UNCHANGED <<req, todo, held, db, notifyVars, pop, sent, dbErrs>>

-----------------------------------------------------------------------------
(* Delivery. *)

Watched(s, r) == r \in watch[s].sub \/ r[2] \in watch[s].wild

\* LinearCache answers an open watch once its resource differs from what the
\* client is known to have; an evicted resource is sent as removed.
Push(s, r) ==
  /\ conn[s] = "open"
  /\ r[2] \in armed[s]
  /\ Watched(s, r)
  /\ cache[r] # known[s][r]
  /\ armed' = [armed EXCEPT ![s] = @ \ {r[2]}]
  /\ known' = [known EXCEPT ![s][r] = cache[r]]
  /\ inflight' = [inflight EXCEPT ![s] = @ \cup {[res |-> r, val |-> cache[r]]}]
  /\ UNCHANGED <<watch, db, notifyVars, serverVars, streamVars, pop, sent, dbErrs>>

\* subscribeStream receives a response, stores the resources it carries
\* (removed resources are not looked at), and sends the ACK.
Receive(s) ==
  /\ conn[s] = "open"
  /\ req[s] = {}
  /\ \E m \in inflight[s] :
       /\ pop' = IF m.val = Absent THEN pop ELSE [pop EXCEPT ![s][m.res] = m.val]
       /\ inflight' = [inflight EXCEPT ![s] = @ \ {m}]
       /\ req' = [req EXCEPT ![s] = {[kind |-> m.res[2], all |-> {}, left |-> {}]}]
  /\ UNCHANGED <<conn, role, certTenant, tenants, named, watch, armed, known,
                 db, notifyVars, serverVars, sent, dbErrs>>

-----------------------------------------------------------------------------
Loading(w) == LoadRead(w) \/ LoadUpdate(w)
Handling(s) == HandleName(s) \/ HandleEmpty(s) \/ CreateWatch(s)

Next ==
  \/ \E r \in Res : Commit(r)
  \/ \E k \in Kinds : ListenDrop(k) \/ ListenReconnect(k) \/ OnNotify(k)
  \/ ReconcileAll
  \/ \E w \in Workers : LoadRead(w) \/ LoadError(w) \/ LoadUpdate(w)
  \/ \E s \in Streams :
       \/ \E c \in Certs : StreamOpen(s, c)
       \/ \E q \in Requests : Subscribe(s, q)
       \/ HandleName(s) \/ HandleEmpty(s) \/ CreateWatch(s)
       \/ StreamClosed(s)
       \/ \E r \in Res : Push(s, r)
       \/ Receive(s)

Spec == Init /\ [][Next]_vars

\* Goroutines run: loads finish, LISTEN loops reconnect and drain their
\* connection, the ticker fires, requests are handled, and an open stream
\* carries what is sent on it.  Nothing is assumed of commits, of failures,
\* or of clients subscribing and leaving.
Fairness ==
  /\ \A w \in Workers : WF_vars(Loading(w))
  /\ \A k \in Kinds : WF_vars(OnNotify(k)) /\ WF_vars(ListenReconnect(k))
  /\ WF_vars(ReconcileAll)
  /\ \A s \in Streams :
       /\ WF_vars(Handling(s))
       /\ WF_vars(Receive(s))
       /\ \A r \in Res : WF_vars(Push(s, r))

FairSpec == Spec /\ Fairness

-----------------------------------------------------------------------------
(* Properties. *)

Pending == [kind : Kinds, all : SUBSET (Tenants \cup {BadName}),
            left : SUBSET (Tenants \cup {BadName})]
Revision == [res : Res, val : Version \cup {Absent}]

\* Every variable has its type; in particular tenantRefs never goes below
\* zero and a stream's handler works on one request at a time.
TypeOK ==
  /\ db \in [Res -> Version]
  /\ listening \in [Kinds -> BOOLEAN]
  /\ notifyq \in [Kinds -> Seq(Tenants)]
  /\ todo \in [Workers -> SUBSET Res]
  /\ held \in [Workers -> SUBSET [res : Res, val : Version]]
  /\ cache \in [Res -> Version \cup {Absent}]
  /\ refs \in [Tenants -> Nat]
  /\ conn \in [Streams -> {"closed", "open", "failed"}]
  /\ role \in [Streams -> Roles]
  /\ certTenant \in [Streams -> Tenants \cup {NoTenant}]
  /\ tenants \in [Streams -> SUBSET Tenants]
  /\ named \in [Streams -> SUBSET Kinds]
  /\ req \in [Streams -> SUBSET Pending]
  /\ watch \in [Streams -> [sub : SUBSET Res, wild : SUBSET Kinds]]
  /\ armed \in [Streams -> SUBSET Kinds]
  /\ known \in [Streams -> [Res -> Version \cup {Absent}]]
  /\ inflight \in [Streams -> SUBSET Revision]
  /\ pop \in [Streams -> [Res -> Version \cup {Absent}]]
  /\ sent \in Nat
  /\ dbErrs \in Nat
  /\ drops \in Nat

\* tenantRefs counts, for each tenant, exactly the live streams that have
\* subscribed it, through repeated subscriptions, requests refused halfway
\* and closes in any order (recordRef, onDeltaStreamClosed).
RefsConsistent ==
  \A t \in Tenants : refs[t] = Cardinality({s \in Streams : t \in tenants[s]})

\* No response is ever on its way to a stream whose certificate does not
\* entitle it: a device certificate is only sent its own tenant, and under
\* SASE_XDS_REQUIRE_CERT_SCOPE a certificate without a role is sent nothing,
\* whatever requests the stream made (named, wildcard, refused halfway) and
\* whatever other streams put into the shared caches.
TenantIsolation ==
  \A s \in Streams : \A m \in inflight[s] :
    /\ role[s] = "device" => certTenant[s] = m.res[1]
    /\ role[s] = "none" => ~Strict

\* A cached resource is dropped only when no live stream references its
\* tenant any more: one client leaving never withdraws what another one is
\* subscribed to (onDeltaStreamClosed, evictTenant).
EvictOnlyUnsubscribed ==
  [][\A r \in Res : cache[r] # Absent /\ cache'[r] = Absent =>
        \A s \in Streams : r[1] \notin tenants'[s]]_vars

\* A client that stays subscribed ends up with the latest committed revision
\* in its store, although notifications are lost while a LISTEN connection
\* is down, database reads fail, and concurrent loads overwrite each other
\* (ListenNotify, OnNotify, ReconcileAll, load*, subscribeStream).
Convergence ==
  \A s \in Streams : \A r \in Res :
    (<>[](r \in watch[s].sub)) =>
      <>[](pop[s][r] = db[r] \/ NothingToLoad(r))
=============================================================================
