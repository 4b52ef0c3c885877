-------------------------- MODULE XdsServer_proofs --------------------------
(***************************************************************************)
(* Proofs about XdsServer, for any number of tenants, kinds and streams    *)
(* and any bounds: type correctness, the subscription counts, and tenant   *)
(* isolation.                                                              *)
(***************************************************************************)
EXTENDS XdsServer, FiniteSetTheorems, TLAPS

\* What the callbacks maintain for one stream.  Isolation rests on it: all
\* that is watched or sent belongs to tenants that passed the authorization,
\* and a kind counts as subscribed by name only while a named watch of it
\* exists or is about to be created.
StreamOK(s) ==
  /\ conn[s] = "closed" => /\ tenants[s] = {} /\ named[s] = {}
                           /\ watch[s].sub = {} /\ inflight[s] = {}
  /\ req[s] # {} => conn[s] = "open"
  /\ \A p, q \in req[s] : p = q
  /\ \A q \in req[s] : q.all \subseteq q.left \cup tenants[s]
  /\ \A t \in tenants[s] : Authorized(role[s], certTenant[s], t)
  /\ watch[s].wild = {}
  /\ \A r \in watch[s].sub : r[1] \in tenants[s]
  /\ \A m \in inflight[s] : m.res[1] \in tenants[s]
  /\ conn[s] = "open" => \A k \in named[s] :
        \/ \E r \in watch[s].sub : r[2] = k
        \/ \E q \in req[s] : q.kind = k /\ q.all # {}
  /\ \A q \in req[s] : q.left \subseteq q.all

StreamInv == \A s \in Streams : StreamOK(s)

IInv == TypeOK /\ StreamInv

\* The two outcomes of HandleName for the name n of the request q.
Named(s, q, n) ==
  \/ /\ conn' = [conn EXCEPT ![s] = "failed"]
     /\ req' = [req EXCEPT ![s] = {}]
     /\ UNCHANGED <<todo, tenants, named, refs>>
  \/ /\ n # BadName /\ Authorized(role[s], certTenant[s], n)
     /\ RecordRef(s, n, q.kind)
     /\ todo' = [todo EXCEPT ![s] = {<<n, q.kind>>}]
     /\ req' = [req EXCEPT ![s] = {[q EXCEPT !.left = @ \ {n}]}]
     /\ conn' = conn

-----------------------------------------------------------------------------
(* Type correctness. *)

\* The initial state has the right types.
LEMMA InitTypeOK == Init => TypeOK
BY KindsAssumption, WorkersAssumption, NamesAssumption, BoundsAssumption
   DEF Init, TypeOK, Res, Workers, Version, Absent, Roles, Request, Pending, Revision

\* Every step preserves the types.  CreateWatch needs the stream invariant: the
\* names it subscribes have all been accepted, so BadName is not one of them.
LEMMA NextTypeOK == ASSUME IInv, [Next]_vars PROVE TypeOK'
<1> USE KindsAssumption, WorkersAssumption, NamesAssumption, BoundsAssumption
<1>0. TypeOK /\ StreamInv
  BY DEF IInv
<1>1. ASSUME NEW r \in Res, Commit(r) PROVE TypeOK'
  <2>1. r[1] \in Tenants /\ r[2] \in Kinds
    BY DEF Res
  <2>2. db' \in [Res -> Version]
    <3>1. db[r] \in Version /\ db[r] < MaxVersion
      BY <1>0, <1>1 DEF Commit, TypeOK
    <3>2. db[r] + 1 \in Version
      BY <3>1 DEF Version
    <3>3. QED
      BY <1>0, <1>1, <3>2 DEF Commit, TypeOK
  <2>3. notifyq' \in [Kinds -> Seq(Tenants)]
    <3>1. Append(notifyq[r[2]], r[1]) \in Seq(Tenants)
      BY <1>0, <2>1 DEF TypeOK
    <3>2. QED
      BY <1>0, <1>1, <2>1, <3>1 DEF Commit, TypeOK
  <2>4. QED
    BY <1>0, <1>1, <2>2, <2>3 DEF Commit, TypeOK, serverVars, streamVars, gcpVars
<1>2. ASSUME NEW k \in Kinds, ListenDrop(k) PROVE TypeOK'
  BY <1>0, <1>2 DEF ListenDrop, TypeOK, serverVars, streamVars, gcpVars
<1>3. ASSUME NEW k \in Kinds, ListenReconnect(k) PROVE TypeOK'
  BY <1>0, <1>3 DEF ListenReconnect, TypeOK, ReconcileSet, Workers, streamVars, gcpVars
<1>4. ASSUME NEW k \in Kinds, OnNotify(k) PROVE TypeOK'
  <2>1. notifyq[k] \in Seq(Tenants) /\ notifyq[k] # <<>>
    BY <1>0, <1>4 DEF OnNotify, TypeOK
  <2>2. Head(notifyq[k]) \in Tenants /\ Tail(notifyq[k]) \in Seq(Tenants)
    BY <2>1
  <2>3. {<<Head(notifyq[k]), k>>} \in SUBSET Res
    BY <2>2 DEF Res
  <2>4. QED
    BY <1>0, <1>4, <2>2, <2>3 DEF OnNotify, TypeOK, Workers, streamVars, gcpVars
<1>5. ASSUME ReconcileAll PROVE TypeOK'
  BY <1>0, <1>5 DEF ReconcileAll, TypeOK, ReconcileSet, Workers, notifyVars, streamVars, gcpVars
<1>6. ASSUME NEW w \in Workers, LoadRead(w) PROVE TypeOK'
  <2>1. PICK r \in todo[w] :
          \/ todo' = [todo EXCEPT ![w] = @ \ {r}] /\ held' = held
          \/ held' = [held EXCEPT ![w] = {[res |-> r, val |-> db[r]]}] /\ todo' = todo
    BY <1>6 DEF LoadRead
  <2>2. {[res |-> r, val |-> db[r]]} \in SUBSET [res : Res, val : Version]
    BY <1>0, <2>1 DEF TypeOK
  <2>3. todo' \in [Workers -> SUBSET Res]
    <3>1. todo \in [Workers -> SUBSET Res] /\ todo[w] \ {r} \in SUBSET Res
      BY <1>0 DEF TypeOK
    <3>2. QED
      BY <2>1, <3>1
  <2>4. held' \in [Workers -> SUBSET [res : Res, val : Version]]
    BY <1>0, <2>1, <2>2 DEF TypeOK
  <2>5. QED
    BY <1>0, <1>6, <2>3, <2>4 DEF LoadRead, TypeOK, notifyVars, streamVars, gcpVars
<1>7. ASSUME NEW w \in Workers, LoadError(w) PROVE TypeOK'
  BY <1>0, <1>7 DEF LoadError, TypeOK, notifyVars, streamVars, gcpVars
<1>8. ASSUME NEW w \in Workers, LoadUpdate(w) PROVE TypeOK'
  BY <1>0, <1>8 DEF LoadUpdate, TypeOK, notifyVars, streamVars, gcpVars
<1>9. ASSUME NEW s \in Streams, NEW c \in Certs, StreamOpen(s, c) PROVE TypeOK'
  BY <1>0, <1>9 DEF StreamOpen, TypeOK, Cert, notifyVars, serverVars, gcpVars
<1>10. ASSUME NEW s \in Streams, NEW q \in Requests, Subscribe(s, q) PROVE TypeOK'
  BY <1>0, <1>10 DEF Subscribe, TypeOK, Request, Pending, notifyVars, serverVars, gcpVars
<1>11. ASSUME NEW s \in Streams, HandleName(s) PROVE TypeOK'
  <2>0. PICK q \in req[s] : \E n \in q.left : Named(s, q, n)
    BY <1>11 DEF HandleName, Named
  <2>1. PICK n \in q.left : Named(s, q, n)
    BY <2>0
  <2>2. q \in Pending /\ n \in Tenants \cup {BadName}
    BY <1>0, <2>0, <2>1 DEF TypeOK, Pending
  <2>3. {[q EXCEPT !.left = @ \ {n}]} \in SUBSET Pending
    BY <2>2 DEF Pending
  <2>4. req' \in [Streams -> SUBSET Pending] /\ conn' \in [Streams -> {"closed", "open", "failed"}]
    <3>1. /\ req \in [Streams -> SUBSET Pending]
          /\ conn \in [Streams -> {"closed", "open", "failed"}]
      BY <1>0 DEF TypeOK
    <3>2. QED
      BY <2>1, <2>3, <3>1 DEF Named
  <2>5. n # BadName => n \in Tenants /\ q.kind \in Kinds /\ {<<n, q.kind>>} \in SUBSET Res
    BY <2>2 DEF Res, Pending
  <2>6. todo' \in [Workers -> SUBSET Res]
    <3>1. todo \in [Workers -> SUBSET Res] /\ s \in Workers
      BY <1>0 DEF TypeOK, Workers
    <3>2. QED
      BY <2>1, <2>5, <3>1 DEF Named
  <2>7. /\ refs' \in [Tenants -> Nat]
        /\ tenants' \in [Streams -> SUBSET Tenants]
        /\ named' \in [Streams -> SUBSET Kinds]
    <3>1. /\ refs \in [Tenants -> Nat]
          /\ tenants \in [Streams -> SUBSET Tenants]
          /\ named \in [Streams -> SUBSET Kinds]
      BY <1>0 DEF TypeOK
    <3>2. QED
      BY <2>1, <2>5, <3>1 DEF Named, RecordRef
  <2>8. QED
    BY <1>0, <1>11, <2>4, <2>6, <2>7 DEF HandleName, TypeOK, notifyVars, gcpVars
<1>12. ASSUME NEW s \in Streams, HandleEmpty(s) PROVE TypeOK'
  BY <1>0, <1>12 DEF HandleEmpty, TypeOK, notifyVars, serverVars, gcpVars
<1>13. ASSUME NEW s \in Streams, CreateWatch(s) PROVE TypeOK'
  <2>1. PICK q \in req[s] :
          /\ q.left = {}
          /\ watch' = [watch EXCEPT
               ![s] = [sub  |-> @.sub \cup {<<t, q.kind>> : t \in q.all},
                       wild |-> IF q.all = {} /\ \A r \in @.sub : r[2] # q.kind
                                THEN @.wild \cup {q.kind} ELSE @.wild]]
          /\ armed' = [armed EXCEPT ![s] = @ \cup {q.kind}]
    BY <1>13 DEF CreateWatch
  <2>2. q.kind \in Kinds
    BY <1>0, <2>1 DEF TypeOK, Pending
  <2>3. q.all \subseteq Tenants
    BY <1>0, <2>1 DEF TypeOK, StreamInv, StreamOK
  <2>4. {<<t, q.kind>> : t \in q.all} \in SUBSET Res
    BY <2>2, <2>3 DEF Res
  <2>5. watch' \in [Streams -> [sub : SUBSET Res, wild : SUBSET Kinds]]
    BY <1>0, <2>1, <2>2, <2>4 DEF TypeOK
  <2>6. armed' \in [Streams -> SUBSET Kinds]
    BY <1>0, <2>1, <2>2 DEF TypeOK
  <2>7. req' \in [Streams -> SUBSET Pending]
    BY <1>0, <1>13 DEF TypeOK, CreateWatch
  <2>8. QED
    BY <1>0, <1>13, <2>5, <2>6, <2>7 DEF CreateWatch, TypeOK, notifyVars, serverVars
<1>14. ASSUME NEW s \in Streams, StreamClosed(s) PROVE TypeOK'
  BY <1>0, <1>14 DEF StreamClosed, ReleasedRefs, TypeOK, Roles, notifyVars
<1>15. ASSUME NEW s \in Streams, NEW r \in Res, Push(s, r) PROVE TypeOK'
  BY <1>0, <1>15 DEF Push, TypeOK, Revision, notifyVars, serverVars, streamVars
<1>16. ASSUME NEW s \in Streams, Receive(s) PROVE TypeOK'
  <2>1. PICK m \in inflight[s] :
          /\ pop' = IF m.val = Absent THEN pop ELSE [pop EXCEPT ![s][m.res] = m.val]
          /\ inflight' = [inflight EXCEPT ![s] = @ \ {m}]
          /\ req' = [req EXCEPT ![s] = {[kind |-> m.res[2], all |-> {}, left |-> {}]}]
    BY <1>16 DEF Receive
  <2>2. m.res \in Res /\ m.val \in Version \cup {Absent}
    BY <1>0, <2>1 DEF TypeOK, Revision
  <2>3. {[kind |-> m.res[2], all |-> {}, left |-> {}]} \in SUBSET Pending
    BY <2>2 DEF Res, Pending
  <2>4. req' \in [Streams -> SUBSET Pending] /\ inflight' \in [Streams -> SUBSET Revision]
    BY <1>0, <2>1, <2>3 DEF TypeOK
  <2>5. pop' \in [Streams -> [Res -> Version \cup {Absent}]]
    BY <1>0, <2>1, <2>2 DEF TypeOK
  <2>6. QED
    BY <1>0, <1>16, <2>4, <2>5 DEF Receive, TypeOK, notifyVars, serverVars
<1>17. ASSUME UNCHANGED vars PROVE TypeOK'
  BY <1>0, <1>17 DEF TypeOK, vars, notifyVars, serverVars, streamVars, gcpVars
<1>18. QED
  BY <1>1, <1>2, <1>3, <1>4, <1>5, <1>6, <1>7, <1>8, <1>9, <1>10, <1>11, <1>12,
     <1>13, <1>14, <1>15, <1>16, <1>17 DEF Next

-----------------------------------------------------------------------------
(* The stream invariant. *)

\* No stream exists initially.
LEMMA InitStreamInv == Init => StreamInv
BY DEF Init, StreamInv, StreamOK

\* The per-stream state the invariant speaks of.
Same(u) ==
  /\ conn'[u] = conn[u] /\ role'[u] = role[u] /\ certTenant'[u] = certTenant[u]
  /\ tenants'[u] = tenants[u] /\ named'[u] = named[u] /\ req'[u] = req[u]
  /\ watch'[u] = watch[u] /\ inflight'[u] = inflight[u]

\* A step that leaves a stream's state alone keeps its invariant.
LEMMA SameStreamOK == ASSUME NEW u \in Streams, StreamOK(u), Same(u) PROVE StreamOK(u)'
BY DEF StreamOK, Same, Authorized

\* The steps of a stream touch no other stream.
LEMMA OtherStream ==
  ASSUME TypeOK, NEW s \in Streams, NEW u \in Streams, u # s,
         \/ \E c \in Certs : StreamOpen(s, c)
         \/ \E q \in Requests : Subscribe(s, q)
         \/ HandleName(s) \/ HandleEmpty(s) \/ CreateWatch(s)
         \/ StreamClosed(s) \/ (\E r \in Res : Push(s, r)) \/ Receive(s)
  PROVE  Same(u)
<1> USE DEF TypeOK, Same, streamVars, gcpVars
<1>1. ASSUME NEW c \in Certs, StreamOpen(s, c) PROVE Same(u)
  BY <1>1 DEF StreamOpen
<1>2. ASSUME NEW q \in Requests, Subscribe(s, q) PROVE Same(u)
  BY <1>2 DEF Subscribe
<1>3. ASSUME HandleName(s) PROVE Same(u)
  BY <1>3 DEF HandleName, RecordRef
<1>4. ASSUME HandleEmpty(s) PROVE Same(u)
  BY <1>4 DEF HandleEmpty
<1>5. ASSUME CreateWatch(s) PROVE Same(u)
  BY <1>5 DEF CreateWatch
<1>6. ASSUME StreamClosed(s) PROVE Same(u)
  BY <1>6 DEF StreamClosed
<1>7. ASSUME NEW r \in Res, Push(s, r) PROVE Same(u)
  BY <1>7 DEF Push
<1>8. ASSUME Receive(s) PROVE Same(u)
  BY <1>8 DEF Receive
<1>9. QED
  BY <1>1, <1>2, <1>3, <1>4, <1>5, <1>6, <1>7, <1>8

\* Every step preserves the invariant of every stream.
LEMMA NextStreamInv == ASSUME IInv, [Next]_vars PROVE StreamInv'
<1> USE NamesAssumption
<1>0. TypeOK /\ \A s \in Streams : StreamOK(s)
  BY DEF IInv, StreamInv
<1>1. ASSUME NEW s \in Streams, NEW c \in Certs, StreamOpen(s, c) PROVE StreamOK(s)'
  BY <1>0, <1>1 DEF TypeOK, StreamOpen, StreamOK, gcpVars
<1>2. ASSUME NEW s \in Streams, NEW q \in Requests, Subscribe(s, q) PROVE StreamOK(s)'
  <2>1. /\ conn[s] = "open" /\ req[s] = {}
        /\ req'[s] = {[kind |-> q.kind, all |-> q.names, left |-> q.names]}
        /\ UNCHANGED <<conn, role, certTenant, tenants, named, watch, inflight>>
    BY <1>0, <1>2 DEF TypeOK, Subscribe, gcpVars
  <2>2. \A p \in req'[s] : p.all \subseteq p.left \cup tenants[s] /\ p.left \subseteq p.all
    BY <2>1
  <2>3. QED
    BY <1>0, <2>1, <2>2 DEF StreamOK, Authorized
<1>3. ASSUME NEW s \in Streams, HandleName(s) PROVE StreamOK(s)'
  <2>0. PICK q \in req[s] : \E n \in q.left : Named(s, q, n)
    BY <1>3 DEF HandleName, Named
  <2>1. PICK n \in q.left : Named(s, q, n)
    BY <2>0
  <2>2. UNCHANGED <<role, certTenant, watch, inflight>>
    BY <1>3 DEF HandleName, gcpVars
  <2>3. conn[s] = "open"
    BY <1>0, <2>0 DEF StreamOK
  <2>4. CASE /\ conn' = [conn EXCEPT ![s] = "failed"]
             /\ req' = [req EXCEPT ![s] = {}]
             /\ UNCHANGED <<todo, tenants, named, refs>>
    <3>1. conn'[s] = "failed" /\ req'[s] = {} /\ UNCHANGED <<tenants, named>>
      BY <1>0, <2>4 DEF TypeOK
    <3>2. QED
      BY <1>0, <2>2, <2>3, <3>1 DEF StreamOK, Authorized
  <2>5. CASE /\ n # BadName /\ Authorized(role[s], certTenant[s], n)
             /\ RecordRef(s, n, q.kind)
             /\ todo' = [todo EXCEPT ![s] = {<<n, q.kind>>}]
             /\ req' = [req EXCEPT ![s] = {[q EXCEPT !.left = @ \ {n}]}]
             /\ conn' = conn
    <3> DEFINE q1 == [q EXCEPT !.left = @ \ {n}]
    <3>1. q \in Pending
      BY <1>0, <2>0 DEF TypeOK
    <3>2. q1.kind = q.kind /\ q1.all = q.all /\ q1.left = q.left \ {n}
      BY <3>1 DEF Pending
    <3>3. q.all # {} /\ q.all \subseteq q.left \cup tenants[s]
      BY <1>0, <2>0, <2>1 DEF StreamOK
    <3>4. /\ conn'[s] = conn[s] /\ req'[s] = {q1}
          /\ tenants'[s] = tenants[s] \cup {n} /\ named'[s] = named[s] \cup {q.kind}
      BY <1>0, <2>5 DEF TypeOK, RecordRef
    <3> HIDE DEF q1
    <3>5. \A k \in named'[s] :
            \/ \E r \in watch[s].sub : r[2] = k
            \/ \E p \in req'[s] : p.kind = k /\ p.all # {}
      <4>1. \A k \in named[s] : (\E r \in watch[s].sub : r[2] = k) \/ k = q.kind
        BY <1>0, <2>0, <2>3 DEF StreamOK
      <4>2. q1 \in req'[s] /\ q1.kind = q.kind /\ q1.all # {}
        BY <3>2, <3>3, <3>4
      <4>3. QED
        BY <3>4, <4>1, <4>2
    <3>6. \A t \in tenants'[s] : Authorized(role[s], certTenant[s], t)
      BY <1>0, <2>5, <3>4 DEF StreamOK
    <3>7. \A p \in req'[s] : p.all \subseteq p.left \cup tenants'[s] /\ p.left \subseteq p.all
      BY <1>0, <2>0, <3>2, <3>3, <3>4 DEF StreamOK
    <3>8. QED
      BY <1>0, <2>2, <2>3, <3>4, <3>5, <3>6, <3>7 DEF StreamOK, Authorized
  <2>6. QED
    BY <2>1, <2>4, <2>5 DEF Named
<1>4. ASSUME NEW s \in Streams, HandleEmpty(s) PROVE StreamOK(s)'
  BY <1>0, <1>4 DEF TypeOK, HandleEmpty, StreamOK, Authorized, gcpVars
<1>5. ASSUME NEW s \in Streams, CreateWatch(s) PROVE StreamOK(s)'
  <2>1. PICK q \in req[s] :
          /\ q.left = {}
          /\ q.all = {} => q.kind \in named[s]
          /\ watch' = [watch EXCEPT
               ![s] = [sub  |-> @.sub \cup {<<t, q.kind>> : t \in q.all},
                       wild |-> IF q.all = {} /\ \A r \in @.sub : r[2] # q.kind
                                THEN @.wild \cup {q.kind} ELSE @.wild]]
    BY <1>5 DEF CreateWatch, RefusesEmpty
  <2>2. /\ req'[s] = {}
        /\ UNCHANGED <<conn, role, certTenant, tenants, named, inflight>>
    BY <1>0, <1>5 DEF TypeOK, CreateWatch
  <2>3. conn[s] = "open" /\ \A p \in req[s] : p = q
    BY <1>0, <2>1 DEF StreamOK
  <2>4. q.all = {} => \E r \in watch[s].sub : r[2] = q.kind
    BY <1>0, <2>1, <2>3 DEF StreamOK
  <2>5. /\ watch'[s].sub = watch[s].sub \cup {<<t, q.kind>> : t \in q.all}
        /\ watch'[s].wild = watch[s].wild
    BY <1>0, <2>1, <2>4 DEF TypeOK
  <2>6. \A r \in watch'[s].sub : r[1] \in tenants[s]
    BY <1>0, <2>1, <2>5 DEF StreamOK
  <2>7. \A k \in named[s] : \E r \in watch'[s].sub : r[2] = k
    <3>1. \A k \in named[s] : (\E r \in watch[s].sub : r[2] = k) \/ (k = q.kind /\ q.all # {})
      BY <1>0, <2>3 DEF StreamOK
    <3>2. ASSUME q.all # {} PROVE \E r \in watch'[s].sub : r[2] = q.kind
      <4>1. PICK t \in q.all : TRUE
        BY <3>2
      <4>2. <<t, q.kind>> \in watch'[s].sub
        BY <2>5, <4>1
      <4>3. QED
        BY <4>2
    <3>3. QED
      BY <2>5, <3>1, <3>2
  <2>8. QED
    BY <1>0, <2>2, <2>3, <2>5, <2>6, <2>7 DEF StreamOK, Authorized
<1>6. ASSUME NEW s \in Streams, StreamClosed(s) PROVE StreamOK(s)'
  BY <1>0, <1>6 DEF TypeOK, StreamClosed, StreamOK
<1>7. ASSUME NEW s \in Streams, NEW r \in Res, Push(s, r) PROVE StreamOK(s)'
  <2>1. /\ conn[s] = "open" /\ Watched(s, r)
        /\ inflight'[s] = inflight[s] \cup {[res |-> r, val |-> cache[r]]}
        /\ UNCHANGED <<conn, role, certTenant, tenants, named, req, watch>>
    BY <1>0, <1>7 DEF TypeOK, Push, streamVars
  <2>2. r[1] \in tenants[s]
    BY <1>0, <2>1 DEF Watched, StreamOK
  <2>3. \A m \in inflight'[s] : m.res[1] \in tenants[s]
    BY <1>0, <2>1, <2>2 DEF StreamOK
  <2>4. QED
    BY <1>0, <2>1, <2>3 DEF StreamOK, Authorized
<1>8. ASSUME NEW s \in Streams, Receive(s) PROVE StreamOK(s)'
  <2>1. PICK m \in inflight[s] :
          /\ inflight' = [inflight EXCEPT ![s] = @ \ {m}]
          /\ req' = [req EXCEPT ![s] = {[kind |-> m.res[2], all |-> {}, left |-> {}]}]
    BY <1>8 DEF Receive
  <2>2. /\ conn[s] = "open" /\ req[s] = {}
        /\ inflight'[s] \subseteq inflight[s]
        /\ req'[s] = {[kind |-> m.res[2], all |-> {}, left |-> {}]}
        /\ UNCHANGED <<conn, role, certTenant, tenants, named, watch>>
    BY <1>0, <1>8, <2>1 DEF TypeOK, Receive
  <2>3. \A p \in req'[s] : p.all \subseteq p.left \cup tenants[s] /\ p.left \subseteq p.all
    BY <2>2
  <2>4. QED
    BY <1>0, <2>2, <2>3 DEF StreamOK, Authorized
<1>9. ASSUME NEW u \in Streams, UNCHANGED <<streamVars, gcpVars>> PROVE StreamOK(u)'
  BY <1>0, <1>9, SameStreamOK DEF Same, streamVars, gcpVars
<1>10. ASSUME NEW s \in Streams,
              \/ \E c \in Certs : StreamOpen(s, c)
              \/ \E q \in Requests : Subscribe(s, q)
              \/ HandleName(s) \/ HandleEmpty(s) \/ CreateWatch(s)
              \/ StreamClosed(s) \/ (\E r \in Res : Push(s, r)) \/ Receive(s)
       PROVE  StreamInv'
  <2>1. StreamOK(s)'
    BY <1>10, <1>1, <1>2, <1>3, <1>4, <1>5, <1>6, <1>7, <1>8
  <2>2. ASSUME NEW u \in Streams, u # s PROVE StreamOK(u)'
    BY <1>0, <1>10, <2>2, OtherStream, SameStreamOK
  <2>3. QED
    BY <2>1, <2>2 DEF StreamInv
<1>11. ASSUME \/ \E r \in Res : Commit(r)
              \/ \E k \in Kinds : ListenDrop(k) \/ ListenReconnect(k) \/ OnNotify(k)
              \/ ReconcileAll
              \/ \E w \in Workers : LoadRead(w) \/ LoadError(w) \/ LoadUpdate(w)
              \/ UNCHANGED vars
       PROVE  StreamInv'
  <2>1. UNCHANGED <<streamVars, gcpVars>>
    BY <1>11 DEF Commit, ListenDrop, ListenReconnect, OnNotify, ReconcileAll,
                 LoadRead, LoadError, LoadUpdate, vars
  <2>2. QED
    BY <1>9, <2>1 DEF StreamInv
<1>12. QED
  BY <1>10, <1>11 DEF Next

-----------------------------------------------------------------------------
(* The subscription counts. *)

Subscribers(t) == {s \in Streams : t \in tenants[s]}

\* A subset of the streams is finite.
LEMMA SubscribersFinite == ASSUME NEW t PROVE IsFiniteSet(Subscribers(t))
BY WorkersAssumption, FS_Subset DEF Subscribers

\* A set with at most one element has no two.
LEMMA AtMostOne ==
  ASSUME NEW S, IsFiniteSet(S), Cardinality(S) <= 1, NEW x \in S, NEW y \in S
  PROVE  x = y
<1>1. IsFiniteSet(S \ {x}) /\ Cardinality(S \ {x}) = Cardinality(S) - 1
  BY FS_RemoveElement
<1>2. Cardinality(S) \in Nat /\ Cardinality(S \ {x}) \in Nat
  BY <1>1, FS_CardinalityType
<1>3. Cardinality(S \ {x}) = 0
  BY <1>1, <1>2
<1>4. S \ {x} = {}
  BY <1>1, <1>3, FS_EmptySet
<1>5. QED
  BY <1>4

\* Every step keeps tenantRefs equal to the number of subscribed streams.
LEMMA NextRefsConsistent == ASSUME IInv, RefsConsistent, [Next]_vars PROVE RefsConsistent'
<1>0. TypeOK /\ StreamInv /\ \A t \in Tenants : refs[t] = Cardinality(Subscribers(t))
  BY DEF IInv, RefsConsistent, Subscribers
<1>1. ASSUME NEW s \in Streams, HandleName(s) PROVE RefsConsistent'
  <2>0. PICK q \in req[s] : \E n \in q.left : Named(s, q, n)
    BY <1>1 DEF HandleName, Named
  <2>1. PICK n \in q.left : Named(s, q, n)
    BY <2>0
  <2>2. CASE UNCHANGED <<tenants, refs>>
    BY <1>0, <2>2 DEF RefsConsistent, Subscribers
  <2>3. CASE n # BadName /\ RecordRef(s, n, q.kind) /\ n \notin tenants[s]
    <3>1. n \in Tenants
      BY <1>0, <2>0, <2>1, <2>3 DEF TypeOK, Pending
    <3>2. /\ tenants' = [tenants EXCEPT ![s] = @ \cup {n}]
          /\ refs' = [refs EXCEPT ![n] = @ + 1]
      BY <2>3 DEF RecordRef
    <3>3. tenants \in [Streams -> SUBSET Tenants] /\ refs \in [Tenants -> Nat]
      BY <1>0 DEF TypeOK
    <3>4. Subscribers(n)' = Subscribers(n) \cup {s} /\ s \notin Subscribers(n)
      BY <2>3, <3>2, <3>3 DEF Subscribers
    <3>5. Cardinality(Subscribers(n)') = Cardinality(Subscribers(n)) + 1
      BY <3>4, SubscribersFinite, FS_AddElement
    <3>6. \A t \in Tenants \ {n} : Subscribers(t)' = Subscribers(t) /\ refs'[t] = refs[t]
      BY <3>2, <3>3 DEF Subscribers
    <3>7. \A t \in Tenants : refs'[t] = Cardinality(Subscribers(t)')
      BY <1>0, <3>1, <3>2, <3>3, <3>5, <3>6
    <3>8. QED
      BY <3>7 DEF RefsConsistent, Subscribers
  <2>4. CASE RecordRef(s, n, q.kind) /\ n \in tenants[s]
    <3>1. refs' = refs /\ tenants' = tenants
      BY <1>0, <2>4 DEF TypeOK, RecordRef
    <3>2. QED
      BY <1>0, <3>1 DEF RefsConsistent, Subscribers
  <2>5. QED
    BY <2>1, <2>2, <2>3, <2>4 DEF Named
<1>2. ASSUME NEW s \in Streams, StreamClosed(s) PROVE RefsConsistent'
  <2>1. tenants' = [tenants EXCEPT ![s] = {}] /\ refs' = ReleasedRefs(s)
    BY <1>2 DEF StreamClosed
  <2>2. tenants \in [Streams -> SUBSET Tenants] /\ refs \in [Tenants -> Nat]
    BY <1>0 DEF TypeOK
  <2>3. ASSUME NEW t \in Tenants, t \in tenants[s] PROVE refs'[t] = Cardinality(Subscribers(t)')
    <3>1. s \in Subscribers(t) /\ Subscribers(t)' = Subscribers(t) \ {s}
      BY <2>1, <2>2, <2>3 DEF Subscribers
    <3>2. Cardinality(Subscribers(t)') = Cardinality(Subscribers(t)) - 1
      BY <3>1, SubscribersFinite, FS_RemoveElement
    <3>3. Cardinality(Subscribers(t)) \in Nat /\ Cardinality(Subscribers(t)') \in Nat
      <4>1. IsFiniteSet(Subscribers(t)')
        BY <3>1, SubscribersFinite, FS_RemoveElement
      <4>2. QED
        BY <4>1, SubscribersFinite, FS_CardinalityType
    <3>4. QED
      BY <1>0, <2>1, <2>3, <3>2, <3>3 DEF ReleasedRefs
  <2>4. ASSUME NEW t \in Tenants, t \notin tenants[s] PROVE refs'[t] = Cardinality(Subscribers(t)')
    <3>1. Subscribers(t)' = Subscribers(t)
      BY <2>1, <2>2, <2>4 DEF Subscribers
    <3>2. QED
      BY <1>0, <2>1, <2>4, <3>1 DEF ReleasedRefs
  <2>5. QED
    BY <2>3, <2>4 DEF RefsConsistent, Subscribers
<1>3. ASSUME UNCHANGED <<tenants, refs>> PROVE RefsConsistent'
  BY <1>0, <1>3 DEF RefsConsistent, Subscribers
<1>4. QED
  BY <1>1, <1>2, <1>3 DEF Next, vars, serverVars, streamVars, Commit, ListenDrop,
     ListenReconnect, OnNotify, ReconcileAll, LoadRead, LoadError, LoadUpdate,
     StreamOpen, Subscribe, HandleEmpty, CreateWatch, Push, Receive

-----------------------------------------------------------------------------
(* The theorems. *)

\* The inductive invariant holds in every reachable state.
LEMMA Invariance == Spec => []IInv
<1>1. Init => IInv
  BY InitTypeOK, InitStreamInv DEF IInv
<1>2. IInv /\ [Next]_vars => IInv'
  BY NextTypeOK, NextStreamInv DEF IInv
<1>3. QED
  BY <1>1, <1>2, PTL DEF Spec

\* Type correctness of the distribution system.
THEOREM TypeCorrect == Spec => []TypeOK
<1>1. IInv => TypeOK
  BY DEF IInv
<1>2. QED
  BY <1>1, Invariance, PTL

\* No response is addressed to a stream whose certificate does not entitle it
\* (onDeltaRequest, authorizeSubscription, the wildcard guard).
THEOREM Isolation == Spec => []TenantIsolation
<1>1. IInv => TenantIsolation
  BY DEF IInv, StreamInv, StreamOK, TenantIsolation, Authorized
<1>2. QED
  BY <1>1, Invariance, PTL

\* tenantRefs is the number of live subscribed streams of each tenant
\* (recordRef, onDeltaStreamClosed).
THEOREM RefCounts == Spec => []RefsConsistent
<1>1. Init => RefsConsistent
  <2>1. ASSUME Init, NEW t \in Tenants PROVE refs[t] = Cardinality(Subscribers(t))
    <3>1. Subscribers(t) = {} /\ refs[t] = 0
      BY <2>1 DEF Init, Subscribers
    <3>2. QED
      BY <3>1, FS_EmptySet
  <2>2. QED
    BY <2>1 DEF RefsConsistent, Subscribers
<1>2. IInv /\ RefsConsistent /\ [Next]_vars => RefsConsistent'
  BY NextRefsConsistent
<1>3. QED
  BY <1>1, <1>2, Invariance, PTL DEF Spec

\* What a closing stream evicts, no other stream references: eviction never
\* withdraws a resource from a subscriber (onDeltaStreamClosed, evictTenant).
THEOREM EvictionSafe == Spec => EvictOnlyUnsubscribed
<1> DEFINE Kept == \A r \in Res : cache[r] # Absent /\ cache'[r] = Absent =>
                      \A s \in Streams : r[1] \notin tenants'[s]
<1>1. ASSUME IInv, RefsConsistent, Next PROVE Kept
  <2>0. TypeOK /\ \A t \in Tenants : refs[t] = Cardinality(Subscribers(t))
    BY <1>1 DEF IInv, RefsConsistent, Subscribers
  <2>1. ASSUME NEW s \in Streams, StreamClosed(s) PROVE Kept
    <3> SUFFICES ASSUME NEW r \in Res, cache[r] # Absent, cache'[r] = Absent,
                        NEW u \in Streams, r[1] \in tenants'[u]
                 PROVE  FALSE
      OBVIOUS
    <3>1. r \in Evicted(s)
      BY <2>0, <2>1 DEF StreamClosed, TypeOK
    <3>2. r[1] \in Tenants /\ r[1] \in tenants[s] /\ refs[r[1]] <= 1
      BY <3>1 DEF Evicted, Res
    <3>3. u # s /\ r[1] \in tenants[u]
      BY <2>0, <2>1 DEF StreamClosed, TypeOK
    <3>4. s \in Subscribers(r[1]) /\ u \in Subscribers(r[1])
      BY <3>2, <3>3 DEF Subscribers
    <3>5. Cardinality(Subscribers(r[1])) <= 1
      BY <2>0, <3>2
    <3>6. QED
      BY <3>3, <3>4, <3>5, SubscribersFinite, AtMostOne
  <2>2. ASSUME NEW w \in Workers, LoadUpdate(w) PROVE Kept
    <3>1. PICK h \in held[w] : cache' = [cache EXCEPT ![h.res] = h.val]
      BY <2>2 DEF LoadUpdate
    <3>2. h.val # Absent
      BY <2>0, <3>1 DEF TypeOK, Version, Absent
    <3>3. QED
      BY <2>0, <3>1, <3>2 DEF TypeOK
  <2>3. ASSUME cache' = cache PROVE Kept
    BY <2>3
  <2>4. QED
    BY <1>1, <2>1, <2>2, <2>3 DEF Next, serverVars, Commit, ListenDrop, ListenReconnect,
       OnNotify, ReconcileAll, LoadRead, LoadError, StreamOpen, Subscribe, HandleName,
       HandleEmpty, CreateWatch, Push, Receive
<1>2. IInv /\ RefsConsistent /\ [Next]_vars => [Kept]_vars
  BY <1>1
<1>3. QED
  BY <1>2, Invariance, RefCounts, PTL DEF Spec, EvictOnlyUnsubscribed
=============================================================================
