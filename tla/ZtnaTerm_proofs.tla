-------------------------- MODULE ZtnaTerm_proofs --------------------------
(***************************************************************************)
(* Proofs about ZtnaTerm, for any addresses, credentials, handshakes and   *)
(* workers and any bounds: type correctness, the authority of the          *)
(* revocation callback, the bound on cached verdicts, and the reasons for  *)
(* which a session leaves the table.                                       *)
(***************************************************************************)
EXTENDS ZtnaTerm, TLAPS

Caches == UNION {[A -> Verdict] : A \in SUBSET Apps}

\* TypeOK, with the shape of the functions it leaves open, and what a worker
\* needs to know of its application before it stores a verdict for it.
TableInv ==
  /\ now \in Time
  /\ n \in 0 .. MaxSessions
  /\ claims \in [1 .. n -> [src : Addrs, jti : Jtis, deadline : Nat]]
  /\ innerIPs \in [Ids -> SUBSET IPs]
  /\ bySrc \in [Addrs -> 0 .. n]
  /\ byInnerIP \in [IPs -> 0 .. n]
StoreInv ==
  /\ revoked \in SUBSET Jtis /\ enforced \in SUBSET revoked
  /\ policy \in SUBSET Apps
  /\ deniedAt \in [Apps -> Time]
VictimInv ==
  /\ callback \in [pc : {"idle", "scan", "evict"}, victims : SUBSET (1 .. n)]
  /\ sweep \in SUBSET (1 .. n)
HandshakeInv == hs \in [Handshakes -> SUBSET [src : Addrs, jti : Jtis]]
FlowInv == flows \in [Ids -> Caches]
WorkerOK(r) ==
  \/ r = Idle
  \/ /\ r \in Busy
     /\ r.ts <= n
     /\ r.pc \in {"gate", "pep", "store", "open"} => r.app \in Apps
WorkerInv == wk = [w \in Workers |-> wk[w]] /\ \A w \in Workers : WorkerOK(wk[w])

TypeInv == TableInv /\ StoreInv /\ VictimInv /\ HandshakeInv /\ FlowInv /\ WorkerInv

\* The entries of a cache.
LEMMA FlowTypes ==
  ASSUME TypeInv
  PROVE  \A k \in Ids : \A a \in DOMAIN flows[k] : a \in Apps /\ flows[k][a] \in Verdict
<1> SUFFICES ASSUME NEW k \in Ids, NEW a \in DOMAIN flows[k]
             PROVE  a \in Apps /\ flows[k][a] \in Verdict
  OBVIOUS
<1>1. flows[k] \in Caches
  BY DEF TypeInv, FlowInv
<1>2. PICK A \in SUBSET Apps : flows[k] \in [A -> Verdict]
  BY <1>1 DEF Caches
<1> QED
  BY <1>2

\* The histories of the return traffic.
BackType == lateIndex \in SUBSET IPs /\ leaked \in BOOLEAN

\* The strengthened invariant implies the one that is checked.
LEMMA TypeInvOK == ASSUME TypeInv, BackType PROVE TypeOK
BY FlowTypes DEF BackType, TypeInv, TypeOK, TableInv, StoreInv, VictimInv, HandshakeInv, WorkerInv, WorkerOK

\* The initial state has the right types.
LEMMA TypeInit == Init => TypeInv
<1> SUFFICES ASSUME Init PROVE TypeInv
  OBVIOUS
<1> USE TimeAssumption DEF Init
<1>1. TableInv
  BY DEF TableInv, Time, Ids, None
<1>2. StoreInv
  BY DEF StoreInv, Time, None
<1>3. VictimInv /\ HandshakeInv
  BY DEF VictimInv, HandshakeInv
<1>4. FlowInv
  <2>1. [a \in {} |-> None] \in [{} -> Verdict]
    OBVIOUS
  <2> QED
    BY <2>1 DEF FlowInv, Caches
<1>5. WorkerInv
  BY DEF WorkerInv, WorkerOK
<1> QED
  BY <1>1, <1>2, <1>3, <1>4, <1>5 DEF TypeInv

-----------------------------------------------------------------------------
(* What the steps of a worker do to its record. *)

\* A worker that is somewhere is busy.
LEMMA BusyWorker ==
  ASSUME WorkerInv, NEW w \in Workers, wk[w].pc # "idle"
  PROVE  /\ wk[w] \in Busy /\ wk[w].ts \in 1 .. n
         /\ wk[w].pc \in {"gate", "pep", "store", "open"} => wk[w].app \in Apps
BY DEF WorkerInv, WorkerOK, Idle, Busy, Ids

\* The fields of a busy worker's record may be set to values of their types.
LEMMA BusyFields ==
  ASSUME NEW r \in Busy
  PROVE  /\ \A p \in {"gate", "store", "write"} :
              [r EXCEPT !.pc = p] \in Busy /\ [r EXCEPT !.pc = p].pc = p
              /\ [r EXCEPT !.pc = p].ts = r.ts /\ [r EXCEPT !.pc = p].app = r.app
         /\ \A t \in Time :
              [r EXCEPT !.at = t] \in Busy /\ [r EXCEPT !.at = t].pc = r.pc
              /\ [r EXCEPT !.at = t].ts = r.ts /\ [r EXCEPT !.at = t].app = r.app
         /\ \A b \in BOOLEAN :
              [r EXCEPT !.allow = b] \in Busy /\ [r EXCEPT !.allow = b].pc = r.pc
              /\ [r EXCEPT !.allow = b].ts = r.ts /\ [r EXCEPT !.allow = b].app = r.app
BY DEF Busy

\* One worker's record is replaced by a good one.
LEMMA WorkerStep ==
  ASSUME WorkerInv, NEW w \in Workers, NEW r, WorkerOK(r), n' = n,
         wk' = [wk EXCEPT ![w] = r]
  PROVE  WorkerInv'
<1>1. \A v \in Workers : wk'[v] = IF v = w THEN r ELSE wk[v]
  BY DEF WorkerInv
<1>2. \A x : WorkerOK(x) => WorkerOK(x)'
  BY DEF WorkerOK
<1> QED
  BY <1>1, <1>2 DEF WorkerInv

\* Goto to any place but those that need an application, or to one of them
\* from another of them.
LEMMA GotoStep ==
  ASSUME WorkerInv, NEW w \in Workers, wk[w].pc # "idle", n' = n, NEW p, Goto(w, p),
         p \in {"evict", "learn", "index", "decide", "gate", "pep", "store", "write", "open"},
         p \in {"gate", "pep", "store", "open"} => wk[w].pc \in {"gate", "pep", "store", "open"}
  PROVE  WorkerInv'
<1> DEFINE r == [wk[w] EXCEPT !.pc = p]
<1>1. WorkerOK(r)
  BY BusyWorker DEF WorkerOK, Busy
<1>2. wk' = [wk EXCEPT ![w] = r]
  BY DEF Goto
<1> QED
  BY <1>1, <1>2, WorkerStep

\* A worker that is done is idle.
LEMMA DoneStep ==
  ASSUME WorkerInv, NEW w \in Workers, n' = n, Done(w)
  PROVE  WorkerInv'
BY WorkerStep DEF Done, WorkerOK

\* Begin makes a good record of an established session.
LEMMA BeginStep ==
  ASSUME WorkerInv, NEW w \in Workers, n' = n, n \in 0 .. MaxSessions,
         NEW k \in 1 .. n, NEW path \in {"packet", "proxy"}, NEW ip \in IPs,
         NEW app \in Apps \cup {NoApp}, NEW pc \in {"evict", "learn", "gate"},
         pc = "gate" => app \in Apps, Begin(w, k, path, ip, app, pc)
  PROVE  WorkerInv'
<1> DEFINE r == [pc |-> pc, ts |-> k, path |-> path, ip |-> ip, app |-> app, at |-> 0,
                 allow |-> FALSE, late |-> claims[k].jti \in enforced]
<1>1. r \in Busy
  BY TimeAssumption DEF Busy, Ids, Time
<1>2. WorkerOK(r)
  BY <1>1 DEF WorkerOK
<1>3. wk' = [wk EXCEPT ![w] = r]
  BY DEF Begin
<1> QED
  BY <1>2, <1>3, WorkerStep

-----------------------------------------------------------------------------
(* Type correctness. *)

\* Evict keeps the types of the two indexes.
LEMMA EvictTypes ==
  ASSUME TableInv, NEW k \in 1 .. n, Evict(k)
  PROVE  bySrc' \in [Addrs -> 0 .. n] /\ byInnerIP' \in [IPs -> 0 .. n]
<1>1. claims[k].src \in Addrs /\ 0 \in 0 .. n
  BY TimeAssumption DEF TableInv
<1>2. Unindexed(k) \in [IPs -> 0 .. n]
  BY <1>1 DEF Unindexed, TableInv, None
<1> QED
  BY <1>1, <1>2 DEF Evict, TableInv, None

\* Steps of the environment and of the handshakes keep the types.
LEMMA TypeOutside ==
  ASSUME TypeInv,
         \/ Tick
         \/ \E p \in SUBSET Apps : SetBundle(p)
         \/ \E h \in Handshakes :
              \/ \E a \in Addrs, t \in Tenants, j \in Jtis : VerifyCred(h, a, t, j)
              \/ OnEstablished(h)
  PROVE  TypeInv'
<1> USE TimeAssumption, CredAssumption
<1>1. CASE Tick
  <2>1. now' \in Time
    BY <1>1 DEF Tick, Time, TypeInv, TableInv
  <2> QED
    BY <1>1, <2>1 DEF Tick, TypeInv, TableInv, StoreInv, VictimInv, HandshakeInv, FlowInv,
                      WorkerInv, WorkerOK, tableVars, revVars, polVars
<1>2. ASSUME NEW p \in SUBSET Apps, SetBundle(p) PROVE TypeInv'
  <2>1. deniedAt' \in [Apps -> Time]
    BY <1>2 DEF SetBundle, TypeInv, StoreInv, TableInv
  <2> QED
    BY <1>2, <2>1 DEF SetBundle, TypeInv, TableInv, StoreInv, VictimInv, HandshakeInv, FlowInv,
                      WorkerInv, WorkerOK, tableVars, revVars
<1>3. ASSUME NEW h \in Handshakes, NEW a \in Addrs, NEW t \in Tenants, NEW j \in Jtis,
             VerifyCred(h, a, t, j)
      PROVE  TypeInv'
  <2>1. HandshakeInv'
    BY <1>3 DEF VerifyCred, TypeInv, HandshakeInv
  <2> QED
    BY <1>3, <2>1 DEF VerifyCred, TypeInv, TableInv, StoreInv, VictimInv, FlowInv,
                      WorkerInv, WorkerOK, tableVars, revVars, polVars
<1>4. ASSUME NEW h \in Handshakes, OnEstablished(h) PROVE TypeInv'
  <2>1. PICK e \in hs[h] :
          /\ claims' = [k \in 1 .. n + 1 |->
               IF k <= n THEN claims[k]
               ELSE [src |-> e.src, jti |-> e.jti, deadline |-> Deadline(e.jti)]]
          /\ byInnerIP' = IF bySrc[e.src] = None THEN byInnerIP ELSE Unindexed(bySrc[e.src])
          /\ bySrc' = [bySrc EXCEPT ![e.src] = n + 1]
    BY <1>4 DEF OnEstablished
  <2>2. e \in [src : Addrs, jti : Jtis]
    BY <2>1 DEF TypeInv, HandshakeInv
  <2>3. n \in 0 .. MaxSessions /\ n < MaxSessions /\ n' = n + 1
    BY <1>4 DEF OnEstablished, TypeInv, TableInv
  <2>4. Deadline(e.jti) \in Nat
    BY <2>2 DEF Deadline, TypeInv, TableInv, Time
  <2>5. claims' \in [1 .. n + 1 -> [src : Addrs, jti : Jtis, deadline : Nat]]
    <3>1. ASSUME NEW k \in 1 .. n + 1
          PROVE  claims'[k] \in [src : Addrs, jti : Jtis, deadline : Nat]
      <4>1. CASE k <= n
        <5>1. k \in 1 .. n
          BY <2>3, <4>1
        <5> QED
          BY <2>1, <4>1, <5>1 DEF TypeInv, TableInv
      <4>2. CASE ~(k <= n)
        BY <2>1, <2>2, <2>4, <4>2
      <4> QED
        BY <4>1, <4>2
    <3> QED
      BY <2>1, <3>1
  <2>6. bySrc' \in [Addrs -> 0 .. n + 1]
    BY <2>1, <2>2, <2>3 DEF TypeInv, TableInv
  <2>7. byInnerIP' \in [IPs -> 0 .. n + 1]
    BY <2>1, <2>3 DEF TypeInv, TableInv, Unindexed, None
  <2>8. TableInv'
    BY <1>4, <2>3, <2>5, <2>6, <2>7 DEF OnEstablished, TypeInv, TableInv
  <2>9. HandshakeInv'
    BY <1>4 DEF OnEstablished, TypeInv, HandshakeInv
  <2>10. VictimInv'
    BY <1>4, <2>3 DEF OnEstablished, TypeInv, VictimInv, revVars
  <2>11. WorkerInv'
    <3>1. \A x : WorkerOK(x) => WorkerOK(x)'
      BY <2>3 DEF WorkerOK, Busy, Ids
    <3> QED
      BY <1>4, <3>1 DEF OnEstablished, TypeInv, WorkerInv
  <2> QED
    BY <1>4, <2>8, <2>9, <2>10, <2>11 DEF OnEstablished, TypeInv, StoreInv, FlowInv, revVars, polVars
<1> QED
  BY <1>1, <1>2, <1>3, <1>4

\* Steps of the revocation callback and of the sweep keep the types.
LEMMA TypeEviction ==
  ASSUME TypeInv,
         \/ \E s \in SUBSET Jtis : SetRevoked(s)
         \/ ScanRevoked \/ EvictNextRevoked \/ CallbackReturns
         \/ ScanExpired \/ EvictNextExpired
  PROVE  TypeInv'
<1>0. \A x : WorkerOK(x) /\ n' = n => WorkerOK(x)'
  BY DEF WorkerOK
<1>1. ASSUME NEW s \in SUBSET Jtis, SetRevoked(s) PROVE TypeInv'
  <2>1. \A w \in Workers : wk'[w] =
          IF wk[w] # Idle /\ claims[wk[w].ts].jti \notin s
          THEN [wk[w] EXCEPT !.late = FALSE] ELSE wk[w]
    BY <1>1 DEF SetRevoked
  <2>2. \A r : WorkerOK(r) /\ r # Idle => WorkerOK([r EXCEPT !.late = FALSE])
    BY DEF WorkerOK, Busy
  <2>3. \A w \in Workers : WorkerOK(wk'[w])
    BY <2>1, <2>2 DEF TypeInv, WorkerInv
  <2>4. WorkerInv'
    BY <1>0, <1>1, <2>3 DEF SetRevoked, tableVars, WorkerInv
  <2>5. StoreInv' /\ VictimInv'
    BY <1>1 DEF SetRevoked, TypeInv, StoreInv, VictimInv, tableVars, polVars
  <2> QED
    BY <1>1, <2>4, <2>5 DEF SetRevoked, TypeInv, TableInv, HandshakeInv, FlowInv, tableVars
<1>2. CASE ScanRevoked
  <2>1. RevokedSessions \subseteq 1 .. n
    BY DEF RevokedSessions, Live
  <2> QED
    BY <1>0, <1>2, <2>1 DEF ScanRevoked, TypeInv, TableInv, StoreInv, VictimInv, HandshakeInv,
                            FlowInv, WorkerInv, tableVars, polVars
<1>3. CASE EvictNextRevoked
  <2>1. PICK k \in callback.victims :
          Evict(k) /\ callback' = [callback EXCEPT !.victims = @ \ {k}]
    BY <1>3 DEF EvictNextRevoked
  <2>2. k \in 1 .. n
    BY <2>1 DEF TypeInv, VictimInv
  <2>3. TableInv'
    BY <1>3, <2>1, <2>2, EvictTypes DEF EvictNextRevoked, TypeInv, TableInv
  <2>4. VictimInv'
    BY <1>3, <2>1 DEF EvictNextRevoked, TypeInv, VictimInv
  <2> QED
    BY <1>0, <1>3, <2>3, <2>4 DEF EvictNextRevoked, TypeInv, StoreInv, HandshakeInv, FlowInv,
                                  WorkerInv, polVars
<1>4. CASE CallbackReturns
  BY <1>0, <1>4 DEF CallbackReturns, TypeInv, TableInv, StoreInv, VictimInv, HandshakeInv,
                    FlowInv, WorkerInv, tableVars, polVars
<1>5. CASE ScanExpired
  <2>1. ExpiredSessions \subseteq 1 .. n
    BY DEF ExpiredSessions, Live
  <2> QED
    BY <1>0, <1>5, <2>1 DEF ScanExpired, TypeInv, TableInv, StoreInv, VictimInv, HandshakeInv,
                            FlowInv, WorkerInv, tableVars, revVars, polVars
<1>6. CASE EvictNextExpired
  <2>1. PICK k \in sweep : Evict(k) /\ sweep' = sweep \ {k}
    BY <1>6 DEF EvictNextExpired
  <2>2. k \in 1 .. n
    BY <2>1 DEF TypeInv, VictimInv
  <2>3. TableInv'
    BY <1>6, <2>1, <2>2, EvictTypes DEF EvictNextExpired, TypeInv, TableInv
  <2>4. VictimInv'
    BY <1>6, <2>1 DEF EvictNextExpired, TypeInv, VictimInv, revVars
  <2> QED
    BY <1>0, <1>6, <2>3, <2>4 DEF EvictNextExpired, TypeInv, StoreInv, HandshakeInv, FlowInv,
                                  WorkerInv, revVars, polVars
<1> QED
  BY <1>1, <1>2, <1>3, <1>4, <1>5, <1>6
\* The steps of a worker.
WorkerSteps(w) ==
  \/ \E a \in Addrs, ip \in IPs, app \in Apps \cup {NoApp} : HandleDatagram(w, a, ip, app)
  \/ LearnInnerIP(w) \/ IndexInnerIP(w) \/ Decide(w) \/ Gate(w) \/ EvictFound(w)
  \/ Pep(w) \/ Store(w) \/ WriteTun(w)
  \/ \E ip \in IPs, app \in Apps \cup {NoApp} : ProxyConn(w, ip, app)
  \/ ProxyOpen(w)

\* Storing a verdict makes a cache of a cache.
LEMMA StoreCache ==
  ASSUME NEW c \in Caches, NEW b \in Apps, NEW v \in Verdict
  PROVE  [a \in DOMAIN c \cup {b} |-> IF a = b THEN v ELSE c[a]] \in Caches
<1>1. PICK A \in SUBSET Apps : c \in [A -> Verdict]
  BY DEF Caches
<1>2. [a \in DOMAIN c \cup {b} |-> IF a = b THEN v ELSE c[a]] \in [A \cup {b} -> Verdict]
  BY <1>1
<1> QED
  BY <1>2 DEF Caches

\* Steps of the data plane keep the types.
LEMMA TypeWorker ==
  ASSUME TypeInv, NEW w \in Workers, WorkerSteps(w)
  PROVE  TypeInv'
<1>0. TableInv /\ WorkerInv /\ n \in 0 .. MaxSessions
  BY DEF TypeInv, TableInv
<1>1. ASSUME NEW a \in Addrs, NEW ip \in IPs, NEW app \in Apps \cup {NoApp},
             HandleDatagram(w, a, ip, app)
      PROVE  TypeInv'
  <2>1. bySrc[a] \in 1 .. n /\ n' = n
    BY <1>0, <1>1 DEF HandleDatagram, TableInv, None, tableVars
  <2>2. Begin(w, bySrc[a], "packet", ip, app, IF Expired(bySrc[a]) THEN "evict" ELSE "learn")
    BY <1>1 DEF HandleDatagram
  <2>3. WorkerInv'
    BY <1>0, <2>1, <2>2, BeginStep
  <2> QED
    BY <1>1, <2>3 DEF HandleDatagram, TypeInv, TableInv, StoreInv, VictimInv, HandshakeInv,
                      FlowInv, tableVars, revVars, polVars
<1>2. CASE LearnInnerIP(w)
  <2>1. wk[w].pc # "idle" /\ n' = n
    BY <1>2 DEF LearnInnerIP, At
  <2>2. wk[w] \in Busy
    BY <1>0, <2>1, BusyWorker
  <2>3. WorkerInv'
    BY <1>0, <1>2, <2>1, GotoStep DEF LearnInnerIP
  <2>4. innerIPs' \in [Ids -> SUBSET IPs]
    BY <1>0, <1>2, <2>2 DEF LearnInnerIP, TableInv, Busy
  <2> QED
    BY <1>2, <2>3, <2>4 DEF LearnInnerIP, TypeInv, TableInv, StoreInv, VictimInv, HandshakeInv,
                            FlowInv, revVars, polVars
<1>3. CASE IndexInnerIP(w)
  <2>1. wk[w].pc # "idle" /\ n' = n
    BY <1>3 DEF IndexInnerIP, At
  <2>2. wk[w] \in Busy /\ wk[w].ts \in 1 .. n
    BY <1>0, <2>1, BusyWorker
  <2>3. WorkerInv'
    BY <1>0, <1>3, <2>1, GotoStep DEF IndexInnerIP
  <2>4. byInnerIP' \in [IPs -> 0 .. n]
    BY <1>0, <1>3, <2>2 DEF IndexInnerIP, TableInv, Busy
  <2> QED
    BY <1>3, <2>3, <2>4 DEF IndexInnerIP, TypeInv, TableInv, StoreInv, VictimInv, HandshakeInv,
                            FlowInv, revVars, polVars
<1>4. CASE Decide(w)
  <2>1. wk[w].pc # "idle" /\ n' = n
    BY <1>4 DEF Decide, At, tableVars
  <2>2. wk[w] \in Busy /\ wk[w].ts \in 1 .. n
    BY <1>0, <2>1, BusyWorker
  <2>3. WorkerInv'
    <3>1. CASE Goto(w, "write")
      BY <1>0, <2>1, <3>1, GotoStep
    <3>2. CASE Done(w)
      BY <1>0, <2>1, <3>2, DoneStep
    <3>3. CASE ~Unresolved(wk[w].app) /\ wk' = [wk EXCEPT ![w].pc = "gate", ![w].at = now]
      <4> DEFINE r == [wk[w] EXCEPT !.pc = "gate", !.at = now]
      <4>0. now \in Time /\ wk[w].app \in Apps
        BY <1>0, <2>2, <3>3 DEF TableInv, Unresolved, Busy
      <4>1. WorkerOK(r)
        <5> DEFINE q == [wk[w] EXCEPT !.pc = "gate"]
        <5>1. q \in Busy /\ q.ts = wk[w].ts /\ q.app = wk[w].app
          BY <2>2, BusyFields
        <5>2. r = [q EXCEPT !.at = now]
          OBVIOUS
        <5> HIDE DEF q, r
        <5>3. r \in Busy /\ r.ts = wk[w].ts /\ r.app = wk[w].app
          BY <4>0, <5>1, <5>2, BusyFields
        <5> QED
          BY <2>2, <4>0, <5>3 DEF WorkerOK
      <4>2. wk' = [wk EXCEPT ![w] = r]
        BY <3>3
      <4> QED
        BY <1>0, <2>1, <4>1, <4>2, WorkerStep
    <3> QED
      BY <1>4, <3>1, <3>2, <3>3 DEF Decide
  <2> QED
    BY <1>4, <2>3 DEF Decide, TypeInv, TableInv, StoreInv, VictimInv, HandshakeInv,
                      FlowInv, tableVars, revVars, polVars
<1>5. CASE Gate(w)
  <2>1. wk[w].pc = "gate" /\ n' = n
    BY <1>5 DEF Gate, At, tableVars
  <2>2. WorkerInv'
    BY <1>0, <1>5, <2>1, GotoStep DEF Gate
  <2> QED
    BY <1>5, <2>2 DEF Gate, TypeInv, TableInv, StoreInv, VictimInv, HandshakeInv,
                      FlowInv, tableVars, revVars, polVars
<1>6. CASE EvictFound(w)
  <2>1. wk[w].pc # "idle" /\ n' = n
    BY <1>6 DEF EvictFound, At
  <2>2. wk[w].ts \in 1 .. n
    BY <1>0, <2>1, BusyWorker
  <2>3. WorkerInv'
    BY <1>0, <1>6, <2>1, DoneStep DEF EvictFound
  <2>4. TableInv'
    BY <1>0, <1>6, <2>2, EvictTypes DEF EvictFound, TableInv
  <2> QED
    BY <1>6, <2>3, <2>4 DEF EvictFound, TypeInv, StoreInv, VictimInv, HandshakeInv,
                            FlowInv, revVars, polVars
<1>7. CASE Pep(w)
  <2>1. wk[w].pc = "pep" /\ n' = n
    BY <1>7 DEF Pep, At, tableVars
  <2>2. wk[w] \in Busy /\ wk[w].ts \in 1 .. n /\ wk[w].app \in Apps
    BY <1>0, <2>1, BusyWorker
  <2>3. WorkerInv'
    <3>1. CASE Goto(w, "open")
      BY <1>0, <2>1, <3>1, GotoStep
    <3>2. CASE Done(w)
      BY <1>0, <2>1, <3>2, DoneStep
    <3>3. CASE wk' = [wk EXCEPT ![w].pc = "store", ![w].allow = wk[w].app \in policy]
      <4> DEFINE r == [wk[w] EXCEPT !.pc = "store", !.allow = wk[w].app \in policy]
      <4>1. WorkerOK(r)
        <5> DEFINE q == [wk[w] EXCEPT !.pc = "store"]
                   ok == wk[w].app \in policy
        <5>1. q \in Busy /\ q.ts = wk[w].ts /\ q.app = wk[w].app
          BY <2>2, BusyFields
        <5>2. r = [q EXCEPT !.allow = ok] /\ ok \in BOOLEAN
          OBVIOUS
        <5> HIDE DEF q, r, ok
        <5>3. r \in Busy /\ r.ts = wk[w].ts /\ r.app = wk[w].app
          BY <5>1, <5>2, BusyFields
        <5> QED
          BY <2>2, <5>3 DEF WorkerOK
      <4>2. wk' = [wk EXCEPT ![w] = r]
        BY <3>3
      <4> QED
        BY <1>0, <2>1, <4>1, <4>2, WorkerStep
    <3> QED
      BY <1>7, <3>1, <3>2, <3>3 DEF Pep
  <2> QED
    BY <1>7, <2>3 DEF Pep, TypeInv, TableInv, StoreInv, VictimInv, HandshakeInv,
                      FlowInv, tableVars, revVars, polVars
<1>8. CASE Store(w)
  <2>1. wk[w].pc = "store" /\ n' = n
    BY <1>8 DEF Store, At
  <2>2. wk[w] \in Busy /\ wk[w].ts \in 1 .. n /\ wk[w].app \in Apps
    BY <1>0, <2>1, BusyWorker
  <2>3. WorkerInv'
    <3>1. CASE Done(w)
      BY <1>0, <2>1, <3>1, DoneStep
    <3>2. CASE wk' = [wk EXCEPT ![w].pc = "write", ![w].at = 0, ![w].allow = FALSE]
      <4> DEFINE r == [wk[w] EXCEPT !.pc = "write", !.at = 0, !.allow = FALSE]
      <4>1. WorkerOK(r)
        <5> DEFINE p == [wk[w] EXCEPT !.pc = "write"]
                   q == [p EXCEPT !.at = 0]
        <5>0. 0 \in Time
          BY TimeAssumption DEF Time
        <5>1. p \in Busy /\ p.ts = wk[w].ts /\ p.app = wk[w].app
          BY <2>2, BusyFields
        <5>2. q \in Busy /\ q.ts = p.ts /\ q.app = p.app
          <6> HIDE DEF p
          <6> QED
            BY <5>0, <5>1, BusyFields
        <5>3. r = [q EXCEPT !.allow = FALSE]
          OBVIOUS
        <5> HIDE DEF p, q, r
        <5>4. r \in Busy /\ r.ts = wk[w].ts /\ r.app = wk[w].app
          BY <5>1, <5>2, <5>3, BusyFields
        <5> QED
          BY <2>2, <5>4 DEF WorkerOK
      <4>2. wk' = [wk EXCEPT ![w] = r]
        BY <3>2
      <4> QED
        BY <1>0, <2>1, <4>1, <4>2, WorkerStep
    <3> QED
      BY <1>8, <3>1, <3>2 DEF Store
  <2>4. FlowInv'
    <3> DEFINE k == wk[w].ts
               v == [allow |-> wk[w].allow, expire |-> Expire(w)]
               c == [a \in DOMAIN flows[k] \cup {wk[w].app} |->
                       IF a = wk[w].app THEN v ELSE flows[k][a]]
    <3>1. v \in Verdict
      BY <2>2, TimeAssumption DEF Verdict, Busy, Expire, Time
    <3>2. k \in Ids /\ flows[k] \in Caches
      BY <2>2 DEF Busy, TypeInv, FlowInv
    <3>3. c \in Caches
      BY <2>2, <3>1, <3>2, StoreCache
    <3>4. flows' = [flows EXCEPT ![k] = c]
      BY <1>8 DEF Store
    <3> HIDE DEF c
    <3> QED
      BY <3>2, <3>3, <3>4 DEF TypeInv, FlowInv
  <2> QED
    BY <1>8, <2>3, <2>4 DEF Store, TypeInv, TableInv, StoreInv, VictimInv, HandshakeInv,
                            revVars, polVars
<1>9. CASE WriteTun(w) \/ ProxyOpen(w)
  <2>1. WorkerInv'
    BY <1>0, <1>9, DoneStep DEF WriteTun, ProxyOpen, tableVars
  <2> QED
    BY <1>9, <2>1 DEF WriteTun, ProxyOpen, TypeInv, TableInv, StoreInv, VictimInv, HandshakeInv,
                      FlowInv, tableVars, revVars, polVars
<1>10. ASSUME NEW ip \in IPs, NEW app \in Apps \cup {NoApp}, ProxyConn(w, ip, app)
       PROVE  TypeInv'
  <2>1. byInnerIP[ip] \in 1 .. n /\ n' = n
    BY <1>0, <1>10 DEF ProxyConn, TableInv, None, tableVars
  <2>2. Begin(w, byInnerIP[ip], "proxy", ip, app, IF Expired(byInnerIP[ip]) THEN "evict" ELSE "gate")
    BY <1>10 DEF ProxyConn
  <2>3. Expired(byInnerIP[ip]) \/ app \in Apps
    BY <1>10, AppsAssumption DEF ProxyConn
  <2>4. WorkerInv'
    BY <1>0, <2>1, <2>2, <2>3, BeginStep
  <2> QED
    BY <1>10, <2>4 DEF ProxyConn, TypeInv, TableInv, StoreInv, VictimInv, HandshakeInv,
                       FlowInv, tableVars, revVars, polVars
<1> QED
  BY <1>1, <1>2, <1>3, <1>4, <1>5, <1>6, <1>7, <1>8, <1>9, <1>10 DEF WorkerSteps

\* Every step preserves the types.
LEMMA TypeStep == TypeInv /\ [Next]_vars => TypeInv'
<1> SUFFICES ASSUME TypeInv, [Next]_vars PROVE TypeInv'
  OBVIOUS
<1>1. CASE UNCHANGED vars
  BY <1>1 DEF vars, tableVars, revVars, polVars, TypeInv, TableInv, StoreInv, VictimInv,
              HandshakeInv, FlowInv, WorkerInv, WorkerOK
<1>2. ASSUME NEW ip \in IPs, ReturnPump(ip) PROVE TypeInv'
  BY <1>2 DEF ReturnPump, tableVars, revVars, polVars, TypeInv, TableInv, StoreInv, VictimInv,
              HandshakeInv, FlowInv, WorkerInv, WorkerOK
<1> QED
  BY <1>1, <1>2, TypeOutside, TypeEviction, TypeWorker DEF Next, WorkerSteps

\* What a step may do to the histories of the return traffic.
LEMMA StepBack ==
  ASSUME [Next]_vars
  PROVE  \/ UNCHANGED backVars
         \/ \E w \in Workers : IndexInnerIP(w)
         \/ \E ip \in IPs : ReturnPump(ip)
BY Zenon DEF Next, vars, Tick, SetBundle, VerifyCred, OnEstablished, SetRevoked, ScanRevoked,
       EvictNextRevoked, CallbackReturns, ScanExpired, EvictNextExpired, HandleDatagram,
       LearnInnerIP, Decide, Gate, EvictFound, Pep, Store, WriteTun, ProxyConn, ProxyOpen

\* The histories keep their types.
LEMMA BackTypeStep == TypeInv /\ BackType /\ [Next]_vars => BackType'
<1> SUFFICES ASSUME TypeInv, BackType, [Next]_vars PROVE BackType'
  OBVIOUS
<1>1. CASE UNCHANGED backVars
  BY <1>1 DEF BackType, backVars
<1>2. ASSUME NEW w \in Workers, IndexInnerIP(w) PROVE BackType'
  <2>1. wk[w].ip \in IPs
    BY <1>2, BusyWorker DEF IndexInnerIP, At, TypeInv, Busy
  <2>2. lateIndex' \in SUBSET IPs
    BY <1>2, <2>1 DEF IndexInnerIP, BackType
  <2> QED
    BY <1>2, <2>2 DEF IndexInnerIP, BackType
<1>3. ASSUME NEW ip \in IPs, ReturnPump(ip) PROVE BackType'
  BY <1>3, Zenon DEF ReturnPump, BackType
<1> QED
  BY <1>1, <1>2, <1>3, StepBack

\* The variables keep their types; no index, list or worker ever refers to a
\* session that was never established.
THEOREM TypeCorrect == Spec => []TypeOK
<1> DEFINE TInv == TypeInv /\ BackType
<1>1. Init => TInv
  BY TypeInit DEF Init, BackType
<1>2. TInv /\ [Next]_vars => TInv'
  BY TypeStep, BackTypeStep
<1>3. TInv => TypeOK
  BY TypeInvOK
<1> QED
  BY <1>1, <1>2, <1>3, PTL DEF Spec
-----------------------------------------------------------------------------
(* What a step may do to a worker and to the caches, once and for all. *)

SameWork(r, q) == q.ts = r.ts /\ q.path = r.path /\ q.app = r.app

\* A worker takes up a packet or a connection.
Begins(r, q) ==
  /\ q \in Busy /\ q.ts \in 1 .. n /\ q.at = 0
  /\ q.late = (claims[q.ts].jti \in enforced)
  /\ \/ q.path = "packet" /\ q.ts \in Live /\ q.pc \in {"evict", "learn"}
     \/ q.path = "proxy" /\ q.pc \in {"evict", "gate"}

\* It goes on to the next place.
Advances(r, q) ==
  /\ r \in Busy /\ q \in Busy /\ SameWork(r, q) /\ q.late = r.late
  /\ \/ /\ r.pc \in {"learn", "index"} /\ q.pc \in {"index", "decide"} /\ q.at = r.at
     \/ /\ r.pc = "decide" /\ q.pc = "write" /\ q.at = r.at
        /\ r.app \in DOMAIN flows[r.ts] /\ flows[r.ts][r.app].allow
     \/ /\ r.pc = "decide" /\ q.pc = "gate" /\ q.at = now
     \/ /\ r.pc = "gate" /\ q.at = r.at
        /\ q.pc = IF claims[r.ts].jti \notin revoked THEN "pep" ELSE "evict"
     \/ /\ r.pc = "pep" /\ q.pc = "store" /\ r.path = "packet" /\ q.at = r.at
        /\ q.allow = (r.app \in policy)
     \/ /\ r.pc = "pep" /\ q.pc = "open" /\ r.path = "proxy" /\ q.at = r.at
     \/ /\ r.pc = "store" /\ q.pc = "write" /\ q.at = 0 /\ r.allow

\* Its credential leaves the revocation list.
Unmarked(r, q) ==
  /\ r \in Busy /\ q \in Busy /\ SameWork(r, q)
  /\ q.pc = r.pc /\ q.at = r.at /\ q.allow = r.allow /\ q.late = FALSE

Moves(r, q) == q = r \/ q = Idle \/ Begins(r, q) \/ Advances(r, q) \/ Unmarked(r, q)

\* A verdict is stored by a worker at "store"; nothing else touches a cache.
FlowMoves ==
  \/ flows' = flows
  \/ \E w \in Workers : LET k == wk[w].ts
                            b == wk[w].app
                        IN  /\ wk[w].pc = "store"
                            /\ flows' = [flows EXCEPT ![k] =
                                 [a \in DOMAIN flows[k] \cup {b} |->
                                    IF a = b THEN [allow |-> wk[w].allow, expire |-> Expire(w)]
                                    ELSE flows[k][a]]]
                            /\ UNCHANGED <<now, policy, deniedAt, revoked>>

\* One worker moves and the others stay.
LEMMA OneMoves ==
  ASSUME WorkerInv, NEW w \in Workers, NEW q, wk' = [wk EXCEPT ![w] = q], Moves(wk[w], q)
  PROVE  \A v \in Workers : Moves(wk[v], wk'[v])
BY DEF WorkerInv, Moves

\* A Goto along the worker's path.
LEMMA GotoMoves ==
  ASSUME WorkerInv, NEW w \in Workers, wk[w].pc # "idle", NEW p, Goto(w, p),
         \/ wk[w].pc \in {"learn", "index"} /\ p \in {"index", "decide"}
         \/ wk[w].pc = "decide" /\ p = "write" /\ Cached(wk[w].ts, wk[w].app)
              /\ flows[wk[w].ts][wk[w].app].allow
         \/ wk[w].pc = "gate" /\ p = IF GateOpen(wk[w].ts) THEN "pep" ELSE "evict"
         \/ wk[w].pc = "pep" /\ p = "open" /\ wk[w].path = "proxy"
  PROVE  \A v \in Workers : Moves(wk[v], wk'[v])
<1> DEFINE q == [wk[w] EXCEPT !.pc = p]
<1>1. wk[w] \in Busy
  BY BusyWorker
<1>2. q \in Busy /\ q.pc = p /\ SameWork(wk[w], q) /\ q.late = wk[w].late /\ q.at = wk[w].at
  BY <1>1 DEF Busy, SameWork, GateOpen
<1>3. wk' = [wk EXCEPT ![w] = q]
  BY DEF Goto
<1> HIDE DEF q
<1>4. Advances(wk[w], q)
  BY <1>1, <1>2 DEF Advances, Cached, GateOpen
<1> QED
  BY <1>3, <1>4, OneMoves DEF Moves

\* Every step moves every worker along its path, and touches a cache only by
\* storing a verdict.
LEMMA StepMoves ==
  ASSUME TypeInv, [Next]_vars, \A a \in Addrs : bySrc[a] # None => claims[bySrc[a]].src = a
  PROVE  FlowMoves /\ \A v \in Workers : Moves(wk[v], wk'[v])
<1>0. WorkerInv /\ TableInv
  BY DEF TypeInv
<1>1. CASE UNCHANGED <<flows, wk>>
  BY <1>1 DEF FlowMoves, Moves
<1>2. ASSUME NEW s \in SUBSET Jtis, SetRevoked(s)
      PROVE  FlowMoves /\ \A v \in Workers : Moves(wk[v], wk'[v])
  <2>1. ASSUME NEW v \in Workers, wk[v] # Idle
        PROVE  Unmarked(wk[v], [wk[v] EXCEPT !.late = FALSE])
    BY <1>0, <2>1 DEF Unmarked, WorkerInv, WorkerOK, Busy, SameWork
  <2>2. \A v \in Workers : wk'[v] =
          IF wk[v] # Idle /\ claims[wk[v].ts].jti \notin s
          THEN [wk[v] EXCEPT !.late = FALSE] ELSE wk[v]
    BY <1>2 DEF SetRevoked
  <2>3. \A v \in Workers : Moves(wk[v], wk'[v])
    BY <2>1, <2>2 DEF Moves
  <2> QED
    BY <1>2, <2>3 DEF SetRevoked, tableVars, FlowMoves
<1>3. ASSUME NEW w \in Workers, WorkerSteps(w)
      PROVE  FlowMoves /\ \A v \in Workers : Moves(wk[v], wk'[v])
  <2> DEFINE New(k, path, ip, app, pc) ==
               [pc |-> pc, ts |-> k, path |-> path, ip |-> ip, app |-> app, at |-> 0,
                allow |-> FALSE, late |-> claims[k].jti \in enforced]
  <2>0. Done(w) => \A v \in Workers : Moves(wk[v], wk'[v])
    BY <1>0, OneMoves DEF Done, Moves
  <2>1. ASSUME NEW a \in Addrs, NEW ip \in IPs, NEW app \in Apps \cup {NoApp},
               HandleDatagram(w, a, ip, app)
        PROVE  FlowMoves /\ \A v \in Workers : Moves(wk[v], wk'[v])
    <3> DEFINE k == bySrc[a]
               q == New(k, "packet", ip, app, IF Expired(k) THEN "evict" ELSE "learn")
    <3>1. k \in 1 .. n /\ k \in Live /\ k \in Ids
      BY <1>0, <2>1, TimeAssumption DEF HandleDatagram, TableInv, None, Live, Ids
    <3>2. q \in Busy
      BY <3>1, TimeAssumption DEF Busy, Time
    <3>3. Begins(wk[w], q)
      BY <3>1, <3>2 DEF Begins
    <3>4. wk' = [wk EXCEPT ![w] = q]
      BY <2>1 DEF HandleDatagram, Begin
    <3> HIDE DEF q
    <3>5. \A v \in Workers : Moves(wk[v], wk'[v])
      BY <1>0, <3>3, <3>4, OneMoves DEF Moves
    <3> QED
      BY <2>1, <3>5 DEF HandleDatagram, tableVars, FlowMoves
  <2>2. CASE LearnInnerIP(w)
    <3>1. \A v \in Workers : Moves(wk[v], wk'[v])
      BY <1>0, <2>2, GotoMoves DEF LearnInnerIP, At
    <3> QED
      BY <2>2, <3>1 DEF LearnInnerIP, FlowMoves
  <2>3. CASE IndexInnerIP(w)
    <3>1. \A v \in Workers : Moves(wk[v], wk'[v])
      BY <1>0, <2>3, GotoMoves DEF IndexInnerIP, At
    <3> QED
      BY <2>3, <3>1 DEF IndexInnerIP, FlowMoves
  <2>4. CASE Decide(w)
    <3>1. wk[w].pc = "decide"
      BY <2>4 DEF Decide, At
    <3>2. ASSUME Cached(wk[w].ts, wk[w].app) /\ flows[wk[w].ts][wk[w].app].allow /\ Goto(w, "write")
          PROVE  \A v \in Workers : Moves(wk[v], wk'[v])
      BY <1>0, <3>1, <3>2, GotoMoves
    <3>3. ASSUME wk' = [wk EXCEPT ![w].pc = "gate", ![w].at = now]
          PROVE  \A v \in Workers : Moves(wk[v], wk'[v])
      <4> DEFINE p == [wk[w] EXCEPT !.pc = "gate"]
                 q == [p EXCEPT !.at = now]
      <4>1. wk[w] \in Busy /\ now \in Time
        BY <1>0, <3>1, BusyWorker DEF TableInv
      <4>2. p \in Busy /\ SameWork(wk[w], p) /\ p.pc = "gate" /\ p.late = wk[w].late
        BY <4>1 DEF Busy, SameWork
      <4>3. q \in Busy /\ SameWork(p, q) /\ q.pc = "gate" /\ q.late = p.late /\ q.at = now
        <5> HIDE DEF p
        <5> QED
          BY <4>1, <4>2 DEF Busy, SameWork
      <4>4. wk' = [wk EXCEPT ![w] = q]
        BY <3>3
      <4> HIDE DEF p, q
      <4>5. Advances(wk[w], q)
        BY <3>1, <4>1, <4>2, <4>3 DEF Advances, SameWork
      <4> QED
        BY <1>0, <4>4, <4>5, OneMoves DEF Moves
    <3>4. \A v \in Workers : Moves(wk[v], wk'[v])
      BY <2>0, <2>4, <3>2, <3>3 DEF Decide
    <3> QED
      BY <2>4, <3>4 DEF Decide, tableVars, FlowMoves
  <2>5. CASE Gate(w)
    <3>1. \A v \in Workers : Moves(wk[v], wk'[v])
      BY <1>0, <2>5, GotoMoves DEF Gate, At
    <3> QED
      BY <2>5, <3>1 DEF Gate, tableVars, FlowMoves
  <2>6. CASE EvictFound(w) \/ WriteTun(w) \/ ProxyOpen(w)
    BY <2>0, <2>6 DEF EvictFound, WriteTun, ProxyOpen, tableVars, FlowMoves
  <2>7. CASE Pep(w)
    <3>1. wk[w].pc = "pep"
      BY <2>7 DEF Pep, At
    <3>2. ASSUME wk[w].path = "proxy" /\ Goto(w, "open")
          PROVE  \A v \in Workers : Moves(wk[v], wk'[v])
      BY <1>0, <3>1, <3>2, GotoMoves
    <3>3. ASSUME wk[w].path = "packet",
                 wk' = [wk EXCEPT ![w].pc = "store", ![w].allow = wk[w].app \in policy]
          PROVE  \A v \in Workers : Moves(wk[v], wk'[v])
      <4> DEFINE ok == wk[w].app \in policy
                 p == [wk[w] EXCEPT !.pc = "store"]
                 q == [p EXCEPT !.allow = ok]
      <4>1. wk[w] \in Busy /\ ok \in BOOLEAN
        BY <1>0, <3>1, BusyWorker
      <4>2. p \in Busy /\ SameWork(wk[w], p) /\ p.pc = "store" /\ p.late = wk[w].late
            /\ p.at = wk[w].at
        BY <4>1 DEF Busy, SameWork
      <4>3. q \in Busy /\ SameWork(p, q) /\ q.pc = "store" /\ q.late = p.late /\ q.at = p.at
            /\ q.allow = ok
        <5> HIDE DEF p, ok
        <5> QED
          BY <4>1, <4>2 DEF Busy, SameWork
      <4>4. wk' = [wk EXCEPT ![w] = q]
        BY <3>3
      <4> HIDE DEF p, q
      <4>5. Advances(wk[w], q)
        BY <3>1, <3>3, <4>1, <4>2, <4>3 DEF Advances, SameWork
      <4> QED
        BY <1>0, <4>4, <4>5, OneMoves DEF Moves
    <3>4. \A v \in Workers : Moves(wk[v], wk'[v])
      BY <2>0, <2>7, <3>2, <3>3 DEF Pep
    <3> QED
      BY <2>7, <3>4 DEF Pep, tableVars, FlowMoves
  <2>8. CASE Store(w)
    <3>1. wk[w].pc = "store"
      BY <2>8 DEF Store, At
    <3>2. ASSUME wk[w].allow /\ wk' = [wk EXCEPT ![w].pc = "write", ![w].at = 0, ![w].allow = FALSE]
          PROVE  \A v \in Workers : Moves(wk[v], wk'[v])
      <4> DEFINE p == [wk[w] EXCEPT !.pc = "write"]
                 o == [p EXCEPT !.at = 0]
                 q == [o EXCEPT !.allow = FALSE]
      <4>1. wk[w] \in Busy /\ 0 \in Time
        BY <1>0, <3>1, BusyWorker, TimeAssumption DEF Time
      <4>2. p \in Busy /\ SameWork(wk[w], p) /\ p.pc = "write" /\ p.late = wk[w].late
        BY <4>1 DEF Busy, SameWork
      <4>3. o \in Busy /\ SameWork(p, o) /\ o.pc = "write" /\ o.late = p.late /\ o.at = 0
        <5> HIDE DEF p
        <5> QED
          BY <4>1, <4>2 DEF Busy, SameWork
      <4>4. q \in Busy /\ SameWork(o, q) /\ q.pc = "write" /\ q.late = o.late /\ q.at = 0
        <5> HIDE DEF o
        <5> QED
          BY <4>1, <4>3 DEF Busy, SameWork
      <4>5. wk' = [wk EXCEPT ![w] = q]
        BY <3>2
      <4> HIDE DEF p, o, q
      <4>6. Advances(wk[w], q)
        BY <3>1, <3>2, <4>1, <4>2, <4>3, <4>4 DEF Advances, SameWork
      <4> QED
        BY <1>0, <4>5, <4>6, OneMoves DEF Moves
    <3>3. \A v \in Workers : Moves(wk[v], wk'[v])
      BY <2>0, <2>8, <3>2 DEF Store
    <3>4. FlowMoves
      BY <2>8, <3>1 DEF Store, FlowMoves, revVars, polVars
    <3> QED
      BY <3>3, <3>4
  <2>9. ASSUME NEW ip \in IPs, NEW app \in Apps \cup {NoApp}, ProxyConn(w, ip, app)
        PROVE  FlowMoves /\ \A v \in Workers : Moves(wk[v], wk'[v])
    <3> DEFINE k == byInnerIP[ip]
               q == New(k, "proxy", ip, app, IF Expired(k) THEN "evict" ELSE "gate")
    <3>1. k \in 1 .. n /\ k \in Ids
      BY <1>0, <2>9, TimeAssumption DEF ProxyConn, TableInv, None, Ids
    <3>2. q \in Busy
      BY <3>1, TimeAssumption DEF Busy, Time
    <3>3. Begins(wk[w], q)
      BY <3>1, <3>2 DEF Begins
    <3>4. wk' = [wk EXCEPT ![w] = q]
      BY <2>9 DEF ProxyConn, Begin
    <3> HIDE DEF q
    <3>5. \A v \in Workers : Moves(wk[v], wk'[v])
      BY <1>0, <3>3, <3>4, OneMoves DEF Moves
    <3> QED
      BY <2>9, <3>5 DEF ProxyConn, tableVars, FlowMoves
  <2> QED
    BY <1>3, <2>1, <2>2, <2>3, <2>4, <2>5, <2>6, <2>7, <2>8, <2>9 DEF WorkerSteps
<1> QED
  BY <1>1, <1>2, <1>3
     DEF Next, WorkerSteps, ReturnPump, vars, tableVars, Tick, SetBundle, VerifyCred, OnEstablished,
         ScanRevoked, EvictNextRevoked, CallbackReturns, ScanExpired, EvictNextExpired
-----------------------------------------------------------------------------
(* The inductive invariant behind the properties. *)

\* The session of an address was established from it; sessions to come have
\* no verdicts yet; what the sweep found stays expired.
IndexInv ==
  /\ \A a \in Addrs : bySrc[a] # None => claims[bySrc[a]].src = a
  /\ \A k \in Ids : k > n => DOMAIN flows[k] = {}
  /\ \A k \in sweep : Expired(k)

\* No verdict is dated later than now; a permission that the policy no longer
\* gives, cached or about to be, is dated before the policy took it away.
CacheInv ==
  /\ \A k \in Ids : \A a \in DOMAIN flows[k] : flows[k][a].expire <= now + FlowTTL
  /\ \A w \in Workers : wk[w].pc # "idle" => wk[w].at <= now
  /\ \A w \in Workers : wk[w].pc = "store" /\ wk[w].allow /\ wk[w].app \notin policy =>
       wk[w].at <= deniedAt[wk[w].app]
  /\ CacheBounded

\* The session has no cached permission, and nobody is about to cache one.
Clean(k) ==
  /\ \A a \in DOMAIN flows[k] : ~flows[k][a].allow
  /\ \A w \in Workers : wk[w].pc # "idle" /\ wk[w].ts = k =>
       wk[w].pc # "pep" /\ (wk[w].pc = "store" => ~wk[w].allow)

\* A session that is in the table although its credential is revoked, and
\* that the callback does not evict, was entered after the scan: it is clean.
CleanInv ==
  /\ \A k \in Live : claims[k].jti \in enforced => Clean(k)
  /\ callback.pc = "evict" =>
       \A k \in Live : claims[k].jti \in revoked => k \in callback.victims \/ Clean(k)

\* A packet or connection that came after the callback has not passed the
\* gate and will not pass it.
LateInv ==
  \A w \in Workers : wk[w].pc # "idle" =>
    /\ wk[w].late => /\ claims[wk[w].ts].jti \in enforced
                     /\ wk[w].pc \notin {"pep", "store", "write", "open"}
                     /\ wk[w].path = "packet" => Clean(wk[w].ts)
    /\ wk[w].path = "proxy" => wk[w].pc \notin {"learn", "index", "decide", "store", "write"}

\* The inner address of an index entry is one that its session learnt, so that
\* removing the session removes the entry; an entry whose session is not in
\* the table was written after the session had left it.
BackInv ==
  /\ \A i \in IPs : byInnerIP[i] # None =>
       /\ i \in innerIPs[byInnerIP[i]]
       /\ byInnerIP[i] \in Live \/ i \in lateIndex
  /\ \A w \in Workers : wk[w].pc = "index" => wk[w].ip \in innerIPs[wk[w].ts]
  /\ ~leaked

IInv == TypeInv /\ IndexInv /\ CacheInv /\ CleanInv /\ LateInv /\ BackInv
-----------------------------------------------------------------------------
(* What a step may do to the table of sessions. *)

Removes(k) ==
  /\ k \in Live
  /\ \/ k \in callback.victims
     \/ k \in sweep
     \/ \E w \in Workers : wk[w].pc = "evict" /\ wk[w].ts = k
  /\ bySrc' = [bySrc EXCEPT ![claims[k].src] = None]

Enters(src) ==
  /\ n' = n + 1
  /\ claims' \in [1 .. n + 1 -> [src : Addrs, jti : Jtis, deadline : Nat]]
  /\ \A k \in 1 .. n : claims'[k] = claims[k]
  /\ claims'[n + 1].src = src
  /\ bySrc' = [bySrc EXCEPT ![src] = n + 1]
  /\ UNCHANGED <<now, flows, wk, revoked, enforced, callback, sweep>>

TableMoves ==
  \/ UNCHANGED <<n, claims, bySrc>>
  \/ UNCHANGED <<n, claims>> /\ \E k \in 1 .. n : Removes(k)
  \/ \E src \in Addrs : Enters(src)

\* Every step leaves the table alone, removes one session that somebody has
\* found, or enters the next one.
LEMMA StepTable == ASSUME TypeInv, [Next]_vars PROVE TableMoves
<1>0. TableInv
  BY DEF TypeInv
<1>1. CASE UNCHANGED <<n, claims, bySrc>>
  BY <1>1 DEF TableMoves
<1>2. CASE EvictNextRevoked
  <2>1. PICK k \in callback.victims : Evict(k)
    BY <1>2 DEF EvictNextRevoked
  <2>2. k \in 1 .. n
    BY <2>1 DEF TypeInv, VictimInv
  <2> QED
    BY <1>2, <2>1, <2>2 DEF EvictNextRevoked, TableMoves, Removes, Evict
<1>3. CASE EvictNextExpired
  <2>1. PICK k \in sweep : Evict(k)
    BY <1>3 DEF EvictNextExpired
  <2>2. k \in 1 .. n
    BY <2>1 DEF TypeInv, VictimInv
  <2> QED
    BY <1>3, <2>1, <2>2 DEF EvictNextExpired, TableMoves, Removes, Evict
<1>4. ASSUME NEW w \in Workers, EvictFound(w) PROVE TableMoves
  <2>1. wk[w].ts \in 1 .. n /\ wk[w].pc = "evict"
    BY <1>4, BusyWorker DEF EvictFound, At, TypeInv
  <2> QED
    BY <1>4, <2>1 DEF EvictFound, TableMoves, Removes, Evict
<1>5. ASSUME NEW h \in Handshakes, OnEstablished(h) PROVE TableMoves
  <2>1. PICK e \in hs[h] :
          /\ claims' = [k \in 1 .. n + 1 |->
               IF k <= n THEN claims[k]
               ELSE [src |-> e.src, jti |-> e.jti, deadline |-> Deadline(e.jti)]]
          /\ bySrc' = [bySrc EXCEPT ![e.src] = n + 1]
    BY <1>5 DEF OnEstablished
  <2>2. e.src \in Addrs /\ n \in Nat
    BY <1>0, <2>1, TimeAssumption DEF TypeInv, HandshakeInv, TableInv
  <2>3. n' = n + 1
    BY <1>5 DEF OnEstablished
  <2>4. TypeInv'
    BY <1>5, TypeOutside
  <2>5. claims' \in [1 .. n + 1 -> [src : Addrs, jti : Jtis, deadline : Nat]]
    BY <2>3, <2>4 DEF TypeInv, TableInv
  <2>6. \A k \in 1 .. n : claims'[k] = claims[k]
    BY <2>1, <2>2
  <2>7. claims'[n + 1] = [src |-> e.src, jti |-> e.jti, deadline |-> Deadline(e.jti)]
    <3>1. n + 1 \in 1 .. n + 1 /\ ~(n + 1 <= n)
      BY <2>2
    <3> QED
      BY <2>1, <3>1
  <2>8. UNCHANGED <<now, flows, wk, revoked, enforced, callback, sweep>>
    BY <1>5 DEF OnEstablished, revVars
  <2>9. Enters(e.src)
    BY <2>1, <2>3, <2>5, <2>6, <2>7, <2>8 DEF Enters
  <2> QED
    BY <2>2, <2>9 DEF TableMoves
<1> QED
  BY Zenon, <1>1, <1>2, <1>3, <1>4, <1>5
     DEF Next, ReturnPump, vars, tableVars, Tick, SetBundle, VerifyCred, SetRevoked, ScanRevoked,
         CallbackReturns, ScanExpired, HandleDatagram, LearnInnerIP, IndexInnerIP, Decide, Gate,
         Pep, Store, WriteTun, ProxyConn, ProxyOpen

\* A session never comes back; the one that is entered is the next one.
LEMMA LiveShrinks ==
  ASSUME TypeInv, IndexInv, TableMoves
  PROVE  /\ \A k \in 1 .. n : claims'[k] = claims[k]
         /\ \A k \in Live' : k \in Live \/ \E src \in Addrs : Enters(src) /\ k = n + 1
         /\ n' = n \/ n' = n + 1
<1>0. n \in Nat /\ n <= MaxSessions /\ bySrc \in [Addrs -> 0 .. n]
      /\ \A k \in 1 .. n : claims[k].src \in Addrs
  BY TimeAssumption DEF TypeInv, TableInv
<1>1. CASE UNCHANGED <<n, claims, bySrc>>
  BY <1>1 DEF Live
<1>2. ASSUME UNCHANGED <<n, claims>>, NEW k \in 1 .. n, Removes(k)
      PROVE  Live' \subseteq Live
  BY <1>0, <1>2 DEF Removes, Live, None
<1>3. ASSUME NEW src \in Addrs, Enters(src)
      PROVE  \A k \in Live' : k \in Live \/ k = n + 1
  <2> SUFFICES ASSUME NEW k \in Live', k # n + 1 PROVE k \in Live
    OBVIOUS
  <2>0. n' = n + 1 /\ \A i \in 1 .. n : claims'[i] = claims[i]
    BY <1>3 DEF Enters
  <2>1. k \in 1 .. n /\ bySrc'[claims[k].src] = k
    BY <1>0, <2>0 DEF Live
  <2>2. claims[k].src # src
    BY <1>0, <1>3, <2>1 DEF Enters
  <2> QED
    BY <1>0, <1>3, <2>1, <2>2 DEF Live, Enters
<1> QED
  BY <1>1, <1>2, <1>3 DEF TableMoves, Enters

\* IndexInv is preserved.
LEMMA IndexStep == ASSUME TypeInv, IndexInv, [Next]_vars PROVE IndexInv'
<1>0. TableInv /\ n \in Nat /\ TypeInv'
  <2>1. TypeInv'
    BY Zenon, TypeStep
  <2>2. TableInv
    BY DEF TypeInv
  <2> QED
    BY <2>1, <2>2, TimeAssumption DEF TableInv
<1>1. TableMoves /\ FlowMoves
  BY StepTable, StepMoves DEF IndexInv
<1>2. \A a \in Addrs : bySrc'[a] # None => claims'[bySrc'[a]].src = a
  <2>1. CASE UNCHANGED <<n, claims, bySrc>>
    BY <2>1 DEF IndexInv
  <2>2. ASSUME UNCHANGED <<n, claims>>, NEW k \in 1 .. n, Removes(k)
        PROVE  \A a \in Addrs : bySrc'[a] # None => claims'[bySrc'[a]].src = a
    BY <1>0, <2>2 DEF Removes, IndexInv, TableInv, None
  <2>3. ASSUME NEW src \in Addrs, Enters(src)
        PROVE  \A a \in Addrs : bySrc'[a] # None => claims'[bySrc'[a]].src = a
    BY <1>0, <2>3 DEF Enters, IndexInv, TableInv, None
  <2> QED
    BY <1>1, <2>1, <2>2, <2>3 DEF TableMoves
<1>3. \A k \in Ids : k > n' => DOMAIN flows'[k] = {}
  <2>1. n' \in Nat /\ n' >= n /\ \A k \in Ids : k \in Nat
    BY <1>0, <1>1, LiveShrinks, TimeAssumption DEF Ids
  <2>2. CASE flows' = flows
    BY <1>0, <2>1, <2>2 DEF IndexInv
  <2>3. ASSUME NEW w \in Workers, wk[w].pc = "store", NEW c, flows' = [flows EXCEPT ![wk[w].ts] = c]
        PROVE  \A k \in Ids : k > n' => DOMAIN flows'[k] = {}
    <3>1. wk[w].ts \in 1 .. n
      BY <2>3, BusyWorker DEF TypeInv
    <3>2. \A k \in Ids : k > n' => k > n /\ flows'[k] = flows[k]
      BY <1>0, <2>1, <2>3, <3>1 DEF TypeInv, FlowInv
    <3> QED
      BY <3>2 DEF IndexInv
  <2> QED
    BY <1>1, <2>2, <2>3 DEF FlowMoves
<1>4. \A k \in sweep' : Expired(k)'
  <2>0. \A k \in sweep : k \in 1 .. n /\ claims[k].deadline \in Nat /\ now \in Nat
    BY <1>0 DEF TypeInv, VictimInv, TableInv, Time
  <2>1. \A k \in 1 .. n : claims'[k] = claims[k]
    BY <1>1, LiveShrinks
  <2>2. CASE ScanExpired
    BY <2>2 DEF ScanExpired, ExpiredSessions, Live, Expired, tableVars
  <2>3. CASE sweep' \subseteq sweep /\ (now' = now \/ now' = now + 1)
    BY <2>0, <2>1, <2>3 DEF IndexInv, Expired
  <2> QED
    BY Zenon, <2>2, <2>3
       DEF Next, ReturnPump, vars, Tick, SetBundle, VerifyCred, OnEstablished, SetRevoked, ScanRevoked,
           EvictNextRevoked, CallbackReturns, EvictNextExpired, HandleDatagram, LearnInnerIP,
           IndexInnerIP, Decide, Gate, EvictFound, Pep, Store, WriteTun, ProxyConn, ProxyOpen
<1> QED
  BY <1>2, <1>3, <1>4 DEF IndexInv

-----------------------------------------------------------------------------
(* Cached verdicts. *)

\* The clock and the policy: the times of denial move to now, or stay.
LEMMA StepPolicy ==
  ASSUME TypeInv, [Next]_vars
  PROVE  /\ now' \in Nat /\ now \in Nat /\ now <= now'
         /\ \/ UNCHANGED <<policy, deniedAt>>
            \/ /\ UNCHANGED <<now, flows, wk>>
               /\ \A a \in Apps : a \notin policy' =>
                    deniedAt'[a] = IF a \in policy THEN now ELSE deniedAt[a]
<1>1. now \in Nat
  BY DEF TypeInv, TableInv, Time
<1>2. ASSUME NEW p \in SUBSET Apps, SetBundle(p)
      PROVE  /\ UNCHANGED <<now, flows, wk>>
             /\ \A a \in Apps : a \notin policy' =>
                  deniedAt'[a] = IF a \in policy THEN now ELSE deniedAt[a]
  BY <1>2 DEF SetBundle, tableVars
<1>3. CASE Tick
  BY <1>1, <1>3 DEF Tick, polVars
<1>4. CASE UNCHANGED <<now, policy, deniedAt>>
  BY <1>1, <1>4
<1>5. ASSUME NEW w \in Workers, WorkerSteps(w) PROVE UNCHANGED <<now, policy, deniedAt>>
  BY <1>5
     DEF WorkerSteps, polVars, HandleDatagram, LearnInnerIP, IndexInnerIP, Decide, Gate, EvictFound,
         Pep, Store, WriteTun, ProxyConn, ProxyOpen
<1> QED
  BY <1>1, <1>2, <1>3, <1>4, <1>5
     DEF Next, WorkerSteps, ReturnPump, vars, polVars, VerifyCred, OnEstablished, SetRevoked, ScanRevoked,
         EvictNextRevoked, CallbackReturns, ScanExpired, EvictNextExpired

\* An entry of a cache was there before, or a worker stores it now.
LEMMA Entry ==
  ASSUME TypeInv, FlowMoves, NEW k \in Ids, NEW a \in DOMAIN flows'[k]
  PROVE  \/ a \in DOMAIN flows[k] /\ flows'[k][a] = flows[k][a]
         \/ \E w \in Workers :
              /\ wk[w].pc = "store" /\ wk[w].ts = k /\ wk[w].app = a
              /\ flows'[k][a] = [allow |-> wk[w].allow, expire |-> wk[w].at + FlowTTL]
              /\ UNCHANGED <<now, policy, deniedAt, revoked>>
<1>1. CASE flows' = flows
  BY <1>1
<1>2. ASSUME NEW w \in Workers, wk[w].pc = "store",
             flows' = [flows EXCEPT ![wk[w].ts] =
               [b \in DOMAIN flows[wk[w].ts] \cup {wk[w].app} |->
                  IF b = wk[w].app THEN [allow |-> wk[w].allow, expire |-> Expire(w)]
                  ELSE flows[wk[w].ts][b]]]
      PROVE  \/ a \in DOMAIN flows[k] /\ flows'[k][a] = flows[k][a]
             \/ /\ wk[w].ts = k /\ wk[w].app = a
                /\ flows'[k][a] = [allow |-> wk[w].allow, expire |-> wk[w].at + FlowTTL]
  <2> DEFINE v == [allow |-> wk[w].allow, expire |-> wk[w].at + FlowTTL]
             t == wk[w].ts
             c == [b \in DOMAIN flows[t] \cup {wk[w].app} |->
                     IF b = wk[w].app THEN v ELSE flows[t][b]]
  <2>1. flows' = [flows EXCEPT ![t] = c] /\ DOMAIN flows = Ids
    BY <1>2 DEF Expire, TypeInv, FlowInv
  <2>2. \A b \in DOMAIN c : c[b] = IF b = wk[w].app THEN v ELSE flows[t][b]
    OBVIOUS
  <2>3. DOMAIN c = DOMAIN flows[t] \cup {wk[w].app}
    OBVIOUS
  <2> HIDE DEF v, c
  <2>4. CASE k = t
    <3>1. flows'[k] = c
      BY <2>1, <2>4
    <3>2. a \in DOMAIN c /\ flows'[k][a] = c[a]
      BY <3>1
    <3>3. CASE a = wk[w].app
      BY <2>2, <2>4, <3>2, <3>3 DEF v
    <3>4. CASE a # wk[w].app
      BY <2>2, <2>3, <2>4, <3>2, <3>4
    <3> QED
      BY <3>3, <3>4
  <2>5. CASE k # t
    BY <2>1, <2>5
  <2> QED
    BY <2>4, <2>5
<1> QED
  BY <1>1, <1>2 DEF FlowMoves

\* CacheInv is preserved.
LEMMA CacheStep == ASSUME TypeInv, IndexInv, CacheInv, [Next]_vars PROVE CacheInv'
<1>0. /\ TypeInv' /\ FlowMoves
      /\ \A v \in Workers : Moves(wk[v], wk'[v])
      /\ FlowTTL \in Nat /\ now \in Nat /\ now' \in Nat /\ now <= now'
      /\ deniedAt \in [Apps -> Nat] /\ deniedAt' \in [Apps -> Nat]
  <2>1. Time \subseteq Nat /\ FlowTTL \in Nat
    BY TimeAssumption DEF Time
  <2>2. TypeInv'
    BY TypeStep
  <2> QED
    BY <2>1, <2>2, StepMoves, StepPolicy DEF IndexInv, TypeInv, StoreInv
<1>1. \A w \in Workers : wk[w].pc # "idle" => wk[w] \in Busy /\ wk[w].at \in Nat
  BY BusyWorker, TimeAssumption DEF TypeInv, Busy, Time
<1>2. \A k \in Ids : \A a \in DOMAIN flows[k] :
        a \in Apps /\ flows[k][a].allow \in BOOLEAN /\ flows[k][a].expire \in Nat
  BY FlowTypes DEF Verdict
<1>3. \A k \in Ids : \A a \in DOMAIN flows'[k] : flows'[k][a].expire <= now' + FlowTTL
  <2> SUFFICES ASSUME NEW k \in Ids, NEW a \in DOMAIN flows'[k]
               PROVE  flows'[k][a].expire <= now' + FlowTTL
    OBVIOUS
  <2>1. CASE a \in DOMAIN flows[k] /\ flows'[k][a] = flows[k][a]
    <3>1. flows[k][a].expire <= now + FlowTTL /\ flows[k][a].expire \in Nat
      BY <1>2, <2>1 DEF CacheInv
    <3> QED
      BY <1>0, <2>1, <3>1
  <2>2. ASSUME NEW w \in Workers, wk[w].pc = "store",
               flows'[k][a] = [allow |-> wk[w].allow, expire |-> wk[w].at + FlowTTL]
        PROVE  flows'[k][a].expire <= now' + FlowTTL
    <3>1. wk[w].at <= now /\ wk[w].at \in Nat
      BY <1>1, <2>2 DEF CacheInv
    <3> QED
      BY <1>0, <2>2, <3>1
  <2>3. \/ a \in DOMAIN flows[k] /\ flows'[k][a] = flows[k][a]
        \/ \E w \in Workers :
             /\ wk[w].pc = "store" /\ wk[w].ts = k /\ wk[w].app = a
             /\ flows'[k][a] = [allow |-> wk[w].allow, expire |-> wk[w].at + FlowTTL]
             /\ UNCHANGED <<now, policy, deniedAt, revoked>>
    BY <1>0, Entry
  <2> QED
    BY <2>1, <2>2, <2>3
<1>4. \A w \in Workers : wk'[w].pc # "idle" => wk'[w].at <= now'
  <2> SUFFICES ASSUME NEW w \in Workers, wk'[w].pc # "idle" PROVE wk'[w].at <= now'
    OBVIOUS
  <2>1. wk'[w] = wk[w] \/ Begins(wk[w], wk'[w]) \/ Advances(wk[w], wk'[w]) \/ Unmarked(wk[w], wk'[w])
    BY <1>0 DEF Moves, Idle
  <2>2. wk[w] \in Busy => wk[w].pc # "idle"
    BY DEF Busy
  <2>3. CASE wk'[w].at = 0
    BY <1>0, <2>3
  <2>4. CASE wk'[w].at = now
    BY <1>0, <2>4
  <2>5. CASE wk'[w].at = wk[w].at /\ wk[w].pc # "idle"
    BY <1>0, <1>1, <2>5 DEF CacheInv
  <2> QED
    BY <2>1, <2>2, <2>3, <2>4, <2>5 DEF Begins, Advances, Unmarked
<1>5. ASSUME NEW w \in Workers, wk'[w].pc = "store", wk'[w].allow, wk'[w].app \notin policy'
      PROVE  wk'[w].at <= deniedAt'[wk'[w].app]
  <2> DEFINE b == wk[w].app
  <2>1. \/ wk'[w] = wk[w]
        \/ Unmarked(wk[w], wk'[w])
        \/ /\ wk[w].pc = "pep" /\ wk[w] \in Busy /\ wk'[w] \in Busy /\ SameWork(wk[w], wk'[w])
           /\ wk'[w].at = wk[w].at /\ b \in policy
    <3>1. \/ wk'[w] = wk[w]
          \/ Unmarked(wk[w], wk'[w])
          \/ Advances(wk[w], wk'[w])
      BY <1>0, <1>5 DEF Moves, Idle, Begins
    <3>2. ASSUME Advances(wk[w], wk'[w])
          PROVE  /\ wk[w].pc = "pep" /\ wk[w] \in Busy /\ wk'[w] \in Busy
                 /\ SameWork(wk[w], wk'[w]) /\ wk'[w].at = wk[w].at
                 /\ wk'[w].allow = (b \in policy)
      BY <1>5, <3>2, Zenon DEF Advances
    <3> QED
      BY <1>5, <3>1, <3>2
  <2>2. wk'[w].app = b /\ wk'[w].at = wk[w].at /\ wk[w].pc # "idle"
    BY <1>5, <2>1 DEF Unmarked, SameWork
  <2>3. wk[w].at <= now /\ wk[w].at \in Nat
    BY <1>1, <2>2 DEF CacheInv
  <2>4. b \in Apps
    <3>1. wk[w].pc \in {"pep", "store"}
      BY <1>5, <2>1 DEF Unmarked
    <3> QED
      BY <3>1, BusyWorker DEF TypeInv
  <2>5. CASE b \in policy
    <3>1. deniedAt'[b] = now
      BY <1>5, <2>2, <2>4, <2>5, StepPolicy
    <3> QED
      BY <2>2, <2>3, <3>1
  <2>6. CASE b \notin policy
    <3>1. wk[w].pc = "store" /\ wk[w].allow
      BY <1>5, <2>1, <2>6 DEF Unmarked
    <3>2. wk[w].at <= deniedAt[b]
      BY <2>6, <3>1 DEF CacheInv
    <3>3. deniedAt'[b] = deniedAt[b]
      BY <1>5, <2>2, <2>4, <2>6, StepPolicy
    <3> QED
      BY <2>2, <3>2, <3>3
  <2> QED
    BY <2>5, <2>6
<1>6. ASSUME NEW k \in Ids, NEW a \in DOMAIN flows'[k], flows'[k][a].allow, a \notin policy'
      PROVE  flows'[k][a].expire <= deniedAt'[a] + FlowTTL
  <2>1. CASE a \in DOMAIN flows[k] /\ flows'[k][a] = flows[k][a]
    <3>1. a \in Apps /\ flows[k][a].expire \in Nat /\ flows[k][a].expire <= now + FlowTTL
      BY <1>2, <2>1 DEF CacheInv
    <3>2. CASE a \in policy
      <4>1. deniedAt'[a] = now
        BY <1>6, <3>1, <3>2, StepPolicy
      <4> QED
        BY <2>1, <3>1, <4>1
    <3>3. CASE a \notin policy
      <4>1. deniedAt'[a] = deniedAt[a]
        BY <1>6, <3>1, <3>3, StepPolicy
      <4> QED
        BY <1>6, <2>1, <3>3, <4>1 DEF CacheInv, CacheBounded
    <3> QED
      BY <3>2, <3>3
  <2>2. ASSUME NEW w \in Workers, wk[w].pc = "store", wk[w].app = a,
               flows'[k][a] = [allow |-> wk[w].allow, expire |-> wk[w].at + FlowTTL],
               UNCHANGED <<policy, deniedAt>>
        PROVE  flows'[k][a].expire <= deniedAt'[a] + FlowTTL
    <3>1. wk[w].at <= deniedAt[a] /\ wk[w].at \in Nat
      BY <1>1, <1>6, <2>2 DEF CacheInv
    <3>2. a \in Apps
      BY <2>2 DEF TypeInv, WorkerInv, WorkerOK, Idle
    <3> QED
      BY <1>0, <2>2, <3>1, <3>2
  <2>3. \/ a \in DOMAIN flows[k] /\ flows'[k][a] = flows[k][a]
        \/ \E w \in Workers :
             /\ wk[w].pc = "store" /\ wk[w].ts = k /\ wk[w].app = a
             /\ flows'[k][a] = [allow |-> wk[w].allow, expire |-> wk[w].at + FlowTTL]
             /\ UNCHANGED <<now, policy, deniedAt, revoked>>
    BY <1>0, Entry
  <2> QED
    BY <2>1, <2>2, <2>3
<1> QED
  BY <1>3, <1>4, <1>5, <1>6 DEF CacheInv, CacheBounded
-----------------------------------------------------------------------------
(* Clean sessions. *)

\* The session is clean after the step.
CleanNext(k) ==
  /\ \A a \in DOMAIN flows'[k] : ~flows'[k][a].allow
  /\ \A w \in Workers : wk'[w].pc # "idle" /\ wk'[w].ts = k =>
       wk'[w].pc # "pep" /\ (wk'[w].pc = "store" => ~wk'[w].allow)

\* While its credential is revoked, a clean session stays clean: the gate
\* keeps every worker from asking the policy for it.
LEMMA CleanKept ==
  ASSUME TypeInv, IndexInv, [Next]_vars, NEW k \in 1 .. n, Clean(k), claims[k].jti \in revoked
  PROVE  CleanNext(k)
<1>0. FlowMoves /\ \A v \in Workers : Moves(wk[v], wk'[v])
  BY StepMoves DEF IndexInv
<1>1. k \in Ids
  BY TimeAssumption DEF TypeInv, TableInv, Ids
<1>2. ASSUME NEW a \in DOMAIN flows'[k] PROVE ~flows'[k][a].allow
  <2>1. CASE a \in DOMAIN flows[k] /\ flows'[k][a] = flows[k][a]
    BY <2>1 DEF Clean
  <2>2. ASSUME NEW w \in Workers, wk[w].pc = "store", wk[w].ts = k,
               flows'[k][a] = [allow |-> wk[w].allow, expire |-> wk[w].at + FlowTTL]
        PROVE  ~flows'[k][a].allow
    <3>1. ~wk[w].allow
      BY <2>2 DEF Clean
    <3> QED
      BY <2>2, <3>1
  <2>3. \/ a \in DOMAIN flows[k] /\ flows'[k][a] = flows[k][a]
        \/ \E w \in Workers :
             /\ wk[w].pc = "store" /\ wk[w].ts = k /\ wk[w].app = a
             /\ flows'[k][a] = [allow |-> wk[w].allow, expire |-> wk[w].at + FlowTTL]
             /\ UNCHANGED <<now, policy, deniedAt, revoked>>
    BY <1>0, <1>1, Entry
  <2> QED
    BY <2>1, <2>2, <2>3
<1>3. ASSUME NEW w \in Workers, wk'[w].pc # "idle", wk'[w].ts = k
      PROVE  wk'[w].pc # "pep" /\ (wk'[w].pc = "store" => ~wk'[w].allow)
  <2>1. CASE wk'[w] = wk[w]
    BY <1>3, <2>1 DEF Clean
  <2>2. CASE Begins(wk[w], wk'[w])
    BY <2>2 DEF Begins
  <2>3. CASE Advances(wk[w], wk'[w])
    <3>1. wk[w].ts = k /\ wk[w].pc # "idle" /\ wk[w].pc # "pep"
      BY <1>3, <2>3 DEF Advances, SameWork, Busy, Clean
    <3> QED
      BY <2>3, <3>1 DEF Advances
  <2>4. CASE Unmarked(wk[w], wk'[w])
    <3>1. wk[w].ts = k /\ wk[w].pc # "idle" /\ wk'[w].pc = wk[w].pc /\ wk'[w].allow = wk[w].allow
      BY <1>3, <2>4 DEF Unmarked, SameWork
    <3> QED
      BY <3>1 DEF Clean
  <2> QED
    BY <1>0, <1>3, <2>1, <2>2, <2>3, <2>4 DEF Moves, Idle
<1> QED
  BY <1>2, <1>3 DEF CleanNext

\* A session is clean when it is entered.
LEMMA NewClean ==
  ASSUME TypeInv, TypeInv', IndexInv, NEW src \in Addrs, Enters(src)
  PROVE  CleanNext(n + 1)
<1>1. n \in Nat /\ n + 1 \in Ids /\ n + 1 > n
  BY TimeAssumption DEF TypeInv, TableInv, Enters, Ids
<1>2. DOMAIN flows[n + 1] = {}
  BY <1>1 DEF IndexInv
<1>3. \A w \in Workers : wk[w].pc # "idle" => wk[w].ts # n + 1
  BY <1>1, BusyWorker DEF TypeInv
<1>4. flows' = flows /\ wk' = wk
  BY DEF Enters
<1> QED
  BY <1>2, <1>3, <1>4 DEF CleanNext

\* The steps that change the revocation list, the callback, or what it has
\* enforced.
LEMMA StepRev ==
  ASSUME [Next]_vars
  PROVE  \/ UNCHANGED <<revoked, enforced, callback>>
         \/ \E s \in SUBSET Jtis : SetRevoked(s)
         \/ ScanRevoked \/ EvictNextRevoked \/ CallbackReturns
<1>1. ASSUME NEW w \in Workers, WorkerSteps(w) PROVE UNCHANGED <<revoked, enforced, callback>>
  BY <1>1
     DEF WorkerSteps, revVars, HandleDatagram, LearnInnerIP, IndexInnerIP, Decide, Gate, EvictFound,
         Pep, Store, WriteTun, ProxyConn, ProxyOpen
<1> QED
  BY <1>1
     DEF Next, WorkerSteps, ReturnPump, vars, revVars, Tick, SetBundle, VerifyCred, OnEstablished, ScanExpired,
         EvictNextExpired

\* CleanInv is preserved.
LEMMA CleanStep == ASSUME TypeInv, IndexInv, CleanInv, [Next]_vars PROVE CleanInv'
<1>0. TypeInv' /\ TableMoves /\ enforced \subseteq revoked /\ n \in Nat
  <2>1. TypeInv' /\ TableMoves
    BY TypeStep, StepTable
  <2>2. enforced \subseteq revoked
    BY DEF TypeInv, StoreInv
  <2>3. n \in Nat
    BY TimeAssumption DEF TypeInv, TableInv
  <2> QED
    BY <2>1, <2>2, <2>3
<1>1. /\ \A k \in 1 .. n : claims'[k] = claims[k]
      /\ \A k \in Live' : k \in Live \/ \E src \in Addrs : Enters(src) /\ k = n + 1
  BY <1>0, LiveShrinks
<1>2. Live \subseteq 1 .. n
  BY DEF Live
<1>3. ASSUME NEW k \in Live', claims'[k].jti \in enforced' PROVE CleanNext(k)
  <2>1. CASE k \notin Live
    BY <1>0, <1>1, <2>1, NewClean
  <2>2. CASE k \in Live
    <3>0. k \in 1 .. n /\ claims'[k] = claims[k]
      BY <1>1, <1>2, <2>2
    <3>1. CASE claims[k].jti \in enforced
      <4>1. Clean(k)
        BY <2>2, <3>1 DEF CleanInv
      <4> QED
        BY <1>0, <3>0, <3>1, <4>1, CleanKept
    <3>2. CASE claims[k].jti \notin enforced
      <4>1. CallbackReturns
        BY <1>3, <3>0, <3>2, StepRev DEF SetRevoked, ScanRevoked, EvictNextRevoked
      <4>2. claims[k].jti \in revoked
        BY <1>3, <3>0, <4>1 DEF CallbackReturns
      <4>3. Clean(k)
        BY <2>2, <4>1, <4>2 DEF CallbackReturns, CleanInv
      <4> QED
        BY <3>0, <4>2, <4>3, CleanKept
    <3> QED
      BY <3>1, <3>2
  <2> QED
    BY <2>1, <2>2
<1>4. ASSUME callback'.pc = "evict", NEW k \in Live', claims'[k].jti \in revoked'
      PROVE  k \in callback'.victims \/ CleanNext(k)
  <2>1. CASE k \notin Live
    BY <1>0, <1>1, <2>1, NewClean
  <2>2. CASE k \in Live
    <3>0. k \in 1 .. n /\ claims'[k] = claims[k]
      BY <1>1, <1>2, <2>2
    <3>1. CASE callback.pc = "evict" /\ callback' = callback /\ revoked' = revoked
      <4>1. claims[k].jti \in revoked
        BY <1>4, <3>0, <3>1
      <4>2. k \in callback.victims \/ Clean(k)
        BY <2>2, <3>1, <4>1 DEF CleanInv
      <4> QED
        BY <3>0, <3>1, <4>1, <4>2, CleanKept
    <3>2. CASE ScanRevoked
      BY <1>4, <2>2, <3>0, <3>2 DEF ScanRevoked, RevokedSessions
    <3>3. CASE EvictNextRevoked
      <4>1. PICK v \in callback.victims : Evict(v) /\ callback' = [callback EXCEPT !.victims = @ \ {v}]
        BY <3>3 DEF EvictNextRevoked
      <4>2. /\ callback.pc = "evict" /\ callback'.victims = callback.victims \ {v}
            /\ revoked' = revoked /\ n' = n /\ claims' = claims
        BY <1>4, <3>3, <4>1 DEF EvictNextRevoked, TypeInv, VictimInv
      <4>3. k # v
        <5> SUFFICES ASSUME k = v PROVE FALSE
          OBVIOUS
        <5>1. bySrc' = [bySrc EXCEPT ![claims[k].src] = None]
          BY <2>2, <4>1 DEF Evict
        <5>2. claims[k].src \in DOMAIN bySrc
          BY <3>0 DEF TypeInv, TableInv
        <5>3. bySrc'[claims[k].src] = k
          BY <4>2 DEF Live
        <5> QED
          BY <1>0, <3>0, <5>1, <5>2, <5>3 DEF None
      <4>4. claims[k].jti \in revoked
        BY <1>4, <3>0, <4>2
      <4>5. k \in callback.victims \/ Clean(k)
        BY <2>2, <4>2, <4>4 DEF CleanInv
      <4> QED
        BY <3>0, <4>2, <4>3, <4>4, <4>5, CleanKept
    <3> QED
      BY <1>4, <3>1, <3>2, <3>3, StepRev DEF SetRevoked, CallbackReturns, TypeInv, VictimInv
  <2> QED
    BY <2>1, <2>2
<1> QED
  BY <1>3, <1>4 DEF CleanInv, Clean, CleanNext

\* LateInv is preserved.
LEMMA LateStep == ASSUME TypeInv, IndexInv, CleanInv, LateInv, [Next]_vars PROVE LateInv'
<1>0. /\ TypeInv' /\ TableMoves /\ enforced \subseteq revoked
      /\ \A v \in Workers : Moves(wk[v], wk'[v])
  BY TypeStep, StepTable, StepMoves DEF TypeInv, StoreInv, IndexInv
<1>1. \A k \in 1 .. n : claims'[k] = claims[k]
  BY <1>0, LiveShrinks
<1> SUFFICES ASSUME NEW w \in Workers, wk'[w].pc # "idle"
             PROVE  /\ wk'[w].late => /\ claims'[wk'[w].ts].jti \in enforced'
                                      /\ wk'[w].pc \notin {"pep", "store", "write", "open"}
                                      /\ wk'[w].path = "packet" => CleanNext(wk'[w].ts)
                    /\ wk'[w].path = "proxy" =>
                         wk'[w].pc \notin {"learn", "index", "decide", "store", "write"}
  BY DEF LateInv, Clean, CleanNext
<1> DEFINE r == wk[w]
           q == wk'[w]
           t == q.ts
<1>2. \/ q = r /\ r.pc # "idle"
      \/ Begins(r, q)
      \/ Advances(r, q) /\ r.pc # "idle"
      \/ Unmarked(r, q) /\ r.pc # "idle"
  BY <1>0 DEF Moves, Idle, Advances, Unmarked, Busy
<1>3. t \in 1 .. n
  <2>1. r.pc # "idle" => r.ts \in 1 .. n
    BY BusyWorker DEF TypeInv
  <2> QED
    BY <1>2, <2>1 DEF Begins, Advances, Unmarked, SameWork
<1>4. q.path = "proxy" => q.pc \notin {"learn", "index", "decide", "store", "write"}
  BY <1>2 DEF Begins, Advances, Unmarked, SameWork, LateInv
<1>5. ASSUME q.late
      PROVE  /\ claims[t].jti \in enforced
             /\ q.pc \notin {"pep", "store", "write", "open"}
             /\ q.path = "packet" => Clean(t)
  <2>1. CASE q = r /\ r.pc # "idle"
    BY <1>5, <2>1 DEF LateInv
  <2>2. CASE Begins(r, q)
    <3>1. claims[t].jti \in enforced
      BY <1>5, <2>2 DEF Begins
    <3> QED
      BY <2>2, <3>1 DEF Begins, CleanInv
  <2>3. CASE Advances(r, q) /\ r.pc # "idle"
    <3>1. r.late /\ r.ts = t /\ r.path = q.path
      BY <1>5, <2>3 DEF Advances, SameWork
    <3>2. /\ claims[t].jti \in enforced
          /\ r.pc \notin {"pep", "store", "write", "open"}
          /\ r.path = "packet" => Clean(t)
          /\ r.path = "proxy" => r.pc # "decide"
          /\ r.path \in {"packet", "proxy"}
      BY <2>3, <3>1 DEF LateInv, Advances, Busy
    <3>3. ~(r.pc = "decide" /\ r.app \in DOMAIN flows[t] /\ flows[t][r.app].allow)
      BY <3>2 DEF Clean
    <3> QED
      BY <1>0, <2>3, <3>1, <3>2, <3>3 DEF Advances
  <2>4. CASE Unmarked(r, q)
    BY <1>5, <2>4 DEF Unmarked
  <2> QED
    BY <1>2, <2>1, <2>2, <2>3, <2>4
<1>6. ASSUME q.late PROVE claims'[t].jti \in enforced'
  <2>1. claims'[t] = claims[t] /\ claims[t].jti \in enforced
    BY <1>1, <1>3, <1>5, <1>6
  <2>2. ASSUME NEW s \in SUBSET Jtis, SetRevoked(s) PROVE claims[t].jti \in s
    <3> SUFFICES ASSUME claims[t].jti \notin s PROVE FALSE
      OBVIOUS
    <3>1. q = IF r # Idle /\ claims[r.ts].jti \notin s THEN [r EXCEPT !.late = FALSE] ELSE r
      BY <2>2 DEF SetRevoked
    <3>2. r # Idle
      BY <3>1 DEF Idle
    <3>3. r \in Busy
      BY <3>2 DEF TypeInv, WorkerInv, WorkerOK
    <3>4. [r EXCEPT !.late = FALSE].ts = r.ts /\ ~[r EXCEPT !.late = FALSE].late
      BY <3>3 DEF Busy
    <3> QED
      BY <1>6, <3>1, <3>2, <3>4
  <2> QED
    BY <1>0, <2>1, <2>2, StepRev
       DEF SetRevoked, ScanRevoked, EvictNextRevoked, CallbackReturns
<1>7. ASSUME q.late, q.path = "packet" PROVE CleanNext(t)
  BY <1>0, <1>3, <1>5, <1>7, CleanKept
<1> QED
  BY <1>4, <1>5, <1>6, <1>7
-----------------------------------------------------------------------------
(* The return traffic. *)

\* The session of an entry that stays is in the table after the step if it was
\* before: removing a session removes its entries.
Kept ==
  \A i \in IPs : byInnerIP'[i] # None =>
    /\ byInnerIP'[i] = byInnerIP[i]
    /\ byInnerIP[i] \in Live => byInnerIP[i] \in Live'

\* Evict keeps what it does not remove.
LEMMA EvictKept ==
  ASSUME TypeInv, BackInv, NEW k \in 1 .. n, Evict(k), UNCHANGED <<n, claims>>
  PROVE  Kept
<1>0. /\ n \in Nat /\ bySrc \in [Addrs -> 0 .. n] /\ byInnerIP \in [IPs -> 0 .. n]
      /\ \A j \in 1 .. n : claims[j].src \in Addrs
  BY TimeAssumption DEF TypeInv, TableInv
<1>1. CASE k \notin Live
  BY <1>1 DEF Evict, Kept, Live
<1>2. CASE k \in Live
  <2>1. bySrc' = [bySrc EXCEPT ![claims[k].src] = None] /\ byInnerIP' = Unindexed(k)
    BY <1>2 DEF Evict
  <2>2. bySrc[claims[k].src] = k
    BY <1>2 DEF Live
  <2>3. \A j \in Live : j # k => j \in Live'
    BY <1>0, <2>1, <2>2 DEF Live
  <2>4. ASSUME NEW i \in IPs, byInnerIP'[i] # None
        PROVE  byInnerIP'[i] = byInnerIP[i] /\ byInnerIP[i] # k
    BY <2>1, <2>4 DEF Unindexed, BackInv
  <2> QED
    BY <2>3, <2>4 DEF Kept
<1> QED
  BY <1>1, <1>2

\* Entering a session removes the entries of the one it replaces.
LEMMA EnterKept ==
  ASSUME TypeInv, BackInv, NEW h \in Handshakes, OnEstablished(h)
  PROVE  Kept
<1>0. /\ n \in Nat /\ bySrc \in [Addrs -> 0 .. n] /\ byInnerIP \in [IPs -> 0 .. n]
      /\ \A j \in 1 .. n : claims[j].src \in Addrs
  BY TimeAssumption DEF TypeInv, TableInv
<1>1. PICK e \in hs[h] :
        /\ claims' = [k \in 1 .. n + 1 |->
             IF k <= n THEN claims[k]
             ELSE [src |-> e.src, jti |-> e.jti, deadline |-> Deadline(e.jti)]]
        /\ byInnerIP' = IF bySrc[e.src] = None THEN byInnerIP ELSE Unindexed(bySrc[e.src])
        /\ bySrc' = [bySrc EXCEPT ![e.src] = n + 1]
  BY DEF OnEstablished
<1>2. n' = n + 1 /\ \A j \in 1 .. n : claims'[j] = claims[j]
  BY <1>0, <1>1 DEF OnEstablished
<1>3. ASSUME NEW j \in Live, j # bySrc[e.src] PROVE j \in Live'
  <2>1. j \in 1 .. n /\ bySrc[claims[j].src] = j /\ claims[j].src # e.src
    BY <1>3 DEF Live
  <2>2. bySrc'[claims[j].src] = j /\ j \in 1 .. n + 1
    BY <1>0, <1>1, <2>1
  <2> QED
    BY <1>2, <2>1, <2>2 DEF Live
<1>4. ASSUME NEW i \in IPs, byInnerIP'[i] # None
      PROVE  byInnerIP'[i] = byInnerIP[i] /\ byInnerIP[i] # bySrc[e.src]
  BY <1>1, <1>4 DEF Unindexed, BackInv
<1> QED
  BY <1>3, <1>4 DEF Kept

\* Every step but those of learnInnerIP keeps the entries it does not remove,
\* with their addresses.
LEMMA StepKept ==
  ASSUME TypeInv, BackInv, [Next]_vars, \A w \in Workers : ~LearnInnerIP(w) /\ ~IndexInnerIP(w)
  PROVE  Kept /\ innerIPs' = innerIPs
<1>1. CASE UNCHANGED <<n, claims, bySrc, byInnerIP, innerIPs>>
  BY <1>1 DEF Kept, Live
<1>2. CASE EvictNextRevoked
  <2>1. PICK k \in callback.victims : Evict(k)
    BY <1>2 DEF EvictNextRevoked
  <2>2. k \in 1 .. n
    BY <2>1 DEF TypeInv, VictimInv
  <2> QED
    BY <1>2, <2>1, <2>2, EvictKept DEF EvictNextRevoked
<1>3. CASE EvictNextExpired
  <2>1. PICK k \in sweep : Evict(k)
    BY <1>3 DEF EvictNextExpired
  <2>2. k \in 1 .. n
    BY <2>1 DEF TypeInv, VictimInv
  <2> QED
    BY <1>3, <2>1, <2>2, EvictKept DEF EvictNextExpired
<1>4. ASSUME NEW w \in Workers, EvictFound(w) PROVE Kept /\ innerIPs' = innerIPs
  <2>1. wk[w].ts \in 1 .. n
    BY <1>4, BusyWorker DEF EvictFound, At, TypeInv
  <2> QED
    BY <1>4, <2>1, EvictKept DEF EvictFound
<1>5. ASSUME NEW h \in Handshakes, OnEstablished(h) PROVE Kept /\ innerIPs' = innerIPs
  BY <1>5, EnterKept DEF OnEstablished
<1> QED
  BY Zenon, <1>1, <1>2, <1>3, <1>4, <1>5
     DEF Next, ReturnPump, vars, tableVars, Tick, SetBundle, VerifyCred, SetRevoked, ScanRevoked,
         CallbackReturns, ScanExpired, HandleDatagram, Decide, Gate, Pep, Store, WriteTun,
         ProxyConn, ProxyOpen

\* A worker that takes a step other than the first of learnInnerIP does not
\* come to "index".
LEMMA WorkerPlace ==
  ASSUME TypeInv, NEW v \in Workers, WorkerSteps(v), ~LearnInnerIP(v)
  PROVE  \E q : wk' = [wk EXCEPT ![v] = q] /\ q.pc # "index"
<1>0. WorkerInv
  BY DEF TypeInv
<1>1. ASSUME Done(v) PROVE \E q : wk' = [wk EXCEPT ![v] = q] /\ q.pc # "index"
  <2>1. wk' = [wk EXCEPT ![v] = Idle]
    BY <1>1 DEF Done
  <2>2. Idle.pc # "index"
    BY DEF Idle
  <2> QED
    BY <2>1, <2>2
<1>2. ASSUME wk[v].pc # "idle", NEW p, p # "index", Goto(v, p)
      PROVE  \E q : wk' = [wk EXCEPT ![v] = q] /\ q.pc # "index"
  <2> DEFINE q == [wk[v] EXCEPT !.pc = p]
  <2>1. wk' = [wk EXCEPT ![v] = q]
    BY <1>2 DEF Goto
  <2>2. q.pc = p
    BY <1>0, <1>2, BusyWorker DEF Busy
  <2> QED
    BY <1>2, <2>1, <2>2
<1>3. ASSUME NEW k, NEW path, NEW ip, NEW app, NEW pc, pc # "index", Begin(v, k, path, ip, app, pc)
      PROVE  \E q : wk' = [wk EXCEPT ![v] = q] /\ q.pc # "index"
  <2> DEFINE q == [pc |-> pc, ts |-> k, path |-> path, ip |-> ip, app |-> app, at |-> 0,
                   allow |-> FALSE, late |-> claims[k].jti \in enforced]
  <2>1. wk' = [wk EXCEPT ![v] = q]
    BY <1>3 DEF Begin
  <2>2. q.pc # "index"
    BY <1>3
  <2> QED
    BY <2>1, <2>2
<1>4. CASE \/ \E a \in Addrs, ip \in IPs, app \in Apps \cup {NoApp} : HandleDatagram(v, a, ip, app)
           \/ \E ip \in IPs, app \in Apps \cup {NoApp} : ProxyConn(v, ip, app)
  BY <1>3, <1>4 DEF HandleDatagram, ProxyConn
<1>5. CASE IndexInnerIP(v) \/ Gate(v)
  BY <1>2, <1>5 DEF IndexInnerIP, Gate, At
<1>6. CASE EvictFound(v) \/ WriteTun(v) \/ ProxyOpen(v)
  BY <1>1, <1>6 DEF EvictFound, WriteTun, ProxyOpen
<1>7. CASE Decide(v)
  <2>1. wk[v].pc = "decide" /\ wk[v] \in Busy
    BY <1>0, <1>7, BusyWorker DEF Decide, At
  <2>2. ASSUME wk' = [wk EXCEPT ![v].pc = "gate", ![v].at = now]
        PROVE  \E q : wk' = [wk EXCEPT ![v] = q] /\ q.pc # "index"
    <3> DEFINE q == [wk[v] EXCEPT !.pc = "gate", !.at = now]
    <3>1. wk' = [wk EXCEPT ![v] = q]
      BY <2>2
    <3>2. q.pc = "gate"
      BY <2>1 DEF Busy
    <3> QED
      BY <3>1, <3>2
  <2> QED
    BY <1>1, <1>2, <1>7, <2>1, <2>2 DEF Decide
<1>8. CASE Pep(v)
  <2>1. wk[v].pc = "pep" /\ wk[v] \in Busy
    BY <1>0, <1>8, BusyWorker DEF Pep, At
  <2>2. ASSUME wk' = [wk EXCEPT ![v].pc = "store", ![v].allow = wk[v].app \in policy]
        PROVE  \E q : wk' = [wk EXCEPT ![v] = q] /\ q.pc # "index"
    <3> DEFINE q == [wk[v] EXCEPT !.pc = "store", !.allow = wk[v].app \in policy]
    <3>1. wk' = [wk EXCEPT ![v] = q]
      BY <2>2
    <3>2. q.pc = "store"
      BY <2>1 DEF Busy
    <3> QED
      BY <3>1, <3>2
  <2> QED
    BY <1>1, <1>2, <1>8, <2>1, <2>2 DEF Pep
<1>9. CASE Store(v)
  <2>1. wk[v].pc = "store" /\ wk[v] \in Busy
    BY <1>0, <1>9, BusyWorker DEF Store, At
  <2>2. ASSUME wk' = [wk EXCEPT ![v].pc = "write", ![v].at = 0, ![v].allow = FALSE]
        PROVE  \E q : wk' = [wk EXCEPT ![v] = q] /\ q.pc # "index"
    <3> DEFINE q == [wk[v] EXCEPT !.pc = "write", !.at = 0, !.allow = FALSE]
    <3>1. wk' = [wk EXCEPT ![v] = q]
      BY <2>2
    <3>2. q.pc = "write"
      BY <2>1 DEF Busy
    <3> QED
      BY <3>1, <3>2
  <2> QED
    BY <1>1, <1>9, <2>2 DEF Store
<1> QED
  BY <1>4, <1>5, <1>6, <1>7, <1>8, <1>9 DEF WorkerSteps

\* A worker comes to "index" through the first step of learnInnerIP only.
LEMMA IndexPlace ==
  ASSUME TypeInv, [Next]_vars, \A v \in Workers : ~LearnInnerIP(v),
         NEW w \in Workers, wk'[w].pc = "index"
  PROVE  wk[w].pc = "index" /\ wk'[w].ts = wk[w].ts /\ wk'[w].ip = wk[w].ip
<1>1. CASE wk' = wk
  BY <1>1
<1>2. ASSUME NEW s \in SUBSET Jtis, SetRevoked(s)
      PROVE  wk[w].pc = "index" /\ wk'[w].ts = wk[w].ts /\ wk'[w].ip = wk[w].ip
  <2>1. wk'[w] = IF wk[w] # Idle /\ claims[wk[w].ts].jti \notin s
                 THEN [wk[w] EXCEPT !.late = FALSE] ELSE wk[w]
    BY <1>2 DEF SetRevoked
  <2>2. wk[w] # Idle => wk[w] \in Busy
    BY DEF TypeInv, WorkerInv, WorkerOK
  <2> QED
    BY <2>1, <2>2 DEF Busy
<1>3. ASSUME NEW v \in Workers, WorkerSteps(v)
      PROVE  wk[w].pc = "index" /\ wk'[w].ts = wk[w].ts /\ wk'[w].ip = wk[w].ip
  <2>1. PICK q : wk' = [wk EXCEPT ![v] = q] /\ q.pc # "index"
    BY <1>3, WorkerPlace
  <2>2. w \in DOMAIN wk
    BY DEF TypeInv, WorkerInv
  <2>3. w # v
    BY <2>1, <2>2
  <2> QED
    BY <2>1, <2>3
<1> QED
  BY Zenon, <1>1, <1>2, <1>3
     DEF Next, WorkerSteps, ReturnPump, vars, Tick, SetBundle, VerifyCred, OnEstablished,
         ScanRevoked, EvictNextRevoked, CallbackReturns, ScanExpired, EvictNextExpired

\* BackInv is preserved.
LEMMA BackStep == ASSUME TypeInv, BackInv, [Next]_vars PROVE BackInv'
<1>0. innerIPs \in [Ids -> SUBSET IPs] /\ byInnerIP \in [IPs -> 0 .. n]
  BY DEF TypeInv, TableInv
<1>1. ASSUME NEW w \in Workers, LearnInnerIP(w) PROVE BackInv'
  <2> DEFINE k == wk[w].ts
  <2>1. wk[w] \in Busy /\ k \in Ids
    BY <1>1, BusyWorker DEF LearnInnerIP, At, TypeInv, Busy
  <2>2. innerIPs' = [innerIPs EXCEPT ![k] = @ \cup {wk[w].ip}]
    BY <1>1 DEF LearnInnerIP
  <2>3. wk[w].ip \in innerIPs'[k] /\ \A j \in Ids : innerIPs[j] \subseteq innerIPs'[j]
    BY <1>0, <2>1, <2>2
  <2>4. ASSUME NEW v \in Workers, wk'[v].pc = "index"
        PROVE  wk'[v].ip \in innerIPs'[wk'[v].ts]
    <3>1. CASE v = w
      <4>1. wk'[w].ip = wk[w].ip /\ wk'[w].ts = k
        BY <1>1, <2>1 DEF LearnInnerIP, Goto, TypeInv, WorkerInv, Busy
      <4> QED
        BY <2>3, <3>1, <4>1
    <3>2. CASE v # w
      <4>1. wk'[v] = wk[v]
        BY <1>1, <3>2 DEF LearnInnerIP, Goto
      <4>2. wk[v].ip \in innerIPs[wk[v].ts] /\ wk[v].ts \in Ids
        BY <2>4, <4>1, BusyWorker DEF BackInv, TypeInv, Busy
      <4> QED
        BY <2>3, <4>1, <4>2
    <3> QED
      BY <3>1, <3>2
  <2>5. UNCHANGED <<n, claims, bySrc, byInnerIP, lateIndex, leaked>> /\ Live' = Live
    BY <1>1 DEF LearnInnerIP, backVars, Live
  <2>6. \A i \in IPs : byInnerIP[i] # None => byInnerIP[i] \in Ids
    BY <1>0, TimeAssumption DEF TypeInv, TableInv, None, Ids
  <2> QED
    BY <2>3, <2>4, <2>5, <2>6 DEF BackInv
<1>2. ASSUME NEW w \in Workers, IndexInnerIP(w) PROVE BackInv'
  <2>1. wk[w].ip \in IPs /\ wk[w].ip \in innerIPs[wk[w].ts]
    BY <1>2, BusyWorker DEF IndexInnerIP, At, TypeInv, Busy, BackInv
  <2>2. \A i \in IPs : byInnerIP'[i] = IF i = wk[w].ip THEN wk[w].ts ELSE byInnerIP[i]
    BY <1>0, <1>2 DEF IndexInnerIP
  <2>3. UNCHANGED <<n, claims, bySrc, innerIPs, leaked>> /\ Live' = Live
    BY <1>2 DEF IndexInnerIP, Live
  <2>4. lateIndex' = IF wk[w].ts \in Live THEN lateIndex \ {wk[w].ip} ELSE lateIndex \cup {wk[w].ip}
    BY <1>2 DEF IndexInnerIP
  <2>5. \A v \in Workers : wk'[v].pc = "index" =>
          wk[v].pc = "index" /\ wk'[v].ts = wk[v].ts /\ wk'[v].ip = wk[v].ip
    <3>1. \A v \in Workers : ~LearnInnerIP(v)
      BY <1>2, <2>1, BusyWorker DEF IndexInnerIP, LearnInnerIP, At, Goto, TypeInv, WorkerInv, Busy
    <3> QED
      BY <3>1, IndexPlace
  <2> QED
    BY <2>1, <2>2, <2>3, <2>4, <2>5 DEF BackInv
<1>3. ASSUME \A w \in Workers : ~LearnInnerIP(w) /\ ~IndexInnerIP(w) PROVE BackInv'
  <2>1. Kept /\ innerIPs' = innerIPs
    BY <1>3, StepKept
  <2>2. lateIndex' = lateIndex
    BY <1>3, StepBack DEF backVars, ReturnPump
  <2>3. ~leaked'
    <3>1. ASSUME NEW ip \in IPs, ReturnPump(ip) PROVE ~leaked'
      BY <3>1 DEF ReturnPump, TornDown, BackInv
    <3> QED
      BY <1>3, <3>1, StepBack DEF backVars, BackInv
  <2>4. \A w \in Workers : wk'[w].pc = "index" =>
          wk[w].pc = "index" /\ wk'[w].ts = wk[w].ts /\ wk'[w].ip = wk[w].ip
    BY <1>3, IndexPlace
  <2> QED
    BY <2>1, <2>2, <2>3, <2>4 DEF BackInv, Kept
<1>4. CASE (\E w \in Workers : LearnInnerIP(w)) \/ (\E w \in Workers : IndexInnerIP(w))
  BY <1>1, <1>2, <1>4
<1> QED
  BY <1>3, <1>4
-----------------------------------------------------------------------------
(* The theorems. *)

\* The initial state satisfies the inductive invariant.
LEMMA IInit == Init => IInv
<1> SUFFICES ASSUME Init PROVE IInv
  OBVIOUS
<1>1. TypeInv
  BY TypeInit
<1>2. IndexInv /\ CacheInv
  BY DEF Init, IndexInv, CacheInv, CacheBounded, None, Idle
<1>3. CleanInv /\ LateInv /\ BackInv
  BY DEF Init, CleanInv, LateInv, BackInv, Idle
<1> QED
  BY <1>1, <1>2, <1>3 DEF IInv

\* Every step preserves it.
LEMMA IStep == IInv /\ [Next]_vars => IInv'
BY TypeStep, IndexStep, CacheStep, CleanStep, LateStep, BackStep DEF IInv

\* A cached permission outlives the policy that gave it by flowCacheTTL at
\* most, whoever is suspended between the question and the cache.
THEOREM CacheLifetime == Spec => []CacheBounded
<1>1. IInv => CacheBounded
  BY DEF IInv, CacheInv
<1> QED
  BY <1>1, IInit, IStep, PTL DEF Spec

\* After the revocation callback returned and while the credential stays
\* revoked, what the agent sends is not let through, and a session that was
\* torn down gets no return packet but over an index entry that learnInnerIP
\* wrote after the session had left the table.
THEOREM RevocationAuthority == Spec => []RevokedNotForwarded
<1>1. IInv => RevokedNotForwarded
  BY DEF IInv, LateInv, BackInv, RevokedNotForwarded
<1> QED
  BY <1>1, IInit, IStep, PTL DEF Spec

\* A session leaves the table only because it expired, because its credential
\* was found revoked, or because its own address entered a newer one.
THEOREM TeardownJustified == Spec => EvictJustified
<1>1. ASSUME IInv, [Next]_vars, NEW k \in Live, k \notin Live'
      PROVE  \/ Expired(k)
             \/ claims[k].jti \in revoked
             \/ k \in callback.victims
             \/ \E w \in Workers : wk[w].pc = "evict" /\ wk[w].ts = k
             \/ bySrc'[claims[k].src] > k
  <2>0. /\ TypeInv /\ IndexInv /\ TableMoves /\ n \in Nat
        /\ k \in 1 .. n /\ bySrc[claims[k].src] = k
        /\ claims[k].src \in Addrs /\ DOMAIN bySrc = Addrs
    BY <1>1, StepTable, TimeAssumption DEF IInv, TypeInv, TableInv, Live
  <2>1. CASE UNCHANGED <<n, claims, bySrc>>
    BY <1>1, <2>1 DEF Live
  <2>2. ASSUME UNCHANGED <<n, claims>>, NEW v \in 1 .. n, Removes(v)
        PROVE  \/ Expired(k)
               \/ k \in callback.victims
               \/ \E w \in Workers : wk[w].pc = "evict" /\ wk[w].ts = k
    <3>1. bySrc'[claims[k].src] # k
      BY <1>1, <2>0, <2>2 DEF Live
    <3>2. bySrc[claims[v].src] = v /\ bySrc' = [bySrc EXCEPT ![claims[v].src] = None]
      BY <2>2 DEF Removes, Live
    <3>3. k = v
      BY <2>0, <3>1, <3>2
    <3> QED
      BY <2>0, <2>2, <3>3 DEF Removes, IndexInv
  <2>3. ASSUME NEW src \in Addrs, Enters(src) PROVE bySrc'[claims[k].src] > k
    <3>1. n' = n + 1 /\ claims'[k] = claims[k] /\ bySrc' = [bySrc EXCEPT ![src] = n + 1]
      BY <2>0, <2>3 DEF Enters
    <3>2. bySrc'[claims[k].src] # k
      BY <1>1, <2>0, <3>1 DEF Live
    <3> QED
      BY <2>0, <3>1, <3>2
  <2> QED
    BY <2>0, <2>1, <2>2, <2>3 DEF TableMoves
<1>2. ASSUME IInv, [Next]_vars
      PROVE  [\A k \in Live : k \notin Live' =>
                \/ Expired(k)
                \/ claims[k].jti \in revoked
                \/ k \in callback.victims
                \/ \E w \in Workers : wk[w].pc = "evict" /\ wk[w].ts = k
                \/ bySrc'[claims[k].src] > k]_vars
  BY <1>1, <1>2
<1> QED
  BY <1>2, IInit, IStep, PTL DEF Spec, EvictJustified
=============================================================================
