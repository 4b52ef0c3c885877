------------------------- MODULE SdwanRouter_proofs -------------------------
(***************************************************************************)
(* Proofs about SdwanRouter, for any sites, addresses, address width,      *)
(* handshakes, workers and bounds: type correctness, the uniqueness of     *)
(* nonces, and the agreement of the router's tables.  What the recursive   *)
(* walk of the trie computes is checked by TLC only.                       *)
(***************************************************************************)
EXTENDS SdwanRouter, FiniteSetTheorems, TLAPS

HandshakeState == [site : Sites, addr : Addrs, ready : BOOLEAN, cidrs : SUBSET Prefix]
PacketState(k) == [from : 1 .. k, dst : Int, to : 0 .. k]

SiteInv ==
  /\ siteReg \in [Sites -> SUBSET Prefix]
  /\ established \in SUBSET Sites /\ todo \in SUBSET Sites
  /\ hs \in [Handshakes -> SUBSET HandshakeState]

\* A site has one entry, and an address leads to a registered entry that has
\* the address.
TableInv ==
  /\ n \in 0 .. MaxRegs
  /\ entry \in [1 .. n -> Entry]
  /\ byTenant \in SUBSET (1 .. n)
  /\ bySrc \in [Addrs -> 0 .. n]
  /\ \A r, t \in byTenant : entry[r].site = entry[t].site => r = t
  /\ \A a \in Addrs : bySrc[a] # None => bySrc[a] \in byTenant /\ entry[bySrc[a]].addr = a

WorkerInv == wk \in [Workers -> SUBSET PacketState(n)]

\* Every nonce used is below the counter of its session, so the next one is
\* new.
NonceInv ==
  /\ ctr \in [Regs -> Nat]
  /\ IsFiniteSet(used) /\ seals \in Nat /\ Cardinality(used) = seals
  /\ \A u \in used : \E r \in Regs : \E c \in Nat : u = <<r, c>> /\ c < ctr[r]

IInv == SiteInv /\ TableInv /\ WorkerInv /\ NonceInv

\* The initial state satisfies the invariant.
LEMMA IInit == Init => IInv
<1> SUFFICES ASSUME Init PROVE IInv
  OBVIOUS
<1>1. SiteInv
  BY DEF Init, SiteInv
<1>2. TableInv
  BY RouterAssumption DEF Init, TableInv, None
<1>3. WorkerInv
  BY DEF Init, WorkerInv
<1>4. NonceInv
  BY FS_EmptySet DEF Init, NonceInv
<1> QED
  BY <1>1, <1>2, <1>3, <1>4 DEF IInv

\* When the table only grows, the workers' packets keep their types.
LEMMA PacketsGrow ==
  ASSUME NEW k \in Nat, NEW m \in Nat, k <= m
  PROVE  PacketState(k) \subseteq PacketState(m)
BY DEF PacketState

\* The stream of site lists, and the handshakes up to the registration.
LEMMA SiteStep ==
  ASSUME IInv,
         \/ \E m \in SiteLists : SetSites(m)
         \/ \E h \in Handshakes : GetCIDRs(h) \/ \E s \in Sites, a \in Addrs : Establish(h, s, a)
  PROVE  IInv'
<1>0. SiteInv /\ SiteLists \subseteq [Sites -> SUBSET Prefix]
  BY RouterAssumption DEF IInv
<1>1. UNCHANGED <<tableVars, ctr, wk, used, seals>>
  BY DEF SetSites, GetCIDRs, Establish
<1>2. TableInv' /\ WorkerInv' /\ NonceInv'
  BY <1>1 DEF tableVars, IInv, TableInv, WorkerInv, NonceInv
<1>3. ASSUME NEW m \in SiteLists, SetSites(m) PROVE SiteInv'
  BY <1>0, <1>3 DEF SetSites, SiteInv
<1>4. ASSUME NEW h \in Handshakes, NEW s \in Sites, NEW a \in Addrs, Establish(h, s, a)
      PROVE  SiteInv'
  <2>1. [site |-> s, addr |-> a, ready |-> FALSE, cidrs |-> {}] \in HandshakeState
    BY DEF HandshakeState
  <2> QED
    BY <1>0, <1>4, <2>1 DEF Establish, SiteInv
<1>5. ASSUME NEW h \in Handshakes, GetCIDRs(h) PROVE SiteInv'
  <2>1. PICK e \in hs[h] :
          hs' = [hs EXCEPT ![h] = {[e EXCEPT !.ready = TRUE, !.cidrs = siteReg[e.site]]}]
    BY <1>5 DEF GetCIDRs
  <2>2. e \in HandshakeState
    BY <1>0, <2>1 DEF SiteInv
  <2> DEFINE g == [e EXCEPT !.ready = TRUE]
             f == [g EXCEPT !.cidrs = siteReg[e.site]]
  <2>3. siteReg[e.site] \in SUBSET Prefix
    BY <1>0, <2>2 DEF SiteInv, HandshakeState
  <2>4. g \in HandshakeState
    BY <2>2 DEF HandshakeState
  <2>5. hs' = [hs EXCEPT ![h] = {f}]
    BY <2>1
  <2> HIDE DEF g
  <2>6. f \in HandshakeState
    BY <2>3, <2>4 DEF HandshakeState
  <2> HIDE DEF f
  <2> QED
    BY <1>0, <1>5, <2>5, <2>6 DEF GetCIDRs, SiteInv
<1> QED
  BY <1>2, <1>3, <1>4, <1>5 DEF IInv

\* UpdateCIDRs changes the subnets of entries and nothing else.
LEMMA UpdateStep == ASSUME IInv, UpdateCIDRs PROVE IInv'
<1>1. PICK s \in todo :
        /\ entry' = [r \in DOMAIN entry |->
             IF r \in EntriesOf(s) THEN [entry[r] EXCEPT !.cidrs = siteReg[s]] ELSE entry[r]]
        /\ todo' = todo \ {s}
  BY DEF UpdateCIDRs
<1>2. UNCHANGED <<siteReg, established, hs, n, byTenant, bySrc, wk, ctr, used, seals>>
  BY DEF UpdateCIDRs, UpdatedCtr
<1>3. siteReg[s] \in SUBSET Prefix
  BY <1>1 DEF IInv, SiteInv
<1>4. \A r \in 1 .. n : /\ [entry[r] EXCEPT !.cidrs = siteReg[s]] \in Entry
                        /\ [entry[r] EXCEPT !.cidrs = siteReg[s]].site = entry[r].site
                        /\ [entry[r] EXCEPT !.cidrs = siteReg[s]].addr = entry[r].addr
  BY <1>3 DEF IInv, TableInv, Entry
<1>5. /\ entry' \in [1 .. n -> Entry]
      /\ \A r \in 1 .. n : entry'[r].site = entry[r].site /\ entry'[r].addr = entry[r].addr
  <2>1. DOMAIN entry = 1 .. n /\ \A r \in 1 .. n : entry[r] \in Entry
    BY DEF IInv, TableInv
  <2> QED
    BY <1>1, <1>4, <2>1
<1>6. TableInv'
  <2>1. 1 .. n = 1 .. n' /\ byTenant \subseteq 1 .. n
    BY <1>2 DEF IInv, TableInv
  <2> QED
    BY <1>2, <1>5, <2>1 DEF IInv, TableInv
<1>7. SiteInv' /\ WorkerInv' /\ NonceInv'
  BY <1>1, <1>2 DEF IInv, SiteInv, WorkerInv, NonceInv
<1> QED
  BY <1>6, <1>7 DEF IInv

\* Register replaces the site's entry and frees its address.
LEMMA RegisterStep == ASSUME IInv, NEW h \in Handshakes, Register(h) PROVE IInv'
<1>1. PICK e \in hs[h] :
        /\ entry' = [r \in 1 .. n + 1 |->
             IF r <= n THEN entry[r] ELSE [site |-> e.site, addr |-> e.addr, cidrs |-> e.cidrs]]
        /\ byTenant' = {r \in byTenant : Kept(r, e.site)} \cup {n + 1}
        /\ bySrc' = [a \in Addrs |->
             IF a = e.addr THEN n + 1 ELSE IF Freed(a, e.site) THEN None ELSE bySrc[a]]
  BY DEF Register
<1>2. n < MaxRegs /\ n' = n + 1 /\ hs' = [hs EXCEPT ![h] = {}]
      /\ UNCHANGED <<siteReg, established, todo, ctr, wk, used, seals>>
  BY DEF Register
<1>3. e \in HandshakeState /\ n \in Nat /\ MaxRegs \in Nat
  BY <1>1, RouterAssumption DEF IInv, SiteInv, TableInv
<1> DEFINE new == [site |-> e.site, addr |-> e.addr, cidrs |-> e.cidrs]
<1>4. new \in Entry /\ new.site = e.site /\ new.addr = e.addr
  BY <1>3 DEF Entry, HandshakeState
<1> HIDE DEF new
<1>5. /\ entry' \in [1 .. n + 1 -> Entry] /\ entry'[n + 1] = new
      /\ \A r \in 1 .. n : entry'[r] = entry[r]
  <2>1. entry' = [r \in 1 .. n + 1 |-> IF r <= n THEN entry[r] ELSE new]
    BY <1>1 DEF new
  <2>2. n + 1 \in 1 .. n + 1 /\ ~(n + 1 <= n) /\ \A r \in 1 .. n : r \in 1 .. n + 1 /\ r <= n
    BY <1>3
  <2>3. \A r \in 1 .. n + 1 : r <= n => entry[r] \in Entry
    BY <1>3 DEF IInv, TableInv
  <2> QED
    BY <1>4, <2>1, <2>2, <2>3
<1>6. byTenant \subseteq 1 .. n /\ n + 1 \notin byTenant
  BY <1>3 DEF IInv, TableInv
<1>7. \A r, t \in byTenant' : entry'[r].site = entry'[t].site => r = t
  <2>1. \A r \in byTenant' : r = n + 1 \/ (r \in byTenant /\ entry[r].site # e.site)
    BY <1>1 DEF Kept
  <2>2. \A r \in byTenant : entry'[r] = entry[r]
    BY <1>5, <1>6
  <2>3. entry'[n + 1].site = e.site
    BY <1>4, <1>5
  <2>4. \A r, t \in byTenant : entry[r].site = entry[t].site => r = t
    BY DEF IInv, TableInv
  <2> SUFFICES ASSUME NEW r \in byTenant', NEW t \in byTenant',
                      entry'[r].site = entry'[t].site
               PROVE  r = t
    OBVIOUS
  <2>5. CASE r = n + 1
    BY <2>1, <2>2, <2>3, <2>5
  <2>6. CASE t = n + 1
    BY <2>1, <2>2, <2>3, <2>6
  <2>7. CASE r # n + 1 /\ t # n + 1
    <3>1. r \in byTenant /\ t \in byTenant
      BY <2>1, <2>7
    <3> QED
      BY <2>2, <2>4, <3>1
  <2> QED
    BY <2>5, <2>6, <2>7
<1>8. ASSUME NEW a \in Addrs, bySrc'[a] # None
      PROVE  bySrc'[a] \in byTenant' /\ entry'[bySrc'[a]].addr = a
  <2>1. CASE a = e.addr
    BY <1>1, <1>4, <1>5, <2>1
  <2>2. CASE a # e.addr
    <3>1. bySrc'[a] = bySrc[a] /\ ~Freed(a, e.site)
      BY <1>1, <1>8, <2>2
    <3>2. bySrc[a] \in byTenant /\ entry[bySrc[a]].addr = a
      BY <1>8, <3>1 DEF IInv, TableInv
    <3>3. entry[bySrc[a]].site # e.site
      BY <3>1, <3>2 DEF Freed, EntriesOf
    <3> QED
      BY <1>1, <1>5, <1>6, <3>1, <3>2, <3>3 DEF Kept
  <2> QED
    BY <2>1, <2>2
<1>9. bySrc' \in [Addrs -> 0 .. n + 1] /\ byTenant' \in SUBSET (1 .. n + 1)
  <2>1. \A a \in Addrs : bySrc[a] \in 0 .. n + 1
    BY <1>3 DEF IInv, TableInv
  <2>2. 0 \in 0 .. n + 1 /\ n + 1 \in 0 .. n + 1
    BY <1>3
  <2>3. bySrc' \in [Addrs -> 0 .. n + 1]
    BY <1>1, <2>1, <2>2 DEF None
  <2>4. 1 .. n \subseteq 1 .. n + 1 /\ n + 1 \in 1 .. n + 1
    BY <1>3
  <2> QED
    BY <1>1, <1>6, <2>3, <2>4
<1>10. TableInv'
  BY <1>2, <1>3, <1>5, <1>7, <1>8, <1>9 DEF TableInv
<1>11. WorkerInv'
  <2>1. PacketState(n) \subseteq PacketState(n')
    BY <1>2, <1>3, PacketsGrow
  <2> QED
    BY <1>2, <2>1 DEF IInv, WorkerInv
<1>12. SiteInv' /\ NonceInv'
  BY <1>2 DEF IInv, SiteInv, NonceInv
<1> QED
  BY <1>10, <1>11, <1>12 DEF IInv

-----------------------------------------------------------------------------
(* Forwarding. *)

\* The data-plane workers.
LEMMA HandleStep ==
  ASSUME IInv, NEW w \in Workers,
         \/ \E a \in Addrs, d \in Dst : HandleOpen(w, a, d)
         \/ HandleRoute(w) \/ HandleSeal(w)
  PROVE  IInv'
<1>0. SiteInv /\ TableInv /\ WorkerInv /\ NonceInv
  BY DEF IInv
<1>1. UNCHANGED <<siteReg, established, todo, hs, n, entry, byTenant, bySrc>>
  BY DEF HandleOpen, HandleRoute, HandleSeal, tableVars
<1>2. SiteInv' /\ TableInv'
  BY <1>0, <1>1 DEF SiteInv, TableInv
<1>3. ASSUME NEW a \in Addrs, NEW d \in Dst, HandleOpen(w, a, d)
      PROVE  WorkerInv' /\ NonceInv'
  <2>1. bySrc[a] \in 1 .. n /\ 0 \in 0 .. n
    BY <1>0, <1>3 DEF HandleOpen, TableInv, None
  <2>2. [from |-> bySrc[a], dst |-> d, to |-> None] \in PacketState(n)
    BY <2>1 DEF PacketState, None, Dst
  <2>3. WorkerInv'
    BY <1>0, <1>1, <1>3, <2>2 DEF HandleOpen, WorkerInv
  <2>4. NonceInv'
    BY <1>0, <1>3 DEF HandleOpen, NonceInv
  <2> QED
    BY <2>3, <2>4
<1>4. ASSUME HandleRoute(w) PROVE WorkerInv' /\ NonceInv'
  <2>1. PICK p \in wk[w] :
          \/ wk' = [wk EXCEPT ![w] = {}]
          \/ \E r \in 1 .. n : wk' = [wk EXCEPT ![w] = {[from |-> p.from, dst |-> 0, to |-> r]}]
    BY <1>4 DEF HandleRoute
  <2>2. p \in PacketState(n)
    BY <1>0, <2>1 DEF WorkerInv
  <2>3. \A r \in 1 .. n : r \in 0 .. n
    BY <1>0, RouterAssumption DEF TableInv
  <2>4. \A r \in 1 .. n : [from |-> p.from, dst |-> 0, to |-> r] \in PacketState(n)
    BY <2>2, <2>3 DEF PacketState
  <2>5. WorkerInv'
    BY <1>0, <1>1, <2>1, <2>4 DEF WorkerInv
  <2>6. NonceInv'
    BY <1>0, <1>4 DEF HandleRoute, NonceInv
  <2> QED
    BY <2>5, <2>6
<1>5. ASSUME HandleSeal(w) PROVE WorkerInv' /\ NonceInv'
  <2>1. PICK p \in wk[w] :
          /\ p.to # None
          /\ used' = used \cup {<<p.to, ctr[p.to]>>}
          /\ ctr' = [ctr EXCEPT ![p.to] = @ + 1]
    BY <1>5 DEF HandleSeal
  <2>2. seals' = seals + 1 /\ wk' = [wk EXCEPT ![w] = {}]
    BY <1>5 DEF HandleSeal
  <2>3. p \in PacketState(n) /\ n \in 0 .. MaxRegs
    BY <1>0, <2>1 DEF WorkerInv, TableInv
  <2> DEFINE r == p.to
             x == <<r, ctr[r]>>
  <2>4. r \in Regs
    BY <2>1, <2>3, RouterAssumption DEF PacketState, Regs, None
  <2>5. ctr[r] \in Nat /\ ctr' = [ctr EXCEPT ![r] = ctr[r] + 1] /\ ctr' \in [Regs -> Nat]
    BY <1>0, <2>1, <2>4 DEF NonceInv
  <2>6. used' = used \cup {x}
    BY <2>1
  <2> HIDE DEF r
  <2>7. x \notin used
    <3> SUFFICES ASSUME x \in used PROVE FALSE
      OBVIOUS
    <3>1. PICK q \in Regs : \E c \in Nat : x = <<q, c>> /\ c < ctr[q]
      BY <1>0 DEF NonceInv
    <3>2. PICK c \in Nat : x = <<q, c>> /\ c < ctr[q]
      BY <3>1
    <3>3. q = r /\ c = ctr[r]
      BY <3>2
    <3> QED
      BY <2>5, <3>2, <3>3
  <2>8. \A q \in Regs : ctr[q] \in Nat /\ ctr'[q] \in Nat /\ ctr[q] <= ctr'[q]
    BY <1>0, <2>5 DEF NonceInv
  <2>9. ctr[r] < ctr'[r]
    BY <1>0, <2>4, <2>5 DEF NonceInv
  <2>10. ASSUME NEW u \in used'
         PROVE  \E q \in Regs : \E c \in Nat : u = <<q, c>> /\ c < ctr'[q]
    <3>1. CASE u = x
      BY <2>4, <2>5, <2>9, <3>1
    <3>2. CASE u \in used
      <4>1. PICK q \in Regs : \E c \in Nat : u = <<q, c>> /\ c < ctr[q]
        BY <1>0, <3>2 DEF NonceInv
      <4>2. PICK c \in Nat : u = <<q, c>> /\ c < ctr[q]
        BY <4>1
      <4>3. c < ctr'[q]
        BY <2>8, <4>2
      <4> QED
        BY <4>2, <4>3
    <3> QED
      BY <2>6, <3>1, <3>2
  <2> HIDE DEF x
  <2>11. IsFiniteSet(used') /\ Cardinality(used') = seals'
    <3>1. IsFiniteSet(used) /\ Cardinality(used) = seals
      BY <1>0 DEF NonceInv
    <3>2. IsFiniteSet(used \cup {x}) /\ Cardinality(used \cup {x}) = seals + 1
      BY <2>7, <3>1, FS_AddElement
    <3> QED
      BY <2>2, <2>6, <3>2
  <2>12. NonceInv'
    BY <1>0, <2>2, <2>5, <2>10, <2>11 DEF NonceInv
  <2>13. WorkerInv'
    BY <1>0, <1>1, <2>2 DEF WorkerInv
  <2> QED
    BY <2>12, <2>13
<1> QED
  BY <1>2, <1>3, <1>4, <1>5 DEF IInv

\* Every step of the router preserves the invariant.
LEMMA IStep == ASSUME IInv, [Next]_vars PROVE IInv'
<1>1. CASE Next
  BY <1>1, SiteStep, UpdateStep, RegisterStep, HandleStep DEF Next
<1>2. CASE UNCHANGED vars
  BY <1>2 DEF vars, tableVars, IInv, SiteInv, TableInv, WorkerInv, NonceInv
<1> QED
  BY <1>1, <1>2

\* The invariant holds in every reachable state.
LEMMA Invariance == Spec => []IInv
BY IInit, IStep, PTL DEF Spec

-----------------------------------------------------------------------------
(* The theorems. *)

\* The table holds at most one entry per site, so it is no longer than the
\* sites are many.
LEMMA TableSmall ==
  ASSUME TableInv
  PROVE  Cardinality(byTenant) <= Cardinality(Sites)
<1> DEFINE f == [r \in byTenant |-> entry[r].site]
<1>1. f \in Injection(byTenant, Sites)
  <2>1. \A r \in byTenant : entry[r].site \in Sites
    BY DEF TableInv, Entry
  <2>2. \A r, t \in byTenant : entry[r].site = entry[t].site => r = t
    BY DEF TableInv
  <2> QED
    BY <2>1, <2>2 DEF Injection, IsInjective
<1> HIDE DEF f
<1> QED
  BY <1>1, RouterAssumption, FS_Injection

\* The variables have their types: no index and no worker refers to an entry
\* that was never registered, and removeLocked keeps the table no longer than
\* the sites are many.
THEOREM TypeCorrect == Spec => []TypeOK
<1>1. ASSUME IInv PROVE TypeOK
  <2>1. SiteInv /\ TableInv /\ WorkerInv /\ NonceInv
    BY <1>1 DEF IInv
  <2>2. \A w \in Workers : \A p \in wk[w] : p.from \in 1 .. n /\ p.to \in 0 .. n
    BY <2>1 DEF WorkerInv, PacketState
  <2> QED
    BY <2>1, <2>2, TableSmall DEF TypeOK, SiteInv, TableInv, NonceInv, HandshakeState
<1> QED
  BY <1>1, Invariance, PTL

\* No nonce is used twice under one session key, although UpdateCIDRs changes
\* entries in place and Register replaces them while workers hold them.
THEOREM NoncesUnique == Spec => []NonceUnique
<1>1. IInv => NonceUnique
  BY DEF IInv, NonceInv, NonceUnique
<1> QED
  BY <1>1, Invariance, PTL

\* A site has at most one registered entry, and an address leads only to a
\* registered entry that has it (Register, removeLocked).
THEOREM TablesConsistent == Spec => []TablesAgree
<1>1. ASSUME TableInv PROVE TablesAgree
  <2>1. ASSUME NEW s \in Sites PROVE Cardinality(EntriesOf(s)) <= 1
    <3>1. CASE EntriesOf(s) = {}
      BY <3>1, FS_EmptySet
    <3>2. CASE EntriesOf(s) # {}
      <4>1. PICK r \in EntriesOf(s) : TRUE
        BY <3>2
      <4>2. EntriesOf(s) = {r}
        <5>1. \A t, q \in byTenant : entry[t].site = entry[q].site => t = q
          BY <1>1 DEF TableInv
        <5>2. \A t \in EntriesOf(s) : t \in byTenant /\ entry[t].site = s
          BY DEF EntriesOf
        <5>3. \A t \in EntriesOf(s) : t = r
          BY <4>1, <5>1, <5>2
        <5> QED
          BY <4>1, <5>3
      <4>3. Cardinality({r}) = 1
        BY FS_Singleton
      <4> QED
        BY <4>2, <4>3
    <3> QED
      BY <3>1, <3>2
  <2> QED
    BY <1>1, <2>1 DEF TablesAgree, TableInv
<1> QED
  BY <1>1, Invariance, PTL DEF IInv
=============================================================================
