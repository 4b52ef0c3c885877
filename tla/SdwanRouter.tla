---------------------------- MODULE SdwanRouter ----------------------------
(***************************************************************************)
(* Forwarding between the sites of a tenant on a PoP: the Router of        *)
(* internal/dptunnel/router.go with its prefix table (lpm.go), the         *)
(* registry of site subnets (siteCIDRs) and the wiring of both to the      *)
(* handshake server and the site stream (cmd/pop-agent, startSDWANTunnel). *)
(* A PoP process serves one tenant.                                        *)
(*                                                                         *)
(* A handshake yields a fresh session key, named by the number of the      *)
(* registration; a session is that key with its send counter.  The prefix  *)
(* table is the trie of LpmTrie, over inner addresses of Bits bits.        *)
(* Packets from unknown sources are not steps, and the firewall may give   *)
(* any verdict.                                                            *)
(***************************************************************************)
EXTENDS LpmTrie, FiniteSets

CONSTANTS
  Sites,
  Addrs,        \* UDP addresses of CPEs
  SiteLists,    \* the site lists the control plane may send
  Handshakes,   \* handshake handlers
  Workers,      \* data-plane workers
  MaxRegs,      \* bound: registrations
  MaxUpdates,   \* bound: site list updates
  MaxSeals      \* bound: packets forwarded

Regs == 1 .. MaxRegs
None == 0

ASSUME RouterAssumption ==
  /\ Bits \in Nat /\ MaxRegs \in Nat /\ MaxUpdates \in Nat /\ MaxSeals \in Nat
  /\ SiteLists \subseteq [Sites -> SUBSET Prefix]
  /\ IsFiniteSet(Sites)

VARIABLES
  siteReg,     \* siteCIDRs.m
  established, \* sites in startSDWANTunnel's map of finished handshakes
  todo,        \* sites the running reRegister still has to update
  hs,          \* handshake handlers: what they hold
  n,           \* registrations so far
  entry,       \* siteEntry of each registration
  ctr,         \* Session.sendCtr of its session
  byTenant,    \* Router.byTenant: the registered entries; they are in the
               \* order of their numbers
  routes,      \* Router.routes: the trie of the tenant
  bySrc,       \* Router.bySrc
  wk,          \* workers inside Handle
  updates,     \* counter of a bound
  used, seals  \* history: nonces used, and how many packets were sealed

tableVars == <<n, entry, byTenant, routes, bySrc>>
vars == <<siteReg, established, todo, hs, tableVars, ctr, wk, updates, used, seals>>

Init ==
  /\ siteReg = [s \in Sites |-> {}]
  /\ established = {}
  /\ todo = {}
  /\ hs = [h \in Handshakes |-> {}]
  /\ n = 0
  /\ entry = [r \in {} |-> None]
  /\ ctr = [r \in Regs |-> 0]
  /\ byTenant = {}
  /\ routes = NewTrie
  /\ bySrc = [a \in Addrs |-> None]
  /\ wk = [w \in Workers |-> {}]
  /\ updates = 0
  /\ used = {}
  /\ seals = 0

EntriesOf(s) == {r \in byTenant : entry[r].site = s}

-----------------------------------------------------------------------------
(* Routing. *)

\* rebuildRoutesLocked: a new trie, into which the subnets of the registered
\* entries are inserted in the order of the list.  A tenant without entries
\* has no trie, which answers like an empty one.
Rebuild(reg, ent) ==
  LET after[k \in 0 .. MaxRegs] ==
        IF k = 0 THEN NewTrie
        ELSE IF k \in reg THEN InsertAll(after[k - 1], ent[k].cidrs, k)
        ELSE after[k - 1]
  IN  after[MaxRegs]

\* route
Route(d) == LongestPrefix(routes, d)

-----------------------------------------------------------------------------
(* The site stream. *)

\* siteCIDRs.set replaces the list; its callback reRegister then takes a
\* snapshot of the established sites.
SetSites(m) ==
  /\ todo = {}
  /\ updates < MaxUpdates /\ m # siteReg
  /\ updates' = updates + 1
  /\ siteReg' = m
  /\ todo' = established
  /\ UNCHANGED <<established, hs, tableVars, ctr, wk, used, seals>>

\* Mutant: the site is registered anew, with a session made again from the
\* key of its handshake.
UpdatedCtrMut(s) == [r \in Regs |-> IF r \in EntriesOf(s) THEN 0 ELSE ctr[r]]

\* UpdateCIDRs leaves the session alone.
UpdatedCtr(s) == ctr

\* Mutant: the trie keeps the old subnets.
ReroutedMut(s) == routes

\* UpdateCIDRs: the trie after the site's entry has its new subnets.
Rerouted(s) == IF EntriesOf(s) = {} THEN routes ELSE Rebuild(byTenant, entry')

\* reRegister, one site: UpdateCIDRs changes the entry in place and rebuilds
\* the trie, or does nothing when the site is not registered.
UpdateCIDRs ==
  /\ \E s \in todo :
       /\ entry' = [r \in DOMAIN entry |->
            IF r \in EntriesOf(s) THEN [entry[r] EXCEPT !.cidrs = siteReg[s]] ELSE entry[r]]
       /\ routes' = Rerouted(s)
       /\ ctr' = UpdatedCtr(s)
       /\ todo' = todo \ {s}
  /\ UNCHANGED <<siteReg, established, hs, n, byTenant, bySrc, wk, updates, used, seals>>

-----------------------------------------------------------------------------
(* Handshakes. *)

\* The handshake succeeded: remember the site.
Establish(h, s, a) ==
  /\ hs[h] = {}
  /\ established' = established \cup {s}
  /\ hs' = [hs EXCEPT ![h] = {[site |-> s, addr |-> a, ready |-> FALSE, cidrs |-> {}]}]
  /\ UNCHANGED <<siteReg, todo, tableVars, ctr, wk, updates, used, seals>>

\* The argument of Register is evaluated: siteReg.get.
GetCIDRs(h) ==
  /\ \E e \in hs[h] :
       /\ ~e.ready
       /\ hs' = [hs EXCEPT ![h] = {[e EXCEPT !.ready = TRUE, !.cidrs = siteReg[e.site]]}]
  /\ UNCHANGED <<siteReg, established, todo, tableVars, ctr, wk, updates, used, seals>>

\* Mutant: the old entry of the site stays.
KeptMut(r, s) == TRUE

\* removeLocked: the entries other than the site's.
Kept(r, s) == entry[r].site # s

\* Mutant: the address of the old entry still leads to it.
FreedMut(a, s) == FALSE

\* removeLocked: the address of the site's old entry leads nowhere, whoever
\* uses it now.
Freed(a, s) == \E r \in EntriesOf(s) : entry[r].addr = a

\* Register: remove the site's old entry, enter the new one and rebuild the
\* trie, all under the lock.
Register(h) ==
  /\ n < MaxRegs
  /\ \E e \in hs[h] :
       /\ e.ready
       /\ entry' = [r \in 1 .. n + 1 |->
            IF r <= n THEN entry[r] ELSE [site |-> e.site, addr |-> e.addr, cidrs |-> e.cidrs]]
       /\ byTenant' = {r \in byTenant : Kept(r, e.site)} \cup {n + 1}
       /\ routes' = Rebuild(byTenant', entry')
       /\ bySrc' = [a \in Addrs |->
            IF a = e.addr THEN n + 1
            ELSE IF Freed(a, e.site) THEN None ELSE bySrc[a]]
  /\ n' = n + 1
  /\ hs' = [hs EXCEPT ![h] = {}]
  /\ UNCHANGED <<siteReg, established, todo, ctr, wk, updates, used, seals>>

-----------------------------------------------------------------------------
(* Handle. *)

\* Find the sender's entry and open the datagram with its session.
HandleOpen(w, a, d) ==
  /\ wk[w] = {}
  /\ bySrc[a] # None
  /\ wk' = [wk EXCEPT ![w] = {[from |-> bySrc[a], dst |-> d, to |-> None]}]
  /\ UNCHANGED <<siteReg, established, todo, hs, tableVars, ctr, updates, used, seals>>

\* The firewall denies the packet, or it is routed; a packet without a route
\* or for its own sender is dropped.  The destination has served then.
HandleRoute(w) ==
  /\ \E p \in wk[w] :
       /\ p.to = None
       /\ \/ wk' = [wk EXCEPT ![w] = {}]
          \/ /\ seals < MaxSeals
             /\ \E r \in (1 .. n) \ {p.from} :
                  /\ Route(p.dst) = r
                  /\ wk' = [wk EXCEPT ![w] = {[from |-> p.from, dst |-> 0, to |-> r]}]
  /\ UNCHANGED <<siteReg, established, todo, hs, tableVars, ctr, updates, used, seals>>

\* The packet is sealed with the session of the entry found, which may have
\* been replaced meanwhile, and sent.
HandleSeal(w) ==
  /\ \E p \in wk[w] :
       /\ p.to # None
       /\ used' = used \cup {<<p.to, ctr[p.to]>>}
       /\ ctr' = [ctr EXCEPT ![p.to] = @ + 1]
  /\ seals' = seals + 1
  /\ wk' = [wk EXCEPT ![w] = {}]
  /\ UNCHANGED <<siteReg, established, todo, hs, tableVars, updates>>

Next ==
  \/ \E m \in SiteLists : SetSites(m)
  \/ UpdateCIDRs
  \/ \E h \in Handshakes :
       \/ \E s \in Sites, a \in Addrs : Establish(h, s, a)
       \/ GetCIDRs(h) \/ Register(h)
  \/ \E w \in Workers :
       \/ \E a \in Addrs, d \in Dst : HandleOpen(w, a, d)
       \/ HandleRoute(w) \/ HandleSeal(w)

Spec == Init /\ [][Next]_vars

-----------------------------------------------------------------------------
(* Properties. *)

Entry == [site : Sites, addr : Addrs, cidrs : SUBSET Prefix]

\* The variables have their types; no index or worker refers to an entry
\* that was never registered, and the table is no longer than the sites are
\* many.
TypeOK ==
  /\ siteReg \in [Sites -> SUBSET Prefix]
  /\ established \in SUBSET Sites /\ todo \in SUBSET Sites
  /\ hs \in [Handshakes -> SUBSET [site : Sites, addr : Addrs, ready : BOOLEAN,
                                   cidrs : SUBSET Prefix]]
  /\ n \in 0 .. MaxRegs
  /\ entry \in [1 .. n -> Entry]
  /\ ctr \in [Regs -> Nat]
  /\ byTenant \in SUBSET (1 .. n) /\ Cardinality(byTenant) <= Cardinality(Sites)
  /\ bySrc \in [Addrs -> 0 .. n]
  /\ \A w \in Workers : \A p \in wk[w] : p.from \in 1 .. n /\ p.to \in 0 .. n

\* No nonce is used twice under one session key, although subnets change and
\* sites register again while packets are being forwarded (UpdateCIDRs,
\* reRegister, Register, Seal).
NonceUnique == Cardinality(used) = seals

\* The tables agree: a site has at most one registered entry, an address
\* leads only to a registered entry, and that entry has the address.
TablesAgree ==
  /\ \A s \in Sites : Cardinality(EntriesOf(s)) <= 1
  /\ \A a \in Addrs : bySrc[a] # None => bySrc[a] \in byTenant /\ entry[bySrc[a]].addr = a

Covers(p, d) == d \div 2^(Bits - p.len) = p.val

\* The trie answers as the scan of all subnets did that it replaced: a packet
\* goes to a registered entry with a subnet that covers its destination, and
\* no registered entry has a longer one that does; it has no route only when
\* none covers it.  This holds after every registration, re-registration and
\* change of subnets, so no insertion hides another entry's subnet and no
\* old entry stays reachable (insert, longestPrefix, rebuildRoutesLocked).
LongestPrefixWins ==
  \A d \in Dst :
    LET lens(r) == {p.len : p \in {q \in entry[r].cidrs : Covers(q, d)}}
    IN  \/ Route(d) = None /\ \A r \in byTenant : lens(r) = {}
        \/ /\ Route(d) \in byTenant
           /\ \E l \in lens(Route(d)) : \A r \in byTenant : \A k \in lens(r) : k <= l
=============================================================================
