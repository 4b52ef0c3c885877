------------------------ MODULE SessionLife_proofs ------------------------
(***************************************************************************)
(* Proofs about SessionLife, for any lifetimes, numbers of credentials,    *)
(* handlers, findings and environments: type correctness, that the PoP does *)
(* not admit what its list in force was read to revoke, and that the gates *)
(* of the refresh stop what was already revoked or disabled.               *)
(***************************************************************************)
EXTENDS SessionLife, FiniteSetTheorems, TLAPS

-----------------------------------------------------------------------------
(* The risk score. *)

Weights == {0, 10, 25, 50, 90}
Factor == [weight : Weights, till : 0 .. MaxTime + EventTTL]

\* A nonempty set of naturals has a least element.
LEMMA NatMin ==
  ASSUME NEW T, T \subseteq Nat, T # {}
  PROVE  \E x \in T : \A y \in T : x <= y
<1> DEFINE R == OpToRel(<, Nat)
<1>1. IsWellFoundedOn(R, Nat)
  BY NatLessThanWellFounded
<1>2. \A x, y \in Nat : y < x => <<y, x>> \in R
  BY DEF OpToRel
<1> HIDE DEF R
<1>3. PICK x \in T : \A y \in T : ~(<<y, x>> \in R)
  BY <1>1, WFMin
<1>4. \A y \in T : x \in Nat /\ y \in Nat /\ ~(y < x)
  BY <1>2, <1>3
<1> QED
  BY <1>4

\* The lesser of two integers.
LEMMA MinOfTwo ==
  ASSUME NEW a \in Int, NEW b \in Int
  PROVE  Min({a, b}) \in {a, b} /\ Min({a, b}) <= a /\ Min({a, b}) <= b
<1>1. \E x \in {a, b} : \A y \in {a, b} : x =< y
  <2>1. CASE a <= b
    BY <2>1
  <2>2. CASE b <= a
    BY <2>2
  <2> QED
    BY <2>1, <2>2
<1>2. Min({a, b}) \in {a, b} /\ \A y \in {a, b} : Min({a, b}) =< y
  BY <1>1 DEF Min
<1> QED
  BY <1>2

\* The sums over the subsets of the factors, as the fold defines them.
Picked(s) == CHOOSE x \in s : TRUE
SumsTo(fs, D, g) ==
  g = [s \in D |-> IF s = {} THEN 0 ELSE fs[Picked(s)].weight + g[s \ {Picked(s)}]]
UpTo(k) == {s \in SUBSET FactorIds : Cardinality(s) <= k}

\* There are finitely many factors.
LEMMA FactorsFinite == IsFiniteSet(FactorIds)
<1>1. IsFiniteSet(Findings) /\ IsFiniteSet({"posture"})
  BY RiskAssumption, FS_Singleton
<1>2. IsFiniteSet({f.rule : f \in Findings})
  <2> DEFINE T == {f.rule : f \in Findings}
             r == [f \in Findings |-> f.rule]
  <2>1. r \in Surjection(Findings, T)
    BY DEF Surjection
  <2> HIDE DEF T, r
  <2>2. IsFiniteSet(T)
    BY <1>1, <2>1, FS_Surjection
  <2> QED
    BY <2>2 DEF T
<1> QED
  BY <1>1, <1>2, FS_Union DEF FactorIds, Rules

\* Without the element picked, a set of factors is smaller.
LEMMA PickSmaller ==
  ASSUME NEW s \in SUBSET FactorIds, s # {}
  PROVE  /\ Picked(s) \in FactorIds /\ s \ {Picked(s)} \in SUBSET FactorIds
         /\ Cardinality(s) \in Nat /\ Cardinality(s \ {Picked(s)}) \in Nat
         /\ Cardinality(s) = Cardinality(s \ {Picked(s)}) + 1
<1>1. Picked(s) \in s
  BY DEF Picked
<1>2. IsFiniteSet(s)
  BY FactorsFinite, FS_Subset
<1>3. Cardinality(s \ {Picked(s)}) = Cardinality(s) - 1 /\ IsFiniteSet(s \ {Picked(s)})
  BY <1>1, <1>2, FS_RemoveElement
<1>4. Cardinality(s) \in Nat /\ Cardinality(s \ {Picked(s)}) \in Nat
  BY <1>2, <1>3, FS_CardinalityType
<1> QED
  BY <1>1, <1>3, <1>4

\* The sums over the sets of at most k factors exist, for every k.
LEMMA SumsExist ==
  ASSUME NEW fs \in [FactorIds -> Factor], NEW k \in Nat
  PROVE  \E g : SumsTo(fs, UpTo(k), g)
<1> DEFINE Bad == {m \in Nat : ~\E g : SumsTo(fs, UpTo(m), g)}
<1> SUFFICES ASSUME Bad # {} PROVE FALSE
  OBVIOUS
<1>1. PICK m \in Bad : \A j \in Bad : m <= j
  <2>1. Bad \subseteq Nat
    OBVIOUS
  <2> HIDE DEF Bad
  <2> QED
    BY <2>1, NatMin
<1>2. m \in Nat /\ ~\E g : SumsTo(fs, UpTo(m), g)
  BY <1>1
<1>3. CASE m = 0
  <2> DEFINE g == [s \in UpTo(0) |-> 0]
  <2>1. ASSUME NEW s \in UpTo(0) PROVE s = {}
    <3> SUFFICES ASSUME s # {} PROVE FALSE
      OBVIOUS
    <3>1. s \in SUBSET FactorIds /\ Cardinality(s) <= 0
      BY DEF UpTo
    <3> DEFINE c == Cardinality(s)
               d == Cardinality(s \ {Picked(s)})
    <3>2. c \in Nat /\ d \in Nat /\ c = d + 1
      BY <3>1, PickSmaller
    <3> HIDE DEF c, d
    <3>3. c <= 0
      BY <3>1 DEF c
    <3> QED
      BY <3>2, <3>3
  <2>2. g = [s \in UpTo(0) |-> IF s = {} THEN 0 ELSE fs[Picked(s)].weight + g[s \ {Picked(s)}]]
    BY <2>1
  <2> HIDE DEF g
  <2>3. SumsTo(fs, UpTo(0), g)
    BY <2>2 DEF SumsTo
  <2> QED
    BY <1>2, <1>3, <2>3
<1>4. CASE m # 0
  <2>1. m - 1 \in Nat /\ m - 1 \notin Bad
    BY <1>1, <1>2, <1>4
  <2>2. PICK g : SumsTo(fs, UpTo(m - 1), g)
    BY <2>1
  <2> DEFINE h == [s \in UpTo(m) |-> IF s = {} THEN 0 ELSE fs[Picked(s)].weight + g[s \ {Picked(s)}]]
  <2>3. \A s \in UpTo(m - 1) : s \in UpTo(m)
    <3> SUFFICES ASSUME NEW s \in UpTo(m - 1) PROVE s \in UpTo(m)
      OBVIOUS
    <3>1. s \in SUBSET FactorIds /\ Cardinality(s) <= m - 1
      BY DEF UpTo
    <3>2. Cardinality(s) \in Nat
      BY <3>1, FactorsFinite, FS_Subset, FS_CardinalityType
    <3> QED
      BY <1>2, <3>1, <3>2 DEF UpTo
  <2>4. \A s \in UpTo(m - 1) : h[s] = g[s]
    BY <2>2, <2>3 DEF SumsTo
  <2>5. ASSUME NEW s \in UpTo(m), s # {} PROVE s \ {Picked(s)} \in UpTo(m - 1)
    <3>1. s \in SUBSET FactorIds /\ Cardinality(s) <= m
      BY DEF UpTo
    <3>2. /\ s \ {Picked(s)} \in SUBSET FactorIds
          /\ Cardinality(s) \in Nat /\ Cardinality(s \ {Picked(s)}) \in Nat
          /\ Cardinality(s) = Cardinality(s \ {Picked(s)}) + 1
      BY <2>5, <3>1, PickSmaller
    <3> QED
      BY <1>2, <3>1, <3>2 DEF UpTo
  <2>6. h = [s \in UpTo(m) |-> IF s = {} THEN 0 ELSE fs[Picked(s)].weight + h[s \ {Picked(s)}]]
    <3>1. \A s \in UpTo(m) : s # {} => h[s \ {Picked(s)}] = g[s \ {Picked(s)}]
      BY <2>4, <2>5
    <3> QED
      BY <3>1
  <2> HIDE DEF h
  <2>7. SumsTo(fs, UpTo(m), h)
    BY <2>6 DEF SumsTo
  <2> QED
    BY <1>2, <2>7
<1> QED
  BY <1>3, <1>4

\* Sums of weights are naturals.
LEMMA SumsNatural ==
  ASSUME NEW fs \in [FactorIds -> Factor], NEW g, SumsTo(fs, SUBSET FactorIds, g)
  PROVE  g[FactorIds] \in Nat
<1> DEFINE Bad == {Cardinality(s) : s \in {t \in SUBSET FactorIds : g[t] \notin Nat}}
<1>0. \A s \in SUBSET FactorIds : Cardinality(s) \in Nat
  BY FactorsFinite, FS_Subset, FS_CardinalityType
<1> SUFFICES ASSUME Bad # {} PROVE FALSE
  OBVIOUS
<1>1. PICK m \in Bad : \A j \in Bad : m <= j
  <2>1. Bad \subseteq Nat
    BY <1>0
  <2> HIDE DEF Bad
  <2> QED
    BY <2>1, NatMin
<1>2. PICK s \in SUBSET FactorIds : g[s] \notin Nat /\ m = Cardinality(s)
  BY <1>1
<1>3. g[s] = IF s = {} THEN 0 ELSE fs[Picked(s)].weight + g[s \ {Picked(s)}]
  BY DEF SumsTo
<1>4. s # {}
  BY <1>2, <1>3
<1> DEFINE t == s \ {Picked(s)}
<1>5. /\ Picked(s) \in FactorIds /\ t \in SUBSET FactorIds
      /\ Cardinality(s) \in Nat /\ Cardinality(t) \in Nat /\ Cardinality(s) = Cardinality(t) + 1
  BY <1>4, PickSmaller
<1>6. fs[Picked(s)].weight \in Nat
  BY <1>5 DEF Factor, Weights
<1>7. g[t] \notin Nat
  BY <1>2, <1>3, <1>4, <1>6
<1>8. Cardinality(t) \in Bad
  BY <1>5, <1>7
<1> HIDE DEF Bad, t
<1> QED
  BY <1>1, <1>2, <1>5, <1>8

\* The score is a percentage (assessLocked caps the sum of the weights).
LEMMA ScoreType ==
  ASSUME NEW fs \in [FactorIds -> Factor]
  PROVE  Score(fs) \in 0 .. 100
<1> DEFINE g == CHOOSE h : SumsTo(fs, SUBSET FactorIds, h)
<1> DEFINE Sums(h) == h = [s \in SUBSET FactorIds |->
                        IF s = {} THEN 0
                        ELSE fs[CHOOSE x \in s : TRUE].weight + h[s \ {CHOOSE x \in s : TRUE}]]
<1>0. Score(fs) = Min({100, (CHOOSE h : Sums(h))[FactorIds]})
  BY DEF Score, MapThenSumSet, MapThenFoldSet
<1>1. Score(fs) = Min({100, g[FactorIds]})
  <2>1. \A h : Sums(h) <=> SumsTo(fs, SUBSET FactorIds, h)
    BY DEF SumsTo, Picked
  <2> HIDE DEF Sums
  <2>2. (CHOOSE h : Sums(h)) = g
    BY <2>1, Zenon
  <2> QED
    BY <1>0, <2>2
<1>2. \E h : SumsTo(fs, SUBSET FactorIds, h)
  <2>1. Cardinality(FactorIds) \in Nat
    BY FactorsFinite, FS_CardinalityType
  <2>2. UpTo(Cardinality(FactorIds)) = SUBSET FactorIds
    <3>1. \A s \in SUBSET FactorIds : Cardinality(s) <= Cardinality(FactorIds)
      BY FactorsFinite, FS_Subset
    <3> QED
      BY <3>1 DEF UpTo
  <2> QED
    BY <2>1, <2>2, SumsExist
<1>3. SumsTo(fs, SUBSET FactorIds, g)
  BY <1>2
<1> HIDE DEF g
<1>4. g[FactorIds] \in Nat
  BY <1>3, SumsNatural
<1> DEFINE v == g[FactorIds]
<1>5. v \in Nat /\ v \in Int /\ 100 \in Int /\ Score(fs) = Min({100, v})
  BY <1>1, <1>4
<1> HIDE DEF v
<1>6. Min({100, v}) \in {100, v} /\ Min({100, v}) <= 100
  BY <1>5, MinOfTwo, Zenon
<1> QED
  BY <1>5, <1>6

-----------------------------------------------------------------------------
(* The inductive invariant. *)

\* Lifetimes: a credential ends within its lifetime from now, the row of a
\* revoked one outlives it, and is collected only after it has ended.
LifeInv ==
  /\ \A j \in Issued : exp[j] <= now + MaxTTL /\ (mode = "idp" => exp[j] <= now + SessionTTL)
  /\ \A j \in Jtis : rows[j] # None =>
       j \in revoked /\ exp[j] <= rows[j] /\ (mode = "idp" => exp[j] < rows[j])
  /\ \A j \in revoked : rows[j] # None \/ exp[j] <= now

\* What was revoked when a list was read is in it as long as it matters.
Complete(list, known) == \A j \in known : j \in list \/ exp[j] <= now
OutInv == Complete(popRev, popKnown) /\ \A l \in loads : Complete(l.list, l.known)

\* The agent holds only credentials that were issued.
HoldInv ==
  /\ {store.jti, sessJTI, refresh.jti, tunnel.jti} \subseteq 0 .. Len(exp)
  /\ refresh.pc # "wait" => refresh.jti # None
  /\ tunnel.pc = "hello" => tunnel.jti # None

\* What speaks against a request of the refresh still does at the gate that
\* looks at it.
GateInv ==
  /\ refresh.pc \in Gates => /\ mode = "idp"
                             /\ refresh.at <= now /\ now <= refresh.at + 1
  /\ refresh.bad =>
       \/ refresh.pc \in Gates /\ ~active
       \/ refresh.pc \in Gates \ {"user"} /\ device # "redeemed"
       \/ refresh.pc = "verify" /\ rows[refresh.jti] > refresh.at
       \/ refresh.pc = "revchk" /\ rows[refresh.jti] > refresh.at + 1

\* The engine names only credentials that were issued, and fires at one.
EngineInv ==
  /\ signals \subseteq [jti : 1 .. Len(exp), id : FactorIds, weight : Weights]
  /\ factors \in [FactorIds -> Factor]
  /\ lastJTI \in 0 .. Len(exp) /\ firedJTI \in 0 .. Len(exp)
  /\ handler \in [Handlers -> [pc : {"idle", "persist", "fire"}, score : 0 .. 100,
                               target : 0 .. Len(exp)]]
  /\ \A h \in Handlers : handler[h].pc = "fire" => handler[h].target # None
  /\ snap \in [score : 0 .. 100, level : Levels \cup {"none"}]
  /\ owed \subseteq Jtis /\ tried \subseteq Jtis

NoteInv == found \subseteq Findings /\ blamed \subseteq Jtis /\ riskRev \subseteq Jtis

CredInv == CredTypeOK /\ LifeInv /\ OutInv
AgentInv == DaemonTypeOK /\ HoldInv
IInv == CredInv /\ AgentInv /\ GateInv /\ EngineInv /\ NoteInv

-----------------------------------------------------------------------------
(* What does not change. *)

\* The credentials and the revocations.
LEMMA CredFrame == ASSUME CredInv, UNCHANGED <<credVars, mode>> PROVE CredInv'
<1>1. UNCHANGED <<now, exp, rows, active, device, revoked,
                  loads, popRev, popKnown, evicting, popHs, popSess, mode>>
  BY DEF credVars
<1>2. CredTypeOK'
  BY <1>1 DEF CredInv, CredTypeOK
<1>3. LifeInv'
  BY <1>1 DEF CredInv, LifeInv, Issued
<1>4. OutInv'
  BY <1>1 DEF CredInv, OutInv, Complete
<1> QED
  BY <1>2, <1>3, <1>4 DEF CredInv

\* The agent.
LEMMA AgentFrame == ASSUME AgentInv, UNCHANGED <<daemonVars, exp>> PROVE AgentInv'
<1>1. UNCHANGED <<mode, control, store, sessJTI, sessRevoked, health, refresh, tunnel, reconnect,
                  channel, buf, fails, restarts, exp>>
  BY DEF daemonVars
<1> QED
  BY <1>1 DEF AgentInv, DaemonTypeOK, HoldInv

\* The request of the refresh and what its gates look at.
LEMMA GateFrame ==
  ASSUME GateInv, UNCHANGED <<refresh, now, active, device, rows, mode>>
  PROVE  GateInv'
BY DEF GateInv

\* The engine.
LEMMA EngineFrame == ASSUME EngineInv, UNCHANGED <<riskVars, exp>> PROVE EngineInv'
<1>1. UNCHANGED <<signals, factors, lastJTI, firedJTI, handler, snap, tried, owed, exp>>
  BY DEF riskVars
<1> QED
  BY <1>1 DEF EngineInv

\* The histories.
LEMMA NoteFrame == ASSUME NoteInv, UNCHANGED noteVars PROVE NoteInv'
BY DEF NoteInv, noteVars

-----------------------------------------------------------------------------
(* Credentials and revocations. *)

\* IssueCredential never exceeds MaxTTL nor what was asked for.
LEMMA ClampType ==
  ASSUME NEW ttl \in Nat \ {0}
  PROVE  Clamp(ttl) \in 1 .. MaxTTL /\ Clamp(ttl) <= ttl
<1>1. ttl \in Int /\ MaxTTL \in Int /\ MaxTTL \in Nat \ {0}
  BY CredentialAssumption
<1>2. Min({ttl, MaxTTL}) \in {ttl, MaxTTL} /\ Min({ttl, MaxTTL}) <= ttl
      /\ Min({ttl, MaxTTL}) <= MaxTTL
  BY <1>1, MinOfTwo, Zenon
<1> QED
  BY <1>1, <1>2 DEF Clamp

\* The clock.
LEMMA TickStep == ASSUME IInv, InTime, Tick, UNCHANGED mode PROVE CredInv' /\ (UNCHANGED refresh => GateInv')
<1>1. /\ now' = now + 1 /\ now < MaxTime
      /\ UNCHANGED <<exp, rows, revoked, active, device,
                     loads, popRev, popKnown, evicting, popHs, popSess, mode>>
  BY DEF Tick, rowVars, peopleVars, popVars, listVars
<1>2. CredTypeOK /\ LifeInv /\ OutInv /\ GateInv /\ DaemonTypeOK
  BY DEF IInv, CredInv, AgentInv
<1>3. /\ now \in Nat /\ MaxTime \in Nat /\ MaxTTL \in Nat /\ SessionTTL \in Nat
      /\ now' \in 0 .. MaxTime
  BY <1>1, <1>2, CredentialAssumption, DaemonAssumption DEF CredTypeOK
<1>4. CredTypeOK'
  BY <1>1, <1>2, <1>3 DEF CredTypeOK
<1>5. \A j \in Issued : exp[j] \in Int
  BY <1>2, <1>3 DEF Issued, CredTypeOK
<1>6. /\ revoked \subseteq Issued /\ popKnown \subseteq Issued
      /\ \A l \in loads : l.known \subseteq Issued
  BY <1>2 DEF CredTypeOK, Issued
<1>7. LifeInv'
  BY <1>1, <1>2, <1>3, <1>5, <1>6 DEF LifeInv, Issued
<1>8. OutInv'
  <2>1. Complete(popRev, popKnown)'
    BY <1>1, <1>2, <1>3, <1>5, <1>6 DEF OutInv, Complete
  <2>2. ASSUME NEW l \in loads PROVE Complete(l.list, l.known)'
    <3>1. Complete(l.list, l.known) /\ l.known \subseteq Issued
      BY <1>2, <1>6 DEF OutInv
    <3> QED
      BY <1>1, <1>3, <1>5, <3>1 DEF Complete
  <2> QED
    BY <1>1, <2>1, <2>2 DEF OutInv
<1>9. ASSUME UNCHANGED refresh PROVE GateInv'
  <2>1. refresh.at \in Nat
    BY <1>2 DEF DaemonTypeOK
  <2> QED
    BY <1>1, <1>2, <1>3, <1>9, <2>1 DEF GateInv, InTime
<1> QED
  BY <1>4, <1>7, <1>8, <1>9 DEF CredInv

\* A row that has not expired stays.
Keeps == \A k \in Jtis : rows[k] # None /\ rows[k] >= now => rows'[k] = rows[k]

\* Expired rows go.
LEMMA CollectStep ==
  ASSUME CredInv, rows' = Collected(rows), UNCHANGED <<now, exp, revoked, peopleVars, popVars, mode>>
  PROVE  CredInv' /\ Keeps
<1>1. UNCHANGED <<now, exp, revoked, active, device,
                  loads, popRev, popKnown, evicting, popHs, popSess, mode>>
  BY DEF peopleVars, popVars, listVars
<1>2. CredTypeOK /\ LifeInv /\ OutInv
  BY DEF CredInv
<1>3. /\ now \in Nat /\ MaxTime \in Nat /\ MaxTTL \in Nat
      /\ \A k \in Jtis : rows[k] \in 0 .. MaxTime + MaxTTL
  BY <1>2, CredentialAssumption DEF CredTypeOK
<1>4. rows' = [k \in Jtis |-> IF rows[k] < now THEN 0 ELSE rows[k]]
  BY DEF Collected, None
<1>5. Keeps
  BY <1>3, <1>4 DEF Keeps
<1>6. CredTypeOK'
  <2>1. rows' \in [Jtis -> 0 .. MaxTime + MaxTTL]
    BY <1>3, <1>4
  <2> QED
    BY <1>1, <1>2, <2>1 DEF CredTypeOK
<1>7. LifeInv'
  <2>1. \A j \in revoked : j \in Jtis /\ exp[j] \in Int
    BY <1>2, <1>3, CredentialAssumption DEF CredTypeOK, Jtis
  <2>2. \A k \in Jtis : rows'[k] # None => rows'[k] = rows[k]
    BY <1>4 DEF None
  <2>3. \A j \in revoked : rows'[j] # None \/ exp[j] <= now
    BY <1>2, <1>3, <1>4, <2>1 DEF LifeInv, None
  <2> QED
    BY <1>1, <1>2, <2>2, <2>3 DEF LifeInv, Issued
<1>8. OutInv'
  BY <1>1, <1>2 DEF OutInv, Complete
<1> QED
  BY <1>5, <1>6, <1>7, <1>8 DEF CredInv

\* The transaction of RevokeCredential.
LEMMA RevokeStep ==
  ASSUME CredInv, NEW j \in Issued, RevokeCredential(j),
         UNCHANGED <<now, exp, peopleVars, popVars, mode>>
  PROVE  CredInv' /\ Keeps
<1>1. UNCHANGED <<now, exp, active, device, loads, popRev, popKnown, evicting, popHs, popSess, mode>>
  BY DEF peopleVars, popVars, listVars
<1>2. CredTypeOK /\ LifeInv /\ OutInv
  BY DEF CredInv
<1>3. /\ now \in Nat /\ MaxTime \in Nat /\ MaxTTL \in Nat \ {0} /\ now <= MaxTime
      /\ SessionTTL \in Nat /\ SessionTTL < MaxTTL
      /\ \A k \in Jtis : rows[k] \in 0 .. MaxTime + MaxTTL
  BY <1>2, CredentialAssumption, DaemonAssumption DEF CredTypeOK
<1>4. \A k \in Issued : k \in Jtis /\ exp[k] \in Int
  BY <1>2, <1>3, CredentialAssumption DEF CredTypeOK, Issued, Jtis
<1> DEFINE q == IF rows[j] = 0 THEN now + MaxTTL ELSE rows[j]
           e == [rows EXCEPT ![j] = q]
<1>5. rows' = Collected(e) /\ revoked' = revoked \cup {j}
  BY DEF RevokeCredential, None
<1>6. q \in 0 .. MaxTime + MaxTTL /\ q # 0
  BY <1>3, <1>4
<1>7. exp[j] <= q /\ (mode = "idp" => exp[j] < q)
  BY <1>2, <1>3, <1>4 DEF LifeInv, None
<1>8. e \in [Jtis -> 0 .. MaxTime + MaxTTL] /\ e[j] = q /\ \A k \in Jtis : k # j => e[k] = rows[k]
  <2> HIDE DEF q
  <2>1. rows \in [Jtis -> 0 .. MaxTime + MaxTTL]
    BY <1>2 DEF CredTypeOK
  <2> QED
    BY <1>4, <1>6, <2>1
<1>9. \A k \in Jtis : rows[k] # 0 => e[k] = rows[k]
  BY <1>8
<1> HIDE DEF e
<1>10. rows' = [k \in Jtis |-> IF e[k] < now THEN 0 ELSE e[k]]
  BY <1>5 DEF Collected, None
<1>11. Keeps
  BY <1>9, <1>10, <1>3 DEF Keeps, None
<1>12. rows' \in [Jtis -> 0 .. MaxTime + MaxTTL]
  BY <1>3, <1>8, <1>10
<1>13. CredTypeOK'
  <2>1. revoked' \subseteq DOMAIN exp'
    BY <1>1, <1>2, <1>5 DEF CredTypeOK, Issued
  <2> QED
    BY <1>1, <1>2, <1>12, <2>1 DEF CredTypeOK
<1> HIDE DEF q
<1>14. \A k \in Jtis : e[k] # 0 =>
         k \in revoked' /\ exp[k] <= e[k] /\ (mode = "idp" => exp[k] < e[k])
  <2> SUFFICES ASSUME NEW k \in Jtis, e[k] # 0
               PROVE  k \in revoked' /\ exp[k] <= e[k] /\ (mode = "idp" => exp[k] < e[k])
    OBVIOUS
  <2>1. CASE k = j
    BY <1>5, <1>7, <1>8, <2>1
  <2>2. CASE k # j
    BY <1>2, <1>5, <1>8, <2>2 DEF LifeInv, None
  <2> QED
    BY <2>1, <2>2
<1>15. \A k \in revoked' : e[k] # 0 \/ exp[k] <= now
  <2>1. \A k \in revoked : k \in Jtis
    BY <1>2, <1>4 DEF CredTypeOK, Issued
  <2>2. \A k \in revoked : e[k] # 0 \/ exp[k] <= now
    BY <1>2, <1>9, <2>1 DEF LifeInv, None
  <2> QED
    BY <1>5, <1>6, <1>8, <2>2
<1>16. LifeInv'
  <2>1. \A k \in Jtis : rows'[k] # 0 => rows'[k] = e[k]
    BY <1>10
  <2>2. \A k \in revoked' : k \in Issued /\ k \in Jtis
    BY <1>2, <1>4, <1>5 DEF CredTypeOK, Issued
  <2>3. \A k \in revoked' : rows'[k] # 0 \/ exp[k] <= now
    <3> SUFFICES ASSUME NEW k \in revoked' PROVE rows'[k] # 0 \/ exp[k] <= now
      OBVIOUS
    <3>1. k \in Jtis /\ exp[k] \in Int /\ e[k] \in Int
      BY <1>4, <1>8, <2>2
    <3>2. CASE e[k] < now
      BY <1>3, <1>14, <1>15, <3>1, <3>2
    <3>3. CASE ~(e[k] < now)
      BY <1>10, <1>15, <3>1, <3>3
    <3> QED
      BY <3>2, <3>3
  <2>4. \A k \in Jtis : rows'[k] # 0 =>
          k \in revoked' /\ exp[k] <= rows'[k] /\ (mode = "idp" => exp[k] < rows'[k])
    BY <1>14, <2>1
  <2>5. \A k \in Issued : exp[k] <= now + MaxTTL /\ (mode = "idp" => exp[k] <= now + SessionTTL)
    BY <1>2 DEF LifeInv
  <2> QED
    BY <1>1, <2>3, <2>4, <2>5 DEF LifeInv, None, Issued
<1>17. OutInv'
  BY <1>1, <1>2 DEF OutInv, Complete
<1> QED
  BY <1>11, <1>13, <1>16, <1>17 DEF CredInv

\* The rows that speak against a request stay while it is at the gates.
LEMMA GateKeeps ==
  ASSUME GateInv, CredTypeOK, DaemonTypeOK, HoldInv, Keeps,
         UNCHANGED <<refresh, now, active, device, mode>>
  PROVE  GateInv'
<1>1. CASE refresh.pc \in {"verify", "revchk"}
  <2>1. refresh.jti \in Jtis /\ refresh.at \in Nat /\ now \in Nat /\ refresh.pc \in Gates
    <3>1. refresh.pc \in Gates /\ refresh.pc # "wait"
      BY <1>1 DEF Gates
    <3>2. refresh.jti \in Jtis \cup {None} /\ refresh.at \in 0 .. MaxTime /\ now \in 0 .. MaxTime
      BY DEF DaemonTypeOK, CredTypeOK
    <3>3. refresh.jti # None
      BY <3>1 DEF HoldInv
    <3> QED
      BY <3>1, <3>2, <3>3, CredentialAssumption
  <2>2. rows[refresh.jti] \in Nat /\ now <= refresh.at + 1
    BY <2>1, CredentialAssumption DEF CredTypeOK, GateInv
  <2>3. rows[refresh.jti] > refresh.at => rows'[refresh.jti] = rows[refresh.jti]
    BY <2>1, <2>2 DEF Keeps, None
  <2>4. rows[refresh.jti] > refresh.at + 1 => rows[refresh.jti] > refresh.at
    BY <2>1, <2>2
  <2> QED
    BY <2>3, <2>4 DEF GateInv
<1>2. CASE refresh.pc \notin {"verify", "revchk"}
  BY <1>2 DEF GateInv
<1> QED
  BY <1>1, <1>2

\* DisableUser and RevokeDevice.
LEMMA PeopleStep ==
  ASSUME CredInv, GateInv, DisableUser \/ RevokeDevice, UNCHANGED <<mode, refresh>>
  PROVE  CredInv' /\ GateInv'
<1>1. UNCHANGED <<now, exp, rows, revoked,
                  loads, popRev, popKnown, evicting, popHs, popSess, mode, refresh>>
  BY DEF DisableUser, RevokeDevice, rowVars, popVars, listVars
<1>2. /\ active' \in {active, FALSE} /\ device' \in {device, "revoked"}
  BY DEF DisableUser, RevokeDevice
<1>3. CredTypeOK'
  BY <1>1, <1>2 DEF CredInv, CredTypeOK
<1>4. LifeInv' /\ OutInv'
  BY <1>1 DEF CredInv, LifeInv, OutInv, Complete, Issued
<1>5. (~active => ~active') /\ (device # "redeemed" => device' # "redeemed")
  BY DEF DisableUser, RevokeDevice
<1>6. GateInv'
  BY <1>1, <1>5 DEF GateInv
<1> QED
  BY <1>3, <1>4, <1>6 DEF CredInv

\* A list is read and set; the eviction and the sweep.
LEMMA PopStep ==
  ASSUME CredInv, ReadList \/ SetList \/ EvictRevoked \/ PopSweep, UNCHANGED mode
  PROVE  CredInv'
<1>1. UNCHANGED <<now, exp, rows, revoked, active, device, popHs, mode>>
  BY DEF ReadList, SetList, EvictRevoked, PopSweep, rowVars, peopleVars
<1>2. CredTypeOK /\ LifeInv /\ OutInv
  BY DEF CredInv
<1>3. LifeInv'
  BY <1>1, <1>2 DEF LifeInv, Issued
<1>4. now \in Nat /\ \A j \in Issued : j \in Jtis /\ exp[j] \in Int /\ rows[j] \in Int
  <2>1. MaxTTL \in Nat /\ MaxTime \in Nat /\ MaxCreds \in Nat
    BY CredentialAssumption
  <2>2. \A j \in Issued : j \in Jtis
    BY <1>2, <2>1 DEF CredTypeOK, Issued, Jtis
  <2> QED
    BY <1>2, <2>1, <2>2 DEF CredTypeOK, Issued
<1>5. CASE ReadList
  <2> DEFINE n == [list |-> Live, known |-> revoked]
  <2>1. loads' = loads \cup {n} /\ UNCHANGED <<popRev, popKnown, evicting, popSess>>
    BY <1>5 DEF ReadList
  <2>2. Live \subseteq DOMAIN exp /\ revoked \subseteq DOMAIN exp
    BY <1>2 DEF Live, CredTypeOK, Issued
  <2>3. n \in [list : SUBSET (DOMAIN exp), known : SUBSET (DOMAIN exp)]
    BY <2>2
  <2>4. Complete(n.list, n.known)
    <3> SUFFICES ASSUME NEW j \in revoked, ~(exp[j] <= now) PROVE j \in Live
      BY DEF Complete
    <3>1. j \in Issued
      BY <2>2 DEF Issued
    <3>2. rows[j] # None /\ exp[j] <= rows[j]
      BY <1>2, <1>4, <3>1 DEF LifeInv
    <3>3. rows[j] > now
      BY <1>4, <3>1, <3>2
    <3> QED
      BY <3>1, <3>3 DEF Live, IsRevoked
  <2> HIDE DEF n
  <2>5. CredTypeOK'
    BY <1>1, <1>2, <2>1, <2>3 DEF CredTypeOK
  <2>6. OutInv'
    BY <1>1, <1>2, <2>1, <2>4 DEF OutInv, Complete
  <2> QED
    BY <1>3, <2>5, <2>6 DEF CredInv
<1>6. CASE SetList
  <2>1. PICK l \in loads : popRev' = l.list /\ popKnown' = l.known /\ loads' = loads \ {l}
    BY <1>6 DEF SetList
  <2>2. evicting' = TRUE /\ UNCHANGED popSess
    BY <1>6 DEF SetList
  <2>3. l.list \subseteq DOMAIN exp /\ l.known \subseteq DOMAIN exp
    BY <1>2 DEF CredTypeOK
  <2>4. CredTypeOK'
    BY <1>1, <1>2, <2>1, <2>2, <2>3 DEF CredTypeOK
  <2>5. OutInv'
    BY <1>1, <1>2, <2>1 DEF OutInv, Complete
  <2> QED
    BY <1>3, <2>4, <2>5 DEF CredInv
<1>7. CASE EvictRevoked \/ PopSweep
  <2>1. popSess' \subseteq popSess /\ UNCHANGED <<loads, popRev, popKnown>> /\ evicting' \in BOOLEAN
    BY <1>2, <1>7 DEF EvictRevoked, PopSweep, listVars, CredTypeOK
  <2>2. CredTypeOK' /\ OutInv'
    BY <1>1, <1>2, <2>1 DEF CredTypeOK, OutInv, Complete
  <2> QED
    BY <1>3, <2>2 DEF CredInv
<1> QED
  BY <1>5, <1>6, <1>7

\* A handshake is verified, or enters its session.
LEMMA HandshakeStep ==
  ASSUME CredInv, popHs' \subseteq Issued, popSess' \subseteq Issued,
         UNCHANGED <<now, exp, rows, revoked, active, device, loads, popRev, popKnown, evicting, mode>>
  PROVE  CredInv'
<1>1. CredTypeOK'
  BY DEF CredInv, CredTypeOK, Issued
<1>2. LifeInv'
  BY DEF CredInv, LifeInv, Issued
<1>3. OutInv'
  BY DEF CredInv, OutInv, Complete
<1> QED
  BY <1>1, <1>2, <1>3 DEF CredInv

\* A credential is issued with lifetime SessionTTL.
LEMMA IssueStep ==
  ASSUME CredInv, IssueCredential(SessionTTL), device' \in {device, "redeemed"},
         UNCHANGED <<now, rows, revoked, active, popVars, mode>>
  PROVE  CredInv' /\ Len(exp') = Len(exp) + 1 /\ Len(exp') \in Jtis
<1>1. CredTypeOK /\ LifeInv /\ OutInv /\ UNCHANGED <<loads, popRev, popKnown, evicting, popHs, popSess>>
  BY DEF CredInv, popVars, listVars
<1>2. /\ MaxTTL \in Nat \ {0} /\ MaxTime \in Nat /\ MaxCreds \in Nat
      /\ SessionTTL \in Nat \ {0} /\ now \in 0 .. MaxTime
  BY <1>1, CredentialAssumption, DaemonAssumption DEF CredTypeOK
<1> DEFINE x == now + Clamp(SessionTTL)
<1>3. Clamp(SessionTTL) \in 1 .. MaxTTL /\ Clamp(SessionTTL) <= SessionTTL
  BY <1>2, ClampType
<1>4. x \in 1 .. MaxTime + MaxTTL /\ x <= now + MaxTTL /\ x <= now + SessionTTL
  BY <1>2, <1>3
<1>5. exp' = Append(exp, x) /\ Len(exp) < MaxCreds
  BY DEF IssueCredential
<1> HIDE DEF x
<1>6. /\ exp \in Seq(1 .. MaxTime + MaxTTL) /\ Len(exp) \in Nat
      /\ exp' \in Seq(1 .. MaxTime + MaxTTL) /\ Len(exp') = Len(exp) + 1
      /\ DOMAIN exp = 1 .. Len(exp) /\ DOMAIN exp' = 1 .. Len(exp) + 1
      /\ exp'[Len(exp) + 1] = x /\ \A j \in 1 .. Len(exp) : exp'[j] = exp[j]
  BY <1>1, <1>4, <1>5 DEF CredTypeOK
<1>7. Issued \subseteq Issued' /\ Issued' = Issued \cup {Len(exp) + 1}
  BY <1>6 DEF Issued
<1>8. CredTypeOK'
  <2>1. Len(exp') <= MaxCreds /\ device' \in {"redeemed", "revoked"}
    BY <1>1, <1>2, <1>5, <1>6 DEF CredTypeOK
  <2>2. DOMAIN exp \subseteq DOMAIN exp'
    BY <1>7 DEF Issued
  <2>3. loads' \subseteq [list : SUBSET (DOMAIN exp'), known : SUBSET (DOMAIN exp')]
    BY <1>1, <2>2 DEF CredTypeOK
  <2> QED
    BY <1>1, <1>6, <2>1, <2>2, <2>3 DEF CredTypeOK
<1>9. /\ revoked \subseteq Issued /\ popKnown \subseteq Issued
      /\ \A l \in loads : l.known \subseteq Issued
      /\ \A j \in Issued : exp'[j] = exp[j]
  BY <1>1, <1>6 DEF CredTypeOK, Issued
<1>10. LifeInv'
  <2>1. \A j \in Issued' : exp'[j] <= now + MaxTTL /\ (mode = "idp" => exp'[j] <= now + SessionTTL)
    BY <1>1, <1>4, <1>6, <1>7, <1>9 DEF LifeInv
  <2>2. \A j \in Jtis : rows[j] # None =>
          j \in revoked /\ exp'[j] <= rows[j] /\ (mode = "idp" => exp'[j] < rows[j])
    BY <1>1, <1>9 DEF LifeInv
  <2>3. \A j \in revoked : rows[j] # None \/ exp'[j] <= now
    BY <1>1, <1>9 DEF LifeInv
  <2> QED
    BY <2>1, <2>2, <2>3 DEF LifeInv
<1>11. OutInv'
  BY <1>1, <1>9 DEF OutInv, Complete
<1>12. Len(exp') \in Jtis
  BY <1>2, <1>5, <1>6 DEF Jtis
<1> QED
  BY <1>6, <1>8, <1>10, <1>11, <1>12 DEF CredInv

-----------------------------------------------------------------------------
(* The agent. *)

RefreshState == [pc : Gates \cup {"wait", "issue", "reply", "signal"}, jti : Jtis \cup {None},
                 at : 0 .. MaxTime, bad : BOOLEAN]
TunnelState == [pc : {"select", "hello", "answer", "up", "backoff"}, jti : Jtis \cup {None}]

\* A step of the refresh loop.
LEMMA RefreshMoves ==
  ASSUME AgentInv, refresh' \in RefreshState, refresh'.jti \in 0 .. Len(exp),
         refresh'.pc # "wait" => refresh'.jti # None,
         fails' \in Nat, reconnect' \in BOOLEAN,
         UNCHANGED <<mode, control, store, sessJTI, sessRevoked, health, tunnel, channel, buf,
                     restarts, exp>>
  PROVE  AgentInv'
<1>1. DaemonTypeOK'
  BY DEF AgentInv, DaemonTypeOK, RefreshState
<1>2. HoldInv'
  BY DEF AgentInv, HoldInv
<1> QED
  BY <1>1, <1>2 DEF AgentInv

\* A step of the tunnel.
LEMMA TunnelMoves ==
  ASSUME AgentInv, tunnel' \in TunnelState, tunnel'.jti \in 0 .. Len(exp),
         tunnel'.pc = "hello" => tunnel'.jti # None,
         fails' \in Nat, reconnect' \in BOOLEAN,
         UNCHANGED <<mode, control, store, sessJTI, sessRevoked, health, refresh, channel, buf,
                     restarts, exp>>
  PROVE  AgentInv'
<1>1. DaemonTypeOK'
  BY DEF AgentInv, DaemonTypeOK, TunnelState
<1>2. HoldInv'
  BY DEF AgentInv, HoldInv
<1> QED
  BY <1>1, <1>2 DEF AgentInv

\* A step of the posture or of the control channel.
LEMMA ChannelMoves ==
  ASSUME AgentInv, health' \in Healths \cup {"unknown"}, channel' \in Jtis \cup {None},
         buf' \in Seq(Jtis), Len(buf') <= BufCap, sessRevoked' \in BOOLEAN, fails' \in Nat,
         UNCHANGED <<mode, control, store, sessJTI, refresh, tunnel, reconnect, restarts, exp>>
  PROVE  AgentInv'
<1>1. DaemonTypeOK'
  BY DEF AgentInv, DaemonTypeOK
<1>2. HoldInv'
  BY DEF AgentInv, HoldInv
<1> QED
  BY <1>1, <1>2 DEF AgentInv

\* The loop that waits holds nothing against anyone.
LEMMA WaitingOK ==
  Waiting \in RefreshState /\ Waiting.pc = "wait" /\ Waiting.jti = 0 /\ ~Waiting.bad
BY CredentialAssumption DEF Waiting, RefreshState, None

\* RefreshSend, RefreshGate, RefreshReply and RefreshSignal.
LEMMA RefreshStep ==
  ASSUME IInv, Refresh, UNCHANGED <<riskVars, noteVars>>
  PROVE  IInv'
<1>0. CredInv /\ CredTypeOK /\ LifeInv /\ AgentInv /\ DaemonTypeOK /\ HoldInv /\ GateInv
      /\ EngineInv /\ NoteInv
  BY DEF IInv, CredInv, AgentInv
<1>1. /\ UNCHANGED <<now, exp, rows, active, device, revoked,
                     loads, popRev, popKnown, evicting, popHs, popSess>>
      /\ UNCHANGED <<mode, control, sessJTI, sessRevoked, health, tunnel, channel, buf, restarts>>
  BY DEF Refresh, RefreshSend, RefreshGate, RefreshReply, RefreshSignal, credVars, configVars,
         channelVars
<1>2. CredInv' /\ EngineInv' /\ NoteInv'
  BY <1>0, <1>1, CredFrame, EngineFrame, NoteFrame DEF credVars
<1>3. /\ Len(exp) \in Nat /\ now \in 0 .. MaxTime /\ MaxTime \in Nat /\ MaxTTL \in Nat
      /\ SessionTTL \in Nat /\ SessionTTL < MaxTTL
      /\ refresh \in RefreshState /\ store.jti \in Jtis /\ fails \in Nat
      /\ reconnect \in BOOLEAN
  BY <1>0, CredentialAssumption, DaemonAssumption DEF CredTypeOK, DaemonTypeOK, RefreshState
<1>4. CASE refresh' = Waiting /\ fails' \in Nat /\ reconnect' \in BOOLEAN /\ UNCHANGED store
  <2>1. AgentInv'
    BY <1>0, <1>1, <1>3, <1>4, WaitingOK, RefreshMoves DEF None
  <2>2. GateInv'
    BY <1>4, WaitingOK DEF GateInv, Gates
  <2> QED
    BY <1>2, <2>1, <2>2 DEF IInv
<1>5. CASE RefreshSend
  <2> DEFINE b == IsRevoked(store.jti) \/ ~active \/ device # "redeemed"
             r == [pc |-> "verify", jti |-> store.jti, at |-> now, bad |-> b]
  <2>1. refresh' = r /\ mode = "idp" /\ UNCHANGED <<store, fails, reconnect>>
    BY <1>5 DEF RefreshSend
  <2>2. b \in BOOLEAN
    OBVIOUS
  <2>3. b => rows[store.jti] > now \/ ~active \/ device # "redeemed"
    BY DEF IsRevoked
  <2> HIDE DEF b
  <2>4. r \in RefreshState /\ r.jti = store.jti /\ r.pc = "verify" /\ r.at = now /\ r.bad = b
    BY <1>3, <2>2 DEF RefreshState, Gates
  <2>5. store.jti \in 0 .. Len(exp) /\ store.jti # None
    BY <1>0, <1>3, CredentialAssumption DEF HoldInv, Jtis, None
  <2> HIDE DEF r
  <2>6. AgentInv'
    BY <1>0, <1>1, <1>3, <2>1, <2>4, <2>5, RefreshMoves
  <2>7. GateInv'
    BY <1>1, <1>3, <2>1, <2>3, <2>4 DEF GateInv, Gates
  <2> QED
    BY <1>2, <2>6, <2>7 DEF IInv
<1>6. CASE RefreshGate
  <2>1. refresh.pc \in Gates /\ UNCHANGED <<store, reconnect>>
    BY <1>6 DEF RefreshGate
  <2>2. CASE refresh' = Waiting
    <3>1. fails' \in Nat
      BY <1>3, <1>6 DEF RefreshGate, Fail
    <3> QED
      BY <1>3, <1>4, <2>1, <2>2, <3>1
  <2>3. CASE refresh' # Waiting
    <3> DEFINE r == [refresh EXCEPT !.pc = After(refresh.pc)]
    <3>1. refresh' = r /\ Passes(refresh.pc) /\ fails' = fails
      BY <1>6, <2>3 DEF RefreshGate
    <3>2. /\ refresh.pc = "verify" => After(refresh.pc) = "revchk" /\ Verify(refresh.jti)
          /\ refresh.pc = "revchk" => After(refresh.pc) = "device" /\ ~IsRevoked(refresh.jti)
          /\ refresh.pc = "device" => After(refresh.pc) = "user" /\ device = "redeemed"
          /\ refresh.pc = "user" => After(refresh.pc) = "issue" /\ active
      BY <3>1 DEF After, Passes
    <3>3. After(refresh.pc) \in {"revchk", "device", "user", "issue"}
      BY <2>1, <3>2 DEF Gates
    <3>4. /\ r \in RefreshState /\ r.jti = refresh.jti /\ r.at = refresh.at
          /\ r.bad = refresh.bad /\ r.pc = After(refresh.pc)
      BY <1>3, <3>3 DEF RefreshState, Gates
    <3> HIDE DEF r
    <3>5. refresh.jti \in 0 .. Len(exp) /\ refresh.jti # 0 /\ refresh.jti \in Jtis
      BY <1>0, <1>3, <2>1, CredentialAssumption DEF HoldInv, Gates, None, RefreshState
    <3>6. AgentInv'
      BY <1>0, <1>1, <1>3, <2>1, <3>1, <3>3, <3>4, <3>5, RefreshMoves DEF None
    <3>7. refresh.at \in Nat /\ refresh.at <= now /\ now <= refresh.at + 1 /\ mode = "idp"
          /\ rows[refresh.jti] \in Nat /\ exp[refresh.jti] \in Nat
      <4>1. rows[refresh.jti] \in Nat
        BY <1>0, <1>3, <3>5 DEF CredTypeOK
      <4>2. exp[refresh.jti] \in Nat
        BY <1>0, <1>3, <3>5 DEF CredTypeOK
      <4>3. refresh.at \in Nat
        BY <1>3 DEF RefreshState
      <4> QED
        BY <1>0, <2>1, <4>1, <4>2, <4>3 DEF GateInv
    <3>8. ASSUME refresh.pc = "verify", rows[refresh.jti] > refresh.at
          PROVE  rows[refresh.jti] > refresh.at + 1
      <4>1. now < exp[refresh.jti] /\ exp[refresh.jti] < rows[refresh.jti]
        BY <1>0, <3>2, <3>5, <3>7, <3>8 DEF Verify, LifeInv, None
      <4> QED
        BY <1>3, <3>7, <4>1
    <3>9. ASSUME refresh.pc = "revchk" PROVE ~(rows[refresh.jti] > refresh.at + 1)
      BY <1>3, <3>2, <3>7, <3>9 DEF IsRevoked
    <3>10. GateInv'
      <4>1. refresh'.pc \in Gates =>
              mode = "idp" /\ refresh'.at <= now /\ now <= refresh'.at + 1
        BY <3>1, <3>4, <3>7
      <4>2. ASSUME refresh.bad
            PROVE  \/ r.pc \in Gates /\ ~active
                   \/ r.pc \in Gates \ {"user"} /\ device # "redeemed"
                   \/ r.pc = "revchk" /\ rows[refresh.jti] > refresh.at + 1
        <5>1. CASE refresh.pc = "verify"
          BY <1>0, <3>2, <3>4, <3>8, <4>2, <5>1 DEF GateInv, Gates
        <5>2. CASE refresh.pc = "revchk"
          BY <1>0, <3>2, <3>4, <3>9, <4>2, <5>2 DEF GateInv, Gates
        <5>3. CASE refresh.pc \in {"device", "user"}
          BY <1>0, <3>2, <3>4, <4>2, <5>3 DEF GateInv, Gates
        <5> QED
          BY <2>1, <5>1, <5>2, <5>3 DEF Gates
      <4> QED
        BY <1>1, <3>1, <3>4, <4>1, <4>2 DEF GateInv
    <3> QED
      BY <1>2, <3>6, <3>10 DEF IInv
  <2> QED
    BY <2>2, <2>3
<1>7. CASE RefreshReply
  <2>1. refresh.pc = "reply" /\ UNCHANGED reconnect
    BY <1>7 DEF RefreshReply
  <2>2. CASE refresh' = Waiting /\ Fail /\ UNCHANGED store
    BY <1>3, <1>4, <2>1, <2>2 DEF Fail
  <2>3. CASE /\ store' = [jti |-> refresh.jti, till |-> now + SessionTTL]
             /\ refresh' = [refresh EXCEPT !.pc = "signal"] /\ UNCHANGED fails
    <3>1. refresh.jti \in 0 .. Len(exp) /\ refresh.jti # 0 /\ refresh.jti \in Jtis
      BY <1>0, <1>3, <2>1, CredentialAssumption DEF HoldInv, None, RefreshState
    <3>2. refresh' \in RefreshState /\ refresh'.pc = "signal" /\ refresh'.jti = refresh.jti
          /\ refresh'.bad = refresh.bad
      BY <1>3, <2>3 DEF RefreshState
    <3>3. store' \in [jti : Jtis, till : 0 .. MaxTime + MaxTTL] /\ store'.jti = refresh.jti
      BY <1>3, <2>3, <3>1
    <3>4. DaemonTypeOK'
      BY <1>0, <1>1, <2>1, <2>3, <3>2, <3>3 DEF DaemonTypeOK, RefreshState
    <3>5. HoldInv'
      BY <1>0, <1>1, <3>1, <3>2, <3>3 DEF HoldInv, None
    <3>6. ~refresh.bad
      BY <1>0, <2>1 DEF GateInv, Gates
    <3>7. GateInv'
      BY <3>2, <3>6 DEF GateInv, Gates
    <3> QED
      BY <1>2, <3>4, <3>5, <3>7 DEF IInv, AgentInv
  <2> QED
    BY <1>7, <2>2, <2>3 DEF RefreshReply
<1>8. CASE RefreshSignal
  BY <1>3, <1>4, <1>8 DEF RefreshSignal, Signalled
<1> QED
  BY <1>5, <1>6, <1>7, <1>8 DEF Refresh

\* The tunnel: TunnelDial, TunnelVerify, TunnelEstablish, TunnelReconnect,
\* TunnelRetry and TunnelBreaks.
LEMMA TunnelStep ==
  ASSUME IInv, Tunnel \/ TunnelBreaks, UNCHANGED <<riskVars, noteVars>>
  PROVE  IInv'
<1>0. CredInv /\ CredTypeOK /\ AgentInv /\ DaemonTypeOK /\ HoldInv /\ GateInv
      /\ EngineInv /\ NoteInv
  BY DEF IInv, CredInv, AgentInv
<1>1. /\ UNCHANGED <<now, exp, rows, active, device, revoked, loads, popRev, popKnown, evicting>>
      /\ UNCHANGED <<mode, control, store, sessJTI, sessRevoked, health, refresh, channel, buf,
                     restarts>>
  BY DEF Tunnel, TunnelDial, TunnelVerify, TunnelEstablish, TunnelReconnect, TunnelRetry,
         TunnelBreaks, credVars, configVars, channelVars, rowVars, peopleVars, listVars
<1>2. GateInv' /\ EngineInv' /\ NoteInv'
  BY <1>0, <1>1, GateFrame, EngineFrame, NoteFrame
<1>3. Len(exp) \in Nat /\ tunnel \in TunnelState /\ store.jti \in Jtis /\ fails \in Nat
      /\ reconnect \in BOOLEAN /\ tunnel.jti \in 0 .. Len(exp)
      /\ store.jti \in 0 .. Len(exp) /\ store.jti # None
  <2>1. Len(exp) \in Nat
    BY <1>0 DEF CredTypeOK
  <2>2. /\ tunnel \in TunnelState /\ store.jti \in Jtis /\ fails \in Nat /\ reconnect \in BOOLEAN
    BY <1>0 DEF DaemonTypeOK, TunnelState
  <2>3. tunnel.jti \in 0 .. Len(exp) /\ store.jti \in 0 .. Len(exp)
    BY <1>0 DEF HoldInv
  <2>4. store.jti # None
    BY <2>2, CredentialAssumption DEF Jtis, None
  <2> QED
    BY <2>1, <2>2, <2>3, <2>4
<1>4. fails' \in Nat /\ reconnect' \in BOOLEAN
  <2>1. UNCHANGED fails \/ Fail
    BY DEF Tunnel, TunnelDial, TunnelVerify, TunnelEstablish, TunnelReconnect, TunnelRetry,
           TunnelBreaks
  <2>2. fails' \in Nat
    BY <1>3, <2>1 DEF Fail
  <2>3. UNCHANGED reconnect \/ reconnect' = FALSE
    BY DEF Tunnel, TunnelDial, TunnelVerify, TunnelEstablish, TunnelReconnect, TunnelRetry,
           TunnelBreaks
  <2> QED
    BY <1>3, <2>2, <2>3
<1>5. /\ tunnel' \in TunnelState /\ tunnel'.jti \in 0 .. Len(exp)
      /\ tunnel'.pc = "hello" => tunnel'.jti # None
  <2>1. CASE tunnel' = [pc |-> "hello", jti |-> store.jti]
    BY <1>3, <2>1 DEF TunnelState
  <2>2. CASE tunnel' = [pc |-> "select", jti |-> None]
    BY <1>3, <2>2 DEF TunnelState, None
  <2>3. CASE \/ tunnel' = [tunnel EXCEPT !.pc = "backoff"]
             \/ tunnel' = [tunnel EXCEPT !.pc = "answer"]
             \/ tunnel' = [tunnel EXCEPT !.pc = "up"]
    <3>1. tunnel' \in TunnelState /\ tunnel'.jti = tunnel.jti /\ tunnel'.pc # "hello"
      BY <1>3, <2>3 DEF TunnelState
    <3> QED
      BY <1>3, <3>1
  <2>4. CASE UNCHANGED tunnel
    BY <1>0, <1>3, <2>4 DEF HoldInv
  <2> QED
    BY <2>1, <2>2, <2>3, <2>4
       DEF Tunnel, TunnelDial, TunnelVerify, TunnelEstablish, TunnelReconnect, TunnelRetry,
           TunnelBreaks
<1>6. AgentInv'
  BY <1>0, <1>1, <1>4, <1>5, TunnelMoves
<1>7. CredInv'
  <2>1. popHs \subseteq Issued /\ popSess \subseteq Issued
    BY <1>0 DEF CredTypeOK, Issued
  <2>2. CASE TunnelVerify
    <3>1. tunnel.pc = "hello" /\ UNCHANGED popSess
      BY <2>2 DEF TunnelVerify
    <3>2. tunnel.jti \in Issued
      BY <1>0, <1>3, <3>1 DEF HoldInv, Issued, CredTypeOK, None
    <3>3. popHs' \subseteq Issued
      BY <2>1, <2>2, <3>2 DEF TunnelVerify, PopVerified
    <3> QED
      BY <1>0, <1>1, <2>1, <3>1, <3>3, HandshakeStep
  <2>3. CASE TunnelEstablish
    <3>1. popHs' \subseteq Issued /\ popSess' \subseteq Issued
      BY <2>1, <2>3 DEF TunnelEstablish, PopEstablished
    <3> QED
      BY <1>0, <1>1, <3>1, HandshakeStep
  <2>4. CASE UNCHANGED credVars
    BY <1>0, <1>1, <2>4, CredFrame
  <2> QED
    BY <2>2, <2>3, <2>4 DEF Tunnel, TunnelDial, TunnelReconnect, TunnelRetry, TunnelBreaks
<1> QED
  BY <1>2, <1>6, <1>7 DEF IInv

\* Posture and control channel: CollectPosture, ChannelBreaks and
\* ChannelReceives.
LEMMA ChannelStep ==
  ASSUME IInv, CollectPosture \/ ChannelBreaks \/ ChannelReceives, UNCHANGED <<riskVars, noteVars>>
  PROVE  IInv'
<1>0. CredInv /\ AgentInv /\ DaemonTypeOK /\ GateInv /\ EngineInv /\ NoteInv
  BY DEF IInv, AgentInv
<1>1. UNCHANGED <<now, exp, rows, active, device, revoked,
                  loads, popRev, popKnown, evicting, popHs, popSess, mode, control,
                  store, sessJTI, refresh, tunnel, reconnect, restarts>>
  BY DEF CollectPosture, ChannelBreaks, ChannelReceives, credVars, configVars
<1>2. CredInv' /\ GateInv' /\ EngineInv' /\ NoteInv'
  BY <1>0, <1>1, CredFrame, GateFrame, EngineFrame, NoteFrame DEF credVars
<1>3. /\ health \in Healths \cup {"unknown"} /\ channel \in Jtis \cup {None}
      /\ buf \in Seq(Jtis) /\ Len(buf) <= BufCap /\ sessRevoked \in BOOLEAN /\ fails \in Nat
  BY <1>0 DEF DaemonTypeOK
<1>4. BufCap \in Nat /\ Len(<<>>) = 0 /\ <<>> \in Seq(Jtis)
  BY DaemonAssumption
<1>5. CASE CollectPosture
  <2>1. health' \in Healths /\ UNCHANGED <<channel, buf, sessRevoked, fails>>
    BY <1>5 DEF CollectPosture, channelVars
  <2> QED
    BY <1>0, <1>1, <1>2, <1>3, <2>1, ChannelMoves DEF IInv
<1>6. CASE ChannelBreaks
  <2>1. channel' = None /\ buf' = <<>> /\ fails' \in Nat /\ UNCHANGED <<health, sessRevoked>>
    BY <1>3, <1>6 DEF ChannelBreaks, Fail
  <2>2. Len(buf') <= BufCap
    BY <1>4, <2>1
  <2> QED
    BY <1>0, <1>1, <1>2, <1>3, <1>4, <2>1, <2>2, ChannelMoves DEF IInv
<1>7. CASE ChannelReceives
  <2>1. buf # <<>> /\ buf' = Tail(buf) /\ sessRevoked' = (sessRevoked \/ Head(buf) = sessJTI)
        /\ UNCHANGED <<health, channel, fails>>
    BY <1>7 DEF ChannelReceives
  <2>2. buf' \in Seq(Jtis) /\ Len(buf') <= BufCap
    BY <1>3, <1>4, <2>1
  <2>3. sessRevoked' \in BOOLEAN
    BY <2>1
  <2> QED
    BY <1>0, <1>1, <1>2, <1>3, <2>1, <2>2, <2>3, ChannelMoves DEF IInv
<1> QED
  BY <1>5, <1>6, <1>7

\* The command of a revocation is queued, or dropped.
LEMMA BroadcastType ==
  ASSUME DaemonTypeOK, NEW j \in Jtis, Broadcast(j)
  PROVE  buf' \in Seq(Jtis) /\ Len(buf') <= BufCap
<1>1. buf \in Seq(Jtis) /\ Len(buf) <= BufCap /\ BufCap \in Nat
  BY DaemonAssumption DEF DaemonTypeOK
<1>2. CASE buf' = buf
  BY <1>1, <1>2
<1>3. CASE Len(buf) < BufCap /\ buf' = Append(buf, j)
  BY <1>1, <1>3
<1> QED
  BY <1>2, <1>3 DEF Broadcast

\* revokeCredential of the management API.
LEMMA AdminRevokeStep == ASSUME IInv, AdminRevoke PROVE IInv'
<1>0. CredInv /\ CredTypeOK /\ AgentInv /\ DaemonTypeOK /\ HoldInv /\ GateInv /\ EngineInv /\ NoteInv
  BY DEF IInv, CredInv, AgentInv
<1>1. PICK j \in Issued \ revoked : RevokeCredential(j) /\ Broadcast(j)
  BY DEF AdminRevoke
<1>2. /\ UNCHANGED <<now, exp, peopleVars, popVars, riskVars, noteVars>>
      /\ UNCHANGED <<mode, control, store, sessJTI, sessRevoked, health, refresh, tunnel, reconnect,
                     channel, fails, restarts>>
  BY DEF AdminRevoke, configVars
<1>3. CredInv' /\ Keeps
  BY <1>0, <1>1, <1>2, RevokeStep
<1>4. GateInv'
  BY <1>0, <1>2, <1>3, GateKeeps DEF peopleVars
<1>5. EngineInv' /\ NoteInv'
  BY <1>0, <1>2, EngineFrame, NoteFrame
<1>6. j \in Jtis
  BY <1>0, <1>1, CredentialAssumption DEF CredTypeOK, Issued, Jtis
<1>7. AgentInv'
  <2>1. buf' \in Seq(Jtis) /\ Len(buf') <= BufCap
    BY <1>0, <1>1, <1>6, BroadcastType
  <2>2. /\ health \in Healths \cup {"unknown"} /\ channel \in Jtis \cup {None}
        /\ sessRevoked \in BOOLEAN /\ fails \in Nat
    BY <1>0 DEF DaemonTypeOK
  <2> QED
    BY <1>0, <1>2, <2>1, <2>2, ChannelMoves
<1> QED
  BY <1>3, <1>4, <1>5, <1>7 DEF IInv

-----------------------------------------------------------------------------
(* Issuing. *)

\* assessLocked keeps the types of the factors.
LEMMA SweptType ==
  ASSUME NEW fs \in [FactorIds -> Factor]
  PROVE  Swept(fs) \in [FactorIds -> Factor]
<1>1. NoFactor \in Factor
  BY CredentialAssumption, RiskAssumption DEF NoFactor, Factor, Weights
<1> QED
  BY <1>1 DEF Swept

\* A new credential leaves the engine's references valid.
LEMMA EngineGrows ==
  ASSUME EngineInv, Len(exp) \in Nat, Len(exp') \in Nat, Len(exp) <= Len(exp'),
         factors' \in [FactorIds -> Factor],
         UNCHANGED <<signals, lastJTI, firedJTI, handler, snap, tried, owed>>
  PROVE  EngineInv'
<1>1. 1 .. Len(exp) \subseteq 1 .. Len(exp') /\ 0 .. Len(exp) \subseteq 0 .. Len(exp')
  OBVIOUS
<1> DEFINE S(l) == [jti : 1 .. l, id : FactorIds, weight : Weights]
           H(l) == [pc : {"idle", "persist", "fire"}, score : 0 .. 100, target : 0 .. l]
<1>2. S(Len(exp)) \subseteq S(Len(exp')) /\ H(Len(exp)) \subseteq H(Len(exp'))
  BY <1>1
<1>3. signals \subseteq S(Len(exp)) /\ handler \in [Handlers -> H(Len(exp))]
  BY DEF EngineInv
<1> HIDE DEF S, H
<1>4. signals' \subseteq S(Len(exp')) /\ handler' \in [Handlers -> H(Len(exp'))]
  BY <1>2, <1>3
<1> QED
  BY <1>1, <1>4 DEF EngineInv, S, H

\* The refresh issues.
LEMMA RefreshIssueStep ==
  ASSUME IInv, RefreshIssue
  PROVE  CredInv' /\ AgentInv' /\ GateInv' /\ Len(exp') = Len(exp) + 1
<1>0. CredInv /\ CredTypeOK /\ AgentInv /\ DaemonTypeOK /\ HoldInv /\ GateInv
  BY DEF IInv, CredInv, AgentInv
<1>1. /\ UNCHANGED <<now, rows, active, device, revoked, popVars>>
      /\ UNCHANGED <<mode, control, store, sessJTI, sessRevoked, health, tunnel, reconnect,
                     channel, buf, fails, restarts>>
  BY DEF RefreshIssue, configVars, channelVars, rowVars, peopleVars
<1>2. refresh.pc = "issue" /\ IssueCredential(SessionTTL)
  BY DEF RefreshIssue
<1>3. CredInv' /\ Len(exp') = Len(exp) + 1 /\ Len(exp') \in Jtis
  BY <1>0, <1>1, <1>2, IssueStep
<1> DEFINE a == [refresh EXCEPT !.pc = "reply"]
           b == [a EXCEPT !.jti = Len(exp')]
           c == [b EXCEPT !.at = 0]
<1>4. refresh' = c
  BY DEF RefreshIssue
<1>5. refresh \in RefreshState /\ 0 \in 0 .. MaxTime
  BY <1>0, CredentialAssumption DEF DaemonTypeOK, RefreshState
<1>6. a \in RefreshState /\ a.pc = "reply" /\ a.bad = refresh.bad
  BY <1>5 DEF RefreshState
<1> HIDE DEF a
<1>7. b \in RefreshState /\ b.pc = "reply" /\ b.jti = Len(exp') /\ b.bad = refresh.bad
  BY <1>3, <1>6 DEF RefreshState
<1> HIDE DEF b
<1>8. c \in RefreshState /\ c.pc = "reply" /\ c.jti = Len(exp') /\ c.bad = refresh.bad
  BY <1>5, <1>7 DEF RefreshState
<1> HIDE DEF c
<1>9. DaemonTypeOK'
  BY <1>0, <1>1, <1>4, <1>8 DEF DaemonTypeOK, RefreshState
<1>10. HoldInv'
  <2>1. Len(exp) \in Nat
    BY <1>0 DEF CredTypeOK
  <2>2. 0 .. Len(exp) \subseteq 0 .. Len(exp') /\ Len(exp') \in 0 .. Len(exp') /\ Len(exp') # 0
    BY <1>3, <2>1
  <2> QED
    BY <1>0, <1>1, <1>4, <1>8, <2>2 DEF HoldInv, None
<1>11. ~refresh.bad
  BY <1>0, <1>2 DEF GateInv, Gates
<1>12. GateInv'
  BY <1>4, <1>8, <1>11 DEF GateInv, Gates
<1> QED
  BY <1>3, <1>9, <1>10, <1>12 DEF AgentInv

\* A new process holds one credential and waits.
LEMMA FreshHolds ==
  ASSUME AgentInv, NEW j \in Jtis, j <= Len(exp'), Len(exp') \in Nat,
         NEW t \in 0 .. MaxTime + MaxTTL, Fresh(j, t), restarts' \in Nat,
         UNCHANGED <<mode, control, fails>>
  PROVE  AgentInv' /\ GateInv'
<1>1. /\ store' = [jti |-> j, till |-> t] /\ sessJTI' = j /\ sessRevoked' = FALSE
      /\ health' = "unknown" /\ refresh' = Waiting /\ tunnel' = [pc |-> "select", jti |-> 0]
      /\ reconnect' = FALSE /\ channel' = 0 /\ buf' = <<>>
  BY DEF Fresh, None
<1>2. j \in 0 .. Len(exp')
  BY CredentialAssumption DEF Jtis
<1>3. <<>> \in Seq(Jtis) /\ Len(<<>>) <= BufCap
  BY DaemonAssumption
<1>4. store' \in [jti : Jtis, till : 0 .. MaxTime + MaxTTL] /\ store'.jti = j
  BY <1>1
<1>5. tunnel' \in TunnelState /\ tunnel'.pc = "select" /\ tunnel'.jti = 0
  BY <1>1 DEF TunnelState, None
<1>6. DaemonTypeOK'
  BY <1>1, <1>3, <1>4, <1>5, WaitingOK
     DEF AgentInv, DaemonTypeOK, RefreshState, TunnelState, None
<1>7. HoldInv'
  BY <1>1, <1>2, <1>4, <1>5, WaitingOK DEF HoldInv, None
<1>8. GateInv'
  BY <1>1, WaitingOK DEF GateInv, Gates
<1> QED
  BY <1>6, <1>7, <1>8 DEF AgentInv

\* The agent restarts, and enrols again in mode idp.
LEMMA AgentRestartStep ==
  ASSUME IInv, AgentRestart
  PROVE  CredInv' /\ AgentInv' /\ GateInv' /\ Len(exp') \in {Len(exp), Len(exp) + 1}
<1>0. CredInv /\ CredTypeOK /\ AgentInv /\ DaemonTypeOK /\ HoldInv
  BY DEF IInv, CredInv, AgentInv
<1>1. UNCHANGED <<mode, control, fails, now, rows, revoked, active, popVars>>
  BY DEF AgentRestart, rowVars
<1>2. restarts' \in Nat
  BY <1>0 DEF AgentRestart, DaemonTypeOK
<1>3. /\ Len(exp) \in Nat /\ now \in 0 .. MaxTime /\ MaxTime \in Nat /\ MaxTTL \in Nat
      /\ SessionTTL \in Nat /\ SessionTTL < MaxTTL
  BY <1>0, CredentialAssumption, DaemonAssumption DEF CredTypeOK
<1>4. CASE mode = "ztp"
  <2>1. Fresh(sessJTI, 0) /\ UNCHANGED <<exp, device>>
    BY <1>4 DEF AgentRestart
  <2>2. sessJTI \in Jtis /\ sessJTI <= Len(exp)
    BY <1>0, <1>3 DEF DaemonTypeOK, HoldInv
  <2>3. AgentInv' /\ GateInv'
    BY <1>0, <1>1, <1>2, <1>3, <2>1, <2>2, FreshHolds
  <2>4. CredInv'
    BY <1>0, <1>1, <2>1, CredFrame DEF credVars, popVars, listVars
  <2> QED
    BY <2>1, <2>3, <2>4
<1>5. CASE mode # "ztp"
  <2>1. /\ IssueCredential(SessionTTL) /\ Fresh(Len(exp'), now + SessionTTL)
        /\ device' = "redeemed"
    BY <1>5 DEF AgentRestart
  <2>2. CredInv' /\ Len(exp') = Len(exp) + 1 /\ Len(exp') \in Jtis
    BY <1>0, <1>1, <2>1, IssueStep
  <2>3. now + SessionTTL \in 0 .. MaxTime + MaxTTL /\ Len(exp') \in Nat /\ Len(exp') <= Len(exp')
    BY <1>3, <2>2
  <2>4. AgentInv' /\ GateInv'
    BY <1>0, <1>1, <1>2, <2>1, <2>2, <2>3, FreshHolds
  <2> QED
    BY <2>2, <2>4
<1> QED
  BY <1>4, <1>5

\* The refresh and the new enrolment, with the assessment of the risk.
LEMMA IssuingStep == ASSUME IInv, Issuing PROVE IInv'
<1>1. CredInv' /\ AgentInv' /\ GateInv' /\ Len(exp') \in {Len(exp), Len(exp) + 1}
  BY RefreshIssueStep, AgentRestartStep DEF Issuing
<1>2. UNCHANGED <<signals, lastJTI, firedJTI, handler, snap, tried, owed, noteVars>>
  BY DEF Issuing
<1>3. Len(exp) \in Nat /\ Len(exp') \in Nat /\ Len(exp) <= Len(exp')
  BY <1>1 DEF IInv, CredInv, CredTypeOK
<1>4. factors' \in [FactorIds -> Factor]
  <2>1. factors' = factors \/ factors' = Swept(factors)
    BY DEF Issuing, Assess
  <2>2. factors \in [FactorIds -> Factor]
    BY DEF IInv, EngineInv
  <2> QED
    BY <2>1, <2>2, SweptType
<1>5. EngineInv'
  BY <1>2, <1>3, <1>4, EngineGrows DEF IInv
<1>6. NoteInv'
  BY <1>2, NoteFrame DEF IInv
<1> QED
  BY <1>1, <1>5, <1>6 DEF IInv

-----------------------------------------------------------------------------
(* The risk engine. *)

\* observe keeps the engine's types, and what it leaves to the handler names
\* the session of the signal.
LEMMA ObserveStep ==
  ASSUME EngineInv, CredTypeOK, NEW h \in Handlers, NEW s \in signals, Observe(h, s), UNCHANGED exp
  PROVE  EngineInv'
<1> DEFINE w == IF s.weight > 0 THEN [weight |-> s.weight, till |-> Till(s.id)] ELSE NoFactor
           f0 == [factors EXCEPT ![s.id] = w]
           fs == Swept(f0)
           level == LevelOf(Score(fs))
           target == IF s.jti # None THEN s.jti ELSE lastJTI
           aim == IF Fires(level, target) THEN target ELSE None
           x == [pc |-> "persist", score |-> Score(fs), target |-> aim]
<1>1. /\ MaxTime \in Nat /\ EventTTL \in Nat \ {0} /\ now \in 0 .. MaxTime /\ Len(exp) \in Nat
      /\ MaxCreds \in Nat /\ Len(exp) <= MaxCreds
  BY CredentialAssumption, RiskAssumption DEF CredTypeOK
<1>2. s.jti \in 1 .. Len(exp) /\ s.id \in FactorIds /\ s.weight \in Weights
  BY DEF EngineInv
<1>3. w \in Factor
  <2>1. NoFactor \in Factor
    BY <1>1 DEF NoFactor, Factor, Weights
  <2>2. Till(s.id) \in 0 .. MaxTime + EventTTL
    BY <1>1 DEF Till
  <2> QED
    BY <1>2, <2>1, <2>2 DEF Factor
<1>4. factors \in [FactorIds -> Factor]
  BY DEF EngineInv
<1> HIDE DEF w
<1>5. f0 \in [FactorIds -> Factor]
  BY <1>2, <1>3, <1>4
<1>6. /\ signals' = signals \ {s} /\ factors' = fs /\ lastJTI' = target
      /\ firedJTI' \in {0, target, firedJTI} /\ handler' = [handler EXCEPT ![h] = x]
      /\ UNCHANGED <<snap, tried>> /\ owed' \subseteq owed \cup {target}
  BY DEF Observe, w, None
<1> HIDE DEF f0
<1>7. fs \in [FactorIds -> Factor]
  BY <1>5, SweptType
<1> HIDE DEF fs
<1>8. Score(fs) \in 0 .. 100
  BY <1>7, ScoreType
<1>9. target \in 1 .. Len(exp) /\ target \in Jtis
  BY <1>1, <1>2 DEF None, Jtis
<1> HIDE DEF target, level
<1>10. aim \in 0 .. Len(exp)
  BY <1>1, <1>9 DEF None
<1> HIDE DEF aim
<1> DEFINE H == [pc : {"idle", "persist", "fire"}, score : 0 .. 100, target : 0 .. Len(exp)]
<1>11. x \in H /\ x.pc = "persist"
  BY <1>8, <1>10
<1> HIDE DEF x
<1>12. handler \in [Handlers -> H] /\ \A g \in Handlers : handler[g].pc = "fire" => handler[g].target # None
  BY DEF EngineInv
<1>13. handler' \in [Handlers -> H] /\ \A g \in Handlers : handler'[g].pc = "fire" => handler'[g].target # None
  <2> HIDE DEF H
  <2> QED
    BY <1>6, <1>11, <1>12
<1>14. lastJTI' \in 0 .. Len(exp) /\ firedJTI' \in 0 .. Len(exp)
  BY <1>1, <1>6, <1>9 DEF EngineInv
<1>15. owed' \subseteq Jtis /\ tried' \subseteq Jtis
  BY <1>6, <1>9 DEF EngineInv
<1> QED
  BY <1>6, <1>7, <1>13, <1>14, <1>15 DEF EngineInv

\* The levels.
LEMMA LevelType == ASSUME NEW n PROVE LevelOf(n) \in Levels
BY DEF LevelOf, Levels

\* persistSnapshot.
LEMMA PersistStep ==
  ASSUME EngineInv, NEW h \in Handlers, Persist(h), UNCHANGED exp
  PROVE  EngineInv'
<1> DEFINE H == [pc : {"idle", "persist", "fire"}, score : 0 .. 100, target : 0 .. Len(exp)]
           x == handler[h]
           y == IF x.target = None THEN Idle ELSE [x EXCEPT !.pc = "fire"]
<1>1. handler' = [handler EXCEPT ![h] = y]
      /\ UNCHANGED <<signals, factors, lastJTI, firedJTI, tried, owed>>
  BY DEF Persist, engineVars
<1>2. handler \in [Handlers -> H] /\ \A g \in Handlers : handler[g].pc = "fire" => handler[g].target # None
  BY DEF EngineInv
<1>3. x \in H
  BY <1>2
<1>4. y \in H /\ (y.pc = "fire" => y.target # None)
  <2> HIDE DEF x
  <2>1. CASE x.target = None
    <3>1. Idle \in H /\ Idle.pc = "idle"
      BY <1>3, <2>1 DEF Idle, None
    <3> QED
      BY <2>1, <3>1
  <2>2. CASE x.target # None
    <3>1. y = [x EXCEPT !.pc = "fire"]
      BY <2>2
    <3> QED
      BY <1>3, <2>2, <3>1
  <2> QED
    BY <2>1, <2>2
<1>5. snap' \in [score : 0 .. 100, level : Levels \cup {"none"}]
  <2>1. snap' = snap \/ snap' = [score |-> x.score, level |-> LevelOf(x.score)]
    BY DEF Persist
  <2>2. LevelOf(x.score) \in Levels /\ x.score \in 0 .. 100
    BY <1>3, LevelType
  <2>3. snap \in [score : 0 .. 100, level : Levels \cup {"none"}]
    BY DEF EngineInv
  <2> HIDE DEF x, H, y
  <2> QED
    BY <2>1, <2>2, <2>3
<1> HIDE DEF y
<1>6. handler' \in [Handlers -> H] /\ \A g \in Handlers : handler'[g].pc = "fire" => handler'[g].target # None
  <2> HIDE DEF H, x
  <2> QED
    BY <1>1, <1>2, <1>4
<1> QED
  BY <1>1, <1>5, <1>6 DEF EngineInv

\* The idle handler.
LEMMA IdleType ==
  ASSUME Len(exp) \in Nat
  PROVE  /\ Idle \in [pc : {"idle", "persist", "fire"}, score : 0 .. 100, target : 0 .. Len(exp)]
         /\ Idle.pc = "idle"
BY DEF Idle, None

\* The callback fires.
LEMMA FireStep ==
  ASSUME EngineInv, CredTypeOK, NEW h \in Handlers, NEW done, Fire(h, done), UNCHANGED exp
  PROVE  EngineInv' /\ handler[h].target \in Issued /\ handler[h].target \in Jtis
<1> DEFINE H == [pc : {"idle", "persist", "fire"}, score : 0 .. 100, target : 0 .. Len(exp)]
           t == handler[h].target
<1>1. /\ handler[h].pc = "fire" /\ handler' = [handler EXCEPT ![h] = Idle]
      /\ owed' = owed \ {t} /\ tried' = tried \cup {t}
      /\ UNCHANGED <<signals, factors, lastJTI, firedJTI, snap>>
  BY DEF Fire, engineVars
<1>2. handler \in [Handlers -> H] /\ \A g \in Handlers : handler[g].pc = "fire" => handler[g].target # None
  BY DEF EngineInv
<1>3. Len(exp) \in Nat /\ MaxCreds \in Nat /\ Len(exp) <= MaxCreds /\ DOMAIN exp = 1 .. Len(exp)
  BY CredentialAssumption DEF CredTypeOK
<1>4. t \in 0 .. Len(exp) /\ t # 0
  BY <1>1, <1>2 DEF None
<1>5. t \in Issued /\ t \in Jtis
  BY <1>3, <1>4 DEF Issued, Jtis
<1>6. handler' \in [Handlers -> H] /\ \A g \in Handlers : handler'[g].pc = "fire" => handler'[g].target # None
  <2>1. Idle \in H /\ Idle.pc = "idle"
    BY <1>3, IdleType
  <2> HIDE DEF H
  <2> QED
    BY <1>1, <1>2, <2>1
<1> HIDE DEF t
<1>7. EngineInv'
  BY <1>1, <1>5, <1>6 DEF EngineInv
<1> QED
  BY <1>5, <1>7 DEF t

\* The revocation by the engine, or its failure.
LEMMA RiskRevokeStep == ASSUME IInv, RiskRevoke PROVE IInv'
<1>0. CredInv /\ CredTypeOK /\ AgentInv /\ DaemonTypeOK /\ HoldInv /\ GateInv /\ EngineInv /\ NoteInv
  BY DEF IInv, CredInv, AgentInv
<1>1. /\ UNCHANGED <<now, exp, peopleVars, popVars, found, blamed>>
      /\ UNCHANGED <<mode, control, store, sessJTI, sessRevoked, health, refresh, tunnel, reconnect,
                     channel, restarts>>
  BY DEF RiskRevoke, configVars
<1>2. /\ health \in Healths \cup {"unknown"} /\ channel \in Jtis \cup {None}
      /\ sessRevoked \in BOOLEAN /\ fails \in Nat /\ buf \in Seq(Jtis) /\ Len(buf) <= BufCap
  BY <1>0 DEF DaemonTypeOK
<1>3. ASSUME NEW h \in Handlers, Fire(h, TRUE), Broadcast(handler[h].target),
             riskRev' = riskRev \cup {handler[h].target}, UNCHANGED fails
      PROVE  IInv'
  <2>1. EngineInv' /\ handler[h].target \in Issued /\ handler[h].target \in Jtis
    BY <1>0, <1>1, <1>3, FireStep
  <2>2. RevokeCredential(handler[h].target)
    BY <1>3 DEF Fire
  <2>3. CredInv' /\ Keeps
    BY <1>0, <1>1, <2>1, <2>2, RevokeStep
  <2>4. GateInv'
    BY <1>0, <1>1, <2>3, GateKeeps DEF peopleVars
  <2>5. buf' \in Seq(Jtis) /\ Len(buf') <= BufCap
    BY <1>0, <1>3, <2>1, BroadcastType
  <2>6. AgentInv'
    BY <1>0, <1>1, <1>2, <1>3, <2>5, ChannelMoves
  <2>7. NoteInv'
    BY <1>0, <1>1, <1>3, <2>1 DEF NoteInv
  <2> QED
    BY <2>1, <2>3, <2>4, <2>6, <2>7 DEF IInv
<1>4. ASSUME NEW h \in Handlers, Fire(h, FALSE), Fail, UNCHANGED <<buf, riskRev>>
      PROVE  IInv'
  <2>1. EngineInv'
    BY <1>0, <1>1, <1>4, FireStep
  <2>2. UNCHANGED rowVars
    BY <1>4 DEF Fire
  <2>3. CredInv'
    BY <1>0, <1>1, <2>2, CredFrame DEF credVars, rowVars, peopleVars, popVars, listVars
  <2>4. GateInv'
    BY <1>0, <1>1, <2>2, GateFrame DEF peopleVars, rowVars
  <2>5. fails' \in Nat
    BY <1>2, <1>4 DEF Fail
  <2>6. AgentInv'
    BY <1>0, <1>1, <1>2, <1>4, <2>5, ChannelMoves
  <2>7. NoteInv'
    BY <1>0, <1>1, <1>4 DEF NoteInv
  <2> QED
    BY <2>1, <2>3, <2>4, <2>6, <2>7 DEF IInv
<1> QED
  BY <1>3, <1>4 DEF RiskRevoke

\* A posture report and a finding are on their way, arrive or get lost.
LEMMA SignalsStep ==
  ASSUME EngineInv, signals' \subseteq [jti : 1 .. Len(exp), id : FactorIds, weight : Weights],
         UNCHANGED <<engineVars, handler, snap, tried, owed, exp>>
  PROVE  EngineInv'
BY DEF EngineInv, engineVars

\* A control stream begins with the posture.
LEMMA ConnectStep == ASSUME IInv, Connect PROVE IInv'
<1>0. CredInv /\ CredTypeOK /\ AgentInv /\ DaemonTypeOK /\ HoldInv /\ GateInv /\ EngineInv /\ NoteInv
  BY DEF IInv, CredInv, AgentInv
<1> DEFINE x == [jti |-> store.jti, id |-> "posture", weight |-> PostureWeight(Summary)]
<1>1. /\ signals' = signals \cup {x} /\ channel' = store.jti /\ buf' = <<>>
      /\ blamed' \subseteq blamed \cup {store.jti}
      /\ UNCHANGED <<engineVars, handler, snap, tried, owed, found, riskRev, credVars>>
      /\ UNCHANGED <<mode, control, store, sessJTI, sessRevoked, health, refresh, tunnel, reconnect,
                     fails, restarts>>
  BY DEF Connect, ChannelOpens, configVars
<1>2. store.jti \in Jtis /\ store.jti \in 1 .. Len(exp)
  BY <1>0, CredentialAssumption DEF DaemonTypeOK, HoldInv, Jtis, CredTypeOK
<1>3. x \in [jti : 1 .. Len(exp), id : FactorIds, weight : Weights]
  BY <1>2 DEF FactorIds, PostureWeight, Weights
<1> HIDE DEF x
<1>4. EngineInv'
  <2>1. signals' \subseteq [jti : 1 .. Len(exp), id : FactorIds, weight : Weights]
    BY <1>0, <1>1, <1>3 DEF EngineInv
  <2> QED
    BY <1>0, <1>1, <2>1, SignalsStep DEF credVars
<1>5. CredInv' /\ GateInv'
  BY <1>0, <1>1, CredFrame, GateFrame DEF credVars
<1>6. NoteInv'
  BY <1>0, <1>1, <1>2 DEF NoteInv
<1>7. AgentInv'
  <2>1. <<>> \in Seq(Jtis) /\ Len(<<>>) <= BufCap
    BY DaemonAssumption
  <2>2. health \in Healths \cup {"unknown"} /\ sessRevoked \in BOOLEAN /\ fails \in Nat
    BY <1>0 DEF DaemonTypeOK
  <2> QED
    BY <1>0, <1>1, <1>2, <2>1, <2>2, ChannelMoves DEF credVars
<1> QED
  BY <1>4, <1>5, <1>6, <1>7 DEF IInv

\* A finding of the PoP.
LEMMA FindingStep == ASSUME IInv, Finding PROVE IInv'
<1>0. CredInv /\ CredTypeOK /\ AgentInv /\ GateInv /\ EngineInv /\ NoteInv
  BY DEF IInv, CredInv
<1>1. PICK f \in Findings \ found, j \in popSess :
        ReportFinding(f, j) /\ found' = found \cup {f} /\ blamed' = blamed \cup {j}
  BY DEF Finding
<1>2. UNCHANGED <<may, until, riskRev, credVars, daemonVars>>
  BY DEF Finding
<1>3. j \in 1 .. Len(exp) /\ j \in Jtis
  BY <1>0, <1>1, CredentialAssumption DEF CredTypeOK, Jtis
<1> DEFINE x == [jti |-> j, id |-> f.rule, weight |-> f.weight]
<1>4. signals' = signals \cup {x} /\ UNCHANGED <<engineVars, handler, snap, tried, owed>>
  BY <1>1 DEF ReportFinding
<1>5. x \in [jti : 1 .. Len(exp), id : FactorIds, weight : Weights]
  <2>1. f.rule \in FactorIds /\ f.weight \in Weights
    BY <1>1, RiskAssumption DEF FactorIds, Rules, Weights
  <2> QED
    BY <1>3, <2>1
<1> HIDE DEF x
<1>6. EngineInv'
  <2>1. signals' \subseteq [jti : 1 .. Len(exp), id : FactorIds, weight : Weights]
    BY <1>0, <1>4, <1>5 DEF EngineInv
  <2> QED
    BY <1>0, <1>2, <1>4, <2>1, SignalsStep DEF credVars
<1>7. NoteInv'
  BY <1>0, <1>1, <1>2, <1>3 DEF NoteInv
<1>8. CredInv' /\ GateInv' /\ AgentInv'
  BY <1>0, <1>2, CredFrame, GateFrame, AgentFrame DEF credVars, daemonVars
<1> QED
  BY <1>6, <1>7, <1>8 DEF IInv

\* A handler observes a signal or writes the snapshot, or a signal is lost.
LEMMA HandlerStep ==
  ASSUME IInv, Signal \/ Snapshot \/ (LoseSignal /\ UNCHANGED <<credVars, daemonVars, noteVars>>)
  PROVE  IInv'
<1>0. CredInv /\ CredTypeOK /\ AgentInv /\ GateInv /\ EngineInv /\ NoteInv
  BY DEF IInv, CredInv
<1>1. UNCHANGED <<credVars, daemonVars, noteVars>>
  BY DEF Signal, Snapshot
<1>2. CredInv' /\ GateInv' /\ AgentInv' /\ NoteInv'
  BY <1>0, <1>1, CredFrame, GateFrame, AgentFrame, NoteFrame DEF credVars, daemonVars
<1>3. UNCHANGED exp
  BY <1>1 DEF credVars
<1>4. CASE Signal
  BY <1>0, <1>3, <1>4, ObserveStep, <1>2 DEF Signal, IInv
<1>5. CASE Snapshot
  BY <1>0, <1>3, <1>5, PersistStep, <1>2 DEF Snapshot, IInv
<1>6. CASE LoseSignal
  <2>1. signals' \subseteq signals /\ UNCHANGED <<engineVars, handler, snap, tried, owed>>
    BY <1>6 DEF LoseSignal
  <2>2. signals' \subseteq [jti : 1 .. Len(exp), id : FactorIds, weight : Weights]
    BY <1>0, <2>1 DEF EngineInv
  <2>3. EngineInv'
    BY <1>0, <1>3, <2>1, <2>2, SignalsStep
  <2> QED
    BY <1>2, <2>3 DEF IInv
<1> QED
  BY <1>4, <1>5, <1>6

\* The api-server restarts.
LEMMA ServerRestartStep == ASSUME IInv, ServerRestart PROVE IInv'
<1>0. CredInv /\ CredTypeOK /\ AgentInv /\ DaemonTypeOK /\ HoldInv /\ GateInv /\ EngineInv /\ NoteInv
  BY DEF IInv, CredInv, AgentInv
<1>1. /\ restarts > 0 /\ restarts' = restarts - 1 /\ channel' = None /\ buf' = <<>>
      /\ refresh' \in {refresh, Waiting}
      /\ UNCHANGED <<credVars, noteVars>>
      /\ UNCHANGED <<mode, control, store, sessJTI, sessRevoked, health, tunnel, reconnect, fails>>
  BY DEF ServerRestart, configVars
<1>2. CredInv' /\ NoteInv' /\ UNCHANGED exp
  BY <1>0, <1>1, CredFrame, NoteFrame DEF credVars
<1>3. EngineInv'
  <2>1. /\ signals' \subseteq signals /\ factors' = [i \in FactorIds |-> NoFactor]
        /\ lastJTI' = 0 /\ firedJTI' = 0 /\ handler' = [h \in Handlers |-> Idle]
        /\ owed' = {} /\ UNCHANGED <<snap, tried>>
    BY DEF ServerRestart, RiskRestart, None
  <2>2. NoFactor \in Factor
    BY CredentialAssumption, RiskAssumption DEF NoFactor, Factor, Weights
  <2>3. Len(exp) \in Nat
    BY <1>0 DEF CredTypeOK
  <2> DEFINE H == [pc : {"idle", "persist", "fire"}, score : 0 .. 100, target : 0 .. Len(exp)]
  <2>4. Idle \in H /\ Idle.pc = "idle"
    BY <2>3, IdleType
  <2>5. handler' \in [Handlers -> H] /\ \A g \in Handlers : handler'[g].pc # "fire"
    <3> HIDE DEF H
    <3> QED
      BY <2>1, <2>4
  <2>6. factors' \in [FactorIds -> Factor]
    BY <2>1, <2>2
  <2>7. 0 \in 0 .. Len(exp)
    BY <2>3
  <2> QED
    BY <1>0, <1>2, <2>1, <2>5, <2>6, <2>7 DEF EngineInv
<1>4. DaemonTypeOK'
  <2>1. restarts' \in Nat
    BY <1>0, <1>1 DEF DaemonTypeOK
  <2>2. <<>> \in Seq(Jtis) /\ Len(<<>>) <= BufCap
    BY DaemonAssumption
  <2>3. refresh' \in RefreshState
    BY <1>0, <1>1, WaitingOK DEF DaemonTypeOK, RefreshState
  <2> QED
    BY <1>0, <1>1, <2>1, <2>2, <2>3 DEF DaemonTypeOK, RefreshState
<1>5. HoldInv'
  <2>1. 0 \in 0 .. Len(exp)
    BY <1>0 DEF CredTypeOK
  <2> QED
    BY <1>0, <1>1, <1>2, <2>1, WaitingOK DEF HoldInv, None
<1>6. GateInv'
  <2>1. CASE refresh' = refresh
    BY <1>0, <1>1, <2>1, GateFrame DEF credVars
  <2>2. CASE refresh' = Waiting
    BY <2>2, WaitingOK DEF GateInv, Gates
  <2> QED
    BY <1>1, <2>1, <2>2
<1> QED
  BY <1>2, <1>3, <1>4, <1>5, <1>6 DEF IInv, AgentInv

-----------------------------------------------------------------------------
(* The theorems. *)

\* The initial state satisfies the invariant.
LEMMA IInit == Init => IInv
<1> SUFFICES ASSUME Init PROVE IInv
  OBVIOUS
<1>0. /\ MaxTTL \in Nat \ {0} /\ MaxTime \in Nat /\ MaxCreds \in Nat \ {0}
      /\ SessionTTL \in Nat \ {0} /\ SessionTTL < MaxTTL /\ BufCap \in Nat
  BY CredentialAssumption, DaemonAssumption
<1>1. PICK v \in Environments : DaemonInit(v.mode, "control" \in v.may, v.fails, v.restarts)
  BY DEF Init
<1>2. PICK ttl \in (IF mode = "idp" THEN {SessionTTL} ELSE AskedTTLs) : CredInit(ttl)
  BY DEF Init
<1>3. ttl \in Nat \ {0} /\ (mode = "idp" => ttl = SessionTTL)
  BY <1>0, <1>2, AskedAssumption
<1>4. Clamp(ttl) \in 1 .. MaxTTL /\ Clamp(ttl) <= ttl
  BY <1>3, ClampType
<1> DEFINE x == Clamp(ttl)
<1>5. /\ now = 0 /\ exp = <<x>> /\ rows = [j \in Jtis |-> 0] /\ active = TRUE
      /\ device = "redeemed" /\ revoked = {}
      /\ loads = {} /\ popRev = {} /\ popKnown = {} /\ evicting = FALSE /\ popHs = {} /\ popSess = {}
  BY <1>2 DEF CredInit, None
<1>6. x \in 1 .. MaxTime + MaxTTL /\ x <= MaxTTL /\ (mode = "idp" => x <= SessionTTL)
  BY <1>0, <1>3, <1>4
<1> HIDE DEF x
<1>7. /\ exp \in Seq(1 .. MaxTime + MaxTTL) /\ Len(exp) = 1 /\ Issued = {1} /\ exp[1] = x
      /\ DOMAIN exp = {1}
  BY <1>5, <1>6 DEF Issued
<1>8. CredInv
  <2>1. CredTypeOK
    <3>1. rows \in [Jtis -> 0 .. MaxTime + MaxTTL] /\ now \in 0 .. MaxTime /\ Len(exp) <= MaxCreds
      BY <1>0, <1>5, <1>7
    <3>2. loads \subseteq [list : SUBSET (DOMAIN exp), known : SUBSET (DOMAIN exp)]
      BY <1>5
    <3> QED
      BY <1>5, <1>7, <3>1, <3>2 DEF CredTypeOK
  <2>2. LifeInv
    BY <1>0, <1>5, <1>6, <1>7 DEF LifeInv, None
  <2>3. OutInv
    BY <1>5 DEF OutInv, Complete
  <2> QED
    BY <2>1, <2>2, <2>3 DEF CredInv
<1>9. /\ mode = v.mode /\ control = ("control" \in v.may) /\ fails = v.fails
      /\ restarts = v.restarts
      /\ store = [jti |-> 1, till |-> IF mode = "idp" THEN SessionTTL ELSE 0]
      /\ sessJTI = 1 /\ sessRevoked = FALSE /\ health = "unknown" /\ refresh = Waiting
      /\ tunnel = [pc |-> "select", jti |-> 0] /\ reconnect = FALSE /\ channel = 0 /\ buf = <<>>
  BY <1>1 DEF DaemonInit, None
<1>10. AgentInv
  <2>1. 1 \in Jtis /\ <<>> \in Seq(Jtis) /\ Len(<<>>) <= BufCap
    BY <1>0 DEF Jtis
  <2>2. store \in [jti : Jtis, till : 0 .. MaxTime + MaxTTL] /\ store.jti = 1
    BY <1>0, <1>9, <2>1
  <2>3. tunnel \in TunnelState /\ tunnel.pc = "select" /\ tunnel.jti = 0
    BY <1>9 DEF TunnelState, None
  <2>4. mode \in {"ztp", "idp"} /\ fails \in Nat /\ restarts \in Nat
    BY <1>1, <1>9, EnvironmentAssumption
  <2>5. control \in BOOLEAN
    BY <1>9
  <2>6. DaemonTypeOK
    BY <1>9, <2>1, <2>2, <2>3, <2>4, <2>5, WaitingOK
       DEF DaemonTypeOK, RefreshState, TunnelState, None
  <2>7. HoldInv
    BY <1>7, <1>9, <2>2, <2>3, WaitingOK DEF HoldInv, None
  <2> QED
    BY <2>6, <2>7 DEF AgentInv
<1>11. GateInv
  BY <1>9, WaitingOK DEF GateInv, Gates
<1>12. EngineInv
  <2>1. /\ signals = {} /\ factors = [i \in FactorIds |-> NoFactor] /\ lastJTI = 0 /\ firedJTI = 0
        /\ handler = [h \in Handlers |-> Idle] /\ snap = [score |-> 0, level |-> "none"]
        /\ tried = {} /\ owed = {}
    BY DEF Init, RiskInit, None
  <2>2. NoFactor \in Factor
    BY <1>0, RiskAssumption DEF NoFactor, Factor, Weights
  <2> DEFINE H == [pc : {"idle", "persist", "fire"}, score : 0 .. 100, target : 0 .. Len(exp)]
  <2>3. Idle \in H /\ Idle.pc = "idle" /\ 0 \in 0 .. Len(exp)
    BY <1>7, IdleType
  <2>4. handler \in [Handlers -> H] /\ \A g \in Handlers : handler[g].pc # "fire"
    <3> HIDE DEF H
    <3> QED
      BY <2>1, <2>3
  <2>5. snap \in [score : 0 .. 100, level : Levels \cup {"none"}]
    BY <2>1
  <2> QED
    BY <2>1, <2>2, <2>3, <2>4, <2>5 DEF EngineInv
<1>13. NoteInv
  BY DEF Init, NoteInv
<1> QED
  BY <1>8, <1>10, <1>11, <1>12, <1>13 DEF IInv

\* The clock, the collection of rows, operators and the PoP.
LEMMA WorldStep ==
  ASSUME IInv, (InTime /\ Tick) \/ GCExpiredRevocations \/ People \/ Pop,
         UNCHANGED <<riskVars, daemonVars, noteVars>>
  PROVE  IInv'
<1>0. CredInv /\ CredTypeOK /\ AgentInv /\ DaemonTypeOK /\ HoldInv /\ GateInv /\ EngineInv /\ NoteInv
  BY DEF IInv, CredInv, AgentInv
<1>1. UNCHANGED <<mode, refresh>>
  BY DEF daemonVars
<1>2. UNCHANGED exp
  BY DEF Tick, GCExpiredRevocations, People, DisableUser, RevokeDevice, Pop, ReadList,
         SetList, EvictRevoked, PopSweep
<1>3. AgentInv' /\ EngineInv' /\ NoteInv'
  BY <1>0, <1>2, AgentFrame, EngineFrame, NoteFrame
<1>4. CASE InTime /\ Tick
  BY <1>1, <1>3, <1>4, TickStep DEF IInv
<1>5. CASE GCExpiredRevocations
  <2>1. /\ rows' = Collected(rows)
        /\ UNCHANGED <<now, exp, revoked, peopleVars, popVars, mode>>
    BY <1>1, <1>5 DEF GCExpiredRevocations
  <2>2. CredInv' /\ Keeps
    BY <1>0, <2>1, CollectStep
  <2>3. GateInv'
    BY <1>0, <1>1, <2>1, <2>2, GateKeeps DEF peopleVars
  <2> QED
    BY <1>3, <2>2, <2>3 DEF IInv
<1>6. CASE People
  BY <1>0, <1>1, <1>3, <1>6, PeopleStep DEF People, IInv
<1>7. CASE Pop
  <2>1. UNCHANGED <<now, rows, active, device>>
    BY <1>7 DEF Pop, ReadList, SetList, EvictRevoked, PopSweep, rowVars, peopleVars
  <2>2. CredInv'
    BY <1>0, <1>1, <1>7, PopStep DEF Pop
  <2>3. GateInv'
    BY <1>0, <1>1, <2>1, GateFrame
  <2> QED
    BY <1>3, <2>2, <2>3 DEF IInv
<1> QED
  BY <1>4, <1>5, <1>6, <1>7

\* Every step preserves the invariant.
LEMMA IStep == ASSUME IInv, [Next]_vars PROVE IInv'
<1>1. CASE Next
  <2>1. CASE /\ (now < until /\ InTime /\ Tick) \/ GCExpiredRevocations \/ People \/ Pop
             /\ UNCHANGED <<riskVars, daemonVars, noteVars>>
    BY <2>1, WorldStep
  <2>2. CASE (Refresh \/ Tunnel \/ Agent) /\ UNCHANGED <<riskVars, noteVars>>
    BY <2>2, RefreshStep, TunnelStep, ChannelStep DEF Agent
  <2>3. CASE \/ LoseSignal /\ UNCHANGED <<credVars, daemonVars, noteVars>>
             \/ Signal \/ Snapshot
    BY <2>3, HandlerStep
  <2>4. CASE AdminRevoke \/ Issuing \/ Connect \/ Finding \/ RiskRevoke \/ ServerRestart
    BY <2>4, AdminRevokeStep, IssuingStep, ConnectStep, FindingStep, RiskRevokeStep,
       ServerRestartStep
  <2> QED
    BY <1>1, <2>1, <2>2, <2>3, <2>4 DEF Next
<1>2. CASE UNCHANGED vars
  <2>1. UNCHANGED <<credVars, riskVars, daemonVars, noteVars>>
    BY <1>2 DEF vars
  <2>2. UNCHANGED <<refresh, now, active, device, rows, mode, exp>>
    BY <2>1 DEF credVars, daemonVars
  <2> QED
    BY <2>1, <2>2, CredFrame, AgentFrame, GateFrame, EngineFrame, NoteFrame DEF IInv
<1> QED
  BY <1>1, <1>2

\* The invariant holds in every reachable state.
LEMMA Invariance == Spec => []IInv
BY IInit, IStep, PTL DEF Spec

\* The variables have their types: among others, the revocation table, the
\* list of the PoP and its sessions name only credentials that were issued,
\* the score of the engine is a percentage whatever signals add up, and the
\* command buffer of the hub never holds more than its capacity.
THEOREM TypeCorrect == Spec => []TypeOK
<1>1. ASSUME IInv PROVE TypeOK
  <2>1. CredTypeOK /\ DaemonTypeOK /\ EngineInv /\ NoteInv
    BY <1>1 DEF IInv, CredInv, AgentInv
  <2>2. 0 .. Len(exp) \subseteq Jtis \cup {None} /\ 1 .. Len(exp) \subseteq Jtis \cup {None}
    BY <2>1, CredentialAssumption DEF CredTypeOK, Jtis, None
  <2>3. signals \subseteq [jti : Jtis \cup {None}, id : FactorIds, weight : {0, 10, 25, 50, 90}]
    BY <2>1, <2>2 DEF EngineInv, Weights
  <2>4. \A i \in FactorIds : /\ factors[i].weight \in {0, 10, 25, 50, 90}
                             /\ factors[i].till \in 0 .. MaxTime + EventTTL
    BY <2>1 DEF EngineInv, Factor, Weights
  <2> DEFINE H == [pc : {"idle", "persist", "fire"}, score : 0 .. 100, target : 0 .. Len(exp)]
             G == [pc : {"idle", "persist", "fire"}, score : 0 .. 100, target : Jtis \cup {None}]
  <2>5. H \subseteq G
    BY <2>2
  <2>6. handler \in [Handlers -> H]
    BY <2>1 DEF EngineInv
  <2>7. handler \in [Handlers -> G]
    <3> HIDE DEF G, H
    <3> QED
      BY <2>5, <2>6
  <2>8. RiskTypeOK
    BY <2>1, <2>2, <2>3, <2>4, <2>7 DEF RiskTypeOK, EngineInv
  <2> QED
    BY <2>1, <2>8 DEF TypeOK, NoteInv
<1> QED
  BY <1>1, Invariance, PTL

\* VerifyCred admits no credential that was revoked before the list in force
\* was read, for any lifetimes asked for and any clock, although rows expire,
\* are collected and leave the list, and an older list may be written last:
\* the row of the revocation (RevokeCredential) outlives what IssueCredential
\* clamps, so every list read is complete as long as it matters.
THEOREM RevokedRefused == Spec => []RevokedNotAdmitted
<1>1. ASSUME IInv PROVE RevokedNotAdmitted
  <2>1. CredTypeOK /\ Complete(popRev, popKnown)
    BY <1>1 DEF IInv, CredInv, OutInv
  <2>2. now \in Int /\ \A j \in popKnown : exp[j] \in Int
    BY <2>1, CredentialAssumption DEF CredTypeOK
  <2> QED
    BY <2>1, <2>2 DEF RevokedNotAdmitted, PopAdmits, Verify, Complete
<1> QED
  BY <1>1, Invariance, PTL

\* A refresh whose credential, user or device was already refused when it
\* left gets no credential, although the gates of credrefresh.Refresh read the
\* database one after the other and the clock moves between them.
THEOREM RefreshRefused == Spec => []RefreshGated
<1>1. ASSUME IInv PROVE RefreshGated
  BY <1>1 DEF IInv, GateInv, RefreshGated, Gates
<1> QED
  BY <1>1, Invariance, PTL
=============================================================================
