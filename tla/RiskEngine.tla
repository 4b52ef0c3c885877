----------------------------- MODULE RiskEngine -----------------------------
(***************************************************************************)
(* The risk of one user (internal/risk): factors with weights, the level   *)
(* they add up to, and the revocation of the session last seen when the    *)
(* level becomes critical.  Signals arrive by two ways that do not order   *)
(* them: the control hub starts a goroutine for each posture report, and   *)
(* PoPs send batches of DLP findings.  The work of a signal outside the    *)
(* engine's lock, the snapshot and the revocation, is done by the handler  *)
(* that brought it.                                                        *)
(***************************************************************************)
EXTENDS Credentials

CONSTANTS
  Handlers,    \* goroutines that bring signals to the engine
  Findings,    \* DLP findings that may happen: rule and weight of the severity
  EventTTL,    \* eventFactorTTL
  MaxSignals   \* bound: signals on their way

ASSUME RiskAssumption ==
  /\ Handlers # {} /\ EventTTL \in Nat \ {0} /\ MaxSignals \in Nat
  /\ IsFiniteSet(Findings)
  /\ \A f \in Findings : f.rule # "posture" /\ f.weight \in {10, 25, 50}

Rules == {f.rule : f \in Findings}
FactorIds == {"posture"} \cup Rules
NoFactor == [weight |-> 0, till |-> 0]
Levels == {"low", "medium", "high", "critical"}

VARIABLES
  signals,   \* signals sent and not yet handled
  factors,   \* subjectState.factors; a factor without end has till 0
  lastJTI, firedJTI,
  handler,   \* what each handler has still to do after the lock
  snap,      \* the row of risk_scores
  tried,     \* history: sessions whose revocation was tried
  owed       \* history: sessions seen critical whose revocation is still to be tried

riskVars == <<signals, factors, lastJTI, firedJTI, handler, snap, tried, owed>>
engineVars == <<factors, lastJTI, firedJTI>>

Idle == [pc |-> "idle", score |-> 0, target |-> None]

RiskTypeOK ==
  /\ signals \subseteq [jti : Jtis \cup {None}, id : FactorIds, weight : {0, 10, 25, 50, 90}]
  /\ \A i \in FactorIds : /\ factors[i].weight \in {0, 10, 25, 50, 90}
                          /\ factors[i].till \in 0 .. MaxTime + EventTTL
  /\ {lastJTI, firedJTI} \subseteq Jtis \cup {None}
  /\ handler \in [Handlers -> [pc : {"idle", "persist", "fire"}, score : 0 .. 100, target : Jtis \cup {None}]]
  /\ snap \in [score : 0 .. 100, level : Levels \cup {"none"}]
  /\ owed \subseteq Jtis /\ tried \subseteq Jtis

RiskInit ==
  /\ signals = {}
  /\ factors = [i \in FactorIds |-> NoFactor]
  /\ lastJTI = None /\ firedJTI = None
  /\ handler = [h \in Handlers |-> Idle]
  /\ snap = [score |-> 0, level |-> "none"]
  /\ tried = {} /\ owed = {}

LevelOf(score) ==
  CASE score >= 85 -> "critical" [] score >= 60 -> "high" [] score >= 30 -> "medium" [] OTHER -> "low"

Score(fs) == Min({100, MapThenSumSet(LAMBDA i : fs[i].weight, FactorIds)})

\* assessLocked drops the factors that have ended.
Swept(fs) == [i \in FactorIds |-> IF fs[i].till # 0 /\ now > fs[i].till THEN NoFactor ELSE fs[i]]

\* Assess, at the issue of a credential, leaves the hysteresis alone.
Assess == factors' = Swept(factors)

\* A debounce that does not look at the session.
FiresMut(level, target) == level = "critical" /\ firedJTI = None
\* Once for each session of a critical episode.
Fires(level, target) == level = "critical" /\ firedJTI # target

PostureWeight(posture) == IF posture # "compliant" THEN 90 ELSE 0

\* The state of a signal is replaced, a finding ends after EventTTL.
Till(id) == IF id = "posture" THEN 0 ELSE now + EventTTL

\* observe, up to the unlock.
Observe(h, s) ==
  LET fs == Swept([factors EXCEPT ![s.id] =
                     IF s.weight > 0 THEN [weight |-> s.weight, till |-> Till(s.id)] ELSE NoFactor])
      level == LevelOf(Score(fs))
      target == IF s.jti # None THEN s.jti ELSE lastJTI
      critical == level = "critical"
  IN /\ handler[h].pc = "idle"
     /\ s \in signals
     /\ signals' = signals \ {s}
     /\ factors' = fs
     /\ lastJTI' = target
     /\ firedJTI' = IF ~critical THEN None ELSE IF Fires(level, target) THEN target ELSE firedJTI
     /\ handler' = [handler EXCEPT ![h] = [pc |-> "persist", score |-> Score(fs),
                                           target |-> IF Fires(level, target) THEN target ELSE None]]
     /\ owed' = IF critical THEN owed \cup ({target} \ (tried \cup {None})) ELSE owed
     /\ UNCHANGED <<snap, tried>>

\* persistSnapshot: an error is only logged.
Persist(h) ==
  /\ handler[h].pc = "persist"
  /\ \/ snap' = [score |-> handler[h].score, level |-> LevelOf(handler[h].score)]
     \/ UNCHANGED snap
  /\ handler' = [handler EXCEPT ![h] = IF @.target = None THEN Idle ELSE [@ EXCEPT !.pc = "fire"]]
  /\ UNCHANGED <<signals, engineVars, tried, owed>>

\* The callback of NewService in cmd/api-server: done says whether the
\* transaction of RevokeCredential commits; an error is only logged.
Fire(h, done) ==
  /\ handler[h].pc = "fire"
  /\ owed' = owed \ {handler[h].target} /\ tried' = tried \cup {handler[h].target}
  /\ handler' = [handler EXCEPT ![h] = Idle]
  /\ IF done THEN RevokeCredential(handler[h].target) ELSE UNCHANGED rowVars
  /\ UNCHANGED <<signals, engineVars, snap>>

\* Reporter.Enqueue and its batches, Ingest.Report and the sink of the
\* control plane bring a finding in the session of j, or lose it.
ReportFinding(f, j) ==
  /\ Cardinality(signals) < MaxSignals
  /\ signals' = signals \cup {[jti |-> j, id |-> f.rule, weight |-> f.weight]}
  /\ UNCHANGED <<engineVars, handler, snap, tried, owed>>

LoseSignal ==
  /\ \E s \in signals : s.id # "posture" /\ signals' = signals \ {s}
  /\ UNCHANGED <<engineVars, handler, snap, tried, owed>>

\* A restart of the api-server: the engine's state is in memory, the row is not.
RiskRestart ==
  /\ signals' = {s \in signals : s.id # "posture"}
  /\ factors' = [i \in FactorIds |-> NoFactor]
  /\ lastJTI' = None /\ firedJTI' = None
  /\ handler' = [h \in Handlers |-> Idle]
  /\ owed' = {}
  /\ UNCHANGED <<snap, tried>>

(***************************************************************************)
(* A session that a signal finds critical is revoked: the hysteresis of    *)
(* observe (firedJTI) may suppress the revocation only of a session whose  *)
(* revocation has already been tried, also when a new session takes over   *)
(* in the middle of a critical episode and when signals of the old and the *)
(* new session arrive mixed.  (A call that fails, or that a restart of the *)
(* api-server cuts off, is not repeated: it counts as tried.)              *)
(***************************************************************************)
RiskRevokes == \A j \in Jtis : (j \in owed) ~> (j \notin owed)
=============================================================================
