---------------------------- MODULE SessionLife ----------------------------
(***************************************************************************)
(* The life of an agent's session: credentials and revocation              *)
(* (Credentials), the risk engine (RiskEngine) and the agent               *)
(* (AgentDaemon) together, as cmd/api-server wires them: a posture report  *)
(* on the control channel and a finding of the PoP feed the engine, the    *)
(* engine revokes, the revocation is pushed to the PoP and, best effort,   *)
(* to the control channel.                                                 *)
(***************************************************************************)
EXTENDS RiskEngine, AgentDaemon

CONSTANTS
  AskedTTLs,    \* lifetimes an administrator asks for (issueCredential)
  Environments  \* bound: combinations of mode and of what may happen to the session

\* issueCredential replaces a lifetime that is not positive by a default.
ASSUME AskedAssumption == AskedTTLs \subseteq Nat \ {0}

ASSUME EnvironmentAssumption ==
  \A e \in Environments : /\ e.mode \in {"ztp", "idp"}
                          /\ e.may \subseteq {"control", "findings", "admin", "people"}
                          /\ e.fails \in Nat /\ e.restarts \in Nat /\ e.until \in 0 .. MaxTime

VARIABLES
  may,       \* what the environment does
  until,     \* bound: the clock of this environment
  found,     \* findings already reported; bounds them to one of each
  blamed,    \* history: sessions with a finding or a report of anything but health
  riskRev    \* history: sessions the engine revoked

noteVars == <<may, until, found, blamed, riskRev>>
vars == <<credVars, riskVars, daemonVars, noteVars>>

TypeOK ==
  /\ CredTypeOK /\ RiskTypeOK /\ DaemonTypeOK
  /\ found \subseteq Findings /\ blamed \subseteq Jtis /\ riskRev \subseteq Jtis

\* In mode ztp an administrator has issued the credential of the configuration
\* (issueCredential).
Init ==
  /\ \E e \in Environments : /\ may = e.may /\ until = e.until
                              /\ DaemonInit(e.mode, "control" \in e.may, e.fails, e.restarts)
  /\ \E ttl \in (IF mode = "idp" THEN {SessionTTL} ELSE AskedTTLs) : CredInit(ttl)
  /\ RiskInit
  /\ found = {} /\ blamed = {} /\ riskRev = {}

\* revokeCredential of the management API.
AdminRevoke ==
  /\ "admin" \in may
  /\ \E j \in Issued \ revoked : RevokeCredential(j) /\ Broadcast(j)
  /\ UNCHANGED <<now, exp, peopleVars, popVars, riskVars, noteVars,
                 configVars, store, sessRevoked, health, refresh, tunnel, reconnect, channel, fails, restarts>>

\* The refresh and the new enrolment issue with the risk of the moment.
Issuing ==
  /\ RefreshIssue \/ AgentRestart
  /\ IF exp' # exp THEN Assess ELSE UNCHANGED factors
  /\ UNCHANGED <<signals, lastJTI, firedJTI, handler, snap, tried, owed, noteVars>>

\* A control stream begins with hello and the posture; the hub hands the report
\* to a goroutine.
Connect ==
  LET s == [jti |-> store.jti, id |-> "posture", weight |-> PostureWeight(Summary)]
  IN /\ ChannelOpens
     /\ Cardinality(signals) < MaxSignals
     /\ signals' = signals \cup {s}
     /\ blamed' = IF health = "healthy" THEN blamed ELSE blamed \cup {store.jti}
     /\ UNCHANGED <<engineVars, handler, snap, tried, owed, may, until, found, riskRev, credVars,
                    configVars, store, sessRevoked, health, refresh, tunnel, reconnect, fails, restarts>>

Finding ==
  /\ "findings" \in may
  /\ \E f \in Findings \ found, j \in popSess :
       /\ ReportFinding(f, j)
       /\ found' = found \cup {f}
       /\ blamed' = blamed \cup {j}
  /\ UNCHANGED <<may, until, riskRev, credVars, daemonVars>>

Signal ==
  /\ \E h \in Handlers, s \in signals : Observe(h, s)
  /\ UNCHANGED <<credVars, daemonVars, noteVars>>

Snapshot ==
  /\ \E h \in Handlers : Persist(h)
  /\ UNCHANGED <<credVars, daemonVars, noteVars>>

RiskRevoke ==
  /\ \E h \in Handlers :
       \/ /\ Fire(h, TRUE)
          /\ Broadcast(handler[h].target)
          /\ riskRev' = riskRev \cup {handler[h].target}
          /\ UNCHANGED fails
       \/ /\ Fire(h, FALSE)
          /\ Fail
          /\ UNCHANGED <<buf, riskRev>>
  /\ UNCHANGED <<now, exp, peopleVars, popVars, may, until, found, blamed,
                 configVars, store, sessRevoked, health, refresh, tunnel, reconnect, channel, restarts>>

\* The engine and the hub are in the memory of the api-server.
ServerRestart ==
  /\ restarts > 0 /\ restarts' = restarts - 1
  /\ RiskRestart
  /\ channel' = None /\ buf' = <<>>
  /\ refresh' = IF refresh.pc \in {"wait", "signal"} THEN refresh ELSE Waiting
  /\ UNCHANGED <<credVars, noteVars, configVars, store, sessRevoked, health, tunnel, reconnect, fails>>

People == "people" \in may /\ (DisableUser \/ RevokeDevice)
Pop == ReadList \/ SetList \/ EvictRevoked \/ PopSweep
Refresh == RefreshSend \/ RefreshGate \/ RefreshReply \/ RefreshSignal
Tunnel == TunnelDial \/ TunnelVerify \/ TunnelEstablish \/ TunnelReconnect \/ TunnelRetry
Agent == (control /\ CollectPosture) \/ ChannelBreaks \/ ChannelReceives \/ TunnelBreaks

Next ==
  \/ ((now < until /\ InTime /\ Tick) \/ GCExpiredRevocations \/ People \/ Pop) /\ UNCHANGED <<riskVars, daemonVars, noteVars>>
  \/ (Refresh \/ Tunnel \/ Agent) /\ UNCHANGED <<riskVars, noteVars>>
  \/ LoseSignal /\ UNCHANGED <<credVars, daemonVars, noteVars>>
  \/ AdminRevoke \/ Issuing \/ Connect \/ Finding
  \/ Signal \/ Snapshot \/ RiskRevoke \/ ServerRestart

\* The goroutines of the agent and of the handlers run on.
Fairness ==
  /\ WF_vars(Tunnel /\ UNCHANGED <<riskVars, noteVars>>)
  /\ WF_vars(RefreshSignal /\ UNCHANGED <<riskVars, noteVars>>)
  /\ WF_vars(Snapshot) /\ WF_vars(RiskRevoke)

Spec == Init /\ [][Next]_vars /\ Fairness

(***************************************************************************)
(* The posture of a healthy device does not cost it its session: the       *)
(* engine revokes only sessions that a finding, or a report of something   *)
(* other than a healthy device, has spoken against.                        *)
(***************************************************************************)
HealthyKept == riskRev \subseteq blamed
=============================================================================
