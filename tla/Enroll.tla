------------------------------- MODULE Enroll -------------------------------
(***************************************************************************)
(* Enrolment as a whole: devices with activation codes, agents whose user  *)
(* logs in at the identity provider (internal/agentenroll on the server,   *)
(* idpEnroll on the agent), and logins of the console, all served by one   *)
(* api-server that may restart.                                            *)
(***************************************************************************)
EXTENDS DeviceEnroll, IdpLogin

CONSTANT Environments   \* bound: what may happen, which devices, failures, restarts, until when

ASSUME EnrollAssumption ==
  \A e \in Environments : /\ e.may \subseteq {"code", "tunnel", "idp", "revoke", "config", "people",
                                                "login"}
                          /\ {e.fails, e.restarts, e.until} \subseteq Nat

VARIABLES
  env,        \* bound: the environment
  restarts    \* bound: the restarts that are left

baseVars == <<now, job, fails, spent, granted>>
boundVars == <<env, restarts>>
vars == <<baseVars, deviceVars, loginVars, boundVars>>

TypeOK ==
  /\ BaseTypeOK /\ DeviceTypeOK /\ LoginTypeOK
  /\ env \in Environments /\ restarts \in Nat

Init ==
  /\ env \in Environments /\ restarts = env.restarts
  /\ BaseInit(env.fails) /\ DeviceInit /\ LoginInit

May(what) == what \in env.may

Tick ==
  /\ now < env.until /\ InTime
  /\ now' = now + 1
  /\ UNCHANGED <<job, fails, spent, granted, deviceVars, loginVars, boundVars>>

\* Administration of devices, and the processes they run.
Device ==
  /\ \E i \in Identities :
       \/ May("code") /\ i \in env.who /\ CreateEnrollment(i)
       \/ May("revoke") /\ RevokeDevice(i)
       \/ \E how \in env.may \cap {"code", "tunnel", "idp"} : i \in env.who /\ DeviceStart(i, how)
       \/ \E w \in Workers : FetchCert(w, i) \/ RenewCert(w, i)
       \/ ConnOpen(i) \/ ConnClose(i)
  /\ UNCHANGED <<loginVars, boundVars>>

\* Steps of the handlers of devices.
Serve ==
  /\ \E w \in Workers :
       \/ RedeemSelect(w) \/ RedeemMark(w) \/ RenewCheck(w) \/ RedeemAgent(w)
       \/ Sign(w) \/ Reply(w) \/ JobFails(w)
  /\ UNCHANGED <<loginVars, boundVars>>

Administer ==
  /\ \/ (May("idp") \/ May("login")) /\ CreateIDP
     \/ May("config") /\ (UpdateIDP \/ DeleteIDP)
     \/ May("people") /\ SetUserStatus
  /\ UNCHANGED <<deviceVars, boundVars>>

\* Steps of the login and of what it shares with the enrolment of an agent.
Login ==
  /\ \E w \in Workers :
       \/ May("login") /\ LoginBegin(w)
       \/ PassConfig(w) \/ PassSecret(w) \/ PutState(w)
       \/ \E s \in States : TakeOnce(w, s)
       \/ Exchange(w) \/ EnsureUser(w) \/ IssueCredential(w)
  /\ UNCHANGED <<deviceVars, boundVars>>

\* The janitor of the state store ticks by itself.
Collect == Janitor /\ UNCHANGED <<deviceVars, boundVars>>

\* idpEnroll: the user has logged in, and the agent sends the provider's code.
AgentEnroll(w, i) ==
  /\ dev[i].pc = "boot" /\ dev[i].how = "idp"
  /\ Begin(w, "agent", i, i)
  /\ dev' = [dev EXCEPT ![i].pc = "asking"]
  /\ UNCHANGED <<now, fails, spent, granted, rows, revokedAt, loginVars, boundVars>>

HandlerStops(w) ==
  /\ Stops(w) /\ Refuse(w)
  /\ UNCHANGED <<now, fails, spent, granted, rows, revokedAt, loginVars, boundVars>>

Restart(i) ==
  /\ restarts > 0 /\ restarts' = restarts - 1
  /\ DeviceRestart(i)
  /\ UNCHANGED <<loginVars, env>>

\* The requests are lost, and the state store with them.
ServerRestart ==
  /\ restarts > 0 /\ restarts' = restarts - 1
  /\ job' = [w \in Workers |-> Free]
  /\ dev' = [i \in Identities |-> WithoutCert(dev[i])]
  /\ store' = {}
  /\ UNCHANGED <<now, fails, spent, granted, rows, revokedAt, cfg, user, drawn, born, env>>

Next ==
  \/ Tick \/ Device \/ Serve \/ Administer \/ Login \/ Collect \/ ServerRestart
  \/ \E w \in Workers : HandlerStops(w) \/ \E i \in Identities : AgentEnroll(w, i)
  \/ \E i \in Identities : Restart(i)

Spec == Init /\ [][Next]_vars

-----------------------------------------------------------------------------
\* An activation code that its owner may still use is open, as is the state of
\* a login that the browser has not brought back.
CodePhase(i) ==
  IF ~rows[i].code THEN "unissued" ELSE IF rows[i].status = "pending" THEN "open" ELSE "void"
StatePhase(s) == IF s \notin drawn THEN "unissued" ELSE IF s \in store THEN "open" ELSE "void"
Phase ==
  [t \in Tokens |-> IF t \in spent THEN "spent"
                    ELSE IF t \in Identities THEN CodePhase(t) ELSE StatePhase(t)]

Secrets == INSTANCE OneTime WITH phase <- Phase, grants <- granted

(***************************************************************************)
(* Activation codes and login states implement one-time secrets: whatever  *)
(* the order of two redemptions or of two callbacks, of a takeover of the  *)
(* row by an agent, of the janitor, of failures and restarts, a code gets  *)
(* at most one certificate and a state at most one session, and only the   *)
(* request that spent it does.                                             *)
(***************************************************************************)
OneTimeSecrets == Secrets!Spec
=============================================================================
