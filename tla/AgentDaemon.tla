---------------------------- MODULE AgentDaemon ----------------------------
(***************************************************************************)
(* The agent of a device (internal/agentd, internal/agent): the store of   *)
(* its current credential, the loop that refreshes it, the tunnel to a PoP *)
(* and the control channel to the hub (internal/control), each a goroutine *)
(* of its own.  The steps of the refresh on the server                     *)
(* (internal/credrefresh) are here too: each reads the database for itself.*)
(* Choice of a PoP, adapter, routes and DNS are reduced to success or      *)
(* failure of a connection attempt.                                        *)
(***************************************************************************)
EXTENDS Credentials

CONSTANTS
  SessionTTL,   \* lifetime of the credentials of enrolment and refresh
  RefreshLead,  \* Config.RefreshLead
  BufCap,       \* capacity of agentConn.send
  Healths       \* facts a posture collection may find

\* The lifetime is a constant of the services, half of MaxTTL.
ASSUME DaemonAssumption ==
  /\ SessionTTL \in 1 .. MaxTTL - 1 /\ RefreshLead \in 0 .. SessionTTL
  /\ BufCap \in Nat \ {0}
  /\ Healths \subseteq {"healthy", "bad"}

VARIABLES
  mode,        \* EnrollMode
  control,     \* whether ControlAddr is set
  store,       \* credStore: jti and expiry as the agent reckons it
  sessJTI,     \* jti of agent.Session
  sessRevoked, \* Session.revoked
  health,      \* PostureScheduler.last
  refresh,     \* the refresh loop and the request it waits for
  tunnel,      \* runTunnelOnce
  reconnect,   \* whether the channel of capacity 1 holds a signal
  channel,     \* the control stream: jti of its hello, None when there is none
  buf,         \* agentConn.send
  fails,       \* bound: calls and connections that may still fail
  restarts     \* bound: restarts of a process still to come

daemonVars == <<mode, control, store, sessJTI, sessRevoked, health, refresh, tunnel, reconnect,
                channel, buf, fails, restarts>>
configVars == <<mode, control, sessJTI>>
channelVars == <<channel, buf, sessRevoked>>

Gates == {"verify", "revchk", "device", "user"}
Waiting == [pc |-> "wait", jti |-> None, at |-> 0, bad |-> FALSE]

DaemonTypeOK ==
  /\ mode \in {"ztp", "idp"} /\ control \in BOOLEAN
  /\ store \in [jti : Jtis, till : 0 .. MaxTime + MaxTTL]
  /\ sessJTI \in Jtis /\ sessRevoked \in BOOLEAN
  /\ health \in Healths \cup {"unknown"}
  /\ refresh \in [pc : Gates \cup {"wait", "issue", "reply", "signal"}, jti : Jtis \cup {None},
                  at : 0 .. MaxTime, bad : BOOLEAN]
  /\ tunnel \in [pc : {"select", "hello", "answer", "up", "backoff"}, jti : Jtis \cup {None}]
  /\ reconnect \in BOOLEAN
  /\ channel \in Jtis \cup {None}
  /\ buf \in Seq(Jtis) /\ Len(buf) <= BufCap
  /\ fails \in Nat /\ restarts \in Nat

\* The daemon with credential j at the start of runWithCert.
Fresh(j, till) ==
  /\ store' = [jti |-> j, till |-> till]
  /\ sessJTI' = j /\ sessRevoked' = FALSE
  /\ health' = "unknown"
  /\ refresh' = Waiting
  /\ tunnel' = [pc |-> "select", jti |-> None]
  /\ reconnect' = FALSE
  /\ channel' = None /\ buf' = <<>>

DaemonInit(m, c, f, r) ==
  /\ mode = m /\ control = c /\ fails = f /\ restarts = r
  /\ store = [jti |-> 1, till |-> IF mode = "idp" THEN SessionTTL ELSE 0]
  /\ sessJTI = 1 /\ sessRevoked = FALSE /\ health = "unknown"
  /\ refresh = Waiting
  /\ tunnel = [pc |-> "select", jti |-> None]
  /\ reconnect = FALSE /\ channel = None /\ buf = <<>>

\* The HTTP client gives a request up after a timeout, short against the
\* lifetimes: it sees the clock move once at most.
InTime == refresh.pc \in Gates => now = refresh.at

Fail == fails > 0 /\ fails' = fails - 1

-----------------------------------------------------------------------------
(* Refresh of the credential; only in mode idp.                            *)

\* Remaining life below the lead, or a retry after a failure.  The history
\* bad: the request should be refused, for what was already so when it left.
RefreshSend ==
  /\ mode = "idp" /\ refresh.pc = "wait"
  /\ now >= store.till - RefreshLead
  /\ refresh' = [pc |-> "verify", jti |-> store.jti, at |-> now,
                 bad |-> IsRevoked(store.jti) \/ ~active \/ device # "redeemed"]
  /\ UNCHANGED <<configVars, store, health, tunnel, reconnect, channelVars, fails, restarts, credVars>>

PassesMut(gate) ==
  CASE gate = "verify" -> Verify(refresh.jti)
    [] gate = "revchk" -> TRUE
    [] gate = "device" -> device = "redeemed"
    [] gate = "user"   -> active

\* The three gates of Refresh behind the verification of the credential.
Passes(gate) ==
  CASE gate = "verify" -> Verify(refresh.jti)
    [] gate = "revchk" -> ~IsRevoked(refresh.jti)
    [] gate = "device" -> device = "redeemed"
    [] gate = "user"   -> active

After(gate) ==
  CASE gate = "verify" -> "revchk" [] gate = "revchk" -> "device"
    [] gate = "device" -> "user" [] gate = "user" -> "issue"

\* A refusal or an error ends the request; the loop sleeps and tries again.
RefreshGate ==
  /\ refresh.pc \in Gates
  /\ \/ /\ refresh' = IF Passes(refresh.pc) THEN [refresh EXCEPT !.pc = After(@)] ELSE Waiting
        /\ UNCHANGED fails
     \/ /\ refresh' = Waiting
        /\ Fail
  /\ UNCHANGED <<configVars, store, health, tunnel, reconnect, channelVars, restarts, credVars>>

RefreshIssue ==
  /\ refresh.pc = "issue"
  /\ IssueCredential(SessionTTL)
  /\ refresh' = [refresh EXCEPT !.pc = "reply", !.jti = Len(exp'), !.at = 0]
  /\ UNCHANGED <<configVars, store, health, tunnel, reconnect, channelVars, fails, restarts,
                 now, rowVars, peopleVars, popVars>>

\* The answer arrives and replaces the credential, or is lost.
RefreshReply ==
  /\ refresh.pc = "reply"
  /\ \/ /\ store' = [jti |-> refresh.jti, till |-> now + SessionTTL]
        /\ refresh' = [refresh EXCEPT !.pc = "signal"]
        /\ UNCHANGED fails
     \/ /\ refresh' = Waiting
        /\ Fail
        /\ UNCHANGED store
  /\ UNCHANGED <<configVars, health, tunnel, reconnect, channelVars, restarts, credVars>>

\* A send that only a waiting receiver takes.
SignalledMut == reconnect \/ tunnel.pc = "up"
\* The send that does not block: a signal already there is enough.
Signalled == TRUE

RefreshSignal ==
  /\ refresh.pc = "signal"
  /\ reconnect' = Signalled
  /\ refresh' = Waiting
  /\ UNCHANGED <<configVars, store, health, tunnel, channelVars, fails, restarts, credVars>>

-----------------------------------------------------------------------------
(* The tunnel.                                                             *)

\* Select, the local socket, and the credential of this moment for the handshake.
TunnelDial ==
  /\ tunnel.pc = "select"
  /\ \/ /\ tunnel' = [pc |-> "hello", jti |-> store.jti]
        /\ UNCHANGED fails
     \/ /\ tunnel' = [tunnel EXCEPT !.pc = "backoff"]
        /\ Fail
  /\ UNCHANGED <<configVars, store, health, refresh, reconnect, channelVars, restarts, credVars>>

\* The handler of the PoP verifies the credential, or closes the connection.
TunnelVerify ==
  /\ tunnel.pc = "hello"
  /\ \/ /\ PopAdmits(tunnel.jti)
        /\ PopVerified(tunnel.jti)
        /\ tunnel' = [tunnel EXCEPT !.pc = "answer"]
     \/ /\ ~PopAdmits(tunnel.jti)
        /\ tunnel' = [tunnel EXCEPT !.pc = "backoff"]
        /\ UNCHANGED popHs
  /\ UNCHANGED <<configVars, store, health, refresh, reconnect, channelVars, fails, restarts,
                 now, exp, rowVars, peopleVars, listVars, popSess>>

\* It enters the session and answers, whether or not the agent still waits.
TunnelEstablish ==
  /\ \E j \in popHs :
       /\ PopEstablished(j)
       /\ tunnel' = IF tunnel = [pc |-> "answer", jti |-> j] THEN [tunnel EXCEPT !.pc = "up"]
                    ELSE tunnel
  /\ UNCHANGED <<configVars, store, health, refresh, reconnect, channelVars, fails, restarts,
                 now, exp, rowVars, peopleVars, listVars>>

\* The handshake times out, the adapter does not open, or a pump ends.
TunnelBreaks ==
  /\ tunnel.pc \in {"answer", "up"}
  /\ Fail
  /\ tunnel' = [tunnel EXCEPT !.pc = "backoff"]
  /\ UNCHANGED <<configVars, store, health, refresh, reconnect, channelVars, restarts, credVars>>

\* The signal ends the round.
TunnelReconnect ==
  /\ tunnel.pc = "up" /\ reconnect
  /\ reconnect' = FALSE
  /\ tunnel' = [tunnel EXCEPT !.pc = "backoff"]
  /\ UNCHANGED <<configVars, store, health, refresh, channelVars, fails, restarts, credVars>>

\* retryLoop.
TunnelRetry ==
  /\ tunnel.pc = "backoff"
  /\ tunnel' = [pc |-> "select", jti |-> None]
  /\ UNCHANGED <<configVars, store, health, refresh, reconnect, channelVars, fails, restarts, credVars>>

-----------------------------------------------------------------------------
(* Posture and control channel.                                            *)

\* collectOnce; onUpdate gives the summary to the session.
CollectPosture ==
  /\ \E h \in Healths : h # health /\ health' = h
  /\ UNCHANGED <<configVars, store, refresh, tunnel, reconnect, channelVars, fails, restarts, credVars>>

\* PostureFacts.Summary lists the facts; before a collection the session has "".
Summary == CASE health = "unknown" -> ""
             [] health = "healthy" -> "os=linux disk=healthy"
             [] health = "bad"     -> "os=linux disk=none"

\* RunControlChannel with the credential of this moment, Channel verifies the hello.
ChannelOpens ==
  /\ control /\ channel = None
  /\ Verify(store.jti)
  /\ channel' = store.jti
  /\ buf' = <<>>

ChannelBreaks ==
  /\ channel # None
  /\ Fail
  /\ channel' = None /\ buf' = <<>>
  /\ UNCHANGED <<configVars, store, sessRevoked, health, refresh, tunnel, reconnect, restarts, credVars>>

\* A send that does not look at the capacity.
BroadcastMut(j) ==
  buf' = IF channel # None THEN Append(buf, j) ELSE buf
\* broadcast: every stream of the tenant; a full buffer drops the command.
Broadcast(j) ==
  buf' = IF channel # None /\ Len(buf) < BufCap THEN Append(buf, j) ELSE buf

ChannelReceives ==
  /\ buf # <<>>
  /\ buf' = Tail(buf)
  /\ sessRevoked' = (sessRevoked \/ Head(buf) = sessJTI)
  /\ UNCHANGED <<configVars, store, health, refresh, tunnel, reconnect, channel, fails, restarts, credVars>>

\* A new process, with the credential of its configuration or of a new
\* enrolment, which needs an active user and binds the device again.
AgentRestart ==
  /\ restarts > 0 /\ restarts' = restarts - 1
  /\ IF mode = "ztp"
     THEN /\ Fresh(sessJTI, 0)
          /\ UNCHANGED <<exp, device>>
     ELSE /\ active
          /\ IssueCredential(SessionTTL)
          /\ Fresh(Len(exp'), now + SessionTTL)
          /\ device' = "redeemed"
  /\ UNCHANGED <<mode, control, fails, now, rowVars, active, popVars>>

(***************************************************************************)
(* A refresh whose credential was already revoked, whose user was already  *)
(* disabled or whose device was already revoked when the request left does *)
(* not get a new credential, whatever else happens between the gates of    *)
(* credrefresh.Refresh, which read the database one after the other.       *)
(***************************************************************************)
RefreshGated == refresh.pc \in {"reply", "signal"} => ~refresh.bad

(***************************************************************************)
(* The tunnel comes round to the credential in the store: a signal sent    *)
(* while runTunnelOnce is dialling with the old one, or backing off, is    *)
(* kept by the buffered channel (runCredRefreshLoop, reconnect) until the  *)
(* round that can act on it.                                               *)
(***************************************************************************)
TunnelFollows ==
  \A j \in Jtis : (store.jti = j) ~> (store.jti # j \/ tunnel.jti = j)
=============================================================================
