------------------------------ MODULE IdpLogin ------------------------------
(***************************************************************************)
(* Login through an identity provider: the provider's configuration        *)
(* (internal/idp), the login and callback handlers and their state store   *)
(* (internal/oidc), and the users they make (internal/identity).           *)
(*                                                                         *)
(* There is one configuration and one user.  A configuration that is       *)
(* deleted never comes back: a new one has a new id.  The provider is      *)
(* external: it identifies the user or refuses.  A callback whose state is *)
(* not in the store is answered with an error and is no step, and neither  *)
(* is one with the provider's error, which leaves the state in the store.  *)
(***************************************************************************)
EXTENDS EnrollBase

CONSTANT StateTTL

ASSUME LoginAssumption == StateTTL \in Nat

VARIABLES
  cfg,      \* status of the configuration
  user,     \* status of the user, "none" before the first login
  store,    \* records of InMemoryStateStore
  drawn,    \* ids drawn so far
  born      \* CreatedAt of a record

loginVars == <<cfg, user, store, drawn, born>>

LoginTypeOK ==
  /\ cfg \in {"none", "active", "disabled", "deleted"}
  /\ user \in {"none", "active", "disabled"}
  /\ store \subseteq drawn \ spent /\ drawn \subseteq States
  /\ born \in [States -> Nat]

LoginInit ==
  /\ cfg = "none" /\ user = "none"
  /\ store = {} /\ drawn = {}
  /\ born = [s \in States |-> 0]

\* History: every request that is being served has seen this.
Seen(live, good) ==
  job' = [w \in Workers |-> IF job[w] = Free THEN Free
                            ELSE [job[w] EXCEPT !.live = @ \/ live, !.good = @ \/ good]]

-----------------------------------------------------------------------------
(* Administration.                                                         *)

CreateIDP ==
  /\ cfg = "none" /\ cfg' = "active"
  /\ Seen(TRUE, FALSE)
  /\ UNCHANGED <<now, fails, spent, granted, user, store, drawn, born>>

UpdateIDP ==
  /\ cfg \in {"active", "disabled"}
  /\ cfg' = IF cfg = "active" THEN "disabled" ELSE "active"
  /\ Seen(cfg' = "active", FALSE)
  /\ UNCHANGED <<now, fails, spent, granted, user, store, drawn, born>>

\* Delete; the users of the provider stay, without the provider's id.
DeleteIDP ==
  /\ cfg \in {"active", "disabled"} /\ cfg' = "deleted"
  /\ UNCHANGED <<now, job, fails, spent, granted, user, store, drawn, born>>

\* An operator's statement on users.
SetUserStatus ==
  /\ user # "none"
  /\ user' = IF user = "active" THEN "disabled" ELSE "active"
  /\ Seen(FALSE, user' = "active")
  /\ UNCHANGED <<now, fails, spent, granted, cfg, store, drawn, born>>

-----------------------------------------------------------------------------
(* LoginHandler, CallbackHandler, and the steps they share with Enroll of  *)
(* internal/agentenroll.                                                   *)

Begin(w, op, tok, to) ==
  /\ job[w] = Free
  /\ job' = [job EXCEPT ![w] = [op |-> op, pc |-> "cfg", tok |-> tok, to |-> to, at |-> now, cert |-> 0,
                                live |-> cfg = "active", good |-> user # "disabled"]]

LoginBegin(w) ==
  /\ Cardinality(drawn) + Cardinality({v \in Workers : job[v].op = "login"}) < Cardinality(States)
  /\ Begin(w, "login", None, None)
  /\ UNCHANGED <<now, fails, spent, granted, loginVars>>

\* A read without a look at the status.
ConfiguredMut == cfg \in {"active", "disabled"}
\* Get, and the status.
Configured == cfg = "active"

PassConfig(w) ==
  /\ job[w].pc = "cfg" /\ Configured
  /\ Goto(w, "secret")
  /\ UNCHANGED <<now, fails, spent, granted, loginVars>>

\* GetClientSecret reads the row again; the factory builds the adapter.
PassSecret(w) ==
  /\ job[w].pc = "secret" /\ cfg \in {"active", "disabled"}
  /\ Goto(w, IF job[w].op = "login" THEN "put" ELSE "exchange")
  /\ UNCHANGED <<now, fails, spent, granted, loginVars>>

\* StateStore.Put, and the redirect to the provider.
PutState(w) ==
  /\ job[w].pc = "put"
  /\ \E s \in States \ drawn :
       /\ store' = store \cup {s} /\ drawn' = drawn \cup {s}
       /\ born' = [born EXCEPT ![s] = now]
  /\ Done(w)
  /\ UNCHANGED <<now, fails, spent, granted, cfg, user>>

Expired(s) == now - born[s] > StateTTL

\* The record is left for the janitor.
RemainsMut(s) == store
\* The record is deleted whether it has expired or not.
Remains(s) == store \ {s}

\* The provider sends the browser back; TakeOnce holds the lock of the store.
TakeOnce(w, s) ==
  /\ s \in store /\ job[w] = Free
  /\ store' = Remains(s)
  /\ IF Expired(s)
     THEN UNCHANGED <<job, spent>>
     ELSE /\ spent' = spent \cup {s}
          /\ Begin(w, "callback", s, None)
  /\ UNCHANGED <<now, fails, granted, cfg, user, drawn, born>>

\* gcExpired.
Janitor ==
  /\ \E s \in store : Expired(s)
  /\ store' = {s \in store : ~Expired(s)}
  /\ UNCHANGED <<now, job, fails, spent, granted, cfg, user, drawn, born>>

\* Exchange: the provider accepts the code and the verifier.
Exchange(w) ==
  /\ job[w].pc = "exchange"
  /\ Goto(w, "ensure")
  /\ UNCHANGED <<now, fails, spent, granted, loginVars>>

\* EnsureUserByExternalID makes the user or reads its status; the user's row
\* refers to the configuration.
EnsureUser(w) ==
  /\ job[w].pc = "ensure" /\ cfg # "deleted" /\ user # "disabled"
  /\ user' = "active"
  /\ Goto(w, IF job[w].op = "agent" THEN "upsert" ELSE "issue")
  /\ UNCHANGED <<now, fails, spent, granted, cfg, store, drawn, born>>

\* IssueCredential, with which a callback ends.
IssueCredential(w) ==
  /\ job[w].pc = "issue"
  /\ IF job[w].op = "callback" THEN Done(w) /\ Granting(job[w].tok)
     ELSE Goto(w, "reply") /\ UNCHANGED granted
  /\ UNCHANGED <<now, fails, spent, loginVars>>

\* The step at which the handler stops with an error.
Stops(w) ==
  \/ job[w].pc = "cfg" /\ ~Configured
  \/ job[w].pc = "secret" /\ cfg = "deleted"
  \/ job[w].pc = "exchange"
  \/ job[w].pc = "ensure" /\ (cfg = "deleted" \/ user = "disabled")

(***************************************************************************)
(* A session or an agent's certificate is only given to a request during   *)
(* which the provider's configuration was active and the user not          *)
(* disabled: a login that was begun before an administrator disabled the   *)
(* provider or the user, and comes back afterwards, gets nothing, although *)
(* the state it brings is still good.                                      *)
(***************************************************************************)
LoginGated ==
  \A w \in Workers : job[w].pc \in {"upsert", "issue"} => job[w].live /\ job[w].good
=============================================================================
