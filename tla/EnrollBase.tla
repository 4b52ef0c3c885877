----------------------------- MODULE EnrollBase -----------------------------
(***************************************************************************)
(* What the enrolment of devices and the login of users share: the clock,  *)
(* the requests the api-server is serving, and the record of the one-time  *)
(* secrets (activation codes of devices, states of logins).  There is one  *)
(* tenant: the tables are read and written under row-level security, and   *)
(* an activation code carries its tenant.                                  *)
(***************************************************************************)
EXTENDS Naturals, FiniteSets

CONSTANTS
  Workers,      \* requests served at a time
  Identities,   \* device identities, the common names of certificates
  States,       \* ids that the login state store will draw
  None

Tokens == Identities \cup States

ASSUME TokensAssumption ==
  /\ Identities \cap States = {}
  /\ None \notin Tokens

VARIABLES
  now,
  job,       \* the request each worker serves
  fails,     \* how many failures there may still be
  spent,     \* history: secrets that somebody has spent
  granted    \* history: how often each secret got a certificate or a session

\* op: what is asked for, pc: the next step, tok: the identity or the state it
\* is about, to: the device that waits for the answer, at: when it came, cert:
\* when the certificate it has signed ends.  History: live, the provider's
\* configuration was active at some time since the request came; good, the
\* user was not disabled at some time since then.
Free == [op |-> "none", pc |-> "idle", tok |-> None, to |-> None, at |-> 0, cert |-> 0,
         live |-> FALSE, good |-> FALSE]

Ops == {"redeem", "renew", "login", "callback", "agent"}
Steps == {"select", "mark", "check", "sign", "cfg", "secret", "put", "exchange", "ensure",
          "upsert", "issue", "reply"}

Jobs == [op : Ops, pc : Steps, tok : Tokens \cup {None}, to : Identities \cup {None},
         at : Nat, cert : Nat, live : BOOLEAN, good : BOOLEAN] \cup {Free}

BaseTypeOK ==
  /\ now \in Nat /\ fails \in Nat
  /\ job \in [Workers -> Jobs]
  /\ spent \subseteq Tokens
  /\ granted \in [Tokens -> Nat]

BaseInit(f) ==
  /\ now = 0 /\ fails = f
  /\ job = [w \in Workers |-> Free]
  /\ spent = {}
  /\ granted = [t \in Tokens |-> 0]

Goto(w, pc) == job' = [job EXCEPT ![w].pc = pc]
Done(w) == job' = [job EXCEPT ![w] = Free]
Fail == fails > 0 /\ fails' = fails - 1
Granting(t) == granted' = [granted EXCEPT ![t] = @ + 1]
=============================================================================
