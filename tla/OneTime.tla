------------------------------ MODULE OneTime ------------------------------
(***************************************************************************)
(* What a one-time secret promises.  A secret is issued once, and is then  *)
(* either spent by one bearer or made void; what it stands for - a         *)
(* certificate, a session - is granted to that bearer, at most once, and   *)
(* to nobody else.  The bearer may get nothing at all: a server that fails *)
(* after it has spent the secret does not give it back.                    *)
(***************************************************************************)
EXTENDS Naturals

CONSTANT Tokens

VARIABLES
  phase,    \* how far a secret is
  grants    \* how often what it stands for has been granted

vars == <<phase, grants>>

Init ==
  /\ phase = [t \in Tokens |-> "unissued"]
  /\ grants = [t \in Tokens |-> 0]

Issue(t) ==
  /\ phase[t] = "unissued"
  /\ phase' = [phase EXCEPT ![t] = "open"]
  /\ UNCHANGED grants

Spend(t) ==
  /\ phase[t] = "open"
  /\ phase' = [phase EXCEPT ![t] = "spent"]
  /\ UNCHANGED grants

Grant(t) ==
  /\ phase[t] = "spent" /\ grants[t] = 0
  /\ grants' = [grants EXCEPT ![t] = 1]
  /\ UNCHANGED phase

\* Withdrawn or expired; a server that stops makes many void at once.
MakeVoid(S) ==
  /\ \A t \in S : phase[t] = "open"
  /\ phase' = [t \in Tokens |-> IF t \in S THEN "void" ELSE phase[t]]
  /\ UNCHANGED grants

Next ==
  \/ \E t \in Tokens : Issue(t) \/ Spend(t) \/ Grant(t)
  \/ \E S \in SUBSET Tokens : MakeVoid(S)

Spec == Init /\ [][Next]_vars
=============================================================================
