----------------------------- MODULE MCZtnaTerm -----------------------------
(***************************************************************************)
(* Instances of ZtnaTerm for TLC.                                          *)
(***************************************************************************)
EXTENDS ZtnaTerm, TLC

\* All credentials belong to the home tenant; certificates may not.
AllHome == [j \in Jtis |-> CHOOSE t \in Tenants : TRUE]

\* They live until the end of the run.
ExpireLast == [j \in Jtis |-> MaxTime]

JtiSymmetry == Permutations(Jtis)
=============================================================================
