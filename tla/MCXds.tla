------------------------------- MODULE MCXds -------------------------------
(***************************************************************************)
(* Instances of XdsServer for TLC.                                         *)
(***************************************************************************)
EXTENDS XdsServer, TLC

\* What any client may send: a subscription by name, to several names, to a
\* name that is refused, or to nothing (an ACK or a wildcard).
AnyRequests ==
  LET t == CHOOSE x \in Tenants : TRUE
  IN  [kind : {RevKind}, names : {{}, {t, BadName}} \cup (SUBSET Tenants)]
        \cup [kind : {PolicyKind}, names : {{}, {t}}]

\* What subscribeStream sends: one tenant by name.
ClientRequests == {q \in Request : Cardinality(q.names) = 1 /\ BadName \notin q.names}

PopCert == [role |-> "pop", tenant |-> NoTenant]
RolelessCert == [role |-> "none", tenant |-> NoTenant]
DeviceCert(t) == [role |-> "device", tenant |-> t]

OnlyPops == {PopCert}
OneOfEach == {PopCert, RolelessCert, DeviceCert(CHOOSE t \in Tenants : TRUE)}

StreamSymmetry == Permutations(Streams)
=============================================================================
