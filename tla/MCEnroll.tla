------------------------------ MODULE MCEnroll ------------------------------
(* Values of the constants of Enroll for TLC. *)
EXTENDS Enroll

Env(m, ids, f, r, u) == [may |-> m, who |-> ids, fails |-> f, restarts |-> r, until |-> u]
OneDevice == {CHOOSE i \in Identities : TRUE}

\* Everybody for a short time, and one device over the life of two certificates.
MixedEnvironments ==
  { Env({"code", "revoke"}, Identities, 0, 1, 1),
    Env({"code", "idp", "revoke"}, Identities, 0, 0, 1),
    Env({"code", "idp"}, Identities, 1, 1, 0),
    Env({"idp", "config", "people"}, Identities, 0, 0, 0),
    Env({"login"}, {}, 1, 1, 3),
    Env({"login", "config", "people"}, {}, 0, 0, 2),
    Env({"code", "revoke"}, OneDevice, 3, 0, 12),
    Env({"code", "tunnel", "revoke"}, OneDevice, 1, 1, 12),
    Env({"code", "idp", "revoke"}, OneDevice, 0, 0, 8) }
=============================================================================
