--------------------------- MODULE MCSessionLife ---------------------------
(* Values of the constants of SessionLife for TLC. *)
EXTENDS SessionLife

\* Two findings that together are critical.
TwoFindings == {[rule |-> "idcard", weight |-> 50], [rule |-> "bank", weight |-> 50]}

Env(m, e, f, r, u) == [mode |-> m, may |-> e, fails |-> f, restarts |-> r, until |-> u]
MixedEnvironments ==
  { Env("ztp", {"admin"}, 0, 1, 3),
    Env("ztp", {"admin", "control"}, 1, 0, 1),
    Env("idp", {"admin", "people"}, 0, 0, 2),
    Env("idp", {"admin"}, 1, 0, 2),
    Env("idp", {"admin", "people"}, 0, 1, 1),
    Env("idp", {"findings"}, 0, 0, 2),
    Env("idp", {"findings"}, 0, 1, 1),
    Env("idp", {"control"}, 1, 0, 1),
    Env("idp", {"control"}, 0, 1, 0) }
PostureOnly == { Env("idp", {"control"}, 0, 0, 1) }
=============================================================================
