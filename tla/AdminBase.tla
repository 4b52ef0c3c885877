----------------------------- MODULE AdminBase -----------------------------
(***************************************************************************)
(* What the components of the administration API share.                   *)
(***************************************************************************)
CONSTANTS
  Tenants,
  Workers    \* threads that serve requests
=============================================================================
