------------------------- MODULE MCTenantLifecycle -------------------------
(* The tenant lifecycle on small instances. *)
EXTENDS TenantLifecycle
=============================================================================
