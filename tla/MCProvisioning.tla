--------------------------- MODULE MCProvisioning ---------------------------
(* Provisioning on small instances. *)
EXTENDS Provisioning, TLC

(* Clients, row ids and idempotency keys are interchangeable. *)
Sym == Permutations(Clients) \cup Permutations(Ids) \cup Permutations(Keys)
=============================================================================
