----------------------------- MODULE MCWorkPlan -----------------------------
(* The plan on three items. *)
EXTENDS WorkPlan, TLC

(* A day, the next one, an end before the start, and no dates. *)
MCSpans == {<<1, 1>>, <<2, 2>>, <<2, 1>>, <<None, None>>}

(* Clients and items are interchangeable. *)
Sym == Permutations(Clients) \cup Permutations(Items)
=============================================================================
