----------------------------- MODULE MCCasework -----------------------------
(* Case work on small instances. *)
EXTENDS Casework, TLC

(* Callers and people are interchangeable. *)
Sym == Permutations(Callers) \cup Permutations(People)
=============================================================================
