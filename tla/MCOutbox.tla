------------------------------ MODULE MCOutbox ------------------------------
(* Outbox with deliveries that succeed at once, on the second attempt, and  *)
(* never.                                                                   *)
EXTENDS Outbox

CONSTANTS w1, w2, x1

MCWebhooks == {w1, w2}
MCChanges == {x1}
MCFailUntil == [e \in MCWebhooks \cup MCChanges |-> CASE e = w1 -> 2 [] e = w2 -> 9 [] OTHER -> 0]
=============================================================================
