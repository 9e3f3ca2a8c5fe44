--------------------------- MODULE EventDelivery ---------------------------
(* What the transactional outbox promises for the events it accepts: none  *)
(* is settled (delivered or given up) that was not accepted, and every     *)
(* accepted one is settled in the end.                                     *)
CONSTANT Events

VARIABLES accepted, settled

vars == <<accepted, settled>>

Init == accepted = {} /\ settled = {}

Accept(e) ==
    /\ e \notin accepted
    /\ accepted' = accepted \cup {e}
    /\ UNCHANGED settled

Settle(S) ==
    /\ S # {} /\ S \subseteq accepted \ settled
    /\ settled' = settled \cup S
    /\ UNCHANGED accepted

Next == (\E e \in Events : Accept(e)) \/ (\E S \in SUBSET Events : Settle(S))

SettleSome(e) == \E S \in SUBSET Events : e \in S /\ Settle(S)

Spec == Init /\ [][Next]_vars /\ \A e \in Events : WF_vars(SettleSome(e))
=============================================================================
