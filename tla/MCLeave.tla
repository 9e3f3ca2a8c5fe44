------------------------------ MODULE MCLeave ------------------------------
(* Leave on small instances. *)
EXTENDS Leave

W(f, t, s, e) == [from |-> f, to |-> t, startDayPart |-> s, endDayPart |-> e]

(* Two days, a half day inside them, a half day after them, and dates the  *)
(* wrong way round that create must refuse.                                *)
MCWindows == {W(1, 2, "FULL", "FULL"), W(2, 2, "FULL", "AM"), W(3, 3, "PM", "PM"), W(2, 1, "FULL", "FULL")}
=============================================================================
