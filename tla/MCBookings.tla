----------------------------- MODULE MCBookings -----------------------------
(* Bookings on small instances. *)
EXTENDS Bookings

Slot(r, f, t) == [res |-> r, from |-> f, to |-> t]

(* Two windows that overlap, one adjacent to both ends' boundary, one      *)
(* empty window that create must refuse.                                   *)
MCSlots == {Slot("r1", 1, 3), Slot("r1", 2, 4), Slot("r1", 3, 4), Slot("r1", 2, 2)}
=============================================================================
