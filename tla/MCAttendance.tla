---------------------------- MODULE MCAttendance ----------------------------
(* Attendance on small instances: times are hours. *)
EXTENDS Attendance, TLC

CONSTANTS f1, f2, d1, d2

Row(d, in, out) == [day |-> d, in |-> in, out |-> out]

(* The two files overlap on d1: f2 alone makes the person late, f1 alone   *)
(* gives the earlier end.                                                  *)
MCRows == f1 :> {Row(d1, 8, 12), Row(d2, 10, 17)} @@ f2 :> {Row(d1, 10, 13)}
MCCalendar == d1 :> "WORKING" @@ d2 :> "HOLIDAY"
MCPattern == [start |-> 8, grace |-> 1, half |-> 4]
MCWants == {[day |-> d1, status |-> "PRESENT", in |-> 8, out |-> 0]}

MCLeaves == {{d2}}
MCAssignments == {{d1}}

(* Handlers are interchangeable. *)
Sym == Permutations(Handlers)
=============================================================================
