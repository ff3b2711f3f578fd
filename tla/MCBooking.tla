----------------------------- MODULE MCBooking ------------------------------
EXTENDS Booking, TLC

Says(w, d, q, h, m) == [week |-> w, day |-> d, qual |-> q, hour |-> h, half |-> m]

(* Thursday.  Later today off the hour, the evening after closing, this    *)
(* Tuesday (over), Sunday at noon, the last minutes of a day, an hour that *)
(* does not exist.                                                         *)
MCToday   == 3
MCSayings ==
  {Says("relative", 0, "afternoon", 3, 1), Says("relative", 1, "evening", 11, 1),
   Says("this", 1, "morning", 9, 0), Says("next", 6, "noon", 12, 0),
   Says("relative", 1, "none", 24, 0)}

(* What the staff enter: the times that are asked for and the first hour   *)
(* of a day, so that suggestions move.                                     *)
MCStaffTimes == {3 * 48 + 30, 8 * 48 + 18, 4 * 48 + 46}
Symmetry == Permutations(Calls)
=============================================================================
