------------------------------- MODULE Ticks -------------------------------
(***************************************************************************)
(* Date.now() and setTimeout deal in absolute milliseconds.  Everywhere    *)
(* the modelled code compares an absolute deadline with now, these modules *)
(* keep the number of ticks left until that deadline, 0 once it has        *)
(* passed, so that no clock grows without bound.  A timer that reached 0   *)
(* may fire, and may also be late: node runs a timer at or after its due   *)
(* time, never before.                                                     *)
(***************************************************************************)
EXTENDS Naturals

Lesser(a, b) == IF a <= b THEN a ELSE b

Greater(a, b) == IF a >= b THEN a ELSE b

\* The ticks left of a deadline after one more tick has elapsed.
Elapse(left) == IF left = 0 THEN 0 ELSE left - 1
=============================================================================
