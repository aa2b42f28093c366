----------------------------- MODULE MCPpTimer -----------------------------
(* Values for model checking PpTimer: a tick of one second, the resolution *)
(* of the Cygwin build, keeps the counts small.  1500 ms shows truncation, *)
(* 0 the clamp of the value, the interval of a one-shot timer, and -1 the  *)
(* int that an overflowing tv_sec * 1000 can leave.                        *)
EXTENDS PpTimer

MCValuesMs == {0, 2500}
MCIntervalsMs == {0, 500}
MCValuesOne == {2500}
MCIntervalsOne == {-1, 0, 2000}
=============================================================================
