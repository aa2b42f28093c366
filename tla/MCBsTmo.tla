------------------------------- MODULE MCBsTmo -------------------------------
(* A wheel of two slots turned every 2 msec, with 3-bit integers: timers    *)
(* of 0 and 5 msec go to the next slot and a turn and more ahead; repeated  *)
(* every 0 msec one comes back after 8 pulses. Three timers are a first, a  *)
(* middle and a last entry of a list. A wheel of four slots and two timers  *)
(* have timers for the slot just passed (7) and for the current one (8).    *)
EXTENDS BsTmo, TLC

TimersAreAlike == Permutations(Timers)
=============================================================================
