----------------------------- MODULE MCTimerTurns -----------------------------
(* The two timer services of the repository in one run, for what their users *)
(* wait for: a behaviour is that of the table of paperplane with disciplined *)
(* callers, or that of the wheel of airguitar, and the other never starts.   *)
(* Values for the table are explained in MCPpTimer, for the wheel in MCBsTmo. *)
EXTENDS PpTimerSerial

CONSTANTS Timers, Shift, PulseMsec, Width, Msecs, NULL

VARIABLES part, cells, slot, entry, next, strayed, laps, msec, running, shows

wheelVars == <<cells, slot, entry, next, strayed, laps, msec, running, shows>>
turnVars == <<part, vars, wheelVars>>

Wheel == INSTANCE BsTmo WITH
  Resolution <- PulseMsec, MaxShows <- 0, lap <- laps

ASSUME TmoAssumption == Wheel!TmoAssumption

MCValuesMs == {2500}
MCIntervalsMs == {0, 2000}

TurnInit == Init /\ Wheel!Init /\ part \in {"table", "wheel"}

OnTable(A) == part = "table" /\ A /\ UNCHANGED <<part, wheelVars>>
OnWheel(A) == part = "wheel" /\ A /\ UNCHANGED <<part, vars>>

TurnNext == OnTable(SerialNext) \/ OnWheel(Wheel!Next)

(* The fairness of both, each in its own behaviours.                         *)
TurnFairness ==
  /\ SF_turnVars(OnTable(SerialStep(TickStep)))
  /\ \A a \in Actors : WF_turnVars(OnTable(SerialStep(StepCall(a))))
  /\ WF_turnVars(OnWheel(Wheel!TaskStep))

TurnSpec == TurnInit /\ [][TurnNext]_turnVars /\ TurnFairness

(* The table is a timer service for its callers and the wheel for its own:   *)
(* see ImplementsService in PpTimerSerial and BsTmo.                         *)
ImplementServices == ImplementsService /\ Wheel!ImplementsService

(* See BsTmo. *)
DueIsCalled == Wheel!DueIsCalled
===============================================================================
