----------------------------- MODULE PulseTimers -----------------------------
(***************************************************************************)
(* What a timer service driven by a pulse promises: a timer set for m      *)
(* milliseconds is called on the pulse after m / Resolution full ones, and *)
(* again every m, rounded up to pulses, as long as its routine asks so.    *)
(***************************************************************************)
EXTENDS Integers

CONSTANTS
  Timers, Msecs, Resolution, NULL,
  Forever   \* pulses until a timer repeated every 0 milliseconds comes back

VARIABLES
  due,      \* pulses until the call, or -1
  period,   \* milliseconds it was set for
  running   \* the timer whose routine runs, or NULL

Init ==
  /\ due = [t \in Timers |-> -1]
  /\ period = [t \in Timers |-> 0]
  /\ running = NULL

Again(m) == IF m = 0 THEN Forever ELSE (m + Resolution - 1) \div Resolution

Set(t, m) ==
  /\ due[t] = -1
  /\ due' = [due EXCEPT ![t] = m \div Resolution + 1]
  /\ period' = [period EXCEPT ![t] = m]
  /\ UNCHANGED running

Cancel(t) ==
  /\ due[t] # -1
  /\ due' = [due EXCEPT ![t] = -1]
  /\ UNCHANGED <<period, running>>

(* cancel and set again. *)
Reset(t) ==
  /\ due[t] # -1
  /\ due' = [due EXCEPT ![t] = period[t] \div Resolution + 1]
  /\ UNCHANGED <<period, running>>

(* No pulse before every timer that is due was called. *)
Pulse ==
  /\ running = NULL /\ \A t \in Timers : due[t] # 0
  /\ due' = [t \in Timers |-> IF due[t] = -1 THEN -1 ELSE due[t] - 1]
  /\ UNCHANGED <<period, running>>

Call(t) ==
  /\ running = NULL /\ due[t] = 0
  /\ due' = [due EXCEPT ![t] = -1]
  /\ running' = t
  /\ UNCHANGED period

Return(t) ==
  /\ running = t
  /\ running' = NULL
  /\ \/ UNCHANGED due
     \/ due[t] = -1 /\ due' = [due EXCEPT ![t] = Again(period[t])]
  /\ UNCHANGED period

Next ==
  \/ Pulse
  \/ \E t \in Timers :
       \/ Cancel(t) \/ Reset(t) \/ Call(t) \/ Return(t)
       \/ \E m \in Msecs : Set(t, m)

Spec == Init /\ [][Next]_<<due, period, running>>
=============================================================================
