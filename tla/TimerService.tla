---------------------------- MODULE TimerService ----------------------------
(***************************************************************************)
(* What a timer table promises its callers: a timer armed for v ticks is   *)
(* called on the v-th tick after that, then every p ticks when it has a    *)
(* period, until it is stopped or armed anew.                              *)
(***************************************************************************)
EXTENDS Integers

CONSTANTS
  Slots,
  Counts,   \* counts a timer may be armed for, positive
  Periods   \* periods; 0 stands for a one-shot timer

VARIABLES
  left,    \* ticks until the call, 0 when the timer is not armed
  period,  \* ticks from one call to the next, 0 for a one-shot timer
  armed,   \* flips at every arming
  fired    \* flips at every call

vars == <<left, period, armed, fired>>

Init ==
  /\ left = [s \in Slots |-> 0]
  /\ period = [s \in Slots |-> 0]
  /\ armed = [s \in Slots |-> FALSE]
  /\ fired = [s \in Slots |-> FALSE]

Arm(s, v, p) ==
  /\ left' = [left EXCEPT ![s] = v]
  /\ period' = [period EXCEPT ![s] = p]
  /\ armed' = [armed EXCEPT ![s] = ~@]
  /\ UNCHANGED fired

Stop(s) ==
  /\ left' = [left EXCEPT ![s] = 0]
  /\ UNCHANGED <<period, armed, fired>>

(* One tick reaches timer s. *)
Elapse(s) ==
  /\ left[s] > 1
  /\ left' = [left EXCEPT ![s] = @ - 1]
  /\ UNCHANGED <<period, armed, fired>>

Expire(s) ==
  /\ left[s] = 1
  /\ fired' = [fired EXCEPT ![s] = ~@]
  /\ left' = [left EXCEPT ![s] = period[s]]
  /\ UNCHANGED <<period, armed>>

Next ==
  \E s \in Slots :
    \/ Stop(s) \/ Elapse(s) \/ Expire(s)
    \/ \E v \in Counts, p \in Periods : Arm(s, v, p)

Spec == Init /\ [][Next]_vars
=============================================================================
