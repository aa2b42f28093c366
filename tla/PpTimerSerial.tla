--------------------------- MODULE PpTimerSerial ---------------------------
(***************************************************************************)
(* The timer table under the discipline its callers need: calls of the API *)
(* do not overlap (the shell runs one command at a time under              *)
(* pp_shell_mutex), and none changes a slot while the handler is between   *)
(* its check and its reload of that slot, its own routine included.        *)
(* PpTimer itself has every interleaving; here the steps are restricted to *)
(* those of disciplined callers, and the table is shown to implement       *)
(* TimerService.                                                           *)
(***************************************************************************)
EXTENDS PpTimer

Busy == {a \in Actors : op[a].pc # "ready"}

(* At most one call in progress, and not on the slot the handler is at. *)
Exclusive ==
  /\ Cardinality(Busy) <= 1
  /\ \A a \in Busy : op[a].pc # "scan" => ~InWindow(op[a].slot)

(* A call that is one store (pp_timer_cancel) obeys the same rule. *)
WindowRespected ==
  \A s \in Slots : InWindow(s) /\ UNCHANGED tick => cnt'[s] = cnt[s]

SerialStep(A) == A /\ Exclusive' /\ WindowRespected

SerialNext == SerialStep(Next)

(* A call that began is finished, and the timer thread keeps running: it   *)
(* waits for nobody, so it is the callers who let it pass between calls,   *)
(* however many they make.                                                 *)
Fairness ==
  /\ SF_vars(SerialStep(TickStep))
  /\ \A a \in Actors : WF_vars(SerialStep(StepCall(a)))

SerialSpec == Init /\ [][SerialNext]_vars /\ Fairness

-----------------------------------------------------------------------------
(* The timer service this table implements.                                *)

(* A reload value of zero or less leaves the timer stopped. *)
Period(ticks) == IF ticks > 0 THEN ticks ELSE 0

(* The call is due between the decrement to zero and the routine's entry;  *)
(* from the entry on the timer already stands at its reload value.         *)
LeftBar ==
  [s \in Slots |->
     CASE tix = s /\ tpc \in {"test", "call"} /\ cnt[s] = 0 -> 1
       [] tix = s /\ tpc \in {"callback", "rearm", "reload"} -> Period(lap[s])
       [] OTHER                                               -> Period(cnt[s])]

(* settime stores the count before the reload value. *)
PeriodBar ==
  [s \in Slots |->
     IF \E a \in Actors : op[a].pc = "setLap" /\ op[a].slot = s
     THEN Period(LapTicks(op[CHOOSE a \in Actors :
                               op[a].pc = "setLap" /\ op[a].slot = s].interval))
     ELSE Period(lap[s])]

Service == INSTANCE TimerService WITH
  left <- LeftBar, period <- PeriodBar, armed <- armed, fired <- fired,
  Counts <- {ValueTicks(v) : v \in ValuesMs},
  Periods <- {Period(LapTicks(i)) : i \in IntervalsMs}

(* Disciplined callers get the service: no call early, late, twice or      *)
(* missed, and the old period never outlives a settime.                    *)
ImplementsService == Service!Spec

(* The handler never jumps through NULL and hands a routine the argument   *)
(* it was connected with (connect stores the two separately).              *)
CallsWhatWasConnected ==
  /\ tpc # "crashed"
  /\ tpc = "callback" => rtn[tix] \in Routines /\ arg[tix] = rtn[tix]

(* Between calls the free slots are exactly those no caller holds: create  *)
(* finds every deleted slot and never hands out one in use.  The marks are *)
(* numbers next to each other, so a stray decrement would turn CREATED     *)
(* into DELETED or lose a DELETED slot for good.                           *)
SlotsAccounted ==
  Busy = {} => \A s \in Slots : cnt[s] = DELETED <=> s \notin live

(* A running timer is called, unless a caller stops it or sets it anew     *)
(* first: other timers and calls on them, however many, do not keep the    *)
(* handler from it.                                                        *)
ArmedIsCalled ==
  \A s \in Slots, b \in BOOLEAN :
    cnt[s] > 0 /\ armed[s] = b ~>
      quiet[s] \/ armed[s] # b \/ (tpc = "callback" /\ tix = s)
=============================================================================
