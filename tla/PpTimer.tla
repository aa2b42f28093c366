------------------------------ MODULE PpTimer ------------------------------
(***************************************************************************)
(* The timer table of paperplane (src/paperplane/src/pp_base/pp_thread.c). *)
(*                                                                         *)
(* One thread runs pp_timer_loop: every Resolution milliseconds it walks   *)
(* the table, counts each running slot down and calls the routine of a     *)
(* slot that reaches zero.  Other threads (Clients), and the routines      *)
(* called by the timer thread itself (the actor Tick while tpc =           *)
(* "callback"), call pp_timer_create, _connect, _settime, _cancel and      *)
(* _delete.  The C code takes no lock, so every read and write of a shared *)
(* cell is a step of its own here.                                         *)
(***************************************************************************)
EXTENDS Integers, FiniteSets

CONSTANTS
  NumTimers,    \* usable slots 1..NumTimers (PP_TIMER_NUM - 1 in the code)
  Clients,      \* threads that call the timer API
  Tick,         \* the timer thread
  Routines,     \* routines a client connects; each goes with the argument of its name
  NoRoutine,    \* the NULL routine, and the argument 0
  Resolution,   \* PP_TIMER_RESOLUTION, milliseconds per tick
  ValuesMs,     \* it_value in milliseconds, as the int sum of the code holds it
  IntervalsMs,  \* it_interval in milliseconds, likewise
  MaxCalls      \* bound: API calls in one behaviour, or 0 for no bound

ASSUME TimerAssumption ==
  /\ NumTimers \in Nat \ {0}
  /\ IsFiniteSet(Clients)
  /\ Tick \notin Clients
  /\ NoRoutine \notin Routines
  /\ Resolution \in 1..1000
  /\ ValuesMs \subseteq Int
  /\ IntervalsMs \subseteq Int
  /\ MaxCalls \in Nat

(* Slots that are not running hold one of these in the count cell. *)
MutantCanceled == 11
CANCELED  == -11
CONNECTED == -12
CREATED   == -13
DELETED   == -14
DISARMED  == -16

Slots  == 1..NumTimers
Actors == Clients \cup {Tick}

VARIABLES
  cnt,    \* pp_timer_cnt: ticks left, or a negative mark
  lap,    \* pp_timer_lap: ticks to reload after an expiry
  rtn,    \* pp_timer_rtn
  arg,    \* pp_timer_arg
  op,     \* per actor: the API call in progress and its local variables
  tpc,    \* where the timer thread is
  tix,    \* timer_ix of pp_timer_tick_handler
  treg,   \* the register that carries pp_timer_cnt[timer_ix] across statements
  live,   \* ids handed out by pp_timer_create and not passed to pp_timer_delete
  calls,  \* API calls started
  quiet,  \* history: slot stopped by a store made outside the handler's window
  armed,  \* history: flips when a settime stores the slot's count
  fired   \* history: flips at every call of the slot's routine

table == <<cnt, lap, rtn, arg>>
tick  == <<tpc, tix, treg>>
flips == <<armed, fired>>
vars  == <<cnt, lap, rtn, arg, op, tpc, tix, treg, live, calls, quiet, armed, fired>>

-----------------------------------------------------------------------------
(* Milliseconds to ticks, as pp_timer_settime computes them.               *)

(* Integer division of C rounds toward zero. *)
TruncDiv(a, b) == IF a >= 0 THEN a \div b ELSE -((-a) \div b)

ValueTicks(ms) == TruncDiv(IF ms < 1000 THEN 1000 ELSE ms, Resolution)

LapTicks(ms) ==
  CASE ms = 0               -> DISARMED
    [] 0 < ms /\ ms < 1000  -> TruncDiv(1000, Resolution)
    [] OTHER                -> TruncDiv(ms, Resolution)

-----------------------------------------------------------------------------
(* API calls.  op[a].pc is "ready" between calls, or names the next        *)
(* statement of the call in progress.                                      *)

Labels == {"ready", "connectRtn", "connectArg", "scan", "createCnt",
           "createRtn", "createArg", "deleteRtn", "deleteArg", "setCnt", "setLap"}

OpStates == [pc : Labels, slot : Slots, value : Int, interval : Int,
             routine : Routines \cup {NoRoutine}]

Ready == [pc |-> "ready", slot |-> 1, value |-> 0, interval |-> 0,
          routine |-> NoRoutine]

(* The timer thread has read slot s as running and has not yet reloaded it. *)
InWindow(s) ==
  tix = s /\ tpc \in {"load", "store", "test", "call", "callback", "rearm", "reload"}

(* An actor calls the API between its calls; the timer thread only from a  *)
(* routine.                                                                *)
CanCall(a) ==
  /\ tpc # "crashed"
  /\ op[a].pc = "ready"
  /\ a = Tick => tpc = "callback"
  /\ IF MaxCalls = 0 THEN UNCHANGED calls
     ELSE calls < MaxCalls /\ calls' = calls + 1

At(a, label) ==
  /\ tpc # "crashed"
  /\ op[a].pc = label
  /\ UNCHANGED calls

Goto(a, label) == op' = [op EXCEPT ![a].pc = label]
Return(a)      == op' = [op EXCEPT ![a] = Ready]

(* Store a negative mark in the count cell of s. *)
Mark(s, mark) ==
  /\ cnt' = [cnt EXCEPT ![s] = mark]
  /\ quiet' = [quiet EXCEPT ![s] = @ \/ ~InWindow(s)]

Cancel(a, s) ==
  /\ CanCall(a)
  /\ Mark(s, CANCELED)
  /\ UNCHANGED <<lap, rtn, arg, op, tick, live, flips>>

ConnectCnt(a, s, r) ==
  /\ CanCall(a)
  /\ Mark(s, CONNECTED)
  /\ op' = [op EXCEPT ![a] = [Ready EXCEPT !.pc = "connectRtn", !.slot = s, !.routine = r]]
  /\ UNCHANGED <<lap, rtn, arg, tick, live, flips>>

ConnectRtn(a) ==
  /\ At(a, "connectRtn")
  /\ rtn' = [rtn EXCEPT ![op[a].slot] = op[a].routine]
  /\ Goto(a, "connectArg")
  /\ UNCHANGED <<cnt, lap, arg, tick, live, quiet, flips>>

MutantConnectArg(a) ==
  /\ At(a, "connectArg")
  /\ Return(a)
  /\ UNCHANGED <<table, tick, live, quiet, flips>>

ConnectArg(a) ==
  /\ At(a, "connectArg")
  /\ arg' = [arg EXCEPT ![op[a].slot] = op[a].routine]
  /\ Return(a)
  /\ UNCHANGED <<cnt, lap, rtn, tick, live, quiet, flips>>

(* pp_timer_create looks for a DELETED slot, one read at a time. *)
CreateScanStart(a) ==
  /\ CanCall(a)
  /\ op' = [op EXCEPT ![a] = [Ready EXCEPT !.pc = "scan"]]
  /\ UNCHANGED <<table, tick, live, quiet, flips>>

CreateScan(a) ==
  /\ At(a, "scan")
  /\ LET s == op[a].slot IN
       \/ cnt[s] = DELETED /\ Goto(a, "createCnt")
       \/ cnt[s] # DELETED /\ s < NumTimers /\ op' = [op EXCEPT ![a].slot = s + 1]
       \/ cnt[s] # DELETED /\ s = NumTimers /\ Return(a)
  /\ UNCHANGED <<table, tick, live, quiet, flips>>

CreateCnt(a) ==
  /\ At(a, "createCnt")
  /\ Mark(op[a].slot, CREATED)
  /\ Goto(a, "createRtn")
  /\ UNCHANGED <<lap, rtn, arg, tick, live, flips>>

CreateRtn(a) ==
  /\ At(a, "createRtn")
  /\ rtn' = [rtn EXCEPT ![op[a].slot] = NoRoutine]
  /\ Goto(a, "createArg")
  /\ UNCHANGED <<cnt, lap, arg, tick, live, quiet, flips>>

CreateArg(a) ==
  /\ At(a, "createArg")
  /\ arg' = [arg EXCEPT ![op[a].slot] = NoRoutine]
  /\ live' = live \cup {op[a].slot}
  /\ Return(a)
  /\ UNCHANGED <<cnt, lap, rtn, tick, quiet, flips>>

DeleteCnt(a, s) ==
  /\ CanCall(a)
  /\ Mark(s, DELETED)
  /\ live' = live \ {s}
  /\ op' = [op EXCEPT ![a] = [Ready EXCEPT !.pc = "deleteRtn", !.slot = s]]
  /\ UNCHANGED <<lap, rtn, arg, tick, flips>>

DeleteRtn(a) ==
  /\ At(a, "deleteRtn")
  /\ rtn' = [rtn EXCEPT ![op[a].slot] = NoRoutine]
  /\ Goto(a, "deleteArg")
  /\ UNCHANGED <<cnt, lap, arg, tick, live, quiet, flips>>

DeleteArg(a) ==
  /\ At(a, "deleteArg")
  /\ arg' = [arg EXCEPT ![op[a].slot] = NoRoutine]
  /\ Return(a)
  /\ UNCHANGED <<cnt, lap, rtn, tick, live, quiet, flips>>

(* pp_timer_settime refuses a slot without a routine, then stores the      *)
(* count before the reload value.                                          *)
SettimeCheck(a, s, v, i) ==
  /\ CanCall(a)
  /\ op' = IF rtn[s] = NoRoutine THEN op
           ELSE [op EXCEPT ![a] = [Ready EXCEPT !.pc = "setCnt", !.slot = s,
                                                !.value = v, !.interval = i]]
  /\ UNCHANGED <<table, tick, live, quiet, flips>>

SettimeCnt(a) ==
  /\ At(a, "setCnt")
  /\ cnt' = [cnt EXCEPT ![op[a].slot] = ValueTicks(op[a].value)]
  /\ quiet' = [quiet EXCEPT ![op[a].slot] = FALSE]
  /\ armed' = [armed EXCEPT ![op[a].slot] = ~@]
  /\ Goto(a, "setLap")
  /\ UNCHANGED <<lap, rtn, arg, tick, live, fired>>

(* A bug the runs must catch: a one-shot request leaves the old period. *)
MutantSettimeLap(a) ==
  /\ At(a, "setLap")
  /\ lap' = IF LapTicks(op[a].interval) = DISARMED THEN lap
            ELSE [lap EXCEPT ![op[a].slot] = LapTicks(op[a].interval)]
  /\ Return(a)
  /\ UNCHANGED <<cnt, rtn, arg, tick, live, quiet, flips>>

SettimeLap(a) ==
  /\ At(a, "setLap")
  /\ lap' = [lap EXCEPT ![op[a].slot] = LapTicks(op[a].interval)]
  /\ Return(a)
  /\ UNCHANGED <<cnt, rtn, arg, tick, live, quiet, flips>>

-----------------------------------------------------------------------------
(* The timer thread: pp_timer_loop and pp_timer_tick_handler.              *)

TickAt(label) ==
  /\ tpc = label
  /\ UNCHANGED <<lap, rtn, arg, op, live, calls, quiet, armed>>

(* The sleep ends and a pass over the table begins. *)
TickWake ==
  /\ TickAt("sleep")
  /\ tpc' = "check" /\ tix' = 1
  /\ UNCHANGED <<cnt, treg, fired>>

(* Bugs the runs must catch: the loop bound off by one, either way. *)
MutantNextSlotShort ==
  /\ treg' = 0
  /\ IF tix < NumTimers - 1
     THEN tix' = tix + 1 /\ tpc' = "check"
     ELSE tix' = 1 /\ tpc' = "sleep"

MutantNextSlotLong ==
  /\ treg' = 0
  /\ IF tix <= NumTimers
     THEN tix' = tix + 1 /\ tpc' = "check"
     ELSE tix' = 1 /\ tpc' = "sleep"

NextSlot ==
  /\ treg' = 0
  /\ IF tix < NumTimers
     THEN tix' = tix + 1 /\ tpc' = "check"
     ELSE tix' = 1 /\ tpc' = "sleep"

(* A bug the runs must catch: only expired one-shot timers are skipped. *)
MutantTickCheck ==
  /\ TickAt("check")
  /\ IF cnt[tix] = DISARMED THEN NextSlot
     ELSE tpc' = "load" /\ treg' = cnt[tix] /\ UNCHANGED tix
  /\ UNCHANGED <<cnt, fired>>

TickCheck ==
  /\ TickAt("check")
  /\ IF cnt[tix] < 0 THEN NextSlot
     ELSE tpc' = "load" /\ treg' = cnt[tix] /\ UNCHANGED tix
  /\ UNCHANGED <<cnt, fired>>

(* The decrement: at -O2 the register still holds the value just checked,  *)
(* without optimisation the cell is read again.                            *)
TickLoad ==
  /\ TickAt("load")
  /\ tpc' = "store"
  /\ treg' \in {treg, cnt[tix]}
  /\ UNCHANGED <<cnt, tix, fired>>

TickStore ==
  /\ TickAt("store")
  /\ tpc' = "test"
  /\ treg' = treg - 1
  /\ cnt' = [cnt EXCEPT ![tix] = treg - 1]
  /\ UNCHANGED <<tix, fired>>

(* The test for zero, again on the register or on the cell. *)
TickTest ==
  /\ TickAt("test")
  /\ \E value \in {treg, cnt[tix]} :
       IF value = 0 THEN tpc' = "call" /\ UNCHANGED <<tix, treg>>
       ELSE NextSlot
  /\ UNCHANGED <<cnt, fired>>

(* A call through a NULL routine kills the process. *)
TickCall ==
  /\ TickAt("call")
  /\ IF rtn[tix] = NoRoutine
     THEN tpc' = "crashed" /\ UNCHANGED fired
     ELSE tpc' = "callback" /\ fired' = [fired EXCEPT ![tix] = ~@]
  /\ UNCHANGED <<cnt, tix, treg>>

TickCallbackReturns ==
  /\ TickAt("callback")
  /\ op[Tick].pc = "ready"
  /\ tpc' = "rearm"
  /\ UNCHANGED <<cnt, tix, treg, fired>>

(* The reload: pp_timer_lap is read, then pp_timer_cnt is stored.          *)
TickRearm ==
  /\ TickAt("rearm")
  /\ tpc' = "reload"
  /\ treg' = lap[tix]
  /\ UNCHANGED <<cnt, tix, fired>>

(* A bug the runs must catch: the reload uses the index already advanced. *)
MutantTickReload ==
  /\ TickAt("reload")
  /\ NextSlot
  /\ cnt' = [cnt EXCEPT ![tix'] = treg]
  /\ UNCHANGED fired

TickReload ==
  /\ TickAt("reload")
  /\ cnt' = [cnt EXCEPT ![tix] = treg]
  /\ NextSlot
  /\ UNCHANGED fired

-----------------------------------------------------------------------------
Init ==
  /\ cnt = [s \in Slots |-> DELETED]
  /\ lap = [s \in Slots |-> DISARMED]
  /\ rtn = [s \in Slots |-> NoRoutine]
  /\ arg = [s \in Slots |-> NoRoutine]
  /\ op = [a \in Actors |-> Ready]
  /\ tpc = "sleep" /\ tix = 1 /\ treg = 0
  /\ live = {}
  /\ calls = 0
  /\ quiet = [s \in Slots |-> TRUE]
  /\ armed = [s \in Slots |-> FALSE]
  /\ fired = [s \in Slots |-> FALSE]

BeginCall(a) ==
  \/ CreateScanStart(a)
  \/ \E s \in live :
       \/ Cancel(a, s)
       \/ DeleteCnt(a, s)
       \/ \E r \in Routines : ConnectCnt(a, s, r)
       \/ \E v \in ValuesMs, i \in IntervalsMs : SettimeCheck(a, s, v, i)

StepCall(a) ==
  \/ CreateScan(a) \/ CreateCnt(a) \/ CreateRtn(a) \/ CreateArg(a)
  \/ ConnectRtn(a) \/ ConnectArg(a)
  \/ DeleteRtn(a) \/ DeleteArg(a)
  \/ SettimeCnt(a) \/ SettimeLap(a)

TickStep ==
  \/ TickWake \/ TickCheck \/ TickLoad \/ TickStore \/ TickTest
  \/ TickCall \/ TickCallbackReturns \/ TickRearm \/ TickReload

Next ==
  \/ \E a \in Actors : BeginCall(a) \/ StepCall(a)
  \/ TickStep

Spec == Init /\ [][Next]_vars

-----------------------------------------------------------------------------
(* Every cell, local variable and history variable has a value of its kind *)
(* and timer_ix never leaves the table, whatever the interleaving.         *)
TypeOK ==
  /\ cnt \in [Slots -> Int]
  /\ lap \in [Slots -> Int]
  /\ rtn \in [Slots -> Routines \cup {NoRoutine}]
  /\ arg \in [Slots -> Routines \cup {NoRoutine}]
  /\ op \in [Actors -> OpStates]
  /\ tpc \in {"sleep", "check", "load", "store", "test", "call", "callback",
              "rearm", "reload", "crashed"}
  /\ tix \in Slots
  /\ treg \in Int
  /\ live \subseteq Slots
  /\ calls \in 0..MaxCalls
  /\ quiet \in [Slots -> BOOLEAN]
  /\ armed \in [Slots -> BOOLEAN]
  /\ fired \in [Slots -> BOOLEAN]

(* A timer stopped (created, connected, cancelled or deleted) while the    *)
(* handler is not between its check and its reload of that slot stays      *)
(* stopped until a settime stores a count: neither a decrement in flight,  *)
(* nor the reload of another slot, nor another caller revives it.          *)
QuietStays == \A s \in Slots : quiet[s] => cnt[s] < 0 /\ ~InWindow(s)

(* What QuietStays is for: the handler never calls the routine of a timer  *)
(* stopped that way.  A stop made inside the window has no such promise:   *)
(* the reload of pp_timer_cnt from pp_timer_lap overwrites it.             *)
StoppedNeverCalled ==
  [][\A s \in Slots : fired'[s] # fired[s] => ~quiet[s]]_vars
=============================================================================
