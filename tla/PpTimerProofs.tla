--------------------------- MODULE PpTimerProofs ---------------------------
(***************************************************************************)
(* Proofs about PpTimer and PpTimerSerial, for any number of slots,        *)
(* threads and values.                                                     *)
(***************************************************************************)
EXTENDS PpTimerSerial, FiniteSetTheorems, TLAPS

(* Whatever a caller asks for, the ticks pp_timer_settime stores are integers.*)
LEMMA TicksAreIntegers ==
  /\ \A ms \in Int : ValueTicks(ms) \in Int
  /\ \A ms \in Int : LapTicks(ms) \in Int
<1>1. Resolution \in Nat \ {0}
  BY TimerAssumption
<1>2. ASSUME NEW x \in Int PROVE TruncDiv(x, Resolution) \in Int
  <2>1. CASE x >= 0
    <3>1. x \div Resolution \in Int
      BY <1>1
    <3>2. QED BY <3>1, <2>1 DEF TruncDiv
  <2>2. CASE ~(x >= 0)
    <3>1. (-x) \in Int /\ (-x) \div Resolution \in Int
      BY <1>1
    <3>2. QED BY <3>1, <2>2 DEF TruncDiv
  <2>3. QED BY <2>1, <2>2
<1>3. ASSUME NEW ms \in Int PROVE ValueTicks(ms) \in Int
  <2>1. (IF ms < 1000 THEN 1000 ELSE ms) \in Int
    OBVIOUS
  <2>2. QED BY <1>2, <2>1 DEF ValueTicks
<1>4. ASSUME NEW ms \in Int PROVE LapTicks(ms) \in Int
  BY <1>2 DEF LapTicks, DISARMED
<1>5. QED BY <1>3, <1>4

(* A thread between two calls has a state a call may start from.           *)
LEMMA ReadyIsOp == Ready \in OpStates
  BY TimerAssumption DEF Ready, OpStates, Labels, Slots

-----------------------------------------------------------------------------
(* Every reachable state is well typed; in particular the handler's index  *)
(* stays inside pp_timer_cnt and its companions.                           *)
THEOREM TypeCorrect == Spec => []TypeOK
<1> USE TimerAssumption
<1>1. Init => TypeOK
  BY ReadyIsOp DEF Init, TypeOK, Slots, DELETED, DISARMED
<1>2. TypeOK /\ [Next]_vars => TypeOK'
  <2> SUFFICES ASSUME TypeOK, [Next]_vars PROVE TypeOK'
    OBVIOUS
  <2> USE DEF TypeOK
  <2>1. ASSUME NEW a \in Actors, BeginCall(a) PROVE TypeOK'
    <3>0. CanCall(a) => calls' \in 0..MaxCalls
      BY DEF CanCall
    <3>1. CASE CreateScanStart(a)
      <4>1. [Ready EXCEPT !.pc = "scan"] \in OpStates
        BY ReadyIsOp DEF Ready, OpStates, Labels
      <4>2. QED BY <3>0, <3>1, <4>1 DEF CreateScanStart, table, tick, flips
    <3>2. ASSUME NEW s \in live, Cancel(a, s) PROVE TypeOK'
      BY <3>0, <3>2 DEF Cancel, Mark, CANCELED, tick, flips
    <3>3. ASSUME NEW s \in live, DeleteCnt(a, s) PROVE TypeOK'
      <4>1. [Ready EXCEPT !.pc = "deleteRtn", !.slot = s] \in OpStates
        BY ReadyIsOp DEF Ready, OpStates, Labels
      <4>2. QED BY <3>0, <3>3, <4>1 DEF DeleteCnt, Mark, DELETED, tick, flips
    <3>4. ASSUME NEW s \in live, NEW r \in Routines, ConnectCnt(a, s, r) PROVE TypeOK'
      <4>1. [Ready EXCEPT !.pc = "connectRtn", !.slot = s, !.routine = r] \in OpStates
        BY ReadyIsOp DEF Ready, OpStates, Labels
      <4>2. QED BY <3>0, <3>4, <4>1 DEF ConnectCnt, Mark, CONNECTED, tick, flips
    <3>5. ASSUME NEW s \in live, NEW v \in ValuesMs, NEW i \in IntervalsMs,
                 SettimeCheck(a, s, v, i)
          PROVE TypeOK'
      <4>1. [Ready EXCEPT !.pc = "setCnt", !.slot = s, !.value = v, !.interval = i] \in OpStates
        BY ReadyIsOp DEF Ready, OpStates, Labels
      <4>2. QED BY <3>0, <3>5, <4>1 DEF SettimeCheck, table, tick, flips
    <3>6. QED BY <2>1, <3>1, <3>2, <3>3, <3>4, <3>5 DEF BeginCall
  <2>2. ASSUME NEW a \in Actors, StepCall(a) PROVE TypeOK'
    <3>0. /\ op[a] \in OpStates
          /\ op[a].slot \in Slots /\ op[a].value \in Int /\ op[a].interval \in Int
          /\ op[a].routine \in Routines \cup {NoRoutine}
      BY DEF OpStates
    <3>a. \A l \in Labels : [op EXCEPT ![a].pc = l] \in [Actors -> OpStates]
      BY <3>0 DEF OpStates
    <3>b. [op EXCEPT ![a] = Ready] \in [Actors -> OpStates]
      BY ReadyIsOp
    <3>1. CASE CreateScan(a)
      <4>1. op[a].slot < NumTimers
              => [op EXCEPT ![a].slot = op[a].slot + 1] \in [Actors -> OpStates]
        <5>1. \A s \in Slots : [op[a] EXCEPT !.slot = s] \in OpStates
          BY <3>0 DEF OpStates
        <5>2. op[a].slot < NumTimers => op[a].slot + 1 \in Slots
          BY <3>0 DEF Slots
        <5>3. QED BY <5>1, <5>2
      <4>2. op' \in [Actors -> OpStates]
        BY <3>1, <3>a, <3>b, <4>1 DEF CreateScan, Goto, Return, Labels
      <4>3. QED BY <3>1, <4>2 DEF CreateScan, At, table, tick, flips
    <3>2. CASE CreateCnt(a)
      BY <3>0, <3>2, <3>a DEF CreateCnt, At, Goto, Mark, CREATED, Labels, tick, flips
    <3>3. CASE CreateRtn(a)
      BY <3>0, <3>3, <3>a DEF CreateRtn, At, Goto, Labels, tick, flips
    <3>4. CASE CreateArg(a)
      BY <3>0, <3>4, <3>b DEF CreateArg, At, Return, tick, flips
    <3>5. CASE ConnectRtn(a)
      BY <3>0, <3>5, <3>a DEF ConnectRtn, At, Goto, Labels, tick, flips
    <3>6. CASE ConnectArg(a)
      BY <3>0, <3>6, <3>b DEF ConnectArg, At, Return, tick, flips
    <3>7. CASE DeleteRtn(a)
      BY <3>0, <3>7, <3>a DEF DeleteRtn, At, Goto, Labels, tick, flips
    <3>8. CASE DeleteArg(a)
      BY <3>0, <3>8, <3>b DEF DeleteArg, At, Return, tick, flips
    <3>9. CASE SettimeCnt(a)
      BY <3>0, <3>9, <3>a, TicksAreIntegers DEF SettimeCnt, At, Goto, Labels, tick
    <3>10. CASE SettimeLap(a)
      BY <3>0, <3>10, <3>b, TicksAreIntegers DEF SettimeLap, At, Return, tick, flips
    <3>11. QED
      BY <2>2, <3>1, <3>2, <3>3, <3>4, <3>5, <3>6, <3>7, <3>8, <3>9, <3>10 DEF StepCall
  <2>3. CASE TickStep
    <3>0. NextSlot => tix' \in Slots /\ treg' \in Int /\ tpc' \in {"check", "sleep"}
      BY DEF NextSlot, Slots
    <3>1. CASE TickWake
      BY <3>1 DEF TickWake, TickAt, Slots
    <3>2. CASE TickCheck
      BY <3>0, <3>2 DEF TickCheck, TickAt
    <3>3. CASE TickLoad
      BY <3>3 DEF TickLoad, TickAt
    <3>4. CASE TickStore
      BY <3>4 DEF TickStore, TickAt
    <3>5. CASE TickTest
      BY <3>0, <3>5 DEF TickTest, TickAt
    <3>6. CASE TickCall
      <4>1. fired' \in [Slots -> BOOLEAN]
        <5>1. (~fired[tix]) \in BOOLEAN
          OBVIOUS
        <5>2. [fired EXCEPT ![tix] = ~fired[tix]] \in [Slots -> BOOLEAN]
          BY <5>1, Zenon
        <5>3. fired' = fired \/ fired' = [fired EXCEPT ![tix] = ~fired[tix]]
          BY <3>6, Zenon DEF TickCall
        <5>4. fired \in [Slots -> BOOLEAN]
          OBVIOUS
        <5>5. QED BY <5>2, <5>3, <5>4, Zenon
      <4>2. QED BY <3>6, <4>1 DEF TickCall, TickAt
    <3>7. CASE TickCallbackReturns
      BY <3>7 DEF TickCallbackReturns, TickAt
    <3>8. CASE TickRearm
      BY <3>8 DEF TickRearm, TickAt
    <3>9. CASE TickReload
      BY <3>0, <3>9 DEF TickReload, TickAt
    <3>10. QED
      BY <2>3, <3>1, <3>2, <3>3, <3>4, <3>5, <3>6, <3>7, <3>8, <3>9 DEF TickStep
  <2>4. CASE UNCHANGED vars
    BY <2>4 DEF vars
  <2>5. QED BY <2>1, <2>2, <2>3, <2>4 DEF Next
<1>3. QED BY <1>1, <1>2, PTL DEF Spec

-----------------------------------------------------------------------------
(* A stop made outside the handler's window holds until the next settime:  *)
(* the window is exactly where the unlocked table loses one.               *)
THEOREM StopHolds == Spec => []QuietStays
<1> USE TimerAssumption
<1>1. Init => QuietStays
  BY DEF Init, QuietStays, InWindow, DELETED
<1>2. TypeOK /\ QuietStays /\ [Next]_vars => QuietStays'
  <2> SUFFICES ASSUME TypeOK, QuietStays, [Next]_vars,
                      NEW s \in Slots, quiet'[s]
               PROVE  cnt'[s] < 0 /\ ~InWindow(s)'
    BY DEF QuietStays
  <2>0. /\ quiet[s] => cnt[s] < 0 /\ ~InWindow(s)
        /\ cnt \in [Slots -> Int] /\ quiet \in [Slots -> BOOLEAN] /\ tix \in Slots
    BY DEF QuietStays, TypeOK
  <2>1. ASSUME NEW t \in Slots, NEW mark \in Int, mark < 0,
               Mark(t, mark), UNCHANGED tick
        PROVE  cnt'[s] < 0 /\ ~InWindow(s)'
    BY <2>0, <2>1 DEF Mark, InWindow, tick
  <2>2. ASSUME UNCHANGED <<cnt, tick, quiet>>
        PROVE  cnt'[s] < 0 /\ ~InWindow(s)'
    BY <2>0, <2>2 DEF InWindow, tick
  <2>3. ASSUME NEW a \in Actors, BeginCall(a)
        PROVE  cnt'[s] < 0 /\ ~InWindow(s)'
    <3> live \subseteq Slots
      BY DEF TypeOK
    <3>1. CASE CreateScanStart(a)
      BY <2>2, <3>1 DEF CreateScanStart, table
    <3>2. ASSUME NEW t \in live, Cancel(a, t) PROVE cnt'[s] < 0 /\ ~InWindow(s)'
      BY <2>1, <3>2 DEF Cancel, CANCELED
    <3>3. ASSUME NEW t \in live, DeleteCnt(a, t) PROVE cnt'[s] < 0 /\ ~InWindow(s)'
      BY <2>1, <3>3 DEF DeleteCnt, DELETED
    <3>4. ASSUME NEW t \in live, NEW r \in Routines, ConnectCnt(a, t, r)
          PROVE  cnt'[s] < 0 /\ ~InWindow(s)'
      BY <2>1, <3>4 DEF ConnectCnt, CONNECTED
    <3>5. ASSUME NEW t \in live, NEW v \in ValuesMs, NEW i \in IntervalsMs,
                 SettimeCheck(a, t, v, i)
          PROVE  cnt'[s] < 0 /\ ~InWindow(s)'
      BY <2>2, <3>5 DEF SettimeCheck, table
    <3>6. QED BY <2>3, <3>1, <3>2, <3>3, <3>4, <3>5 DEF BeginCall
  <2>4. ASSUME NEW a \in Actors, StepCall(a)
        PROVE  cnt'[s] < 0 /\ ~InWindow(s)'
    <3>0. op[a].slot \in Slots
      BY DEF TypeOK, OpStates
    <3>1. CASE CreateScan(a)
      BY <2>2, <3>1 DEF CreateScan, table
    <3>2. CASE CreateCnt(a)
      BY <2>1, <3>0, <3>2 DEF CreateCnt, CREATED
    <3>3. CASE CreateRtn(a) \/ CreateArg(a) \/ ConnectRtn(a) \/ ConnectArg(a)
      BY <2>2, <3>3 DEF CreateRtn, CreateArg, ConnectRtn, ConnectArg
    <3>4. CASE DeleteRtn(a) \/ DeleteArg(a) \/ SettimeLap(a)
      BY <2>2, <3>4 DEF DeleteRtn, DeleteArg, SettimeLap
    <3>5. CASE SettimeCnt(a)
      BY <2>0, <3>0, <3>5 DEF SettimeCnt, InWindow, tick
    <3>6. QED BY <2>4, <3>1, <3>2, <3>3, <3>4, <3>5 DEF StepCall
  <2>5. CASE TickStep
    <3>0. quiet[s] /\ cnt[s] < 0 /\ ~InWindow(s)
      <4>1. UNCHANGED quiet
        BY <2>5 DEF TickStep, TickWake, TickCheck, TickLoad, TickStore, TickTest,
                    TickCall, TickCallbackReturns, TickRearm, TickReload, TickAt
      <4>2. QED BY <2>0, <4>1
    <3>1. NextSlot => ~InWindow(s)'
      BY DEF NextSlot, InWindow
    <3>2. CASE TickWake
      BY <3>0, <3>2 DEF TickWake, InWindow
    <3>3. CASE TickCheck
      BY <3>0, <3>1, <3>3 DEF TickCheck, InWindow
    <3>4. CASE TickLoad
      BY <3>0, <3>4 DEF TickLoad, TickAt, InWindow
    <3>5. CASE TickStore
      BY <2>0, <3>0, <3>5 DEF TickStore, TickAt, InWindow
    <3>6. CASE TickTest
      BY <3>0, <3>1, <3>6 DEF TickTest, TickAt, InWindow
    <3>7. CASE TickCall \/ TickCallbackReturns
      BY <3>0, <3>7 DEF TickCall, TickCallbackReturns, TickAt, InWindow
    <3>8. CASE TickRearm
      BY <3>0, <3>8 DEF TickRearm, TickAt, InWindow
    <3>9. CASE TickReload
      BY <2>0, <3>0, <3>1, <3>9 DEF TickReload, TickAt, InWindow
    <3>10. QED BY <2>5, <3>2, <3>3, <3>4, <3>5, <3>6, <3>7, <3>8, <3>9 DEF TickStep
  <2>6. CASE UNCHANGED vars
    BY <2>2, <2>6 DEF vars, tick
  <2>7. QED BY <2>3, <2>4, <2>5, <2>6 DEF Next
<1>3. QED BY <1>1, <1>2, TypeCorrect, PTL DEF Spec

(* The routine of a timer stopped outside the window is never called: a    *)
(* call is made inside the window, and QuietStays keeps such a timer out.  *)
THEOREM StoppedIsNeverCalled == Spec => StoppedNeverCalled
<1>1. TypeOK /\ QuietStays /\ [Next]_vars
        => [\A s \in Slots : fired'[s] # fired[s] => ~quiet[s]]_vars
  <2> SUFFICES ASSUME TypeOK, QuietStays, Next, NEW s \in Slots, fired'[s] # fired[s]
               PROVE  ~quiet[s]
    BY DEF vars
  <2>1. ASSUME NEW a \in Actors, BeginCall(a) PROVE fired' = fired
    BY <2>1 DEF BeginCall, CreateScanStart, Cancel, DeleteCnt, ConnectCnt, SettimeCheck, flips
  <2>2. ASSUME NEW a \in Actors, StepCall(a) PROVE fired' = fired
    BY <2>2 DEF StepCall, CreateScan, CreateCnt, CreateRtn, CreateArg, ConnectRtn,
                ConnectArg, DeleteRtn, DeleteArg, SettimeCnt, SettimeLap, flips
  <2>3. CASE TickStep
    <3>1. TickCall
      BY <2>3 DEF TickStep, TickWake, TickCheck, TickLoad, TickStore, TickTest,
                  TickCallbackReturns, TickRearm, TickReload
    <3>2. s = tix /\ tpc = "call"
      <4>1. tpc = "call" /\ (fired' = fired \/ fired' = [fired EXCEPT ![tix] = ~fired[tix]])
        BY <3>1, Zenon DEF TickCall, TickAt
      <4>2. fired \in [Slots -> BOOLEAN]
        BY DEF TypeOK
      <4>3. QED BY <4>1, <4>2, Zenon
    <3>3. QED BY <3>2 DEF QuietStays, InWindow
  <2>4. QED BY <2>1, <2>2, <2>3 DEF Next
<1>2. QED BY <1>1, TypeCorrect, StopHolds, PTL DEF Spec, StoppedNeverCalled

-----------------------------------------------------------------------------
(* The same table with the callers of PpTimerSerial.                       *)

Doing(a, labels) == op[a].pc \in labels

(* Where the handler is says what it will find in the slot it is at: nobody*)
(* stops or connects the timer behind its back.                            *)
AtSlot ==
  /\ tpc # "crashed"
  /\ InWindow(tix) => rtn[tix] \in Routines
  /\ tpc \in {"load", "store"} => cnt[tix] >= 0 /\ treg = cnt[tix]
  /\ tpc = "test" => cnt[tix] >= -1 /\ treg = cnt[tix]
  /\ tpc \in {"call", "callback", "rearm", "reload"} => cnt[tix] = 0
  /\ tpc = "reload" => treg = lap[tix]

(* A running timer has a routine, and the argument is that of the routine  *)
(* unless a call is between the two stores.                                *)
Connected(s) ==
  /\ cnt[s] >= 0 => rtn[s] \in Routines
  /\ arg[s] = rtn[s] \/ \E a \in Actors :
       op[a].slot = s /\ Doing(a, {"connectArg", "createArg", "deleteArg"})

(* How far a call has come with its slot.                                  *)
Underway(a) ==
  LET s == op[a].slot IN
  /\ Doing(a, {"connectRtn", "connectArg", "createRtn", "createArg", "deleteRtn", "deleteArg"})
       => cnt[s] < 0
  /\ Doing(a, {"connectRtn", "connectArg"}) => op[a].routine \in Routines
  /\ Doing(a, {"connectArg"}) => rtn[s] = op[a].routine
  /\ Doing(a, {"createArg", "deleteArg"}) => rtn[s] = NoRoutine
  /\ Doing(a, {"setCnt", "setLap"}) =>
       rtn[s] \in Routines /\ op[a].value \in ValuesMs /\ op[a].interval \in IntervalsMs

SerialInv ==
  /\ TypeOK /\ Exclusive /\ AtSlot
  /\ \A s \in Slots : Connected(s)
  /\ \A a \in Actors : Underway(a)

(* Calls do not overlap: who is in a call is alone.                        *)
LEMMA OneIsBusy ==
  ASSUME NEW o, Cardinality({a \in Actors : o[a].pc # "ready"}) <= 1
  PROVE  \A a, b \in Actors : o[a].pc # "ready" /\ o[b].pc # "ready" => a = b
<1> DEFINE B == {a \in Actors : o[a].pc # "ready"}
<1>1. IsFiniteSet(Actors)
  BY TimerAssumption, FS_AddElement DEF Actors
<1>2. IsFiniteSet(B)
  BY <1>1, FS_Subset
<1>3. ASSUME NEW a \in B, NEW b \in B PROVE a = b
  <2>1. Cardinality(B) \in Nat /\ Cardinality(B) <= 1 /\ B # {}
    BY <1>2, FS_CardinalityType
  <2>2. Cardinality(B) = 1
    BY <1>2, <2>1, FS_EmptySet
  <2> QED BY <1>2, <2>2, FS_Singleton
<1> QED BY <1>3

(* The count of a settime starts the timer, however short the request.     *)
LEMMA ValueStarts ==
  ASSUME NEW ms \in Int
  PROVE  ValueTicks(ms) \in Int /\ ValueTicks(ms) > 0
<1> DEFINE v == IF ms < 1000 THEN 1000 ELSE ms
<1>1. Resolution \in Nat /\ Resolution > 0 /\ v \in Int /\ v >= Resolution
  BY TimerAssumption
<1>2. v \div Resolution \in Int /\ v \div Resolution >= 1
  <2> HIDE DEF v
  <2>1. v \div Resolution \in Int /\ v < (v \div Resolution + 1) * Resolution
    BY <1>1
  <2> DEFINE q == v \div Resolution
  <2>2. ~(q <= 0)
    <3> SUFFICES ASSUME q <= 0 PROVE FALSE
      OBVIOUS
    <3>1. (q + 1) * Resolution <= Resolution
      <4> HIDE DEF q
      <4>1. q \in Int /\ q + 1 <= 1
        BY <2>1 DEF q
      <4> QED BY <1>1, <4>1
    <3> QED BY <1>1, <2>1, <3>1
  <2> QED BY <2>1, <2>2
<1> QED BY <1>1, <1>2 DEF ValueTicks, TruncDiv

(* What Exclusive says of a state: the call under way is not at the slot   *)
(* the handler is at when it may store to it.                              *)
LEMMA ExclusiveMeans ==
  ASSUME Exclusive
  PROVE  /\ \A a, b \in Actors : op[a].pc # "ready" /\ op[b].pc # "ready" => a = b
         /\ \A a \in Actors : ~Doing(a, {"ready", "scan"}) => ~InWindow(op[a].slot)
<1>1. \A a, b \in Actors : op[a].pc # "ready" /\ op[b].pc # "ready" => a = b
  BY OneIsBusy DEF Exclusive, Busy
<1> QED BY <1>1 DEF Exclusive, Busy, Doing

(* A step of a caller leaves what the handler relies on.                   *)
LEMMA CallerLeavesSlot ==
  ASSUME SerialInv, UNCHANGED tick, WindowRespected, NEW a \in Actors,
         \/ rtn' = rtn
         \/ /\ ~Doing(a, {"ready", "scan"})
            /\ \E r : rtn' = [rtn EXCEPT ![op[a].slot] = r],
         \/ lap' = lap
         \/ /\ ~Doing(a, {"ready", "scan"})
            /\ \E p : lap' = [lap EXCEPT ![op[a].slot] = p]
  PROVE  AtSlot'
<1>1. TypeOK /\ AtSlot /\ tix \in Slots /\ op[a].slot \in Slots
  BY DEF SerialInv, TypeOK, OpStates
<1>2. CASE InWindow(tix)
  <2>1. cnt'[tix] = cnt[tix]
    BY <1>1, <1>2 DEF WindowRespected
  <2>2. rtn'[tix] = rtn[tix]
    BY <1>1, <1>2, ExclusiveMeans DEF SerialInv, TypeOK
  <2>3. lap'[tix] = lap[tix]
    BY <1>1, <1>2, ExclusiveMeans DEF SerialInv, TypeOK
  <2> QED BY <1>1, <1>2, <2>1, <2>2, <2>3 DEF AtSlot, InWindow, tick
<1>3. CASE ~InWindow(tix)
  BY <1>1, <1>3 DEF AtSlot, InWindow, tick
<1> QED BY <1>2, <1>3

(* Nobody else is in a call, so only the caller's own part of an invariant *)
(* is left to show when a call begins or goes on.                          *)
LEMMA OthersAreIdle ==
  ASSUME Exclusive, Exclusive', NEW a \in Actors,
         \A b \in Actors : b # a => op'[b] = op[b],
         op[a].pc # "ready" \/ op'[a].pc # "ready"
  PROVE  \A b \in Actors : b # a => op'[b].pc = "ready"
<1>1. \A b, c \in Actors : op[b].pc # "ready" /\ op[c].pc # "ready" => b = c
  BY OneIsBusy DEF Exclusive, Busy
<1>2. \A b, c \in Actors : op'[b].pc # "ready" /\ op'[c].pc # "ready" => b = c
  BY OneIsBusy DEF Exclusive, Busy
<1> QED BY <1>1, <1>2

(* A step of a caller that leaves routines and arguments, and starts no    *)
(* timer, leaves every running timer connected.                            *)
LEMMA ConnectedStays ==
  ASSUME TypeOK, TypeOK', NEW s \in Slots, Connected(s), NEW a \in Actors,
         UNCHANGED <<rtn, arg>>, cnt'[s] = cnt[s] \/ cnt'[s] < 0,
         \A b \in Actors : b # a => op'[b] = op[b],
         ~Doing(a, {"connectArg", "createArg", "deleteArg"}) \/ op'[a] = op[a]
  PROVE  Connected(s)'
<1>1. cnt'[s] >= 0 => rtn'[s] \in Routines
  BY DEF Connected, TypeOK
<1>2. ASSUME arg[s] # rtn[s]
      PROVE  \E b \in Actors :
               op'[b].slot = s /\ op'[b].pc \in {"connectArg", "createArg", "deleteArg"}
  <2>1. PICK b \in Actors :
               op[b].slot = s /\ op[b].pc \in {"connectArg", "createArg", "deleteArg"}
    BY <1>2 DEF Connected, Doing
  <2>2. op'[b] = op[b]
    BY <2>1 DEF Doing
  <2> QED BY <2>1, <2>2
<1> QED BY <1>1, <1>2 DEF Connected, Doing

(* The beginning of a call.                                                *)
LEMMA BeginKeeps ==
  ASSUME SerialInv, TypeOK', Exclusive', WindowRespected, NEW a \in Actors, BeginCall(a)
  PROVE  SerialInv'
<1> USE DEF SerialInv
<1>0. /\ op[a].pc = "ready" /\ UNCHANGED tick /\ UNCHANGED <<rtn, arg, lap>>
      /\ \A b \in Actors : b # a => op'[b] = op[b]
  BY DEF BeginCall, CreateScanStart, Cancel, DeleteCnt, ConnectCnt, SettimeCheck, CanCall,
         table, TypeOK
<1>1. AtSlot'
  BY <1>0, CallerLeavesSlot
<1>2. live \subseteq Slots /\ cnt \in [Slots -> Int] /\ op \in [Actors -> OpStates]
  BY DEF TypeOK
<1>3. ASSUME NEW s \in Slots PROVE cnt'[s] = cnt[s] \/ cnt'[s] < 0
  <2>1. ASSUME NEW t \in Slots, NEW mark \in Int, mark < 0, Mark(t, mark)
        PROVE  cnt'[s] = cnt[s] \/ cnt'[s] < 0
    BY <1>2, <2>1 DEF Mark
  <2>2. CASE CreateScanStart(a)
    BY <2>2 DEF CreateScanStart, table
  <2>3. ASSUME NEW t \in live, Cancel(a, t) PROVE \E m \in Int : m < 0 /\ Mark(t, m)
    BY <2>3 DEF Cancel, CANCELED
  <2>4. ASSUME NEW t \in live, DeleteCnt(a, t) PROVE \E m \in Int : m < 0 /\ Mark(t, m)
    BY <2>4 DEF DeleteCnt, DELETED
  <2>5. ASSUME NEW t \in live, NEW r \in Routines, ConnectCnt(a, t, r)
        PROVE  \E m \in Int : m < 0 /\ Mark(t, m)
    BY <2>5 DEF ConnectCnt, CONNECTED
  <2>6. ASSUME NEW t \in live, NEW v \in ValuesMs, NEW i \in IntervalsMs,
               SettimeCheck(a, t, v, i)
        PROVE  UNCHANGED cnt
    BY <2>6 DEF SettimeCheck, table
  <2> QED BY <1>2, <2>1, <2>2, <2>3, <2>4, <2>5, <2>6 DEF BeginCall
<1>4. \A s \in Slots : Connected(s)'
  BY <1>0, <1>3, ConnectedStays DEF Doing
<1>5. CASE op' = op
  <2>1. ASSUME NEW b \in Actors PROVE Underway(b)'
    <3>1. op[b].slot \in Slots
      BY <1>2 DEF OpStates
    <3> QED BY <1>0, <1>3, <1>5, <3>1 DEF Underway, Doing
  <2> QED BY <1>1, <1>4, <2>1
<1>6. CASE op'[a].pc # "ready"
  <2>1. \A b \in Actors : b # a => Underway(b)'
    BY <1>0, <1>6, OthersAreIdle DEF Underway, Doing
  <2>2. Underway(a)'
    <3>1. CASE CreateScanStart(a)
      BY <1>2, <3>1 DEF CreateScanStart, Underway, Doing, Ready
    <3>2. ASSUME NEW s \in live, DeleteCnt(a, s) PROVE Underway(a)'
      BY <1>2, <3>2 DEF DeleteCnt, Mark, DELETED, Underway, Doing, Ready
    <3>3. ASSUME NEW s \in live, NEW r \in Routines, ConnectCnt(a, s, r) PROVE Underway(a)'
      BY <1>2, <3>3 DEF ConnectCnt, Mark, CONNECTED, Underway, Doing, Ready
    <3>4. ASSUME NEW s \in live, NEW v \in ValuesMs, NEW i \in IntervalsMs,
                 SettimeCheck(a, s, v, i)
          PROVE  Underway(a)'
      <4>1. /\ op'[a] = [Ready EXCEPT !.pc = "setCnt", !.slot = s, !.value = v, !.interval = i]
            /\ rtn[s] # NoRoutine
        BY <1>0, <1>2, <1>6, <3>4 DEF SettimeCheck
      <4>2. rtn'[s] \in Routines
        BY <1>0, <1>2, <4>1 DEF TypeOK
      <4> QED BY <4>1, <4>2 DEF Underway, Doing, Ready
    <3>5. ASSUME NEW s \in live, Cancel(a, s) PROVE Underway(a)'
      BY <1>0, <1>6, <3>5 DEF Cancel
    <3> QED BY <3>1, <3>2, <3>3, <3>4, <3>5 DEF BeginCall
  <2> QED BY <1>1, <1>4, <2>1, <2>2
<1>7. op' = op \/ op'[a].pc # "ready"
  <2>1. CASE CreateScanStart(a)
    BY <1>2, <2>1 DEF CreateScanStart, Ready
  <2>2. ASSUME NEW s \in live, DeleteCnt(a, s) PROVE op'[a].pc # "ready"
    BY <1>2, <2>2 DEF DeleteCnt, Ready
  <2>3. ASSUME NEW s \in live, NEW r \in Routines, ConnectCnt(a, s, r)
        PROVE  op'[a].pc # "ready"
    BY <1>2, <2>3 DEF ConnectCnt, Ready
  <2>4. ASSUME NEW s \in live, NEW v \in ValuesMs, NEW i \in IntervalsMs,
               SettimeCheck(a, s, v, i), op' # op
        PROVE  op'[a].pc # "ready"
    BY <1>2, <2>4 DEF SettimeCheck, Ready
  <2>5. ASSUME NEW s \in live, Cancel(a, s) PROVE op' = op
    BY <2>5 DEF Cancel
  <2> QED BY <2>1, <2>2, <2>3, <2>4, <2>5 DEF BeginCall
<1> QED BY <1>5, <1>6, <1>7

(* The next store of a call under way.                                     *)
LEMMA StepKeeps ==
  ASSUME SerialInv, TypeOK', Exclusive', WindowRespected, NEW a \in Actors, StepCall(a)
  PROVE  SerialInv'
<1> USE DEF SerialInv
<1>s. PICK slot \in Slots : slot = op[a].slot
  BY DEF TypeOK, OpStates
<1>0. /\ op[a].pc # "ready" /\ UNCHANGED tick
      /\ \A b \in Actors : b # a => op'[b] = op[b]
  BY DEF StepCall, CreateScan, CreateCnt, CreateRtn, CreateArg, ConnectRtn, ConnectArg,
         DeleteRtn, DeleteArg, SettimeCnt, SettimeLap, At, Goto, Return, TypeOK
<1>1. /\ cnt \in [Slots -> Int] /\ op \in [Actors -> OpStates]
      /\ rtn \in [Slots -> Routines \cup {NoRoutine}]
      /\ arg \in [Slots -> Routines \cup {NoRoutine}]
      /\ slot = op[a].slot /\ op[a].value \in Int /\ op[a] \in OpStates
  BY <1>s DEF TypeOK, OpStates
<1>2. AtSlot'
  <2>1. \/ rtn' = rtn
        \/ /\ ~Doing(a, {"ready", "scan"})
           /\ \E r : rtn' = [rtn EXCEPT ![slot] = r]
    BY <1>1 DEF StepCall, CreateScan, CreateCnt, CreateRtn, CreateArg, ConnectRtn, ConnectArg,
           DeleteRtn, DeleteArg, SettimeCnt, SettimeLap, At, Doing, table
  <2>2. \/ lap' = lap
        \/ /\ ~Doing(a, {"ready", "scan"})
           /\ \E p : lap' = [lap EXCEPT ![slot] = p]
    BY <1>1 DEF StepCall, CreateScan, CreateCnt, CreateRtn, CreateArg, ConnectRtn, ConnectArg,
           DeleteRtn, DeleteArg, SettimeCnt, SettimeLap, At, Doing, table
  <2> QED BY <1>0, <1>1, <2>1, <2>2, CallerLeavesSlot
<1>3. \A b \in Actors : b # a => Underway(b)'
  BY <1>0, OthersAreIdle DEF Underway, Doing
<1>4. ASSUME NEW s \in Slots,
             Connected(s), s # slot \/ ~Doing(a, {"connectArg", "createArg", "deleteArg"})
      PROVE  arg[s] = rtn[s]
  BY <1>0, <1>1, <1>4, ExclusiveMeans DEF Connected, Doing
<1>5. ASSUME NEW s \in Slots, s # slot PROVE Connected(s)'
  <2>1. cnt'[s] = cnt[s] /\ rtn'[s] = rtn[s] /\ arg'[s] = arg[s]
    BY <1>1, <1>5 DEF StepCall, CreateScan, CreateCnt, CreateRtn, CreateArg, ConnectRtn,
           ConnectArg, DeleteRtn, DeleteArg, SettimeCnt, SettimeLap, Mark, table
  <2> QED BY <1>4, <1>5, <2>1 DEF Connected
<1>6. ASSUME Connected(slot)', Underway(a)' PROVE SerialInv'
  BY <1>2, <1>3, <1>5, <1>6
<1>a. ASSUME NEW label, Goto(a, label)
      PROVE  /\ op'[a] = [op[a] EXCEPT !.pc = label]
             /\ op'[a].pc = label /\ op'[a].slot = slot /\ op'[a].routine = op[a].routine
             /\ op'[a].value = op[a].value /\ op'[a].interval = op[a].interval
  BY <1>1, <1>a DEF Goto, OpStates
<1>b. Return(a) => op'[a].pc = "ready"
  BY <1>1 DEF Return, Ready
<1>c. Connected(slot) /\ Underway(a)
  BY <1>1
<1>7. CASE CreateScan(a)
  <2>1. op'[a].pc \in {"createCnt", "scan", "ready"} /\ UNCHANGED table /\ op[a].pc = "scan"
    BY <1>1, <1>7 DEF CreateScan, Goto, Return, Ready, At, OpStates
  <2>2. arg[slot] = rtn[slot]
    BY <1>1, <1>4, <1>c, <2>1 DEF Doing
  <2>3. Connected(slot)'
    BY <1>c, <2>1, <2>2 DEF Connected, table
  <2> QED BY <1>6, <2>1, <2>3 DEF Underway, Doing
<1>8. CASE CreateCnt(a)
  <2>1. /\ op'[a].pc = "createRtn" /\ op'[a].slot = slot /\ op[a].pc = "createCnt"
        /\ UNCHANGED <<rtn, arg>> /\ cnt'[slot] = CREATED
    BY <1>1, <1>8, <1>a DEF CreateCnt, At, Mark
  <2>2. arg[slot] = rtn[slot]
    BY <1>1, <1>4, <1>c, <2>1 DEF Doing
  <2> QED BY <1>6, <2>1, <2>2 DEF Connected, Underway, Doing, CREATED
<1>9. CASE CreateRtn(a)
  <2>1. /\ op'[a].pc = "createArg" /\ op'[a].slot = slot /\ op[a].pc = "createRtn"
        /\ cnt' = cnt /\ rtn'[slot] = NoRoutine /\ cnt[slot] < 0
    BY <1>1, <1>9, <1>a, <1>c DEF CreateRtn, At, Underway, Doing
  <2> QED BY <1>1, <1>6, <2>1 DEF Connected, Underway, Doing
<1>10. CASE CreateArg(a)
  <2>1. /\ op'[a].pc = "ready" /\ op[a].pc = "createArg" /\ UNCHANGED <<cnt, rtn>>
        /\ arg'[slot] = NoRoutine /\ rtn[slot] = NoRoutine
    BY <1>1, <1>10, <1>b, <1>c DEF CreateArg, At, Underway, Doing
  <2> QED BY <1>1, <1>6, <1>c, <2>1 DEF Connected, Underway, Doing
<1>11. CASE ConnectRtn(a)
  <2>1. /\ op'[a].pc = "connectArg" /\ op'[a].slot = slot /\ op'[a].routine = op[a].routine
        /\ op[a].routine \in Routines /\ op[a].pc = "connectRtn"
        /\ cnt' = cnt /\ rtn'[slot] = op[a].routine /\ cnt[slot] < 0
    BY <1>1, <1>11, <1>a, <1>c DEF ConnectRtn, At, Underway, Doing
  <2> QED BY <1>1, <1>6, <2>1 DEF Connected, Underway, Doing
<1>12. CASE ConnectArg(a)
  <2>1. /\ op'[a].pc = "ready" /\ op[a].pc = "connectArg" /\ UNCHANGED <<cnt, rtn>>
        /\ arg'[slot] = op[a].routine /\ rtn[slot] = op[a].routine
    BY <1>1, <1>12, <1>b, <1>c DEF ConnectArg, At, Underway, Doing
  <2> QED BY <1>1, <1>6, <1>c, <2>1 DEF Connected, Underway, Doing
<1>13. CASE DeleteRtn(a)
  <2>1. /\ op'[a].pc = "deleteArg" /\ op'[a].slot = slot /\ op[a].pc = "deleteRtn"
        /\ cnt' = cnt /\ rtn'[slot] = NoRoutine /\ cnt[slot] < 0
    BY <1>1, <1>13, <1>a, <1>c DEF DeleteRtn, At, Underway, Doing
  <2> QED BY <1>1, <1>6, <2>1 DEF Connected, Underway, Doing
<1>14. CASE DeleteArg(a)
  <2>1. /\ op'[a].pc = "ready" /\ op[a].pc = "deleteArg" /\ UNCHANGED <<cnt, rtn>>
        /\ arg'[slot] = NoRoutine /\ rtn[slot] = NoRoutine
    BY <1>1, <1>14, <1>b, <1>c DEF DeleteArg, At, Underway, Doing
  <2> QED BY <1>1, <1>6, <1>c, <2>1 DEF Connected, Underway, Doing
<1>15. CASE SettimeCnt(a)
  <2>1. /\ op'[a].pc = "setLap" /\ op'[a].slot = slot /\ op[a].pc = "setCnt"
        /\ op'[a].value = op[a].value /\ op'[a].interval = op[a].interval
        /\ UNCHANGED <<rtn, arg>> /\ rtn[slot] \in Routines
        /\ op[a].value \in ValuesMs /\ op[a].interval \in IntervalsMs
    BY <1>1, <1>15, <1>a, <1>c DEF SettimeCnt, At, Underway, Doing
  <2>2. arg[slot] = rtn[slot]
    BY <1>1, <1>4, <1>c, <2>1 DEF Doing
  <2> QED BY <1>6, <2>1, <2>2 DEF Connected, Underway, Doing
<1>16. CASE SettimeLap(a)
  <2>1. op'[a].pc = "ready" /\ op[a].pc = "setLap" /\ UNCHANGED <<cnt, rtn, arg>>
    BY <1>1, <1>16, <1>b DEF SettimeLap, At
  <2>2. arg[slot] = rtn[slot]
    BY <1>1, <1>4, <1>c, <2>1 DEF Doing
  <2> QED BY <1>6, <1>c, <2>1, <2>2 DEF Connected, Underway, Doing
<1> QED
  BY <1>7, <1>8, <1>9, <1>10, <1>11, <1>12, <1>13, <1>14, <1>15, <1>16 DEF StepCall

(* A step of the timer thread: it counts down the slot it is at, which no  *)
(* call is at, and calls the routine it finds there.                       *)
LEMMA TickKeeps ==
  ASSUME SerialInv, TypeOK', Exclusive', TickStep
  PROVE  SerialInv'
<1> USE DEF SerialInv
<1>1. /\ UNCHANGED <<lap, rtn, arg, op>>
      /\ tix \in Slots /\ cnt \in [Slots -> Int] /\ treg \in Int
      /\ \A s \in Slots : s # tix => cnt'[s] = cnt[s]
  BY DEF TickStep, TickWake, TickCheck, TickLoad, TickStore, TickTest, TickCall,
         TickCallbackReturns, TickRearm, TickReload, TickAt, TypeOK
<1>2. cnt'[tix] # cnt[tix] => (InWindow(tix) /\ InWindow(tix)') \/ tpc = "reload"
  BY <1>1 DEF TickStep, TickWake, TickCheck, TickLoad, TickStore, TickTest, TickCall,
         TickCallbackReturns, TickRearm, TickReload, TickAt, InWindow, NextSlot
<1>3. \A s \in Slots : Connected(s)'
  <2> SUFFICES ASSUME NEW s \in Slots PROVE Connected(s)'
    OBVIOUS
  <2>1. cnt'[s] = cnt[s] \/ rtn[s] \in Routines
    BY <1>1, <1>2 DEF AtSlot, InWindow
  <2> QED BY <1>1, <2>1 DEF Connected, Doing
<1>4. ASSUME NEW a \in Actors PROVE Underway(a)'
  <2>1. op[a].slot \in Slots
    BY DEF TypeOK, OpStates
  <2>2. ~Doing(a, {"ready", "scan"}) => cnt'[op[a].slot] = cnt[op[a].slot]
    BY <1>1, <1>2, <2>1, ExclusiveMeans DEF InWindow
  <2> QED BY <1>1, <2>1, <2>2 DEF Underway, Doing
<1>5. AtSlot'
  <2>1. CASE TickWake
    BY <2>1 DEF TickWake, AtSlot, InWindow
  <2>2. CASE TickCheck
    BY <1>1, <2>2 DEF TickCheck, TickAt, NextSlot, AtSlot, InWindow, Connected
  <2>3. CASE TickLoad
    BY <1>1, <2>3 DEF TickLoad, TickAt, AtSlot, InWindow
  <2>4. CASE TickStore
    BY <1>1, <2>4 DEF TickStore, TickAt, AtSlot, InWindow
  <2>5. CASE TickTest
    BY <1>1, <2>5 DEF TickTest, TickAt, NextSlot, AtSlot, InWindow
  <2>6. CASE TickCall
    <3>1. rtn[tix] # NoRoutine
      BY <2>6, TimerAssumption DEF TickCall, TickAt, AtSlot, InWindow
    <3> QED BY <1>1, <2>6, <3>1 DEF TickCall, TickAt, AtSlot, InWindow
  <2>7. CASE TickCallbackReturns
    BY <1>1, <2>7 DEF TickCallbackReturns, TickAt, AtSlot, InWindow
  <2>8. CASE TickRearm
    BY <1>1, <2>8 DEF TickRearm, TickAt, AtSlot, InWindow
  <2>9. CASE TickReload
    BY <1>1, <2>9 DEF TickReload, TickAt, NextSlot, AtSlot, InWindow
  <2> QED BY <2>1, <2>2, <2>3, <2>4, <2>5, <2>6, <2>7, <2>8, <2>9 DEF TickStep
<1> QED BY <1>3, <1>4, <1>5

(* The invariant of disciplined callers: every state they reach has it.    *)
THEOREM SerialInvariant == SerialSpec => []SerialInv
<1>1. Init => SerialInv
  <2> SUFFICES ASSUME Init PROVE SerialInv
    OBVIOUS
  <2>1. TypeOK
    BY TimerAssumption, ReadyIsOp DEF Init, TypeOK, Slots, DELETED, DISARMED
  <2>2. \A a \in Actors : op[a].pc = "ready"
    BY DEF Init, Ready
  <2>3. Exclusive
    <3>1. Busy = {}
      BY <2>2 DEF Busy
    <3> QED BY <3>1, FS_EmptySet DEF Exclusive
  <2>4. AtSlot
    BY DEF Init, AtSlot, InWindow
  <2>5. \A s \in Slots : Connected(s)
    BY DEF Init, Connected, DELETED
  <2>6. \A a \in Actors : Underway(a)
    BY <2>2 DEF Underway, Doing
  <2> QED BY <2>1, <2>3, <2>4, <2>5, <2>6 DEF SerialInv
<1>2. SerialInv /\ TypeOK' /\ [SerialNext]_vars => SerialInv'
  <2> SUFFICES ASSUME SerialInv, TypeOK', [SerialNext]_vars PROVE SerialInv'
    OBVIOUS
  <2>1. CASE SerialNext
    <3>1. Exclusive' /\ WindowRespected /\ Next
      BY <2>1 DEF SerialNext, SerialStep
    <3>2. ASSUME NEW a \in Actors, BeginCall(a) PROVE SerialInv'
      BY <3>1, <3>2, BeginKeeps
    <3>3. ASSUME NEW a \in Actors, StepCall(a) PROVE SerialInv'
      BY <3>1, <3>3, StepKeeps
    <3>4. CASE TickStep
      BY <3>1, <3>4, TickKeeps
    <3> QED BY <3>1, <3>2, <3>3, <3>4 DEF Next
  <2>2. CASE UNCHANGED vars
    BY <2>2 DEF vars, SerialInv, Exclusive, Busy, AtSlot, Connected, Underway, Doing, InWindow
  <2> QED BY <2>1, <2>2
<1>3. [SerialNext]_vars => [Next]_vars
  BY DEF SerialNext, SerialStep
<1> QED BY <1>1, <1>2, <1>3, TypeCorrect, PTL DEF Spec, SerialSpec

(* A timer that fires has a routine, and the routine gets the argument it  *)
(* was connected with: connect makes the slot stop before it stores the    *)
(* two, and the handler calls no slot a call is at.                        *)
THEOREM CallsConnected == SerialSpec => []CallsWhatWasConnected
<1>1. SerialInv => CallsWhatWasConnected
  <2> SUFFICES ASSUME SerialInv PROVE CallsWhatWasConnected
    OBVIOUS
  <2>1. tpc # "crashed"
    BY DEF SerialInv, AtSlot
  <2>2. ASSUME tpc = "callback" PROVE rtn[tix] \in Routines /\ arg[tix] = rtn[tix]
    <3>1. tix \in Slots /\ InWindow(tix) /\ rtn[tix] \in Routines
      BY <2>2 DEF SerialInv, TypeOK, AtSlot, InWindow
    <3>2. \A a \in Actors : op[a].slot = tix => Doing(a, {"ready", "scan"})
      BY <3>1, ExclusiveMeans DEF SerialInv
    <3> QED BY <3>1, <3>2 DEF SerialInv, Connected, Doing
  <2> QED BY <2>1, <2>2 DEF CallsWhatWasConnected
<1> QED BY <1>1, SerialInvariant, PTL

-----------------------------------------------------------------------------
(* Free slots and held slots.                                              *)

(* A slot is free or held, unless a create is about to hand it out.        *)
Held(s) ==
  /\ lap[s] # DELETED
  /\ s \in live => cnt[s] # DELETED
  /\ s \notin live =>
       \/ cnt[s] = DELETED
       \/ \E a \in Actors : op[a].slot = s /\ Doing(a, {"createRtn", "createArg"})

(* What a call under way knows of its slot.                                *)
Claim(a) ==
  LET s == op[a].slot IN
  /\ Doing(a, {"createCnt"}) => cnt[s] = DELETED
  /\ Doing(a, {"createRtn", "createArg"}) => cnt[s] = CREATED /\ s \notin live
  /\ Doing(a, {"connectRtn", "connectArg", "setCnt", "setLap"}) => s \in live

SlotInv ==
  /\ \A s \in Slots : Held(s)
  /\ \A a \in Actors : Claim(a)

(* The beginning of a call keeps the account of the slots.                 *)
LEMMA BeginKeepsSlots ==
  ASSUME SerialInv, TypeOK', Exclusive', WindowRespected, SlotInv,
         NEW a \in Actors, BeginCall(a)
  PROVE  SlotInv'
<1>0. /\ op[a].pc = "ready" /\ UNCHANGED <<lap, tick>>
      /\ \A b \in Actors : b # a => op'[b] = op[b]
      /\ Exclusive
  BY DEF BeginCall, CreateScanStart, Cancel, DeleteCnt, ConnectCnt, SettimeCheck, CanCall,
         table, SerialInv, TypeOK
<1>1. /\ live \subseteq Slots /\ cnt \in [Slots -> Int] /\ op \in [Actors -> OpStates]
      /\ \A b \in Actors : op[b].slot \in Slots
  BY DEF SerialInv, TypeOK, OpStates
<1>2. \A s \in Slots : Held(s)
  BY DEF SlotInv
<1>3. \A b \in Actors : Claim(b)
  BY DEF SlotInv
<1>4. ASSUME op'[a].pc # "ready"
      PROVE  /\ \A b \in Actors : op[b].pc = "ready"
             /\ \A b \in Actors : b # a => Claim(b)'
  BY <1>0, <1>4, OthersAreIdle, SerialInv DEF Claim, Doing
<1>5. CASE CreateScanStart(a)
  <2>1. op'[a].pc = "scan" /\ UNCHANGED <<cnt, live>>
    BY <1>1, <1>5 DEF CreateScanStart, table, Ready
  <2>2. ASSUME NEW s \in Slots PROVE Held(s)'
    BY <1>0, <1>2, <1>4, <2>1 DEF Held, Doing
  <2>3. Claim(a)'
    BY <2>1 DEF Claim, Doing
  <2> QED BY <1>4, <2>1, <2>2, <2>3 DEF SlotInv
<1>6. ASSUME NEW t \in live, Cancel(a, t) PROVE SlotInv'
  <2>1. /\ UNCHANGED <<op, live>> /\ cnt'[t] = CANCELED
        /\ \A s \in Slots : s # t => cnt'[s] = cnt[s]
    BY <1>1, <1>6 DEF Cancel, Mark
  <2>2. ASSUME NEW s \in Slots PROVE Held(s)'
    BY <1>0, <1>2, <2>1 DEF Held, Doing, CANCELED, DELETED
  <2>3. ASSUME NEW b \in Actors PROVE Claim(b)'
    <3>1. Doing(b, {"createCnt"}) => op[b].slot # t
      BY <1>1, <1>2, <1>3 DEF Claim, Held
    <3> QED BY <1>1, <1>3, <2>1, <3>1 DEF Claim, Doing
  <2> QED BY <2>2, <2>3 DEF SlotInv
<1>7. ASSUME NEW t \in live, DeleteCnt(a, t) PROVE SlotInv'
  <2>1. /\ op'[a].pc = "deleteRtn" /\ live' = live \ {t} /\ cnt'[t] = DELETED
        /\ \A s \in Slots : s # t => cnt'[s] = cnt[s]
    BY <1>1, <1>7 DEF DeleteCnt, Mark, Ready
  <2>2. ASSUME NEW s \in Slots PROVE Held(s)'
    BY <1>0, <1>2, <1>4, <2>1 DEF Held, Doing
  <2>3. Claim(a)'
    BY <2>1 DEF Claim, Doing
  <2> QED BY <1>4, <2>1, <2>2, <2>3 DEF SlotInv
<1>8. ASSUME NEW t \in live, NEW r \in Routines, ConnectCnt(a, t, r) PROVE SlotInv'
  <2>1. /\ op'[a].pc = "connectRtn" /\ op'[a].slot = t /\ live' = live
        /\ cnt'[t] = CONNECTED /\ \A s \in Slots : s # t => cnt'[s] = cnt[s]
    BY <1>1, <1>8 DEF ConnectCnt, Mark, Ready
  <2>2. ASSUME NEW s \in Slots PROVE Held(s)'
    BY <1>0, <1>2, <1>4, <2>1 DEF Held, Doing, CONNECTED, DELETED
  <2>3. Claim(a)'
    BY <2>1 DEF Claim, Doing
  <2> QED BY <1>4, <2>1, <2>2, <2>3 DEF SlotInv
<1>9. ASSUME NEW t \in live, NEW v \in ValuesMs, NEW i \in IntervalsMs,
             SettimeCheck(a, t, v, i), op' # op
      PROVE  SlotInv'
  <2>1. op'[a].pc = "setCnt" /\ op'[a].slot = t /\ UNCHANGED <<live, cnt>>
    BY <1>1, <1>9 DEF SettimeCheck, table, Ready
  <2>2. ASSUME NEW s \in Slots PROVE Held(s)'
    BY <1>0, <1>2, <1>4, <2>1 DEF Held, Doing
  <2>3. Claim(a)'
    BY <2>1 DEF Claim, Doing
  <2> QED BY <1>4, <2>1, <2>2, <2>3 DEF SlotInv
<1>10. ASSUME NEW t \in live, NEW v \in ValuesMs, NEW i \in IntervalsMs,
              SettimeCheck(a, t, v, i), op' = op
       PROVE  SlotInv'
  BY <1>0, <1>10 DEF SettimeCheck, table, SlotInv, Held, Claim, Doing
<1> QED BY <1>5, <1>6, <1>7, <1>8, <1>9, <1>10 DEF BeginCall

(* So does every later store of a call.  A period that comes out as the    *)
(* mark of a deleted slot would be stored as such by the next reload.      *)
LEMMA StepKeepsSlots ==
  ASSUME SerialInv, TypeOK', Exclusive', SlotInv, NEW a \in Actors, StepCall(a),
         \A i \in IntervalsMs : LapTicks(i) # DELETED
  PROVE  SlotInv'
<1>s. PICK slot \in Slots : slot = op[a].slot
  BY DEF SerialInv, TypeOK, OpStates
<1>0. /\ op[a].pc # "ready" /\ Exclusive
      /\ \A b \in Actors : b # a => op'[b] = op[b]
  BY DEF StepCall, CreateScan, CreateCnt, CreateRtn, CreateArg, ConnectRtn, ConnectArg,
         DeleteRtn, DeleteArg, SettimeCnt, SettimeLap, At, Goto, Return, SerialInv, TypeOK
<1>1. /\ cnt \in [Slots -> Int] /\ lap \in [Slots -> Int] /\ op \in [Actors -> OpStates]
      /\ slot = op[a].slot /\ op[a] \in OpStates /\ op[a].value \in Int
  BY <1>s DEF SerialInv, TypeOK, OpStates
<1>2. Held(slot) /\ Claim(a)
  BY DEF SlotInv
<1>3. ASSUME Held(slot)', Claim(a)' PROVE SlotInv'
  <2>1. \A b \in Actors : b # a => op[b].pc = "ready" /\ op'[b].pc = "ready"
    BY <1>0, OthersAreIdle
  <2>2. \A b \in Actors : b # a => Claim(b)'
    BY <2>1 DEF Claim, Doing
  <2>3. ASSUME NEW s \in Slots, s # slot PROVE Held(s)'
    <3>1. cnt'[s] = cnt[s] /\ lap'[s] = lap[s] /\ (s \in live' <=> s \in live)
      BY <1>1, <2>3 DEF StepCall, CreateScan, CreateCnt, CreateRtn, CreateArg, ConnectRtn,
             ConnectArg, DeleteRtn, DeleteArg, SettimeCnt, SettimeLap, Mark, table
    <3>2. Held(s)
      BY DEF SlotInv
    <3>3. ~\E b \in Actors : op[b].slot = s /\ Doing(b, {"createRtn", "createArg"})
      BY <1>1, <2>1, <2>3 DEF Doing
    <3> QED BY <3>1, <3>2, <3>3 DEF Held
  <2> QED BY <1>3, <2>2, <2>3 DEF SlotInv
<1>a. ASSUME NEW label, Goto(a, label)
      PROVE  op'[a].pc = label /\ op'[a].slot = slot
  BY <1>1, <1>a DEF Goto, OpStates
<1>b. Return(a) => op'[a].pc = "ready"
  BY <1>1 DEF Return, Ready
<1>4. \A b \in Actors : op[b].pc # "ready" => b = a
  BY <1>0, OthersAreIdle
<1>5. CASE CreateScan(a)
  <2>1. /\ op[a].pc = "scan" /\ UNCHANGED <<cnt, lap, live>>
        /\ \/ op'[a].pc \in {"scan", "ready"}
           \/ op'[a].pc = "createCnt" /\ op'[a].slot = slot /\ cnt[slot] = DELETED
    BY <1>1, <1>5, <1>a, <1>b DEF CreateScan, At, table, OpStates
  <2>2. Held(slot)'
    BY <1>2, <1>4, <2>1 DEF Held, Doing
  <2>3. Claim(a)'
    BY <2>1 DEF Claim, Doing
  <2> QED BY <1>3, <2>2, <2>3
<1>6. CASE CreateCnt(a)
  <2>1. /\ op'[a].pc = "createRtn" /\ op'[a].slot = slot /\ op[a].pc = "createCnt"
        /\ cnt[slot] = DELETED /\ cnt'[slot] = CREATED /\ UNCHANGED <<lap, live>>
    BY <1>1, <1>2, <1>6, <1>a DEF CreateCnt, At, Mark, Claim, Doing
  <2>2. slot \notin live
    BY <1>2, <2>1 DEF Held
  <2> QED BY <1>2, <1>3, <2>1, <2>2 DEF Held, Claim, Doing
<1>7. CASE CreateRtn(a)
  <2>1. /\ op'[a].pc = "createArg" /\ op'[a].slot = slot /\ op[a].pc = "createRtn"
        /\ UNCHANGED <<cnt, lap, live>>
    BY <1>1, <1>7, <1>a DEF CreateRtn, At
  <2> QED BY <1>1, <1>2, <1>3, <2>1 DEF Held, Claim, Doing
<1>8. CASE CreateArg(a)
  <2>1. /\ op'[a].pc = "ready" /\ op[a].pc = "createArg" /\ live' = live \cup {slot}
        /\ UNCHANGED <<cnt, lap>> /\ cnt[slot] = CREATED
    BY <1>1, <1>2, <1>8, <1>b DEF CreateArg, At, Claim, Doing
  <2> QED BY <1>1, <1>2, <1>3, <2>1 DEF Held, Claim, Doing, CREATED, DELETED
<1>9. CASE ConnectRtn(a)
  <2>1. /\ op'[a].pc = "connectArg" /\ op'[a].slot = slot /\ op[a].pc = "connectRtn"
        /\ UNCHANGED <<cnt, lap, live>>
    BY <1>1, <1>9, <1>a DEF ConnectRtn, At
  <2> QED BY <1>1, <1>2, <1>3, <2>1 DEF Held, Claim, Doing
<1>10. CASE ConnectArg(a) \/ DeleteArg(a)
  <2>1. /\ op'[a].pc = "ready" /\ op[a].pc \in {"connectArg", "deleteArg"}
        /\ UNCHANGED <<cnt, lap, live>>
    BY <1>1, <1>10, <1>b DEF ConnectArg, DeleteArg, At
  <2>2. Held(slot)'
    BY <1>2, <1>4, <2>1 DEF Held, Doing
  <2> QED BY <1>3, <2>1, <2>2 DEF Claim, Doing
<1>11. CASE DeleteRtn(a)
  <2>1. /\ op'[a].pc = "deleteArg" /\ op[a].pc = "deleteRtn" /\ UNCHANGED <<cnt, lap, live>>
    BY <1>1, <1>11, <1>a DEF DeleteRtn, At
  <2>2. Held(slot)'
    BY <1>2, <1>4, <2>1 DEF Held, Doing
  <2> QED BY <1>3, <2>1, <2>2 DEF Claim, Doing
<1>12. CASE SettimeCnt(a)
  <2>1. /\ op'[a].pc = "setLap" /\ op'[a].slot = slot /\ op[a].pc = "setCnt"
        /\ UNCHANGED <<lap, live>> /\ slot \in live /\ cnt'[slot] = ValueTicks(op[a].value)
    BY <1>1, <1>2, <1>12, <1>a DEF SettimeCnt, At, Claim, Doing
  <2>2. cnt'[slot] # DELETED
    BY <1>1, <2>1, ValueStarts DEF DELETED
  <2> QED BY <1>1, <1>2, <1>3, <2>1, <2>2 DEF Held, Claim, Doing
<1>13. CASE SettimeLap(a)
  <2>1. /\ op'[a].pc = "ready" /\ op[a].pc = "setLap" /\ UNCHANGED <<cnt, live>>
        /\ slot \in live /\ lap'[slot] = LapTicks(op[a].interval)
    BY <1>1, <1>2, <1>13, <1>b DEF SettimeLap, At, Claim, Doing
  <2>2. op[a].interval \in IntervalsMs
    BY <2>1 DEF SerialInv, Underway, Doing
  <2> QED BY <1>1, <1>2, <1>3, <2>1, <2>2 DEF Held, Claim, Doing
<1> QED
  BY <1>5, <1>6, <1>7, <1>8, <1>9, <1>10, <1>11, <1>12, <1>13 DEF StepCall

(* The handler counts down held slots only, and no reload frees one.       *)
LEMMA TickKeepsSlots ==
  ASSUME SerialInv, TypeOK', SlotInv, TickStep
  PROVE  SlotInv'
<1>1. /\ UNCHANGED <<lap, op, live>> /\ tix \in Slots /\ treg \in Int /\ AtSlot
      /\ cnt \in [Slots -> Int] /\ \A s \in Slots : s # tix => cnt'[s] = cnt[s]
  BY DEF TickStep, TickWake, TickCheck, TickLoad, TickStore, TickTest, TickCall,
         TickCallbackReturns, TickRearm, TickReload, TickAt, SerialInv, TypeOK
<1>2. CASE cnt'[tix] = cnt[tix]
  <2>1. \A s \in Slots : cnt'[s] = cnt[s]
    BY <1>1, <1>2
  <2>2. \A s \in Slots : Held(s)'
    BY <1>1, <2>1 DEF SlotInv, Held, Doing
  <2>3. ASSUME NEW a \in Actors PROVE Claim(a)'
    <3>1. op[a].slot \in Slots
      BY DEF SerialInv, TypeOK, OpStates
    <3> QED BY <1>1, <2>1, <3>1 DEF SlotInv, Claim, Doing
  <2> QED BY <2>2, <2>3 DEF SlotInv
<1>3. CASE cnt'[tix] # cnt[tix]
  <2>1. InWindow(tix) /\ cnt[tix] >= 0
    BY <1>1, <1>3 DEF TickStep, TickWake, TickCheck, TickLoad, TickStore, TickTest, TickCall,
           TickCallbackReturns, TickRearm, TickReload, TickAt, InWindow, AtSlot
  <2>2. \A a \in Actors : ~Doing(a, {"ready", "scan"}) => op[a].slot # tix
    BY <2>1, ExclusiveMeans DEF SerialInv
  <2>3. Held(tix) /\ tix \in live
    BY <1>1, <2>1, <2>2 DEF SlotInv, Held, Doing, DELETED
  <2>4. cnt'[tix] # DELETED
    BY <1>1, <1>3, <2>1, <2>3 DEF TickStep, TickWake, TickCheck, TickLoad, TickStore, TickTest,
           TickCall, TickCallbackReturns, TickRearm, TickReload, TickAt, AtSlot, Held, DELETED
  <2>5. ASSUME NEW s \in Slots PROVE Held(s)'
    BY <1>1, <2>3, <2>4 DEF SlotInv, Held, Doing
  <2>6. ASSUME NEW a \in Actors PROVE Claim(a)'
    <3>1. op[a].slot \in Slots
      BY DEF SerialInv, TypeOK, OpStates
    <3> QED BY <1>1, <2>2, <3>1 DEF SlotInv, Claim, Doing
  <2> QED BY <2>5, <2>6 DEF SlotInv
<1> QED BY <1>2, <1>3

(* Create hands out every deleted slot and none in use, provided no period *)
(* comes out as the mark of a deleted slot: the reload does not look.      *)
THEOREM SlotsAreAccounted ==
  ASSUME \A i \in IntervalsMs : LapTicks(i) # DELETED
  PROVE  SerialSpec => []SlotsAccounted
<1>1. Init => SlotInv
  BY DEF Init, SlotInv, Held, Claim, Doing, Ready, DISARMED, DELETED
<1>2. SerialInv /\ SerialInv' /\ SlotInv /\ [SerialNext]_vars => SlotInv'
  <2> SUFFICES ASSUME SerialInv, SerialInv', SlotInv, [SerialNext]_vars PROVE SlotInv'
    OBVIOUS
  <2>0. TypeOK'
    BY DEF SerialInv
  <2>1. CASE SerialNext
    <3>1. Exclusive' /\ WindowRespected /\ Next
      BY <2>1 DEF SerialNext, SerialStep
    <3>2. ASSUME NEW a \in Actors, BeginCall(a) PROVE SlotInv'
      BY <2>0, <3>1, <3>2, BeginKeepsSlots
    <3>3. ASSUME NEW a \in Actors, StepCall(a) PROVE SlotInv'
      BY <2>0, <3>1, <3>3, StepKeepsSlots
    <3>4. CASE TickStep
      BY <2>0, <3>4, TickKeepsSlots
    <3> QED BY <3>1, <3>2, <3>3, <3>4 DEF Next
  <2>2. CASE UNCHANGED vars
    BY <2>2 DEF vars, SlotInv, Held, Claim, Doing
  <2> QED BY <2>1, <2>2
<1>3. SlotInv => SlotsAccounted
  BY DEF SlotInv, SlotsAccounted, Held, Doing, Busy
<1> QED BY <1>1, <1>2, <1>3, SerialInvariant, PTL DEF SerialSpec

-----------------------------------------------------------------------------
(* The table implements TimerService for disciplined callers: every step   *)
(* is one of the service for the timer it is about, or hidden from it.     *)

(* LeftBar and PeriodBar of one slot.                                      *)
LeftOf(s) ==
  CASE tix = s /\ tpc \in {"test", "call"} /\ cnt[s] = 0 -> 1
    [] tix = s /\ tpc \in {"callback", "rearm", "reload"} -> Period(lap[s])
    [] OTHER                                             -> Period(cnt[s])

PeriodFor(o, l, s) ==
  IF \E a \in Actors : o[a].pc = "setLap" /\ o[a].slot = s
  THEN Period(LapTicks(o[CHOOSE a \in Actors :
                           o[a].pc = "setLap" /\ o[a].slot = s].interval))
  ELSE Period(l[s])

PeriodOf(s) == PeriodFor(op, lap, s)

LEMMA BarsAre ==
  /\ LeftBar = [s \in Slots |-> LeftOf(s)]
  /\ LeftBar' = [s \in Slots |-> LeftOf(s)']
  /\ PeriodBar = [s \in Slots |-> PeriodOf(s)]
  /\ PeriodBar' = [s \in Slots |-> PeriodOf(s)']
BY DEF LeftBar, PeriodBar, LeftOf, PeriodOf, PeriodFor

(* A step about timer t changes what the service shows of t only.          *)
LEMMA OneTimer ==
  ASSUME NEW t \in Slots,
         \A s \in Slots : s # t => LeftOf(s)' = LeftOf(s) /\ PeriodOf(s)' = PeriodOf(s)
  PROVE  /\ LeftBar' = [LeftBar EXCEPT ![t] = LeftOf(t)']
         /\ PeriodBar' = [PeriodBar EXCEPT ![t] = PeriodOf(t)']
         /\ LeftOf(t)' = LeftOf(t) => LeftBar' = LeftBar
         /\ PeriodOf(t)' = PeriodOf(t) => PeriodBar' = PeriodBar
         /\ LeftBar[t] = LeftOf(t) /\ PeriodBar[t] = PeriodOf(t)
BY BarsAre

LEMMA Hidden ==
  ASSUME \A s \in Slots : LeftOf(s)' = LeftOf(s) /\ PeriodOf(s)' = PeriodOf(s),
         UNCHANGED flips
  PROVE  UNCHANGED Service!vars
<1>1. LeftBar' = LeftBar /\ PeriodBar' = PeriodBar
  BY BarsAre
<1> QED BY <1>1 DEF Service!vars, flips

(* Calls do not overlap, so at most one settime is between its stores.     *)
LEMMA PeriodIs ==
  ASSUME NEW o, NEW l, NEW s, Cardinality({a \in Actors : o[a].pc # "ready"}) <= 1
  PROVE  /\ (\A a \in Actors : ~(o[a].pc = "setLap" /\ o[a].slot = s))
              => PeriodFor(o, l, s) = Period(l[s])
         /\ \A a \in Actors : o[a].pc = "setLap" /\ o[a].slot = s
              => PeriodFor(o, l, s) = Period(LapTicks(o[a].interval))
<1>1. ASSUME NEW a \in Actors, o[a].pc = "setLap", o[a].slot = s
      PROVE  PeriodFor(o, l, s) = Period(LapTicks(o[a].interval))
  <2> DEFINE c == CHOOSE b \in Actors : o[b].pc = "setLap" /\ o[b].slot = s
  <2>1. c \in Actors /\ o[c].pc = "setLap"
    BY <1>1
  <2>2. c = a
    BY <1>1, <2>1, OneIsBusy
  <2>3. PeriodFor(o, l, s) = Period(LapTicks(o[c].interval))
    BY <1>1 DEF PeriodFor
  <2> QED BY <2>2, <2>3
<1> QED BY <1>1 DEF PeriodFor

LEMMA PeriodsStay ==
  ASSUME Exclusive, Exclusive', UNCHANGED lap, NEW a \in Actors,
         \A b \in Actors : b # a => op'[b] = op[b],
         op' = op \/ (op[a].pc # "setLap" /\ op'[a].pc # "setLap")
  PROVE  \A s \in Slots : PeriodOf(s)' = PeriodOf(s)
<1> SUFFICES ASSUME NEW s \in Slots PROVE PeriodFor(op', lap', s) = PeriodFor(op, lap, s)
  BY DEF PeriodOf
<1>1. CASE op' = op
  BY <1>1
<1>2. CASE op[a].pc # "setLap" /\ op'[a].pc # "setLap"
  <2>1. /\ Cardinality({b \in Actors : op[b].pc # "ready"}) <= 1
        /\ Cardinality({b \in Actors : op'[b].pc # "ready"}) <= 1
    BY DEF Exclusive, Busy
  <2>2. CASE \E b \in Actors : op[b].pc = "setLap" /\ op[b].slot = s
    BY <1>2, <2>1, <2>2, PeriodIs
  <2>3. CASE ~\E b \in Actors : op[b].pc = "setLap" /\ op[b].slot = s
    <3>1. \A b \in Actors : ~(op'[b].pc = "setLap" /\ op'[b].slot = s)
      BY <1>2, <2>3
    <3> QED BY <2>1, <2>3, <3>1, PeriodIs
  <2> QED BY <2>2, <2>3
<1> QED BY <1>1, <1>2

(* A step that stores no count and no period is hidden.                    *)
LEMMA NoStoreIsHidden ==
  ASSUME UNCHANGED <<cnt, lap, tick, flips>>,
         \A s \in Slots : PeriodOf(s)' = PeriodOf(s)
  PROVE  UNCHANGED Service!vars
<1>1. \A s \in Slots : LeftOf(s)' = LeftOf(s)
  BY DEF LeftOf, tick
<1> QED BY <1>1, Hidden

(* The store of a mark stops the timer.                                    *)
LEMMA MarkStops ==
  ASSUME SerialInv, WindowRespected, UNCHANGED <<lap, tick, flips>>,
         \A s \in Slots : PeriodOf(s)' = PeriodOf(s),
         NEW t \in Slots, NEW mark \in Int, mark < 0, Mark(t, mark)
  PROVE  [Service!Next]_Service!vars
<1>1. cnt \in [Slots -> Int] /\ cnt' = [cnt EXCEPT ![t] = mark]
  BY DEF SerialInv, TypeOK, Mark
<1>2. CASE InWindow(t)
  <2>1. cnt'[t] = cnt[t]
    BY <1>2 DEF WindowRespected
  <2>2. cnt' = cnt
    BY <1>1, <2>1
  <2> QED BY <2>2, NoStoreIsHidden
<1>3. CASE ~InWindow(t)
  <2>1. LeftOf(t)' = 0
    BY <1>1, <1>3 DEF LeftOf, InWindow, Period, tick
  <2>2. \A s \in Slots : s # t => LeftOf(s)' = LeftOf(s)
    BY <1>1 DEF LeftOf, tick
  <2>3. Service!Stop(t)
    BY <2>1, <2>2, OneTimer DEF Service!Stop, flips
  <2> QED BY <2>3 DEF Service!Next
<1> QED BY <1>2, <1>3

LEMMA BeginImplements ==
  ASSUME SerialInv, SerialInv', WindowRespected, NEW a \in Actors, BeginCall(a)
  PROVE  [Service!Next]_Service!vars
<1>0. /\ op[a].pc = "ready" /\ UNCHANGED <<lap, tick, flips>>
      /\ \A b \in Actors : b # a => op'[b] = op[b]
      /\ live \subseteq Slots /\ op \in [Actors -> OpStates]
  BY DEF BeginCall, CreateScanStart, Cancel, DeleteCnt, ConnectCnt, SettimeCheck, CanCall,
         table, SerialInv, TypeOK
<1>1. op' = op \/ op'[a].pc # "setLap"
  <2>1. CASE CreateScanStart(a)
    BY <1>0, <2>1 DEF CreateScanStart, Ready
  <2>2. ASSUME NEW s \in live, DeleteCnt(a, s) PROVE op'[a].pc # "setLap"
    BY <1>0, <2>2 DEF DeleteCnt, Ready
  <2>3. ASSUME NEW s \in live, NEW r \in Routines, ConnectCnt(a, s, r)
        PROVE  op'[a].pc # "setLap"
    BY <1>0, <2>3 DEF ConnectCnt, Ready
  <2>4. ASSUME NEW s \in live, NEW v \in ValuesMs, NEW i \in IntervalsMs,
               SettimeCheck(a, s, v, i), op' # op
        PROVE  op'[a].pc # "setLap"
    BY <1>0, <2>4 DEF SettimeCheck, Ready
  <2>5. ASSUME NEW s \in live, Cancel(a, s) PROVE op' = op
    BY <2>5 DEF Cancel
  <2> QED BY <2>1, <2>2, <2>3, <2>4, <2>5 DEF BeginCall
<1>2. \A s \in Slots : PeriodOf(s)' = PeriodOf(s)
  BY <1>0, <1>1, PeriodsStay DEF SerialInv
<1>3. CASE CreateScanStart(a)
  BY <1>0, <1>2, <1>3, NoStoreIsHidden DEF CreateScanStart, table
<1>4. ASSUME NEW s \in live, Cancel(a, s) PROVE [Service!Next]_Service!vars
  BY <1>0, <1>2, <1>4, MarkStops DEF Cancel, CANCELED
<1>5. ASSUME NEW s \in live, DeleteCnt(a, s) PROVE [Service!Next]_Service!vars
  BY <1>0, <1>2, <1>5, MarkStops DEF DeleteCnt, DELETED
<1>6. ASSUME NEW s \in live, NEW r \in Routines, ConnectCnt(a, s, r)
      PROVE  [Service!Next]_Service!vars
  BY <1>0, <1>2, <1>6, MarkStops DEF ConnectCnt, CONNECTED
<1>7. ASSUME NEW s \in live, NEW v \in ValuesMs, NEW i \in IntervalsMs,
             SettimeCheck(a, s, v, i)
      PROVE  [Service!Next]_Service!vars
  BY <1>0, <1>2, <1>7, NoStoreIsHidden DEF SettimeCheck, table
<1> QED BY <1>3, <1>4, <1>5, <1>6, <1>7 DEF BeginCall

(* The two stores of a settime: the first arms the timer, and shows the    *)
(* period the second is about to store.                                    *)
LEMMA SettimeArms ==
  ASSUME SerialInv, SerialInv', NEW a \in Actors, SettimeCnt(a)
  PROVE  Service!Next
<1>1. PICK t \in Slots : t = op[a].slot
  BY DEF SerialInv, TypeOK, OpStates
<1>2. /\ op[a] \in OpStates /\ op \in [Actors -> OpStates] /\ cnt \in [Slots -> Int]
      /\ op[a].pc = "setCnt" /\ UNCHANGED <<lap, tick, fired>>
      /\ op[a].value \in ValuesMs /\ op[a].interval \in IntervalsMs
  BY DEF SettimeCnt, At, SerialInv, TypeOK, Underway, Doing
<1>3. /\ op'[a].pc = "setLap" /\ op'[a].slot = t /\ op'[a].interval = op[a].interval
      /\ \A b \in Actors : b # a => op'[b] = op[b]
  BY <1>1, <1>2 DEF SettimeCnt, Goto, OpStates
<1>4. ~InWindow(t)
  BY <1>1, <1>2, ExclusiveMeans DEF SerialInv, Doing
<1>5. LeftOf(t)' = ValueTicks(op[a].value)
  <2>1. op[a].value \in Int
    BY <1>2, TimerAssumption
  <2>2. cnt'[t] = ValueTicks(op[a].value) /\ cnt'[t] > 0
    BY <1>1, <1>2, <2>1, ValueStarts DEF SettimeCnt
  <2> QED BY <1>2, <1>4, <2>2 DEF LeftOf, InWindow, Period, tick
<1>6. /\ Cardinality({b \in Actors : op[b].pc # "ready"}) <= 1
      /\ Cardinality({b \in Actors : op'[b].pc # "ready"}) <= 1
  BY DEF SerialInv, Exclusive, Busy
<1>7. PeriodOf(t)' = Period(LapTicks(op[a].interval))
  BY <1>3, <1>6, PeriodIs DEF PeriodOf
<1>8. ASSUME NEW s \in Slots, s # t
      PROVE  LeftOf(s)' = LeftOf(s) /\ PeriodOf(s)' = PeriodOf(s)
  <2>1. LeftOf(s)' = LeftOf(s)
    BY <1>1, <1>2, <1>8 DEF LeftOf, SettimeCnt, tick
  <2>2. \A b \in Actors : op[b].pc = "setLap" => b = a
    BY <1>2, ExclusiveMeans DEF SerialInv
  <2>3. \A b \in Actors : op'[b].pc = "setLap" => b = a
    BY <1>3, <2>2
  <2>4. PeriodFor(op, lap, s) = Period(lap[s])
    BY <1>2, <1>6, <2>2, PeriodIs
  <2>5. PeriodFor(op', lap', s) = Period(lap'[s])
    BY <1>3, <1>6, <1>8, <2>3, PeriodIs
  <2> QED BY <1>2, <2>1, <2>4, <2>5 DEF PeriodOf
<1>9. armed' = [armed EXCEPT ![t] = ~armed[t]]
  BY <1>1, Zenon DEF SettimeCnt
<1>10. Service!Arm(t, ValueTicks(op[a].value), Period(LapTicks(op[a].interval)))
  <2>1. /\ LeftBar' = [LeftBar EXCEPT ![t] = ValueTicks(op[a].value)]
        /\ PeriodBar' = [PeriodBar EXCEPT ![t] = Period(LapTicks(op[a].interval))]
    BY <1>5, <1>7, <1>8, OneTimer
  <2> QED BY <1>2, <1>9, <2>1, Zenon DEF Service!Arm
<1> QED BY <1>2, <1>10 DEF Service!Next

LEMMA SettimeEnds ==
  ASSUME SerialInv, SerialInv', NEW a \in Actors, SettimeLap(a)
  PROVE  UNCHANGED Service!vars
<1>1. PICK t \in Slots : t = op[a].slot
  BY DEF SerialInv, TypeOK, OpStates
<1>2. /\ op \in [Actors -> OpStates] /\ lap \in [Slots -> Int]
      /\ op[a].pc = "setLap" /\ UNCHANGED <<cnt, tick, flips>>
  BY DEF SettimeLap, At, SerialInv, TypeOK
<1>3. /\ op'[a].pc = "ready" /\ \A b \in Actors : b # a => op'[b] = op[b]
      /\ lap' = [lap EXCEPT ![t] = LapTicks(op[a].interval)]
  BY <1>1, <1>2 DEF SettimeLap, Return, Ready
<1>4. ~InWindow(t)
  BY <1>1, <1>2, ExclusiveMeans DEF SerialInv, Doing
<1>5. /\ Cardinality({b \in Actors : op[b].pc # "ready"}) <= 1
      /\ Cardinality({b \in Actors : op'[b].pc # "ready"}) <= 1
  BY DEF SerialInv, Exclusive, Busy
<1>6. \A b \in Actors : op[b].pc = "setLap" => b = a
  BY <1>2, ExclusiveMeans DEF SerialInv
<1>7. \A b \in Actors : op'[b].pc # "setLap"
  BY <1>3, <1>6
<1>8. ASSUME NEW s \in Slots PROVE LeftOf(s)' = LeftOf(s) /\ PeriodOf(s)' = PeriodOf(s)
  <2>1. LeftOf(s)' = LeftOf(s)
    BY <1>2, <1>3, <1>4 DEF LeftOf, InWindow, tick
  <2>2. PeriodFor(op', lap', s) = Period(lap'[s])
    BY <1>5, <1>7, PeriodIs
  <2>3. CASE s = t
    BY <1>1, <1>2, <1>3, <1>5, <2>1, <2>2, <2>3, PeriodIs DEF PeriodOf
  <2>4. CASE s # t
    <3>1. PeriodFor(op, lap, s) = Period(lap[s])
      BY <1>1, <1>5, <1>6, <2>4, PeriodIs
    <3> QED BY <1>2, <1>3, <2>1, <2>2, <2>4, <3>1 DEF PeriodOf
  <2> QED BY <2>3, <2>4
<1> QED BY <1>2, <1>8, Hidden

LEMMA StepImplements ==
  ASSUME SerialInv, SerialInv', WindowRespected, NEW a \in Actors, StepCall(a)
  PROVE  [Service!Next]_Service!vars
<1>1. CASE SettimeCnt(a)
  BY <1>1, SettimeArms
<1>2. CASE SettimeLap(a)
  BY <1>2, SettimeEnds
<1>3. CASE ~SettimeCnt(a) /\ ~SettimeLap(a)
  <2>0. op[a].slot \in Slots /\ op \in [Actors -> OpStates] /\ op[a] \in OpStates
    BY DEF SerialInv, TypeOK, OpStates
  <2>1. /\ op[a].pc # "setLap" /\ UNCHANGED <<lap, tick, flips>>
        /\ \A b \in Actors : b # a => op'[b] = op[b]
        /\ op'[a].pc # "setLap"
    <3>1. /\ op[a].pc # "setLap" /\ UNCHANGED <<lap, tick, flips>>
          /\ \/ \E l \in Labels \ {"setLap"} : Goto(a, l)
             \/ Return(a)
             \/ \E s \in Slots : op' = [op EXCEPT ![a].slot = s]
      <4>1. CASE CreateScan(a)
        <5>1. op[a].slot < NumTimers => op[a].slot + 1 \in Slots
          BY <2>0, TimerAssumption DEF Slots
        <5> QED BY <4>1, <5>1 DEF CreateScan, At, Labels, table
      <4>2. CASE CreateCnt(a) \/ CreateRtn(a) \/ CreateArg(a)
        BY <4>2 DEF CreateCnt, CreateRtn, CreateArg, At, Labels
      <4>3. CASE ConnectRtn(a) \/ ConnectArg(a) \/ DeleteRtn(a) \/ DeleteArg(a)
        BY <4>3 DEF ConnectRtn, ConnectArg, DeleteRtn, DeleteArg, At, Labels
      <4> QED BY <1>3, <4>1, <4>2, <4>3 DEF StepCall
    <3>2. ASSUME NEW l \in Labels \ {"setLap"}, Goto(a, l)
          PROVE  op'[a].pc # "setLap" /\ \A b \in Actors : b # a => op'[b] = op[b]
      BY <2>0, <3>2 DEF Goto, OpStates
    <3>3. ASSUME Return(a)
          PROVE  op'[a].pc # "setLap" /\ \A b \in Actors : b # a => op'[b] = op[b]
      BY <2>0, <3>3 DEF Return, Ready
    <3>4. ASSUME NEW s \in Slots, op' = [op EXCEPT ![a].slot = s]
          PROVE  op'[a].pc # "setLap" /\ \A b \in Actors : b # a => op'[b] = op[b]
      BY <2>0, <3>1, <3>4 DEF OpStates
    <3> QED BY <3>1, <3>2, <3>3, <3>4
  <2>2. \A s \in Slots : PeriodOf(s)' = PeriodOf(s)
    BY <2>1, PeriodsStay DEF SerialInv
  <2>3. CASE CreateCnt(a)
    BY <2>0, <2>1, <2>2, <2>3, MarkStops DEF CreateCnt, CREATED
  <2>4. CASE ~CreateCnt(a)
    <3>1. UNCHANGED cnt
      BY <1>3, <2>4 DEF StepCall, CreateScan, CreateRtn, CreateArg, ConnectRtn, ConnectArg,
                        DeleteRtn, DeleteArg, table
    <3> QED BY <2>1, <2>2, <3>1, NoStoreIsHidden
  <2> QED BY <2>3, <2>4
<1> QED BY <1>1, <1>2, <1>3

(* The handler's part: a decrement is a tick, the routine's call is the    *)
(* expiry, and from there on the timer stands at its reload value.         *)
LEMMA TickImplements ==
  ASSUME SerialInv, SerialInv', TickStep
  PROVE  [Service!Next]_Service!vars
<1>0. /\ UNCHANGED <<lap, op, armed>> /\ tix \in Slots /\ treg \in Int
      /\ cnt \in [Slots -> Int] /\ lap \in [Slots -> Int] /\ AtSlot
      /\ \A s \in Slots : PeriodOf(s)' = PeriodOf(s)
  <2>1. UNCHANGED <<lap, op, armed>>
    BY DEF TickStep, TickWake, TickCheck, TickLoad, TickStore, TickTest, TickCall,
           TickCallbackReturns, TickRearm, TickReload, TickAt
  <2>2. \A s \in Slots : PeriodOf(s)' = PeriodOf(s)
    BY <2>1 DEF PeriodOf
  <2> QED BY <2>1, <2>2 DEF SerialInv, TypeOK
<1>1. PICK t \in Slots : t = tix
  BY <1>0
<1>2. CASE TickWake
  <2>1. \A s \in Slots : LeftOf(s)' = LeftOf(s)
    BY <1>2 DEF TickWake, TickAt, LeftOf
  <2> QED BY <1>0, <1>2, <2>1, Hidden DEF TickWake, flips
<1>3. CASE TickCheck
  <2>1. \A s \in Slots : LeftOf(s)' = LeftOf(s)
    BY <1>0, <1>3 DEF TickCheck, TickAt, NextSlot, LeftOf
  <2> QED BY <1>0, <1>3, <2>1, Hidden DEF TickCheck, flips
<1>4. CASE TickLoad
  <2>1. \A s \in Slots : LeftOf(s)' = LeftOf(s)
    BY <1>0, <1>4 DEF TickLoad, TickAt, LeftOf
  <2> QED BY <1>0, <1>4, <2>1, Hidden DEF TickLoad, flips
<1>5. CASE TickStore
  <2>1. /\ tpc = "store" /\ tpc' = "test" /\ tix' = tix /\ fired' = fired
        /\ cnt[t] = treg /\ treg >= 0 /\ cnt' = [cnt EXCEPT ![t] = treg - 1]
    BY <1>0, <1>1, <1>5 DEF TickStore, TickAt, AtSlot
  <2>2. \A s \in Slots : s # t => LeftOf(s)' = LeftOf(s)
    BY <1>0, <1>1, <2>1 DEF LeftOf
  <2>3. LeftOf(t) = treg
    BY <1>0, <1>1, <2>1 DEF LeftOf, Period
  <2>4. cnt'[t] = treg - 1
    BY <1>0, <2>1
  <2>5. CASE treg <= 1
    <3>1. LeftOf(t)' = LeftOf(t)
      BY <1>0, <1>1, <2>1, <2>3, <2>4, <2>5 DEF LeftOf, Period
    <3> QED BY <1>0, <2>1, <2>2, <3>1, Hidden DEF flips
  <2>6. CASE treg > 1
    <3>1. LeftOf(t)' = LeftOf(t) - 1
      BY <1>0, <1>1, <2>1, <2>3, <2>4, <2>6 DEF LeftOf, Period
    <3>2. Service!Elapse(t)
      BY <1>0, <2>1, <2>2, <2>3, <2>6, <3>1, OneTimer DEF Service!Elapse
    <3> QED BY <3>2 DEF Service!Next
  <2> QED BY <1>0, <2>5, <2>6
<1>6. CASE TickTest
  <2>1. /\ tpc = "test" /\ UNCHANGED <<cnt, fired>> /\ cnt[t] = treg
        /\ \/ treg = 0 /\ tpc' = "call" /\ tix' = tix
           \/ treg # 0 /\ tpc' \in {"check", "sleep"}
    BY <1>0, <1>1, <1>6 DEF TickTest, TickAt, NextSlot, AtSlot
  <2>2. \A s \in Slots : LeftOf(s)' = LeftOf(s)
    BY <1>0, <1>1, <2>1 DEF LeftOf
  <2> QED BY <1>0, <2>1, <2>2, Hidden DEF flips
<1>7. CASE TickCall
  <2>1. /\ tpc = "call" /\ tpc' = "callback" /\ UNCHANGED <<cnt, tix>> /\ cnt[t] = 0
    BY <1>0, <1>1, <1>7 DEF TickCall, TickAt, AtSlot, InWindow, SerialInv
  <2>2. fired' = [fired EXCEPT ![t] = ~fired[t]]
    BY <1>1, <1>7, <2>1, Zenon DEF TickCall
  <2>3. \A s \in Slots : s # t => LeftOf(s)' = LeftOf(s)
    BY <1>0, <1>1, <2>1 DEF LeftOf
  <2>4. LeftOf(t) = 1 /\ LeftOf(t)' = Period(lap[t])
    BY <1>0, <1>1, <2>1 DEF LeftOf
  <2>5. PeriodOf(t) = Period(lap[t])
    <3>1. \A a \in Actors : ~(op[a].pc = "setLap" /\ op[a].slot = t)
      BY <1>1, <2>1, ExclusiveMeans DEF SerialInv, InWindow, Doing
    <3> QED BY <3>1, PeriodIs DEF PeriodOf, SerialInv, Exclusive, Busy
  <2>6. /\ LeftBar[t] = 1 /\ LeftBar' = [LeftBar EXCEPT ![t] = PeriodBar[t]]
        /\ PeriodBar' = PeriodBar
    BY <1>0, <2>3, <2>4, <2>5, OneTimer
  <2>7. Service!Expire(t)
    BY <1>0, <2>2, <2>6, Zenon DEF Service!Expire
  <2> QED BY <2>7 DEF Service!Next
<1>8. CASE TickCallbackReturns
  <2>1. \A s \in Slots : LeftOf(s)' = LeftOf(s)
    BY <1>0, <1>8 DEF TickCallbackReturns, TickAt, LeftOf
  <2> QED BY <1>0, <1>8, <2>1, Hidden DEF TickCallbackReturns, flips
<1>9. CASE TickRearm
  <2>1. \A s \in Slots : LeftOf(s)' = LeftOf(s)
    BY <1>0, <1>9 DEF TickRearm, TickAt, LeftOf
  <2> QED BY <1>0, <1>9, <2>1, Hidden DEF TickRearm, flips
<1>10. CASE TickReload
  <2>1. /\ tpc = "reload" /\ tpc' \in {"check", "sleep"} /\ fired' = fired
        /\ cnt' = [cnt EXCEPT ![t] = lap[t]]
    BY <1>0, <1>1, <1>10 DEF TickReload, TickAt, NextSlot, AtSlot
  <2>2. \A s \in Slots : LeftOf(s)' = LeftOf(s)
    BY <1>0, <1>1, <2>1 DEF LeftOf
  <2> QED BY <1>0, <2>1, <2>2, Hidden DEF flips
<1> QED BY <1>2, <1>3, <1>4, <1>5, <1>6, <1>7, <1>8, <1>9, <1>10 DEF TickStep

(* Callers that do not overlap get what TimerService promises: no call     *)
(* early, late, twice or missed, and no old period after a settime.        *)
THEOREM TableImplementsService == SerialSpec => ImplementsService
<1>1. Init /\ SerialInv => Service!Init
  <2> SUFFICES ASSUME Init, SerialInv PROVE Service!Init
    OBVIOUS
  <2>1. \A s \in Slots : LeftOf(s) = 0
    BY DEF Init, LeftOf, Period, DELETED
  <2>2. \A s \in Slots : PeriodOf(s) = 0
    <3>1. \A a \in Actors : op[a].pc # "setLap"
      BY DEF Init, Ready
    <3>2. \A s \in Slots : PeriodOf(s) = Period(lap[s])
      BY <3>1 DEF PeriodOf, PeriodFor
    <3> QED BY <3>2 DEF Init, Period, DISARMED
  <2>3. LeftBar = [s \in Slots |-> 0] /\ PeriodBar = [s \in Slots |-> 0]
    BY <2>1, <2>2, BarsAre
  <2> QED BY <2>3 DEF Init, Service!Init
<1>2. SerialInv /\ SerialInv' /\ [SerialNext]_vars => [Service!Next]_Service!vars
  <2> SUFFICES ASSUME SerialInv, SerialInv', [SerialNext]_vars
               PROVE  [Service!Next]_Service!vars
    OBVIOUS
  <2>1. CASE SerialNext
    <3>1. WindowRespected /\ Next
      BY <2>1 DEF SerialNext, SerialStep
    <3>2. ASSUME NEW a \in Actors, BeginCall(a) PROVE [Service!Next]_Service!vars
      BY <3>1, <3>2, BeginImplements
    <3>3. ASSUME NEW a \in Actors, StepCall(a) PROVE [Service!Next]_Service!vars
      BY <3>1, <3>3, StepImplements
    <3>4. CASE TickStep
      BY <3>4, TickImplements
    <3> QED BY <3>1, <3>2, <3>3, <3>4 DEF Next
  <2>2. CASE UNCHANGED vars
    BY <2>2 DEF vars, Service!vars, LeftBar, PeriodBar
  <2> QED BY <2>1, <2>2
<1> QED BY <1>1, <1>2, SerialInvariant, PTL DEF SerialSpec, ImplementsService, Service!Spec
===============================================================================
