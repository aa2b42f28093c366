-------------------------------- MODULE BsTmo --------------------------------
(***************************************************************************)
(* The timer wheel of airguitar, src/airguitar/src/bse/src/bs_tmo.c: one   *)
(* list of timers per slot, a task that turns the wheel one slot a pulse   *)
(* and walks the list there, and a lap counter for timers that lie more    *)
(* than a turn ahead. bs_mutex_lock does nothing, so the walk and the      *)
(* calls of other tasks are kept apart here, as callers must keep them.    *)
(* Routines called from the walk may set, cancel and reset timers; one     *)
(* that cancels or resets the very timer bs_tmo.next points to sends the   *)
(* walk astray, which nothing in the code prevents.                        *)
(***************************************************************************)
EXTENDS Integers, FiniteSets

CONSTANTS
  Timers,
  Shift,       \* BS_TMO_SHIFT
  Resolution,  \* BS_TMO_RESOLUTION_MSEC
  Width,       \* bits of an unsigned int
  Msecs,       \* milliseconds callers ask for
  MaxShows,    \* bound: calls of bs_tmo_show
  NULL

Size == 2^Shift

Slots == 0..(Size - 1)

(* The third conjunct says what powers of two are, of which the provers    *)
(* know nothing.                                                           *)
ASSUME TmoAssumption ==
  /\ Shift \in Nat /\ Resolution \in Nat \ {0} /\ Width \in Nat /\ Shift < Width
  /\ IsFiniteSet(Timers)
  /\ Size \in Nat \ {0} /\ 2^Width \in Nat \ {0} /\ 2^Width % Size = 0
  /\ Msecs \subseteq 0..(2^Width - 1)
  /\ Slots \cap (Timers \cup {NULL}) = {} /\ NULL \notin Timers

INSTANCE BsList WITH Heads <- Slots, Entries <- Timers

VARIABLES
  cells,    \* the links of the wheel's heads and of the timers
  slot,
  entry,    \* the entry the walk is at
  next,     \* bs_tmo.next, the entry after it
  strayed,  \* the last timer a routine of this walk took away from under next
  lap,      \* tmo->lap
  msec,     \* tmo->msec
  running,  \* the timer whose routine runs, or NULL
  shows     \* calls of bs_tmo_show so far

vars == <<cells, slot, entry, next, strayed, lap, msec, running, shows>>

Init ==
  /\ cells = EmptyLists
  /\ slot = 0
  /\ entry = NULL
  /\ next = NULL
  /\ strayed = NULL
  /\ lap = [t \in Timers |-> 0]
  /\ msec = [t \in Timers |-> 0]
  /\ running = NULL
  /\ shows = 0

Armed(t) == cells.head[t] # NULL

(* Other tasks call between walks, routines while they run. *)
MayCall == entry = NULL \/ running # NULL

(* A bug a run must catch: the lap of a timer that is set for the slot just *)
(* passed counts the turn it waits anyway.                                 *)
MutantPutOnWheel(t, m, links) ==
  LET pulses == m \div Resolution IN
  /\ msec' = [msec EXCEPT ![t] = m]
  /\ lap' = [lap EXCEPT ![t] = (pulses + 1) \div Size]
  /\ cells' = InsertFirst(links, (slot + pulses + 1) % Size, t)

PutOnWheel(t, m, links) ==
  LET pulses == m \div Resolution IN
  /\ msec' = [msec EXCEPT ![t] = m]
  /\ lap' = [lap EXCEPT ![t] = pulses \div Size]
  /\ cells' = InsertFirst(links, (slot + pulses + 1) % Size, t)

(* Not of an armed timer: its links would be overwritten in the list.      *)
Set(t, m) ==
  /\ MayCall /\ ~Armed(t)
  /\ PutOnWheel(t, m, cells)
  /\ UNCHANGED <<slot, entry, next, strayed, running, shows>>

(* The walk has read where it goes on: at next, wherever that is by then.   *)
Stray(t) == strayed' = IF t = next THEN t ELSE strayed

(* Not of a timer that is not armed, whose head is NULL.                   *)
Cancel(t) ==
  /\ MayCall /\ Armed(t)
  /\ cells' = Removed(cells, t)
  /\ Stray(t)
  /\ UNCHANGED <<slot, entry, next, lap, msec, running, shows>>

Reset(t) ==
  /\ MayCall /\ Armed(t)
  /\ PutOnWheel(t, msec[t], Removed(cells, t))
  /\ Stray(t)
  /\ UNCHANGED <<slot, entry, next, running, shows>>

(* The task wakes up and turns the wheel. *)
Pulse ==
  /\ entry = NULL
  /\ slot' = (slot + 1) % Size
  /\ entry' = First(cells, slot')
  /\ strayed' = NULL
  /\ UNCHANGED <<cells, next, lap, msec, running, shows>>

(* A timer with laps to go is passed by; one that was cancelled meanwhile  *)
(* leads where its links still point, be that an entry or a head.          *)
PassBy ==
  /\ entry \in Timers /\ running = NULL /\ lap[entry] # 0
  /\ lap' = [lap EXCEPT ![entry] = @ - 1]
  /\ entry' = NextEntry(cells, entry)
  /\ next' = NULL
  /\ UNCHANGED <<cells, slot, strayed, msec, running, shows>>

(* One that was cancelled is removed all the same, through a head that is  *)
(* NULL, and a head that is taken for a timer has its laps in the next     *)
(* head: see WalkBreaks. There the process ends, and so does the model.    *)
Call ==
  /\ entry \in Timers /\ running = NULL /\ lap[entry] = 0 /\ Armed(entry)
  /\ next' = NextEntry(cells, entry)
  /\ cells' = Removed(cells, entry)
  /\ running' = entry
  /\ UNCHANGED <<slot, entry, strayed, lap, msec, shows>>

(* A bug a run must catch: the subtraction is signed. *)
MutantAgainLap(pulses) == (pulses - 1) \div Size

(* The unsigned (slot - 1) >> BS_TMO_SHIFT. *)
AgainLap(pulses) == ((pulses - 1) % 2^Width) \div Size

(* A bug a run must catch: the walk starts over after a call. *)
MutantReturn ==
  /\ running # NULL
  /\ \/ UNCHANGED <<cells, lap>>
     \/ /\ ~Armed(running)
        /\ LET pulses == (msec[running] + Resolution - 1) \div Resolution
           IN  /\ lap' = [lap EXCEPT ![running] = AgainLap(pulses)]
               /\ cells' = InsertFirst(cells, (slot + pulses) % Size, running)
  /\ running' = NULL
  /\ entry' = First(cells', slot)
  /\ next' = NULL
  /\ UNCHANGED <<slot, strayed, msec, shows>>

(* The routine returns; if it asks to, the timer goes on the wheel again,  *)
(* unless it put itself there.                                             *)
Return ==
  /\ running # NULL
  /\ \/ UNCHANGED <<cells, lap>>
     \/ /\ ~Armed(running)
        /\ LET pulses == msec[running] \div Resolution
                         + (IF (msec[running] % Resolution) # 0 THEN 1 ELSE 0)
           IN  /\ lap' = [lap EXCEPT ![running] = AgainLap(pulses)]
               /\ cells' = InsertFirst(cells, (slot + pulses) % Size, running)
  /\ running' = NULL
  /\ entry' = next
  /\ next' = NULL
  /\ UNCHANGED <<slot, strayed, msec, shows>>

(* bs_tmo_show calls bs_tmo_init first, whatever was there.                *)
Show ==
  /\ shows < MaxShows /\ MayCall
  /\ cells' = Reinitialised(cells)
  /\ slot' = 0
  /\ next' = NULL
  /\ shows' = shows + 1
  /\ UNCHANGED <<entry, strayed, lap, msec, running>>

Next ==
  \/ Pulse \/ PassBy \/ Call \/ Return
  \/ \E t \in Timers :
       \/ Cancel(t) \/ Reset(t)
       \/ \E m \in Msecs : Set(t, m)

Spec == Init /\ [][Next]_vars

(* The task keeps running, and routines return: weak fairness of this. *)
TaskStep == Pulse \/ PassBy \/ Call \/ Return

ShowSpec == Init /\ [][Next \/ Show]_vars

-----------------------------------------------------------------------------
TypeOK ==
  /\ cells.next \in [Slots \cup Timers -> Slots \cup Timers \cup {NULL}]
  /\ cells.prev \in [Slots \cup Timers -> Slots \cup Timers \cup {NULL}]
  /\ cells.head \in [Slots \cup Timers -> Slots \cup {NULL}]
  /\ cells.size \in [Slots -> 0..Cardinality(Timers)]
  /\ slot \in Slots
  /\ entry \in Cells \cup {NULL} /\ next \in Cells \cup {NULL}
  /\ strayed \in Timers \cup {NULL}
  /\ lap \in [Timers -> 0..(2^(Width - Shift) - 1)]
  /\ msec \in [Timers -> Msecs \cup {0}]
  /\ running \in Timers \cup {NULL}

(* The walk is at a cell it cannot handle: a head, or a cancelled timer    *)
(* without laps.                                                           *)
WalkBreaks ==
  /\ entry # NULL /\ running = NULL
  /\ entry \in Slots \/ (lap[entry] = 0 /\ ~Armed(entry))

(* Set, cancel and reset from tasks and from routines inside the walk keep *)
(* every list of the wheel whole, also after a walk that went astray. The  *)
(* walk stays on the list it walks, and so at timers that are armed and    *)
(* never where it breaks, until a routine cancels or resets the timer it   *)
(* goes to next.                                                           *)
WheelIntact ==
  /\ WellLinked(cells)
  /\ strayed = NULL =>
       /\ (entry # NULL /\ running = NULL) => entry \in Members(cells, slot)
       /\ next # NULL => next \in Members(cells, slot)
  /\ WalkBreaks => strayed # NULL

(* Timers of this slot that the walk still has to visit. *)
Pending ==
  Chain(cells, IF running # NULL THEN next ELSE entry)

(* Pulses until the call: a timer in the current slot is due now, or, if   *)
(* the walk is past it, after a full turn.                                 *)
PulsesLeft(t) ==
  IF ~Armed(t) THEN -1
  ELSE LET ahead == (cells.head[t] - slot) % Size
       IN  lap[t] * Size + (IF ahead = 0 /\ t \notin Pending THEN Size ELSE ahead)

(* The wheel with its laps calls every timer on the pulse it was set for,  *)
(* in every walk but those a routine sends astray.                         *)
Service == INSTANCE PulseTimers WITH
  due <- [t \in Timers |-> PulsesLeft(t)], period <- msec, Forever <- 2^Width

ImplementsService ==
  /\ Service!Init
  /\ [][strayed' = NULL => Service!Next]_<<[t \in Timers |-> PulsesLeft(t)], msec, running>>

(* A timer whose time has come is called, cancelled or set anew, unless    *)
(* the walk is sent astray before it comes to it: whatever else routines   *)
(* of the timers before it do to the wheel. It is about timers of a full   *)
(* pulse or more: one that others reset to less in every pulse is due      *)
(* again and again.                                                        *)
DueIsCalled ==
  \A t \in Timers : PulsesLeft(t) \in {0, 1} ~> PulsesLeft(t) \notin {0, 1} \/ strayed # NULL

(* The comment in bs_tmo_show: its bs_tmo_init does nothing when the       *)
(* timers are initialised, so an armed timer stays on the wheel.           *)
ShowForgetsNothing ==
  \A t \in Timers : Armed(t) => t \in Members(cells, cells.head[t])
=============================================================================
