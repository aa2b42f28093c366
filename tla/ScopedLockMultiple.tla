-------------------------- MODULE ScopedLockMultiple --------------------------
(* The recursive Mutex of CommonLibs/Threads.cpp, with the count it keeps    *)
(* beside the pthread mutex, and ScopedLockMultiple, which locks three of    *)
(* them at once (or two, and a third of its own, garbage).  The caller may   *)
(* hold some already and says which; the constructor gives those up too      *)
(* when it cannot have all, and the destructor leaves the mutexes as the     *)
(* constructor found them.  Every lock, try and unlock is a step.            *)
(*                                                                           *)
(* Callers pass the mutexes in one order, and hold one while they block on   *)
(* another only if that other is earlier in the order: guard of Want.        *)
EXTENDS Naturals, FiniteSets

CONSTANTS Threads,
          Waiters,   \* the threads that wait on conditions with Signal::wait
          Nobody

ASSUME LockAssumption ==
  /\ IsFiniteSet(Threads)
  /\ Waiters \subseteq Threads
  /\ Nobody \notin Threads \cup 0..2
  /\ Threads \cap 0..2 = {}

VARIABLES holder,    \* who owns the pthread mutex
          mLockCnt,
          at,        \* the step a thread is at
          round,     \* which order of _lockAll it is trying, 1 to 3
          state,     \* state[]: the arguments it has locked itself
          own,       \* ownA[]: what it had locked before the call
          want,      \* what it blocks on outside of a call
          two        \* called with two mutexes

vars == <<holder, mLockCnt, at, round, state, own, want, two>>

Args == 0..2
Mutexes == Args \cup Threads

(* The mutex behind argument i: garbage is a member of the caller's object. *)
Mutex(t, i) == IF i = 2 /\ two[t] THEN t ELSE i

(* The three orders _lockAll goes through: it blocks on the first, tries    *)
(* the other two, and unlocks two of them when a try fails.                 *)
Orders == << [first |-> 0, tries |-> <<1, 2>>, undo |-> <<1, 0>>],
             [first |-> 1, tries |-> <<0, 2>>, undo |-> <<0, 1>>],
             [first |-> 2, tries |-> <<0, 1>>, undo |-> <<0, 2>>] >>

Order(t) == Orders[round[t]]

Init ==
  /\ holder = [m \in Mutexes |-> Nobody]
  /\ mLockCnt = [m \in Mutexes |-> 0]
  /\ at = [t \in Threads |-> "outside"]
  /\ round = [t \in Threads |-> 1]
  /\ state = [t \in Threads |-> {}]
  /\ own = [t \in Threads |-> {}]
  /\ want = [t \in Threads |-> 0]
  /\ two = [t \in Threads |-> FALSE]

-----------------------------------------------------------------------------
Goto(t, place) == at' = [at EXCEPT ![t] = place]

Acquire(t, m) ==
  /\ holder[m] = Nobody
  /\ holder' = [holder EXCEPT ![m] = t]
  /\ mLockCnt' = [mLockCnt EXCEPT ![m] = @ + 1]

MutantRelease(m) == holder' = [holder EXCEPT ![m] = Nobody] /\ UNCHANGED mLockCnt

Release(m) ==
  /\ holder' = [holder EXCEPT ![m] = Nobody]
  /\ mLockCnt' = [mLockCnt EXCEPT ![m] = @ - 1]

(* Outside of a call: ScopedLock of one mutex.                              *)
Want(t, m) ==
  /\ at[t] = "outside"
  /\ \A k \in own[t] : m < k
  /\ want' = [want EXCEPT ![t] = m]
  /\ Goto(t, "wanting")
  /\ UNCHANGED <<holder, mLockCnt, round, state, own, two>>

Take(t) ==
  /\ at[t] = "wanting"
  /\ Acquire(t, want[t])
  /\ own' = [own EXCEPT ![t] = @ \cup {want[t]}]
  /\ want' = [want EXCEPT ![t] = 0]
  /\ Goto(t, "outside")
  /\ UNCHANGED <<round, state, two>>

Drop(t, m) ==
  /\ at[t] = "outside"
  /\ m \in own[t]
  /\ Release(m)
  /\ own' = [own EXCEPT ![t] = @ \ {m}]
  /\ UNCHANGED <<at, round, state, want, two>>

(* Signal::wait gives the pthread mutex up and takes it again, past the     *)
(* Mutex that counts.                                                       *)
Wait(t, m) ==
  /\ at[t] = "outside" /\ t \in Waiters
  /\ own[t] = {m}
  /\ holder' = [holder EXCEPT ![m] = Nobody]
  /\ want' = [want EXCEPT ![t] = m]
  /\ Goto(t, "waiting")
  /\ UNCHANGED <<mLockCnt, round, state, own, two>>

WakeUp(t) ==
  /\ at[t] = "waiting"
  /\ holder[want[t]] = Nobody
  /\ holder' = [holder EXCEPT ![want[t]] = t]
  /\ want' = [want EXCEPT ![t] = 0]
  /\ Goto(t, "outside")
  /\ UNCHANGED <<mLockCnt, round, state, own, two>>

-----------------------------------------------------------------------------
(* _saveState, with the assertion that the caller holds once what it says.  *)
Enter(t, pair) ==
  /\ at[t] = "outside"
  /\ pair => 2 \notin own[t]
  /\ two' = [two EXCEPT ![t] = pair]
  /\ state' = [state EXCEPT ![t] = own[t]]
  /\ round' = [round EXCEPT ![t] = 1]
  /\ Goto(t, IF \A i \in own[t] : mLockCnt[i] = 1 THEN "lock" ELSE "aborted")
  /\ UNCHANGED <<holder, mLockCnt, own, want>>

Lock(t) ==
  LET i == Order(t).first IN
  /\ at[t] = "lock"
  /\ \/ i \in state[t] /\ UNCHANGED <<holder, mLockCnt, state>>
     \/ /\ i \notin state[t]
        /\ Acquire(t, Mutex(t, i))
        /\ state' = [state EXCEPT ![t] = @ \cup {i}]
  /\ Goto(t, "try1")
  /\ UNCHANGED <<round, own, want, two>>

(* _trylock, and where the && and the if around it lead.                    *)
TryLock(t, i, then) ==
  /\ \/ i \in state[t] /\ UNCHANGED <<holder, mLockCnt, state>> /\ Goto(t, then)
     \/ /\ i \notin state[t]
        /\ Acquire(t, Mutex(t, i))
        /\ state' = [state EXCEPT ![t] = @ \cup {i}]
        /\ Goto(t, then)
     \/ /\ i \notin state[t] /\ holder[Mutex(t, i)] # Nobody
        /\ Goto(t, "undo1")
        /\ UNCHANGED <<holder, mLockCnt, state>>
  /\ UNCHANGED <<round, own, want, two>>

Try1(t) == at[t] = "try1" /\ TryLock(t, Order(t).tries[1], "try2")
Try2(t) == at[t] = "try2" /\ TryLock(t, Order(t).tries[2], "inside")

MutantUnlock(t, i) ==
  IF i \in state[t]
    THEN Release(Mutex(t, i)) /\ UNCHANGED state
    ELSE UNCHANGED <<holder, mLockCnt, state>>

Unlock(t, i) ==
  IF i \in state[t]
    THEN /\ Release(Mutex(t, i))
         /\ state' = [state EXCEPT ![t] = @ \ {i}]
    ELSE UNCHANGED <<holder, mLockCnt, state>>

MutantUndo1(t) ==
  /\ at[t] = "undo1"
  /\ IF Order(t).undo[1] \in own[t]
       THEN UNCHANGED <<holder, mLockCnt, state>>
       ELSE Unlock(t, Order(t).undo[1])
  /\ Goto(t, "undo2")
  /\ UNCHANGED <<round, own, want, two>>

Undo1(t) ==
  /\ at[t] = "undo1"
  /\ Unlock(t, Order(t).undo[1])
  /\ Goto(t, "undo2")
  /\ UNCHANGED <<round, own, want, two>>

Undo2(t) ==
  /\ at[t] = "undo2"
  /\ Unlock(t, Order(t).undo[2])
  /\ round' = [round EXCEPT ![t] = (@ % 3) + 1]
  /\ Goto(t, "lock")
  /\ UNCHANGED <<own, want, two>>

MutantRestoreState(t) ==
  /\ at[t] \in {"inside", "restore"}
  /\ IF state[t] = {}
       THEN /\ Goto(t, "outside")
            /\ UNCHANGED <<holder, mLockCnt, state>>
       ELSE /\ \E i \in state[t] : Unlock(t, i)
            /\ Goto(t, "restore")
  /\ UNCHANGED <<round, own, want, two>>

(* The destructor: _restoreState unlocks in order what the caller did not   *)
(* own; nothing is left to lock, since the constructor returned with all.   *)
RestoreState(t) ==
  LET extra == state[t] \ own[t] IN
  /\ at[t] \in {"inside", "restore"}
  /\ IF extra = {}
       THEN /\ state' = [state EXCEPT ![t] = {}]
            /\ round' = [round EXCEPT ![t] = 1]
            /\ two' = [two EXCEPT ![t] = FALSE]
            /\ Goto(t, "outside")
            /\ UNCHANGED <<holder, mLockCnt>>
       ELSE /\ \E i \in extra : (\A j \in extra : i <= j) /\ Unlock(t, i)
            /\ Goto(t, "restore")
            /\ UNCHANGED <<round, two>>
  /\ UNCHANGED <<own, want>>

-----------------------------------------------------------------------------
(* A failed assertion ends the program. *)
Aborted == \E t \in Threads : at[t] = "aborted"

Step(t) ==
  \/ \E m \in Args : Want(t, m) \/ Drop(t, m) \/ Wait(t, m)
  \/ Take(t)
  \/ WakeUp(t)
  \/ \E pair \in BOOLEAN : Enter(t, pair)
  \/ Lock(t)
  \/ Try1(t)
  \/ Try2(t)
  \/ Undo1(t)
  \/ Undo2(t)
  \/ RestoreState(t)

Next == ~Aborted /\ \E t \in Threads : Step(t)

Spec == Init /\ [][Next]_vars

-----------------------------------------------------------------------------
Places == {"outside", "wanting", "waiting", "lock", "try1", "try2", "undo1", "undo2",
           "inside", "restore", "aborted"}

(* The variables are of their types; a count is never negative.             *)
TypeOK ==
  /\ holder \in [Mutexes -> Threads \cup {Nobody}]
  /\ mLockCnt \in [Mutexes -> Nat]
  /\ at \in [Threads -> Places]
  /\ round \in [Threads -> 1..3]
  /\ state \in [Threads -> SUBSET Args]
  /\ own \in [Threads -> SUBSET Args]
  /\ want \in [Threads -> Args]
  /\ two \in [Threads -> BOOLEAN]

HeldBy(t) == {m \in Mutexes : holder[m] = t}

(* What the constructor promises: it does not return until the thread owns  *)
(* all the mutexes it was given, although it gives up what the thread had   *)
(* before ("all will be re-acquired before this returns").                  *)
AllLockedInside == \A t \in Threads :
  at[t] = "inside" => \A i \in Args : holder[Mutex(t, i)] = t

(* What the destructor promises: out of a call a thread owns exactly what   *)
(* it locked on its own, so each call left the mutexes as it found them.    *)
LeftAsFound == \A t \in Threads :
  at[t] \in {"outside", "wanting"} => HeldBy(t) = own[t]

(* What constructor and destructor of ScopedLockMultiple promise together.  *)
LocksAndRestores == AllLockedInside /\ LeftAsFound

(* The count beside the mutex says how often it is locked, plus one for     *)
(* every thread that waits on a condition with it: Signal::wait gives the   *)
(* mutex to others and leaves the count.                                    *)
Sleepers(m) == {t \in Threads : at[t] = "waiting" /\ want[t] = m}

CountIsHeldAndWaiting == \A m \in Mutexes :
  mLockCnt[m] = Cardinality(Sleepers(m)) + (IF holder[m] = Nobody THEN 0 ELSE 1)

(* The mutex a thread cannot go on without. *)
Blocker(t) == IF at[t] = "wanting" THEN want[t] ELSE Mutex(t, Order(t).first)

Blocked(t) ==
  /\ at[t] \in {"wanting", "lock"}
  /\ at[t] = "lock" => Order(t).first \notin state[t]
  /\ holder[Blocker(t)] # Nobody

(* Callers that agree on the order never wait for each other in a circle,   *)
(* whatever they hold when they call: behind every thread that is blocked   *)
(* some thread owns a mutex and can go on.                                  *)
NoDeadlock == \A t \in Threads :
  Blocked(t) => \E u \in Threads : HeldBy(u) # {} /\ ~Blocked(u)

(* The assertion of _saveState: a caller that holds a mutex once, as it     *)
(* says, finds a count of one.                                              *)
AssertionHolds == ~Aborted
=============================================================================
