---------------------------- MODULE CommonLibsProofs ----------------------------
(* Proofs about nopebts/CommonLibs. ScopedLockMultiple has all its mutexes    *)
(* when the constructor returns, and leaves them as it found them; callers    *)
(* that agree on an order never wait for each other in a circle. Whoever ends *)
(* by exit or by a signal it is registered for leaves no pid file. An object  *)
(* RefCntPointer counts is deleted once and not used afterwards. All for any  *)
(* number of threads, processes, signals and pointers.                        *)
EXTENDS MCCommonLibs, FiniteSetTheorems, SequenceTheorems, TLAPS

-----------------------------------------------------------------------------
(* The locks.                                                                 *)

InCall == {"lock", "try1", "try2", "undo1", "undo2", "inside", "restore"}

(* What a thread holds: out of a call what it locked itself, but for the      *)
(* mutex it waits with; in a call what the array state says.                  *)
Holds(t) ==
  /\ at[t] \in {"outside", "wanting", "aborted"} => HeldBy(t) = own[t]
  /\ at[t] = "waiting" => HeldBy(t) = {} /\ own[t] = {want[t]}
  /\ at[t] \in InCall => HeldBy(t) = {Mutex(t, i) : i \in state[t]}

(* What a thread has when it blocks is later in the order than what it wants; *)
(* _lockAll has given up the rest when it starts another round.               *)
InOrder(t) ==
  /\ at[t] = "wanting" => \A k \in own[t] : want[t] < k
  /\ at[t] = "lock" =>
       IF round[t] = 1 THEN state[t] \in {own[t], {}} ELSE state[t] \subseteq {2}
  /\ at[t] = "undo2" => Order(t).undo[1] \notin state[t]
  /\ round[t] = 3 => /\ at[t] \in {"try1", "undo2"} => state[t] \subseteq {2}
                     /\ at[t] \in {"try2", "undo1"} => state[t] \subseteq {0, 2}

(* How far a round has come, and what the destructor must not unlock.         *)
Locked(t) ==
  /\ at[t] \in {"try1", "try2"} => Order(t).first \in state[t]
  /\ at[t] = "try2" => Order(t).tries[1] \in state[t]
  /\ at[t] = "inside" => state[t] = Args
  /\ at[t] = "restore" => own[t] \subseteq state[t]
  /\ at[t] \in InCall /\ two[t] => 2 \notin own[t]

ThreadInv(t) == Holds(t) /\ InOrder(t) /\ Locked(t)

IInv == TypeOK /\ CountIsHeldAndWaiting /\ \A t \in Threads : ThreadInv(t)

-----------------------------------------------------------------------------
(* The orders of _lockAll, said once for the provers.                         *)
LEMMA OrdersAre ==
  ASSUME NEW r \in 1..3
  PROVE  /\ Orders[r].first = IF r = 1 THEN 0 ELSE IF r = 2 THEN 1 ELSE 2
         /\ Orders[r].tries[1] = IF r = 1 THEN 1 ELSE 0
         /\ Orders[r].tries[2] = IF r = 3 THEN 1 ELSE 2
         /\ Orders[r].undo[1] = IF r = 1 THEN 1 ELSE 0
         /\ Orders[r].undo[2] = IF r = 1 THEN 0 ELSE IF r = 2 THEN 1 ELSE 2
BY DEF Orders

(* An argument is one of the three mutexes, or the third of a call with two;  *)
(* no two arguments are the same mutex.                                       *)
LEMMA MutexIsOne ==
  ASSUME TypeOK, NEW t \in Threads, NEW i \in Args
  PROVE  /\ Mutex(t, i) \in Mutexes
         /\ \A j \in Args : Mutex(t, i) = Mutex(t, j) => i = j
BY LockAssumption DEF Mutex, Mutexes, Args, TypeOK

(* Threads are finitely many, so those that wait on a mutex can be counted.   *)
LEMMA SleepersFinite ==
  ASSUME NEW m
  PROVE  IsFiniteSet(Sleepers(m)) /\ Cardinality(Sleepers(m)) \in Nat
<1>1. Sleepers(m) \in SUBSET Threads
  BY DEF Sleepers
<1> QED BY <1>1, LockAssumption, FS_Subset, FS_CardinalityType

(* Who acquires a mutex has it as well, and nobody else has more or less;     *)
LEMMA AcquireHolds ==
  ASSUME TypeOK, NEW t \in Threads, NEW m \in Mutexes, Acquire(t, m)
  PROVE  /\ HeldBy(t)' = HeldBy(t) \cup {m}
         /\ \A u \in Threads \ {t} : HeldBy(u)' = HeldBy(u)
BY LockAssumption DEF Acquire, HeldBy, TypeOK

(* the count goes with it as long as nobody begins or ends to wait.           *)
LEMMA AcquireCounts ==
  ASSUME TypeOK, CountIsHeldAndWaiting, NEW t \in Threads, NEW m \in Mutexes,
         Acquire(t, m), \A k \in Mutexes : Sleepers(k)' = Sleepers(k)
  PROVE  /\ CountIsHeldAndWaiting'
         /\ holder' \in [Mutexes -> Threads \cup {Nobody}]
         /\ mLockCnt' \in [Mutexes -> Nat]
<1>1. /\ holder' \in [Mutexes -> Threads \cup {Nobody}]
      /\ mLockCnt' \in [Mutexes -> Nat]
  BY DEF Acquire, TypeOK
<1>2. ASSUME NEW k \in Mutexes
      PROVE  mLockCnt'[k] = Cardinality(Sleepers(k)) + (IF holder'[k] = Nobody THEN 0 ELSE 1)
  <2>1. mLockCnt[k] = Cardinality(Sleepers(k)) + (IF holder[k] = Nobody THEN 0 ELSE 1)
    BY DEF CountIsHeldAndWaiting
  <2>2. CASE k = m
    <3>1. /\ holder[m] = Nobody /\ holder'[m] = t /\ t # Nobody
          /\ mLockCnt'[m] = mLockCnt[m] + 1
      BY LockAssumption DEF Acquire, TypeOK
    <3> QED BY <2>1, <2>2, <3>1, SleepersFinite
  <2>3. CASE k # m
    BY <2>1, <2>3 DEF Acquire, TypeOK
  <2> QED BY <2>2, <2>3
<1> QED BY <1>1, <1>2 DEF CountIsHeldAndWaiting

(* The same of the release of a mutex by the thread that has it:              *)
LEMMA ReleaseHolds ==
  ASSUME TypeOK, NEW t \in Threads, NEW m \in HeldBy(t), Release(m)
  PROVE  /\ HeldBy(t)' = HeldBy(t) \ {m}
         /\ \A u \in Threads \ {t} : HeldBy(u)' = HeldBy(u)
BY LockAssumption DEF Release, HeldBy, TypeOK

(* what the thread had was counted once.                                     *)
LEMMA ReleaseCounts ==
  ASSUME TypeOK, CountIsHeldAndWaiting, NEW t \in Threads, NEW m \in HeldBy(t),
         Release(m), \A k \in Mutexes : Sleepers(k)' = Sleepers(k)
  PROVE  /\ CountIsHeldAndWaiting'
         /\ holder' \in [Mutexes -> Threads \cup {Nobody}]
         /\ mLockCnt' \in [Mutexes -> Nat]
<1>1. ASSUME NEW k \in Mutexes
      PROVE  /\ mLockCnt'[k] = Cardinality(Sleepers(k)) + (IF holder'[k] = Nobody THEN 0 ELSE 1)
             /\ mLockCnt'[k] \in Nat
  <2>1. mLockCnt[k] = Cardinality(Sleepers(k)) + (IF holder[k] = Nobody THEN 0 ELSE 1)
    BY DEF CountIsHeldAndWaiting
  <2>2. CASE k = m
    <3>1. /\ holder[m] # Nobody /\ holder'[m] = Nobody
          /\ mLockCnt'[m] = mLockCnt[m] - 1
      BY LockAssumption DEF Release, TypeOK, HeldBy
    <3> QED BY <2>1, <2>2, <3>1, SleepersFinite
  <2>3. CASE k # m
    BY <2>1, <2>3 DEF Release, TypeOK
  <2> QED BY <2>2, <2>3
<1>2. /\ holder' \in [Mutexes -> Threads \cup {Nobody}]
      /\ mLockCnt' = [k \in Mutexes |-> mLockCnt'[k]]
  BY DEF Release, TypeOK, HeldBy
<1>3. mLockCnt' \in [Mutexes -> Nat]
  BY <1>1, <1>2
<1> QED BY <1>1, <1>2, <1>3 DEF CountIsHeldAndWaiting

-----------------------------------------------------------------------------
(* What a step of thread t owes the others and itself.                        *)
Kept(t) ==
  /\ TypeOK' /\ CountIsHeldAndWaiting'
  /\ \A u \in Threads \ {t} : HeldBy(u)' = HeldBy(u)

(* In a call, acquiring one more argument keeps array and mutexes together.   *)
LEMMA GrabKeeps ==
  ASSUME IInv, NEW t \in Threads, NEW i \in Args, NEW p \in InCall, at[t] \in InCall,
         Acquire(t, Mutex(t, i)), state' = [state EXCEPT ![t] = @ \cup {i}],
         Goto(t, p), UNCHANGED <<round, own, want, two>>
  PROVE  Kept(t) /\ Holds(t)'
<1>1. Mutex(t, i) \in Mutexes
  BY MutexIsOne DEF IInv
<1>2. /\ HeldBy(t)' = HeldBy(t) \cup {Mutex(t, i)}
      /\ \A u \in Threads \ {t} : HeldBy(u)' = HeldBy(u)
  BY <1>1, AcquireHolds DEF IInv
<1>3. \A k \in Mutexes : Sleepers(k)' = Sleepers(k)
  BY DEF IInv, TypeOK, Sleepers, Goto, InCall
<1>4. /\ CountIsHeldAndWaiting'
      /\ holder' \in [Mutexes -> Threads \cup {Nobody}]
      /\ mLockCnt' \in [Mutexes -> Nat]
  BY <1>1, <1>3, AcquireCounts DEF IInv
<1>5. TypeOK'
  BY <1>4 DEF IInv, TypeOK, Goto, InCall, Places
<1>6. state'[t] = state[t] \cup {i} /\ at'[t] = p
  BY DEF IInv, TypeOK, Goto
<1>7. HeldBy(t) = {Mutex(t, j) : j \in state[t]}
  BY DEF IInv, ThreadInv, Holds
<1>8. \A j \in Args : Mutex(t, j)' = Mutex(t, j)
  BY DEF Mutex
<1>9. HeldBy(t)' = {Mutex(t, j)' : j \in state'[t]}
  BY <1>2, <1>6, <1>7, <1>8 DEF IInv, TypeOK
<1>10. Holds(t)'
  BY <1>6, <1>9 DEF Holds, InCall
<1> QED BY <1>2, <1>4, <1>5, <1>10 DEF Kept

(* So does _unlock of an argument, whether it is locked or not.               *)
LEMMA UnlockKeeps ==
  ASSUME IInv, NEW t \in Threads, NEW i \in Args, NEW p \in InCall, at[t] \in InCall,
         Unlock(t, i), Goto(t, p), UNCHANGED <<own, want, two>>,
         round' \in [Threads -> 1..3]
  PROVE  /\ Kept(t) /\ Holds(t)'
         /\ state' = [state EXCEPT ![t] = @ \ {i}]
<1> USE DEF IInv
<1>1. HeldBy(t) = {Mutex(t, j) : j \in state[t]}
  BY DEF ThreadInv, Holds
<1>2. \A j \in Args : Mutex(t, j)' = Mutex(t, j)
  BY DEF Mutex
<1>3. \A k \in Mutexes : Sleepers(k)' = Sleepers(k)
  BY DEF TypeOK, Sleepers, Goto, InCall
<1>4. CASE i \in state[t]
  <2>1. Release(Mutex(t, i)) /\ state' = [state EXCEPT ![t] = @ \ {i}]
    BY <1>4 DEF Unlock
  <2>2. Mutex(t, i) \in HeldBy(t)
    BY <1>1, <1>4
  <2>3. /\ HeldBy(t)' = HeldBy(t) \ {Mutex(t, i)}
        /\ \A u \in Threads \ {t} : HeldBy(u)' = HeldBy(u)
    BY <2>1, <2>2, ReleaseHolds
  <2>4. /\ CountIsHeldAndWaiting'
        /\ holder' \in [Mutexes -> Threads \cup {Nobody}]
        /\ mLockCnt' \in [Mutexes -> Nat]
    BY <1>3, <2>1, <2>2, ReleaseCounts
  <2>5. TypeOK'
    BY <2>1, <2>4 DEF TypeOK, Goto, InCall, Places
  <2>6. state'[t] = state[t] \ {i} /\ at'[t] = p /\ state[t] \subseteq Args
    BY <2>1 DEF TypeOK, Goto
  <2>7. \A j \in state[t] : j # i => Mutex(t, j) # Mutex(t, i)
    BY <2>6, MutexIsOne
  <2>8. HeldBy(t)' = {Mutex(t, j)' : j \in state'[t]}
    BY <1>1, <1>2, <2>3, <2>6, <2>7
  <2>9. Holds(t)'
    BY <2>6, <2>8 DEF Holds, InCall
  <2> QED BY <2>1, <2>3, <2>4, <2>5, <2>9 DEF Kept
<1>5. CASE i \notin state[t]
  <2>1. UNCHANGED <<holder, mLockCnt, state>>
    BY <1>5 DEF Unlock
  <2>2. TypeOK' /\ CountIsHeldAndWaiting'
    BY <1>3, <2>1 DEF TypeOK, Goto, InCall, Places, CountIsHeldAndWaiting
  <2>3. \A u \in Threads : HeldBy(u)' = HeldBy(u)
    BY <2>1 DEF HeldBy
  <2>4. HeldBy(t)' = {Mutex(t, j)' : j \in state'[t]}
    BY <1>1, <1>2, <2>1, <2>3 DEF TypeOK
  <2>5. at'[t] = p
    BY DEF Goto, TypeOK
  <2>6. Holds(t)'
    BY <2>4, <2>5 DEF Holds, InCall
  <2>7. state' = [state EXCEPT ![t] = @ \ {i}]
    BY <1>5, <2>1 DEF TypeOK
  <2> QED BY <2>2, <2>3, <2>6, <2>7 DEF Kept
<1> QED BY <1>4, <1>5

(* And a step that changes no mutex.                                          *)
LEMMA StayKeeps ==
  ASSUME IInv, NEW t \in Threads, NEW p \in InCall, at[t] \in InCall,
         Goto(t, p), UNCHANGED <<holder, mLockCnt, state, own, want, two, round>>
  PROVE  Kept(t) /\ Holds(t)'
<1> USE DEF IInv
<1>1. \A k \in Mutexes : Sleepers(k)' = Sleepers(k)
  BY DEF TypeOK, Sleepers, Goto, InCall
<1>2. TypeOK' /\ CountIsHeldAndWaiting'
  BY <1>1 DEF TypeOK, Goto, InCall, Places, CountIsHeldAndWaiting
<1>3. \A u \in Threads : HeldBy(u)' = HeldBy(u)
  BY DEF HeldBy
<1>4. at'[t] = p
  BY DEF Goto, TypeOK
<1>5. HeldBy(t) = {Mutex(t, j) : j \in state[t]}
  BY DEF ThreadInv, Holds
<1>6. \A j \in Args : Mutex(t, j)' = Mutex(t, j)
  BY DEF Mutex
<1>7. HeldBy(t)' = {Mutex(t, j)' : j \in state'[t]}
  BY <1>3, <1>5, <1>6 DEF TypeOK
<1>8. Holds(t)'
  BY <1>4, <1>7 DEF Holds, InCall
<1> QED BY <1>2, <1>3, <1>8 DEF Kept

-----------------------------------------------------------------------------
(* Outside of a call: locks of one mutex, conditions, and the next call.      *)
LEMMA OutsideKeeps ==
  ASSUME IInv, NEW t \in Threads,
         \/ \E m \in Args : Want(t, m) \/ Drop(t, m) \/ Wait(t, m)
         \/ Take(t)
         \/ WakeUp(t)
         \/ \E pair \in BOOLEAN : Enter(t, pair)
  PROVE  Kept(t) /\ ThreadInv(t)'
<1> USE DEF IInv, Goto
<1>0. Args \subseteq Mutexes /\ t # Nobody /\ Nobody \notin Args
  BY LockAssumption DEF Mutexes, Args
<1>1. ASSUME NEW m \in Args, Want(t, m) PROVE Kept(t) /\ ThreadInv(t)'
  <2>1. \A k \in Mutexes : Sleepers(k)' = Sleepers(k)
    BY <1>1 DEF Want, TypeOK, Sleepers
  <2>2. TypeOK' /\ CountIsHeldAndWaiting'
    BY <1>1, <2>1 DEF Want, TypeOK, Places, CountIsHeldAndWaiting
  <2>3. \A u \in Threads : HeldBy(u)' = HeldBy(u)
    BY <1>1 DEF Want, HeldBy
  <2>4. at'[t] = "wanting" /\ want'[t] = m /\ at[t] = "outside" /\ UNCHANGED own
    BY <1>1 DEF Want, TypeOK
  <2>5. ThreadInv(t)'
    BY <1>1, <2>3, <2>4 DEF Want, ThreadInv, Holds, InOrder, Locked, InCall
  <2> QED BY <2>2, <2>3, <2>5 DEF Kept
<1>2. ASSUME NEW m \in Args, Drop(t, m) PROVE Kept(t) /\ ThreadInv(t)'
  <2>1. HeldBy(t) = own[t] /\ m \in HeldBy(t) /\ Release(m)
    BY <1>2 DEF Drop, ThreadInv, Holds
  <2>2. \A k \in Mutexes : Sleepers(k)' = Sleepers(k)
    BY <1>2 DEF Drop, Sleepers
  <2>3. /\ HeldBy(t)' = HeldBy(t) \ {m}
        /\ \A u \in Threads \ {t} : HeldBy(u)' = HeldBy(u)
    BY <2>1, ReleaseHolds
  <2>4. /\ CountIsHeldAndWaiting'
        /\ holder' \in [Mutexes -> Threads \cup {Nobody}]
        /\ mLockCnt' \in [Mutexes -> Nat]
    BY <2>1, <2>2, ReleaseCounts
  <2>5. TypeOK'
    BY <1>2, <2>4 DEF Drop, TypeOK
  <2>6. own'[t] = own[t] \ {m} /\ at'[t] = "outside"
    BY <1>2 DEF Drop, TypeOK
  <2>7. ThreadInv(t)'
    BY <1>2, <2>1, <2>3, <2>6 DEF Drop, ThreadInv, Holds, InOrder, Locked, InCall
  <2> QED BY <2>3, <2>4, <2>5, <2>7 DEF Kept
<1>3. ASSUME NEW m \in Args, Wait(t, m) PROVE Kept(t) /\ ThreadInv(t)'
  <2>1. HeldBy(t) = {m} /\ own[t] = {m} /\ holder[m] = t
    BY <1>3 DEF Wait, ThreadInv, Holds, HeldBy
  <2>2. /\ holder' = [holder EXCEPT ![m] = Nobody] /\ UNCHANGED <<mLockCnt, own>>
        /\ at[t] = "outside" /\ at' = [at EXCEPT ![t] = "waiting"]
        /\ want' = [want EXCEPT ![t] = m]
    BY <1>3 DEF Wait
  <2>3. HeldBy(t)' = {} /\ \A u \in Threads \ {t} : HeldBy(u)' = HeldBy(u)
    BY <1>0, <2>1, <2>2, LockAssumption DEF HeldBy, TypeOK
  <2>4. TypeOK'
    BY <1>0, <1>3 DEF Wait, TypeOK, Places
  <2>5. ASSUME NEW k \in Mutexes
        PROVE  mLockCnt'[k] = Cardinality(Sleepers(k)') + (IF holder'[k] = Nobody THEN 0 ELSE 1)
    <3>1. mLockCnt[k] = Cardinality(Sleepers(k)) + (IF holder[k] = Nobody THEN 0 ELSE 1)
      BY DEF CountIsHeldAndWaiting
    <3>2. CASE k = m
      <4>1. Sleepers(k)' = Sleepers(k) \cup {t} /\ t \notin Sleepers(k)
        BY <2>2, <3>2 DEF Sleepers, TypeOK
      <4>2. Cardinality(Sleepers(k)') = Cardinality(Sleepers(k)) + 1
        BY <4>1, SleepersFinite, FS_AddElement
      <4>3. holder[k] # Nobody /\ holder'[k] = Nobody
        BY <1>0, <2>1, <2>2, <3>2 DEF TypeOK
      <4> QED BY <2>2, <3>1, <4>2, <4>3, SleepersFinite
    <3>3. CASE k # m
      <4>1. Sleepers(k)' = Sleepers(k)
        BY <2>2, <3>3 DEF Sleepers, TypeOK
      <4> QED BY <2>2, <3>1, <3>3, <4>1 DEF TypeOK
    <3> QED BY <3>2, <3>3
  <2>6. CountIsHeldAndWaiting'
    BY <2>5 DEF CountIsHeldAndWaiting
  <2>7. at'[t] = "waiting" /\ want'[t] = m /\ own'[t] = {m}
    BY <2>1, <2>2 DEF TypeOK
  <2>8. ThreadInv(t)'
    BY <1>3, <2>3, <2>7 DEF Wait, ThreadInv, Holds, InOrder, Locked, InCall
  <2> QED BY <2>3, <2>4, <2>6, <2>8 DEF Kept
<1>4. ASSUME Take(t) PROVE Kept(t) /\ ThreadInv(t)'
  <2>1. Acquire(t, want[t]) /\ want[t] \in Mutexes /\ want[t] \in Args /\ HeldBy(t) = own[t]
    BY <1>0, <1>4 DEF Take, TypeOK, ThreadInv, Holds
  <2>2. \A k \in Mutexes : Sleepers(k)' = Sleepers(k)
    BY <1>4 DEF Take, Sleepers, TypeOK
  <2>3. /\ HeldBy(t)' = HeldBy(t) \cup {want[t]}
        /\ \A u \in Threads \ {t} : HeldBy(u)' = HeldBy(u)
    BY <2>1, AcquireHolds
  <2>4. /\ CountIsHeldAndWaiting'
        /\ holder' \in [Mutexes -> Threads \cup {Nobody}]
        /\ mLockCnt' \in [Mutexes -> Nat]
    BY <2>1, <2>2, AcquireCounts
  <2>5. TypeOK'
    BY <1>4, <2>1, <2>4 DEF Take, TypeOK, Places, Args
  <2>6. own'[t] = own[t] \cup {want[t]} /\ at'[t] = "outside"
    BY <1>4 DEF Take, TypeOK
  <2>7. ThreadInv(t)'
    BY <1>4, <2>1, <2>3, <2>6 DEF Take, ThreadInv, Holds, InOrder, Locked, InCall
  <2> QED BY <2>3, <2>4, <2>5, <2>7 DEF Kept
<1>5. ASSUME WakeUp(t) PROVE Kept(t) /\ ThreadInv(t)'
  <2> DEFINE m == want[t]
  <2>1. HeldBy(t) = {} /\ own[t] = {m} /\ m \in Args /\ holder[m] = Nobody
    BY <1>5 DEF WakeUp, ThreadInv, Holds, TypeOK
  <2>2. /\ holder' = [holder EXCEPT ![m] = t] /\ UNCHANGED <<mLockCnt, own>>
        /\ at[t] = "waiting" /\ at' = [at EXCEPT ![t] = "outside"]
        /\ want' = [want EXCEPT ![t] = 0]
    BY <1>5 DEF WakeUp
  <2>3. HeldBy(t)' = {m} /\ \A u \in Threads \ {t} : HeldBy(u)' = HeldBy(u)
    BY <1>0, <2>1, <2>2, LockAssumption DEF HeldBy, TypeOK
  <2>4. TypeOK'
    BY <1>0, <1>5 DEF WakeUp, TypeOK, Places, Args
  <2>5. ASSUME NEW k \in Mutexes
        PROVE  mLockCnt'[k] = Cardinality(Sleepers(k)') + (IF holder'[k] = Nobody THEN 0 ELSE 1)
    <3>1. mLockCnt[k] = Cardinality(Sleepers(k)) + (IF holder[k] = Nobody THEN 0 ELSE 1)
      BY DEF CountIsHeldAndWaiting
    <3>2. CASE k = m
      <4>1. Sleepers(k)' = Sleepers(k) \ {t} /\ t \in Sleepers(k)
        BY <2>2, <3>2 DEF Sleepers, TypeOK
      <4>2. Cardinality(Sleepers(k)') = Cardinality(Sleepers(k)) - 1
        BY <4>1, SleepersFinite, FS_RemoveElement
      <4>3. holder[k] = Nobody /\ holder'[k] # Nobody
        BY <1>0, <2>1, <2>2, <3>2 DEF TypeOK
      <4> QED BY <2>2, <3>1, <4>2, <4>3, SleepersFinite
    <3>3. CASE k # m
      <4>1. Sleepers(k)' = Sleepers(k)
        BY <2>2, <3>3 DEF Sleepers, TypeOK
      <4> QED BY <2>2, <3>1, <3>3, <4>1 DEF TypeOK
    <3> QED BY <3>2, <3>3
  <2>6. CountIsHeldAndWaiting'
    BY <2>5 DEF CountIsHeldAndWaiting
  <2>7. at'[t] = "outside" /\ own'[t] = {m}
    BY <2>1, <2>2 DEF TypeOK
  <2>8. ThreadInv(t)'
    BY <1>5, <2>3, <2>7 DEF WakeUp, ThreadInv, Holds, InOrder, Locked, InCall
  <2> QED BY <2>3, <2>4, <2>6, <2>8 DEF Kept
<1>6. ASSUME NEW pair \in BOOLEAN, Enter(t, pair) PROVE Kept(t) /\ ThreadInv(t)'
  <2>1. \A k \in Mutexes : Sleepers(k)' = Sleepers(k)
    BY <1>6 DEF Enter, TypeOK, Sleepers
  <2>2. TypeOK' /\ CountIsHeldAndWaiting'
    BY <1>6, <2>1 DEF Enter, TypeOK, Places, CountIsHeldAndWaiting
  <2>3. \A u \in Threads : HeldBy(u)' = HeldBy(u)
    BY <1>6 DEF Enter, HeldBy
  <2>4. /\ at'[t] \in {"lock", "aborted"} /\ at[t] = "outside" /\ UNCHANGED own
        /\ two'[t] = pair /\ round'[t] = 1 /\ state'[t] = own[t] /\ (pair => 2 \notin own[t])
    BY <1>6 DEF Enter, TypeOK
  <2>5. HeldBy(t)' = own'[t] /\ own[t] \subseteq Args
    BY <2>3, <2>4 DEF ThreadInv, Holds, TypeOK
  <2>6. \A i \in own[t] : Mutex(t, i)' = i
    BY <2>4 DEF Mutex
  <2>7. HeldBy(t)' = {Mutex(t, i)' : i \in state'[t]}
    BY <2>4, <2>5, <2>6
  <2>8. Holds(t)'
    BY <2>4, <2>5, <2>7 DEF Holds
  <2>9. InOrder(t)' /\ Locked(t)'
    BY <2>4 DEF InOrder, Locked
  <2> QED BY <2>2, <2>3, <2>8, <2>9 DEF Kept, ThreadInv
<1> QED BY <1>1, <1>2, <1>3, <1>4, <1>5, <1>6

(* In the constructor: one round of _lockAll after the other.                 *)
LEMMA LockAllKeeps ==
  ASSUME IInv, NEW t \in Threads, Lock(t) \/ Try1(t) \/ Try2(t) \/ Undo1(t) \/ Undo2(t)
  PROVE  Kept(t) /\ ThreadInv(t)'
<1> USE DEF IInv
<1>0. /\ state[t] \subseteq Args /\ Args = {0, 1, 2}
      /\ round[t] \in 1..3 /\ (round[t] = 1 \/ round[t] = 2 \/ round[t] = 3)
      /\ Order(t) = Orders[round[t]]
  BY DEF TypeOK, Args, Order
<1>1. /\ Order(t).first = IF round[t] = 1 THEN 0 ELSE IF round[t] = 2 THEN 1 ELSE 2
      /\ Order(t).tries[1] = IF round[t] = 1 THEN 1 ELSE 0
      /\ Order(t).tries[2] = IF round[t] = 3 THEN 1 ELSE 2
      /\ Order(t).undo[1] = IF round[t] = 1 THEN 1 ELSE 0
      /\ Order(t).undo[2] = IF round[t] = 1 THEN 0 ELSE IF round[t] = 2 THEN 1 ELSE 2
  BY <1>0, OrdersAre
<1>2. ASSUME UNCHANGED <<round, own, two>>
      PROVE  /\ round'[t] = round[t] /\ own'[t] = own[t] /\ two'[t] = two[t]
             /\ Order(t)' = Order(t)
  BY <1>2 DEF Order
<1>3. ASSUME Lock(t) PROVE Kept(t) /\ ThreadInv(t)'
  <2> DEFINE i == Order(t).first
  <2>1. /\ at[t] = "lock" /\ Goto(t, "try1") /\ UNCHANGED <<round, own, want, two>>
        /\ "try1" \in InCall /\ at[t] \in InCall /\ i \in Args
    BY <1>0, <1>1, <1>3 DEF Lock, InCall
  <2>2. Kept(t) /\ Holds(t)' /\ state' = [state EXCEPT ![t] = @ \cup {i}]
    <3>1. CASE i \in state[t] /\ UNCHANGED <<holder, mLockCnt, state>>
      BY <2>1, <3>1, StayKeeps DEF TypeOK
    <3>2. CASE Acquire(t, Mutex(t, i)) /\ state' = [state EXCEPT ![t] = @ \cup {i}]
      BY <2>1, <3>2, GrabKeeps
    <3> QED BY <1>3, <3>1, <3>2 DEF Lock
  <2>3. state'[t] = state[t] \cup {i} /\ at'[t] = "try1"
    BY <2>1, <2>2 DEF TypeOK, Goto
  <2>4. Locked(t)'
    BY <1>2, <2>1, <2>3 DEF Locked, ThreadInv, InCall
  <2>5. InOrder(t)'
    BY <1>1, <1>2, <2>1, <2>3 DEF InOrder, ThreadInv
  <2> QED BY <2>2, <2>4, <2>5 DEF ThreadInv
<1>4. ASSUME NEW i \in Args, NEW then \in {"try2", "inside"}, at[t] \in {"try1", "try2"},
             TryLock(t, i, then)
      PROVE  /\ Kept(t) /\ Holds(t)' /\ UNCHANGED <<round, own, two>>
             /\ \/ at'[t] = then /\ state'[t] = state[t] \cup {i}
                \/ at'[t] = "undo1" /\ state'[t] = state[t] /\ i \notin state[t]
  <2>1. /\ then \in InCall /\ "undo1" \in InCall /\ at[t] \in InCall
        /\ UNCHANGED <<round, own, want, two>>
    BY <1>4 DEF TryLock, InCall
  <2>2. CASE i \in state[t] /\ UNCHANGED <<holder, mLockCnt, state>> /\ Goto(t, then)
    BY <2>1, <2>2, StayKeeps DEF TypeOK, Goto
  <2>3. CASE /\ Acquire(t, Mutex(t, i)) /\ state' = [state EXCEPT ![t] = @ \cup {i}]
             /\ Goto(t, then)
    <3>1. Kept(t) /\ Holds(t)'
      BY <2>1, <2>3, GrabKeeps
    <3> QED BY <2>1, <2>3, <3>1 DEF TypeOK, Goto
  <2>4. CASE /\ i \notin state[t] /\ Goto(t, "undo1")
             /\ UNCHANGED <<holder, mLockCnt, state>>
    BY <2>1, <2>4, StayKeeps DEF TypeOK, Goto
  <2> QED BY <1>4, <2>2, <2>3, <2>4 DEF TryLock
<1>5. ASSUME Try1(t) PROVE Kept(t) /\ ThreadInv(t)'
  <2> DEFINE i == Order(t).tries[1]
  <2>1. i \in Args /\ at[t] = "try1" /\ TryLock(t, i, "try2")
    BY <1>0, <1>1, <1>5 DEF Try1
  <2>2. /\ Kept(t) /\ Holds(t)' /\ UNCHANGED <<round, own, two>>
        /\ \/ at'[t] = "try2" /\ state'[t] = state[t] \cup {i}
           \/ at'[t] = "undo1" /\ state'[t] = state[t] /\ i \notin state[t]
    BY <1>4, <2>1
  <2>3. Locked(t)'
    BY <1>2, <2>1, <2>2 DEF Locked, ThreadInv, InCall
  <2>4. InOrder(t)'
    BY <1>1, <1>2, <2>1, <2>2 DEF InOrder, ThreadInv
  <2> QED BY <2>2, <2>3, <2>4 DEF ThreadInv
<1>6. ASSUME Try2(t) PROVE Kept(t) /\ ThreadInv(t)'
  <2> DEFINE i == Order(t).tries[2]
  <2>1. i \in Args /\ at[t] = "try2" /\ TryLock(t, i, "inside")
    BY <1>0, <1>1, <1>6 DEF Try2
  <2>2. /\ Kept(t) /\ Holds(t)' /\ UNCHANGED <<round, own, two>>
        /\ \/ at'[t] = "inside" /\ state'[t] = state[t] \cup {i}
           \/ at'[t] = "undo1" /\ state'[t] = state[t] /\ i \notin state[t]
    BY <1>4, <2>1
  <2>3. state[t] \cup {i} = Args
    BY <1>0, <1>1, <2>1 DEF Locked, ThreadInv
  <2>4. Locked(t)'
    BY <1>2, <2>1, <2>2, <2>3 DEF Locked, ThreadInv, InCall
  <2>5. InOrder(t)'
    BY <1>1, <1>2, <2>1, <2>2 DEF InOrder, ThreadInv
  <2> QED BY <2>2, <2>4, <2>5 DEF ThreadInv
<1>7. ASSUME Undo1(t) PROVE Kept(t) /\ ThreadInv(t)'
  <2> DEFINE i == Order(t).undo[1]
  <2>1. /\ at[t] = "undo1" /\ Goto(t, "undo2") /\ Unlock(t, i)
        /\ UNCHANGED <<round, own, want, two>>
        /\ "undo2" \in InCall /\ at[t] \in InCall /\ i \in Args
    BY <1>0, <1>1, <1>7 DEF Undo1, InCall
  <2>2. round' \in [Threads -> 1..3]
    BY <2>1 DEF TypeOK
  <2>3. Kept(t) /\ Holds(t)' /\ state' = [state EXCEPT ![t] = @ \ {i}]
    BY <2>1, <2>2, UnlockKeeps
  <2>4. state'[t] = state[t] \ {i} /\ at'[t] = "undo2"
    BY <2>1, <2>3 DEF TypeOK, Goto
  <2>5. Locked(t)'
    BY <1>2, <2>1, <2>4 DEF Locked, ThreadInv, InCall
  <2>6. InOrder(t)'
    BY <1>1, <1>2, <2>1, <2>4 DEF InOrder, ThreadInv
  <2> QED BY <2>3, <2>5, <2>6 DEF ThreadInv
<1>8. ASSUME Undo2(t) PROVE Kept(t) /\ ThreadInv(t)'
  <2> DEFINE i == Order(t).undo[2]
  <2>1. /\ at[t] = "undo2" /\ Goto(t, "lock") /\ Unlock(t, i)
        /\ UNCHANGED <<own, want, two>>
        /\ "lock" \in InCall /\ at[t] \in InCall /\ i \in Args
        /\ round' = [round EXCEPT ![t] = (@ % 3) + 1]
    BY <1>0, <1>1, <1>8 DEF Undo2, InCall
  <2>2. /\ round' \in [Threads -> 1..3]
        /\ round'[t] = IF round[t] = 3 THEN 1 ELSE round[t] + 1
    BY <1>0, <2>1 DEF TypeOK
  <2>3. Kept(t) /\ Holds(t)' /\ state' = [state EXCEPT ![t] = @ \ {i}]
    BY <2>1, <2>2, UnlockKeeps
  <2>4. state'[t] = state[t] \ {i} /\ at'[t] = "lock"
    BY <2>1, <2>3 DEF TypeOK, Goto
  <2>5. Locked(t)'
    BY <2>1, <2>4 DEF Locked, ThreadInv, InCall
  <2>6. IF round[t] = 3 THEN state'[t] = {} ELSE state'[t] \subseteq {2}
    BY <1>0, <1>1, <2>1, <2>4 DEF InOrder, ThreadInv
  <2>7. InOrder(t)'
    BY <1>0, <2>2, <2>4, <2>6 DEF InOrder
  <2> QED BY <2>3, <2>5, <2>7 DEF ThreadInv
<1> QED BY <1>3, <1>5, <1>6, <1>7, <1>8

(* And in the destructor, which unlocks what the caller did not own.          *)
LEMMA RestoreKeeps ==
  ASSUME IInv, NEW t \in Threads, RestoreState(t)
  PROVE  Kept(t) /\ ThreadInv(t)'
<1> USE DEF IInv
<1> DEFINE extra == state[t] \ own[t]
<1>1. /\ at[t] \in {"inside", "restore"} /\ at[t] \in InCall /\ UNCHANGED <<own, want>>
      /\ own[t] \subseteq state[t] /\ state[t] \subseteq Args /\ own[t] \subseteq Args
  BY DEF RestoreState, ThreadInv, Locked, TypeOK, InCall
<1>2. HeldBy(t) = {Mutex(t, j) : j \in state[t]} /\ (two[t] => 2 \notin own[t])
  BY <1>1 DEF ThreadInv, Holds, Locked
<1>3. CASE extra = {}
  <2>1. /\ state' = [state EXCEPT ![t] = {}] /\ round' = [round EXCEPT ![t] = 1]
        /\ two' = [two EXCEPT ![t] = FALSE] /\ Goto(t, "outside")
        /\ UNCHANGED <<holder, mLockCnt>>
    BY <1>3 DEF RestoreState
  <2>2. \A k \in Mutexes : Sleepers(k)' = Sleepers(k)
    BY <1>1, <2>1 DEF TypeOK, Sleepers, Goto
  <2>3. TypeOK' /\ CountIsHeldAndWaiting'
    BY <1>1, <2>1, <2>2 DEF TypeOK, Goto, Places, CountIsHeldAndWaiting
  <2>4. \A u \in Threads : HeldBy(u)' = HeldBy(u)
    BY <2>1 DEF HeldBy
  <2>5. state[t] = own[t] /\ \A i \in own[t] : Mutex(t, i) = i
    BY <1>1, <1>2, <1>3 DEF Mutex
  <2>6. HeldBy(t)' = own'[t] /\ at'[t] = "outside"
    <3>1. {Mutex(t, j) : j \in state[t]} = own[t]
      BY <2>5
    <3> QED BY <1>1, <1>2, <2>1, <2>4, <3>1 DEF TypeOK, Goto
  <2>7. ThreadInv(t)'
    BY <2>6, <2>1 DEF ThreadInv, Holds, InOrder, Locked, InCall
  <2> QED BY <2>3, <2>4, <2>7 DEF Kept
<1>4. CASE extra # {}
  <2>1. PICK i \in extra : Unlock(t, i)
    BY <1>4 DEF RestoreState
  <2>2. /\ Goto(t, "restore") /\ "restore" \in InCall /\ i \in Args
        /\ UNCHANGED <<round, two, own, want>>
    BY <1>1, <1>4 DEF RestoreState, InCall
  <2>3. round' \in [Threads -> 1..3]
    BY <2>2 DEF TypeOK
  <2>4. Kept(t) /\ Holds(t)' /\ state' = [state EXCEPT ![t] = @ \ {i}]
    BY <1>1, <2>1, <2>2, <2>3, UnlockKeeps
  <2>5. state'[t] = state[t] \ {i} /\ at'[t] = "restore"
    BY <2>2, <2>4 DEF TypeOK, Goto
  <2>6. InOrder(t)' /\ Locked(t)'
    BY <1>1, <1>2, <2>2, <2>5 DEF InOrder, Locked
  <2> QED BY <2>4, <2>6 DEF ThreadInv
<1> QED BY <1>3, <1>4

-----------------------------------------------------------------------------
(* A step of one thread is none of another, whose mutexes it leaves.          *)
LEMMA StepKeeps ==
  ASSUME IInv, NEW t \in Threads, Step(t)
  PROVE  IInv'
<1>1. Kept(t) /\ ThreadInv(t)'
  BY OutsideKeeps, LockAllKeeps, RestoreKeeps DEF Step
<1>2. ASSUME NEW u \in Threads \ {t} PROVE ThreadInv(u)'
  <2>1. HeldBy(u)' = HeldBy(u)
    BY <1>1 DEF Kept
  <2>2. /\ at'[u] = at[u] /\ round'[u] = round[u] /\ state'[u] = state[u]
        /\ own'[u] = own[u] /\ want'[u] = want[u] /\ two'[u] = two[u]
    BY DEF IInv, TypeOK, Step, Want, Take, Drop, Wait, WakeUp, Enter, Lock, Try1, Try2,
           TryLock, Undo1, Undo2, Unlock, RestoreState, Goto
  <2>3. \A i \in Args : Mutex(u, i)' = Mutex(u, i)
    BY <2>2 DEF Mutex
  <2>4. Order(u)' = Order(u) /\ state[u] \subseteq Args
    BY <2>2 DEF Order, IInv, TypeOK
  <2>5. ThreadInv(u)
    BY DEF IInv
  <2>6. {Mutex(u, i)' : i \in state'[u]} = {Mutex(u, i) : i \in state[u]}
    BY <2>2, <2>3, <2>4
  <2>7. Holds(u)'
    BY <2>1, <2>2, <2>5, <2>6 DEF ThreadInv, Holds
  <2>8. InOrder(u)' /\ Locked(u)'
    BY <2>2, <2>4, <2>5 DEF ThreadInv, InOrder, Locked
  <2> QED BY <2>7, <2>8 DEF ThreadInv
<1> QED BY <1>1, <1>2 DEF IInv, Kept

(* The invariant of the locks: each thread holds what its place and the array *)
(* state say, and TypeOK and the count beside each mutex go with it.          *)
THEOREM LockInvariant == Spec => []IInv
<1>1. Init => IInv
  <2> SUFFICES ASSUME Init PROVE IInv
    OBVIOUS
  <2>1. TypeOK
    BY DEF Init, TypeOK, Places, Args
  <2>2. \A t \in Threads : HeldBy(t) = {}
    BY LockAssumption DEF Init, HeldBy
  <2>3. \A t \in Threads : ThreadInv(t)
    BY <2>2 DEF Init, ThreadInv, Holds, InOrder, Locked, InCall
  <2>4. ASSUME NEW m \in Mutexes PROVE Sleepers(m) = {} /\ holder[m] = Nobody /\ mLockCnt[m] = 0
    BY DEF Init, Sleepers
  <2>5. CountIsHeldAndWaiting
    BY <2>4, FS_EmptySet DEF CountIsHeldAndWaiting
  <2> QED BY <2>1, <2>3, <2>5 DEF IInv
<1>2. IInv /\ [Next]_vars => IInv'
  <2> SUFFICES ASSUME IInv, [Next]_vars PROVE IInv'
    OBVIOUS
  <2>1. CASE UNCHANGED vars
    BY <2>1 DEF vars, IInv, TypeOK, CountIsHeldAndWaiting, Sleepers, ThreadInv,
           Holds, InOrder,
                Locked, HeldBy, Mutex, Order
  <2>2. CASE Next
    BY <2>2, StepKeeps DEF Next
  <2> QED BY <2>1, <2>2
<1> QED BY <1>1, <1>2, PTL DEF Spec

(* The count of a mutex is right, but for threads that wait on a condition,   *)
(* which Signal::wait counts as if they held it.                              *)
THEOREM CountIsRight == Spec => []CountIsHeldAndWaiting
<1>1. IInv => CountIsHeldAndWaiting
  BY DEF IInv
<1> QED BY <1>1, LockInvariant, PTL

(* Inside of a ScopedLockMultiple a thread has all its mutexes, and after it  *)
(* those it had before, whatever order of _lockAll succeeded.                 *)
THEOREM LocksAllAndRestores == Spec => []LocksAndRestores
<1>1. IInv => LocksAndRestores
  <2> SUFFICES ASSUME IInv PROVE AllLockedInside /\ LeftAsFound
    BY DEF LocksAndRestores
  <2>1. ASSUME NEW t \in Threads, at[t] = "inside", NEW i \in Args
        PROVE  holder[Mutex(t, i)] = t
    <3>1. Mutex(t, i) \in HeldBy(t)
      BY <2>1 DEF IInv, ThreadInv, Holds, Locked, InCall
    <3> QED BY <3>1 DEF HeldBy
  <2>2. LeftAsFound
    BY DEF IInv, ThreadInv, Holds, LeftAsFound
  <2> QED BY <2>1, <2>2 DEF AllLockedInside
<1> QED BY <1>1, LockInvariant, PTL

-----------------------------------------------------------------------------
(* The third mutex of a call with two is nobody else's.                       *)
LEMMA GarbageIsOwn ==
  ASSUME IInv, NEW t \in Threads, NEW u \in Threads, t \in HeldBy(u)
  PROVE  u = t /\ 2 \in state[t]
<1>1. ThreadInv(u) /\ TypeOK /\ t \notin Args
  BY LockAssumption DEF IInv, Args
<1>2. own[u] \subseteq Args /\ state[u] \subseteq Args
  BY <1>1 DEF TypeOK
<1>3. at[u] \in InCall
  BY <1>1, <1>2 DEF ThreadInv, Holds, TypeOK, Places, InCall
<1>4. PICK i \in state[u] : t = Mutex(u, i)
  BY <1>1, <1>3 DEF ThreadInv, Holds
<1> QED BY <1>1, <1>2, <1>4 DEF Mutex

(* A thread that is blocked wants one of the three mutexes, and whoever has   *)
(* it is not blocked or wants an earlier one: so no circle can close.         *)
LEMMA BlockedOnEarlier ==
  ASSUME IInv, NEW t \in Threads, Blocked(t)
  PROVE  /\ Blocker(t) \in 0..2
         /\ \A m \in HeldBy(t) \cap Args : Blocker(t) < m
         /\ \E u \in Threads : Blocker(t) \in HeldBy(u)
<1>1. ThreadInv(t) /\ TypeOK
  BY DEF IInv
<1>2. \A m \in Mutexes : holder[m] # Nobody => \E u \in Threads : m \in HeldBy(u)
  BY <1>1 DEF TypeOK, HeldBy
<1>3. CASE at[t] = "wanting"
  <2>1. Blocker(t) = want[t] /\ want[t] \in Args /\ HeldBy(t) = own[t]
    BY <1>1, <1>3 DEF Blocker, TypeOK, ThreadInv, Holds
  <2> QED BY <1>1, <1>2, <1>3, <2>1 DEF Blocked, ThreadInv, InOrder, Args, Mutexes
<1>4. CASE at[t] = "lock"
  <2> DEFINE f == Order(t).first
  <2>1. /\ f \notin state[t] /\ holder[Mutex(t, f)] # Nobody /\ Blocker(t) = Mutex(t, f)
    BY <1>4 DEF Blocked, Blocker
  <2>2. /\ f = IF round[t] = 1 THEN 0 ELSE IF round[t] = 2 THEN 1 ELSE 2
        /\ f \in Args
    BY <1>1, OrdersAre DEF TypeOK, Order, Args
  <2>3. HeldBy(t) = {Mutex(t, i) : i \in state[t]} /\ state[t] \subseteq Args
    BY <1>1, <1>4 DEF ThreadInv, Holds, InCall, TypeOK
  <2>4. PICK u \in Threads : Mutex(t, f) \in HeldBy(u)
    BY <1>1, <1>2, <2>1, <2>2, MutexIsOne
  <2>5. Mutex(t, f) = f
    <3>1. t \notin HeldBy(u) \/ f # 2
      BY <2>1, GarbageIsOwn
    <3> QED BY <2>4, <3>1 DEF Mutex
  <2>6. \A i \in state[t] : f < i
    BY <1>1, <1>4, <2>1, <2>2, <2>3 DEF ThreadInv, InOrder, Args, TypeOK
  <2>7. \A m \in HeldBy(t) \cap Args : m \in state[t]
    BY <2>3, LockAssumption DEF Mutex, Args
  <2> QED BY <2>1, <2>2, <2>4, <2>5, <2>6, <2>7 DEF Args
<1> QED BY <1>3, <1>4 DEF Blocked

(* Callers that lock single mutexes in the order of the arguments, and hold   *)
(* any of them when they construct a ScopedLockMultiple, never wait for each  *)
(* other in a circle: behind who is blocked, somebody with a mutex goes on.   *)
THEOREM NobodyWaitsInACircle == Spec => []NoDeadlock
<1>1. ASSUME IInv PROVE NoDeadlock
  <2> DEFINE Somebody == \E u \in Threads : HeldBy(u) # {} /\ ~Blocked(u)
  <2>1. ASSUME NEW t \in Threads, Blocked(t)
        PROVE  /\ Blocker(t) \in 0..2
               /\ Somebody \/ \E u \in Threads : Blocked(u) /\ Blocker(u) < Blocker(t)
    <3>1. Blocker(t) \in 0..2
      BY <1>1, <2>1, BlockedOnEarlier
    <3>2. PICK u \in Threads : Blocker(t) \in HeldBy(u)
      BY <1>1, <2>1, BlockedOnEarlier
    <3>3. ASSUME Blocked(u) PROVE Blocker(u) < Blocker(t)
      BY <1>1, <3>1, <3>2, <3>3, BlockedOnEarlier DEF Args
    <3> QED BY <3>1, <3>2, <3>3
  <2> HIDE DEF Somebody
  <2>2. \A t \in Threads : Blocked(t) /\ Blocker(t) = 0 => Somebody
    BY <2>1
  <2>3. \A t \in Threads : Blocked(t) /\ Blocker(t) = 1 => Somebody
    BY <2>1, <2>2
  <2>4. \A t \in Threads : Blocked(t) /\ Blocker(t) = 2 => Somebody
    BY <2>1, <2>2, <2>3
  <2>5. \A t \in Threads : Blocked(t) => Somebody
    BY <2>1, <2>2, <2>3, <2>4
  <2> QED BY <2>5 DEF NoDeadlock, Somebody
<1> QED BY <1>1, LockInvariant, PTL

-----------------------------------------------------------------------------
(* The registration of a program.                                             *)

Frame == [sig : Self!Signals, cleaned : BOOLEAN]

Phases == {"off", "verified", "register", "list", "running", "exit", "destroy",
           "gone", "killed"}

SelfTypeOK ==
  /\ file \in Processes \cup {NoFile}
  /\ phase \in [Processes -> Phases]
  /\ action \in [Processes -> [Self!Signals -> {"default", "handler", "ignore"}]]
  /\ listed \in [Processes -> 0..NumSignals]
  /\ named \in [Processes -> BOOLEAN]
  /\ frames \in [Processes -> Seq(Frame)]

(* A process knows its file from the end of the registration on, when it is *)
(* registered for all signals,                                              *)
Registered(p) ==
  /\ phase[p] \in {"running", "exit", "destroy"} => named[p] /\ listed[p] = NumSignals
  /\ phase[p] \in {"off", "verified", "register", "list"} => ~named[p]
  /\ phase[p] \in {"off", "verified"} => listed[p] = 0
  /\ phase[p] = "list" => listed[p] < NumSignals

(* no fatal signal that is listed finds its default action while the       *)
(* process lives,                                                           *)
Caught(p) ==
  Self!Alive(p) => \A s \in Self!Signals \ Harmless :
    s <= listed[p] \/ (phase[p] = "list" /\ s = listed[p] + 1) => action[p][s] # "default"

(* and once a handler is through, the file is not that of the process.     *)
Cleaned(p) ==
  Self!Alive(p) /\ named[p] => \A i \in 1..Len(frames[p]) : frames[p][i].cleaned => file # p

(* That is NothingLeft, said of one process: it has not created the file,   *)
(* or has removed it.                                                       *)
Leaves(p) ==
  file = p => phase[p] \in {"register", "list", "running", "exit", "killed"}

ProcessInv(p) == Registered(p) /\ Caught(p) /\ Cleaned(p) /\ Leaves(p)

SelfInv == SelfTypeOK /\ \A p \in Processes : ProcessInv(p)

-----------------------------------------------------------------------------
(* What Signalled, Handler and Rethrow do to the handlers on the stack: a    *)
(* new one is on top of the others, which keep their order,                  *)
LEMMA Push ==
  ASSUME NEW f \in Seq(Frame), NEW e \in Frame
  PROVE  /\ <<e>> \o f \in Seq(Frame)
         /\ \A i \in 1..Len(<<e>> \o f) :
              (<<e>> \o f)[i] = e \/ \E j \in 1..Len(f) : (<<e>> \o f)[i] = f[j]
<1>1. <<e>> \in Seq(Frame) /\ Len(<<e>>) = 1 /\ <<e>>[1] = e
  OBVIOUS
<1>2. <<e>> \o f \in Seq(Frame) /\ Len(<<e>> \o f) = 1 + Len(f)
  BY <1>1, ConcatProperties
<1>3. \A i \in 1..(1 + Len(f)) : (<<e>> \o f)[i] = IF i <= 1 THEN e ELSE f[i - 1]
  BY <1>1, ConcatProperties
<1>4. Len(f) \in Nat
  BY LenProperties
<1> QED BY <1>2, <1>3, <1>4

(* one that has returned leaves the others as they were,                     *)
LEMMA Pop ==
  ASSUME NEW f \in Seq(Frame), f # <<>>
  PROVE  /\ Tail(f) \in Seq(Frame)
         /\ \A i \in 1..Len(Tail(f)) : \E j \in 1..Len(f) : Tail(f)[i] = f[j]
<1>1. Tail(f) \in Seq(Frame) /\ Len(Tail(f)) = Len(f) - 1
  BY HeadTailProperties
<1>2. \A i \in 1..Len(Tail(f)) : Tail(f)[i] = f[i + 1]
  BY HeadTailProperties
<1>3. Len(f) \in Nat
  BY LenProperties
<1> QED BY <1>1, <1>2, <1>3

(* and the newest, when it has called Exit, only remembers that.             *)
LEMMA Clean ==
  ASSUME NEW f \in Seq(Frame), f # <<>>
  PROVE  [f EXCEPT ![1].cleaned = TRUE] \in Seq(Frame)
<1>1. 1 \in 1..Len(f) /\ f[1] \in Frame
  BY EmptySeq, ElementOfSeq
<1>2. [f[1] EXCEPT !.cleaned = TRUE] \in Frame
  BY <1>1 DEF Frame
<1>3. [f EXCEPT ![1] = [f[1] EXCEPT !.cleaned = TRUE]] \in Seq(Frame)
  BY <1>1, <1>2, ExceptSeq
<1> QED BY <1>3

-----------------------------------------------------------------------------
(* Before the first start everything has its type.                           *)
LEMMA InitType == Self!SelfAssumption /\ Self!Init => SelfTypeOK
<1> SUFFICES ASSUME Self!SelfAssumption, Self!Init PROVE SelfTypeOK
  OBVIOUS
<1>1. 0 \in 0..NumSignals
  BY DEF Self!SelfAssumption
<1>2. \A p \in Processes : <<>> \in Seq(Frame)
  BY EmptySeq
<1> QED BY <1>1, <1>2 DEF Self!Init, SelfTypeOK, Phases

(* No step of a process gives a variable a value of another type: List has  *)
(* a signal left to list, since Catch was before it.                        *)
LEMMA StepType ==
  ASSUME Self!SelfAssumption, SelfTypeOK, NEW p \in Processes, Registered(p), Self!Step(p)
  PROVE  SelfTypeOK'
<1> USE DEF SelfTypeOK, Phases, Self!Goto
<1>1. ASSUME Self!VerifyAlone(p) PROVE SelfTypeOK'
  BY <1>1 DEF Self!VerifyAlone
<1>2. ASSUME Self!CreateFile(p) PROVE SelfTypeOK'
  BY <1>2 DEF Self!CreateFile
<1>3. ASSUME Self!CreateFails(p) PROVE SelfTypeOK'
  BY <1>3 DEF Self!CreateFails
<1>4. ASSUME Self!Catch(p) PROVE SelfTypeOK'
  BY <1>4 DEF Self!Catch
<1>5. ASSUME Self!List(p) PROVE SelfTypeOK'
  <2>1. listed[p] + 1 \in 0..NumSignals
    BY <1>5 DEF Self!List, Registered, Self!SelfAssumption
  <2> QED BY <1>5, <2>1 DEF Self!List
<1>6. ASSUME Self!Name(p) PROVE SelfTypeOK'
  BY <1>6 DEF Self!Name
<1>7. ASSUME Self!Finish(p) PROVE SelfTypeOK'
  BY <1>7 DEF Self!Finish
<1>8. ASSUME Self!AtExit(p) PROVE SelfTypeOK'
  BY <1>8 DEF Self!AtExit, Self!Unlinked
<1>9. ASSUME Self!Destroy(p) PROVE SelfTypeOK'
  <2>1. 0 \in 0..NumSignals
    BY DEF Self!SelfAssumption
  <2> QED BY <1>9, <2>1 DEF Self!Destroy
<1>10. ASSUME Self!Kill(p) PROVE SelfTypeOK'
  BY <1>10 DEF Self!Kill
<1>11. ASSUME Self!Handler(p) PROVE SelfTypeOK'
  <2>1. [frames[p] EXCEPT ![1].cleaned = TRUE] \in Seq(Frame)
    BY <1>11, Clean DEF Self!Handler
  <2>2. frames' \in [Processes -> Seq(Frame)]
    BY <1>11, <2>1 DEF Self!Handler
  <2>3. file' \in Processes \cup {NoFile}
    BY <1>11 DEF Self!Handler, Self!Unlinked
  <2> QED BY <1>11, <2>2, <2>3 DEF Self!Handler
<1>12. ASSUME Self!Rethrow(p) PROVE SelfTypeOK'
  <2>1. Tail(frames[p]) \in Seq(Frame) /\ Head(frames[p]) \in Frame
    BY <1>12, HeadTailProperties DEF Self!Rethrow
  <2>2. frames' \in [Processes -> Seq(Frame)]
    BY <1>12, <2>1 DEF Self!Rethrow
  <2>3. phase' \in [Processes -> Phases]
    BY <1>12 DEF Self!Rethrow, Self!Die
  <2>4. action' \in [Processes -> [Self!Signals -> {"default", "handler", "ignore"}]]
    BY <1>12, <2>1 DEF Self!Rethrow, Frame
  <2> QED BY <1>12, <2>2, <2>3, <2>4 DEF Self!Rethrow
<1>13. ASSUME NEW s \in Self!Signals, Self!Signalled(p, s) PROVE SelfTypeOK'
  <2>1. [sig |-> s, cleaned |-> FALSE] \in Frame
    BY DEF Frame
  <2>2. <<[sig |-> s, cleaned |-> FALSE]>> \o frames[p] \in Seq(Frame)
    BY <2>1, Push
  <2>3. frames' \in [Processes -> Seq(Frame)]
    BY <1>13, <2>2 DEF Self!Signalled
  <2>4. phase' \in [Processes -> Phases]
    BY <1>13 DEF Self!Signalled, Self!Die
  <2>5. action' = action \/ action' = [action EXCEPT ![p][s] = "ignore"]
    BY <1>13 DEF Self!Signalled
  <2>6. action' \in [Processes -> [Self!Signals -> {"default", "handler", "ignore"}]]
    <3>1. CASE action' = action
      BY <3>1
    <3>2. CASE action' = [action EXCEPT ![p][s] = "ignore"]
      BY <3>2
    <3> QED BY <2>5, <3>1, <3>2
  <2> QED BY <1>13, <2>3, <2>4, <2>6 DEF Self!Signalled
<1> QED
  BY <1>1, <1>2, <1>3, <1>4, <1>5, <1>6, <1>7, <1>8, <1>9, <1>10, <1>11, <1>12, <1>13
     DEF Self!Step, Self!Start

-----------------------------------------------------------------------------
(* A step of one process is none of another: all that can change for this   *)
(* one is that its file is removed, or becomes that of the first.           *)
LEMMA OthersKeep ==
  ASSUME Self!SelfAssumption, SelfTypeOK, NEW p \in Processes, NEW q \in Processes,
         p # q, ProcessInv(q), Self!Step(p)
  PROVE  ProcessInv(q)'
<1>1. /\ phase'[q] = phase[q] /\ action'[q] = action[q] /\ listed'[q] = listed[q]
      /\ named'[q] = named[q] /\ frames'[q] = frames[q]
  BY DEF Self!Step, Self!Start, Self!VerifyAlone, Self!CreateFile, Self!CreateFails,
         Self!Catch, Self!List, Self!Name, Self!Finish,
         Self!AtExit, Self!Destroy, Self!Kill, Self!Handler, Self!Rethrow,
         Self!Signalled, Self!Die, Self!Goto, SelfTypeOK
<1>2. file' = q => file = q
  BY DEF Self!Step, Self!Start, Self!VerifyAlone, Self!CreateFile, Self!CreateFails,
         Self!Catch, Self!List, Self!Name, Self!Finish,
         Self!AtExit, Self!Destroy, Self!Kill, Self!Handler, Self!Rethrow,
         Self!Signalled, Self!Unlinked, Self!Goto, Self!SelfAssumption
<1> QED
  BY <1>1, <1>2 DEF ProcessInv, Registered, Caught, Cleaned, Leaves, Self!Alive

(* Who gets a signal it is not registered for has not been told its file.   *)
LEMMA UncaughtIsUnnamed ==
  ASSUME Self!SelfAssumption, SelfTypeOK, NEW p \in Processes, ProcessInv(p), Self!Alive(p),
         NEW s \in Self!Signals \ Harmless, action[p][s] = "default"
  PROVE  ~named[p]
<1>1. listed[p] \in Int /\ ~(s <= listed[p])
  BY DEF ProcessInv, Caught, SelfTypeOK
<1>2. listed[p] # NumSignals
  BY <1>1 DEF Self!Signals
<1> QED BY <1>2 DEF ProcessInv, Registered, Self!Alive, SelfTypeOK, Phases

(* A process that steps keeps its part of the invariant.                    *)
LEMMA ProcessKeeps ==
  ASSUME Self!SelfAssumption, SelfTypeOK, NEW p \in Processes, ProcessInv(p), Self!Step(p)
  PROVE  ProcessInv(p)'
<1> USE DEF SelfTypeOK, Phases, Self!Goto, ProcessInv
<1>1. ASSUME Self!VerifyAlone(p) PROVE ProcessInv(p)'
  <2>1. /\ frames[p] = <<>> /\ phase[p] = "off" /\ phase'[p] \in {"verified", "gone"}
        /\ UNCHANGED <<file, action, listed, named, frames>>
    BY <1>1 DEF Self!VerifyAlone
  <2>2. Registered(p)' /\ Cleaned(p)'
    BY <2>1 DEF Registered, Cleaned, Self!Alive
  <2>3. Caught(p)'
    BY <2>1 DEF Registered, Caught, Self!Alive, Self!Signals
  <2>4. Leaves(p)'
    BY <2>1 DEF Leaves
  <2> QED BY <2>2, <2>3, <2>4
<1>2. ASSUME Self!CreateFile(p) PROVE ProcessInv(p)'
  BY <1>2 DEF Self!CreateFile, Registered, Caught, Cleaned, Leaves, Self!Alive
<1>3. ASSUME Self!CreateFails(p) PROVE ProcessInv(p)'
  BY <1>3 DEF Self!CreateFails, Registered, Caught, Cleaned, Leaves, Self!Alive
<1>4. ASSUME Self!Catch(p) PROVE ProcessInv(p)'
  BY <1>4 DEF Self!Catch, Registered, Caught, Cleaned, Leaves, Self!Alive
<1>5. ASSUME Self!List(p) PROVE ProcessInv(p)'
  <2>1. /\ phase[p] = "list" /\ phase'[p] = "register" /\ listed'[p] = listed[p] + 1
        /\ UNCHANGED <<file, action, named, frames>>
    BY <1>5 DEF Self!List
  <2>2. \A s \in Self!Signals : s <= listed[p] + 1 => s <= listed[p] \/ s = listed[p] + 1
    BY DEF Self!Signals
  <2>3. Caught(p)'
    BY <2>1, <2>2 DEF Caught, Self!Alive
  <2> QED BY <2>1, <2>3 DEF Registered, Cleaned, Leaves, Self!Alive
<1>6. ASSUME Self!Name(p) PROVE ProcessInv(p)'
  BY <1>6 DEF Self!Name, Registered, Caught, Cleaned, Leaves, Self!Alive
<1>7. ASSUME Self!Finish(p) PROVE ProcessInv(p)'
  BY <1>7 DEF Self!Finish, Registered, Caught, Cleaned, Leaves, Self!Alive
<1>8. ASSUME Self!AtExit(p) PROVE ProcessInv(p)'
  BY <1>8 DEF Self!AtExit, Self!Unlinked, Registered, Caught, Cleaned, Leaves,
         Self!Alive, Self!SelfAssumption
<1>9. ASSUME Self!Destroy(p) PROVE ProcessInv(p)'
  BY <1>9 DEF Self!Destroy, Registered, Caught, Cleaned, Leaves, Self!Alive
<1>10. ASSUME Self!Kill(p) PROVE ProcessInv(p)'
  BY <1>10 DEF Self!Kill, Registered, Caught, Cleaned, Leaves, Self!Alive
<1>11. ASSUME Self!Handler(p) PROVE ProcessInv(p)'
  <2>1. Registered(p)' /\ Caught(p)'
    BY <1>11 DEF Self!Handler, Registered, Caught, Self!Alive
  <2>2. Leaves(p)'
    BY <1>11 DEF Self!Handler, Self!Unlinked, Leaves, Self!SelfAssumption
  <2>3. CASE named[p]
    <3>1. Head(frames[p]).sig \in Self!Signals
      <4>1. frames[p] \in Seq(Frame) /\ frames[p] # <<>>
        BY <1>11 DEF Self!Handler
      <4>2. Head(frames[p]) \in Frame
        BY <4>1, HeadTailProperties
      <4> QED BY <4>2 DEF Frame
    <3>2. Head(frames[p]).sig <= listed[p]
      BY <1>11, <2>3, <3>1 DEF Self!Handler, Registered, Self!Alive, Self!Signals,
             Self!SelfAssumption
    <3>3. file' # p
      BY <1>11, <2>3, <3>2 DEF Self!Handler, Self!Unlinked, Self!SelfAssumption
    <3> QED BY <2>1, <2>2, <3>3 DEF Cleaned
  <2>4. CASE ~named[p]
    BY <1>11, <2>1, <2>2, <2>4 DEF Self!Handler, Cleaned
  <2> QED BY <2>3, <2>4
<1>12. ASSUME Self!Rethrow(p) PROVE ProcessInv(p)'
  <2> DEFINE s == Head(frames[p]).sig
  <2>1. Head(frames[p]) \in Frame /\ Head(frames[p]) = frames[p][1] /\ 1 \in 1..Len(frames[p])
    BY <1>12, HeadTailProperties, EmptySeq DEF Self!Rethrow
  <2>2. named[p] => file # p
    BY <1>12, <2>1 DEF Self!Rethrow, Cleaned
  <2>3. frames'[p] = Tail(frames[p]) /\ frames[p] # <<>>
    BY <1>12 DEF Self!Rethrow
  <2>4. Self!Alive(p)' => UNCHANGED phase /\ s \in Harmless
    BY <1>12 DEF Self!Rethrow, Self!Die, Self!Alive
  <2>5. Registered(p)'
    BY <1>12 DEF Self!Rethrow, Self!Die, Registered, Self!Alive
  <2>6. Caught(p)'
    BY <1>12, <2>1, <2>4 DEF Self!Rethrow, Caught, Self!Alive, Frame
  <2>7. Cleaned(p)'
    <3>1. \A i \in 1..Len(frames'[p]) : \E j \in 1..Len(frames[p]) : frames'[p][i] = frames[p][j]
      BY <2>3, Pop
    <3> QED BY <1>12, <3>1, <2>4 DEF Self!Rethrow, Cleaned, Self!Alive
  <2>8. Leaves(p)'
    BY <1>12, <2>2 DEF Self!Rethrow, Self!Die, Leaves, Self!Alive
  <2> QED BY <2>5, <2>6, <2>7, <2>8
<1>13. ASSUME NEW s \in Self!Signals, Self!Signalled(p, s) PROVE ProcessInv(p)'
  <2>1. CASE action[p][s] = "default"
    <3>1. /\ s \notin Harmless /\ Self!Die(p) /\ Self!Alive(p)
          /\ UNCHANGED <<file, action, listed, named, frames>>
      BY <1>13, <2>1 DEF Self!Signalled
    <3>2. ~named[p]
      BY <2>1, <3>1, UncaughtIsUnnamed
    <3> QED
      BY <3>1, <3>2 DEF Self!Die, Registered, Caught, Cleaned, Leaves, Self!Alive
  <2>2. CASE action[p][s] = "handler"
    <3> DEFINE e == [sig |-> s, cleaned |-> FALSE]
    <3>1. /\ Self!Alive(p) /\ UNCHANGED <<file, phase, listed, named>>
          /\ action' = [action EXCEPT ![p][s] = "ignore"]
          /\ frames'[p] = <<e>> \o frames[p]
      BY <1>13, <2>2 DEF Self!Signalled
    <3>2. \A i \in 1..Len(frames'[p]) :
            frames'[p][i] = e \/ \E j \in 1..Len(frames[p]) : frames'[p][i] = frames[p][j]
      <4>1. e \in Frame /\ frames[p] \in Seq(Frame)
        BY DEF Frame
      <4> HIDE DEF e
      <4> QED BY <3>1, <4>1, Push
    <3>3. Cleaned(p)'
      BY <3>1, <3>2 DEF Cleaned, Self!Alive
    <3> QED BY <3>1, <3>3 DEF Registered, Caught, Leaves, Self!Alive
  <2> QED BY <1>13, <2>1, <2>2 DEF Self!Signalled
<1> QED
  BY <1>1, <1>2, <1>3, <1>4, <1>5, <1>6, <1>7, <1>8, <1>9, <1>10, <1>11, <1>12, <1>13
     DEF Self!Step, Self!Start

-----------------------------------------------------------------------------
(* The invariant of SelfDetect and UnixSignal: a process that knows its pid *)
(* file catches every fatal signal, and a handler that is through has       *)
(* removed the file, however deep the handlers are nested.                  *)
THEOREM SelfInvariant == Self!Spec => []SelfInv
<1>0. Self!SelfAssumption
  BY SelfAssumption
<1>1. Self!Init => SelfInv
  <2> SUFFICES ASSUME Self!Init, NEW p \in Processes PROVE ProcessInv(p)
    BY <1>0, InitType DEF SelfInv
  <2> QED
    BY <1>0 DEF Self!Init, ProcessInv, Registered, Caught, Cleaned, Leaves, Self!Alive,
           Self!SelfAssumption
<1>2. SelfInv /\ [Self!Next]_(Self!selfVars) => SelfInv'
  <2> SUFFICES ASSUME SelfInv, [Self!Next]_(Self!selfVars) PROVE SelfInv'
    OBVIOUS
  <2>1. CASE UNCHANGED Self!selfVars
    BY <2>1 DEF SelfInv, SelfTypeOK, ProcessInv, Registered, Caught, Cleaned, Leaves,
           Self!Alive, Self!selfVars
  <2>2. ASSUME NEW p \in Processes, Self!Step(p) PROVE SelfInv'
    <3>1. SelfTypeOK'
      BY <1>0, <2>2, StepType DEF SelfInv, ProcessInv
    <3>2. ASSUME NEW q \in Processes PROVE ProcessInv(q)'
      BY <1>0, <2>2, ProcessKeeps, OthersKeep DEF SelfInv
    <3> QED BY <3>1, <3>2 DEF SelfInv
  <2> QED BY <2>1, <2>2 DEF Self!Next
<1> QED BY <1>1, <1>2, PTL DEF Self!Spec

(* No process that exits, or dies of a signal it is registered for or while *)
(* it looks for another, leaves a pid file that keeps the program from      *)
(* starting again: SelfDetect::Exit is reached on every way out but SIGKILL.*)
THEOREM NothingIsLeft == Self!Spec => []NothingLeft
<1>1. SelfInv => NothingLeft
  BY DEF SelfInv, SelfTypeOK, ProcessInv, Leaves, NothingLeft, Self!NothingLeft
<1> QED BY <1>1, SelfInvariant, PTL

-----------------------------------------------------------------------------
(* Proofs about RefCntPointer: however the calls of any number of threads mix,  *)
(* on any finite number of pointers, an object is deleted once, when the last   *)
(* pointer to it lets go, and nothing reaches it afterwards.                    *)
(*                                                                              *)
(* CountedOnce speaks of operations that are over, and is not inductive. While  *)
(* an operation runs, the count is the number of tokens: one for a pointer that *)
(* keeps the object, one for the copy an assignment was passed, one for what a  *)
(* pointer had and has not let go. A thread that uses an object has a token, or *)
(* sits between the last count and the deletion, alone with the object; or      *)
(* between the creation and the first count, alone too.                         *)

(* A pointer is counted in what it keeps: what it has, or, while an operation *)
(* replaces that, from its count on what it is given. Until then what it had  *)
(* is still counted; and so is the copy an assignment was passed.             *)
Keeps(p) ==
  LET d == doing[Owner[p]]
  IN  IF d.to # p THEN rcPointer[p]
      ELSE IF d.op \in {"assign", "object"} /\ d.at >= 3 THEN d.new ELSE NULL

Passed(t) == IF doing[t].op = "assign" /\ doing[t].at \in 2..7 THEN doing[t].new ELSE NULL

Had(t) ==
  LET d == doing[t]
  IN  IF \/ d.op \in {"assign", "object"} /\ d.at <= 3
         \/ d.op = "free" /\ d.at = 1
      THEN d.old ELSE NULL

Keepers(o) == {p \in Pointers : Keeps(p) = o}
Passers(o) == {t \in Holders : Passed(t) = o}
Havers(o)  == {t \in Holders : Had(t) = o}

Counts(o) ==
  mRefCnt[o] = Cardinality(Keepers(o)) + Cardinality(Passers(o)) + Cardinality(Havers(o))

Doings ==
  [op : {"none", "copy", "assign", "object", "free"}, at : 1..7,
   to : Pointers \cup {NULL}, from : Pointers \cup {NULL},
   new : Objects \cup {NULL}, old : Objects \cup {NULL}]

(* The places of an operation, and what it has to do there. The last count of *)
(* an assignment never deletes.                                               *)
Formed(d) ==
  /\ d \in Doings
  /\ d.op = "none" => d = Nothing
  /\ d.op # "none" => d.to # NULL
  /\ d.op = "copy" => d.at \in 1..2 /\ d.old = NULL /\ d.from # NULL
  /\ d.op = "assign" => /\ d.at = 1 <=> d.from # NULL
                        /\ d.at = 4 => d.old # NULL
  /\ d.op = "object" => /\ d.at \in 1..4 /\ d.from = NULL
                        /\ d.at = 4 => d.old # NULL
  /\ d.op = "free" => d.at \in 1..4 /\ d.from = NULL /\ d.new = NULL /\ d.old # NULL

(* What a thread at each place of its operation can rely on.                  *)
Relies(t) ==
  LET d == doing[t] IN
  /\ d.op # "none" => Owner[d.to] = t
  /\ d.from # NULL => /\ rcPointer[d.from] = d.new
                      /\ \A s \in Holders : doing[s].to = d.from => s = t
  /\ d.op = "copy" => /\ rcPointer[d.to] = IF d.at = 1 THEN NULL ELSE d.new
                      /\ d.from = d.to => d.new = NULL
  /\ d.op = "assign" => /\ d.at <= 3 => rcPointer[d.to] = d.old
                        /\ d.at = 7 => rcPointer[d.to] = d.new
  /\ d.op = "object" => rcPointer[d.to] = IF d.at = 1 THEN d.old ELSE d.new
  /\ d.op = "free" /\ d.at = 1 => rcPointer[d.to] = d.old

Uses(d, o) == \E i \in Ahead(d) : ObjectAt(d, i) = o

(* Nobody but t can reach o.                                                  *)
Alone(t, o) ==
  /\ life[o] = "alive" /\ mRefCnt[o] = 0
  /\ \A s \in Holders \ {t} : ~Uses(doing[s], o)

Deletes(t) == <<doing[t].op, doing[t].at>> \in {<<"assign", 4>>, <<"object", 4>>, <<"free", 2>>}
Takes(t) == doing[t].op = "object" /\ doing[t].at <= 2 /\ doing[t].new # NULL

(* An object that is given to its first pointer is reached through no other.  *)
TakesWhatLives(t) ==
  Takes(t) =>
    \/ Alone(t, doing[t].new)
    \/ doing[t].old = doing[t].new
    \/ \E q \in Pointers \ {doing[t].to} : Owner[q] = t /\ rcPointer[q] = doing[t].new

DeletesAlone(t) == Deletes(t) => Alone(t, doing[t].old)

Lives(o) ==
  /\ mRefCnt[o] > 0 => life[o] = "alive"
  /\ life[o] = "alive" /\ mRefCnt[o] = 0 =>
       \E t \in Holders : \/ Deletes(t) /\ doing[t].old = o
                          \/ Takes(t) /\ doing[t].new = o

RefTypes ==
  /\ mRefCnt \in [Objects -> Int]
  /\ life \in [Objects -> {"unborn", "alive", "deleted"}]
  /\ rcPointer \in [Pointers -> Objects \cup {NULL}]
  /\ doing \in [Holders -> Doings]

RefInv ==
  /\ RefTypes
  /\ \A t \in Holders : Formed(doing[t]) /\ Relies(t)
  /\ \A t \in Holders : TakesWhatLives(t) /\ DeletesAlone(t)
  /\ \A o \in Objects : Lives(o)
  /\ \A o \in Objects : Counts(o)
  /\ \A o \in Objects : Settled(o)
-----------------------------------------------------------------------------
(* What the constants are.                                                    *)
LEMMA Finite ==
  /\ IsFiniteSet(Holders) /\ IsFiniteSet(Pointers)
  /\ Owner \in [Pointers -> Holders]
  /\ NULL \notin Objects /\ NULL \notin Pointers
BY RefCntAssumption

(* The programs, call by call.                                                *)
LEMMA Programs ==
  /\ Len(Program("none")) = 0
  /\ Len(Program("copy")) = 2 /\ Program("copy")[1] = "set" /\ Program("copy")[2] = "inc"
  /\ Len(Program("assign")) = 8
  /\ Program("assign")[1] = "inc" /\ Program("assign")[2] = "inc"
  /\ Program("assign")[3] = "rcDec" /\ Program("assign")[4] = "deleteOld"
  /\ Program("assign")[5] = "reset" /\ Program("assign")[6] = "set"
  /\ Program("assign")[7] = "dropNew" /\ Program("assign")[8] = "deleteNew"
  /\ Len(Program("object")) = 4
  /\ Program("object")[1] = "set" /\ Program("object")[2] = "inc"
  /\ Program("object")[3] = "dropOld" /\ Program("object")[4] = "deleteOld"
  /\ Len(Program("free")) = 4
  /\ Program("free")[1] = "rcDec" /\ Program("free")[2] = "deleteOld"
  /\ Program("free")[3] = "reset" /\ Program("free")[4] = "set"
<1>1. /\ Program("none") = <<>>
      /\ Program("copy") = <<"set", "inc">>
      /\ Program("assign") = Assignment
      /\ Program("object") = <<"set", "inc", "dropOld", "deleteOld">>
      /\ Program("free") = <<"rcDec", "deleteOld", "reset", "set">>
  BY DEF Program
<1> QED BY <1>1 DEF Assignment

(* What an operation still uses.                                              *)
UsesNew(d) ==
  \/ d.op \in {"copy", "assign"}
  \/ d.op = "object" /\ d.at <= 2

UsesOld(d) ==
  \/ d.op = "assign" /\ d.at <= 4
  \/ d.op = "object"
  \/ d.op = "free" /\ d.at <= 2

(* The objects an operation still has calls on, by its place.                 *)
LEMMA UsesWhat ==
  ASSUME NEW d, Formed(d), NEW o \in Objects
  PROVE  Uses(d, o) <=> (UsesNew(d) /\ d.new = o) \/ (UsesOld(d) /\ d.old = o)
<1>0. o # NULL
  BY Finite
<1>1. d.op \in {"none", "copy", "assign", "object", "free"} /\ d.at \in 1..7
  BY DEF Formed, Doings
<1>2. CASE d.op = "none"
  <2>1. d.at = 1 /\ Len(Calls(d)) = 0
    BY <1>2, Programs DEF Formed, Nothing, Doing, Calls
  <2> QED BY <1>2, <2>1 DEF Uses, Ahead, UsesNew, UsesOld
<1>3. CASE d.op = "copy"
  <2>1. Ahead(d) = d.at..2 /\ d.at \in 1..2
    BY <1>3, Programs DEF Ahead, Calls, Formed
  <2>2. ObjectAt(d, 1) = d.new /\ ObjectAt(d, 2) = d.new
    BY <1>3, Programs DEF ObjectAt, Calls
  <2>3. Uses(d, o) <=> \E i \in d.at..2 : ObjectAt(d, i) = o
    BY <2>1 DEF Uses
  <2>4. \A i \in d.at..2 : i = 1 \/ i = 2
    BY <2>1
  <2> QED BY <1>3, <2>1, <2>2, <2>3, <2>4 DEF UsesNew, UsesOld
<1>4. CASE d.op = "assign"
  <2>1. Ahead(d) = d.at..8
    BY <1>4, Programs DEF Ahead, Calls
  <2>2. /\ ObjectAt(d, 1) = d.new /\ ObjectAt(d, 2) = d.new
        /\ ObjectAt(d, 3) = d.old /\ ObjectAt(d, 4) = d.old /\ ObjectAt(d, 5) = NULL
        /\ ObjectAt(d, 6) = d.new /\ ObjectAt(d, 7) = d.new /\ ObjectAt(d, 8) = d.new
    BY <1>4, Programs DEF ObjectAt, Calls
  <2>3. Uses(d, o) <=> \E i \in d.at..8 : ObjectAt(d, i) = o
    BY <2>1 DEF Uses
  <2>4. \A i \in d.at..8 : i = 1 \/ i = 2 \/ i = 3 \/ i = 4 \/ i = 5 \/ i = 6 \/ i = 7 \/ i = 8
    BY <1>1
  <2>5. 7 \in d.at..8 /\ (d.at <= 4 => 4 \in d.at..8)
    BY <1>1
  <2> QED BY <1>0, <1>1, <1>4, <2>2, <2>3, <2>4, <2>5 DEF UsesNew, UsesOld
<1>5. CASE d.op = "object"
  <2>1. Ahead(d) = d.at..4 /\ d.at \in 1..4
    BY <1>5, Programs DEF Ahead, Calls, Formed
  <2>2. /\ ObjectAt(d, 1) = d.new /\ ObjectAt(d, 2) = d.new
        /\ ObjectAt(d, 3) = d.old /\ ObjectAt(d, 4) = d.old
    BY <1>5, Programs DEF ObjectAt, Calls
  <2>3. Uses(d, o) <=> \E i \in d.at..4 : ObjectAt(d, i) = o
    BY <2>1 DEF Uses
  <2>4. \A i \in d.at..4 : i = 1 \/ i = 2 \/ i = 3 \/ i = 4
    BY <2>1
  <2>5. 4 \in d.at..4 /\ (d.at <= 2 => 2 \in d.at..4)
    BY <2>1
  <2> QED BY <1>5, <2>1, <2>2, <2>3, <2>4, <2>5 DEF UsesNew, UsesOld
<1>6. CASE d.op = "free"
  <2>1. Ahead(d) = d.at..4 /\ d.at \in 1..4 /\ d.new = NULL
    BY <1>6, Programs DEF Ahead, Calls, Formed
  <2>2. /\ ObjectAt(d, 1) = d.old /\ ObjectAt(d, 2) = d.old
        /\ ObjectAt(d, 3) = NULL /\ ObjectAt(d, 4) = d.new
    BY <1>6, Programs DEF ObjectAt, Calls
  <2>3. Uses(d, o) <=> \E i \in d.at..4 : ObjectAt(d, i) = o
    BY <2>1 DEF Uses
  <2>4. \A i \in d.at..4 : i = 1 \/ i = 2 \/ i = 3 \/ i = 4
    BY <2>1
  <2>5. d.at <= 2 => 2 \in d.at..4
    BY <2>1
  <2> QED BY <1>0, <1>6, <2>1, <2>2, <2>3, <2>4, <2>5 DEF UsesNew, UsesOld
<1> QED BY <1>1, <1>2, <1>3, <1>4, <1>5, <1>6

(* Whether the pointer still gets what it is given.                           *)
Sets(d) ==
  \/ d.op \in {"copy", "object"} /\ d.at = 1
  \/ d.op = "assign" /\ d.at <= 6
  \/ d.op = "free"

(* Said once of the programs.                                                 *)
LEMMA SetsWhat ==
  ASSUME NEW d, Formed(d)
  PROVE  (\E i \in Ahead(d) : Calls(d)[i] = "set") <=> Sets(d)
<1>1. d.op \in {"none", "copy", "assign", "object", "free"} /\ d.at \in 1..7
  BY DEF Formed, Doings
<1>2. CASE d.op = "none"
  BY <1>2, Programs DEF Formed, Nothing, Doing, Calls, Ahead, Sets
<1>3. CASE d.op = "copy"
  <2>1. Ahead(d) = d.at..2 /\ d.at \in 1..2 /\ Calls(d) = Program("copy")
    BY <1>3, Programs DEF Ahead, Calls, Formed
  <2>2. \A i \in 1..2 : i = 1 \/ i = 2
    OBVIOUS
  <2> QED BY <1>3, <2>1, <2>2, Programs DEF Sets
<1>4. CASE d.op = "assign"
  <2>1. Ahead(d) = d.at..8 /\ Calls(d) = Program("assign")
    BY <1>4, Programs DEF Ahead, Calls
  <2>2. \A i \in 1..8 : i = 1 \/ i = 2 \/ i = 3 \/ i = 4 \/ i = 5 \/ i = 6 \/ i = 7 \/ i = 8
    OBVIOUS
  <2> QED BY <1>1, <1>4, <2>1, <2>2, Programs DEF Sets
<1>5. CASE d.op = "object"
  <2>1. Ahead(d) = d.at..4 /\ d.at \in 1..4 /\ Calls(d) = Program("object")
    BY <1>5, Programs DEF Ahead, Calls, Formed
  <2>2. \A i \in 1..4 : i = 1 \/ i = 2 \/ i = 3 \/ i = 4
    OBVIOUS
  <2> QED BY <1>5, <2>1, <2>2, Programs DEF Sets
<1>6. CASE d.op = "free"
  <2>1. Ahead(d) = d.at..4 /\ d.at \in 1..4 /\ Calls(d) = Program("free")
    BY <1>6, Programs DEF Ahead, Calls, Formed
  <2>2. \A i \in 1..4 : i = 1 \/ i = 2 \/ i = 3 \/ i = 4
    OBVIOUS
  <2> QED BY <1>6, <2>1, <2>2, Programs DEF Sets
<1> QED BY <1>1, <1>2, <1>3, <1>4, <1>5, <1>6

(* The counts and discounts of an operation that are still to come.           *)
IncAt(d, i) ==
  \/ d.op = "copy" /\ i = 2
  \/ d.op = "assign" /\ i \in d.at..2
  \/ d.op = "object" /\ i = 2 /\ d.at <= 2

OldDecAt(d, i) ==
  \/ d.op \in {"assign", "object"} /\ i = 3 /\ d.at <= 3
  \/ d.op = "free" /\ i = 1 /\ d.at = 1

Decs == {"rcDec", "dropOld", "dropNew"}

(* Said once of the programs, for every call.                                 *)
LEMMA CallsWhat ==
  ASSUME NEW d, Formed(d), NEW i \in 1..8
  PROVE  /\ i \in Ahead(d) /\ Calls(d)[i] \in {"inc"} <=> IncAt(d, i)
         /\ i \in Ahead(d) /\ Calls(d)[i] \in Decs <=>
              OldDecAt(d, i) \/ (d.op = "assign" /\ i = 7)
         /\ IncAt(d, i) => ObjectAt(d, i) = d.new
         /\ OldDecAt(d, i) => ObjectAt(d, i) = d.old
         /\ d.op = "assign" /\ i = 7 => ObjectAt(d, i) = d.new
<1>1. d.op \in {"none", "copy", "assign", "object", "free"} /\ d.at \in 1..7
  BY DEF Formed, Doings
<1>2. CASE d.op = "none"
  BY <1>2, Programs DEF Formed, Nothing, Doing, Calls, Ahead, IncAt, OldDecAt
<1>3. CASE d.op = "copy"
  <2>1. Ahead(d) = d.at..2 /\ d.at \in 1..2 /\ Calls(d) = Program("copy")
    BY <1>3, Programs DEF Ahead, Calls, Formed
  <2>2. i \in Ahead(d) => i = 1 \/ i = 2
    BY <2>1
  <2> QED BY <1>3, <2>1, <2>2, Programs DEF IncAt, OldDecAt, Decs, ObjectAt
<1>4. CASE d.op = "assign"
  <2>1. Ahead(d) = d.at..8 /\ Calls(d) = Program("assign")
    BY <1>4, Programs DEF Ahead, Calls
  <2>2. i = 1 \/ i = 2 \/ i = 3 \/ i = 4 \/ i = 5 \/ i = 6 \/ i = 7 \/ i = 8
    OBVIOUS
  <2> QED BY <1>1, <1>4, <2>1, <2>2, Programs DEF IncAt, OldDecAt, Decs, ObjectAt
<1>5. CASE d.op = "object"
  <2>1. Ahead(d) = d.at..4 /\ d.at \in 1..4 /\ Calls(d) = Program("object")
    BY <1>5, Programs DEF Ahead, Calls, Formed
  <2>2. i \in Ahead(d) => i = 1 \/ i = 2 \/ i = 3 \/ i = 4
    BY <2>1
  <2> QED BY <1>5, <2>1, <2>2, Programs DEF IncAt, OldDecAt, Decs, ObjectAt
<1>6. CASE d.op = "free"
  <2>1. Ahead(d) = d.at..4 /\ d.at \in 1..4 /\ Calls(d) = Program("free")
    BY <1>6, Programs DEF Ahead, Calls, Formed
  <2>2. i \in Ahead(d) => i = 1 \/ i = 2 \/ i = 3 \/ i = 4
    BY <2>1
  <2> QED BY <1>6, <2>1, <2>2, Programs DEF IncAt, OldDecAt, Decs, ObjectAt
<1> QED BY <1>1, <1>2, <1>3, <1>4, <1>5, <1>6

-----------------------------------------------------------------------------
(* The steps of an operation.                                                 *)

(* e is d at a later place.                                                   *)
Advanced(d, e, pos) ==
  /\ e \in Doings
  /\ e.op = d.op /\ e.at = pos /\ e.to = d.to /\ e.new = d.new /\ e.old = d.old
  /\ e.from = IF Call(d) = "inc" THEN NULL ELSE d.from

(* To go on is to advance, or to be done.                                     *)
LEMMA LaterIs ==
  ASSUME NEW d \in Doings, NEW n \in 1..3
  PROVE  /\ d.at + n <= Len(Calls(d)) /\ d.at + n <= 7 => Advanced(d, Later(d, n), d.at + n)
         /\ d.at + n > Len(Calls(d)) => Later(d, n) = Nothing
<1>1. d.at + n > Len(Calls(d)) => Later(d, n) = Nothing
  BY DEF Later
<1>2. ASSUME d.at + n <= Len(Calls(d)), d.at + n <= 7
      PROVE  Advanced(d, Later(d, n), d.at + n)
  <2>0. d.at \in 1..7 /\ ~(d.at + n > Len(Calls(d)))
    <3>1. d.at \in 1..7
      BY DEF Doings
    <3>2. CASE d.op = "none"
      BY <1>2, <3>1, <3>2, Programs DEF Calls
    <3>3. d.op # "none" => Len(Calls(d)) \in Nat
      BY Programs DEF Doings, Calls
    <3> QED BY <1>2, <3>1, <3>2, <3>3
  <2>1. PICK from : from = IF Call(d) = "inc" THEN NULL ELSE d.from
    OBVIOUS
  <2>2. Later(d, n) = [d EXCEPT !.at = d.at + n, !.from = from]
    BY <2>0, <2>1 DEF Later
  <2>3. from \in Pointers \cup {NULL} /\ d.at + n \in 1..7
    BY <1>2, <2>0, <2>1 DEF Doings
  <2> QED BY <2>1, <2>2, <2>3 DEF Advanced, Doings
<1> QED BY <1>1, <1>2

(* No operation has no place and no object.                                   *)
LEMMA NothingIs ==
  /\ Nothing \in Doings /\ Formed(Nothing)
  /\ Nothing.op = "none" /\ Nothing.at = 1 /\ Nothing.to = NULL /\ Nothing.from = NULL
  /\ Nothing.new = NULL /\ Nothing.old = NULL
BY DEF Nothing, Doing, Doings, Formed

At(d, op, pos) == d.op = op /\ d.at = pos

(* What changes in a step of t, whose operation is d before and e after it.   *)
SetStep(d, e, v) ==
  \/ At(d, "copy", 1) /\ Advanced(d, e, 2) /\ v = d.new
  \/ At(d, "assign", 5) /\ Advanced(d, e, 6) /\ v = NULL
  \/ At(d, "assign", 6) /\ Advanced(d, e, 7) /\ v = d.new
  \/ At(d, "object", 1) /\ Advanced(d, e, 2) /\ v = d.new
  \/ At(d, "free", 3) /\ Advanced(d, e, 4) /\ v = NULL
  \/ At(d, "free", 4) /\ e = Nothing /\ v = d.new

IncStep(d, e) ==
  \/ At(d, "copy", 2) /\ e = Nothing
  \/ At(d, "assign", 1) /\ Advanced(d, e, 2)
  \/ At(d, "assign", 2) /\ Advanced(d, e, 3)
  \/ At(d, "object", 2) /\ Advanced(d, e, 3)

DecStep(d, e, o, last) ==
  \/ At(d, "assign", 3) /\ o = d.old /\ Advanced(d, e, IF last THEN 4 ELSE 6)
  \/ At(d, "assign", 7) /\ o = d.new /\ (~last => e = Nothing)
  \/ At(d, "object", 3) /\ o = d.old /\ IF last THEN Advanced(d, e, 4) ELSE e = Nothing
  \/ At(d, "free", 1) /\ o = d.old /\ Advanced(d, e, IF last THEN 2 ELSE 4)

DeleteStep(d, e) ==
  \/ At(d, "assign", 4) /\ Advanced(d, e, 5)
  \/ At(d, "object", 4) /\ e = Nothing
  \/ At(d, "free", 2) /\ Advanced(d, e, 3)

(* The places each operation can be at.                                       *)
LEMMA OpPlaces ==
  ASSUME NEW d, Formed(d), d.op # "none"
  PROVE  /\ d.op \in {"copy", "assign", "object", "free"} /\ d \in Doings
         /\ d.op = "copy" => d.at \in {1, 2}
         /\ d.op = "assign" => d.at \in {1, 2, 3, 4, 5, 6, 7}
         /\ d.op \in {"object", "free"} => d.at \in {1, 2, 3, 4}
BY DEF Formed, Doings

(* A call that sets the pointer is one of these.                              *)
LEMMA SetIs ==
  ASSUME NEW d, Formed(d), d.op # "none", Call(d) \in {"set", "reset"}
  PROVE  SetStep(d, Later(d, 1), ObjectAt(d, d.at))
<1>1. \/ At(d, "copy", 1) \/ At(d, "assign", 5) \/ At(d, "assign", 6)
      \/ At(d, "object", 1) \/ At(d, "free", 3) \/ At(d, "free", 4)
  BY OpPlaces, Programs DEF Call, Calls, At
<1>2. d \in Doings
  BY DEF Formed
<1>3. CASE At(d, "copy", 1)
  BY <1>2, <1>3, LaterIs, Programs DEF At, Calls, ObjectAt, SetStep
<1>4. CASE At(d, "assign", 5)
  BY <1>2, <1>4, LaterIs, Programs DEF At, Calls, ObjectAt, SetStep
<1>5. CASE At(d, "assign", 6)
  BY <1>2, <1>5, LaterIs, Programs DEF At, Calls, ObjectAt, SetStep
<1>6. CASE At(d, "object", 1)
  BY <1>2, <1>6, LaterIs, Programs DEF At, Calls, ObjectAt, SetStep
<1>7. CASE At(d, "free", 3)
  BY <1>2, <1>7, LaterIs, Programs DEF At, Calls, ObjectAt, SetStep
<1>8. CASE At(d, "free", 4)
  <2>0. d.at = 4 /\ Len(Calls(d)) = 4
    BY <1>8, Programs DEF At, Calls
  <2>1. d.at + 1 > Len(Calls(d))
    BY <2>0
  <2>2. Later(d, 1) = Nothing
    BY <1>2, <2>1, LaterIs
  <2> QED BY <1>2, <1>8, <2>2, LaterIs, Programs DEF At, Calls, ObjectAt, SetStep
<1> QED BY <1>1, <1>3, <1>4, <1>5, <1>6, <1>7, <1>8

(* A call that counts is one of these.                                        *)
LEMMA IncIs ==
  ASSUME NEW d, Formed(d), d.op # "none", Call(d) \in {"inc"}
  PROVE  IncStep(d, Later(d, 1)) /\ ObjectAt(d, d.at) = d.new
<1>1. \/ At(d, "copy", 2) \/ At(d, "assign", 1) \/ At(d, "assign", 2) \/ At(d, "object", 2)
  BY OpPlaces, Programs DEF Call, Calls, At
<1>2. d \in Doings
  BY DEF Formed
<1>3. CASE At(d, "copy", 2)
  <2>0. d.at = 2 /\ Len(Calls(d)) = 2
    BY <1>3, Programs DEF At, Calls
  <2>1. d.at + 1 > Len(Calls(d))
    BY <2>0
  <2>2. Later(d, 1) = Nothing
    BY <1>2, <2>1, LaterIs
  <2> QED BY <1>2, <1>3, <2>2, LaterIs, Programs DEF At, Calls, ObjectAt, IncStep
<1>4. CASE At(d, "assign", 1)
  BY <1>2, <1>4, LaterIs, Programs DEF At, Calls, ObjectAt, IncStep
<1>5. CASE At(d, "assign", 2)
  BY <1>2, <1>5, LaterIs, Programs DEF At, Calls, ObjectAt, IncStep
<1>6. CASE At(d, "object", 2)
  BY <1>2, <1>6, LaterIs, Programs DEF At, Calls, ObjectAt, IncStep
<1> QED BY <1>1, <1>3, <1>4, <1>5, <1>6

(* A call that discounts is one of these, whether it was the last or not.     *)
LEMMA DecIs ==
  ASSUME NEW d, Formed(d), d.op # "none", Call(d) \in Decs
  PROVE  /\ DecStep(d, Later(d, 1), ObjectAt(d, d.at), TRUE)
         /\ DecStep(d, Later(d, IF Call(d) = "rcDec" THEN 3 ELSE 2), ObjectAt(d, d.at), FALSE)
<1>1. \/ At(d, "assign", 3) \/ At(d, "assign", 7) \/ At(d, "object", 3) \/ At(d, "free", 1)
  BY OpPlaces, Programs DEF Call, Calls, At, Decs
<1>2. d \in Doings
  BY DEF Formed
<1>3. CASE At(d, "assign", 3)
  BY <1>2, <1>3, LaterIs, Programs DEF At, Call, Calls, ObjectAt, DecStep
<1>4. CASE At(d, "assign", 7)
  <2>0. d.at = 7 /\ Len(Calls(d)) = 8
    BY <1>4, Programs DEF At, Calls
  <2>1. d.at + 2 > Len(Calls(d))
    BY <2>0
  <2>2. Later(d, 2) = Nothing
    BY <1>2, <2>1, LaterIs
  <2> QED BY <1>2, <1>4, <2>2, LaterIs, Programs DEF At, Call, Calls, ObjectAt, DecStep
<1>5. CASE At(d, "object", 3)
  <2>0. d.at = 3 /\ Len(Calls(d)) = 4
    BY <1>5, Programs DEF At, Calls
  <2>1. d.at + 2 > Len(Calls(d))
    BY <2>0
  <2>2. Later(d, 2) = Nothing
    BY <1>2, <2>1, LaterIs
  <2> QED BY <1>2, <1>5, <2>2, LaterIs, Programs DEF At, Call, Calls, ObjectAt, DecStep
<1>6. CASE At(d, "free", 1)
  BY <1>2, <1>6, LaterIs, Programs DEF At, Call, Calls, ObjectAt, DecStep
<1> QED BY <1>1, <1>3, <1>4, <1>5, <1>6

(* A deletion is one of these; that of an argument never happens.             *)
LEMMA DeleteIs ==
  ASSUME NEW d, Formed(d), d.op # "none", Call(d) \in {"deleteOld", "deleteNew"}
  PROVE  DeleteStep(d, Later(d, 1)) /\ ObjectAt(d, d.at) = d.old
<1>1. \/ At(d, "assign", 4) \/ At(d, "object", 4) \/ At(d, "free", 2)
  BY OpPlaces, Programs DEF Call, Calls, At
<1>2. d \in Doings
  BY DEF Formed
<1>3. CASE At(d, "assign", 4)
  BY <1>2, <1>3, LaterIs, Programs DEF At, Calls, ObjectAt, DeleteStep
<1>4. CASE At(d, "object", 4)
  <2>0. d.at = 4 /\ Len(Calls(d)) = 4
    BY <1>4, Programs DEF At, Calls
  <2>1. d.at + 1 > Len(Calls(d))
    BY <2>0
  <2>2. Later(d, 1) = Nothing
    BY <1>2, <2>1, LaterIs
  <2> QED BY <1>2, <1>4, <2>2, LaterIs, Programs DEF At, Calls, ObjectAt, DeleteStep
<1>5. CASE At(d, "free", 2)
  BY <1>2, <1>5, LaterIs, Programs DEF At, Calls, ObjectAt, DeleteStep
<1> QED BY <1>1, <1>3, <1>4, <1>5

(* What every step of an operation leaves in its thread.                      *)
Follows(d, e) ==
  /\ Formed(e)
  /\ e = Nothing \/ (e.op = d.op /\ e.to = d.to /\ e.new = d.new /\ e.old = d.old)
  /\ e.from \in {d.from, NULL}

(* An advance within the program leaves the operation well formed.            *)
LEMMA AdvancedFollows ==
  ASSUME NEW d, Formed(d), NEW e, NEW pos, Advanced(d, e, pos),
         d.op = "copy" => d.at = 1 /\ pos = 2,
         d.op = "assign" => pos \in 2..7 /\ (pos = 4 => d.old # NULL) /\ (d.at = 1 => Call(d) = "inc"),
         d.op = "object" => pos \in 1..4 /\ (pos = 4 => d.old # NULL),
         d.op = "free" => pos \in 1..4,
         d.op # "none"
  PROVE  Follows(d, e)
<1>1. e \in Doings /\ d \in Doings
  BY DEF Advanced, Formed
<1>2. d.op \in {"copy", "assign", "object", "free"}
  BY <1>1 DEF Doings
<1>3. CASE d.op = "copy"
  <2>1. Call(d) = "set"
    BY <1>3, Programs DEF Call, Calls
  <2> QED BY <1>1, <1>3, <2>1 DEF Advanced, Follows, Formed
<1>4. CASE d.op = "assign"
  <2>1. e.from = NULL
    <3>1. CASE d.at = 1
      BY <1>4, <3>1 DEF Advanced
    <3>2. CASE d.at # 1
      BY <1>4, <3>2 DEF Advanced, Formed
    <3> QED BY <3>1, <3>2
  <2>2. e.at # 1
    BY <1>4 DEF Advanced
  <2> QED BY <1>1, <1>4, <2>1, <2>2 DEF Advanced, Follows, Formed
<1>5. CASE d.op = "object"
  <2>1. e.from = NULL
    BY <1>5 DEF Advanced, Formed
  <2> QED BY <1>1, <1>5, <2>1 DEF Advanced, Follows, Formed
<1>6. CASE d.op = "free"
  <2>1. e.from = NULL
    BY <1>6 DEF Advanced, Formed
  <2> QED BY <1>1, <1>6, <2>1 DEF Advanced, Follows, Formed
<1> QED BY <1>2, <1>3, <1>4, <1>5, <1>6

(* Its end does, too.                                                         *)
LEMMA NothingFollows ==
  ASSUME NEW d, Formed(d)
  PROVE  Follows(d, Nothing)
BY NothingIs DEF Follows

(* So every call does.                                                        *)
LEMMA AllFollow ==
  ASSUME NEW d, Formed(d), d.op # "none", NEW e
  PROVE  /\ \A v : SetStep(d, e, v) => Follows(d, e)
         /\ IncStep(d, e) => Follows(d, e)
         /\ \A o, last : /\ DecStep(d, e, o, last)
                         /\ last \in BOOLEAN /\ (last => o # NULL /\ ~At(d, "assign", 7))
                         => Follows(d, e)
         /\ DeleteStep(d, e) => Follows(d, e)
<1>1. ASSUME NEW v, SetStep(d, e, v) PROVE Follows(d, e)
  BY <1>1, AdvancedFollows, NothingFollows DEF SetStep, At
<1>2. ASSUME IncStep(d, e) PROVE Follows(d, e)
  <2>1. At(d, "assign", 1) => Call(d) = "inc"
    BY Programs DEF At, Call, Calls
  <2> QED BY <1>2, <2>1, AdvancedFollows, NothingFollows DEF IncStep, At
<1>3. ASSUME NEW o, NEW last \in BOOLEAN, DecStep(d, e, o, last),
             last => o # NULL /\ ~At(d, "assign", 7)
      PROVE  Follows(d, e)
  <2>1. CASE last
    BY <1>3, <2>1, AdvancedFollows, NothingFollows DEF DecStep, At
  <2>2. CASE ~last
    BY <1>3, <2>2, AdvancedFollows, NothingFollows DEF DecStep, At
  <2> QED BY <2>1, <2>2
<1>4. ASSUME DeleteStep(d, e) PROVE Follows(d, e)
  BY <1>4, AdvancedFollows, NothingFollows DEF DeleteStep, At
<1> QED BY <1>1, <1>2, <1>3, <1>4

-----------------------------------------------------------------------------
(* The steps of t, whose operation is d before and e after.                   *)
StepOf(t, d, e) ==
  /\ d = doing[t] /\ d.op # "none"
  /\ doing' = [doing EXCEPT ![t] = e]

Setting(t, d, e, v) ==
  /\ StepOf(t, d, e) /\ SetStep(d, e, v)
  /\ rcPointer' = [rcPointer EXCEPT ![d.to] = v]
  /\ UNCHANGED <<mRefCnt, life>>

Counting(t, d, e) ==
  /\ StepOf(t, d, e) /\ IncStep(d, e)
  /\ mRefCnt' = [o \in Objects |-> IF o = d.new THEN mRefCnt[o] + 1 ELSE mRefCnt[o]]
  /\ UNCHANGED <<life, rcPointer>>

Discounting(t, d, e, x, last) ==
  /\ StepOf(t, d, e) /\ DecStep(d, e, x, last)
  /\ mRefCnt' = [o \in Objects |-> IF o = x THEN mRefCnt[o] - 1 ELSE mRefCnt[o]]
  /\ last \in BOOLEAN /\ (last <=> x # NULL /\ mRefCnt'[x] <= 0)
  /\ UNCHANGED <<life, rcPointer>>

Deleting(t, d, e) ==
  /\ StepOf(t, d, e) /\ DeleteStep(d, e)
  /\ life' = [life EXCEPT ![d.old] = "deleted"]
  /\ UNCHANGED <<mRefCnt, rcPointer>>

Fitting(e, p) ==
  /\ e.op \in {"copy", "assign", "object", "free"} /\ e \in Doings
  /\ e.at = 1 /\ e.to = p /\ e.old = rcPointer[p]
  /\ e.op \in {"copy", "assign"} =>
       /\ e.from \in Pointers /\ e.new = rcPointer[e.from]
       /\ \A s \in Holders : doing[s].to # e.from
  /\ e.op = "copy" => e.old = NULL
  /\ e.op = "object" => e.from = NULL /\ e.new \in Objects \cup {NULL}
  /\ e.op = "free" => e.from = NULL /\ e.new = NULL /\ e.old # NULL

Starting(t, e, p) ==
  /\ doing[t] = Nothing /\ Owner[p] = t /\ \A s \in Holders : doing[s].from # p
  /\ Fitting(e, p)
  /\ doing' = [doing EXCEPT ![t] = e]
  /\ UNCHANGED <<mRefCnt, rcPointer>>
  /\ \/ e.op # "object" /\ UNCHANGED life
     \/ /\ e.op = "object" /\ e.new \in Objects /\ life[e.new] = "unborn"
        /\ life' = [life EXCEPT ![e.new] = "alive"]
     \/ /\ e.op = "object" /\ (e.new = NULL \/ \E q \in Pointers : Owner[q] = t /\ rcPointer[q] = e.new)
        /\ UNCHANGED life

(* What the start of an operation leaves.                                     *)
LEMMA StartIs ==
  ASSUME RefTypes, NEW p \in Pointers, NEW op \in {"copy", "assign", "object", "free"},
         NEW q \in Pointers \cup {NULL}, NEW new \in Objects \cup {NULL}, Start(p, op, q, new)
  PROVE  LET t == Owner[p]
             e == Doing(op, p, q, new, rcPointer[p])
         IN  /\ t \in Holders /\ e \in Doings
             /\ doing[t] = Nothing /\ \A s \in Holders : doing[s].from # p
             /\ doing' = [doing EXCEPT ![t] = e]
             /\ UNCHANGED <<mRefCnt, rcPointer>>
             /\ e.op = op /\ e.at = 1 /\ e.to = p /\ e.from = q /\ e.new = new
             /\ e.old = rcPointer[p]
<1>1. Owner[p] \in Holders
  BY Finite
<1>2. rcPointer[p] \in Objects \cup {NULL}
  BY DEF RefTypes
<1> QED BY <1>1, <1>2 DEF Start, Doing, Doings

(* Every step is one of these five.                                           *)
LEMMA StepsAre ==
  ASSUME RefInv, RefCntNext
  PROVE  \E t \in Holders : \E e :
           \/ \E v : Setting(t, doing[t], e, v)
           \/ Counting(t, doing[t], e)
           \/ \E x, last : Discounting(t, doing[t], e, x, last)
           \/ Deleting(t, doing[t], e)
           \/ \E p \in Pointers : Starting(t, e, p)
<1>0. RefTypes /\ \A t \in Holders : Formed(doing[t])
  BY DEF RefInv
<1>1. ASSUME NEW p \in Pointers, NEW q \in Pointers, Copy(p, q)
      PROVE  \E t \in Holders : \E e : Starting(t, e, p)
  <2>1. rcPointer[q] \in Objects \cup {NULL} /\ Start(p, "copy", q, rcPointer[q])
    BY <1>0, <1>1 DEF Copy, RefTypes
  <2>2. PICK e : e = Doing("copy", p, q, rcPointer[q], rcPointer[p])
    OBVIOUS
  <2>3. /\ Owner[p] \in Holders /\ e \in Doings
        /\ doing[Owner[p]] = Nothing /\ \A s \in Holders : doing[s].from # p
        /\ doing' = [doing EXCEPT ![Owner[p]] = e]
        /\ UNCHANGED <<mRefCnt, rcPointer>>
        /\ e.op = "copy" /\ e.at = 1 /\ e.to = p /\ e.from = q /\ e.new = rcPointer[q]
        /\ e.old = rcPointer[p]
    BY <1>0, <2>1, <2>2, StartIs
  <2>4. Starting(Owner[p], e, p)
    BY <1>1, <2>3 DEF Starting, Fitting, Copy, Readable
  <2> QED BY <2>3, <2>4
<1>2. ASSUME NEW p \in Pointers, NEW q \in Pointers, Assign(p, q)
      PROVE  \E t \in Holders : \E e : Starting(t, e, p)
  <2>1. rcPointer[q] \in Objects \cup {NULL} /\ Start(p, "assign", q, rcPointer[q])
    BY <1>0, <1>2 DEF Assign, RefTypes
  <2>2. PICK e : e = Doing("assign", p, q, rcPointer[q], rcPointer[p])
    OBVIOUS
  <2>3. /\ Owner[p] \in Holders /\ e \in Doings
        /\ doing[Owner[p]] = Nothing /\ \A s \in Holders : doing[s].from # p
        /\ doing' = [doing EXCEPT ![Owner[p]] = e]
        /\ UNCHANGED <<mRefCnt, rcPointer>>
        /\ e.op = "assign" /\ e.at = 1 /\ e.to = p /\ e.from = q /\ e.new = rcPointer[q]
        /\ e.old = rcPointer[p]
    BY <1>0, <2>1, <2>2, StartIs
  <2>4. Starting(Owner[p], e, p)
    BY <1>2, <2>3 DEF Starting, Fitting, Assign, Readable
  <2> QED BY <2>3, <2>4
<1>3. ASSUME NEW p \in Pointers, NEW o \in Objects \cup {NULL}, AssignObject(p, o)
      PROVE  \E t \in Holders : \E e : Starting(t, e, p)
  <2>1. Start(p, "object", NULL, o)
    BY <1>3 DEF AssignObject
  <2>2. PICK e : e = Doing("object", p, NULL, o, rcPointer[p])
    OBVIOUS
  <2>3. /\ Owner[p] \in Holders /\ e \in Doings
        /\ doing[Owner[p]] = Nothing /\ \A s \in Holders : doing[s].from # p
        /\ doing' = [doing EXCEPT ![Owner[p]] = e]
        /\ UNCHANGED <<mRefCnt, rcPointer>>
        /\ e.op = "object" /\ e.at = 1 /\ e.to = p /\ e.from = NULL /\ e.new = o
        /\ e.old = rcPointer[p]
    BY <1>0, <2>1, <2>2, StartIs
  <2>4. Fitting(e, p)
    BY <2>3 DEF Fitting
  <2>5. Starting(Owner[p], e, p)
    BY <1>3, <2>3, <2>4 DEF Starting, AssignObject
  <2> QED BY <2>3, <2>5
<1>4. ASSUME NEW p \in Pointers, Free(p)
      PROVE  \E t \in Holders : \E e : Starting(t, e, p)
  <2>1. rcPointer[p] # NULL /\ Start(p, "free", NULL, NULL)
    BY <1>4 DEF Free
  <2>2. PICK e : e = Doing("free", p, NULL, NULL, rcPointer[p])
    OBVIOUS
  <2>3. /\ Owner[p] \in Holders /\ e \in Doings
        /\ doing[Owner[p]] = Nothing /\ \A s \in Holders : doing[s].from # p
        /\ doing' = [doing EXCEPT ![Owner[p]] = e]
        /\ UNCHANGED <<mRefCnt, rcPointer>>
        /\ e.op = "free" /\ e.at = 1 /\ e.to = p /\ e.from = NULL /\ e.new = NULL
        /\ e.old = rcPointer[p]
    BY <1>0, <2>1, <2>2, StartIs
  <2>4. Fitting(e, p)
    BY <2>1, <2>3 DEF Fitting
  <2>5. Starting(Owner[p], e, p)
    BY <1>4, <2>3, <2>4 DEF Starting, Free
  <2> QED BY <2>3, <2>5
<1>5. ASSUME NEW t \in Holders, Set(t)
      PROVE  \E e, v : Setting(t, doing[t], e, v)
  <2>1. SetStep(doing[t], Later(doing[t], 1), Object(t)) /\ doing[t].op # "none"
    BY <1>0, <1>5, SetIs DEF Set, Calling, Object
  <2>2. Setting(t, doing[t], Later(doing[t], 1), Object(t))
    BY <1>5, <2>1 DEF Setting, StepOf, Set, Goes
  <2> QED BY <2>2
<1>6. ASSUME NEW t \in Holders, incRefCnt(t)
      PROVE  \E e : Counting(t, doing[t], e)
  <2>1. /\ IncStep(doing[t], Later(doing[t], 1)) /\ Object(t) = doing[t].new
        /\ doing[t].op # "none"
    BY <1>0, <1>6, IncIs DEF incRefCnt, Calling, Object
  <2>2. Counting(t, doing[t], Later(doing[t], 1))
    BY <1>6, <2>1 DEF Counting, StepOf, incRefCnt, Goes
  <2> QED BY <2>2
<1>7. ASSUME NEW t \in Holders, decRefCnt(t)
      PROVE  \E e, x, last : Discounting(t, doing[t], e, x, last)
  <2>1. PICK n : n = IF Call(doing[t]) = "rcDec" THEN 3 ELSE 2
    OBVIOUS
  <2>2. /\ DecStep(doing[t], Later(doing[t], 1), Object(t), TRUE)
        /\ DecStep(doing[t], Later(doing[t], n), Object(t), FALSE)
        /\ doing[t].op # "none"
    BY <1>0, <1>7, <2>1, DecIs DEF decRefCnt, Calling, Object, Decs
  <2>3. CASE Object(t) # NULL /\ mRefCnt'[Object(t)] <= 0
    <3>1. Discounting(t, doing[t], Later(doing[t], 1), Object(t), TRUE)
      BY <1>7, <2>2, <2>3 DEF Discounting, StepOf, decRefCnt, Goes
    <3> QED BY <3>1
  <2>4. CASE ~(Object(t) # NULL /\ mRefCnt'[Object(t)] <= 0)
    <3>1. Discounting(t, doing[t], Later(doing[t], n), Object(t), FALSE)
      BY <1>7, <2>1, <2>2, <2>4 DEF Discounting, StepOf, decRefCnt, Goes
    <3> QED BY <3>1
  <2> QED BY <2>3, <2>4
<1>8. ASSUME NEW t \in Holders, Delete(t)
      PROVE  \E e : Deleting(t, doing[t], e)
  <2>1. /\ DeleteStep(doing[t], Later(doing[t], 1)) /\ Object(t) = doing[t].old
        /\ doing[t].op # "none"
    BY <1>0, <1>8, DeleteIs DEF Delete, Calling, Object
  <2>2. Deleting(t, doing[t], Later(doing[t], 1))
    BY <1>8, <2>1 DEF Deleting, StepOf, Delete, Goes
  <2> QED BY <2>2
<1>9. CASE \E t \in Holders : Set(t) \/ incRefCnt(t) \/ decRefCnt(t) \/ Delete(t)
  BY <1>5, <1>6, <1>7, <1>8, <1>9
<1>10. CASE \E p \in Pointers : (\E q \in Pointers : Copy(p, q) \/ Assign(p, q))
                               \/ (\E o \in Objects \cup {NULL} : AssignObject(p, o)) \/ Free(p)
  BY <1>1, <1>2, <1>3, <1>4, <1>10
<1> QED BY <1>9, <1>10 DEF RefCntNext

-----------------------------------------------------------------------------
(* What a step of t leaves to the other threads.                              *)
Before(t, d, e) ==
  /\ RefInv /\ t \in Holders /\ StepOf(t, d, e) /\ Follows(d, e)
  /\ rcPointer' \in [Pointers -> Objects \cup {NULL}]
  /\ \A q \in Pointers : q # d.to => rcPointer'[q] = rcPointer[q]

(* The operation before and after a call, and those of the others.            *)
LEMMA Mine ==
  ASSUME RefInv, NEW t \in Holders, NEW d, NEW e, StepOf(t, d, e), Follows(d, e)
  PROVE  /\ Formed(d) /\ d \in Doings /\ d.to \in Pointers /\ d.to # NULL /\ Owner[d.to] = t
         /\ Formed(e) /\ e \in Doings /\ doing'[t] = e
         /\ e.to \in {d.to, NULL} /\ e.from \in {d.from, NULL}
         /\ \A s \in Holders \ {t} : doing'[s] = doing[s]
         /\ doing' \in [Holders -> Doings]
<1>1. Formed(d) /\ d \in Doings /\ Relies(t) /\ RefTypes
  BY DEF RefInv, StepOf, Formed
<1>2. Formed(e) /\ e \in Doings
  BY DEF Follows, Formed
<1>3. d.to \in Pointers /\ d.to # NULL /\ Owner[d.to] = t
  BY <1>1 DEF StepOf, Formed, Doings, Relies
<1>4. e.to \in {d.to, NULL} /\ e.from \in {d.from, NULL}
  BY NothingIs DEF Follows
<1> QED BY <1>1, <1>2, <1>3, <1>4 DEF RefTypes, StepOf

(* What the others rely on, a call of t does not touch.                       *)
LEMMA OthersRely ==
  ASSUME NEW t, NEW d, NEW e, Before(t, d, e), NEW s \in Holders \ {t}
  PROVE  Relies(s)'
<1>0. t \in Holders /\ RefInv /\ StepOf(t, d, e) /\ Follows(d, e)
  BY DEF Before
<1>1. /\ d.to # NULL /\ Owner[d.to] = t /\ doing'[t] = e /\ e.to \in {d.to, NULL}
      /\ \A r \in Holders \ {t} : doing'[r] = doing[r]
      /\ d = doing[t]
  BY <1>0, Mine DEF StepOf
<1>2. PICK c : c = doing[s]
  OBVIOUS
<1>3. doing'[s] = c /\ Relies(s) /\ Formed(c)
  BY <1>0, <1>1, <1>2 DEF RefInv
<1>4. c.op # "none" => c.to \in Pointers /\ rcPointer'[c.to] = rcPointer[c.to]
  <2>1. c.op # "none" => c.to \in Pointers /\ Owner[c.to] = s
    BY <1>2, <1>3 DEF Formed, Doings, Relies
  <2> QED BY <1>1, <2>1 DEF Before
<1>5. c.from # NULL => /\ c.from \in Pointers /\ rcPointer'[c.from] = rcPointer[c.from]
                       /\ c.from # d.to
  <2>1. c.from # NULL => c.from \in Pointers /\ doing[t].to # c.from
    BY <1>0, <1>2, <1>3 DEF Formed, Doings, Relies
  <2> QED BY <1>1, <2>1 DEF Before
<1>6. c.from # NULL => \A r \in Holders : doing'[r].to = c.from => r = s
  <2>1. ASSUME c.from # NULL, NEW r \in Holders, doing'[r].to = c.from PROVE r = s
    <3>1. r # t
      BY <1>1, <1>5, <2>1
    <3>2. doing[r].to = c.from
      BY <1>1, <2>1, <3>1
    <3> QED BY <1>2, <1>3, <2>1, <3>2 DEF Relies
  <2> QED BY <2>1
<1> QED BY <1>2, <1>3, <1>4, <1>5, <1>6 DEF Relies

(* Nor the tokens of the others.                                              *)
LEMMA OtherPointersKeep ==
  ASSUME NEW t, NEW d, NEW e, Before(t, d, e)
  PROVE  /\ \A p \in Pointers \ {d.to} : Keeps(p)' = Keeps(p)
         /\ \A s \in Holders \ {t} : Passed(s)' = Passed(s) /\ Had(s)' = Had(s)
<1>0. t \in Holders /\ RefInv /\ StepOf(t, d, e) /\ Follows(d, e)
  BY DEF Before
<1>1. /\ d.to # NULL /\ doing'[t] = e /\ e.to \in {d.to, NULL} /\ d = doing[t]
      /\ \A r \in Holders \ {t} : doing'[r] = doing[r]
  BY <1>0, Mine DEF StepOf
<1>2. ASSUME NEW p \in Pointers \ {d.to} PROVE Keeps(p)' = Keeps(p)
  <2>1. rcPointer'[p] = rcPointer[p] /\ p # NULL /\ Owner[p] \in Holders
    BY Finite DEF Before
  <2>2. CASE Owner[p] = t
    BY <1>1, <1>2, <2>1, <2>2 DEF Keeps
  <2>3. CASE Owner[p] # t
    BY <1>1, <1>2, <2>1, <2>3 DEF Keeps
  <2> QED BY <2>2, <2>3
<1>3. ASSUME NEW s \in Holders \ {t} PROVE Passed(s)' = Passed(s) /\ Had(s)' = Had(s)
  BY <1>1 DEF Passed, Had
<1> QED BY <1>2, <1>3

(* What the step changes of the counts of o: at most one of them.             *)
Gains(S, T, x) == T = S \cup {x} /\ x \notin S
Loses(S, T, x) == T = S \ {x} /\ x \in S

(* Counting.                                                                  *)
LEMMA GainsOne ==
  ASSUME NEW S, IsFiniteSet(S), NEW T, NEW x, Gains(S, T, x)
  PROVE  IsFiniteSet(T) /\ Cardinality(T) = Cardinality(S) + 1
BY FS_AddElement DEF Gains

(* Counting.                                                                  *)
LEMMA LosesOne ==
  ASSUME NEW S, IsFiniteSet(S), NEW T, NEW x, Loses(S, T, x)
  PROVE  IsFiniteSet(T) /\ Cardinality(T) = Cardinality(S) - 1
BY FS_RemoveElement DEF Loses

(* There are finitely many tokens.                                            *)
LEMMA TokensFinite ==
  ASSUME NEW o
  PROVE  /\ IsFiniteSet(Keepers(o)) /\ IsFiniteSet(Passers(o)) /\ IsFiniteSet(Havers(o))
         /\ Cardinality(Keepers(o)) \in Nat /\ Cardinality(Passers(o)) \in Nat
         /\ Cardinality(Havers(o)) \in Nat
<1>1. Keepers(o) \subseteq Pointers /\ Passers(o) \subseteq Holders /\ Havers(o) \subseteq Holders
  BY DEF Keepers, Passers, Havers
<1> QED BY <1>1, Finite, FS_Subset, FS_CardinalityType

(* Who sets a pointer has the tokens it had.                                  *)
LEMMA SetTokens ==
  ASSUME NEW t, NEW d, NEW e, NEW v, Before(t, d, e), Setting(t, d, e, v)
  PROVE  Keeps(d.to)' = Keeps(d.to) /\ Passed(t)' = Passed(t) /\ Had(t)' = Had(t) /\ Relies(t)'
<1>0. t \in Holders /\ RefInv /\ StepOf(t, d, e) /\ Follows(d, e) /\ SetStep(d, e, v)
  BY DEF Before, Setting
<1>1. /\ d.to \in Pointers /\ d.to # NULL /\ Owner[d.to] = t /\ doing'[t] = e /\ d = doing[t]
      /\ Formed(d) /\ \A r \in Holders \ {t} : doing'[r] = doing[r]
      /\ Relies(t) /\ rcPointer \in [Pointers -> Objects \cup {NULL}]
  BY <1>0, Mine DEF StepOf, RefInv, RefTypes
<1>2. rcPointer'[d.to] = v /\ \A q \in Pointers \ {d.to} : rcPointer'[q] = rcPointer[q]
  BY <1>1 DEF Setting
<1>3. CASE At(d, "copy", 1) /\ Advanced(d, e, 2) /\ v = d.new
  <2>1. Call(d) = "set"
    BY <1>3, Programs DEF Call, Calls, At
  <2>2. e.op = "copy" /\ e.at = 2 /\ e.to = d.to /\ e.from = d.from /\ e.new = d.new /\ e.old = NULL
    BY <1>1, <1>3, <2>1 DEF Advanced, At, Formed
  <2>3. d.op = "copy" /\ d.at = 1 /\ d.from \in Pointers
    BY <1>1, <1>3 DEF At, Formed, Doings
  <2>4. Keeps(d.to)' = NULL /\ Keeps(d.to) = NULL
    BY <1>1, <2>2, <2>3 DEF Keeps
  <2>5. Passed(t)' = NULL /\ Passed(t) = NULL /\ Had(t)' = NULL /\ Had(t) = NULL
    BY <1>1, <2>2, <2>3 DEF Passed, Had
  <2>6. rcPointer'[d.from] = d.new
    BY <1>1, <1>2, <1>3, <2>3, Finite DEF Relies
  <2>7. \A s \in Holders : doing'[s].to = d.from => s = t
    BY <1>1, <2>2, <2>3, Finite DEF Relies
  <2>8. Relies(t)'
    BY <1>1, <1>2, <1>3, <2>2, <2>3, <2>6, <2>7 DEF Relies
  <2> QED BY <2>4, <2>5, <2>8
<1>4. CASE At(d, "free", 4) /\ e = Nothing /\ v = d.new
  <2>1. d.op = "free" /\ d.at = 4 /\ v = NULL
    BY <1>1, <1>4 DEF At, Formed
  <2>2. e.op = "none" /\ e.to = NULL /\ e.from = NULL
    BY <1>4, NothingIs
  <2> QED BY <1>1, <1>2, <2>1, <2>2 DEF Keeps, Passed, Had, Relies
<1>5. CASE At(d, "object", 1) /\ Advanced(d, e, 2) /\ v = d.new
  <2>1. Call(d) = "set" /\ d.op = "object" /\ d.at = 1 /\ d.from = NULL
    BY <1>1, <1>5, Programs DEF Call, Calls, At, Formed
  <2>2. e.op = "object" /\ e.at = 2 /\ e.to = d.to /\ e.from = NULL /\ e.new = d.new /\ e.old = d.old
    BY <1>5, <2>1 DEF Advanced
  <2> QED BY <1>1, <1>2, <1>5, <2>1, <2>2 DEF Keeps, Passed, Had, Relies
<1>6. CASE At(d, "free", 3) /\ Advanced(d, e, 4) /\ v = NULL
  <2>1. Call(d) = "reset" /\ d.op = "free" /\ d.at = 3 /\ d.from = NULL
    BY <1>1, <1>6, Programs DEF Call, Calls, At, Formed
  <2>2. e.op = "free" /\ e.at = 4 /\ e.to = d.to /\ e.from = NULL /\ e.new = d.new /\ e.old = d.old
    BY <1>6, <2>1 DEF Advanced
  <2> QED BY <1>1, <1>2, <1>6, <2>1, <2>2 DEF Keeps, Passed, Had, Relies
<1>7. ASSUME NEW n \in {5, 6}, At(d, "assign", n), Advanced(d, e, n + 1), n = 6 => v = d.new
      PROVE  Keeps(d.to)' = Keeps(d.to) /\ Passed(t)' = Passed(t) /\ Had(t)' = Had(t) /\ Relies(t)'
  <2>1. Call(d) # "inc" /\ d.op = "assign" /\ d.at = n /\ d.from = NULL
    BY <1>1, <1>7, Programs DEF Call, Calls, At, Formed
  <2>2. /\ e.op = "assign" /\ e.at = n + 1 /\ e.to = d.to /\ e.from = NULL
        /\ e.new = d.new /\ e.old = d.old
    BY <1>7, <2>1 DEF Advanced
  <2>3. Keeps(d.to)' = d.new /\ Keeps(d.to) = d.new
    BY <1>1, <1>7, <2>1, <2>2 DEF Keeps
  <2>4. Passed(t)' = d.new /\ Passed(t) = d.new /\ Had(t)' = NULL /\ Had(t) = NULL
    BY <1>1, <1>7, <2>1, <2>2 DEF Passed, Had
  <2>5. Relies(t)'
    BY <1>1, <1>2, <1>7, <2>1, <2>2 DEF Relies
  <2> QED BY <2>3, <2>4, <2>5
<1> QED BY <1>0, <1>3, <1>4, <1>5, <1>6, <1>7 DEF SetStep

(* Who counts gains the token it counts: the pointer, or the copy.            *)
LEMMA IncTokens ==
  ASSUME NEW t, NEW d, NEW e, Before(t, d, e), Counting(t, d, e)
  PROVE  /\ Had(t)' = Had(t) /\ Relies(t)'
         /\ \/ Keeps(d.to) = NULL /\ Keeps(d.to)' = d.new /\ Passed(t)' = Passed(t)
            \/ Passed(t) = NULL /\ Passed(t)' = d.new /\ Keeps(d.to)' = Keeps(d.to)
<1>0. t \in Holders /\ RefInv /\ StepOf(t, d, e) /\ Follows(d, e) /\ IncStep(d, e)
  BY DEF Before, Counting
<1>1. /\ d.to \in Pointers /\ d.to # NULL /\ Owner[d.to] = t /\ doing'[t] = e /\ d = doing[t]
      /\ Formed(d) /\ \A r \in Holders \ {t} : doing'[r] = doing[r]
      /\ Relies(t) /\ rcPointer' = rcPointer
  BY <1>0, Mine DEF StepOf, RefInv, RefTypes, Counting
<1>2. CASE At(d, "copy", 2) /\ e = Nothing
  <2>1. d.op = "copy" /\ d.at = 2
    BY <1>2 DEF At
  <2>2. e.op = "none" /\ e.to = NULL /\ e.from = NULL
    BY <1>2, NothingIs
  <2> QED BY <1>1, <2>1, <2>2 DEF Keeps, Passed, Had, Relies
<1>3. CASE At(d, "assign", 1) /\ Advanced(d, e, 2)
  <2>1. Call(d) = "inc" /\ d.op = "assign" /\ d.at = 1
    BY <1>3, Programs DEF Call, Calls, At
  <2>2. e.op = "assign" /\ e.at = 2 /\ e.to = d.to /\ e.from = NULL /\ e.new = d.new /\ e.old = d.old
    BY <1>3, <2>1 DEF Advanced
  <2> QED BY <1>1, <2>1, <2>2 DEF Keeps, Passed, Had, Relies
<1>4. CASE At(d, "assign", 2) /\ Advanced(d, e, 3)
  <2>1. Call(d) = "inc" /\ d.op = "assign" /\ d.at = 2
    BY <1>4, Programs DEF Call, Calls, At
  <2>2. e.op = "assign" /\ e.at = 3 /\ e.to = d.to /\ e.from = NULL /\ e.new = d.new /\ e.old = d.old
    BY <1>4, <2>1 DEF Advanced
  <2> QED BY <1>1, <2>1, <2>2 DEF Keeps, Passed, Had, Relies
<1>5. CASE At(d, "object", 2) /\ Advanced(d, e, 3)
  <2>1. Call(d) = "inc" /\ d.op = "object" /\ d.at = 2
    BY <1>5, Programs DEF Call, Calls, At
  <2>2. e.op = "object" /\ e.at = 3 /\ e.to = d.to /\ e.from = NULL /\ e.new = d.new /\ e.old = d.old
    BY <1>5, <2>1 DEF Advanced
  <2> QED BY <1>1, <2>1, <2>2 DEF Keeps, Passed, Had, Relies
<1> QED BY <1>0, <1>2, <1>3, <1>4, <1>5 DEF IncStep

(* Who discounts loses a token: what the pointer had, or the copy.            *)
LEMMA DecTokens ==
  ASSUME NEW t, NEW d, NEW e, NEW x, NEW last, Before(t, d, e), Discounting(t, d, e, x, last),
         last => ~At(d, "assign", 7)
  PROVE  /\ Keeps(d.to)' = Keeps(d.to) /\ Relies(t)'
         /\ \/ Had(t) = x /\ Had(t)' = NULL /\ Passed(t)' = Passed(t)
            \/ Passed(t) = x /\ Passed(t)' = NULL /\ Had(t)' = Had(t) /\ Keeps(d.to) = x /\ ~last
<1>0. /\ t \in Holders /\ RefInv /\ StepOf(t, d, e) /\ Follows(d, e) /\ DecStep(d, e, x, last)
      /\ last \in BOOLEAN
  BY DEF Before, Discounting
<1>1. /\ d.to \in Pointers /\ d.to # NULL /\ Owner[d.to] = t /\ doing'[t] = e /\ d = doing[t]
      /\ Formed(d) /\ \A r \in Holders \ {t} : doing'[r] = doing[r]
      /\ Relies(t) /\ rcPointer' = rcPointer
  BY <1>0, Mine DEF StepOf, RefInv, RefTypes, Discounting
<1>2. CASE At(d, "assign", 3) /\ x = d.old /\ Advanced(d, e, IF last THEN 4 ELSE 6)
  <2>1. Call(d) # "inc" /\ d.op = "assign" /\ d.at = 3 /\ d.from = NULL
    BY <1>1, <1>2, Programs DEF Call, Calls, At, Formed
  <2>2. /\ e.op = "assign" /\ e.at \in {4, 6} /\ e.to = d.to /\ e.from = NULL
        /\ e.new = d.new /\ e.old = d.old
    BY <1>2, <2>1 DEF Advanced
  <2>3. Had(t) = x /\ Had(t)' = NULL
    BY <1>1, <1>2, <2>1, <2>2 DEF Had
  <2>4. Keeps(d.to)' = d.new /\ Keeps(d.to) = d.new /\ Passed(t)' = d.new /\ Passed(t) = d.new
    BY <1>1, <2>1, <2>2 DEF Keeps, Passed
  <2>5. Relies(t)'
    BY <1>1, <2>1, <2>2 DEF Relies
  <2> QED BY <2>3, <2>4, <2>5
<1>3. CASE At(d, "assign", 7) /\ x = d.new /\ e = Nothing
  <2>1. d.op = "assign" /\ d.at = 7 /\ rcPointer[d.to] = d.new /\ ~last
    BY <1>1, <1>3 DEF At, Relies
  <2>2. e.op = "none" /\ e.to = NULL /\ e.from = NULL
    BY <1>3, NothingIs
  <2>3. Had(t) = NULL /\ Had(t)' = NULL /\ Passed(t) = x /\ Passed(t)' = NULL
    BY <1>1, <1>3, <2>1, <2>2 DEF Had, Passed
  <2>4. Keeps(d.to)' = d.new /\ Keeps(d.to) = d.new
    BY <1>1, <2>1, <2>2 DEF Keeps
  <2>5. Relies(t)'
    BY <1>1, <2>2 DEF Relies
  <2> QED BY <1>3, <2>1, <2>3, <2>4, <2>5
<1>4. CASE At(d, "object", 3) /\ x = d.old /\ last /\ Advanced(d, e, 4)
  <2>1. Call(d) # "inc" /\ d.op = "object" /\ d.at = 3 /\ d.from = NULL
    BY <1>1, <1>4, Programs DEF Call, Calls, At, Formed
  <2>2. e.op = "object" /\ e.at = 4 /\ e.to = d.to /\ e.from = NULL /\ e.new = d.new /\ e.old = d.old
    BY <1>4, <2>1 DEF Advanced
  <2> QED BY <1>1, <1>4, <2>1, <2>2 DEF Keeps, Passed, Had, Relies
<1>5. CASE At(d, "object", 3) /\ x = d.old /\ e = Nothing
  <2>1. d.op = "object" /\ d.at = 3 /\ rcPointer[d.to] = d.new
    BY <1>1, <1>5 DEF At, Relies
  <2>2. e.op = "none" /\ e.to = NULL /\ e.from = NULL
    BY <1>5, NothingIs
  <2> QED BY <1>1, <1>5, <2>1, <2>2 DEF Keeps, Passed, Had, Relies
<1>6. CASE At(d, "free", 1) /\ x = d.old /\ Advanced(d, e, IF last THEN 2 ELSE 4)
  <2>1. Call(d) # "inc" /\ d.op = "free" /\ d.at = 1 /\ d.from = NULL
    BY <1>1, <1>6, Programs DEF Call, Calls, At, Formed
  <2>2. /\ e.op = "free" /\ e.at \in {2, 4} /\ e.to = d.to /\ e.from = NULL
        /\ e.new = d.new /\ e.old = d.old
    BY <1>6, <2>1 DEF Advanced
  <2> QED BY <1>1, <1>6, <2>1, <2>2 DEF Keeps, Passed, Had, Relies
<1> QED BY <1>0, <1>2, <1>3, <1>4, <1>5, <1>6 DEF DecStep

(* Who deletes has the tokens it had.                                         *)
LEMMA DeleteTokens ==
  ASSUME NEW t, NEW d, NEW e, Before(t, d, e), Deleting(t, d, e)
  PROVE  Keeps(d.to)' = Keeps(d.to) /\ Passed(t)' = Passed(t) /\ Had(t)' = Had(t) /\ Relies(t)'
<1>0. t \in Holders /\ RefInv /\ StepOf(t, d, e) /\ Follows(d, e) /\ DeleteStep(d, e)
  BY DEF Before, Deleting
<1>1. /\ d.to \in Pointers /\ d.to # NULL /\ Owner[d.to] = t /\ doing'[t] = e /\ d = doing[t]
      /\ Formed(d) /\ \A r \in Holders \ {t} : doing'[r] = doing[r]
      /\ Relies(t) /\ rcPointer' = rcPointer
  BY <1>0, Mine DEF StepOf, RefInv, RefTypes, Deleting
<1>2. CASE At(d, "assign", 4) /\ Advanced(d, e, 5)
  <2>1. Call(d) # "inc" /\ d.op = "assign" /\ d.at = 4 /\ d.from = NULL
    BY <1>1, <1>2, Programs DEF Call, Calls, At, Formed
  <2>2. e.op = "assign" /\ e.at = 5 /\ e.to = d.to /\ e.from = NULL /\ e.new = d.new /\ e.old = d.old
    BY <1>2, <2>1 DEF Advanced
  <2> QED BY <1>1, <2>1, <2>2 DEF Keeps, Passed, Had, Relies
<1>3. CASE At(d, "object", 4) /\ e = Nothing
  <2>1. d.op = "object" /\ d.at = 4 /\ rcPointer[d.to] = d.new
    BY <1>1, <1>3 DEF At, Relies
  <2>2. e.op = "none" /\ e.to = NULL /\ e.from = NULL
    BY <1>3, NothingIs
  <2> QED BY <1>1, <2>1, <2>2 DEF Keeps, Passed, Had, Relies
<1>4. CASE At(d, "free", 2) /\ Advanced(d, e, 3)
  <2>1. Call(d) # "inc" /\ d.op = "free" /\ d.at = 2 /\ d.from = NULL
    BY <1>1, <1>4, Programs DEF Call, Calls, At, Formed
  <2>2. e.op = "free" /\ e.at = 3 /\ e.to = d.to /\ e.from = NULL /\ e.new = d.new /\ e.old = d.old
    BY <1>4, <2>1 DEF Advanced
  <2> QED BY <1>1, <2>1, <2>2 DEF Keeps, Passed, Had, Relies
<1> QED BY <1>0, <1>2, <1>3, <1>4 DEF DeleteStep

(* An operation turns what its pointer keeps into what it had.                *)
LEMMA StartTokens ==
  ASSUME RefInv, NEW t \in Holders, NEW e, NEW p \in Pointers, Starting(t, e, p)
  PROVE  /\ Formed(e) /\ doing' \in [Holders -> Doings] /\ doing'[t] = e
         /\ \A s \in Holders \ {t} : doing'[s] = doing[s]
         /\ \A s \in Holders : Relies(s)'
         /\ Keeps(p) = rcPointer[p] /\ Keeps(p)' = NULL
         /\ \A q \in Pointers \ {p} : Keeps(q)' = Keeps(q)
         /\ \A s \in Holders : Passed(s)' = Passed(s)
         /\ Had(t) = NULL /\ Had(t)' = rcPointer[p]
         /\ \A s \in Holders \ {t} : Had(s)' = Had(s)
<1>1. /\ doing[t] = Nothing /\ Owner[p] = t /\ \A s \in Holders : doing[s].from # p
      /\ doing' = [doing EXCEPT ![t] = e] /\ rcPointer' = rcPointer
      /\ p # NULL /\ e \in Doings
  BY Finite DEF Starting, Fitting
<1>2. Formed(e)
  BY Finite DEF Starting, Fitting, Formed
<1>3. /\ doing' \in [Holders -> Doings] /\ doing'[t] = e
      /\ \A s \in Holders \ {t} : doing'[s] = doing[s]
  BY <1>1 DEF RefInv, RefTypes
<1>4. /\ e.op \in {"copy", "assign", "object", "free"} /\ e.at = 1 /\ e.to = p
      /\ e.old = rcPointer[p] /\ (e.op = "copy" => e.old = NULL)
  BY DEF Starting, Fitting
<1>5. Keeps(p) = rcPointer[p] /\ Keeps(p)' = NULL
  BY <1>1, <1>3, <1>4, NothingIs DEF Keeps
<1>6. ASSUME NEW q \in Pointers \ {p} PROVE Keeps(q)' = Keeps(q)
  <2>1. q # NULL /\ Owner[q] \in Holders
    BY Finite
  <2>2. CASE Owner[q] = t
    BY <1>1, <1>3, <1>4, <2>1, <2>2, NothingIs DEF Keeps
  <2>3. CASE Owner[q] # t
    BY <1>1, <1>3, <2>1, <2>3 DEF Keeps
  <2> QED BY <2>2, <2>3
<1>7. Passed(t)' = NULL /\ Passed(t) = NULL /\ Had(t) = NULL /\ Had(t)' = rcPointer[p]
  BY <1>1, <1>3, <1>4, NothingIs DEF Passed, Had
<1>8. \A s \in Holders \ {t} : Passed(s)' = Passed(s) /\ Had(s)' = Had(s)
  BY <1>3 DEF Passed, Had
<1>9. Relies(t)'
  <2>1. e.from # NULL => /\ e.from \in Pointers /\ rcPointer[e.from] = e.new
                         /\ \A s \in Holders : doing[s].to # e.from
    BY DEF Starting, Fitting
  <2>2. e.from # NULL => \A s \in Holders : doing'[s].to = e.from => s = t
    BY <1>3, <2>1
  <2>3. e.op = "copy" => rcPointer[p] = NULL /\ (e.from = p => e.new = NULL)
    BY <1>4 DEF Starting, Fitting
  <2> QED BY <1>1, <1>3, <1>4, <2>1, <2>2, <2>3 DEF Relies
<1>10. ASSUME NEW s \in Holders \ {t} PROVE Relies(s)'
  <2>1. PICK c : c = doing[s]
    OBVIOUS
  <2>2. Relies(s) /\ doing'[s] = c /\ c.from # p
    BY <1>1, <1>3, <2>1 DEF RefInv
  <2>3. c.from # NULL => \A r \in Holders : doing'[r].to = c.from => r = s
    <3>1. ASSUME c.from # NULL, NEW r \in Holders, doing'[r].to = c.from PROVE r = s
      <4>1. r # t
        BY <1>3, <1>4, <2>2, <3>1
      <4> QED BY <1>3, <2>1, <2>2, <3>1, <4>1 DEF Relies
    <3> QED BY <3>1
  <2> QED BY <1>1, <2>1, <2>2, <2>3 DEF Relies
<1> QED BY <1>2, <1>3, <1>5, <1>6, <1>7, <1>8, <1>9, <1>10

(* The keepers of an object, when one pointer changes.                        *)
LEMMA KeepersMove ==
  ASSUME NEW o, NEW p \in Pointers, \A q \in Pointers \ {p} : Keeps(q)' = Keeps(q)
  PROVE  /\ (Keeps(p)' = o <=> Keeps(p) = o) => Keepers(o)' = Keepers(o)
         /\ Keeps(p)' = o /\ Keeps(p) # o => Gains(Keepers(o), Keepers(o)', p)
         /\ Keeps(p)' # o /\ Keeps(p) = o => Loses(Keepers(o), Keepers(o)', p)
BY DEF Keepers, Gains, Loses

(* The copies, when one thread moves.                                         *)
LEMMA PassersMove ==
  ASSUME NEW o, NEW t \in Holders, \A s \in Holders \ {t} : Passed(s)' = Passed(s)
  PROVE  /\ (Passed(t)' = o <=> Passed(t) = o) => Passers(o)' = Passers(o)
         /\ Passed(t)' = o /\ Passed(t) # o => Gains(Passers(o), Passers(o)', t)
         /\ Passed(t)' # o /\ Passed(t) = o => Loses(Passers(o), Passers(o)', t)
BY DEF Passers, Gains, Loses

(* What pointers had, when one thread moves.                                  *)
LEMMA HaversMove ==
  ASSUME NEW o, NEW t \in Holders, \A s \in Holders \ {t} : Had(s)' = Had(s)
  PROVE  /\ (Had(t)' = o <=> Had(t) = o) => Havers(o)' = Havers(o)
         /\ Had(t)' = o /\ Had(t) # o => Gains(Havers(o), Havers(o)', t)
         /\ Had(t)' # o /\ Had(t) = o => Loses(Havers(o), Havers(o)', t)
BY DEF Havers, Gains, Loses

(* Each count changes with what it counts.                                    *)
LEMMA CountsSame ==
  ASSUME NEW t, NEW d, NEW e, Before(t, d, e), mRefCnt' = mRefCnt,
         Keeps(d.to)' = Keeps(d.to), Passed(t)' = Passed(t), Had(t)' = Had(t),
         NEW o \in Objects
  PROVE  Counts(o)'
<1>1. RefInv /\ t \in Holders /\ d.to \in Pointers
  BY Mine DEF Before
<1>2. Keepers(o)' = Keepers(o) /\ Passers(o)' = Passers(o) /\ Havers(o)' = Havers(o)
  BY <1>1, OtherPointersKeep, KeepersMove, PassersMove, HaversMove
<1> QED BY <1>1, <1>2 DEF RefInv, Counts

(* when one is counted,                                                       *)
LEMMA CountsMore ==
  ASSUME NEW t, NEW d, NEW e, Before(t, d, e), Counting(t, d, e), NEW o \in Objects
  PROVE  Counts(o)'
<1>1. RefInv /\ t \in Holders /\ d.to \in Pointers /\ mRefCnt \in [Objects -> Int] /\ o # NULL
  BY Mine, Finite DEF Before, RefInv, RefTypes
<1>2. mRefCnt[o] = Cardinality(Keepers(o)) + Cardinality(Passers(o)) + Cardinality(Havers(o))
  BY <1>1 DEF RefInv, Counts
<1>3. mRefCnt'[o] = IF o = d.new THEN mRefCnt[o] + 1 ELSE mRefCnt[o]
  BY DEF Counting
<1>4. Havers(o)' = Havers(o)
  BY <1>1, OtherPointersKeep, IncTokens, HaversMove
<1>5. CASE Keeps(d.to) = NULL /\ Keeps(d.to)' = d.new /\ Passed(t)' = Passed(t)
  <2>1. Passers(o)' = Passers(o)
    BY <1>1, <1>5, OtherPointersKeep, PassersMove
  <2>2. IF o = d.new THEN Gains(Keepers(o), Keepers(o)', d.to) ELSE Keepers(o)' = Keepers(o)
    BY <1>1, <1>5, OtherPointersKeep, KeepersMove
  <2>3. Cardinality(Keepers(o)') = Cardinality(Keepers(o)) + IF o = d.new THEN 1 ELSE 0
    BY <2>2, GainsOne, TokensFinite
  <2> QED BY <1>1, <1>2, <1>3, <1>4, <2>1, <2>3, TokensFinite DEF Counts
<1>6. CASE Passed(t) = NULL /\ Passed(t)' = d.new /\ Keeps(d.to)' = Keeps(d.to)
  <2>1. Keepers(o)' = Keepers(o)
    BY <1>1, <1>6, OtherPointersKeep, KeepersMove
  <2>2. IF o = d.new THEN Gains(Passers(o), Passers(o)', t) ELSE Passers(o)' = Passers(o)
    BY <1>1, <1>6, OtherPointersKeep, PassersMove
  <2>3. Cardinality(Passers(o)') = Cardinality(Passers(o)) + IF o = d.new THEN 1 ELSE 0
    BY <2>2, GainsOne, TokensFinite
  <2> QED BY <1>1, <1>2, <1>3, <1>4, <2>1, <2>3, TokensFinite DEF Counts
<1> QED BY <1>5, <1>6, IncTokens

(* when one is discounted,                                                    *)
LEMMA CountsLess ==
  ASSUME NEW t, NEW d, NEW e, NEW x, NEW last, Before(t, d, e), Discounting(t, d, e, x, last),
         last => ~At(d, "assign", 7), NEW o \in Objects
  PROVE  Counts(o)'
<1>1. RefInv /\ t \in Holders /\ d.to \in Pointers /\ mRefCnt \in [Objects -> Int] /\ o # NULL
  BY Mine, Finite DEF Before, RefInv, RefTypes
<1>2. mRefCnt[o] = Cardinality(Keepers(o)) + Cardinality(Passers(o)) + Cardinality(Havers(o))
  BY <1>1 DEF RefInv, Counts
<1>3. mRefCnt'[o] = IF o = x THEN mRefCnt[o] - 1 ELSE mRefCnt[o]
  BY DEF Discounting
<1>4. Keepers(o)' = Keepers(o)
  BY <1>1, OtherPointersKeep, DecTokens, KeepersMove
<1>5. CASE Had(t) = x /\ Had(t)' = NULL /\ Passed(t)' = Passed(t)
  <2>1. Passers(o)' = Passers(o)
    BY <1>1, <1>5, OtherPointersKeep, PassersMove
  <2>2. IF o = x THEN Loses(Havers(o), Havers(o)', t) ELSE Havers(o)' = Havers(o)
    BY <1>1, <1>5, OtherPointersKeep, HaversMove
  <2>3. Cardinality(Havers(o)') = Cardinality(Havers(o)) - IF o = x THEN 1 ELSE 0
    BY <2>2, LosesOne, TokensFinite
  <2> QED BY <1>1, <1>2, <1>3, <1>4, <2>1, <2>3, TokensFinite DEF Counts
<1>6. CASE Passed(t) = x /\ Passed(t)' = NULL /\ Had(t)' = Had(t)
  <2>1. Havers(o)' = Havers(o)
    BY <1>1, <1>6, OtherPointersKeep, HaversMove
  <2>2. IF o = x THEN Loses(Passers(o), Passers(o)', t) ELSE Passers(o)' = Passers(o)
    BY <1>1, <1>6, OtherPointersKeep, PassersMove
  <2>3. Cardinality(Passers(o)') = Cardinality(Passers(o)) - IF o = x THEN 1 ELSE 0
    BY <2>2, LosesOne, TokensFinite
  <2> QED BY <1>1, <1>2, <1>3, <1>4, <2>1, <2>3, TokensFinite DEF Counts
<1> QED BY <1>5, <1>6, DecTokens

(* and when an operation starts.                                              *)
LEMMA CountsMoved ==
  ASSUME RefInv, NEW t \in Holders, NEW e, NEW p \in Pointers, Starting(t, e, p), NEW o \in Objects
  PROVE  Counts(o)'
<1>1. mRefCnt' = mRefCnt /\ mRefCnt \in [Objects -> Int] /\ o # NULL
  BY Finite DEF Starting, RefInv, RefTypes
<1>2. mRefCnt[o] = Cardinality(Keepers(o)) + Cardinality(Passers(o)) + Cardinality(Havers(o))
  BY DEF RefInv, Counts
<1>3. Passers(o)' = Passers(o)
  BY StartTokens DEF Passers
<1>4. CASE rcPointer[p] # o
  <2>1. Keepers(o)' = Keepers(o) /\ Havers(o)' = Havers(o)
    BY <1>1, <1>4, StartTokens, KeepersMove, HaversMove
  <2> QED BY <1>1, <1>2, <1>3, <2>1 DEF Counts
<1>5. CASE rcPointer[p] = o
  <2>1. Loses(Keepers(o), Keepers(o)', p) /\ Gains(Havers(o), Havers(o)', t)
    BY <1>1, <1>5, StartTokens, KeepersMove, HaversMove
  <2>2. /\ Cardinality(Keepers(o)') = Cardinality(Keepers(o)) - 1
        /\ Cardinality(Havers(o)') = Cardinality(Havers(o)) + 1
    BY <2>1, GainsOne, LosesOne, TokensFinite
  <2> QED BY <1>1, <1>2, <1>3, <2>2, TokensFinite DEF Counts
<1> QED BY <1>4, <1>5

-----------------------------------------------------------------------------
(* Whoever uses an object is counted in it, or alone has it.                  *)
Token(o) == Keepers(o) # {} \/ Passers(o) # {} \/ Havers(o) # {}

UsedIsCounted ==
  \A t \in Holders, o \in Objects : Uses(doing[t], o) =>
    \/ Token(o)
    \/ Deletes(t) /\ doing[t].old = o
    \/ Takes(t) /\ doing[t].new = o /\ Alone(t, o)

WellDoing ==
  /\ RefTypes
  /\ \A t \in Holders : Formed(doing[t]) /\ Relies(t)
  /\ \A t \in Holders : TakesWhatLives(t)

(* Who uses an object has a token of it, or deletes or takes it.              *)
LEMMA IfUsed == WellDoing => UsedIsCounted
<1> SUFFICES ASSUME WellDoing, NEW t \in Holders, NEW o \in Objects, Uses(doing[t], o)
             PROVE  \/ Token(o)
                    \/ Deletes(t) /\ doing[t].old = o
                    \/ Takes(t) /\ doing[t].new = o /\ Alone(t, o)
  BY DEF UsedIsCounted
<1>1. PICK d : d = doing[t]
  OBVIOUS
<1>2. Formed(d) /\ Relies(t) /\ TakesWhatLives(t) /\ o # NULL /\ d \in Doings
  BY <1>1, Finite DEF WellDoing, Formed
<1>3. (UsesNew(d) /\ d.new = o) \/ (UsesOld(d) /\ d.old = o)
  <2>1. Uses(d, o)
    BY <1>1
  <2> QED BY <1>2, <2>1, UsesWhat
<1>4. ASSUME NEW q \in Pointers, rcPointer[q] = o, \A s \in Holders : doing[s].to # q
      PROVE  Token(o)
  BY <1>4, Finite DEF Keeps, Keepers, Token
<1>5. CASE d.op = "copy" /\ d.new = o
  <2>1. d.from \in Pointers /\ d.from # NULL /\ rcPointer[d.from] = o
    BY <1>1, <1>2, <1>5 DEF Formed, Relies, Doings
  <2>2. \A s \in Holders : doing[s].to # d.from
    BY <1>1, <1>2, <1>5, <2>1 DEF Relies
  <2> QED BY <1>4, <2>1, <2>2
<1>6. CASE d.op = "assign" /\ d.new = o
  <2>1. CASE d.at = 1
    <3>1. d.from \in Pointers /\ d.from # NULL /\ rcPointer[d.from] = o /\ rcPointer[d.to] = d.old
      BY <1>1, <1>2, <1>6, <2>1 DEF Formed, Relies, Doings
    <3>2. CASE d.to = d.from
      <4>1. Had(t) = o
        BY <1>1, <1>6, <2>1, <3>1, <3>2 DEF Had
      <4> QED BY <4>1 DEF Token, Havers
    <3>3. CASE d.to # d.from
      <4>1. \A s \in Holders : doing[s].to # d.from
        BY <1>1, <1>2, <3>1, <3>3 DEF Relies
      <4> QED BY <1>4, <3>1, <4>1
    <3> QED BY <3>2, <3>3
  <2>2. CASE d.at # 1
    <3>1. d.at \in 2..7
      BY <1>2, <2>2 DEF Doings
    <3>2. Passed(t) = o
      BY <1>1, <1>6, <3>1 DEF Passed
    <3> QED BY <3>2 DEF Token, Passers
  <2> QED BY <2>1, <2>2
<1>7. CASE Takes(t) /\ d.new = o
  <2>1. CASE d.old = d.new
    <3>1. Had(t) = o
      <4>1. d.at \in 1..7
        BY <1>2 DEF Doings
      <4> QED BY <1>1, <1>7, <2>1, <4>1 DEF Had, Takes
    <3> QED BY <3>1 DEF Token, Havers
  <2>2. CASE \E q \in Pointers \ {d.to} : Owner[q] = t /\ rcPointer[q] = d.new
    <3>1. PICK q \in Pointers \ {d.to} : Owner[q] = t /\ rcPointer[q] = d.new
      BY <2>2
    <3>2. Keeps(q) = o
      BY <1>1, <1>7, <3>1 DEF Keeps
    <3> QED BY <3>2 DEF Token, Keepers
  <2> QED BY <1>1, <1>2, <1>7, <2>1, <2>2 DEF TakesWhatLives
<1>8. CASE UsesOld(d) /\ d.old = o
  <2>1. d.op \in {"assign", "object", "free"} /\ d.at \in 1..7
    BY <1>2, <1>8 DEF UsesOld, Doings
  <2>2. Had(t) = o \/ Deletes(t)
    <3>1. CASE d.op = "assign"
      BY <1>1, <1>8, <2>1, <3>1 DEF UsesOld, Had, Deletes
    <3>2. CASE d.op = "object"
      <4>1. d.at \in 1..4
        BY <1>2, <3>2 DEF Formed
      <4> QED BY <1>1, <1>8, <3>2, <4>1 DEF UsesOld, Had, Deletes
    <3>3. CASE d.op = "free"
      BY <1>1, <1>8, <2>1, <3>3 DEF UsesOld, Had, Deletes
    <3> QED BY <2>1, <3>1, <3>2, <3>3
  <2> QED BY <1>1, <1>8, <2>2 DEF Token, Havers
<1> QED BY <1>1, <1>2, <1>3, <1>5, <1>6, <1>7, <1>8 DEF UsesNew, Takes

(* An object somebody has a token of is counted.                              *)
LEMMA TokenCounts ==
  ASSUME NEW o, Counts(o)
  PROVE  mRefCnt[o] \in Nat /\ (Token(o) => mRefCnt[o] > 0)
<1>1. mRefCnt[o] = Cardinality(Keepers(o)) + Cardinality(Passers(o)) + Cardinality(Havers(o))
  BY DEF Counts
<1>2. /\ Keepers(o) # {} => Cardinality(Keepers(o)) # 0
      /\ Passers(o) # {} => Cardinality(Passers(o)) # 0
      /\ Havers(o) # {} => Cardinality(Havers(o)) # 0
  BY TokensFinite, FS_EmptySet
<1> QED BY <1>1, <1>2, TokensFinite DEF Token

AllCounted == \A o \in Objects : Counts(o)
TokensCount == \A o \in Objects : mRefCnt[o] \in Nat /\ (Token(o) => mRefCnt[o] > 0)

(* The same, of all objects.                                                  *)
LEMMA IfCounted == AllCounted => TokensCount
BY TokenCounts DEF AllCounted, TokensCount

(* So what is used is alive: counted, or alone with its user.                 *)
LEMMA UsedLives ==
  ASSUME RefInv, NEW t \in Holders, NEW o \in Objects, Uses(doing[t], o)
  PROVE  life[o] = "alive" /\ (mRefCnt[o] > 0 \/ Alone(t, o))
<1>1. UsedIsCounted
  BY IfUsed DEF RefInv, WellDoing
<1>2. Counts(o) /\ Lives(o) /\ DeletesAlone(t)
  BY DEF RefInv
<1>3. mRefCnt[o] > 0 \/ Alone(t, o)
  BY <1>1, <1>2, TokenCounts DEF UsedIsCounted, DeletesAlone
<1> QED BY <1>2, <1>3 DEF Lives, Alone

(* A pointer no operation is about keeps its object alive.                    *)
LEMMA KeptLives ==
  ASSUME RefInv, NEW p \in Pointers, doing[Owner[p]].to # p, NEW o \in Objects, rcPointer[p] = o
  PROVE  mRefCnt[o] > 0 /\ life[o] = "alive"
<1>1. Token(o)
  BY DEF Keeps, Keepers, Token
<1> QED BY <1>1, TokenCounts DEF RefInv, Lives

(* A call adds nothing to what an operation uses.                             *)
LEMMA UsesNoMore ==
  ASSUME NEW d, Formed(d), NEW e, Follows(d, e), NEW o \in Objects,
         \/ \E v : SetStep(d, e, v)
         \/ IncStep(d, e)
         \/ \E x, last : DecStep(d, e, x, last) /\ last \in BOOLEAN /\ (last => ~At(d, "assign", 7))
         \/ DeleteStep(d, e),
         Uses(e, o)
  PROVE  Uses(d, o)
<1>1. Formed(e) /\ ((UsesNew(e) /\ e.new = o) \/ (UsesOld(e) /\ e.old = o))
  BY UsesWhat DEF Follows
<1>2. e # Nothing
  BY <1>1, NothingIs, Finite
<1>3. e.op = d.op /\ e.new = d.new /\ e.old = d.old
  BY <1>2 DEF Follows
<1>4. d.at \in 1..7 /\ e.at \in 1..7
  BY <1>1 DEF Formed, Doings
<1>5. d.at <= e.at
  <2>1. ASSUME NEW v, SetStep(d, e, v) PROVE d.at <= e.at
    BY <1>2, <1>4, <2>1 DEF SetStep, At, Advanced
  <2>2. ASSUME IncStep(d, e) PROVE d.at <= e.at
    BY <1>2, <1>4, <2>2 DEF IncStep, At, Advanced
  <2>3. ASSUME NEW x, NEW last \in BOOLEAN, DecStep(d, e, x, last), last => ~At(d, "assign", 7)
        PROVE  d.at <= e.at
    <3>1. CASE last
      BY <1>2, <1>4, <2>3, <3>1 DEF DecStep, At, Advanced
    <3>2. CASE ~last
      BY <1>2, <1>4, <2>3, <3>2 DEF DecStep, At, Advanced
    <3> QED BY <3>1, <3>2
  <2>4. ASSUME DeleteStep(d, e) PROVE d.at <= e.at
    BY <1>2, <1>4, <2>4 DEF DeleteStep, At, Advanced
  <2> QED BY <2>1, <2>2, <2>3, <2>4
<1>6. (UsesNew(e) => UsesNew(d)) /\ (UsesOld(e) => UsesOld(d))
  BY <1>3, <1>4, <1>5 DEF UsesNew, UsesOld
<1> QED BY <1>1, <1>3, <1>6, UsesWhat

(* A step that does not start an operation.                                   *)
Working(t, d, e) ==
  \/ \E v : Setting(t, d, e, v)
  \/ Counting(t, d, e)
  \/ \E x, last : Discounting(t, d, e, x, last) /\ (last => ~At(d, "assign", 7))
  \/ Deleting(t, d, e)

(* Who is alone with an object stays alone,                                   *)
LEMMA AloneStays ==
  ASSUME NEW t, NEW d, NEW e, Before(t, d, e), Working(t, d, e),
         NEW s \in Holders \ {t}, NEW o \in Objects, Alone(s, o)
  PROVE  Alone(s, o)'
<1>1. /\ RefInv /\ t \in Holders /\ Follows(d, e) /\ Formed(d) /\ d = doing[t]
      /\ doing'[t] = e /\ \A r \in Holders \ {t} : doing'[r] = doing[r]
      /\ mRefCnt \in [Objects -> Int] /\ life \in [Objects -> {"unborn", "alive", "deleted"}]
  BY Mine DEF Before, StepOf, RefInv, RefTypes
<1>2. ~Uses(d, o) /\ ~(UsesNew(d) /\ d.new = o) /\ ~(UsesOld(d) /\ d.old = o)
  <2>1. ~Uses(d, o)
    BY <1>1 DEF Alone
  <2> QED BY <1>1, <2>1, UsesWhat
<1>3. ~Uses(e, o)
  BY <1>1, <1>2, UsesNoMore DEF Working, Setting, Counting, Discounting, Deleting
<1>4. \A r \in Holders \ {s} : ~Uses(doing'[r], o)
  BY <1>1, <1>3 DEF Alone
<1>5. mRefCnt'[o] = mRefCnt[o] /\ life'[o] = life[o]
  <2>1. ASSUME NEW v, Setting(t, d, e, v) PROVE mRefCnt'[o] = mRefCnt[o] /\ life'[o] = life[o]
    BY <2>1 DEF Setting
  <2>2. ASSUME Counting(t, d, e) PROVE mRefCnt'[o] = mRefCnt[o] /\ life'[o] = life[o]
    <3>1. UsesNew(d)
      BY <2>2 DEF Counting, IncStep, At, UsesNew
    <3> QED BY <1>2, <2>2, <3>1 DEF Counting
  <2>3. ASSUME NEW x, NEW last, Discounting(t, d, e, x, last)
        PROVE  mRefCnt'[o] = mRefCnt[o] /\ life'[o] = life[o]
    <3>1. (UsesNew(d) /\ x = d.new) \/ (UsesOld(d) /\ x = d.old)
      <4>1. \/ At(d, "assign", 3) /\ x = d.old
            \/ At(d, "assign", 7) /\ x = d.new
            \/ At(d, "object", 3) /\ x = d.old
            \/ At(d, "free", 1) /\ x = d.old
        BY <2>3 DEF Discounting, DecStep
      <4> QED BY <4>1 DEF At, UsesNew, UsesOld
    <3> QED BY <1>2, <2>3, <3>1 DEF Discounting
  <2>4. ASSUME Deleting(t, d, e) PROVE mRefCnt'[o] = mRefCnt[o] /\ life'[o] = life[o]
    <3>1. UsesOld(d)
      BY <2>4 DEF Deleting, DeleteStep, At, UsesOld
    <3> QED BY <1>1, <1>2, <2>4, <3>1 DEF Deleting
  <2> QED BY <2>1, <2>2, <2>3, <2>4 DEF Working
<1> QED BY <1>4, <1>5 DEF Alone

(* so the others keep what they take or delete;                               *)
LEMMA OthersTake ==
  ASSUME NEW t, NEW d, NEW e, Before(t, d, e), Working(t, d, e), NEW s \in Holders \ {t}
  PROVE  TakesWhatLives(s)' /\ DeletesAlone(s)'
<1>1. PICK c : c = doing[s]
  OBVIOUS
<1>2. /\ RefInv /\ t \in Holders /\ d = doing[t] /\ Owner[d.to] = t
      /\ doing'[s] = c /\ Formed(c)
      /\ TakesWhatLives(s) /\ DeletesAlone(s)
  BY <1>1, Mine DEF Before, StepOf, RefInv
<1>3. (Takes(s)' <=> Takes(s)) /\ (Deletes(s)' <=> Deletes(s))
  BY <1>1, <1>2 DEF Takes, Deletes
<1>4. DeletesAlone(s)'
  <2>1. ASSUME Deletes(s) PROVE c.old \in Objects
    BY <1>1, <1>2, <2>1 DEF Deletes, Formed, Doings
  <2> QED BY <1>1, <1>2, <1>3, <2>1, AloneStays DEF DeletesAlone
<1>5. TakesWhatLives(s)'
  <2>1. SUFFICES ASSUME Takes(s)
                 PROVE  \/ Alone(s, c.new)'
                        \/ c.old = c.new
                        \/ \E q \in Pointers \ {c.to} : Owner[q] = s /\ rcPointer'[q] = c.new
    BY <1>2, <1>3 DEF TakesWhatLives
  <2>2. c.new \in Objects
    BY <1>1, <1>2, <2>1 DEF Takes, Formed, Doings
  <2>3. CASE Alone(s, c.new)
    BY <2>2, <2>3, AloneStays
  <2>4. ASSUME NEW q \in Pointers \ {c.to}, Owner[q] = s, rcPointer[q] = c.new
        PROVE  rcPointer'[q] = c.new
    BY <1>2, <2>4 DEF Before
  <2> QED BY <1>1, <1>2, <2>1, <2>3, <2>4 DEF TakesWhatLives
<1> QED BY <1>4, <1>5

(* t itself keeps what it takes,                                              *)
LEMMA MineTakes ==
  ASSUME NEW t, NEW d, NEW e, Before(t, d, e), Working(t, d, e)
  PROVE  TakesWhatLives(t)'
<1>1. /\ RefInv /\ t \in Holders /\ d = doing[t] /\ Formed(d) /\ d.to # NULL
      /\ doing'[t] = e /\ \A r \in Holders \ {t} : doing'[r] = doing[r]
      /\ TakesWhatLives(t)
  BY Mine DEF Before, StepOf, RefInv
<1>2. CASE e.op = "object" /\ e.at <= 2 /\ e.new # NULL
  <2>1. /\ \E v : Setting(t, d, e, v)
        /\ At(d, "object", 1) /\ e.to = d.to /\ e.new = d.new /\ e.old = d.old
    <3>1. e # Nothing
      BY <1>2, NothingIs
    <3>2. ASSUME NEW v, Setting(t, d, e, v)
          PROVE  At(d, "object", 1) /\ e.to = d.to /\ e.new = d.new /\ e.old = d.old
      BY <1>2, <3>1, <3>2 DEF Setting, SetStep, At, Advanced
    <3>3. ASSUME Counting(t, d, e) PROVE FALSE
      BY <1>2, <3>1, <3>3 DEF Counting, IncStep, At, Advanced
    <3>4. ASSUME NEW x, NEW last, Discounting(t, d, e, x, last), last => ~At(d, "assign", 7) PROVE FALSE
      <4>1. CASE last
        BY <1>2, <3>1, <3>4, <4>1 DEF Discounting, DecStep, At, Advanced
      <4>2. CASE ~last
        BY <1>2, <3>1, <3>4, <4>2 DEF Discounting, DecStep, At, Advanced
      <4> QED BY <4>1, <4>2
    <3>5. ASSUME Deleting(t, d, e) PROVE FALSE
      BY <1>2, <3>1, <3>5 DEF Deleting, DeleteStep, At, Advanced
    <3> QED BY <3>2, <3>3, <3>4, <3>5 DEF Working
  <2>2. mRefCnt' = mRefCnt /\ life' = life
    BY <2>1 DEF Setting
  <2>3. \A o \in Objects : Alone(t, o) => Alone(t, o)'
    BY <1>1, <2>2 DEF Alone
  <2>4. d.op = "object" /\ d.at = 1 /\ d.new \in Objects
    BY <1>1, <1>2, <2>1 DEF At, Formed, Doings
  <2>5. Takes(t)
    BY <1>1, <1>2, <2>1, <2>4 DEF Takes
  <2>6. \A q \in Pointers \ {d.to} : rcPointer'[q] = rcPointer[q]
    BY DEF Before
  <2> QED BY <1>1, <2>1, <2>3, <2>4, <2>5, <2>6 DEF TakesWhatLives
<1>3. CASE ~(e.op = "object" /\ e.at <= 2 /\ e.new # NULL)
  BY <1>1, <1>3 DEF TakesWhatLives, Takes
<1> QED BY <1>2, <1>3

(* The copy an assignment destroys last is not the last to be counted.        *)
LEMMA CopyIsNotLast ==
  ASSUME RefInv, NEW t \in Holders, NEW d, NEW e, NEW x, NEW last, Discounting(t, d, e, x, last)
  PROVE  last => x \in Objects /\ ~At(d, "assign", 7)
<1>1. /\ d = doing[t] /\ Formed(d) /\ Relies(t) /\ d.op # "none" /\ DecStep(d, e, x, last)
      /\ last \in BOOLEAN /\ mRefCnt \in [Objects -> Int]
  BY DEF Discounting, StepOf, RefInv, RefTypes
<1>2. SUFFICES ASSUME last, x # NULL, mRefCnt'[x] <= 0
               PROVE  x \in Objects /\ ~At(d, "assign", 7)
  BY DEF Discounting
<1>3. x \in Objects
  <2>1. x \in {d.old, d.new}
    BY <1>1 DEF DecStep
  <2> QED BY <1>1, <1>2, <2>1 DEF Formed, Doings
<1>4. ASSUME At(d, "assign", 7) PROVE FALSE
  <2>1. d.op = "assign" /\ d.at = 7 /\ x = d.new /\ d.to \in Pointers /\ Owner[d.to] = t
    BY <1>1, <1>4 DEF At, DecStep, Formed, Doings, Relies
  <2>2. Keeps(d.to) = x /\ Passed(t) = x
    BY <1>1, <2>1 DEF Keeps, Passed
  <2>3. d.to \in Keepers(x) /\ t \in Passers(x)
    BY <2>1, <2>2 DEF Keepers, Passers
  <2>4. Cardinality(Keepers(x)) # 0 /\ Cardinality(Passers(x)) # 0
    BY <2>3, TokensFinite, FS_EmptySet
  <2>5. mRefCnt[x] = Cardinality(Keepers(x)) + Cardinality(Passers(x)) + Cardinality(Havers(x))
    BY <1>3 DEF RefInv, Counts
  <2>6. mRefCnt[x] >= 2
    BY <2>4, <2>5, TokensFinite
  <2>7. mRefCnt'[x] = mRefCnt[x] - 1
    BY <1>3 DEF Discounting
  <2> QED BY <1>2, <2>6, <2>7, <1>1, <1>3
<1> QED BY <1>3, <1>4

(* Who counts an object down to nothing is alone with it.                     *)
LEMMA MineDeletes ==
  ASSUME NEW t, NEW d, NEW e, Before(t, d, e), Working(t, d, e),
         WellDoing', AllCounted', \A s \in Holders \ {t} : DeletesAlone(s)
  PROVE  DeletesAlone(t)'
<1>1. /\ RefInv /\ t \in Holders /\ d = doing[t] /\ Formed(d) /\ Formed(e)
      /\ doing'[t] = e /\ \A r \in Holders \ {t} : doing'[r] = doing[r]
      /\ mRefCnt \in [Objects -> Int]
  BY Mine DEF Before, StepOf, RefInv, RefTypes
<1>2. CASE <<e.op, e.at>> \in {<<"assign", 4>>, <<"object", 4>>, <<"free", 2>>}
  <2>0. At(e, "assign", 4) \/ At(e, "object", 4) \/ At(e, "free", 2)
    BY <1>2 DEF At
  <2>1. e # Nothing
    BY <2>0, NothingIs DEF At
  <2>2. PICK x, last : Discounting(t, d, e, x, last) /\ last /\ x = d.old /\ e.old = d.old
    <3>1. ASSUME NEW v, Setting(t, d, e, v) PROVE FALSE
      BY <2>0, <2>1, <3>1 DEF Setting, SetStep, At, Advanced
    <3>2. ASSUME Counting(t, d, e) PROVE FALSE
      BY <2>0, <2>1, <3>2 DEF Counting, IncStep, At, Advanced
    <3>3. ASSUME NEW x, NEW last, Discounting(t, d, e, x, last), last => ~At(d, "assign", 7)
          PROVE last /\ x = d.old /\ e.old = d.old
      <4>1. CASE last
        BY <2>0, <2>1, <3>3, <4>1 DEF Discounting, DecStep, At, Advanced
      <4>2. CASE ~last
        BY <2>0, <2>1, <3>3, <4>2 DEF Discounting, DecStep, At, Advanced
      <4> QED BY <4>1, <4>2
    <3>4. ASSUME Deleting(t, d, e) PROVE FALSE
      BY <2>0, <2>1, <3>4 DEF Deleting, DeleteStep, At, Advanced
    <3> QED BY <3>1, <3>2, <3>3, <3>4 DEF Working
  <2>3. x \in Objects /\ mRefCnt'[x] <= 0 /\ mRefCnt'[x] = mRefCnt[x] - 1 /\ life' = life
    BY <1>1, <2>2, CopyIsNotLast DEF Discounting
  <2>4. mRefCnt'[x] = 0 /\ mRefCnt[x] > 0
    <3>1. TokensCount'
      BY IfCounted, PTL
    <3>2. mRefCnt'[x] \in Nat
      BY <2>3, <3>1 DEF TokensCount
    <3> QED BY <1>1, <2>3, <3>2
  <2>5. life'[x] = "alive"
    BY <1>1, <2>3, <2>4 DEF RefInv, Lives
  <2>6. ASSUME NEW s \in Holders \ {t}, Uses(doing'[s], x) PROVE FALSE
    <3>1. UsedIsCounted'
      BY IfUsed, PTL
    <3>2. \/ Token(x)'
          \/ Deletes(s)' /\ doing'[s].old = x
          \/ Takes(s)' /\ doing'[s].new = x /\ Alone(s, x)'
      BY <2>3, <2>6, <3>1 DEF UsedIsCounted
    <3>3. ~Token(x)'
      <4>1. TokensCount'
        BY IfCounted, PTL
      <4> QED BY <2>3, <2>4, <4>1 DEF TokensCount
    <3>4. ~(Deletes(s)' /\ doing'[s].old = x)
      <4>1. ASSUME Deletes(s)', doing'[s].old = x PROVE Alone(s, x)
        BY <1>1, <4>1 DEF Deletes, DeletesAlone
      <4> QED BY <2>4, <4>1 DEF Alone
    <3>5. ~Alone(s, x)'
      <4>1. UsesOld(e)
        BY <2>0 DEF At, UsesOld
      <4>2. Uses(e, x)
        BY <1>1, <2>2, <2>3, <4>1, UsesWhat
      <4> QED BY <1>1, <4>2 DEF Alone
    <3> QED BY <3>2, <3>3, <3>4, <3>5
  <2> QED BY <1>1, <2>2, <2>3, <2>4, <2>5, <2>6 DEF DeletesAlone, Alone
<1>3. CASE ~(<<e.op, e.at>> \in {<<"assign", 4>>, <<"object", 4>>, <<"free", 2>>})
  BY <1>1, <1>3 DEF DeletesAlone, Deletes
<1> QED BY <1>2, <1>3

(* Objects live as long as they are counted, and no longer but for who deletes. *)
LEMMA AllLive ==
  ASSUME NEW t, NEW d, NEW e, Before(t, d, e), Working(t, d, e), AllCounted', NEW o \in Objects
  PROVE  Lives(o)'
<1>1. /\ RefInv /\ t \in Holders /\ d = doing[t] /\ Formed(d)
      /\ doing'[t] = e /\ \A r \in Holders \ {t} : doing'[r] = doing[r]
      /\ mRefCnt \in [Objects -> Int] /\ life \in [Objects -> {"unborn", "alive", "deleted"}]
      /\ Lives(o) /\ Counts(o) /\ DeletesAlone(t)
  BY Mine DEF Before, StepOf, RefInv, RefTypes
<1>2. mRefCnt[o] \in Nat /\ mRefCnt'[o] \in Nat
  <2>1. TokensCount'
    BY IfCounted, PTL
  <2> QED BY <1>1, <2>1, TokenCounts DEF TokensCount
<1> DEFINE Bound(s) == (Deletes(s) /\ doing[s].old = o) \/ (Takes(s) /\ doing[s].new = o)
<1>3. \A s \in Holders \ {t} : Bound(s) => Bound(s)'
  BY <1>1 DEF Deletes, Takes
<1>4. ASSUME NEW v, Setting(t, d, e, v) PROVE Lives(o)'
  <2>1. mRefCnt' = mRefCnt /\ life' = life /\ SetStep(d, e, v)
    BY <1>4 DEF Setting
  <2>2. Bound(t) => Bound(t)'
    <3>1. ~Deletes(t)
      BY <1>1, <2>1 DEF SetStep, At, Deletes
    <3>2. ASSUME Takes(t) PROVE Takes(t)' /\ e.new = d.new
      BY <1>1, <2>1, <3>2 DEF SetStep, At, Takes, Advanced
    <3> QED BY <1>1, <3>1, <3>2
  <2> QED BY <1>1, <1>3, <2>1, <2>2 DEF Lives
<1>5. ASSUME Counting(t, d, e) PROVE Lives(o)'
  <2>1. life' = life /\ IncStep(d, e)
        /\ mRefCnt'[o] = IF o = d.new THEN mRefCnt[o] + 1 ELSE mRefCnt[o]
    BY <1>5 DEF Counting
  <2>2. CASE o = d.new
    <3>1. UsesNew(d)
      BY <2>1 DEF IncStep, At, UsesNew
    <3>2. Uses(doing[t], o)
      BY <1>1, <2>2, <3>1, UsesWhat
    <3>3. life[o] = "alive"
      BY <1>1, <3>2, UsedLives
    <3> QED BY <1>2, <2>1, <2>2, <3>3 DEF Lives
  <2>3. CASE o # d.new
    <3>1. ~Bound(t)
      BY <1>1, <2>1, <2>3 DEF IncStep, At, Deletes, Takes
    <3> QED BY <1>1, <1>3, <2>1, <2>3, <3>1 DEF Lives
  <2> QED BY <2>2, <2>3
<1>6. ASSUME NEW x, NEW last, Discounting(t, d, e, x, last), last => ~At(d, "assign", 7)
      PROVE  Lives(o)'
  <2>1. /\ life' = life /\ DecStep(d, e, x, last) /\ last \in BOOLEAN
        /\ mRefCnt'[o] = IF o = x THEN mRefCnt[o] - 1 ELSE mRefCnt[o]
        /\ last <=> x # NULL /\ mRefCnt'[x] <= 0
    BY <1>6 DEF Discounting
  <2>2. CASE o # x
    <3>1. ~Bound(t)
      <4>1. At(d, "assign", 3) \/ At(d, "assign", 7) \/ At(d, "object", 3) \/ At(d, "free", 1)
        BY <2>1 DEF DecStep
      <4> QED BY <1>1, <4>1 DEF At, Deletes, Takes
    <3> QED BY <1>1, <1>3, <2>1, <2>2, <3>1 DEF Lives
  <2>3. CASE o = x /\ last
    <3>1. Deletes(t)' /\ e.old = o
      BY <1>1, <1>6, <2>1, <2>3 DEF DecStep, At, Advanced, Deletes
    <3> QED BY <1>1, <1>2, <2>1, <2>3, <3>1 DEF Lives
  <2>4. CASE o = x /\ ~last
    <3>1. mRefCnt'[o] > 0 /\ mRefCnt[o] > 0
      BY <1>2, <2>1, <2>4, Finite
    <3> QED BY <1>1, <2>1, <3>1 DEF Lives
  <2> QED BY <2>1, <2>2, <2>3, <2>4
<1>7. ASSUME Deleting(t, d, e) PROVE Lives(o)'
  <2>1. /\ mRefCnt' = mRefCnt /\ life' = [life EXCEPT ![d.old] = "deleted"]
        /\ DeleteStep(d, e)
    BY <1>7 DEF Deleting
  <2>2. Deletes(t) /\ ~Takes(t) /\ Alone(t, d.old)
    <3>1. Deletes(t) /\ ~Takes(t)
      BY <1>1, <2>1 DEF DeleteStep, At, Deletes, Takes
    <3> QED BY <1>1, <3>1 DEF DeletesAlone
  <2>3. CASE o = d.old
    BY <1>1, <2>1, <2>2, <2>3 DEF Lives, Alone
  <2>4. CASE o # d.old
    BY <1>1, <1>3, <2>1, <2>2, <2>4 DEF Lives
  <2> QED BY <2>3, <2>4
<1> QED BY <1>4, <1>5, <1>6, <1>7 DEF Working

(* The same of a step that starts an operation.                               *)
LEMMA StartUses ==
  ASSUME RefInv, NEW t \in Holders, NEW e, NEW p \in Pointers, Starting(t, e, p),
         NEW o \in Objects, Uses(e, o)
  PROVE  \/ mRefCnt[o] > 0 /\ life[o] = "alive"
         \/ e.op = "object" /\ e.new = o /\ life[o] = "unborn"
<1>1. Formed(e) /\ Fitting(e, p) /\ doing[t] = Nothing /\ Owner[p] = t
  BY StartTokens DEF Starting
<1>2. (UsesNew(e) /\ e.new = o) \/ (UsesOld(e) /\ e.old = o)
  BY <1>1, UsesWhat
<1>3. CASE e.old = o
  <2>1. rcPointer[p] = o /\ doing[Owner[p]].to # p
    BY <1>1, <1>3, NothingIs, Finite DEF Fitting
  <2> QED BY <2>1, KeptLives
<1>4. CASE e.op \in {"copy", "assign"} /\ e.new = o
  <2>1. e.from \in Pointers /\ rcPointer[e.from] = o /\ \A s \in Holders : doing[s].to # e.from
    BY <1>1, <1>4 DEF Fitting
  <2>2. doing[Owner[e.from]].to # e.from
    BY <2>1, Finite
  <2> QED BY <2>1, <2>2, KeptLives
<1>5. CASE e.op = "object" /\ e.new = o
  <2>1. CASE life[o] = "unborn"
    BY <1>5, <2>1
  <2>2. ASSUME NEW q \in Pointers, Owner[q] = t, rcPointer[q] = o
        PROVE  mRefCnt[o] > 0 /\ life[o] = "alive"
    <3>1. doing[Owner[q]].to # q
      BY <1>1, <2>2, NothingIs, Finite
    <3> QED BY <2>2, <3>1, KeptLives
  <2> QED BY <1>5, <2>1, <2>2, Finite DEF Starting
<1> QED BY <1>2, <1>3, <1>4, <1>5 DEF UsesNew

(* So a start leaves all of that as it is.                                    *)
LEMMA StartLives ==
  ASSUME RefInv, NEW t \in Holders, NEW e, NEW p \in Pointers, Starting(t, e, p)
  PROVE  /\ \A s \in Holders : TakesWhatLives(s)' /\ DeletesAlone(s)'
         /\ \A o \in Objects : Lives(o)'
<1>1. /\ Formed(e) /\ Fitting(e, p) /\ doing[t] = Nothing /\ Owner[p] = t
      /\ doing'[t] = e /\ \A s \in Holders \ {t} : doing'[s] = doing[s]
      /\ mRefCnt' = mRefCnt /\ rcPointer' = rcPointer
      /\ life \in [Objects -> {"unborn", "alive", "deleted"}]
      /\ mRefCnt \in [Objects -> Int]
  BY StartTokens DEF Starting, RefInv, RefTypes
<1>2. \A o \in Objects : /\ Lives(o) /\ mRefCnt[o] \in Nat
                         /\ life[o] = "alive" => life'[o] = "alive"
                         /\ life'[o] = "alive" =>
                              life[o] = "alive" \/ (e.op = "object" /\ e.new = o /\ life[o] = "unborn")
                         /\ life'[o] # "alive" => life'[o] = life[o]
  <2>1. \A o \in Objects : Lives(o) /\ mRefCnt[o] \in Nat
    BY TokenCounts DEF RefInv
  <2>2. CASE life' = life
    BY <2>1, <2>2
  <2>3. CASE e.op = "object" /\ life[e.new] = "unborn" /\ life' = [life EXCEPT ![e.new] = "alive"]
    BY <1>1, <2>1, <2>3 DEF Fitting
  <2> QED BY <2>1, <2>2, <2>3 DEF Starting
<1>3. ASSUME NEW s \in Holders \ {t}, NEW o \in Objects, Alone(s, o) PROVE Alone(s, o)'
  <2>1. ~Uses(e, o)
    BY <1>3, StartUses DEF Alone
  <2> QED BY <1>1, <1>2, <1>3, <2>1 DEF Alone
<1>4. ASSUME NEW s \in Holders \ {t} PROVE TakesWhatLives(s)' /\ DeletesAlone(s)'
  <2>1. PICK c : c = doing[s]
    OBVIOUS
  <2>2. doing'[s] = c /\ Formed(c) /\ TakesWhatLives(s) /\ DeletesAlone(s)
    BY <1>1, <2>1 DEF RefInv
  <2>3. (Takes(s)' <=> Takes(s)) /\ (Deletes(s)' <=> Deletes(s))
    BY <2>1, <2>2 DEF Takes, Deletes
  <2>4. /\ Deletes(s) => c.old \in Objects
        /\ Takes(s) => c.new \in Objects
    BY <2>1, <2>2 DEF Deletes, Takes, Formed, Doings
  <2>5. DeletesAlone(s)'
    BY <1>3, <2>1, <2>2, <2>3, <2>4 DEF DeletesAlone
  <2>6. TakesWhatLives(s)'
    <3>1. SUFFICES ASSUME Takes(s)
                   PROVE  \/ Alone(s, c.new)'
                          \/ c.old = c.new
                          \/ \E q \in Pointers \ {c.to} : Owner[q] = s /\ rcPointer'[q] = c.new
      BY <2>2, <2>3 DEF TakesWhatLives
    <3>2. CASE Alone(s, c.new)
      BY <1>3, <2>4, <3>1, <3>2
    <3> QED BY <1>1, <2>1, <2>2, <3>1, <3>2 DEF TakesWhatLives
  <2> QED BY <2>5, <2>6
<1>5. e.at = 1 /\ e.op \in {"copy", "assign", "object", "free"} /\ e.to = p /\ e.old = rcPointer[p]
  BY <1>1 DEF Fitting
<1>6. DeletesAlone(t)'
  BY <1>1, <1>5 DEF DeletesAlone, Deletes
<1>7. TakesWhatLives(t)'
  <2>1. SUFFICES ASSUME e.op = "object", e.new # NULL
                 PROVE  \/ Alone(t, e.new)'
                        \/ e.old = e.new
                        \/ \E q \in Pointers \ {e.to} : Owner[q] = t /\ rcPointer'[q] = e.new
    BY <1>1 DEF TakesWhatLives, Takes
  <2>2. e.new \in Objects
    BY <1>1, <2>1 DEF Fitting
  <2>3. CASE life[e.new] = "unborn" /\ life' = [life EXCEPT ![e.new] = "alive"]
    <3>1. life'[e.new] = "alive" /\ mRefCnt'[e.new] = 0
      <4>1. ~(mRefCnt[e.new] > 0) /\ mRefCnt[e.new] \in Nat
        BY <1>2, <2>2, <2>3 DEF Lives
      <4> QED BY <1>1, <2>2, <2>3, <4>1
    <3>2. \A s \in Holders \ {t} : ~Uses(doing'[s], e.new)
      BY <1>1, <2>2, <2>3, UsedLives
    <3> QED BY <3>1, <3>2 DEF Alone
  <2>4. ASSUME NEW q \in Pointers, Owner[q] = t, rcPointer[q] = e.new
        PROVE  e.old = e.new \/ \E r \in Pointers \ {e.to} : Owner[r] = t /\ rcPointer'[r] = e.new
    BY <1>1, <1>5, <2>4
  <2> QED BY <2>1, <2>3, <2>4 DEF Starting
<1>8. ASSUME NEW o \in Objects PROVE Lives(o)'
  <2>1. mRefCnt'[o] > 0 => life'[o] = "alive"
    BY <1>1, <1>2 DEF Lives
  <2>2. ASSUME life'[o] = "alive", mRefCnt'[o] = 0
        PROVE  \E s \in Holders : \/ (Deletes(s) /\ doing[s].old = o)'
                                  \/ (Takes(s) /\ doing[s].new = o)'
    <3>1. CASE life[o] = "alive"
      <4>1. PICK s \in Holders : (Deletes(s) /\ doing[s].old = o) \/ (Takes(s) /\ doing[s].new = o)
        BY <1>1, <1>2, <2>2, <3>1 DEF Lives
      <4>2. s # t
        BY <1>1, <4>1, NothingIs DEF Deletes, Takes
      <4>3. doing'[s] = doing[s]
        BY <1>1, <4>2
      <4> QED BY <4>1, <4>3 DEF Deletes, Takes
    <3>2. CASE e.op = "object" /\ e.new = o
      BY <1>1, <1>5, <3>2, Finite DEF Takes
    <3> QED BY <1>2, <2>2, <3>1, <3>2
  <2> QED BY <2>1, <2>2 DEF Lives
<1> QED BY <1>4, <1>6, <1>7, <1>8

-----------------------------------------------------------------------------
(* The count is settled: what is still to be counted, per thread and place.   *)
DecAt(d, i, o) == (OldDecAt(d, i) /\ d.old = o) \/ (d.op = "assign" /\ i = 7 /\ d.new = o)

IncsOn(o) == {c \in Holders \X (1..8) : IncAt(doing[c[1]], c[2]) /\ doing[c[1]].new = o}
DecsOn(o) == {c \in Holders \X (1..8) : DecAt(doing[c[1]], c[2], o)}

Gets(p) ==
  LET d == doing[Owner[p]] IN IF d.to = p /\ Sets(d) THEN d.new ELSE rcPointer[p]

Getters(o) == {p \in Pointers : Gets(p) = o}

Balanced(o) ==
  mRefCnt[o] + Cardinality(IncsOn(o)) = Cardinality(Getters(o)) + Cardinality(DecsOn(o))

AllFormed == \A t \in Holders : Formed(doing[t])
GetsWhat == \A p \in Pointers : Becomes(p) = Gets(p)
SettledIsBalanced == \A o \in Objects : Settled(o) <=> Balanced(o)

(* Both say what the pointer will point to,                                   *)
LEMMA IfFormedGets == AllFormed => GetsWhat
<1> SUFFICES ASSUME AllFormed, NEW p \in Pointers PROVE Becomes(p) = Gets(p)
  BY DEF GetsWhat
<1>1. PICK d : d = doing[Owner[p]]
  OBVIOUS
<1>2. Formed(d)
  BY <1>1, Finite DEF AllFormed
<1>3. (\E i \in Ahead(d) : Calls(d)[i] = "set") <=> Sets(d)
  BY <1>2, SetsWhat
<1> QED BY <1>1, <1>3 DEF Becomes, Gets

(* and both say that the count is settled.                                    *)
LEMMA IfFormed == AllFormed => SettledIsBalanced
<1> SUFFICES ASSUME AllFormed, NEW o \in Objects PROVE Settled(o) <=> Balanced(o)
  BY DEF SettledIsBalanced
<1>1. CallsOn(o, {"inc"}) = IncsOn(o)
  <2>1. ASSUME NEW c \in Holders \X (1..8) PROVE c \in CallsOn(o, {"inc"}) <=> c \in IncsOn(o)
    <3>1. PICK d, i : d = doing[c[1]] /\ i = c[2]
      OBVIOUS
    <3>2. Formed(d) /\ i \in 1..8
      BY <2>1, <3>1 DEF AllFormed
    <3>3. /\ i \in Ahead(d) /\ Calls(d)[i] \in {"inc"} <=> IncAt(d, i)
          /\ IncAt(d, i) => ObjectAt(d, i) = d.new
      BY <3>2, CallsWhat
    <3> QED BY <2>1, <3>1, <3>3 DEF CallsOn, IncsOn
  <2> QED BY <2>1 DEF CallsOn, IncsOn
<1>2. CallsOn(o, Decs) = DecsOn(o)
  <2>1. ASSUME NEW c \in Holders \X (1..8) PROVE c \in CallsOn(o, Decs) <=> c \in DecsOn(o)
    <3>1. PICK d, i : d = doing[c[1]] /\ i = c[2]
      OBVIOUS
    <3>2. Formed(d) /\ i \in 1..8
      BY <2>1, <3>1 DEF AllFormed
    <3>3. /\ i \in Ahead(d) /\ Calls(d)[i] \in Decs <=>
               OldDecAt(d, i) \/ (d.op = "assign" /\ i = 7)
          /\ OldDecAt(d, i) => ObjectAt(d, i) = d.old
          /\ d.op = "assign" /\ i = 7 => ObjectAt(d, i) = d.new
      BY <3>2, CallsWhat
    <3> QED BY <2>1, <3>1, <3>3 DEF CallsOn, DecsOn, DecAt
  <2> QED BY <2>1 DEF CallsOn, DecsOn
<1>3. {p \in Pointers : Becomes(p) = o} = Getters(o)
  BY IfFormedGets DEF GetsWhat, Getters
<1> QED BY <1>1, <1>2, <1>3 DEF Settled, Balanced, Decs

(* There are finitely many calls to come.                                     *)
LEMMA BalanceFinite ==
  ASSUME NEW o
  PROVE  /\ IsFiniteSet(IncsOn(o)) /\ IsFiniteSet(DecsOn(o)) /\ IsFiniteSet(Getters(o))
         /\ Cardinality(IncsOn(o)) \in Nat /\ Cardinality(DecsOn(o)) \in Nat
         /\ Cardinality(Getters(o)) \in Nat
<1>0. 1 \in Int /\ 8 \in Int
  OBVIOUS
<1>1. IsFiniteSet(1..8)
  BY <1>0, FS_Interval
<1>2. IsFiniteSet(Holders \X (1..8))
  BY <1>1, Finite, FS_Product
<1>3. /\ IncsOn(o) \subseteq Holders \X (1..8) /\ DecsOn(o) \subseteq Holders \X (1..8)
      /\ Getters(o) \subseteq Pointers
  BY DEF IncsOn, DecsOn, Getters
<1> QED BY <1>2, <1>3, Finite, FS_Subset, FS_CardinalityType

(* Two sets of calls that differ in those of t at most.                       *)
Differ(S, T, t) ==
  /\ S \subseteq Holders \X (1..8) /\ T \subseteq Holders \X (1..8)
  /\ \A s \in Holders \ {t}, i \in 1..8 : <<s, i>> \in T <=> <<s, i>> \in S

(* The same if they agree in those of t,                                      *)
LEMMA SameCalls ==
  ASSUME NEW t \in Holders, NEW S, NEW T, Differ(S, T, t),
         \A i \in 1..8 : <<t, i>> \in T <=> <<t, i>> \in S
  PROVE  T = S
<1>1. ASSUME NEW c \in Holders \X (1..8) PROVE c \in T <=> c \in S
  <2>1. PICK s \in Holders, i \in 1..8 : c = <<s, i>>
    OBVIOUS
  <2>2. CASE s = t
    BY <2>1, <2>2
  <2>3. CASE s # t
    BY <2>1, <2>3 DEF Differ
  <2> QED BY <2>2, <2>3
<1> QED BY <1>1 DEF Differ

(* one less if they agree in all but one,                                     *)
LEMMA LosesCall ==
  ASSUME NEW t \in Holders, NEW S, NEW T, Differ(S, T, t), NEW k \in 1..8,
         <<t, k>> \in S, <<t, k>> \notin T,
         \A i \in 1..8 : i # k => (<<t, i>> \in T <=> <<t, i>> \in S)
  PROVE  Loses(S, T, <<t, k>>)
<1>1. ASSUME NEW c \in Holders \X (1..8) PROVE c \in T <=> c \in S \ {<<t, k>>}
  <2>1. PICK s \in Holders, i \in 1..8 : c = <<s, i>>
    OBVIOUS
  <2>2. CASE s = t
    BY <2>1, <2>2
  <2>3. CASE s # t
    BY <2>1, <2>3 DEF Differ
  <2> QED BY <2>2, <2>3
<1> QED BY <1>1 DEF Differ, Loses

(* one more,                                                                  *)
LEMMA GainsCall ==
  ASSUME NEW t \in Holders, NEW S, NEW T, Differ(S, T, t), NEW k \in 1..8,
         <<t, k>> \in T, <<t, k>> \notin S,
         \A i \in 1..8 : i # k => (<<t, i>> \in T <=> <<t, i>> \in S)
  PROVE  Gains(S, T, <<t, k>>)
<1>1. ASSUME NEW c \in Holders \X (1..8) PROVE c \in T <=> c \in S \cup {<<t, k>>}
  <2>1. PICK s \in Holders, i \in 1..8 : c = <<s, i>>
    OBVIOUS
  <2>2. CASE s = t
    BY <2>1, <2>2
  <2>3. CASE s # t
    BY <2>1, <2>3 DEF Differ
  <2> QED BY <2>2, <2>3
<1> QED BY <1>1 DEF Differ, Gains

(* or two.                                                                    *)
LEMMA GainsTwo ==
  ASSUME NEW t \in Holders, NEW S, IsFiniteSet(S), NEW T, Differ(S, T, t),
         NEW k \in 1..8, NEW m \in 1..8, k # m,
         <<t, k>> \in T, <<t, k>> \notin S, <<t, m>> \in T, <<t, m>> \notin S,
         \A i \in 1..8 : i # k /\ i # m => (<<t, i>> \in T <=> <<t, i>> \in S)
  PROVE  Cardinality(T) = Cardinality(S) + 2
<1>1. PICK U : U = T \ {<<t, m>>}
  OBVIOUS
<1>2. Differ(S, U, t)
  BY <1>1 DEF Differ
<1>3. Gains(S, U, <<t, k>>)
  <2>1. /\ <<t, k>> \in U
        /\ \A i \in 1..8 : i # k => (<<t, i>> \in U <=> <<t, i>> \in S)
    BY <1>1
  <2> QED BY <1>2, <2>1, GainsCall
<1>4. Gains(U, T, <<t, m>>)
  BY <1>1 DEF Gains
<1>5. IsFiniteSet(U) /\ Cardinality(U) = Cardinality(S) + 1 /\ Cardinality(S) \in Nat
  BY <1>3, GainsOne, FS_CardinalityType
<1>6. Cardinality(T) = Cardinality(U) + 1
  BY <1>4, <1>5, GainsOne
<1> QED BY <1>5, <1>6

(* A step of t changes calls of t.                                            *)
LEMMA CallsDiffer ==
  ASSUME NEW t \in Holders, \A s \in Holders \ {t} : doing'[s] = doing[s], NEW o
  PROVE  /\ Differ(IncsOn(o), IncsOn(o)', t) /\ Differ(DecsOn(o), DecsOn(o)', t)
         /\ \A i \in 1..8 :
              /\ <<t, i>> \in IncsOn(o) <=> IncAt(doing[t], i) /\ doing[t].new = o
              /\ <<t, i>> \in DecsOn(o) <=> DecAt(doing[t], i, o)
              /\ <<t, i>> \in IncsOn(o)' <=> IncAt(doing'[t], i) /\ doing'[t].new = o
              /\ <<t, i>> \in DecsOn(o)' <=> DecAt(doing'[t], i, o)
BY DEF Differ, IncsOn, DecsOn

Incs(d, o, i) == IncAt(d, i) /\ d.new = o

SameAhead(d, e, o) ==
  /\ \A i \in 1..8 : Incs(e, o, i) <=> Incs(d, o, i)
  /\ \A i \in 1..8 : DecAt(e, i, o) <=> DecAt(d, i, o)

(* What the calls that count for nothing leave to be counted.                 *)
LEMMA SetsCountNothing ==
  ASSUME NEW d, Formed(d), NEW e, NEW o \in Objects, (\E v : SetStep(d, e, v)) \/ DeleteStep(d, e)
  PROVE  SameAhead(d, e, o)
<1>0. d.at \in 1..7 /\ d.op \in {"none", "copy", "assign", "object", "free"}
  BY DEF Formed, Doings
<1>1. CASE At(d, "copy", 1) /\ Advanced(d, e, 2)
  BY <1>1 DEF At, Advanced, SameAhead, Incs, IncAt, DecAt, OldDecAt
<1>2. CASE At(d, "assign", 5) /\ Advanced(d, e, 6)
  BY <1>2 DEF At, Advanced, SameAhead, Incs, IncAt, DecAt, OldDecAt
<1>3. CASE At(d, "assign", 6) /\ Advanced(d, e, 7)
  BY <1>3 DEF At, Advanced, SameAhead, Incs, IncAt, DecAt, OldDecAt
<1>4. CASE At(d, "object", 1) /\ Advanced(d, e, 2)
  BY <1>4 DEF At, Advanced, SameAhead, Incs, IncAt, DecAt, OldDecAt
<1>5. CASE (At(d, "free", 3) /\ Advanced(d, e, 4)) \/ (At(d, "free", 2) /\ Advanced(d, e, 3))
  BY <1>5 DEF At, Advanced, SameAhead, Incs, IncAt, DecAt, OldDecAt
<1>6. CASE (At(d, "free", 4) \/ At(d, "object", 4)) /\ e = Nothing
  BY <1>6, NothingIs DEF At, SameAhead, Incs, IncAt, DecAt, OldDecAt
<1>7. CASE At(d, "assign", 4) /\ Advanced(d, e, 5)
  BY <1>7 DEF At, Advanced, SameAhead, Incs, IncAt, DecAt, OldDecAt
<1>8. ASSUME NEW v, SetStep(d, e, v) PROVE SameAhead(d, e, o)
  BY <1>1, <1>2, <1>3, <1>4, <1>5, <1>6, <1>8 DEF SetStep
<1>9. ASSUME DeleteStep(d, e) PROVE SameAhead(d, e, o)
  BY <1>5, <1>6, <1>7, <1>9 DEF DeleteStep
<1> QED BY <1>8, <1>9

(* A count takes one call from those to come.                                 *)
LEMMA IncsCountNew ==
  ASSUME NEW d, Formed(d), NEW e, NEW o \in Objects, IncStep(d, e)
  PROVE  /\ d.at \in 1..2
         /\ \A i \in 1..8 : i # d.at => (Incs(e, o, i) <=> Incs(d, o, i))
         /\ IncAt(d, d.at) /\ ~IncAt(e, d.at)
         /\ \A i \in 1..8 : DecAt(e, i, o) <=> DecAt(d, i, o)
<1>1. CASE At(d, "copy", 2) /\ e = Nothing
  BY <1>1, NothingIs DEF At, Incs, IncAt, DecAt, OldDecAt
<1>2. CASE At(d, "assign", 1) /\ Advanced(d, e, 2)
  BY <1>2 DEF At, Advanced, Incs, IncAt, DecAt, OldDecAt
<1>3. CASE At(d, "assign", 2) /\ Advanced(d, e, 3)
  BY <1>3 DEF At, Advanced, Incs, IncAt, DecAt, OldDecAt
<1>4. CASE At(d, "object", 2) /\ Advanced(d, e, 3)
  BY <1>4 DEF At, Advanced, Incs, IncAt, DecAt, OldDecAt
<1> QED BY <1>1, <1>2, <1>3, <1>4 DEF IncStep

(* A discount takes one.                                                      *)
LEMMA DecsCountLess ==
  ASSUME NEW d, Formed(d), NEW e, NEW o \in Objects, NEW x, NEW last \in BOOLEAN,
         DecStep(d, e, x, last), last => ~At(d, "assign", 7)
  PROVE  /\ d.at \in 1..7
         /\ \A i \in 1..8 : Incs(e, o, i) <=> Incs(d, o, i)
         /\ \A i \in 1..8 : i # d.at => (DecAt(e, i, o) <=> DecAt(d, i, o))
         /\ DecAt(d, d.at, o) <=> o = x
         /\ ~DecAt(e, d.at, o)
<1>0. o # NULL
  BY Finite
<1>1. CASE At(d, "assign", 3)
  <2>1. x = d.old /\ (Advanced(d, e, 4) \/ Advanced(d, e, 6))
    BY <1>1 DEF DecStep, At
  <2> QED BY <1>1, <2>1 DEF At, Advanced, Incs, IncAt, DecAt, OldDecAt
<1>2. CASE At(d, "assign", 7)
  <2>1. x = d.new /\ e = Nothing
    BY <1>2 DEF DecStep, At
  <2> QED BY <1>2, <2>1, NothingIs DEF At, Incs, IncAt, DecAt, OldDecAt
<1>3. CASE At(d, "object", 3)
  <2>1. x = d.old /\ (Advanced(d, e, 4) \/ e = Nothing)
    BY <1>3 DEF DecStep, At
  <2> QED BY <1>3, <2>1, NothingIs DEF At, Advanced, Incs, IncAt, DecAt, OldDecAt
<1>4. CASE At(d, "free", 1)
  <2>1. x = d.old /\ (Advanced(d, e, 2) \/ Advanced(d, e, 4))
    BY <1>4 DEF DecStep, At
  <2> QED BY <1>4, <2>1 DEF At, Advanced, Incs, IncAt, DecAt, OldDecAt
<1> QED BY <1>1, <1>2, <1>3, <1>4 DEF DecStep

(* What a pointer gets is settled when the operation starts.                  *)
LEMMA GetsStays ==
  ASSUME NEW t, NEW d, NEW e, Before(t, d, e), Working(t, d, e)
  PROVE  Gets(d.to)' = Gets(d.to)
<1>1. /\ d.to \in Pointers /\ d.to # NULL /\ Owner[d.to] = t /\ doing'[t] = e /\ Formed(d)
      /\ d = doing[t] /\ e.to \in {d.to, NULL} /\ t \in Holders
  BY Mine DEF Before, StepOf
<1>2. /\ Gets(d.to) = IF Sets(d) THEN d.new ELSE rcPointer[d.to]
      /\ Gets(d.to)' = IF e.to = d.to /\ Sets(e) THEN e.new ELSE rcPointer'[d.to]
  BY <1>1 DEF Gets
<1>3. ASSUME NEW v, Setting(t, d, e, v) PROVE Gets(d.to)' = Gets(d.to)
  <2>1. rcPointer'[d.to] = v
    BY <1>1, <1>3 DEF Setting, Before, RefInv, RefTypes
  <2>2. SetStep(d, e, v)
    BY <1>3 DEF Setting
  <2>3. CASE At(d, "free", 4)
    BY <1>1, <1>2, <2>1, <2>2, <2>3, NothingIs DEF SetStep, At, Sets, Formed
  <2>4. CASE At(d, "free", 3)
    BY <1>1, <1>2, <2>1, <2>2, <2>4 DEF SetStep, At, Sets, Advanced
  <2>5. CASE d.op # "free"
    BY <1>1, <1>2, <2>1, <2>2, <2>5 DEF SetStep, At, Sets, Advanced
  <2> QED BY <2>2, <2>3, <2>4, <2>5 DEF SetStep, At
<1>4. ASSUME Counting(t, d, e) PROVE Gets(d.to)' = Gets(d.to)
  <2>1. IncStep(d, e) /\ rcPointer' = rcPointer
    BY <1>4 DEF Counting
  <2> QED BY <1>1, <1>2, <2>1, NothingIs DEF IncStep, At, Sets, Advanced
<1>5. ASSUME NEW x, NEW last, Discounting(t, d, e, x, last), last => ~At(d, "assign", 7)
      PROVE  Gets(d.to)' = Gets(d.to)
  <2>1. DecStep(d, e, x, last) /\ last \in BOOLEAN /\ rcPointer' = rcPointer
    BY <1>5 DEF Discounting
  <2>2. CASE At(d, "assign", 7)
    BY <1>1, <1>2, <1>5, <2>1, <2>2, NothingIs DEF DecStep, At, Sets
  <2>3. CASE At(d, "assign", 3)
    <3>1. Advanced(d, e, 4) \/ Advanced(d, e, 6)
      BY <2>1, <2>3 DEF DecStep, At
    <3> QED BY <1>1, <1>2, <2>1, <2>3, <3>1 DEF At, Sets, Advanced
  <2>4. CASE At(d, "object", 3)
    <3>1. Advanced(d, e, 4) \/ e = Nothing
      BY <2>1, <2>4 DEF DecStep, At
    <3> QED BY <1>1, <1>2, <2>1, <2>4, <3>1, NothingIs DEF At, Sets, Advanced
  <2>5. CASE At(d, "free", 1)
    <3>1. Advanced(d, e, 2) \/ Advanced(d, e, 4)
      BY <2>1, <2>5 DEF DecStep, At
    <3> QED BY <1>1, <1>2, <2>1, <2>5, <3>1 DEF At, Sets, Advanced
  <2> QED BY <2>1, <2>2, <2>3, <2>4, <2>5 DEF DecStep
<1>6. ASSUME Deleting(t, d, e) PROVE Gets(d.to)' = Gets(d.to)
  <2>1. DeleteStep(d, e) /\ rcPointer' = rcPointer
    BY <1>6 DEF Deleting
  <2> QED BY <1>1, <1>2, <2>1, NothingIs DEF DeleteStep, At, Sets, Advanced
<1> QED BY <1>3, <1>4, <1>5, <1>6 DEF Working

(* The same of all pointers.                                                  *)
LEMMA GettersStay ==
  ASSUME NEW t, NEW d, NEW e, Before(t, d, e), Working(t, d, e), NEW o
  PROVE  Getters(o)' = Getters(o)
<1>1. /\ d.to \in Pointers /\ d.to # NULL /\ doing'[t] = e
      /\ d = doing[t] /\ e.to \in {d.to, NULL} /\ t \in Holders
      /\ \A s \in Holders \ {t} : doing'[s] = doing[s]
      /\ \A q \in Pointers : q # d.to => rcPointer'[q] = rcPointer[q]
  BY Mine DEF Before, StepOf
<1>2. ASSUME NEW p \in Pointers PROVE Gets(p)' = Gets(p)
  <2>1. CASE p = d.to
    BY <2>1, GetsStays
  <2>2. CASE p # d.to /\ Owner[p] = t
    <3>1. p # NULL
      BY Finite
    <3> QED BY <1>1, <2>2, <3>1 DEF Gets
  <2>3. CASE p # d.to /\ Owner[p] # t
    <3>1. Owner[p] \in Holders
      BY Finite
    <3> QED BY <1>1, <2>3, <3>1 DEF Gets
  <2> QED BY <2>1, <2>2, <2>3
<1> QED BY <1>2 DEF Getters
-----------------------------------------------------------------------------
(* The balance is kept: by a call of an operation, ...                        *)
LEMMA CallsThen ==
  ASSUME NEW t, NEW d, NEW e, Before(t, d, e), NEW o
  PROVE  /\ t \in Holders
         /\ Differ(IncsOn(o), IncsOn(o)', t) /\ Differ(DecsOn(o), DecsOn(o)', t)
         /\ \A i \in 1..8 :
              /\ <<t, i>> \in IncsOn(o) <=> Incs(d, o, i)
              /\ <<t, i>> \in DecsOn(o) <=> DecAt(d, i, o)
              /\ <<t, i>> \in IncsOn(o)' <=> Incs(e, o, i)
              /\ <<t, i>> \in DecsOn(o)' <=> DecAt(e, i, o)
<1>1. t \in Holders /\ d = doing[t] /\ doing'[t] = e /\ \A s \in Holders \ {t} : doing'[s] = doing[s]
  BY Mine DEF Before, StepOf
<1> QED BY <1>1, CallsDiffer DEF Incs

(* that counts nothing,                                                       *)
LEMMA BalancedSame ==
  ASSUME NEW t, NEW d, NEW e, Before(t, d, e), Working(t, d, e), mRefCnt' = mRefCnt,
         NEW o \in Objects, SameAhead(d, e, o), Balanced(o)
  PROVE  Balanced(o)'
<1>1. IncsOn(o)' = IncsOn(o)
  <2>1. \A i \in 1..8 : <<t, i>> \in IncsOn(o)' <=> <<t, i>> \in IncsOn(o)
    BY CallsThen DEF SameAhead
  <2>2. t \in Holders /\ Differ(IncsOn(o), IncsOn(o)', t)
    BY CallsThen
  <2> QED BY <2>1, <2>2, SameCalls
<1>2. DecsOn(o)' = DecsOn(o)
  <2>1. \A i \in 1..8 : <<t, i>> \in DecsOn(o)' <=> <<t, i>> \in DecsOn(o)
    BY CallsThen DEF SameAhead
  <2>2. t \in Holders /\ Differ(DecsOn(o), DecsOn(o)', t)
    BY CallsThen
  <2> QED BY <2>1, <2>2, SameCalls
<1>3. Getters(o)' = Getters(o)
  BY GettersStay
<1> QED BY <1>1, <1>2, <1>3 DEF Balanced

(* that counts,                                                               *)
LEMMA BalancedMore ==
  ASSUME NEW t, NEW d, NEW e, Before(t, d, e), Counting(t, d, e), NEW o \in Objects, Balanced(o)
  PROVE  Balanced(o)'
<1>1. /\ IncStep(d, e) /\ mRefCnt'[o] = IF o = d.new THEN mRefCnt[o] + 1 ELSE mRefCnt[o]
      /\ Formed(d) /\ mRefCnt[o] \in Int
  BY Mine DEF Counting, Before, RefInv, RefTypes
<1>2. Working(t, d, e)
  BY DEF Working
<1>3. Getters(o)' = Getters(o)
  BY <1>2, GettersStay
<1>4. DecsOn(o)' = DecsOn(o)
  <2>1. \A i \in 1..8 : <<t, i>> \in DecsOn(o)' <=> <<t, i>> \in DecsOn(o)
    BY <1>1, CallsThen, IncsCountNew
  <2>2. t \in Holders /\ Differ(DecsOn(o), DecsOn(o)', t)
    BY CallsThen
  <2> QED BY <2>1, <2>2, SameCalls
<1>5. CASE o # d.new
  <2>1. Advanced(d, e, e.at) \/ e = Nothing
    BY <1>1 DEF IncStep, Advanced
  <2>2. e.new \in {d.new, NULL} /\ o # NULL
    BY <2>1, NothingIs, Finite DEF Advanced
  <2>3. \A i \in 1..8 : <<t, i>> \in IncsOn(o)' <=> <<t, i>> \in IncsOn(o)
    BY <1>5, <2>2, CallsThen DEF Incs
  <2>4. t \in Holders /\ Differ(IncsOn(o), IncsOn(o)', t)
    BY CallsThen
  <2>5. IncsOn(o)' = IncsOn(o)
    BY <2>3, <2>4, SameCalls
  <2> QED BY <1>1, <1>3, <1>4, <1>5, <2>5 DEF Balanced
<1>6. CASE o = d.new
  <2>0. /\ d.at \in 1..8 /\ Incs(d, o, d.at) /\ ~Incs(e, o, d.at)
        /\ \A i \in 1..8 : i # d.at => (Incs(e, o, i) <=> Incs(d, o, i))
    BY <1>1, <1>6, IncsCountNew DEF Incs
  <2>1. /\ d.at \in 1..8 /\ t \in Holders /\ Differ(IncsOn(o), IncsOn(o)', t)
        /\ <<t, d.at>> \in IncsOn(o) /\ <<t, d.at>> \notin IncsOn(o)'
        /\ \A i \in 1..8 : i # d.at => (<<t, i>> \in IncsOn(o)' <=> <<t, i>> \in IncsOn(o))
    BY <2>0, CallsThen
  <2>2. Loses(IncsOn(o), IncsOn(o)', <<t, d.at>>)
    BY <2>1, LosesCall
  <2>3. Cardinality(IncsOn(o)') = Cardinality(IncsOn(o)) - 1
    BY <2>2, LosesOne, BalanceFinite
  <2>4. Cardinality(IncsOn(o)) \in Nat
    BY BalanceFinite
  <2> QED BY <1>1, <1>3, <1>4, <1>6, <2>3, <2>4 DEF Balanced
<1> QED BY <1>5, <1>6

(* that discounts,                                                            *)
LEMMA BalancedLess ==
  ASSUME NEW t, NEW d, NEW e, NEW x, NEW last, Before(t, d, e), Discounting(t, d, e, x, last),
         last => ~At(d, "assign", 7), NEW o \in Objects, Balanced(o)
  PROVE  Balanced(o)'
<1>1. /\ DecStep(d, e, x, last) /\ mRefCnt'[o] = IF o = x THEN mRefCnt[o] - 1 ELSE mRefCnt[o]
      /\ Formed(d) /\ mRefCnt[o] \in Int /\ last \in BOOLEAN
  BY Mine DEF Discounting, Before, RefInv, RefTypes
<1>2. Working(t, d, e)
  BY DEF Working
<1>3. Getters(o)' = Getters(o)
  BY <1>2, GettersStay
<1>4. /\ d.at \in 1..8
      /\ \A i \in 1..8 : Incs(e, o, i) <=> Incs(d, o, i)
      /\ \A i \in 1..8 : i # d.at => (DecAt(e, i, o) <=> DecAt(d, i, o))
      /\ DecAt(d, d.at, o) <=> o = x
      /\ ~DecAt(e, d.at, o)
  BY <1>1, DecsCountLess
<1>5. IncsOn(o)' = IncsOn(o)
  <2>1. \A i \in 1..8 : <<t, i>> \in IncsOn(o)' <=> <<t, i>> \in IncsOn(o)
    BY <1>4, CallsThen
  <2>2. t \in Holders /\ Differ(IncsOn(o), IncsOn(o)', t)
    BY CallsThen
  <2> QED BY <2>1, <2>2, SameCalls
<1>6. CASE o # x
  <2>1. \A i \in 1..8 : DecAt(e, i, o) <=> DecAt(d, i, o)
    BY <1>4, <1>6
  <2>2. \A i \in 1..8 : <<t, i>> \in DecsOn(o)' <=> <<t, i>> \in DecsOn(o)
    BY <2>1, CallsThen
  <2>3. t \in Holders /\ Differ(DecsOn(o), DecsOn(o)', t)
    BY CallsThen
  <2>4. DecsOn(o)' = DecsOn(o)
    BY <2>2, <2>3, SameCalls
  <2> QED BY <1>1, <1>3, <1>5, <1>6, <2>4 DEF Balanced
<1>7. CASE o = x
  <2>1. /\ t \in Holders /\ Differ(DecsOn(o), DecsOn(o)', t)
        /\ <<t, d.at>> \in DecsOn(o) /\ <<t, d.at>> \notin DecsOn(o)'
        /\ \A i \in 1..8 : i # d.at => (<<t, i>> \in DecsOn(o)' <=> <<t, i>> \in DecsOn(o))
    BY <1>4, <1>7, CallsThen
  <2>2. Loses(DecsOn(o), DecsOn(o)', <<t, d.at>>)
    BY <1>4, <2>1, LosesCall
  <2>3. Cardinality(DecsOn(o)') = Cardinality(DecsOn(o)) - 1
    BY <2>2, LosesOne, BalanceFinite
  <2>4. /\ Cardinality(DecsOn(o)) \in Nat /\ Cardinality(Getters(o)) \in Nat
        /\ Cardinality(IncsOn(o)) \in Nat
    BY BalanceFinite
  <2> QED BY <1>1, <1>3, <1>5, <1>7, <2>3, <2>4 DEF Balanced
<1> QED BY <1>6, <1>7
(* ... and when one starts.                                                   *)
One(b) == IF b THEN 1 ELSE 0

(* The thread had no calls before.                                            *)
LEMMA StartDiffers ==
  ASSUME RefInv, NEW t \in Holders, NEW e, NEW p \in Pointers, Starting(t, e, p), NEW o \in Objects
  PROVE  /\ doing'[t] = e /\ \A s \in Holders \ {t} : doing'[s] = doing[s]
         /\ Differ(IncsOn(o), IncsOn(o)', t) /\ Differ(DecsOn(o), DecsOn(o)', t)
         /\ \A i \in 1..8 : /\ <<t, i>> \notin IncsOn(o) /\ <<t, i>> \notin DecsOn(o)
                            /\ <<t, i>> \in IncsOn(o)' <=> Incs(e, o, i)
                            /\ <<t, i>> \in DecsOn(o)' <=> DecAt(e, i, o)
<1>1. doing'[t] = e /\ \A s \in Holders \ {t} : doing'[s] = doing[s]
  BY StartTokens
<1>2. doing[t] = Nothing
  BY DEF Starting
<1>3. \A i \in 1..8 : ~Incs(Nothing, o, i) /\ ~DecAt(Nothing, i, o)
  BY NothingIs DEF Incs, IncAt, DecAt, OldDecAt
<1> QED BY <1>1, <1>2, <1>3, CallsDiffer DEF Incs

(* It has to count what it is given, and the copy it was passed,              *)
LEMMA StartIncs ==
  ASSUME RefInv, NEW t \in Holders, NEW e, NEW p \in Pointers, Starting(t, e, p), NEW o \in Objects
  PROVE  Cardinality(IncsOn(o)') =
           Cardinality(IncsOn(o)) + One(e.new = o) + One(e.op = "assign" /\ e.new = o)
<1>1. /\ Differ(IncsOn(o), IncsOn(o)', t)
      /\ \A i \in 1..8 : <<t, i>> \notin IncsOn(o) /\ (<<t, i>> \in IncsOn(o)' <=> Incs(e, o, i))
  BY StartDiffers
<1>2. /\ e.at = 1 /\ e.op \in {"copy", "assign", "object", "free"} /\ (e.op = "free" => e.new = NULL)
      /\ o # NULL
  BY Finite DEF Starting, Fitting
<1>3. IsFiniteSet(IncsOn(o)) /\ Cardinality(IncsOn(o)) \in Nat
  BY BalanceFinite
<1>4. CASE e.new # o
  <2>1. \A i \in 1..8 : ~Incs(e, o, i)
    BY <1>4 DEF Incs
  <2>2. IncsOn(o)' = IncsOn(o)
    BY <1>1, <2>1, SameCalls
  <2> QED BY <1>3, <1>4, <2>2 DEF One
<1>5. CASE e.new = o /\ e.op \in {"copy", "object"}
  <2>1. \A i \in 1..8 : Incs(e, o, i) <=> i = 2
    BY <1>2, <1>5 DEF Incs, IncAt
  <2>2. Gains(IncsOn(o), IncsOn(o)', <<t, 2>>)
    <3>1. /\ <<t, 2>> \in IncsOn(o)' /\ <<t, 2>> \notin IncsOn(o) /\ 2 \in 1..8
          /\ \A i \in 1..8 : i # 2 => (<<t, i>> \in IncsOn(o)' <=> <<t, i>> \in IncsOn(o))
      BY <1>1, <2>1
    <3> QED BY <1>1, <3>1, GainsCall
  <2>3. Cardinality(IncsOn(o)') = Cardinality(IncsOn(o)) + 1
    BY <1>3, <2>2, GainsOne
  <2> QED BY <1>3, <1>5, <2>3 DEF One
<1>6. CASE e.new = o /\ e.op = "assign"
  <2>1. \A i \in 1..8 : Incs(e, o, i) <=> i = 1 \/ i = 2
    BY <1>2, <1>6 DEF Incs, IncAt
  <2>2. Cardinality(IncsOn(o)') = Cardinality(IncsOn(o)) + 2
    <3>1. /\ <<t, 1>> \in IncsOn(o)' /\ <<t, 1>> \notin IncsOn(o)
          /\ <<t, 2>> \in IncsOn(o)' /\ <<t, 2>> \notin IncsOn(o)
          /\ \A i \in 1..8 : i # 1 /\ i # 2 => (<<t, i>> \in IncsOn(o)' <=> <<t, i>> \in IncsOn(o))
      BY <1>1, <2>1
    <3>2. PICK S, T : S = IncsOn(o) /\ T = IncsOn(o)'
      OBVIOUS
    <3>5. PICK k \in 1..8 : k = 1
      OBVIOUS
    <3>6. PICK m \in 1..8 : m = 2
      OBVIOUS
    <3>3. /\ Differ(S, T, t) /\ IsFiniteSet(S) /\ k # m
          /\ <<t, k>> \in T /\ <<t, k>> \notin S /\ <<t, m>> \in T /\ <<t, m>> \notin S
          /\ \A i \in 1..8 : i # k /\ i # m => (<<t, i>> \in T <=> <<t, i>> \in S)
      BY <1>1, <1>3, <3>1, <3>2, <3>5, <3>6
    <3>4. Cardinality(T) = Cardinality(S) + 2
      BY <3>3, GainsTwo
    <3> QED BY <3>2, <3>4
  <2> QED BY <1>3, <1>6, <2>2 DEF One
<1> QED BY <1>2, <1>4, <1>5, <1>6

(* it has to discount what the pointer had, and the copy,                     *)
LEMMA StartDecs ==
  ASSUME RefInv, NEW t \in Holders, NEW e, NEW p \in Pointers, Starting(t, e, p), NEW o \in Objects
  PROVE  Cardinality(DecsOn(o)') =
           Cardinality(DecsOn(o)) + One(e.old = o) + One(e.op = "assign" /\ e.new = o)
<1>1. /\ Differ(DecsOn(o), DecsOn(o)', t)
      /\ \A i \in 1..8 : <<t, i>> \notin DecsOn(o) /\ (<<t, i>> \in DecsOn(o)' <=> DecAt(e, i, o))
  BY StartDiffers
<1>2. /\ e.at = 1 /\ e.op \in {"copy", "assign", "object", "free"} /\ (e.op = "copy" => e.old = NULL)
      /\ o # NULL
  BY Finite DEF Starting, Fitting
<1>3. IsFiniteSet(DecsOn(o)) /\ Cardinality(DecsOn(o)) \in Nat
  BY BalanceFinite
<1>4. CASE e.old # o /\ ~(e.op = "assign" /\ e.new = o)
  <2>1. \A i \in 1..8 : ~DecAt(e, i, o)
    BY <1>4 DEF DecAt
  <2>2. DecsOn(o)' = DecsOn(o)
    BY <1>1, <2>1, SameCalls
  <2> QED BY <1>3, <1>4, <2>2 DEF One
<1>5. CASE e.old = o /\ ~(e.op = "assign" /\ e.new = o)
  <2>1. PICK k \in {1, 3} : k = IF e.op = "free" THEN 1 ELSE 3
    OBVIOUS
  <2>2. \A i \in 1..8 : DecAt(e, i, o) <=> i = k
    BY <1>2, <1>5, <2>1 DEF DecAt, OldDecAt
  <2>3. k \in 1..8
    OBVIOUS
  <2>4. Gains(DecsOn(o), DecsOn(o)', <<t, k>>)
    BY <1>1, <2>2, <2>3, GainsCall
  <2>5. Cardinality(DecsOn(o)') = Cardinality(DecsOn(o)) + 1
    BY <1>3, <2>4, GainsOne
  <2> QED BY <1>3, <1>5, <2>5 DEF One
<1>6. CASE e.old # o /\ e.op = "assign" /\ e.new = o
  <2>1. \A i \in 1..8 : DecAt(e, i, o) <=> i = 7
    BY <1>2, <1>6 DEF DecAt
  <2>2. Gains(DecsOn(o), DecsOn(o)', <<t, 7>>)
    <3>1. /\ <<t, 7>> \in DecsOn(o)' /\ <<t, 7>> \notin DecsOn(o) /\ 7 \in 1..8
          /\ \A i \in 1..8 : i # 7 => (<<t, i>> \in DecsOn(o)' <=> <<t, i>> \in DecsOn(o))
      BY <1>1, <2>1
    <3> QED BY <1>1, <3>1, GainsCall
  <2>3. Cardinality(DecsOn(o)') = Cardinality(DecsOn(o)) + 1
    BY <1>3, <2>2, GainsOne
  <2> QED BY <1>3, <1>6, <2>3 DEF One
<1>7. CASE e.old = o /\ e.op = "assign" /\ e.new = o
  <2>1. \A i \in 1..8 : DecAt(e, i, o) <=> i = 3 \/ i = 7
    BY <1>2, <1>7 DEF DecAt, OldDecAt
  <2>2. Cardinality(DecsOn(o)') = Cardinality(DecsOn(o)) + 2
    <3>1. /\ <<t, 3>> \in DecsOn(o)' /\ <<t, 3>> \notin DecsOn(o)
          /\ <<t, 7>> \in DecsOn(o)' /\ <<t, 7>> \notin DecsOn(o)
          /\ \A i \in 1..8 : i # 3 /\ i # 7 => (<<t, i>> \in DecsOn(o)' <=> <<t, i>> \in DecsOn(o))
      BY <1>1, <2>1
    <3>2. PICK S, T : S = DecsOn(o) /\ T = DecsOn(o)'
      OBVIOUS
    <3>5. PICK k \in 1..8 : k = 3
      OBVIOUS
    <3>6. PICK m \in 1..8 : m = 7
      OBVIOUS
    <3>3. /\ Differ(S, T, t) /\ IsFiniteSet(S) /\ k # m
          /\ <<t, k>> \in T /\ <<t, k>> \notin S /\ <<t, m>> \in T /\ <<t, m>> \notin S
          /\ \A i \in 1..8 : i # k /\ i # m => (<<t, i>> \in T <=> <<t, i>> \in S)
      BY <1>1, <1>3, <3>1, <3>2, <3>5, <3>6
    <3>4. Cardinality(T) = Cardinality(S) + 2
      BY <3>3, GainsTwo
    <3> QED BY <3>2, <3>4
  <2> QED BY <1>3, <1>7, <2>2 DEF One
<1> QED BY <1>4, <1>5, <1>6, <1>7

(* and its pointer gets what it is given for what it had.                     *)
LEMMA StartGetters ==
  ASSUME RefInv, NEW t \in Holders, NEW e, NEW p \in Pointers, Starting(t, e, p), NEW o \in Objects
  PROVE  Cardinality(Getters(o)') + One(e.old = o) = Cardinality(Getters(o)) + One(e.new = o)
<1>1. /\ doing'[t] = e /\ \A s \in Holders \ {t} : doing'[s] = doing[s]
      /\ doing[t] = Nothing /\ Owner[p] = t /\ rcPointer' = rcPointer /\ Fitting(e, p)
  BY StartDiffers DEF Starting
<1>2. Gets(p) = e.old
  <2>1. p # NULL
    BY Finite
  <2> QED BY <1>1, <2>1, NothingIs DEF Gets, Fitting
<1>3. Gets(p)' = e.new
  <2>1. e.to = p /\ Sets(e)
    BY <1>1 DEF Fitting, Sets
  <2> QED BY <1>1, <2>1 DEF Gets
<1>4. \A q \in Pointers \ {p} : Gets(q)' = Gets(q)
  <2> TAKE q \in Pointers \ {p}
  <2>1. q # NULL /\ Owner[q] \in Holders /\ e.to = p
    BY <1>1, Finite DEF Fitting
  <2>2. CASE Owner[q] = t
    BY <1>1, <2>1, <2>2, NothingIs DEF Gets
  <2>3. CASE Owner[q] # t
    BY <1>1, <2>1, <2>3 DEF Gets
  <2> QED BY <2>2, <2>3
<1>5. IsFiniteSet(Getters(o)) /\ Cardinality(Getters(o)) \in Nat
  BY BalanceFinite
<1>6. CASE (e.old = o) <=> (e.new = o)
  <2>1. Getters(o)' = Getters(o)
    BY <1>2, <1>3, <1>4, <1>6 DEF Getters
  <2> QED BY <1>6, <2>1 DEF One
<1>7. CASE e.old = o /\ e.new # o
  <2>1. Loses(Getters(o), Getters(o)', p)
    BY <1>2, <1>3, <1>4, <1>7 DEF Getters, Loses
  <2>2. Cardinality(Getters(o)') = Cardinality(Getters(o)) - 1
    BY <1>5, <2>1, LosesOne
  <2> QED BY <1>5, <1>7, <2>2 DEF One
<1>8. CASE e.old # o /\ e.new = o
  <2>1. Gains(Getters(o), Getters(o)', p)
    BY <1>2, <1>3, <1>4, <1>8 DEF Getters, Gains
  <2>2. Cardinality(Getters(o)') = Cardinality(Getters(o)) + 1
    BY <1>5, <2>1, GainsOne
  <2> QED BY <1>5, <1>8, <2>2 DEF One
<1> QED BY <1>6, <1>7, <1>8

(* It comes to the same.                                                      *)
LEMMA BalancedMoved ==
  ASSUME RefInv, NEW t \in Holders, NEW e, NEW p \in Pointers, Starting(t, e, p), NEW o \in Objects,
         Balanced(o)
  PROVE  Balanced(o)'
<1>1. PICK a, b, c, i, j, g, h, k, l :
        /\ a = One(e.new = o) /\ b = One(e.old = o) /\ c = One(e.op = "assign" /\ e.new = o)
        /\ i = Cardinality(IncsOn(o)) /\ j = Cardinality(IncsOn(o)')
        /\ g = Cardinality(Getters(o)) /\ h = Cardinality(Getters(o)')
        /\ k = Cardinality(DecsOn(o)) /\ l = Cardinality(DecsOn(o)')
  OBVIOUS
<1>2. j = i + a + c /\ l = k + b + c /\ h + b = g + a
  BY <1>1, StartIncs, StartDecs, StartGetters
<1>3. a \in {0, 1} /\ b \in {0, 1} /\ c \in {0, 1}
  BY <1>1 DEF One
<1>4. i \in Nat /\ g \in Nat /\ k \in Nat
  BY <1>1, BalanceFinite
<1>5. h \in Nat
  <2>1. Getters(o)' \subseteq Pointers
    BY DEF Getters
  <2> QED BY <1>1, <2>1, Finite, FS_Subset, FS_CardinalityType
<1>6. mRefCnt[o] + i = g + k /\ mRefCnt' = mRefCnt /\ mRefCnt[o] \in Int
  BY <1>1 DEF Balanced, Starting, RefInv, RefTypes
<1>7. mRefCnt[o] + j = h + l
  BY <1>2, <1>3, <1>4, <1>5, <1>6
<1> QED BY <1>1, <1>6, <1>7 DEF Balanced
-----------------------------------------------------------------------------
(* The invariant: of the initial state, ...                                   *)
LEMMA RefInvInit == RefCntInit => RefInv
<1> SUFFICES ASSUME RefCntInit PROVE RefInv
  OBVIOUS
<1>1. /\ \A o \in Objects : mRefCnt[o] = 0 /\ life[o] = "unborn" /\ o # NULL
      /\ \A p \in Pointers : rcPointer[p] = NULL
      /\ \A t \in Holders : doing[t] = Nothing
  BY Finite DEF RefCntInit
<1>2. RefTypes
  BY NothingIs DEF RefCntInit, RefTypes
<1>3. \A t \in Holders : Formed(doing[t]) /\ Relies(t) /\ TakesWhatLives(t) /\ DeletesAlone(t)
  BY <1>1, NothingIs DEF Relies, TakesWhatLives, DeletesAlone, Takes, Deletes
<1>4. \A o \in Objects : Lives(o)
  BY <1>1 DEF Lives
<1>5. \A p \in Pointers : Owner[p] \in Holders /\ p # NULL
  BY Finite
<1>6. Cardinality({}) = 0
  BY FS_EmptySet
<1>7. ASSUME NEW o \in Objects PROVE Counts(o)
  <2>1. Keepers(o) = {}
    BY <1>1, <1>5, NothingIs DEF Keepers, Keeps
  <2>2. Passers(o) = {} /\ Havers(o) = {}
    BY <1>1, NothingIs DEF Passers, Passed, Havers, Had
  <2> QED BY <1>1, <1>6, <2>1, <2>2 DEF Counts
<1>8. ASSUME NEW o \in Objects PROVE Settled(o)
  <2>1. Getters(o) = {}
    BY <1>1, <1>5, NothingIs DEF Getters, Gets
  <2>2. IncsOn(o) = {}
    <3>1. \A i \in 1..8 : ~IncAt(Nothing, i)
      BY NothingIs DEF IncAt
    <3> QED BY <1>1, <3>1 DEF IncsOn
  <2>3. DecsOn(o) = {}
    <3>1. \A i \in 1..8 : ~DecAt(Nothing, i, o)
      BY NothingIs DEF DecAt, OldDecAt
    <3> QED BY <1>1, <3>1 DEF DecsOn
  <2>4. Balanced(o)
    BY <1>1, <1>6, <2>1, <2>2, <2>3 DEF Balanced
  <2>5. AllFormed
    BY <1>3 DEF AllFormed
  <2> QED BY <2>4, <2>5, IfFormed DEF SettledIsBalanced
<1> QED BY <1>2, <1>3, <1>4, <1>7, <1>8 DEF RefInv

(* The invariant says so.                                                     *)
LEMMA WasBalanced ==
  ASSUME RefInv, NEW o \in Objects
  PROVE  Balanced(o)
<1>1. AllFormed /\ Settled(o)
  BY DEF RefInv, AllFormed
<1> QED BY <1>1, IfFormed DEF SettledIsBalanced

(* A call keeps the invariant, if it keeps the types, the counts and the balance: *)
LEMMA WorkKeeps ==
  ASSUME NEW t, NEW d, NEW e, Before(t, d, e), Working(t, d, e), RefTypes', Relies(t)',
         \A o \in Objects : Counts(o)' /\ Balanced(o)'
  PROVE  RefInv'
<1>1. /\ RefInv /\ t \in Holders /\ doing'[t] = e /\ Formed(e)
      /\ \A s \in Holders \ {t} : doing'[s] = doing[s]
  BY Mine DEF Before
<1>2. \A s \in Holders : Formed(doing[s])'
  BY <1>1 DEF RefInv
<1>3. \A s \in Holders : Relies(s)'
  BY <1>1, OthersRely
<1>4. AllCounted'
  BY DEF AllCounted
<1>5. \A s \in Holders : TakesWhatLives(s)'
  BY <1>1, OthersTake, MineTakes
<1>6. WellDoing'
  BY <1>2, <1>3, <1>5 DEF WellDoing
<1>7. \A s \in Holders : DeletesAlone(s)'
  <2>1. \A s \in Holders \ {t} : DeletesAlone(s)
    BY <1>1 DEF RefInv
  <2>2. DeletesAlone(t)'
    BY <1>4, <1>6, <2>1, MineDeletes
  <2> QED BY <2>2, OthersTake
<1>8. \A o \in Objects : Lives(o)'
  BY <1>4, AllLive
<1>9. \A o \in Objects : Settled(o)'
  <2>1. AllFormed'
    BY <1>2 DEF AllFormed
  <2>2. AllFormed' => SettledIsBalanced'
    BY IfFormed, PTL
  <2> QED BY <2>1, <2>2 DEF SettledIsBalanced
<1> QED BY <1>2, <1>3, <1>5, <1>7, <1>8, <1>9 DEF RefInv

(* a call that sets the pointer,                                              *)
LEMMA SetKeeps ==
  ASSUME RefInv, NEW t \in Holders, NEW d, NEW e, NEW v, Setting(t, d, e, v)
  PROVE  RefInv'
<1>1. StepOf(t, d, e) /\ SetStep(d, e, v) /\ d = doing[t] /\ d.op # "none"
  BY DEF Setting, StepOf
<1>2. Formed(d) /\ d \in Doings /\ v \in {d.new, NULL}
  <2>1. Formed(d)
    BY <1>1 DEF RefInv
  <2> QED BY <1>1, <2>1 DEF Formed, SetStep
<1>3. Follows(d, e)
  BY <1>1, <1>2, AllFollow
<1>4. v \in Objects \cup {NULL} /\ d.to \in Pointers
  BY <1>1, <1>2, <1>3, Mine DEF Doings
<1>5. Before(t, d, e)
  BY <1>1, <1>3, <1>4 DEF Before, Setting, RefInv, RefTypes
<1>6. Working(t, d, e)
  BY DEF Working
<1>7. /\ Keeps(d.to)' = Keeps(d.to) /\ Passed(t)' = Passed(t) /\ Had(t)' = Had(t) /\ Relies(t)'
      /\ mRefCnt' = mRefCnt /\ life' = life
  BY <1>5, SetTokens DEF Setting
<1>8. ASSUME NEW o \in Objects PROVE Counts(o)' /\ Balanced(o)'
  <2>1. Counts(o)'
    BY <1>5, <1>7, CountsSame
  <2>2. SameAhead(d, e, o)
    BY <1>1, <1>2, SetsCountNothing
  <2> QED BY <1>5, <1>6, <1>7, <2>1, <2>2, WasBalanced, BalancedSame
<1>9. RefTypes'
  <2>1. rcPointer' \in [Pointers -> Objects \cup {NULL}]
    BY <1>5 DEF Before
  <2>2. doing' \in [Holders -> Doings]
    BY <1>1, <1>3, Mine
  <2> QED BY <1>7, <2>1, <2>2 DEF RefTypes, RefInv
<1> QED BY <1>5, <1>6, <1>7, <1>8, <1>9, WorkKeeps

(* one that counts,                                                           *)
LEMMA IncKeeps ==
  ASSUME RefInv, NEW t \in Holders, NEW d, NEW e, Counting(t, d, e)
  PROVE  RefInv'
<1>1. StepOf(t, d, e) /\ IncStep(d, e) /\ d = doing[t] /\ d.op # "none"
  BY DEF Counting, StepOf
<1>2. Formed(d)
  BY <1>1 DEF RefInv
<1>3. Follows(d, e)
  BY <1>1, <1>2, AllFollow
<1>5. Before(t, d, e)
  BY <1>1, <1>3 DEF Before, Counting, RefInv, RefTypes
<1>6. Working(t, d, e)
  BY DEF Working
<1>7. Relies(t)' /\ life' = life /\ rcPointer' = rcPointer
  BY <1>5, IncTokens DEF Counting
<1>8. ASSUME NEW o \in Objects PROVE Counts(o)' /\ Balanced(o)'
  BY <1>5, CountsMore, WasBalanced, BalancedMore
<1>9. RefTypes'
  <2>1. mRefCnt' \in [Objects -> Int]
    BY DEF Counting, RefTypes, RefInv
  <2>2. doing' \in [Holders -> Doings]
    BY <1>1, <1>3, Mine
  <2> QED BY <1>7, <2>1, <2>2 DEF RefTypes, RefInv
<1> QED BY <1>5, <1>6, <1>7, <1>8, <1>9, WorkKeeps

(* one that discounts,                                                        *)
LEMMA DecKeeps ==
  ASSUME RefInv, NEW t \in Holders, NEW d, NEW e, NEW x, NEW last, Discounting(t, d, e, x, last)
  PROVE  RefInv'
<1>1. /\ StepOf(t, d, e) /\ DecStep(d, e, x, last) /\ d = doing[t] /\ d.op # "none"
      /\ last \in BOOLEAN
  BY DEF Discounting, StepOf
<1>2. Formed(d)
  BY <1>1 DEF RefInv
<1>4. last => x # NULL /\ ~At(d, "assign", 7)
  BY CopyIsNotLast, Finite
<1>3. Follows(d, e)
  BY <1>1, <1>2, <1>4, AllFollow
<1>5. Before(t, d, e)
  BY <1>1, <1>3 DEF Before, Discounting, RefInv, RefTypes
<1>6. Working(t, d, e)
  BY <1>4 DEF Working
<1>7. Relies(t)' /\ life' = life /\ rcPointer' = rcPointer
  BY <1>4, <1>5, DecTokens DEF Discounting
<1>8. ASSUME NEW o \in Objects PROVE Counts(o)' /\ Balanced(o)'
  BY <1>4, <1>5, CountsLess, WasBalanced, BalancedLess
<1>9. RefTypes'
  <2>1. mRefCnt' \in [Objects -> Int]
    BY DEF Discounting, RefTypes, RefInv
  <2>2. doing' \in [Holders -> Doings]
    BY <1>1, <1>3, Mine
  <2> QED BY <1>7, <2>1, <2>2 DEF RefTypes, RefInv
<1> QED BY <1>5, <1>6, <1>7, <1>8, <1>9, WorkKeeps

(* and a deletion,                                                            *)
LEMMA DeleteKeeps ==
  ASSUME RefInv, NEW t \in Holders, NEW d, NEW e, Deleting(t, d, e)
  PROVE  RefInv'
<1>1. StepOf(t, d, e) /\ DeleteStep(d, e) /\ d = doing[t] /\ d.op # "none"
  BY DEF Deleting, StepOf
<1>2. Formed(d)
  BY <1>1 DEF RefInv
<1>3. Follows(d, e)
  BY <1>1, <1>2, AllFollow
<1>5. Before(t, d, e)
  BY <1>1, <1>3 DEF Before, Deleting, RefInv, RefTypes
<1>6. Working(t, d, e)
  BY DEF Working
<1>7. /\ Keeps(d.to)' = Keeps(d.to) /\ Passed(t)' = Passed(t) /\ Had(t)' = Had(t) /\ Relies(t)'
      /\ mRefCnt' = mRefCnt /\ rcPointer' = rcPointer
  BY <1>5, DeleteTokens DEF Deleting
<1>8. ASSUME NEW o \in Objects PROVE Counts(o)' /\ Balanced(o)'
  <2>1. Counts(o)'
    BY <1>5, <1>7, CountsSame
  <2>2. SameAhead(d, e, o)
    BY <1>1, <1>2, SetsCountNothing
  <2> QED BY <1>5, <1>6, <1>7, <2>1, <2>2, WasBalanced, BalancedSame
<1>9. RefTypes'
  <2>1. life' \in [Objects -> {"unborn", "alive", "deleted"}]
    BY DEF Deleting, RefTypes, RefInv
  <2>2. doing' \in [Holders -> Doings]
    BY <1>1, <1>3, Mine
  <2> QED BY <1>7, <2>1, <2>2 DEF RefTypes, RefInv
<1> QED BY <1>5, <1>6, <1>7, <1>8, <1>9, WorkKeeps

(* as does the start of an operation.                                         *)
LEMMA StartKeeps ==
  ASSUME RefInv, NEW t \in Holders, NEW e, NEW p \in Pointers, Starting(t, e, p)
  PROVE  RefInv'
<1>1. /\ Formed(e) /\ doing' \in [Holders -> Doings] /\ doing'[t] = e
      /\ \A s \in Holders \ {t} : doing'[s] = doing[s]
      /\ \A s \in Holders : Relies(s)'
  BY StartTokens
<1>2. \A s \in Holders : Formed(doing[s])'
  BY <1>1 DEF RefInv
<1>3. RefTypes'
  <2>1. mRefCnt' = mRefCnt /\ rcPointer' = rcPointer
    BY DEF Starting
  <2>2. life' \in [Objects -> {"unborn", "alive", "deleted"}]
    BY DEF Starting, Fitting, RefInv, RefTypes
  <2> QED BY <1>1, <2>1, <2>2 DEF RefTypes, RefInv
<1>4. \A o \in Objects : Counts(o)' /\ Balanced(o)'
  BY CountsMoved, WasBalanced, BalancedMoved
<1>5. \A o \in Objects : Settled(o)'
  <2>1. AllFormed'
    BY <1>2 DEF AllFormed
  <2>2. AllFormed' => SettledIsBalanced'
    BY IfFormed, PTL
  <2> QED BY <1>4, <2>1, <2>2 DEF SettledIsBalanced
<1> QED BY <1>1, <1>2, <1>3, <1>4, <1>5, StartLives DEF RefInv

(* ... and of every step.                                                     *)
LEMMA RefInvNext == RefInv /\ [RefCntNext]_refcntVars => RefInv'
<1> SUFFICES ASSUME RefInv, [RefCntNext]_refcntVars PROVE RefInv'
  OBVIOUS
<1>1. CASE RefCntNext
  BY <1>1, StepsAre, SetKeeps, IncKeeps, DecKeeps, DeleteKeeps, StartKeeps
<1>2. CASE UNCHANGED refcntVars
  <2>1. mRefCnt' = mRefCnt /\ life' = life /\ rcPointer' = rcPointer /\ doing' = doing
    BY <1>2 DEF refcntVars
  <2>2. RefTypes' /\ \A t \in Holders : Formed(doing[t])'
    BY <2>1 DEF RefInv, RefTypes
  <2>3. \A t \in Holders : Relies(t)' /\ TakesWhatLives(t)' /\ DeletesAlone(t)'
    BY <2>1 DEF RefInv, Relies, TakesWhatLives, DeletesAlone, Alone, Takes, Deletes
  <2>4. \A o \in Objects : Lives(o)'
    BY <2>1 DEF RefInv, Lives, Deletes, Takes
  <2>5. \A o \in Objects : Counts(o)'
    BY <2>1 DEF RefInv, Counts, Keepers, Passers, Havers, Keeps, Passed, Had
  <2>6. \A o \in Objects : Settled(o)'
    BY <2>1 DEF RefInv, Settled, CallsOn, Becomes
  <2> QED BY <2>2, <2>3, <2>4, <2>5, <2>6 DEF RefInv
<1> QED BY <1>1, <1>2

(* The count is the number of tokens, and who uses an object has one or is    *)
(* alone with it, in every reachable state.                                   *)
THEOREM RefCntInvariant == RefCntSpec => []RefInv
BY RefInvInit, RefInvNext, PTL DEF RefCntSpec

(* The invariant implies what is promised.                                    *)
LEMMA CountedByInvariant == RefInv => CountedOnce
<1> SUFFICES ASSUME RefInv, NEW o \in Objects
             PROVE  /\ Settled(o)
                    /\ life[o] = "deleted" => ~InUse(o)
                    /\ life[o] = "deleted" => \A p \in Pointers : Becomes(p) # o
                    /\ life[o] = "alive" /\ ~InUse(o) => \E p \in Pointers : rcPointer[p] = o
  BY DEF CountedOnce
<1>0. o # NULL /\ mRefCnt[o] \in Nat
  BY Finite, TokenCounts DEF RefInv
<1>1. Settled(o)
  BY DEF RefInv
<1>2. InUse(o) <=> \E t \in Holders : Uses(doing[t], o)
  BY DEF InUse, Uses
<1>3. InUse(o) => life[o] = "alive"
  BY <1>2, UsedLives
<1>4. ASSUME NEW p \in Pointers, Becomes(p) = o PROVE life[o] = "alive"
  <2>1. PICK t \in Holders : t = Owner[p]
    BY Finite
  <2>d. PICK d : d = doing[t]
    OBVIOUS
  <2>2. Formed(d) /\ Relies(t)
    BY <2>1, <2>d DEF RefInv
  <2>3. CASE d.to # p
    BY <1>4, <2>1, <2>d, <2>3, KeptLives DEF Becomes
  <2>4. CASE d.to = p /\ Sets(d)
    <3>1. d.new = o
      BY <1>4, <2>1, <2>d, <2>2, <2>4, SetsWhat DEF Becomes
    <3>2. UsesNew(d)
      BY <1>0, <2>2, <2>4, <3>1 DEF Sets, UsesNew, Formed
    <3>3. Uses(d, o)
      BY <2>2, <3>1, <3>2, UsesWhat
    <3> QED BY <2>1, <2>d, <3>3, UsedLives
  <2>5. CASE d.to = p /\ ~Sets(d)
    <3>1. rcPointer[p] = o
      BY <1>4, <2>1, <2>d, <2>2, <2>5, SetsWhat DEF Becomes
    <3>2. p # NULL /\ d.op # "none"
      BY <2>2, <2>5, Finite, NothingIs DEF Formed
    <3>3. CASE d.op \in {"copy", "assign"}
      <4>1. d.new = o
        BY <2>1, <2>d, <2>2, <2>5, <3>1, <3>3 DEF Relies, Sets, Formed, Doings
      <4> QED BY <2>1, <2>d, <2>2, <3>3, <4>1, UsedLives, UsesWhat DEF UsesNew
    <3>4. CASE d.op = "object"
      <4>1. d.new = o /\ d.at \in 2..4
        BY <2>1, <2>d, <2>2, <2>5, <3>1, <3>4 DEF Relies, Sets, Formed
      <4>2. CASE d.at = 2
        BY <2>1, <2>d, <2>2, <3>4, <4>1, <4>2, UsedLives, UsesWhat DEF UsesNew
      <4>3. CASE d.at >= 3
        <5>1. Keeps(p) = o
          BY <2>1, <2>d, <2>5, <3>4, <4>1, <4>3 DEF Keeps
        <5>2. mRefCnt[o] > 0
          BY <5>1, TokenCounts DEF Token, Keepers, RefInv
        <5> QED BY <5>2 DEF RefInv, Lives
      <4> QED BY <4>1, <4>2, <4>3
    <3> QED BY <2>2, <2>5, <3>2, <3>3, <3>4 DEF Sets, Formed, Doings
  <2> QED BY <2>3, <2>4, <2>5
<1>5. ASSUME life[o] = "alive", ~InUse(o) PROVE \E p \in Pointers : rcPointer[p] = o
  <2>1. \A t \in Holders : Formed(doing[t]) /\ ~Uses(doing[t], o)
    BY <1>2, <1>5 DEF RefInv
  <2>2. mRefCnt[o] > 0
    <3>1. ASSUME mRefCnt[o] = 0 PROVE FALSE
      <4>1. PICK t \in Holders : (Deletes(t) /\ doing[t].old = o) \/ (Takes(t) /\ doing[t].new = o)
        BY <1>5, <3>1 DEF RefInv, Lives
      <4>2. Uses(doing[t], o)
        BY <2>1, <4>1, UsesWhat DEF Deletes, Takes, UsesOld, UsesNew
      <4> QED BY <2>1, <4>2
    <3> QED BY <1>0, <3>1
  <2>3. ASSUME NEW t \in Holders PROVE Passed(t) # o /\ Had(t) # o
    <3>1. PICK d : d = doing[t]
      OBVIOUS
    <3>2. ~(UsesNew(d) /\ d.new = o) /\ ~(UsesOld(d) /\ d.old = o) /\ d.at \in 1..7
      BY <2>1, <3>1, UsesWhat DEF Formed, Doings
    <3> QED BY <1>0, <3>1, <3>2 DEF Passed, Had, UsesNew, UsesOld
  <2>4. Passers(o) = {} /\ Havers(o) = {}
    BY <2>3 DEF Passers, Havers
  <2>5. Keepers(o) # {}
    <3>1. Cardinality({}) = 0 /\ Counts(o)
      BY FS_EmptySet DEF RefInv
    <3> QED BY <2>2, <2>4, <3>1 DEF Counts
  <2>6. PICK p \in Pointers : Keeps(p) = o
    BY <2>5 DEF Keepers
  <2>7. PICK t \in Holders : t = Owner[p]
    BY Finite
  <2>d. PICK d : d = doing[t]
    OBVIOUS
  <2>8. Formed(d) /\ Relies(t) /\ ~(UsesNew(d) /\ d.new = o) /\ ~(UsesOld(d) /\ d.old = o)
    BY <2>1, <2>7, <2>d, UsesWhat DEF RefInv
  <2>9. CASE d.to # p
    BY <2>6, <2>7, <2>d, <2>9 DEF Keeps
  <2>10. CASE d.to = p
    <3>1. d.op = "object" /\ d.at >= 3 /\ d.new = o
      BY <1>0, <2>6, <2>7, <2>d, <2>8, <2>10 DEF Keeps, UsesNew
    <3>2. rcPointer[p] = o
      BY <2>7, <2>d, <2>8, <2>10, <3>1 DEF Relies
    <3> QED BY <3>2
  <2> QED BY <2>9, <2>10
<1> QED BY <1>1, <1>3, <1>4, <1>5

(* The objects of RefCntPointer are counted right and deleted once.           *)
THEOREM CountedOnceHolds == RefCntSpec => []CountedOnce
BY RefCntInvariant, CountedByInvariant, PTL
===============================================================================
