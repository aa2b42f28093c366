---------------------------- MODULE CbLoggerProofs ----------------------------
(* What the two caches of CommonLibs may get wrong, for any keys, values,    *)
(* writers and threads: the table answers nothing that is PurgePeriod old,   *)
(* and LOG throws only when a key was removed under it.  A query that fails  *)
(* looks like a missing row, so both are said of a database that answers.    *)
EXTENDS CbLogger, TLAPS

(* The age of what the database says now is nothing,                         *)
Current == \A k \in Keys : ago[k][Meaning(db, k)] = 0

(* and what is cached had its value at the last purge or later.              *)
Aged == \A k \in Keys : mCache[k] # NotCached => ago[k][mCache[k]] <= purged

ConfigInv == ConfigTypeOK /\ Current /\ Aged

(* A thread that was told the key is there finds it, in the cache or in the  *)
(* database, unless it was removed; one that threw did not find it.          *)
Reads == \A t \in Threads :
  /\ at[t] = "file" /\ t \notin removed =>
       mCache[FileKey] # Missing /\ db[FileKey] # Missing
  /\ at[t] = "thrown" => t \in removed

IInv == TypeOK /\ ConfigInv /\ Reads

-----------------------------------------------------------------------------
(* A value, or that there is none, is what a key means.                      *)
LEMMA MeaningType ==
  ASSUME NEW rows \in [Keys -> Results], NEW k \in Keys
  PROVE  Meaning(rows, k) \in Results
BY ConfigAssumption DEF Meaning, Results

(* Whoever writes the rows makes values younger, and none older.             *)
LEMMA WriteKeeps ==
  ASSUME ConfigInv, NEW rows \in [Keys -> Results], Write(rows)
  PROVE  /\ db' \in [Keys -> Results] /\ ago' \in [Keys -> [Results -> Ages]]
         /\ Current'
         /\ \A k \in Keys : ago'[k][Meaning(rows, k)] = 0
         /\ \A k \in Keys, v \in Results : ago'[k][v] <= ago[k][v]
<1>1. /\ db' = rows
      /\ ago' = [k \in Keys |-> [ago[k] EXCEPT ![Meaning(rows, k)] = 0]]
  BY DEF Write
<1>2. ago \in [Keys -> [Results -> Ages]] /\ 0 \in Ages
  BY ConfigAssumption DEF ConfigInv, ConfigTypeOK, Ages
<1>3. ASSUME NEW k \in Keys
      PROVE  /\ ago'[k] = [ago[k] EXCEPT ![Meaning(rows, k)] = 0]
             /\ ago'[k] \in [Results -> Ages]
             /\ ago'[k][Meaning(rows, k)] = 0
  BY <1>1, <1>2, MeaningType
<1>4. ASSUME NEW k \in Keys, NEW v \in Results PROVE ago'[k][v] <= ago[k][v]
  <2>1. ago[k][v] \in Ages
    BY <1>2
  <2>2. ago'[k][v] = 0 \/ ago'[k][v] = ago[k][v]
    BY <1>2, <1>3
  <2> QED BY <2>1, <2>2, ConfigAssumption DEF Ages
<1>5. Current'
  BY <1>1, <1>3 DEF Current, Meaning
<1> QED BY <1>1, <1>2, <1>3, <1>4, <1>5

(* The answer of a lookup is cached, when it is no older than the purge.     *)
LEMMA LookupKeeps ==
  ASSUME ~DbFails, ConfigInv, NEW k \in Keys, NEW v \in Results, Lookup(k, v)
  PROVE  ConfigInv'
<1> DEFINE aged == CheckCacheAge
<1>1. /\ v \in IF aged.cache[k] # NotCached THEN {aged.cache[k]} ELSE {Meaning(db, k)}
      /\ mCache' = [aged.cache EXCEPT ![k] = v]
      /\ purged' = aged.age
      /\ UNCHANGED <<db, ago, writes>>
  BY DEF Lookup, Found
<1>2. /\ aged.cache \in [Keys -> Results \cup {NotCached}]
      /\ aged.age \in Ages
      /\ \A j \in Keys : aged.cache[j] # NotCached => ago[j][aged.cache[j]] <= aged.age
  BY ConfigAssumption DEF CheckCacheAge, ConfigInv, ConfigTypeOK, Aged, Ages
<1> HIDE DEF aged
<1>3. ConfigTypeOK'
  BY <1>1, <1>2 DEF ConfigInv, ConfigTypeOK
<1>4. Current'
  BY <1>1 DEF ConfigInv, Current, Meaning
<1>5. ago[k][v] <= aged.age
  <2>1. CASE aged.cache[k] # NotCached
    BY <1>1, <1>2, <2>1
  <2>2. CASE aged.cache[k] = NotCached
    BY <1>1, <1>2, <2>2 DEF ConfigInv, Current, Ages
  <2> QED BY <2>1, <2>2
<1>6. Aged'
  BY <1>1, <1>2, <1>5 DEF Aged
<1> QED BY <1>3, <1>4, <1>6 DEF ConfigInv

(* Set writes a value through the cache,                                     *)
LEMMA SetKeeps ==
  ASSUME ConfigInv, NEW k \in Keys, NEW v \in Values, Set(k, v), writes' \in 0..MaxWrites
  PROVE  ConfigInv'
<1> DEFINE rows == [db EXCEPT ![k] = v]
<1>1. /\ Write(rows) /\ mCache' = [mCache EXCEPT ![k] = v] /\ UNCHANGED purged
      /\ db \in [Keys -> Results]
  BY DEF Set, ConfigInv, ConfigTypeOK
<1>2. rows \in [Keys -> Results] /\ Meaning(rows, k) = v /\ v \in Results
  BY <1>1, ConfigAssumption DEF Meaning, Results
<1> HIDE DEF rows
<1>3. /\ db' \in [Keys -> Results] /\ ago' \in [Keys -> [Results -> Ages]] /\ Current'
      /\ ago'[k][v] = 0
      /\ \A j \in Keys, w \in Results : ago'[j][w] <= ago[j][w]
  BY <1>1, <1>2, WriteKeeps
<1>4. ConfigTypeOK'
  BY <1>1, <1>2, <1>3 DEF ConfigInv, ConfigTypeOK
<1>5. ASSUME NEW j \in Keys, mCache'[j] # NotCached PROVE ago'[j][mCache'[j]] <= purged'
  <2>1. CASE j = k
    BY <1>1, <1>3, <2>1 DEF ConfigInv, ConfigTypeOK, Ages
  <2>2. CASE j # k
    <3>1. mCache'[j] = mCache[j] /\ mCache[j] \in Results
      BY <1>1, <1>5, <2>2 DEF ConfigInv, ConfigTypeOK
    <3>2. /\ ago[j][mCache[j]] <= purged /\ ago'[j][mCache[j]] <= ago[j][mCache[j]]
          /\ ago[j][mCache[j]] \in Ages /\ ago'[j][mCache[j]] \in Ages /\ purged \in Ages
      BY <1>3, <1>5, <3>1 DEF ConfigInv, ConfigTypeOK, Aged
    <3> QED BY <1>1, <3>1, <3>2, ConfigAssumption DEF Ages
  <2> QED BY <2>1, <2>2
<1> QED BY <1>3, <1>4, <1>5 DEF ConfigInv, Aged

(* and any other write leaves the cache, or takes the key out of it.         *)
LEMMA OtherWriteKeeps ==
  ASSUME ConfigInv, NEW rows \in [Keys -> Results], Write(rows), UNCHANGED purged,
         mCache' \in [Keys -> Results \cup {NotCached}],
         \A k \in Keys : mCache'[k] \in {mCache[k], NotCached},
         writes' \in 0..MaxWrites
  PROVE  ConfigInv'
<1>1. /\ db' \in [Keys -> Results] /\ ago' \in [Keys -> [Results -> Ages]] /\ Current'
      /\ \A j \in Keys, w \in Results : ago'[j][w] <= ago[j][w]
  BY WriteKeeps
<1>2. ConfigTypeOK'
  BY <1>1 DEF ConfigInv, ConfigTypeOK
<1>3. ASSUME NEW j \in Keys, mCache'[j] # NotCached PROVE ago'[j][mCache'[j]] <= purged'
  <2>1. mCache'[j] = mCache[j] /\ mCache[j] \in Results
    BY <1>3 DEF ConfigInv, ConfigTypeOK
  <2>2. /\ ago[j][mCache[j]] <= purged /\ ago'[j][mCache[j]] <= ago[j][mCache[j]]
        /\ ago[j][mCache[j]] \in Ages /\ ago'[j][mCache[j]] \in Ages /\ purged \in Ages
    BY <1>1, <1>3, <2>1 DEF ConfigInv, ConfigTypeOK, Aged
  <2> QED BY <2>1, <2>2, ConfigAssumption DEF Ages
<1> QED BY <1>1, <1>2, <1>3 DEF ConfigInv, Aged

(* Time makes all older alike, but for what the database says now.           *)
LEMMA TickKeeps ==
  ASSUME ConfigInv, Tick
  PROVE  ConfigInv'
<1>1. /\ purged' = Older(purged)
      /\ ago' = [k \in Keys |-> [v \in Results |->
                   IF v = Meaning(db, k) THEN 0 ELSE Older(ago[k][v])]]
      /\ UNCHANGED <<db, mCache, writes>>
  BY DEF Tick
<1>2. \A a \in Ages : Older(a) \in Ages /\ 0 \in Ages
  BY ConfigAssumption DEF Older, Ages
<1>3. \A a, b \in Ages : a <= b => Older(a) <= Older(b)
  BY ConfigAssumption DEF Older, Ages
<1>4. ConfigTypeOK'
  BY <1>1, <1>2 DEF ConfigInv, ConfigTypeOK
<1>5. Current'
  BY <1>1, MeaningType DEF ConfigInv, ConfigTypeOK, Current, Meaning
<1>6. ASSUME NEW j \in Keys, mCache'[j] # NotCached PROVE ago'[j][mCache'[j]] <= purged'
  <2>1. /\ mCache'[j] = mCache[j] /\ mCache[j] \in Results /\ purged \in Ages
        /\ ago[j][mCache[j]] <= purged /\ ago[j][mCache[j]] \in Ages
    BY <1>1, <1>6 DEF ConfigInv, ConfigTypeOK, Aged
  <2>2. ago'[j][mCache[j]] = 0 \/ ago'[j][mCache[j]] = Older(ago[j][mCache[j]])
    BY <1>1, <2>1
  <2> QED BY <1>1, <1>2, <1>3, <2>1, <2>2 DEF Ages
<1> QED BY <1>4, <1>5, <1>6 DEF ConfigInv, Aged

-----------------------------------------------------------------------------
(* A key with a row, which the cache does not deny.                          *)
Answers == mCache[FileKey] # Missing /\ db[FileKey] # Missing

(* Such a key is found by every lookup, and no lookup makes it disappear;    *)
LEMMA LookupAnswers ==
  ASSUME ~DbFails, ConfigInv, Answers, NEW k \in Keys, NEW v \in Results, Lookup(k, v)
  PROVE  Answers' /\ (k = FileKey => v # Missing)
<1> DEFINE aged == CheckCacheAge
<1>1. /\ v \in IF aged.cache[k] # NotCached THEN {aged.cache[k]} ELSE {Meaning(db, k)}
      /\ mCache' = [aged.cache EXCEPT ![k] = v]
      /\ UNCHANGED db
  BY DEF Lookup, Found
<1>2. FileKey \in Keys /\ NotCached # Missing
  BY LoggerAssumption, ConfigAssumption
<1>3. /\ aged.cache \in [Keys -> Results \cup {NotCached}]
      /\ aged.cache[FileKey] # Missing
  BY <1>2 DEF CheckCacheAge, ConfigInv, ConfigTypeOK, Answers
<1> HIDE DEF aged
<1>4. k = FileKey => v # Missing
  <2>1. Meaning(db, FileKey) # Missing
    BY DEF Meaning, Answers
  <2> QED BY <1>1, <1>3, <2>1
<1> QED BY <1>1, <1>2, <1>3, <1>4 DEF Answers

(* nor does a write through the table.                                       *)
LEMMA SetAnswers ==
  ASSUME ConfigInv, Answers, NEW k \in Keys, NEW v \in Values, Set(k, v)
  PROVE  Answers'
<1>1. /\ db' = [db EXCEPT ![k] = v] /\ mCache' = [mCache EXCEPT ![k] = v]
      /\ v # Missing
  BY ConfigAssumption DEF Set, Write
<1> QED BY <1>1, LoggerAssumption DEF Answers, ConfigInv, ConfigTypeOK

(* What the rest of the program and other programs do keeps the table's      *)
(* invariant, and the key, if they do not remove it.                         *)
LEMMA OutsideKeeps ==
  ASSUME ~DbFails, ConfigInv,
         \/ \E k \in Keys, v \in Results : OutsideWrite(k, v)
         \/ \E k \in Keys : Use(k)
         \/ Purge
  PROVE  ConfigInv' /\ (Answers => Answers' \/ db'[FileKey] = Missing)
<1> USE DEF ConfigInv, ConfigTypeOK
<1>0. FileKey \in Keys /\ NotCached # Missing /\ Missing \in Results
  BY LoggerAssumption, ConfigAssumption DEF Results
<1>1. Bounded => writes' \in 0..MaxWrites
  BY ConfigAssumption DEF Bounded
<1>2. ASSUME NEW k \in Keys, NEW v \in Results, OutsideWrite(k, v)
      PROVE  ConfigInv' /\ (Answers => Answers' \/ db'[FileKey] = Missing)
  <2>1. Write([db EXCEPT ![k] = v]) /\ UNCHANGED <<mCache, purged>> /\ Bounded
    BY <1>2 DEF OutsideWrite
  <2>2. ConfigInv'
    BY <1>1, <2>1, OtherWriteKeeps
  <2> QED BY <2>1, <2>2 DEF Answers
<1>3. ASSUME NEW k \in Keys, NEW v \in Results, Lookup(k, v)
      PROVE  ConfigInv' /\ (Answers => Answers' \/ db'[FileKey] = Missing)
  BY <1>3, LookupKeeps, LookupAnswers
<1>4. ASSUME NEW k \in Keys, NEW v \in Values, Bounded, Set(k, v)
      PROVE  ConfigInv' /\ (Answers => Answers' \/ db'[FileKey] = Missing)
  BY <1>1, <1>4, SetKeeps, SetAnswers
<1>5. ASSUME NEW k \in Keys, Bounded, Remove(k)
      PROVE  ConfigInv' /\ (Answers => Answers' \/ db'[FileKey] = Missing)
  <2>1. /\ Write([db EXCEPT ![k] = Missing]) /\ UNCHANGED purged
        /\ mCache' = [mCache EXCEPT ![k] = NotCached]
        /\ [db EXCEPT ![k] = Missing] \in [Keys -> Results]
    BY <1>0, <1>5 DEF Remove
  <2>2. ConfigInv'
    BY <1>1, <1>5, <2>1, OtherWriteKeeps
  <2>3. mCache[FileKey] # Missing => mCache'[FileKey] # Missing
    BY <1>0, <2>1
  <2> QED BY <2>2, <2>3 DEF Answers
<1>6. ASSUME Purge
      PROVE  ConfigInv' /\ (Answers => Answers' \/ db'[FileKey] = Missing)
  <2>1. /\ mCache' = [k \in Keys |-> NotCached]
        /\ UNCHANGED <<db, purged, ago, writes>>
    BY <1>6 DEF Purge
  <2>2. Current' /\ Aged'
    BY <2>1 DEF Current, Aged, Meaning
  <2> QED BY <1>0, <2>1, <2>2 DEF Answers
<1> QED BY <1>2, <1>3, <1>4, <1>5, <1>6 DEF Use

-----------------------------------------------------------------------------
(* The table starts empty in the cache, and with the rows it finds.          *)
LEMMA InitInv == Init => IInv
<1> SUFFICES ASSUME Init PROVE IInv
  OBVIOUS
<1> USE ConfigAssumption, LoggerAssumption
<1>1. ConfigInit
  BY DEF Init
<1>2. db \in [Keys -> Results]
  BY <1>1 DEF ConfigInit, Results
<1>3. ConfigTypeOK
  BY <1>1, <1>2 DEF ConfigInit, ConfigTypeOK, Ages
<1>4. Current
  BY <1>1, <1>2, MeaningType DEF ConfigInit, Current
<1>5. Aged
  BY <1>1 DEF ConfigInit, Aged
<1>6. TypeOK /\ Reads
  BY <1>3 DEF Init, TypeOK, Default, Reads
<1> QED BY <1>3, <1>4, <1>5, <1>6 DEF IInv, ConfigInv

(* Every step of a thread in LOG, of the table's other users and of time     *)
(* keeps the invariant.                                                      *)
LEMMA NextInv == ASSUME ~DbFails PROVE IInv /\ [Next]_vars => IInv'
<1> SUFFICES ASSUME IInv, [Next]_vars PROVE IInv'
  OBVIOUS
<1> USE DEF IInv, Goto
<1>0. /\ FileKey \in Keys /\ MainKey \in Keys /\ Default \in Levels /\ Default \in Values
      /\ FileKey # MainKey
  BY LoggerAssumption DEF Default
<1>1. ASSUME NEW t \in Threads, Ask(t) PROVE IInv'
  <2>1. UNCHANGED <<configVars, removed>> /\ at[t] = "idle"
    BY <1>1 DEF Ask
  <2>2. ConfigInv'
    BY <2>1 DEF configVars, ConfigInv, ConfigTypeOK, Current, Aged, Meaning
  <2>3. sCacheCount' \in 0..RefreshCount + 1
    <3>1. sCacheCount' = (IF sCacheCount > RefreshCount THEN 0 ELSE sCacheCount) + 1
      BY <1>1 DEF Ask
    <3>2. sCacheCount \in 0..RefreshCount + 1 /\ RefreshCount \in Nat
      BY LoggerAssumption DEF TypeOK
    <3> QED BY <3>1, <3>2
  <2>4. sLogCache' \in Levels \cup {NotCached}
    BY <1>1 DEF Ask, TypeOK
  <2>5. level' \in [Threads -> Levels]
    BY <1>1 DEF Ask, TypeOK
  <2>6. at' = at \/ at' = [at EXCEPT ![t] = "defines"]
    BY <1>1 DEF Ask
  <2>7. at' \in [Threads -> {"idle", "defines", "file", "main", "fix file", "fix main",
                             "insert", "thrown"}]
    BY <2>6 DEF TypeOK
  <2>8. TypeOK'
    BY <2>1, <2>2, <2>3, <2>4, <2>5, <2>7 DEF TypeOK, ConfigInv
  <2>9. Reads'
    BY <2>1, <2>6 DEF Reads, TypeOK, configVars
  <2> QED BY <2>2, <2>8, <2>9
<1>2. ASSUME NEW t \in Threads, Defines(t) PROVE IInv'
  <2>1. PICK v \in Results :
          Lookup(FileKey, v) /\ at' = [at EXCEPT ![t] = IF v = Missing THEN "main" ELSE "file"]
    BY <1>2 DEF Defines
  <2>2. /\ at[t] = "defines" /\ UNCHANGED <<sLogCache, sCacheCount, level>>
        /\ removed' = IF at'[t] = "file" /\ db[FileKey] = Missing THEN removed \cup {t} ELSE removed
    BY <1>2 DEF Defines
  <2>3. ConfigInv'
    BY <1>0, <2>1, LookupKeeps
  <2>4. TypeOK'
    BY <2>1, <2>2, <2>3 DEF TypeOK, ConfigInv
  <2>5. UNCHANGED db /\ mCache'[FileKey] = v
    BY <1>0, <2>1 DEF Lookup, CheckCacheAge, ConfigInv, ConfigTypeOK
  <2>6. Answers => Answers'
    BY <1>0, <2>1, LookupAnswers
  <2>7. ASSUME NEW u \in Threads
        PROVE  /\ at'[u] = "file" /\ u \notin removed' => Answers'
               /\ at'[u] = "thrown" => u \in removed'
    <3>1. CASE u = t
      BY <2>1, <2>2, <2>5, <3>1 DEF TypeOK, Answers
    <3>2. CASE u # t
      BY <2>1, <2>2, <2>6, <3>2 DEF TypeOK, Reads, Answers
    <3> QED BY <3>1, <3>2
  <2> QED BY <2>3, <2>4, <2>7 DEF Reads, Answers
<1>3. ASSUME NEW t \in Threads, GetFile(t) PROVE IInv'
  <2>1. PICK v \in Results :
          /\ Lookup(FileKey, v)
          /\ \/ v = Missing /\ Goto(t, "thrown") /\ UNCHANGED level
             \/ v = Empty /\ Goto(t, "main") /\ UNCHANGED level
             \/ v \notin {Missing, Empty} /\ Judge(t, FileKey, v)
    BY <1>3 DEF GetFile
  <2>2. /\ at[t] = "file" /\ UNCHANGED <<sLogCache, sCacheCount>>
        /\ removed' = IF at'[t] = "thrown" THEN removed ELSE removed \ {t}
    BY <1>3 DEF GetFile
  <2>3. ConfigInv'
    BY <1>0, <2>1, LookupKeeps
  <2>4. /\ at'[t] \in {"thrown", "main", "insert", "fix file"}
        /\ at'[t] = "thrown" => v = Missing
        /\ at' = [at EXCEPT ![t] = at'[t]]
    BY <1>0, <2>1, LoggerAssumption DEF Judge, TypeOK
  <2>5. level' \in [Threads -> Levels]
    BY <1>0, <2>1 DEF Judge, TypeOK
  <2>6. TypeOK'
    BY <2>2, <2>3, <2>4, <2>5 DEF TypeOK, ConfigInv
  <2>7. Answers => Answers' /\ v # Missing
    BY <1>0, <2>1, LookupAnswers
  <2>8. ASSUME NEW u \in Threads
        PROVE  /\ at'[u] = "file" /\ u \notin removed' => Answers'
               /\ at'[u] = "thrown" => u \in removed'
    <3>1. CASE u = t
      BY <2>2, <2>4, <2>7, <3>1 DEF Reads, Answers
    <3>2. CASE u # t
      BY <2>2, <2>4, <2>7, <3>2 DEF TypeOK, Reads, Answers
    <3> QED BY <3>1, <3>2
  <2> QED BY <2>3, <2>6, <2>8 DEF Reads, Answers
<1>4. ASSUME NEW t \in Threads, GetMain(t) PROVE IInv'
  <2>1. PICK v \in Results : Lookup(MainKey, v) /\ Judge(t, MainKey, v)
    BY <1>4 DEF GetMain
  <2>2. at[t] = "main" /\ UNCHANGED <<sLogCache, sCacheCount, removed>>
    BY <1>4 DEF GetMain
  <2>3. ConfigInv'
    BY <1>0, <2>1, LookupKeeps
  <2>4. /\ at'[t] \in {"insert", "fix main"}
        /\ at' = [at EXCEPT ![t] = at'[t]]
    BY <1>0, <2>1 DEF Judge, TypeOK
  <2>5. level' \in [Threads -> Levels]
    BY <1>0, <2>1 DEF Judge, TypeOK
  <2>6. TypeOK'
    BY <2>2, <2>3, <2>4, <2>5 DEF TypeOK, ConfigInv
  <2>7. Answers => Answers'
    BY <1>0, <2>1, LookupAnswers
  <2>8. Reads'
    BY <2>2, <2>4, <2>7 DEF TypeOK, Reads, Answers
  <2> QED BY <2>3, <2>6, <2>8
<1>5. ASSUME NEW t \in Threads, Fix(t) PROVE IInv'
  <2> DEFINE k == IF at[t] = "fix file" THEN FileKey ELSE MainKey
  <2>1. /\ at[t] \in {"fix file", "fix main"} /\ Set(k, Default) /\ k \in Keys
        /\ at' = [at EXCEPT ![t] = "insert"]
        /\ UNCHANGED <<writes, sLogCache, sCacheCount, level, removed>>
    BY <1>0, <1>5 DEF Fix
  <2>2. ConfigInv'
    BY <1>0, <2>1, SetKeeps DEF ConfigInv, ConfigTypeOK
  <2>3. TypeOK'
    BY <2>1, <2>2 DEF TypeOK, ConfigInv
  <2>4. Answers => Answers'
    BY <1>0, <2>1, SetAnswers
  <2>5. Reads'
    BY <2>1, <2>4 DEF TypeOK, Reads, Answers
  <2> QED BY <2>2, <2>3, <2>5
<1>6. ASSUME NEW t \in Threads, InsertLevel(t) PROVE IInv'
  <2>1. /\ at[t] = "insert" /\ at' = [at EXCEPT ![t] = "idle"]
        /\ UNCHANGED <<configVars, sCacheCount, level, removed>>
        /\ sLogCache' = IF sLogCache = NotCached THEN level[t] ELSE sLogCache
    BY <1>6 DEF InsertLevel
  <2>2. ConfigInv'
    BY <2>1 DEF configVars, ConfigInv, ConfigTypeOK, Current, Aged, Meaning
  <2>3. TypeOK'
    BY <2>1, <2>2 DEF TypeOK, ConfigInv
  <2>4. Reads'
    BY <2>1 DEF Reads, TypeOK, configVars
  <2> QED BY <2>2, <2>3, <2>4
<1>7. ASSUME Outside PROVE IInv'
  <2>1. ConfigInv' /\ (Answers => Answers' \/ db'[FileKey] = Missing)
    BY <1>7, OutsideKeeps DEF Outside
  <2>2. /\ removed' = IF db'[FileKey] = Missing THEN removed \cup Reading ELSE removed
        /\ UNCHANGED <<sLogCache, sCacheCount, at, level>>
    BY <1>7 DEF Outside
  <2>3. TypeOK'
    BY <2>1, <2>2 DEF TypeOK, ConfigInv, Reading
  <2>4. Reads'
    BY <2>1, <2>2 DEF Reads, Reading, Answers
  <2> QED BY <2>1, <2>3, <2>4
<1>8. ASSUME Second PROVE IInv'
  <2>1. Tick /\ UNCHANGED <<sLogCache, sCacheCount, at, level, removed>>
    BY <1>8 DEF Second
  <2>2. ConfigInv' /\ UNCHANGED <<db, mCache>>
    BY <2>1, TickKeeps DEF Tick
  <2> QED BY <2>1, <2>2 DEF TypeOK, ConfigInv, Reads
<1>9. ASSUME UNCHANGED vars PROVE IInv'
  BY <1>9 DEF vars, configVars, TypeOK, ConfigInv, ConfigTypeOK, Current, Aged, Meaning, Reads
<1> QED
  BY <1>1, <1>2, <1>3, <1>4, <1>5, <1>6, <1>7, <1>8, <1>9 DEF Next, Log

(* The invariant of the logger and its table: what the cache says was true   *)
(* when it was purged last or later, and TypeOK goes with it.                *)
THEOREM LoggerInvariant == ASSUME ~DbFails PROVE Spec => []IInv
BY InitInv, NextInv, PTL DEF Spec

(* A value that the table uses from its cache was right less than            *)
(* PurgePeriod seconds ago, whoever wrote, removed or purged meanwhile.      *)
THEOREM CacheIsFreshEnough == ASSUME ~DbFails PROVE Spec => []FreshEnough
<1>1. IInv => FreshEnough
  <2> SUFFICES ASSUME IInv, purged < PurgePeriod,
                      NEW k \in Keys, mCache[k] # NotCached
               PROVE  ago[k][mCache[k]] < PurgePeriod
    BY DEF FreshEnough
  <2>1. ago[k][mCache[k]] \in Ages /\ purged \in Ages /\ ago[k][mCache[k]] <= purged
    BY DEF IInv, ConfigInv, ConfigTypeOK, Aged
  <2> QED BY <2>1, ConfigAssumption DEF Ages
<1> QED BY <1>1, LoggerInvariant, PTL

(* LOG throws only if the key of its file was removed between the two times  *)
(* it looks: no purge, write or other thread takes it away.                  *)
THEOREM OnlyARemovalThrows == ASSUME ~DbFails PROVE Spec => []OnlyRemovalThrows
<1>1. IInv => OnlyRemovalThrows
  BY DEF IInv, Reads, OnlyRemovalThrows
<1> QED BY <1>1, LoggerInvariant, PTL
===============================================================================
