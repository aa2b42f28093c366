------------------------------- MODULE CbLogger -------------------------------
(* The level of a source file in Logger.cpp, and the configuration it comes  *)
(* from.  LOG asks gGetLoggingLevel, which keeps levels in a cache of its    *)
(* own and empties it after RefreshCount questions; on a miss it gives its   *)
(* lock up, since the lookup of the level may log again, and inserts what it *)
(* found when it has the lock back.  A level that is no level is replaced    *)
(* in the configuration by the default.                                      *)
EXTENDS CbConfig

CONSTANTS Threads,
          Levels,         \* the values that name a level
          Empty,          \* the value the command "unconfig" leaves
          FileKey,        \* Log.Level.<filename>
          MainKey,        \* Log.Level
          RefreshCount    \* sCacheRefreshCount, 1000

ASSUME LoggerAssumption ==
  /\ Keys = {FileKey, MainKey} /\ FileKey # MainKey
  /\ DOMAIN Defaults = {MainKey}
  /\ Levels \subseteq Values /\ Empty \in Values \ Levels
  /\ Defaults[MainKey] \in Levels
  /\ RefreshCount \in Nat

VARIABLES sLogCache,     \* the level of the file, if cached
          sCacheCount,
          at,            \* where a thread is in gGetLoggingLevel
          level,         \* what it found, or was told last
          removed        \* threads for which the key was removed since the
                         \* table read what defines answered

vars == <<configVars, sLogCache, sCacheCount, at, level, removed>>

Default == Defaults[MainKey]

Init ==
  /\ ConfigInit
  /\ sLogCache = NotCached
  /\ sCacheCount = 0
  /\ at = [t \in Threads |-> "idle"]
  /\ level = [t \in Threads |-> Default]
  /\ removed = {}

-----------------------------------------------------------------------------
Goto(t, place) == at' = [at EXCEPT ![t] = place]

(* A bug a run must catch: questions answered from the cache are not counted. *)
MutantAsk(t) ==
  /\ at[t] = "idle"
  /\ LET flush == sCacheCount > RefreshCount
         cached == IF flush THEN NotCached ELSE sLogCache
     IN  /\ sLogCache' = cached
         /\ \/ /\ cached # NotCached
               /\ level' = [level EXCEPT ![t] = cached]
               /\ UNCHANGED <<at, sCacheCount>>
            \/ /\ cached = NotCached /\ Goto(t, "defines") /\ UNCHANGED level
               /\ sCacheCount' = (IF flush THEN 0 ELSE sCacheCount) + 1
  /\ UNCHANGED <<configVars, removed>>

(* The first part of gGetLoggingLevel, under sLogCacheLock.                 *)
Ask(t) ==
  /\ at[t] = "idle"
  /\ LET flush == sCacheCount > RefreshCount
         cached == IF flush THEN NotCached ELSE sLogCache
     IN  /\ sLogCache' = cached
         /\ sCacheCount' = (IF flush THEN 0 ELSE sCacheCount) + 1
         /\ \/ /\ cached # NotCached
               /\ level' = [level EXCEPT ![t] = cached]
               /\ UNCHANGED at
            \/ cached = NotCached /\ Goto(t, "defines") /\ UNCHANGED level
  /\ UNCHANGED <<configVars, removed>>

(* getLoggingLevel: gConfig.defines, which asks the table a first time.     *)
Defines(t) ==
  /\ at[t] = "defines"
  /\ \E v \in Results :
       /\ Lookup(FileKey, v)
       /\ Goto(t, IF v = Missing THEN "main" ELSE "file")
  /\ removed' = IF at'[t] = "file" /\ db[FileKey] = Missing THEN removed \cup {t} ELSE removed
  /\ UNCHANGED <<sLogCache, sCacheCount, level>>

(* lookupLevel2 of the value of key k.                                      *)
Judge(t, k, v) ==
  IF v \in Levels THEN level' = [level EXCEPT ![t] = v] /\ Goto(t, "insert")
  ELSE level' = [level EXCEPT ![t] = Default]
       /\ Goto(t, IF k = FileKey THEN "fix file" ELSE "fix main")

(* gConfig.getStr asks it again, and throws if there is nothing any more.   *)
GetFile(t) ==
  /\ at[t] = "file"
  /\ \E v \in Results :
       /\ Lookup(FileKey, v)
       /\ \/ v = Missing /\ Goto(t, "thrown") /\ UNCHANGED level
          \/ v = Empty /\ Goto(t, "main") /\ UNCHANGED level
          \/ v \notin {Missing, Empty} /\ Judge(t, FileKey, v)
  /\ removed' = IF at'[t] = "thrown" THEN removed ELSE removed \ {t}
  /\ UNCHANGED <<sLogCache, sCacheCount>>

GetMain(t) ==
  /\ at[t] = "main"
  /\ \E v \in Results : Lookup(MainKey, v) /\ Judge(t, MainKey, v)
  /\ UNCHANGED <<sLogCache, sCacheCount, removed>>

(* The default is written over whatever is there by now.                    *)
Fix(t) ==
  /\ at[t] \in {"fix file", "fix main"}
  /\ Set(IF at[t] = "fix file" THEN FileKey ELSE MainKey, Default)
  /\ Goto(t, "insert")
  /\ UNCHANGED <<writes, sLogCache, sCacheCount, level, removed>>

(* map::insert keeps what another thread has inserted meanwhile.            *)
InsertLevel(t) ==
  /\ at[t] = "insert"
  /\ sLogCache' = IF sLogCache = NotCached THEN level[t] ELSE sLogCache
  /\ Goto(t, "idle")
  /\ UNCHANGED <<configVars, sCacheCount, level, removed>>

Log(t) ==
  Ask(t) \/ Defines(t) \/ GetFile(t) \/ GetMain(t) \/ Fix(t) \/ InsertLevel(t)

Reading == {t \in Threads : at[t] = "file"}

(* The rest of the program, and other programs, use the table meanwhile.    *)
Outside ==
  /\ \/ \E k \in Keys, v \in Results : OutsideWrite(k, v)
     \/ \E k \in Keys : Use(k)
     \/ Purge
  /\ removed' = IF db'[FileKey] = Missing THEN removed \cup Reading ELSE removed
  /\ UNCHANGED <<sLogCache, sCacheCount, at, level>>

Second == Tick /\ UNCHANGED <<sLogCache, sCacheCount, at, level, removed>>

Next == (\E t \in Threads : Log(t)) \/ Outside \/ Second

(* Time passes, and the threads go on logging.                              *)
Fairness == WF_vars(Second) /\ \A t \in Threads : WF_vars(Log(t))

Spec == Init /\ [][Next]_vars
FairSpec == Spec /\ Fairness

-----------------------------------------------------------------------------
(* The variables are of their types.                                        *)
TypeOK ==
  /\ ConfigTypeOK
  /\ sLogCache \in Levels \cup {NotCached}
  /\ sCacheCount \in 0..RefreshCount + 1
  /\ at \in [Threads -> {"idle", "defines", "file", "main", "fix file", "fix main",
                         "insert", "thrown"}]
  /\ level \in [Threads -> Levels]
  /\ removed \subseteq Threads

(* LOG lets an exception out only if somebody removed the key since the     *)
(* table read what the first of the two lookups of it answered: no purge,   *)
(* no write and no other thread's miss makes what was found defined         *)
(* disappear.                                                               *)
OnlyRemovalThrows == \A t \in Threads : at[t] = "thrown" => t \in removed

(* The level the configuration asks for. *)
Wanted ==
  LET key == IF db[FileKey] \in {Missing, Empty} THEN MainKey ELSE FileKey
      v == Meaning(db, key)
  IN  IF v \in Levels THEN v ELSE Default

(* Once the configuration rests, every thread is told the level it asks     *)
(* for, in spite of two caches and of inserts of what was read long ago.    *)
LevelsCatchUp ==
  <>[](\A t \in Threads : at[t] \in {"idle", "defines"} => level[t] = Wanted)
=============================================================================
