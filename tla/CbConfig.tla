------------------------------- MODULE CbConfig -------------------------------
(* ConfigurationTable of CommonLibs: the CONFIG table of a database that     *)
(* other programs write as well, and a cache of it that is emptied by the    *)
(* first lookup after PurgePeriod seconds.  Every operation runs under the   *)
(* table's mutex and is one step.  Time is kept as ages, in seconds, of      *)
(* which only those below the period differ.                                 *)
EXTENDS Naturals

CONSTANTS Keys,
          Values,         \* what a row may hold
          Missing,        \* no row; in the cache: known to have no value
          NotCached,
          Databases,      \* the tables the program may find
          Defaults,       \* mSchema: the values of the keys that have one
          PurgePeriod,    \* 3 seconds
          MaxWrites,      \* bound: writes by other programs and by users
          DbFails         \* may a query fail

ASSUME ConfigAssumption ==
  /\ DOMAIN Defaults \subseteq Keys
  /\ \A k \in DOMAIN Defaults : Defaults[k] \in Values
  /\ Databases \subseteq [Keys -> Values \cup {Missing}]
  /\ Missing \notin Values /\ NotCached \notin Values \cup {Missing}
  /\ PurgePeriod \in Nat \ {0} /\ MaxWrites \in Nat
  /\ DbFails \in BOOLEAN

VARIABLES db,       \* the rows
          mCache,
          purged,   \* seconds since timeOfLastPurge
          ago,      \* seconds since a key last had a value
          writes

configVars == <<db, mCache, purged, ago, writes>>

Results == Values \cup {Missing}
Ages == 0..PurgePeriod
Older(age) == IF age = PurgePeriod THEN age ELSE age + 1

(* What a key means: its row, or the default of the schema. *)
Meaning(rows, k) ==
  IF rows[k] = Missing /\ k \in DOMAIN Defaults THEN Defaults[k] ELSE rows[k]

(* A query that fails leaves no value, as if there were no row.             *)
Found(k) == {Meaning(db, k)} \cup
            (IF DbFails THEN {Meaning([db EXCEPT ![k] = Missing], k)} ELSE {})

ConfigInit ==
  /\ db \in Databases
  /\ mCache = [k \in Keys |-> NotCached]
  /\ purged = PurgePeriod
  /\ ago = [k \in Keys |-> [v \in Results |-> IF v = Meaning(db, k) THEN 0 ELSE PurgePeriod]]
  /\ writes = 0

-----------------------------------------------------------------------------
(* A bug a run must catch: the time of the purge is taken from the lookup   *)
(* before.                                                                  *)
MutantCheckCacheAge ==
  IF purged < PurgePeriod THEN [cache |-> mCache, age |-> 0]
  ELSE [cache |-> [k \in Keys |-> NotCached], age |-> 0]

CheckCacheAge ==
  IF purged < PurgePeriod THEN [cache |-> mCache, age |-> purged]
  ELSE [cache |-> [k \in Keys |-> NotCached], age |-> 0]

(* A bug a run must catch: a value that has no default is cached as a miss. *)
MutantLookup(k, v) ==
  LET aged == CheckCacheAge IN
  /\ v \in IF aged.cache[k] # NotCached THEN {aged.cache[k]} ELSE Found(k)
  /\ mCache' = [aged.cache EXCEPT ![k] = IF k \in DOMAIN Defaults THEN v ELSE Missing]
  /\ purged' = aged.age
  /\ UNCHANGED <<db, ago, writes>>

(* The value found is in the cache afterwards, be it that there is none.    *)
Lookup(k, v) ==
  LET aged == CheckCacheAge IN
  /\ v \in IF aged.cache[k] # NotCached THEN {aged.cache[k]} ELSE Found(k)
  /\ mCache' = [aged.cache EXCEPT ![k] = v]
  /\ purged' = aged.age
  /\ UNCHANGED <<db, ago, writes>>

Write(rows) ==
  /\ db' = rows
  /\ ago' = [k \in Keys |-> [ago[k] EXCEPT ![Meaning(rows, k)] = 0]]

Set(k, v) ==
  /\ Write([db EXCEPT ![k] = v])
  /\ mCache' = [mCache EXCEPT ![k] = v]
  /\ UNCHANGED purged

Remove(k) ==
  /\ Write([db EXCEPT ![k] = Missing])
  /\ mCache' = [mCache EXCEPT ![k] = NotCached]
  /\ UNCHANGED purged

Purge ==
  /\ mCache' = [k \in Keys |-> NotCached]
  /\ UNCHANGED <<db, purged, ago, writes>>

Bounded == writes < MaxWrites /\ writes' = writes + 1

(* Another program writes or deletes a row.                                 *)
OutsideWrite(k, v) ==
  /\ Bounded
  /\ Write([db EXCEPT ![k] = v])
  /\ UNCHANGED <<mCache, purged>>

Tick ==
  /\ purged' = Older(purged)
  /\ ago' = [k \in Keys |-> [v \in Results |->
               IF v = Meaning(db, k) THEN 0 ELSE Older(ago[k][v])]]
  /\ UNCHANGED <<db, mCache, writes>>

Use(k) ==
  \/ \E v \in Results : Lookup(k, v)
  \/ \E v \in Values : Bounded /\ Set(k, v)
  \/ Bounded /\ Remove(k)

-----------------------------------------------------------------------------
(* The variables are of their types.                                        *)
ConfigTypeOK ==
  /\ db \in [Keys -> Results]
  /\ mCache \in [Keys -> Results \cup {NotCached}]
  /\ purged \in Ages
  /\ ago \in [Keys -> [Results -> Ages]]
  /\ writes \in 0..MaxWrites

(* A lookup never returns what a key ceased to mean PurgePeriod seconds ago *)
(* or earlier, whoever changed it: that goes for all that is in the cache   *)
(* while lookups would still use it.                                        *)
FreshEnough ==
  purged < PurgePeriod =>
    \A k \in Keys : mCache[k] # NotCached => ago[k][mCache[k]] < PurgePeriod
=============================================================================
