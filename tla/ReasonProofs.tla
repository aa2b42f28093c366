------------------------------ MODULE ReasonProofs ------------------------------
(* Proofs about the two users of class Thread in reason-2.x, the agent and    *)
(* the server, for any number of threads, links and connections, and about    *)
(* the buffered stream, for any file, buffer and size of what is read,        *)
(* written and sought.                                                        *)
EXTENDS Reason, FiniteSetTheorems, SequenceTheorems, WellFoundedInduction, TLAPS

-----------------------------------------------------------------------------
(* The agent.                                                                 *)

Asleep == {w \in Workers : state[w] = "sleeping"}

(* The list of class Thread holds exactly the threads that run or could not   *)
(* be created, and none leaves it before the owner unlocks the sentinel.      *)
Registered ==
  /\ Sentinel <=> owner = "running"
  /\ owner = "gone" => List = {}
  /\ \A w \in Workers : w \in List <=> at[w] # "none"
  /\ \A w \in Workers : at[w] = "leave" => ~Sentinel

(* A thread has a link from Dequeue to the end of Process, and its state says *)
(* so; before it has looked for one it is not counted as sleeping either.     *)
StateTells == \A w \in Workers :
  /\ at[w] # "act" \/ state[w] # "processing" => link[w] = Nothing
  /\ Sentinel /\ at[w] \in {"none", "failed"} => state[w] = "initial"

(* Sleeping counts the threads whose last look at the queue found nothing.    *)
Counted == Sleeping = Cardinality(Asleep)

IInv == TypeOK /\ Registered /\ StateTells /\ Counted

-----------------------------------------------------------------------------
(* What a change of one thread's state does to the number of sleeping ones.   *)
LEMMA OneFallsAsleep ==
  ASSUME TypeOK, Counted, NEW w \in Workers, NEW s \in {"sleeping", "processing"},
         state' = [state EXCEPT ![w] = s]
  PROVE  /\ Sleeping \in Nat
         /\ Cardinality(Asleep') \in Nat
         /\ Cardinality(Asleep') =
              IF s = "sleeping"
                THEN IF state[w] = "sleeping" THEN Sleeping ELSE Sleeping + 1
                ELSE IF state[w] = "sleeping" THEN Sleeping - 1 ELSE Sleeping
<1>1. IsFiniteSet(Asleep)
  BY AgentAssumption, FS_Subset DEF Asleep
<1>2. CASE s = "sleeping"
  <2>1. Asleep' = Asleep \cup {w}
    BY <1>2 DEF Asleep, TypeOK
  <2>2. w \in Asleep <=> state[w] = "sleeping"
    BY DEF Asleep
  <2> QED BY <1>1, <1>2, <2>1, <2>2, FS_AddElement, FS_CardinalityType DEF Counted
<1>3. CASE s = "processing"
  <2>1. Asleep' = Asleep \ {w}
    BY <1>3 DEF Asleep, TypeOK
  <2>2. w \in Asleep <=> state[w] = "sleeping"
    BY DEF Asleep
  <2> QED BY <1>1, <1>3, <2>1, <2>2, FS_RemoveElement, FS_CardinalityType DEF Counted
<1> QED BY <1>2, <1>3

-----------------------------------------------------------------------------
(* A new agent has no thread, no link and nothing to count.                   *)
LEMMA InitInv == Init => IInv
<1> SUFFICES ASSUME Init PROVE IInv
  OBVIOUS
<1>1. TypeOK
  BY AgentAssumption DEF Init, TypeOK, LinkTypes, Nothing
<1>2. Asleep = {}
  BY DEF Init, Asleep
<1> QED
  BY <1>1, <1>2, FS_EmptySet DEF IInv, Init, Registered, StateTells, Counted

(* Every step of the owner and of a thread keeps types, list and states.      *)
LEMMA NextInv == IInv /\ [Next]_vars => IInv'
<1> SUFFICES ASSUME IInv, [Next]_vars PROVE IInv'
  OBVIOUS
<1> USE AgentAssumption
<1> USE DEF IInv, TypeOK, Goto
<1>1. ASSUME NEW w \in Workers, Start(w) PROVE IInv'
  <2>1. TypeOK'
    BY <1>1 DEF Start
  <2>2. Registered' /\ StateTells'
    BY <1>1 DEF Start, Registered, StateTells
  <2>3. Counted'
    BY <1>1 DEF Start, Counted, Asleep
  <2> QED BY <2>1, <2>2, <2>3
<1>2. ASSUME NEW w \in Workers, FallAsleep(w) PROVE IInv'
  <2>1. Sleeping' \in Nat /\ Counted'
    BY <1>2, OneFallsAsleep DEF FallAsleep, Counted
  <2>2. TypeOK'
    BY <1>2, <2>1 DEF FallAsleep
  <2>3. Registered' /\ StateTells'
    BY <1>2 DEF FallAsleep, Registered, StateTells
  <2> QED BY <2>1, <2>2, <2>3
<1>3. ASSUME NEW w \in Workers, Dequeue(w) PROVE IInv'
  <2>1. Sleeping' \in Nat /\ Counted'
    BY <1>3, OneFallsAsleep DEF Dequeue, Counted
  <2>2. PICK d \in Depths, l \in Links :
          /\ Queue' = [Queue EXCEPT ![d] = @ \ {l}] \/ Queue' = Queue
          /\ link' = [link EXCEPT ![w] = [depth |-> d, url |-> l]]
    BY <1>3 DEF Dequeue
  <2>3. Queue' \in [Depths -> SUBSET Links] /\ link' \in [Workers -> LinkTypes]
    BY <2>2 DEF LinkTypes
  <2>4. TypeOK'
    BY <1>3, <2>1, <2>3 DEF Dequeue
  <2>5. Registered' /\ StateTells'
    BY <1>3, <2>2 DEF Dequeue, Registered, StateTells
  <2> QED BY <2>1, <2>4, <2>5
<1>4. ASSUME NEW w \in Workers, NEW l \in Links, Follow(w, l) PROVE IInv'
  <2>1. Queue' \in [Depths -> SUBSET Links]
    BY <1>4 DEF Follow, Enqueue
  <2>2. TypeOK'
    BY <1>4, <2>1 DEF Follow
  <2> QED
    BY <1>4, <2>2 DEF Follow, Registered, StateTells, Counted, Asleep
<1>5. ASSUME NEW w \in Workers, Acted(w) PROVE IInv'
  <2>1. TypeOK'
    BY <1>5 DEF Acted, LinkTypes
  <2>2. Registered' /\ StateTells'
    BY <1>5 DEF Acted, Registered, StateTells
  <2>3. Counted'
    BY <1>5 DEF Acted, Counted, Asleep
  <2> QED BY <2>1, <2>2, <2>3
<1>6. ASSUME NEW w \in Workers, Leave(w) PROVE IInv'
  <2>1. TypeOK'
    BY <1>6 DEF Leave
  <2>2. Registered' /\ StateTells'
    BY <1>6 DEF Leave, Registered, StateTells
  <2>3. Counted'
    BY <1>6 DEF Leave, Counted, Asleep
  <2> QED BY <2>1, <2>2, <2>3
<1>7. ASSUME NEW l \in Links, OwnerEnqueue(l) PROVE IInv'
  <2>1. Queue' \in [Depths -> SUBSET Links]
    BY <1>7 DEF OwnerEnqueue, Enqueue
  <2>2. TypeOK'
    BY <1>7, <2>1 DEF OwnerEnqueue
  <2> QED
    BY <1>7, <2>2 DEF OwnerEnqueue, Registered, StateTells, Counted, Asleep
<1>8. ASSUME Stop PROVE IInv'
  BY <1>8 DEF Stop, Registered, StateTells, Counted, Asleep
<1>9. ASSUME Destroyed PROVE IInv'
  BY <1>9 DEF Destroyed, Registered, StateTells, Counted, Asleep
<1>10. ASSUME UNCHANGED vars PROVE IInv'
  BY <1>10 DEF vars, Registered, StateTells, Counted, Asleep
<1> QED
  BY <1>1, <1>2, <1>3, <1>4, <1>5, <1>6, <1>7, <1>8, <1>9, <1>10 DEF Next, Work

-----------------------------------------------------------------------------
(* The invariant of HttpAgent: Sleeping is the number of threads that found   *)
(* the queue empty when they looked last, though threads are started, sleep   *)
(* and leave in any order, and TypeOK goes with it.                           *)
THEOREM AgentInvariant == Spec => []IInv
BY InitInv, NextInv, PTL DEF Spec

(* What the invariant says of Active: when every thread in the list is asleep *)
(* none of them has a link.                                                   *)
LEMMA AllAsleep == IInv => InactiveIsDone
<1> SUFFICES ASSUME IInv, List # {}, ~Active, Sentinel PROVE Quiet
  BY DEF InactiveIsDone
<1>1. Asleep \subseteq List
  BY DEF IInv, StateTells, Registered, Asleep, TypeOK
<1>2. IsFiniteSet(List)
  BY AgentAssumption, FS_Subset DEF IInv, TypeOK
<1>3. Cardinality(List) \in Nat /\ Sleeping \in Nat /\ Cardinality(Asleep) <= Cardinality(List)
  BY <1>1, <1>2, FS_Subset, FS_CardinalityType DEF IInv, TypeOK
<1>4. Cardinality(List) = Cardinality(Asleep) /\ ~Has
  BY <1>3 DEF Active, IInv, Counted
<1>5. Asleep = List
  BY <1>1, <1>2, <1>4, FS_Subset
<1>6. ASSUME NEW w \in Workers PROVE link[w] = Nothing
  BY <1>5 DEF IInv, Registered, StateTells, Asleep
<1> QED BY <1>4, <1>6 DEF Quiet

(* An agent with threads that says it is not active is done: nothing is       *)
(* queued, nobody processes a link that could lead to more.                   *)
THEOREM InactiveAgentIsDone == Spec => []InactiveIsDone
BY AgentInvariant, AllAsleep, PTL

(* The destructor of the agent does not return while a thread uses it.        *)
THEOREM GoneAgentIsUnused == Spec => []GoneIsUnused
<1>1. IInv => GoneIsUnused
  BY DEF IInv, Registered, GoneIsUnused
<1> QED BY <1>1, AgentInvariant, PTL

-----------------------------------------------------------------------------
(* The server.                                                                *)

(* How many threads are at certain places: those whose connection is not yet  *)
(* counted, those that have one and have not passed the socket on, those that *)
(* have not decremented the count, and those that listen or will see to it.   *)
Number(f, places) == Cardinality({w \in ServerThreads : f[w] \in places})
Counts(place, places) == IF place \in places THEN 1 ELSE 0

ToCount  == {"add", "added"}
ToPass   == ToCount \cup {"accepted"}
ToListen == ToPass \cup {"listen"}
ToFinish == ToListen \cup {"process", "subtract", "subtracted"}

Uncounted  == Number(serverAt, ToCount)
Passing    == Number(serverAt, ToPass)
Listening  == Number(serverAt, ToListen)
Unfinished == Number(serverAt, ToFinish)

(* What the move of one thread adds to such a number.                         *)
Moved(w, place, places) == Counts(place, places) - Counts(serverAt[w], places)

(* What lost updates leave of the count: an increment adds to a count that    *)
(* was at most the number of connections counted so far, and a decrement      *)
(* takes from one that was at least minus the number of those made so far; a  *)
(* thread is started at the beginning and for every connection passed on.     *)
Highest == connections - Uncounted
Started == IF main = "startup" THEN 0 ELSE 1 + connections - Passing
Lowest  == Unfinished - Started
Within(x) == Lowest <= x /\ x <= Highest

ServerTypes ==
  /\ serverList \subseteq ServerThreads
  /\ serverAt \in [ServerThreads -> Server!Places]
  /\ read \in [ServerThreads -> Int]
  /\ ConnectionCount \in Int
  /\ serverSentinel \in BOOLEAN
  /\ main \in {"startup", "running", "stopping", "over"}
  /\ connections \in 0..MaxConnections
  /\ limited \in BOOLEAN

(* The list holds the threads there are; main starts with none and leaves     *)
(* when there is none any more.                                               *)
Enlisted ==
  /\ main = "running" => serverSentinel
  /\ main \in {"startup", "stopping"} => ~serverSentinel
  /\ main \in {"startup", "over"} => serverList = {}
  /\ \A w \in ServerThreads : w \in serverList <=> serverAt[w] # "none"

(* One thread at most listens or will see to it that another does; and one    *)
(* does, unless it could not be created or was one too many.                  *)
Passed ==
  /\ Listening <= 1
  /\ main = "running" => limited \/
       \E w \in ServerThreads : serverAt[w] \in ToListen \cup {"failed"}
  /\ main = "startup" => connections = 0

CountBounded ==
  /\ Within(ConnectionCount)
  /\ \A w \in ServerThreads :
       IF serverAt[w] \in {"added", "subtracted"} THEN Within(read[w]) ELSE read[w] = 0

ServerInv == ServerTypes /\ Enlisted /\ Passed /\ CountBounded

(* The server is an instance, which brings its own copy of the module of      *)
(* finite sets: its notions are those that the library's theorems are about.  *)
LEMMA SameFinite ==
  ASSUME Server!ServerAssumption
  PROVE  IsFiniteSet(ServerThreads)
BY DEF Server!ServerAssumption, Server!IsFiniteSet, IsFiniteSet

LEMMA SameCardinality == ASSUME NEW S PROVE Server!Cardinality(S) = Cardinality(S)
BY DEF Server!Cardinality, Cardinality

(* A thread that goes to another place changes the numbers by one at most.    *)
LEMMA OneMoves ==
  IsFiniteSet(ServerThreads) =>
    \A f \in [ServerThreads -> Server!Places], w \in ServerThreads,
       place \in Server!Places, places \in SUBSET Server!Places :
      LET g == [f EXCEPT ![w] = place] IN
      Number(g, places) = Number(f, places) + Counts(place, places) - Counts(f[w], places)
<1> SUFFICES ASSUME IsFiniteSet(ServerThreads), NEW f \in [ServerThreads -> Server!Places],
                    NEW w \in ServerThreads, NEW place \in Server!Places,
                    NEW places \in SUBSET Server!Places
             PROVE  Number([f EXCEPT ![w] = place], places) =
                      Number(f, places) + Counts(place, places) - Counts(f[w], places)
  OBVIOUS
<1> DEFINE g == [f EXCEPT ![w] = place]
           F == {v \in ServerThreads : f[v] \in places}
           G == {v \in ServerThreads : g[v] \in places}
<1>1. IsFiniteSet(F) /\ Cardinality(F) \in Nat
  BY FS_Subset, FS_CardinalityType
<1>2. CASE place \in places
  <2>1. G = F \cup {w}
    BY <1>2
  <2>2. Cardinality(G) = IF w \in F THEN Cardinality(F) ELSE Cardinality(F) + 1
    <3> HIDE DEF F, G
    <3> QED BY <1>1, <2>1, FS_AddElement
  <2> QED BY <1>1, <1>2, <2>2 DEF Number, Counts
<1>3. CASE place \notin places
  <2>1. G = F \ {w}
    BY <1>3
  <2>2. Cardinality(G) = IF w \in F THEN Cardinality(F) - 1 ELSE Cardinality(F)
    <3> HIDE DEF F, G
    <3> QED BY <1>1, <2>1, FS_RemoveElement
  <2> QED BY <1>1, <1>3, <2>2 DEF Number, Counts
<1> QED BY <1>2, <1>3

LEMMA NumbersAreNaturals ==
  ASSUME IsFiniteSet(ServerThreads), ServerTypes
  PROVE  Uncounted \in Nat /\ Passing \in Nat /\ Unfinished \in Nat /\ Listening \in Nat
<1>1. \A places : Number(serverAt, places) \in Nat
  BY FS_Subset, FS_CardinalityType DEF Number
<1> QED BY <1>1 DEF Uncounted, Passing, Unfinished, Listening, ToCount, ToPass, ToListen, ToFinish,
                        Server!Places

(* The same for the numbers the invariant speaks of.                          *)
LEMMA NumbersMove ==
  ASSUME IsFiniteSet(ServerThreads), ServerTypes, NEW w \in ServerThreads,
         NEW place \in Server!Places, serverAt' = [serverAt EXCEPT ![w] = place]
  PROVE  /\ Uncounted' = Uncounted + Moved(w, place, ToCount)
         /\ Passing' = Passing + Moved(w, place, ToPass)
         /\ Unfinished' = Unfinished + Moved(w, place, ToFinish)
         /\ Listening' = Listening + Moved(w, place, ToListen)
<1>1. ASSUME NEW places \in SUBSET Server!Places
      PROVE  Number(serverAt', places) = Number(serverAt, places)
                            + Counts(place, places) - Counts(serverAt[w], places)
  <2>1. serverAt \in [ServerThreads -> Server!Places]
    BY DEF ServerTypes
  <2> QED BY <2>1, OneMoves
<1> QED BY <1>1 DEF Moved, Uncounted, Passing, Unfinished, Listening, ToCount, ToPass, ToListen, ToFinish,
                        Server!Places

(* Bounds that only widen, by one for the thread that updates the count, hold *)
(* what was within them.                                                      *)
LEMMA BoundsWiden ==
  ASSUME ServerTypes, Lowest \in Int, Highest \in Int, Lowest' \in Int, Highest' \in Int,
         Lowest' <= Lowest, Highest <= Highest', NEW x \in Int, Within(x)
  PROVE  Lowest' <= x /\ x <= Highest'
BY DEF Within

LEMMA BoundsAreIntegers ==
  ASSUME IsFiniteSet(ServerThreads), MaxConnections \in Nat, ServerTypes
  PROVE  Lowest \in Int /\ Highest \in Int
BY NumbersAreNaturals DEF ServerTypes, Lowest, Highest, Started

(* Two threads go to other places: one passes the socket on to one it starts. *)
LEMMA TwoMove ==
  IsFiniteSet(ServerThreads) =>
    \A f \in [ServerThreads -> Server!Places], w, v \in ServerThreads, p, q \in Server!Places,
       places \in SUBSET Server!Places :
      v # w =>
        LET g == [[f EXCEPT ![w] = p] EXCEPT ![v] = q] IN
        Number(g, places) = Number(f, places) + Counts(p, places) - Counts(f[w], places)
                                              + Counts(q, places) - Counts(f[v], places)
<1> SUFFICES ASSUME IsFiniteSet(ServerThreads), NEW f \in [ServerThreads -> Server!Places],
                    NEW w \in ServerThreads, NEW v \in ServerThreads,
                    NEW p \in Server!Places, NEW q \in Server!Places,
                    NEW places \in SUBSET Server!Places, v # w
             PROVE  Number([[f EXCEPT ![w] = p] EXCEPT ![v] = q], places) =
                      Number(f, places) + Counts(p, places) - Counts(f[w], places)
                                        + Counts(q, places) - Counts(f[v], places)
  OBVIOUS
<1>0. PICK h : h = [f EXCEPT ![w] = p]
  OBVIOUS
<1>1. h \in [ServerThreads -> Server!Places] /\ h[v] = f[v]
  BY <1>0
<1>2. Number(h, places) = Number(f, places) + Counts(p, places) - Counts(f[w], places)
  BY <1>0, OneMoves
<1>3. Number([h EXCEPT ![v] = q], places)
        = Number(h, places) + Counts(q, places) - Counts(h[v], places)
  BY <1>1, OneMoves
<1> QED BY <1>0, <1>1, <1>2, <1>3

LEMMA NumbersMoveTwice ==
  ASSUME IsFiniteSet(ServerThreads), ServerTypes, NEW w \in ServerThreads,
         NEW v \in ServerThreads, v # w, NEW p \in Server!Places, NEW q \in Server!Places,
         serverAt' = [[serverAt EXCEPT ![w] = p] EXCEPT ![v] = q]
  PROVE  /\ Uncounted' = Uncounted + (Moved(w, p, ToCount) + Moved(v, q, ToCount))
         /\ Passing' = Passing + (Moved(w, p, ToPass) + Moved(v, q, ToPass))
         /\ Unfinished' = Unfinished + (Moved(w, p, ToFinish) + Moved(v, q, ToFinish))
         /\ Listening' = Listening + (Moved(w, p, ToListen) + Moved(v, q, ToListen))
<1>1. ASSUME NEW places \in SUBSET Server!Places
      PROVE  Number(serverAt', places) = Number(serverAt, places)
                            + Counts(p, places) - Counts(serverAt[w], places)
                            + Counts(q, places) - Counts(serverAt[v], places)
  <2>1. serverAt \in [ServerThreads -> Server!Places]
    BY DEF ServerTypes
  <2> QED BY <2>1, TwoMove
<1>2. ASSUME NEW places \in SUBSET Server!Places, NEW n \in Nat
      PROVE  n + Counts(p, places) - Counts(serverAt[w], places)
               + Counts(q, places) - Counts(serverAt[v], places)
           = n + (Moved(w, p, places) + Moved(v, q, places))
  BY DEF Counts, Moved
<1>3. Uncounted \in Nat /\ Passing \in Nat /\ Unfinished \in Nat /\ Listening \in Nat
  BY NumbersAreNaturals
<1>4. ASSUME NEW places \in SUBSET Server!Places, Number(serverAt, places) \in Nat
      PROVE  Number(serverAt', places) = Number(serverAt, places)
                            + (Moved(w, p, places) + Moved(v, q, places))
  <2>1. Number(serverAt', places) = Number(serverAt, places)
                            + Counts(p, places) - Counts(serverAt[w], places)
                            + Counts(q, places) - Counts(serverAt[v], places)
    BY <1>1
  <2> QED BY <1>2, <1>4, <2>1
<1> QED BY <1>3, <1>4 DEF Uncounted, Passing, Unfinished, Listening, ToCount, ToPass, ToListen, ToFinish,
                        Server!Places

(* No step gives a variable a value of another type.                          *)
LEMMA ServerTypesKept ==
  ASSUME Server!ServerAssumption, ServerTypes, Server!Next
  PROVE  ServerTypes'
<1> USE DEF ServerTypes, Server!Places, Server!Goto
<1>1. ASSUME NEW w \in ServerThreads, Server!Startup(w) PROVE ServerTypes'
  BY <1>1 DEF Server!Startup, Server!Start, Server!Created
<1>2. ASSUME NEW w \in ServerThreads, Server!Connect(w) PROVE ServerTypes'
  BY <1>2 DEF Server!Connect, Server!ServerAssumption
<1>3. ASSUME NEW w \in ServerThreads, Server!GiveUp(w) PROVE ServerTypes'
  BY <1>3 DEF Server!GiveUp
<1>4. ASSUME NEW w \in ServerThreads, Server!ReadCount(w) PROVE ServerTypes'
  BY <1>4 DEF Server!ReadCount
<1>5. ASSUME NEW w \in ServerThreads, Server!Increment(w) \/ Server!Decrement(w)
      PROVE  ServerTypes'
  BY <1>5 DEF Server!Increment, Server!Decrement
<1>6. ASSUME NEW w \in ServerThreads, Server!PassOn(w) PROVE ServerTypes'
  BY <1>6 DEF Server!PassOn, Server!Start, Server!Created
<1>7. ASSUME NEW w \in ServerThreads, Server!Process(w) \/ Server!Leave(w) PROVE ServerTypes'
  BY <1>7 DEF Server!Process, Server!Leave
<1>8. CASE Server!Shutdown \/ Server!Return
  BY <1>8 DEF Server!Shutdown, Server!Return
<1> QED
  BY <1>1, <1>2, <1>3, <1>4, <1>5, <1>6, <1>7, <1>8 DEF Server!Next, Server!Work

LEMMA EnlistedKept ==
  ASSUME ServerTypes, Enlisted, Server!Next
  PROVE  Enlisted'
<1> USE DEF ServerTypes, Server!Places, Server!Goto, Enlisted
<1>1. ASSUME NEW w \in ServerThreads, Server!Startup(w) PROVE Enlisted'
  BY <1>1 DEF Server!Startup, Server!Start, Server!Created
<1>2. ASSUME NEW w \in ServerThreads, Server!Connect(w) PROVE Enlisted'
  BY <1>2 DEF Server!Connect
<1>3. ASSUME NEW w \in ServerThreads, Server!GiveUp(w) PROVE Enlisted'
  BY <1>3 DEF Server!GiveUp
<1>4. ASSUME NEW w \in ServerThreads, Server!ReadCount(w) PROVE Enlisted'
  BY <1>4 DEF Server!ReadCount
<1>5. ASSUME NEW w \in ServerThreads, Server!Increment(w) \/ Server!Decrement(w)
      PROVE  Enlisted'
  BY <1>5 DEF Server!Increment, Server!Decrement
<1>6. ASSUME NEW w \in ServerThreads, Server!PassOn(w) PROVE Enlisted'
  <2>1. CASE serverList' = serverList /\ \E place \in {"process", "subtract"} :
               serverAt' = [serverAt EXCEPT ![w] = place]
    BY <1>6, <2>1 DEF Server!PassOn
  <2>2. ASSUME NEW v \in ServerThreads, NEW place \in {"listen", "failed"},
               v \notin serverList, serverList' = serverList \cup {v},
               serverAt' = [[serverAt EXCEPT ![w] = "process"] EXCEPT ![v] = place]
        PROVE  Enlisted'
    BY <1>6, <2>2 DEF Server!PassOn
  <2> QED BY <1>6, <2>1, <2>2 DEF Server!PassOn, Server!Start, Server!Created
<1>7. ASSUME NEW w \in ServerThreads, Server!Process(w) \/ Server!Leave(w) PROVE Enlisted'
  BY <1>7 DEF Server!Process, Server!Leave
<1>8. CASE Server!Shutdown \/ Server!Return
  BY <1>8 DEF Server!Shutdown, Server!Return
<1> QED
  BY <1>1, <1>2, <1>3, <1>4, <1>5, <1>6, <1>7, <1>8 DEF Server!Next, Server!Work

(* Bounds that only widen hold every count that was read within them.         *)
LEMMA CountKept ==
  ASSUME ServerTypes, ServerTypes', CountBounded,
         Lowest \in Int, Highest \in Int, Lowest' \in Int, Highest' \in Int,
         Lowest' <= Lowest, Highest <= Highest',
         ConnectionCount' = ConnectionCount \/ Within(ConnectionCount)',
         \A w \in ServerThreads :
           IF serverAt'[w] \in {"added", "subtracted"}
             THEN \/ serverAt'[w] = serverAt[w] /\ read'[w] = read[w]
                  \/ read'[w] = ConnectionCount
             ELSE \/ read'[w] = 0
                  \/ read'[w] = read[w] /\ serverAt[w] \notin {"added", "subtracted"}
  PROVE  CountBounded'
<1>1. ASSUME NEW x \in Int, Within(x) PROVE Lowest' <= x /\ x <= Highest'
  BY <1>1, BoundsWiden
<1>2. Within(ConnectionCount)'
  BY <1>1 DEF CountBounded, Within, ServerTypes
<1>3. ASSUME NEW w \in ServerThreads, serverAt'[w] \in {"added", "subtracted"}
      PROVE  Within(read[w])'
  <2>1. read'[w] \in Int /\ Within(read'[w])
    BY <1>3 DEF CountBounded, Within, ServerTypes
  <2> QED BY <1>1, <2>1 DEF Within
<1>4. ASSUME NEW w \in ServerThreads, serverAt'[w] \notin {"added", "subtracted"}
      PROVE  read'[w] = 0
  BY <1>4 DEF CountBounded
<1> QED BY <1>2, <1>3, <1>4 DEF CountBounded

(* Before the first thread is started there is nobody anywhere.               *)
LEMMA NobodyAtStart ==
  ASSUME ServerTypes, \A w \in ServerThreads : serverAt[w] = "none"
  PROVE  Uncounted = 0 /\ Passing = 0 /\ Unfinished = 0 /\ Listening = 0
<1>1. \A places : "none" \notin places => {w \in ServerThreads : serverAt[w] \in places} = {}
  OBVIOUS
<1> QED
  BY <1>1, FS_EmptySet
  DEF Uncounted, Passing, Unfinished, Listening, Number, ToCount, ToPass, ToListen, ToFinish

(* The steps of a thread keep one listener at most, do not lose it while the  *)
(* program runs, and keep every count within the bounds.                      *)
LEMMA StartupKeeps ==
  ASSUME Server!ServerAssumption, ServerInv, ServerTypes', NEW w \in ServerThreads,
         Server!Startup(w)
  PROVE  Passed' /\ CountBounded'
<1> USE DEF ServerInv, Server!ServerAssumption
<1>1. PICK place \in {"listen", "failed"} : serverAt' = [serverAt EXCEPT ![w] = place]
  BY DEF Server!Startup, Server!Created
<1>2. /\ \A v \in ServerThreads : serverAt[v] = "none"
      /\ connections = 0 /\ connections' = 0 /\ main = "startup" /\ main' = "running"
      /\ read' = read /\ ConnectionCount' = ConnectionCount
  BY DEF Server!Startup, Enlisted, Passed
<1>3. Uncounted = 0 /\ Passing = 0 /\ Unfinished = 0 /\ Listening = 0
  BY <1>2, NobodyAtStart
<1>4. Uncounted' = 0 /\ Passing' = 0 /\ Unfinished' \in {0, 1} /\ Listening' \in {0, 1}
  <2>1. place \in Server!Places /\ serverAt[w] = "none" /\ IsFiniteSet(ServerThreads)
    BY <1>2, SameFinite DEF Server!Places
  <2>2. /\ Uncounted' = Uncounted + Moved(w, place, ToCount)
        /\ Passing' = Passing + Moved(w, place, ToPass)
        /\ Unfinished' = Unfinished + Moved(w, place, ToFinish)
        /\ Listening' = Listening + Moved(w, place, ToListen)
    BY <1>1, <2>1, NumbersMove
  <2> QED
    BY <1>1, <1>3, <2>1, <2>2
    DEF Counts, Moved, ToCount, ToPass, ToListen, ToFinish
<1>5. Lowest = 0 /\ Highest = 0 /\ Lowest' \in {-1, 0} /\ Highest' = 0
  BY <1>2, <1>3, <1>4 DEF Lowest, Highest, Started
<1>6. \A v \in ServerThreads : serverAt'[v] \notin {"added", "subtracted"}
  BY <1>1, <1>2 DEF ServerTypes
<1>7. CountBounded'
  BY <1>2, <1>5, <1>6, CountKept
<1>8. Passed'
  BY <1>1, <1>2, <1>4 DEF Passed, ServerTypes, ToListen
<1> QED BY <1>7, <1>8

(* What the move of a thread that was started does to the bounds.             *)
LEMMA BoundsMove ==
  ASSUME Server!ServerAssumption, ServerInv, ServerTypes', main' = main,
         NEW w \in ServerThreads, NEW place \in Server!Places,
         serverAt[w] # "none", serverAt' = [serverAt EXCEPT ![w] = place]
  PROVE  /\ main # "startup" /\ main # "over"
         /\ Lowest \in Int /\ Lowest' \in Int /\ Highest \in Int /\ Highest' \in Int
         /\ Listening \in Nat /\ Listening' = Listening + Moved(w, place, ToListen)
         /\ Highest' = Highest + (connections' - connections) - Moved(w, place, ToCount)
         /\ Lowest' = Lowest - (connections' - connections) + Moved(w, place, ToFinish)
                             + Moved(w, place, ToPass)
<1> USE DEF ServerInv
<1>1. IsFiniteSet(ServerThreads) /\ MaxConnections \in Nat
  BY SameFinite DEF Server!ServerAssumption
<1>2. main # "startup" /\ main # "over"
  BY DEF Enlisted
<1>3. /\ Uncounted' = Uncounted + Moved(w, place, ToCount)
      /\ Passing' = Passing + Moved(w, place, ToPass)
      /\ Unfinished' = Unfinished + Moved(w, place, ToFinish)
      /\ Listening' = Listening + Moved(w, place, ToListen)
  BY <1>1, NumbersMove
<1>4. Uncounted \in Nat /\ Passing \in Nat /\ Unfinished \in Nat /\ Listening \in Nat
  BY <1>1, NumbersAreNaturals
<1>5. \A places \in {ToCount, ToPass, ToFinish, ToListen} : Moved(w, place, places) \in Int
  BY DEF Moved, Counts
<1>6. connections \in Int /\ connections' \in Int
  BY <1>1 DEF ServerTypes
<1> QED
  BY <1>2, <1>3, <1>4, <1>5, <1>6 DEF Lowest, Highest, Started

(* The steps of one thread.                                                   *)
LEMMA ThreadKeeps ==
  ASSUME Server!ServerAssumption, ServerInv, ServerTypes', NEW w \in ServerThreads,
         \/ Server!Connect(w) \/ Server!GiveUp(w) \/ Server!ReadCount(w)
         \/ Server!Increment(w) \/ Server!Process(w) \/ Server!Decrement(w) \/ Server!Leave(w)
  PROVE  Passed' /\ CountBounded'
<1> USE DEF ServerInv, Server!Goto
<1> DEFINE Bounds(place) ==
      /\ main # "startup" /\ main # "over"
      /\ Lowest \in Int /\ Lowest' \in Int /\ Highest \in Int /\ Highest' \in Int
      /\ Listening \in Nat /\ Listening' = Listening + Moved(w, place, ToListen)
      /\ Highest' = Highest + (connections' - connections) - Moved(w, place, ToCount)
      /\ Lowest' = Lowest - (connections' - connections) + Moved(w, place, ToFinish)
                          + Moved(w, place, ToPass)
<1>1. ASSUME NEW place \in Server!Places, serverAt[w] # "none", main' = main,
             serverAt' = [serverAt EXCEPT ![w] = place]
      PROVE  Bounds(place)
  BY <1>1, BoundsMove
<1> HIDE DEF Bounds
<1>2. CASE Server!Connect(w)
  <2>1. /\ serverAt[w] = "listen" /\ serverAt' = [serverAt EXCEPT ![w] = "add"]
        /\ read' = read /\ ConnectionCount' = ConnectionCount
        /\ main' = main /\ limited' = limited
        /\ connections' = connections + 1 /\ connections \in Int
    BY <1>2 DEF Server!Connect, ServerTypes, Server!ServerAssumption
  <2>2. Bounds("add")
    BY <1>1, <2>1 DEF Server!Places
  <2>3. Lowest' = Lowest /\ Highest' = Highest /\ Listening' = Listening
    BY <2>1, <2>2 DEF Bounds, Moved, Counts, ToCount, ToPass, ToListen, ToFinish
  <2>4. CountBounded'
    BY <2>1, <2>2, <2>3, CountKept DEF Bounds, ServerTypes, CountBounded
  <2>5. Passed'
    BY <2>1, <2>2, <2>3 DEF Bounds, Passed, ServerTypes, ToListen, ToPass, ToCount
  <2> QED BY <2>4, <2>5
<1>3. CASE Server!Process(w)
  <2>1. /\ serverAt[w] = "process" /\ serverAt' = [serverAt EXCEPT ![w] = "subtract"]
        /\ read' = read /\ ConnectionCount' = ConnectionCount
        /\ main' = main /\ limited' = limited /\ connections' = connections
    BY <1>3 DEF Server!Process, ServerTypes
  <2>2. Bounds("subtract")
    BY <1>1, <2>1 DEF Server!Places
  <2>3. Lowest' = Lowest /\ Highest' = Highest /\ Listening' = Listening
    BY <2>1, <2>2
    DEF Bounds, Moved, Counts, ToCount, ToPass, ToListen, ToFinish, ServerTypes
  <2>4. CountBounded'
    BY <2>1, <2>2, <2>3, CountKept DEF Bounds, ServerTypes, CountBounded
  <2>5. Passed'
    BY <2>1, <2>2, <2>3 DEF Bounds, Passed, ServerTypes, ToListen, ToPass, ToCount
  <2> QED BY <2>4, <2>5
<1>4. CASE Server!Leave(w)
  <2>1. /\ serverAt[w] = "leave" /\ serverAt' = [serverAt EXCEPT ![w] = "none"]
        /\ read' = read /\ ConnectionCount' = ConnectionCount
        /\ main' = main /\ limited' = limited /\ connections' = connections
    BY <1>4 DEF Server!Leave, ServerTypes
  <2>2. Bounds("none")
    BY <1>1, <2>1 DEF Server!Places
  <2>3. Lowest' = Lowest /\ Highest' = Highest /\ Listening' = Listening
    BY <2>1, <2>2
    DEF Bounds, Moved, Counts, ToCount, ToPass, ToListen, ToFinish, ServerTypes
  <2>4. CountBounded'
    BY <2>1, <2>2, <2>3, CountKept DEF Bounds, ServerTypes, CountBounded
  <2>5. Passed'
    BY <2>1, <2>2, <2>3 DEF Bounds, Passed, ServerTypes, ToListen, ToPass, ToCount
  <2> QED BY <2>4, <2>5
<1>5. CASE Server!GiveUp(w)
  <2>1. /\ serverAt[w] = "listen" /\ serverAt' = [serverAt EXCEPT ![w] = "subtract"]
        /\ read' = read /\ ConnectionCount' = ConnectionCount /\ ~serverSentinel
        /\ main' = main /\ limited' = limited /\ connections' = connections
    BY <1>5 DEF Server!GiveUp, ServerTypes
  <2>2. Bounds("subtract")
    BY <1>1, <2>1 DEF Server!Places
  <2>3. Lowest' = Lowest /\ Highest' = Highest /\ Listening' = Listening - 1
    BY <2>1, <2>2
    DEF Bounds, Moved, Counts, ToCount, ToPass, ToListen, ToFinish, ServerTypes
  <2>4. CountBounded'
    BY <2>1, <2>2, <2>3, CountKept DEF Bounds, ServerTypes, CountBounded
  <2>5. Passed'
    BY <2>1, <2>2, <2>3 DEF Bounds, Passed, Enlisted, ServerTypes, ToListen, ToPass, ToCount
  <2> QED BY <2>4, <2>5
<1>6. CASE Server!Increment(w)
  <2>1. /\ serverAt[w] = "added" /\ serverAt' = [serverAt EXCEPT ![w] = "accepted"]
        /\ read' = [read EXCEPT ![w] = 0] /\ ConnectionCount' = read[w] + 1
        /\ main' = main /\ limited' = limited /\ connections' = connections
    BY <1>6 DEF Server!Increment, ServerTypes
  <2>2. Bounds("accepted")
    BY <1>1, <2>1 DEF Server!Places
  <2>3. Lowest' = Lowest /\ Highest' = Highest + 1 /\ Listening' = Listening
    BY <2>1, <2>2
    DEF Bounds, Moved, Counts, ToCount, ToPass, ToListen, ToFinish, ServerTypes
  <2>4. CountBounded'
    <3>1. Within(ConnectionCount)'
      BY <2>1, <2>2, <2>3 DEF Bounds, CountBounded, Within, ServerTypes
    <3> QED BY <2>1, <2>2, <2>3, <3>1, CountKept DEF Bounds, ServerTypes, CountBounded
  <2>5. Passed'
    BY <2>1, <2>2, <2>3 DEF Bounds, Passed, ServerTypes, ToListen, ToPass, ToCount
  <2> QED BY <2>4, <2>5
<1>7. CASE Server!Decrement(w)
  <2>1. /\ serverAt[w] = "subtracted" /\ serverAt' = [serverAt EXCEPT ![w] = "leave"]
        /\ read' = [read EXCEPT ![w] = 0] /\ ConnectionCount' = read[w] - 1
        /\ main' = main /\ limited' = limited /\ connections' = connections
    BY <1>7 DEF Server!Decrement, ServerTypes
  <2>2. Bounds("leave")
    BY <1>1, <2>1 DEF Server!Places
  <2>3. Lowest' = Lowest - 1 /\ Highest' = Highest /\ Listening' = Listening
    BY <2>1, <2>2
    DEF Bounds, Moved, Counts, ToCount, ToPass, ToListen, ToFinish, ServerTypes
  <2>4. CountBounded'
    <3>1. Within(ConnectionCount)'
      BY <2>1, <2>2, <2>3 DEF Bounds, CountBounded, Within, ServerTypes
    <3> QED BY <2>1, <2>2, <2>3, <3>1, CountKept DEF Bounds, ServerTypes, CountBounded
  <2>5. Passed'
    BY <2>1, <2>2, <2>3 DEF Bounds, Passed, ServerTypes, ToListen, ToPass, ToCount
  <2> QED BY <2>4, <2>5
<1>8. CASE Server!ReadCount(w) /\ serverAt[w] = "add"
  <2>1. /\ serverAt[w] = "add" /\ serverAt' = [serverAt EXCEPT ![w] = "added"]
        /\ read' = [read EXCEPT ![w] = ConnectionCount]
        /\ ConnectionCount' = ConnectionCount
        /\ main' = main /\ limited' = limited /\ connections' = connections
    BY <1>8 DEF Server!ReadCount, ServerTypes
  <2>2. Bounds("added")
    BY <1>1, <2>1 DEF Server!Places
  <2>3. Lowest' = Lowest /\ Highest' = Highest /\ Listening' = Listening
    BY <2>1, <2>2
    DEF Bounds, Moved, Counts, ToCount, ToPass, ToListen, ToFinish, ServerTypes
  <2>4. CountBounded'
    BY <2>1, <2>2, <2>3, CountKept DEF Bounds, ServerTypes, CountBounded
  <2>5. Passed'
    BY <2>1, <2>2, <2>3 DEF Bounds, Passed, ServerTypes, ToListen, ToPass, ToCount
  <2> QED BY <2>4, <2>5
<1>9. CASE Server!ReadCount(w) /\ serverAt[w] = "subtract"
  <2>1. /\ serverAt[w] = "subtract" /\ serverAt' = [serverAt EXCEPT ![w] = "subtracted"]
        /\ read' = [read EXCEPT ![w] = ConnectionCount]
        /\ ConnectionCount' = ConnectionCount
        /\ main' = main /\ limited' = limited /\ connections' = connections
    BY <1>9 DEF Server!ReadCount, ServerTypes
  <2>2. Bounds("subtracted")
    BY <1>1, <2>1 DEF Server!Places
  <2>3. Lowest' = Lowest /\ Highest' = Highest /\ Listening' = Listening
    BY <2>1, <2>2
    DEF Bounds, Moved, Counts, ToCount, ToPass, ToListen, ToFinish, ServerTypes
  <2>4. CountBounded'
    BY <2>1, <2>2, <2>3, CountKept DEF Bounds, ServerTypes, CountBounded
  <2>5. Passed'
    BY <2>1, <2>2, <2>3 DEF Bounds, Passed, ServerTypes, ToListen, ToPass, ToCount
  <2> QED BY <2>4, <2>5
<1> QED
  BY <1>2, <1>3, <1>4, <1>5, <1>6, <1>7, <1>8, <1>9 DEF Server!ReadCount

(* A thread that has accepted and does not start another one.                 *)
LEMMA DropKeeps ==
  ASSUME Server!ServerAssumption, ServerInv, ServerTypes', NEW w \in ServerThreads,
         NEW place \in {"process", "subtract"},
         serverAt[w] = "accepted", serverAt' = [serverAt EXCEPT ![w] = place],
         read' = read, ConnectionCount' = ConnectionCount, main' = main,
         connections' = connections, serverSentinel => limited', limited => limited'
  PROVE  Passed' /\ CountBounded'
<1> USE DEF ServerInv
<1>1. place \in Server!Places
  BY DEF Server!Places
<1>2. /\ main # "startup" /\ main # "over"
      /\ Lowest \in Int /\ Lowest' \in Int /\ Highest \in Int /\ Highest' \in Int
      /\ Listening \in Nat /\ Listening' = Listening + Moved(w, place, ToListen)
      /\ Highest' = Highest + (connections' - connections) - Moved(w, place, ToCount)
      /\ Lowest' = Lowest - (connections' - connections) + Moved(w, place, ToFinish)
                          + Moved(w, place, ToPass)
  BY <1>1, BoundsMove
<1>3. Lowest' = Lowest - 1 /\ Highest' = Highest /\ Listening' = Listening - 1
  BY <1>2 DEF Moved, Counts, ToCount, ToPass, ToListen, ToFinish, ServerTypes
<1>4. CountBounded'
  BY <1>2, <1>3, CountKept DEF ServerTypes, CountBounded
<1>5. Passed'
  BY <1>2, <1>3 DEF Passed, Enlisted, ServerTypes
<1> QED BY <1>4, <1>5

(* One that starts the next one, or tries to.                                 *)
LEMMA PassOnKeeps ==
  ASSUME Server!ServerAssumption, ServerInv, ServerTypes', NEW w \in ServerThreads,
         NEW v \in ServerThreads, NEW place \in {"listen", "failed"},
         serverAt[w] = "accepted", v \notin serverList,
         serverAt' = [[serverAt EXCEPT ![w] = "process"] EXCEPT ![v] = place],
         read' = read, ConnectionCount' = ConnectionCount, main' = main,
         connections' = connections, limited' = limited
  PROVE  Passed' /\ CountBounded'
<1> USE DEF ServerInv
<1>1. /\ v # w /\ serverAt[v] = "none" /\ main # "startup"
      /\ IsFiniteSet(ServerThreads) /\ connections \in Int
      /\ "process" \in Server!Places /\ place \in Server!Places
  BY SameFinite DEF Enlisted, Server!Places, ServerTypes, Server!ServerAssumption
<1>2. /\ Uncounted' = Uncounted + (Moved(w, "process", ToCount) + Moved(v, place, ToCount))
      /\ Passing' = Passing + (Moved(w, "process", ToPass) + Moved(v, place, ToPass))
      /\ Unfinished' = Unfinished + (Moved(w, "process", ToFinish) + Moved(v, place, ToFinish))
      /\ Listening' = Listening + (Moved(w, "process", ToListen) + Moved(v, place, ToListen))
  BY <1>1, NumbersMoveTwice
<1>3. Uncounted \in Nat /\ Passing \in Nat /\ Unfinished \in Nat /\ Listening \in Nat
  BY <1>1, NumbersAreNaturals
<1>4. /\ Uncounted' = Uncounted /\ Passing' = Passing - 1
      /\ Unfinished' <= Unfinished + 1 /\ Unfinished' \in Int
      /\ Listening' \in {Listening - 1, Listening}
  BY <1>1, <1>2, <1>3 DEF Moved, Counts, ToCount, ToPass, ToListen, ToFinish
<1>5. /\ Lowest \in Int /\ Lowest' \in Int /\ Highest \in Int /\ Highest' \in Int
      /\ Lowest' <= Lowest /\ Highest' = Highest
  <2>1. Started = 1 + connections - Passing /\ Started' = 1 + connections - Passing'
    BY <1>1 DEF Started
  <2>2. Started \in Int /\ Started' = Started + 1
    BY <1>1, <1>3, <1>4, <2>1
  <2>3. Lowest = Unfinished - Started /\ Lowest' = Unfinished' - Started'
    BY DEF Lowest
  <2>4. Highest \in Int /\ Highest' = Highest
    BY <1>1, <1>3, <1>4 DEF Highest
  <2>5. Lowest \in Int /\ Lowest' \in Int /\ Lowest' <= Lowest
    <3>1. \A a, b, c \in Int : b <= a + 1 => b - (c + 1) <= a - c
      OBVIOUS
    <3>2. Unfinished \in Int /\ Unfinished' \in Int /\ Unfinished' <= Unfinished + 1
      BY <1>3, <1>4
    <3>3. Unfinished' - (Started + 1) <= Unfinished - Started
      BY <2>2, <3>1, <3>2
    <3>4. Lowest' = Unfinished' - (Started + 1)
      BY <2>2, <2>3
    <3>5. Lowest = Unfinished - Started
      BY <2>3
    <3>6. Lowest \in Int /\ Lowest' \in Int
      BY <2>2, <3>2, <3>4, <3>5
    <3>7. Lowest' <= Lowest
      BY <3>3, <3>4, <3>5
    <3> QED BY <3>6, <3>7
  <2> QED BY <2>4, <2>5
<1>6. CountBounded'
  BY <1>1, <1>5, CountKept DEF ServerTypes, CountBounded
<1>7. Passed'
  BY <1>1, <1>3, <1>4 DEF Passed, ServerTypes, ToListen
<1> QED BY <1>6, <1>7

(* Every step of the server keeps the invariant.                              *)
LEMMA ServerStep ==
  ASSUME Server!ServerAssumption, ServerInv, Server!Next
  PROVE  ServerInv'
<1>1. ServerTypes' /\ Enlisted'
  BY ServerTypesKept, EnlistedKept DEF ServerInv
<1>2. ASSUME NEW w \in ServerThreads, Server!Startup(w) PROVE Passed' /\ CountBounded'
  BY <1>1, <1>2, StartupKeeps
<1>3. ASSUME NEW w \in ServerThreads, Server!Connect(w) PROVE Passed' /\ CountBounded'
  BY <1>1, <1>3, ThreadKeeps
<1>4. ASSUME NEW w \in ServerThreads, Server!PassOn(w) PROVE Passed' /\ CountBounded'
  <2>1. /\ serverAt[w] = "accepted" /\ read' = read /\ ConnectionCount' = ConnectionCount
        /\ main' = main /\ connections' = connections
    BY <1>4 DEF Server!PassOn
  <2>2. ASSUME NEW v \in ServerThreads, v \notin serverList, limited' = limited,
               NEW place \in {"listen", "failed"},
               serverAt' = [[serverAt EXCEPT ![w] = "process"] EXCEPT ![v] = place]
        PROVE  Passed' /\ CountBounded'
    BY <1>1, <2>1, <2>2, PassOnKeeps
  <2>3. ASSUME NEW place \in {"process", "subtract"},
               serverAt' = [serverAt EXCEPT ![w] = place],
               serverSentinel => limited', limited => limited'
        PROVE  Passed' /\ CountBounded'
    BY <1>1, <2>1, <2>3, DropKeeps
  <2> QED BY <1>4, <2>2, <2>3 DEF Server!PassOn, Server!Goto, Server!Start, Server!Created
<1>5. ASSUME NEW w \in ServerThreads, Server!Work(w) PROVE Passed' /\ CountBounded'
  BY <1>1, <1>4, <1>5, ThreadKeeps DEF Server!Work
<1>6. CASE Server!Shutdown \/ Server!Return
  <2>1. /\ serverAt' = serverAt /\ read' = read /\ ConnectionCount' = ConnectionCount
        /\ connections' = connections /\ limited' = limited
        /\ main # "startup" /\ main' \in {"stopping", "over"}
    BY <1>6 DEF Server!Shutdown, Server!Return
  <2>2. /\ Uncounted' = Uncounted /\ Passing' = Passing
        /\ Unfinished' = Unfinished /\ Listening' = Listening
    BY <2>1 DEF Uncounted, Passing, Unfinished, Listening
  <2>3. Lowest' = Lowest /\ Highest' = Highest
    BY <2>1, <2>2 DEF Lowest, Highest, Started
  <2>4. Passed'
    BY <2>1, <2>2 DEF ServerInv, Passed
  <2>5. CountBounded'
    BY <2>1, <2>3 DEF ServerInv, CountBounded, Within
  <2> QED BY <1>1, <2>4, <2>5 DEF ServerInv
<1> QED BY <1>1, <1>2, <1>3, <1>5, <1>6 DEF Server!Next, ServerInv

-----------------------------------------------------------------------------
(* The invariant of HttpServer: the list of class Thread holds the threads    *)
(* there are, one thread at most is at the socket or will start the one that  *)
(* is next, and lost updates move the count no further than Lowest..Highest,  *)
(* for any number of threads and connections and any limit.                   *)
THEOREM ServerInvariant == Server!Spec => []ServerInv
<1>0. Server!ServerAssumption
  BY ServerAssumption
<1>1. Server!Init => ServerInv
  <2> SUFFICES ASSUME Server!Init PROVE ServerInv
    OBVIOUS
  <2>1. ServerTypes
    <3>1. MaxConnections \in Nat
      BY <1>0 DEF Server!ServerAssumption
    <3>2. /\ serverAt \in [ServerThreads -> Server!Places]
          /\ read \in [ServerThreads -> Int] /\ serverList \subseteq ServerThreads
      BY DEF Server!Init, Server!Places
    <3>3. /\ ConnectionCount \in Int /\ connections \in 0..MaxConnections
          /\ main \in {"startup", "running", "stopping", "over"}
      BY <3>1 DEF Server!Init
    <3>4. serverSentinel \in BOOLEAN /\ limited \in BOOLEAN
      BY DEF Server!Init
    <3> QED BY <3>2, <3>3, <3>4 DEF ServerTypes
  <2>2. Enlisted
    BY DEF Server!Init, Enlisted
  <2>3. Uncounted = 0 /\ Passing = 0 /\ Unfinished = 0 /\ Listening = 0
    BY <1>0, <2>1, NobodyAtStart DEF Server!Init
  <2>4. Passed /\ CountBounded
    BY <2>3
    DEF Server!Init, Passed, CountBounded, Within, Lowest, Highest, Started
  <2> QED BY <2>1, <2>2, <2>4 DEF ServerInv
<1>2. ServerInv /\ UNCHANGED Server!vars => ServerInv'
  BY DEF Server!vars, ServerInv, ServerTypes, Enlisted, Passed, CountBounded, Within, Lowest,
         Highest, Started, Uncounted, Passing, Unfinished, Listening
<1>3. ServerInv /\ [Server!Next]_Server!vars => ServerInv'
  BY <1>0, <1>2, ServerStep
<1> QED BY <1>1, <1>3, PTL DEF Server!Spec

(* One thread at a time waits on the socket, though threads start each other, *)
(* give up and leave in any order and whatever became of the count; and       *)
(* while the program runs there is one, unless it could not be created or a   *)
(* thread found the limit reached.                                            *)
THEOREM OneThreadListens == Server!Spec => []OneListener
<1>1. ServerInv => OneListener
  <2> SUFFICES ASSUME ServerInv PROVE OneListener
    OBVIOUS
  <2>1. Server!Cardinality(Server!Front) = Listening
    BY SameCardinality DEF Server!Front, Listening, Number, ToListen, ToPass, ToCount
  <2>2. Server!Cardinality(Server!Front) <= 1
    BY <2>1 DEF ServerInv, Passed
  <2>3. ASSUME Server!Front = {}, main = "running" PROVE limited \/ Server!Failed # {}
    BY <2>3
    DEF ServerInv, Passed, Server!Front, Server!Failed, ToListen, ToPass, ToCount
  <2> QED BY <2>2, <2>3 DEF OneListener, Server!OneListener
<1> QED BY <1>1, ServerInvariant, PTL

(* Nobody goes on as if a list of threads were over while one of them runs:   *)
(* the destructor of the agent does not return while a thread uses the agent, *)
(* and, what ~Thread asserts when main returns, no thread of the server is    *)
(* left then.                                                                 *)
THEOREM NobodyLeft == Spec /\ Server!Spec => []NobodyIsLeft
<1>1. ServerInv => Server!NoChildrenAtExit
  BY DEF ServerInv, ServerTypes, Enlisted, Server!NoChildrenAtExit
<1> QED BY <1>1, GoneAgentIsUnused, ServerInvariant, PTL DEF NobodyIsLeft

-----------------------------------------------------------------------------
(* The stream buffer.                                                         *)

(* Bytes written over a file, and written twice in a row.                     *)
LEMMA OverlaidIs ==
  ASSUME NEW f \in Seq(Bytes), NEW n \in Nat, Len(f) = n, NEW p \in 0..n,
         NEW b \in Seq(Bytes), NEW m \in Nat, Len(b) = m, NEW w, w = Stream!Overlaid(f, p, b)
  PROVE  /\ w \in Seq(Bytes) /\ Len(w) = IF p + m > n THEN p + m ELSE n
         /\ \A i \in 1..Len(w) : w[i] = IF i \in (p + 1)..(p + m) THEN b[i - p] ELSE f[i]
<1>1. n = Len(f) /\ m = Len(b)
  OBVIOUS
<1>2. PICK front : front = SubSeq(f, 1, p)
  OBVIOUS
<1>3. front \in Seq(Bytes) /\ Len(front) = p /\ \A i \in 1..p : front[i] = f[i]
  BY <1>1, <1>2
<1>4. PICK back, l : back = SubSeq(f, p + m + 1, n) /\ l = IF p + m > n THEN 0 ELSE n - p - m
  OBVIOUS
<1>5. l \in Nat /\ back \in Seq(Bytes) /\ Len(back) = l /\ \A i \in 1..l : back[i] = f[p + m + i]
  <2>1. CASE p + m > n
    BY <1>1, <1>4, <2>1, SubSeqEmpty, EmptySeq
  <2>2. CASE ~(p + m > n)
    BY <1>1, <1>4, <2>2
  <2> QED BY <2>1, <2>2
<1>6. PICK fb : fb = front \o b
  OBVIOUS
<1>7. /\ fb \in Seq(Bytes) /\ Len(fb) = p + m
      /\ \A i \in 1..(p + m) : fb[i] = IF i <= p THEN front[i] ELSE b[i - p]
  BY <1>1, <1>3, <1>6, ConcatProperties
<1>8. PICK o : o = fb \o back
  OBVIOUS
<1>9. /\ o \in Seq(Bytes) /\ Len(o) = p + m + l
      /\ \A i \in 1..(p + m + l) : o[i] = IF i <= p + m THEN fb[i] ELSE back[i - (p + m)]
  <2>1. /\ o \in Seq(Bytes) /\ Len(o) = Len(fb) + Len(back)
        /\ \A i \in 1..(Len(fb) + Len(back)) :
             o[i] = IF i <= Len(fb) THEN fb[i] ELSE back[i - Len(fb)]
    BY <1>5, <1>7, <1>8, ConcatProperties
  <2> QED BY <1>5, <1>7, <2>1
<1>10. o = w
  BY <1>1, <1>2, <1>4, <1>6, <1>8 DEF Stream!Overlaid
<1>11. ASSUME NEW i \in 1..Len(o)
       PROVE  o[i] = IF i \in (p + 1)..(p + m) THEN b[i - p] ELSE f[i]
  <2>1. CASE i <= p
    BY <1>1, <1>3, <1>7, <1>9, <2>1
  <2>2. CASE i > p /\ i <= p + m
    <3>1. i \in 1..(p + m) /\ i \in 1..(p + m + l) /\ ~(i <= p) /\ i \in (p + 1)..(p + m)
      BY <1>5, <1>9, <2>2
    <3>2. o[i] = fb[i]
      BY <1>9, <3>1
    <3>3. fb[i] = b[i - p]
      BY <1>7, <3>1
    <3> QED BY <3>1, <3>2, <3>3
  <2>3. CASE i > p + m
    <3>1. i - (p + m) \in 1..l /\ p + m + (i - (p + m)) = i
      BY <1>1, <1>5, <1>9, <2>3
    <3>2. o[i] = f[i]
      BY <1>1, <1>5, <1>9, <2>3, <3>1
    <3> QED BY <1>1, <2>3, <3>2
  <2> QED BY <1>1, <2>1, <2>2, <2>3
<1>12. Len(o) = IF p + m > n THEN p + m ELSE n
  <2>1. p + m + l = IF p + m > n THEN p + m ELSE n
    BY <1>4
  <2> QED BY <1>9, <2>1
<1> QED BY <1>9, <1>10, <1>11, <1>12

(* Bytes written behind bytes just written are as if written at once.         *)
LEMMA OverlaidTwice ==
  ASSUME NEW f \in Seq(Bytes), NEW p \in 0..Len(f), NEW a \in Seq(Bytes), NEW b \in Seq(Bytes)
  PROVE  Stream!Overlaid(Stream!Overlaid(f, p, a), p + Len(a), b) = Stream!Overlaid(f, p, a \o b)
<1>1. PICK n \in Nat, m \in Nat, l \in Nat : n = Len(f) /\ m = Len(a) /\ l = Len(b) /\ p \in 0..n
  OBVIOUS
<1>2. PICK o : o = Stream!Overlaid(f, p, a)
  OBVIOUS
<1>3. /\ o \in Seq(Bytes) /\ Len(o) = IF p + m > n THEN p + m ELSE n
      /\ \A i \in 1..Len(o) : o[i] = IF i \in (p + 1)..(p + m) THEN a[i - p] ELSE f[i]
  BY <1>1, <1>2, OverlaidIs
<1>4. PICK x : x = Stream!Overlaid(o, p + m, b)
  OBVIOUS
<1>5. p + m \in 0..Len(o)
  BY <1>1, <1>3
<1>6. /\ x \in Seq(Bytes) /\ Len(x) = IF p + m + l > Len(o) THEN p + m + l ELSE Len(o)
      /\ \A i \in 1..Len(x) : x[i] = IF i \in (p + m + 1)..(p + m + l) THEN b[i - (p + m)] ELSE o[i]
  <2>1. PICK k \in Nat : k = Len(o)
    BY <1>3
  <2>2. PICK pm \in 0..k : pm = p + m
    BY <1>5, <2>1
  <2>3. /\ x \in Seq(Bytes) /\ Len(x) = IF pm + l > k THEN pm + l ELSE k
        /\ \A i \in 1..Len(x) : x[i] = IF i \in (pm + 1)..(pm + l) THEN b[i - pm] ELSE o[i]
    <3>1. x = Stream!Overlaid(o, pm, b) /\ o \in Seq(Bytes) /\ Len(o) = k /\ Len(b) = l
      BY <1>1, <1>3, <1>4, <2>1, <2>2
    <3> QED BY <3>1, OverlaidIs
  <2> QED BY <2>1, <2>2, <2>3
<1>7. PICK ab : ab = a \o b
  OBVIOUS
<1>8. /\ ab \in Seq(Bytes) /\ Len(ab) = m + l
      /\ \A i \in 1..(m + l) : ab[i] = IF i <= m THEN a[i] ELSE b[i - m]
  BY <1>1, <1>7, ConcatProperties
<1>9. PICK y : y = Stream!Overlaid(f, p, ab)
  OBVIOUS
<1>10. /\ y \in Seq(Bytes) /\ Len(y) = IF p + (m + l) > n THEN p + (m + l) ELSE n
       /\ \A i \in 1..Len(y) : y[i] = IF i \in (p + 1)..(p + (m + l)) THEN ab[i - p] ELSE f[i]
  <2>1. PICK ml \in Nat : ml = m + l
    OBVIOUS
  <2>2. /\ y \in Seq(Bytes) /\ Len(y) = IF p + ml > n THEN p + ml ELSE n
        /\ \A i \in 1..Len(y) : y[i] = IF i \in (p + 1)..(p + ml) THEN ab[i - p] ELSE f[i]
    <3>1. ab \in Seq(Bytes) /\ Len(ab) = ml /\ Len(f) = n /\ p \in 0..n
      BY <1>1, <1>8, <2>1
    <3> QED BY <1>9, <3>1, OverlaidIs
  <2> QED BY <2>1, <2>2
<1>11. Len(x) = Len(y)
  <2>1. PICK k \in Nat : k = Len(o)
    BY <1>3
  <2>2. (k = IF p + m > n THEN p + m ELSE n) /\ Len(x) = IF p + m + l > k THEN p + m + l ELSE k
    BY <1>3, <1>6, <2>1
  <2>3. Len(y) = IF p + m + l > n THEN p + m + l ELSE n
    BY <1>1, <1>10
  <2> QED BY <1>1, <2>2, <2>3
<1>12. ASSUME NEW i \in 1..Len(x) PROVE x[i] = y[i]
  <2>1. CASE i <= p
    <3>1. x[i] = f[i]
      BY <1>1, <1>3, <1>6, <2>1
    <3>2. y[i] = f[i]
      BY <1>1, <1>10, <1>11, <2>1
    <3> QED BY <3>1, <3>2
  <2>2. CASE i > p /\ i <= p + m
    <3>1. i \in 1..Len(o) /\ x[i] = a[i - p]
      BY <1>1, <1>3, <1>6, <2>2
    <3>2. i - p \in 1..(m + l) /\ i - p <= m /\ y[i] = ab[i - p]
      BY <1>1, <1>10, <1>11, <2>2
    <3> QED BY <1>8, <3>1, <3>2
  <2>3. CASE i > p + m /\ i <= p + m + l
    <3>1. x[i] = b[i - (p + m)]
      BY <1>1, <1>6, <2>3
    <3>2. i - p \in 1..(m + l) /\ ~(i - p <= m) /\ (i - p) - m = i - (p + m) /\ y[i] = ab[i - p]
      BY <1>1, <1>10, <1>11, <2>3
    <3> QED BY <1>8, <3>1, <3>2
  <2>4. CASE i > p + m + l
    <3>1. i \in 1..Len(o) /\ x[i] = f[i]
      BY <1>1, <1>3, <1>6, <2>4
    <3>2. y[i] = f[i]
      BY <1>1, <1>10, <1>11, <2>4
    <3> QED BY <3>1, <3>2
  <2> QED BY <1>1, <2>1, <2>2, <2>3, <2>4
<1>13. x = y
  BY <1>6, <1>10, <1>11, <1>12, SeqEqual
<1> QED BY <1>1, <1>2, <1>4, <1>7, <1>9, <1>13

(* The bytes of c from q up to r, and the first n of x.                       *)
Piece(c, q, r) == SubSeq(c, q + 1, r)
Front(x, n) == SubSeq(x, 1, n)

(* What bytes are at a place, and a piece of a file before the next one.      *)
LEMMA PieceIs ==
  ASSUME NEW c \in Seq(Bytes), NEW q \in Nat, NEW k \in Nat, q + k <= Len(c)
  PROVE  /\ Piece(c, q, q + k) \in Seq(Bytes) /\ Len(Piece(c, q, q + k)) = k
         /\ \A i \in 1..k : Piece(c, q, q + k)[i] = c[q + i]
BY DEF Piece

(* The same, by the places where it begins and ends.                          *)
LEMMA PieceTo ==
  ASSUME NEW c \in Seq(Bytes), NEW r \in 0..Len(c), NEW q \in 0..r
  PROVE  /\ Piece(c, q, r) \in Seq(Bytes) /\ Len(Piece(c, q, r)) = r - q
         /\ \A i \in 1..(r - q) : Piece(c, q, r)[i] = c[q + i]
<1>1. PICK k \in Nat : k = r - q
  OBVIOUS
<1>2. q \in Nat /\ q + k <= Len(c) /\ q + k = r
  BY <1>1
<1>3. /\ Piece(c, q, q + k) \in Seq(Bytes) /\ Len(Piece(c, q, q + k)) = k
      /\ \A i \in 1..k : Piece(c, q, q + k)[i] = c[q + i]
  BY <1>2, PieceIs
<1> QED BY <1>1, <1>2, <1>3

(* From a place to itself there is nothing.                                   *)
LEMMA EmptyPiece ==
  ASSUME NEW c \in Seq(Bytes), NEW q \in Nat, q <= Len(c)
  PROVE  Piece(c, q, q) = <<>>
<1>1. PICK k \in Nat : k = 0 /\ q + k = q /\ q + k <= Len(c)
  OBVIOUS
<1>2. Piece(c, q, q + k) \in Seq(Bytes) /\ Len(Piece(c, q, q + k)) = k
  BY <1>1, PieceIs
<1>3. PICK x : x = Piece(c, q, q)
  OBVIOUS
<1>4. x \in Seq(Bytes) /\ Len(x) = 0
  BY <1>1, <1>2, <1>3
<1>5. x = <<>>
  BY <1>4, EmptySeq
<1> QED BY <1>3, <1>5

(* The front is the piece from the beginning.                                 *)
LEMMA FrontIs ==
  ASSUME NEW x, NEW n
  PROVE  Front(x, n) = Piece(x, 0, n)
<1>1. 0 + 1 = 1
  OBVIOUS
<1> QED BY <1>1 DEF Front, Piece

(* Two pieces one behind the other are one.                                   *)
LEMMA PiecesJoin ==
  ASSUME NEW c \in Seq(Bytes), NEW q \in Nat, NEW k \in Nat, NEW l \in Nat, q + k + l <= Len(c)
  PROVE  Piece(c, q, q + k) \o Piece(c, q + k, q + k + l) = Piece(c, q, q + (k + l))
<1>1. /\ q + 1 \in 1..(Len(c) + 1) /\ q + k \in ((q + 1) - 1)..Len(c) /\ q + k + l \in (q + k)..Len(c)
      /\ q + (k + l) = q + k + l
  OBVIOUS
<1>2. SubSeq(c, q + 1, q + k) \o SubSeq(c, q + k + 1, q + k + l) = SubSeq(c, q + 1, q + (k + l))
  BY <1>1, ConcatAdjacentSubSeq
<1> QED BY <1>2 DEF Piece

(* A piece of a piece is one of the whole.                                    *)
LEMMA PieceOfPiece ==
  ASSUME NEW c \in Seq(Bytes), NEW q \in Nat, NEW k \in Nat, q + k <= Len(c),
         NEW o \in 0..k, NEW l \in Nat, o + l <= k
  PROVE  Piece(Piece(c, q, q + k), o, o + l) = Piece(c, q + o, q + o + l)
<1>1. PICK x : x = Piece(c, q, q + k)
  OBVIOUS
<1>2. x \in Seq(Bytes) /\ Len(x) = k /\ \A i \in 1..k : x[i] = c[q + i]
  BY <1>1, PieceIs
<1>3. PICK y : y = Piece(x, o, o + l)
  OBVIOUS
<1>4. y \in Seq(Bytes) /\ Len(y) = l /\ \A i \in 1..l : y[i] = x[o + i]
  <2>1. o \in Nat /\ o + l <= Len(x)
    BY <1>2
  <2> QED BY <1>2, <1>3, <2>1, PieceIs
<1>5. PICK z : z = Piece(c, q + o, q + o + l)
  OBVIOUS
<1>6. z \in Seq(Bytes) /\ Len(z) = l /\ \A i \in 1..l : z[i] = c[q + o + i]
  <2>1. PICK r \in Nat : r = q + o /\ r + l <= Len(c)
    OBVIOUS
  <2>2. z = Piece(c, r, r + l)
    BY <1>5, <2>1
  <2>3. z \in Seq(Bytes) /\ Len(z) = l /\ \A i \in 1..l : z[i] = c[r + i]
    BY <2>1, <2>2, PieceIs
  <2> QED BY <2>1, <2>3
<1>7. ASSUME NEW i \in 1..l PROVE y[i] = z[i]
  <2>1. o + i \in 1..k /\ q + (o + i) = q + o + i
    OBVIOUS
  <2> QED BY <1>2, <1>4, <1>6, <2>1
<1>8. y = z
  BY <1>4, <1>6, <1>7, SeqEqual
<1> QED BY <1>1, <1>3, <1>5, <1>8

(* The same, of what is left of a piece.                                      *)
LEMMA PieceWithin ==
  ASSUME NEW c \in Seq(Bytes), NEW q \in Nat, NEW k \in Nat, q + k <= Len(c), NEW o \in 0..k
  PROVE  Piece(Piece(c, q, q + k), o, k) = Piece(c, q + o, q + k)
<1>1. PICK l \in Nat : l = k - o
  OBVIOUS
<1>2. o + l = k /\ q + o + l = q + k
  BY <1>1
<1>3. Piece(Piece(c, q, q + k), o, o + l) = Piece(c, q + o, q + o + l)
  <2>1. o + l <= k
    BY <1>2
  <2> QED BY <2>1, PieceOfPiece
<1> QED BY <1>2, <1>3

(* Two pieces one behind the other, by their places.                          *)
LEMMA PiecesTo ==
  ASSUME NEW c \in Seq(Bytes), NEW s \in 0..Len(c), NEW r \in 0..s, NEW q \in 0..r
  PROVE  Piece(c, q, r) \o Piece(c, r, s) = Piece(c, q, s)
<1>1. q + 1 \in 1..(Len(c) + 1) /\ r \in ((q + 1) - 1)..Len(c) /\ s \in r..Len(c)
  OBVIOUS
<1>2. SubSeq(c, q + 1, r) \o SubSeq(c, r + 1, s) = SubSeq(c, q + 1, s)
  BY <1>1, ConcatAdjacentSubSeq
<1> QED BY <1>2 DEF Piece

(* What bytes are in the front of a sequence.                                 *)
LEMMA FrontFacts ==
  ASSUME NEW x \in Seq(Bytes), NEW n \in 0..Len(x)
  PROVE  /\ Front(x, n) \in Seq(Bytes) /\ Len(Front(x, n)) = n
         /\ \A i \in 1..n : Front(x, n)[i] = x[i]
BY DEF Front

(* The front of a piece is a piece from the same place.                       *)
LEMMA FrontOfPiece ==
  ASSUME NEW c \in Seq(Bytes), NEW r \in 0..Len(c), NEW q \in 0..r, NEW s \in q..r,
         NEW n, n = s - q
  PROVE  Front(Piece(c, q, r), n) = Piece(c, q, s)
<1>1. PICK x, y, z : x = Piece(c, q, r) /\ y = Front(x, n) /\ z = Piece(c, q, s)
  OBVIOUS
<1>2. x \in Seq(Bytes) /\ Len(x) = r - q /\ \A i \in 1..(r - q) : x[i] = c[q + i]
  BY <1>1, PieceTo
<1>3. y \in Seq(Bytes) /\ Len(y) = n /\ \A i \in 1..n : y[i] = x[i]
  <2>1. n \in 0..Len(x)
    BY <1>2
  <2> QED BY <1>1, <1>2, <2>1, FrontFacts
<1>4. z \in Seq(Bytes) /\ Len(z) = s - q /\ \A i \in 1..(s - q) : z[i] = c[q + i]
  <2>1. s \in 0..Len(c) /\ q \in 0..s
    OBVIOUS
  <2> QED BY <1>1, <2>1, PieceTo
<1>5. ASSUME NEW i \in 1..n PROVE y[i] = z[i]
  BY <1>2, <1>3, <1>4
<1>6. y = z
  BY <1>3, <1>4, <1>5, SeqEqual
<1> QED BY <1>1, <1>6


(* A stream, of its file, the file's position and end, the buffer, Offset and *)
(* Position.  The buffer holds what was read ahead of Offset, or all of it    *)
(* was written; then Position is behind what waits, else before what is left. *)
Strm(f, p, e, b, o, q) == [file |-> f, pos |-> p, eof |-> e, buf |-> b, off |-> o, position |-> q]

Whole(f, p, e, b, o, q) ==
  /\ f \in Seq(Bytes) /\ p \in 0..Len(f) /\ e \in BOOLEAN /\ (e => p = Len(f))
  /\ b \in Seq(Bytes) /\ Len(b) <= Room /\ o \in 0..Len(b) /\ q \in Nat
  /\ IF o < Len(b) THEN /\ Len(b) <= p /\ b = Piece(f, p - Len(b), p)
                        /\ q = p - Len(b) + o
     ELSE q = p + Len(b)

Good(t) == \E f, p, e, b, o, q : t = Strm(f, p, e, b, o, q) /\ Whole(f, p, e, b, o, q)

ContentOf(t) ==
  IF Stream!IsWriting(t) THEN Stream!Overlaid(t.file, t.pos, t.buf) ELSE t.file

(* What is assumed of the buffer and of the bounds.                           *)
LEMMA RoomIsPositive == Room \in Nat \ {0} /\ MaxContent \in Nat /\ MaxChunk \in Nat
BY StreamAssumption DEF Stream!StreamAssumption

(* What the small operations make of a stream.                                *)
LEMMA PartsOf ==
  ASSUME NEW f, NEW p, NEW e, NEW b, NEW o, NEW q, NEW t, t = Strm(f, p, e, b, o, q)
  PROVE  t.file = f /\ t.pos = p /\ t.eof = e /\ t.buf = b /\ t.off = o /\ t.position = q
BY DEF Strm

(* Buffer.Clear, and Offset with it.                                          *)
LEMMA ClearIs ==
  ASSUME NEW f, NEW p, NEW e, NEW b, NEW o, NEW q, NEW t, t = Strm(f, p, e, b, o, q)
  PROVE  Stream!Clear(t) = Strm(f, p, e, <<>>, 0, q)
<1>1. PICK u : u = [t EXCEPT !.buf = <<>>]
  OBVIOUS
<1>2. u = Strm(f, p, e, <<>>, o, q)
  BY <1>1 DEF Strm
<1>3. [u EXCEPT !.off = 0] = Strm(f, p, e, <<>>, 0, q)
  BY <1>2 DEF Strm
<1>4. Stream!Clear(t) = [u EXCEPT !.off = 0]
  BY <1>1 DEF Stream!Clear
<1> QED BY <1>3, <1>4

(* A write to the file.                                                       *)
LEMMA FileWriteIs ==
  ASSUME NEW f, NEW p, NEW e, NEW b, NEW o, NEW q, NEW t, t = Strm(f, p, e, b, o, q), NEW x
  PROVE  Stream!FileWrite(t, x) = Strm(Stream!Overlaid(f, p, x), p + Len(x), e, b, o, q)
<1>1. PICK u : u = [t EXCEPT !.file = Stream!Overlaid(f, p, x)]
  OBVIOUS
<1>2. u = Strm(Stream!Overlaid(f, p, x), p, e, b, o, q)
  BY <1>1 DEF Strm
<1>3. [u EXCEPT !.pos = p + Len(x)] = Strm(Stream!Overlaid(f, p, x), p + Len(x), e, b, o, q)
  BY <1>2 DEF Strm
<1>4. Stream!FileWrite(t, x) = [t EXCEPT !.file = Stream!Overlaid(f, p, x), !.pos = p + Len(x)]
  <2>1. t.file = f /\ t.pos = p
    BY PartsOf
  <2> QED BY <2>1 DEF Stream!FileWrite
<1>5. Stream!FileWrite(t, x) = [u EXCEPT !.pos = p + Len(x)]
  BY <1>1, <1>4
<1> QED BY <1>3, <1>5

No == FALSE

(* No is a truth value.                                                       *)
LEMMA NoIsFalse == No \in BOOLEAN /\ ~No
BY DEF No

(* A seek in the file forgets that the end was met.                           *)
LEMMA FileSeekIs ==
  ASSUME NEW f, NEW p, NEW e, NEW b, NEW o, NEW q, NEW t, t = Strm(f, p, e, b, o, q), NEW x
  PROVE  Stream!FileSeek(t, x) = Strm(f, x, No, b, o, q)
<1>1. PICK u : u = [t EXCEPT !.pos = x]
  OBVIOUS
<1>2. u = Strm(f, x, e, b, o, q)
  BY <1>1 DEF Strm
<1>3. [u EXCEPT !.eof = No] = Strm(f, x, No, b, o, q)
  BY <1>2 DEF Strm
<1>4. Stream!FileSeek(t, x) = [t EXCEPT !.pos = x, !.eof = No]
  BY DEF Stream!FileSeek, No
<1> QED BY <1>1, <1>3, <1>4

(* Offset and Position go on together.                                        *)
LEMMA AheadIs ==
  ASSUME NEW f, NEW p, NEW e, NEW b, NEW o, NEW q, NEW t, t = Strm(f, p, e, b, o, q), NEW n
  PROVE  Stream!Ahead(t, n) = Strm(f, p, e, b, o + n, q + n)
<1>1. PICK u : u = [t EXCEPT !.off = o + n]
  OBVIOUS
<1>2. u = Strm(f, p, e, b, o + n, q)
  BY <1>1 DEF Strm
<1>3. [u EXCEPT !.position = q + n] = Strm(f, p, e, b, o + n, q + n)
  BY <1>2 DEF Strm
<1>4. Stream!Ahead(t, n) = [t EXCEPT !.off = o + n, !.position = q + n]
  <2>1. t.off = o /\ t.position = q
    BY PartsOf
  <2> QED BY <2>1 DEF Stream!Ahead
<1>5. Stream!Ahead(t, n) = [u EXCEPT !.position = q + n]
  BY <1>1, <1>4
<1> QED BY <1>3, <1>5

(* The length of two sequences, one behind the other.                         *)
LEMMA JoinedIs ==
  ASSUME NEW b \in Seq(Bytes), NEW x \in Seq(Bytes)
  PROVE  b \o x \in Seq(Bytes) /\ Len(b \o x) = Len(b) + Len(x)
OBVIOUS

(* What is put in the buffer behind Offset.                                   *)
LEMMA FilledIs ==
  ASSUME NEW f, NEW p, NEW e, NEW b, NEW o, NEW q, NEW t, t = Strm(f, p, e, b, o, q), NEW x
  PROVE  Stream!Filled(t, x) = Strm(f, p, e, b \o x, o + Len(x), q + Len(x))
<1>1. PICK u : u = Stream!Ahead(t, Len(x))
  OBVIOUS
<1>2. u = Strm(f, p, e, b, o + Len(x), q + Len(x))
  BY <1>1, AheadIs
<1>3. [u EXCEPT !.buf = b \o x] = Strm(f, p, e, b \o x, o + Len(x), q + Len(x))
  <2>1. PICK y, o2, q2 : y = b \o x /\ o2 = o + Len(x) /\ q2 = q + Len(x)
    OBVIOUS
  <2>2. u = Strm(f, p, e, b, o2, q2)
    BY <1>2, <2>1
  <2>3. [u EXCEPT !.buf = y] = Strm(f, p, e, y, o2, q2)
    BY <2>2 DEF Strm
  <2> QED BY <2>1, <2>3
<1>4. u.buf = b
  BY <1>2, PartsOf
<1>5. Stream!Filled(t, x) = [u EXCEPT !.buf = u.buf \o x]
  BY <1>1 DEF Stream!Filled
<1> QED BY <1>3, <1>4, <1>5

(* The buffer as a whole, written.                                            *)
LEMMA WriteOutIs ==
  ASSUME NEW f, NEW p, NEW e, NEW b, NEW o, NEW q, NEW t, t = Strm(f, p, e, b, o, q)
  PROVE  Stream!WriteOut(t) = Strm(Stream!Overlaid(f, p, b), p + Len(b), e, <<>>, 0, q)
<1>1. PICK u : u = Stream!FileWrite(t, b)
  OBVIOUS
<1>2. u = Strm(Stream!Overlaid(f, p, b), p + Len(b), e, b, o, q)
  BY <1>1, FileWriteIs
<1>3. Stream!Clear(u) = Strm(Stream!Overlaid(f, p, b), p + Len(b), e, <<>>, 0, q)
  BY <1>2, ClearIs
<1>4. Stream!WriteOut(t) = Stream!Clear(u)
  BY <1>1, PartsOf DEF Stream!WriteOut
<1> QED BY <1>3, <1>4

AtEnd(e, m, n) == e \/ m < n

(* A read of the file gets what there is, and meets the end by asking more.   *)
LEMMA FileReadIs ==
  ASSUME NEW f, NEW p, NEW e, NEW b, NEW o, NEW q, NEW t, t = Strm(f, p, e, b, o, q), NEW n,
         NEW m, m = IF n < Len(f) - p THEN n ELSE Len(f) - p, NEW z, z = AtEnd(e, m, n)
  PROVE  /\ Stream!FileRead(t, n).t = Strm(f, p + m, z, b, o, q)
         /\ Stream!FileRead(t, n).got = Piece(f, p, p + m)
<1>1. t.file = f /\ t.pos = p /\ t.eof = e
  BY PartsOf
<1>2. Stream!Least(n, Stream!Rest(t)) = m
  BY <1>1 DEF Stream!Rest, Stream!Least
<1>3. PICK u : u = [t EXCEPT !.pos = p + m]
  OBVIOUS
<1>4. u = Strm(f, p + m, e, b, o, q)
  BY <1>3 DEF Strm
<1>5. [u EXCEPT !.eof = z] = Strm(f, p + m, z, b, o, q)
  BY <1>4 DEF Strm
<1>6. PICK x, g : x = [t EXCEPT !.pos = p + m, !.eof = z] /\ g = Piece(f, p, p + m)
  OBVIOUS
<1>7. Stream!FileRead(t, n) = [t |-> x, got |-> g]
  BY <1>1, <1>2, <1>6 DEF Stream!FileRead, AtEnd, Piece
<1>8. x = [u EXCEPT !.eof = z]
  BY <1>3, <1>6
<1>9. Stream!FileRead(t, n).t = x /\ Stream!FileRead(t, n).got = g
  BY <1>7
<1> QED BY <1>5, <1>6, <1>8, <1>9

(* The buffer as a whole, read.                                               *)
LEMMA FillIs ==
  ASSUME NEW f, NEW p, NEW e, NEW b, NEW o, NEW q, NEW t, t = Strm(f, p, e, b, o, q),
         NEW m, m = IF Room < Len(f) - p THEN Room ELSE Len(f) - p, NEW z, z = AtEnd(e, m, Room)
  PROVE  Stream!Fill(t) = Strm(f, p + m, z, Piece(f, p, p + m), 0, q)
<1>1. PICK u : u = Stream!Clear(t)
  OBVIOUS
<1>2. u = Strm(f, p, e, <<>>, 0, q)
  BY <1>1, ClearIs
<1>3. PICK r : r = Stream!FileRead(u, Room)
  OBVIOUS
<1>4. r.t = Strm(f, p + m, z, <<>>, 0, q) /\ r.got = Piece(f, p, p + m)
  BY <1>2, <1>3, FileReadIs
<1>5. Stream!Fill(t) = [r.t EXCEPT !.buf = r.got]
  BY <1>1, <1>3 DEF Stream!Fill
<1>6. PICK x, got, n : x = r.t /\ got = r.got /\ n = p + m
  OBVIOUS
<1>7. x = Strm(f, n, z, <<>>, 0, q)
  BY <1>4, <1>6
<1>8. [x EXCEPT !.buf = got] = Strm(f, n, z, got, 0, q)
  BY <1>7 DEF Strm
<1> QED BY <1>4, <1>5, <1>6, <1>8

(* How the places of a stream tell the side it is on.                         *)
LEMMA Sides ==
  ASSUME NEW f, NEW p, NEW e, NEW b, NEW o, NEW q, NEW t, t = Strm(f, p, e, b, o, q)
  PROVE  /\ Stream!IsReading(t) <=> o < Len(b)
         /\ Stream!IsWriting(t) <=> b # <<>> /\ o = Len(b)
         /\ Stream!IsReadable(t) <=> o < Len(b) \/ ~e
         /\ Stream!Unread(t) = Piece(b, o, Len(b))
         /\ ContentOf(t) = IF b # <<>> /\ o = Len(b) THEN Stream!Overlaid(f, p, b) ELSE f
<1>1. t.file = f /\ t.pos = p /\ t.eof = e /\ t.buf = b /\ t.off = o
  BY PartsOf
<1> QED BY <1>1
    DEF Stream!IsReading, Stream!IsWriting, Stream!IsReadable, Stream!Unread, ContentOf, Piece

(* Flush, where something is written: the file is what it will be then.       *)
LEMMA FlushIs ==
  ASSUME NEW f, NEW p, NEW e, NEW b, NEW o, NEW q, Whole(f, p, e, b, o, q), b # <<>>, o = Len(b)
  PROVE  /\ Stream!Flush(Strm(f, p, e, b, o, q)) = Strm(Stream!Overlaid(f, p, b), q, e, <<>>, 0, q)
         /\ Stream!WriteOut(Strm(f, p, e, b, o, q)) = Strm(Stream!Overlaid(f, p, b), q, e, <<>>, 0, q)
         /\ Whole(Stream!Overlaid(f, p, b), q, e, <<>>, 0, q)
<1>1. PICK c : c = Stream!Overlaid(f, p, b)
  OBVIOUS
<1>2. PICK n \in Nat, m \in Nat : n = Len(f) /\ m = Len(b)
  BY DEF Whole
<1>3. /\ f \in Seq(Bytes) /\ b \in Seq(Bytes) /\ p \in 0..n /\ e \in BOOLEAN /\ (e => p = n)
      /\ q = p + m
  BY <1>2 DEF Whole
<1>4. c \in Seq(Bytes) /\ Len(c) = IF p + m > n THEN p + m ELSE n
  BY <1>1, <1>2, <1>3, OverlaidIs
<1>5. PICK t, w : t = Strm(f, p, e, b, o, q) /\ w = Stream!WriteOut(t)
  OBVIOUS
<1>6. w = Strm(c, q, e, <<>>, 0, q)
  BY <1>1, <1>2, <1>3, <1>5, WriteOutIs
<1>7. Stream!IsWriting(t)
  BY <1>5, Sides
<1>8. Stream!Flush(t) = [w EXCEPT !.buf = Stream!Unread(w), !.off = 0]
  BY <1>5, <1>7 DEF Stream!Flush
<1>9. Stream!Unread(w) = <<>>
  <2>1. w.buf = <<>> /\ w.off = 0
    BY <1>6, PartsOf
  <2>2. SubSeq(<<>>, 1, 0) = <<>> /\ Len(<<>>) = 0
    BY SubSeqEmpty, EmptySeq
  <2> QED BY <2>1, <2>2 DEF Stream!Unread
<1>10. Stream!Flush(t) = Strm(c, q, e, <<>>, 0, q)
  <2>1. PICK u : u = [w EXCEPT !.buf = <<>>]
    OBVIOUS
  <2>2. u = Strm(c, q, e, <<>>, 0, q)
    BY <1>6, <2>1 DEF Strm
  <2>3. [u EXCEPT !.off = 0] = Strm(c, q, e, <<>>, 0, q)
    BY <2>2 DEF Strm
  <2> QED BY <1>8, <1>9, <2>1, <2>3
<1>11. Whole(c, q, e, <<>>, 0, q)
  <2>1. q \in 0..Len(c) /\ (e => q = Len(c)) /\ q \in Nat
    BY <1>2, <1>3, <1>4
  <2>2. <<>> \in Seq(Bytes) /\ Len(<<>>) = 0
    BY EmptySeq
  <2> QED BY <1>3, <1>4, <2>1, <2>2, RoomIsPositive DEF Whole
<1> QED BY <1>1, <1>5, <1>6, <1>10, <1>11


(* A stream with nothing that waits to be written: between its position and   *)
(* the file's is what was read ahead.                                         *)
Calm(f, p, e, b, o, q) == Whole(f, p, e, b, o, q) /\ (b = <<>> \/ o < Len(b))

CalmFacts(f, p, e, b, o, q) ==
  /\ f \in Seq(Bytes) /\ p \in 0..Len(f) /\ q \in 0..p /\ e \in BOOLEAN /\ (e => p = Len(f))
  /\ Len(b) \in Nat /\ o \in 0..Len(b) /\ Len(b) - o = p - q
  /\ Piece(b, o, Len(b)) = Piece(f, q, p)

(* A stream with nothing to write: what it read ahead is what the file has.   *)
LEMMA CalmIs ==
  ASSUME NEW f, NEW p, NEW e, NEW b, NEW o, NEW q, Calm(f, p, e, b, o, q)
  PROVE  CalmFacts(f, p, e, b, o, q)
<1> USE DEF CalmFacts
<1>1. PICK n \in Nat, m \in Nat : n = Len(f) /\ m = Len(b)
  BY DEF Calm, Whole
<1>2. /\ f \in Seq(Bytes) /\ b \in Seq(Bytes) /\ p \in 0..n /\ e \in BOOLEAN /\ (e => p = n)
      /\ o \in 0..m /\ q \in Nat
  BY <1>1 DEF Calm, Whole
<1>3. CASE o < m
  <2>1. m <= p /\ b = Piece(f, p - m, p) /\ q = p - m + o
    BY <1>1, <1>3 DEF Calm, Whole
  <2>2. p \in Nat /\ n \in Nat /\ p <= n /\ o \in 0..m
    BY <1>1, <1>2
  <2>3. m <= p
    BY <2>1
  <2>4. PICK r \in Nat : r = p - m
    BY <2>2, <2>3
  <2>5. p = r + m /\ r + m <= n
    BY <2>2, <2>4
  <2>6. b = Piece(f, r, r + m) /\ q = r + o
    BY <2>1, <2>4, <2>5
  <2>7. Piece(Piece(f, r, r + m), o, m) = Piece(f, r + o, r + m)
    <3>1. f \in Seq(Bytes) /\ r + m <= Len(f)
      BY <1>1, <1>2, <2>5
    <3> QED BY <2>2, <3>1, PieceWithin
  <2>8. Piece(b, o, m) = Piece(f, q, p)
    BY <2>5, <2>6, <2>7
  <2>9. q \in 0..p /\ m - o = p - q
    BY <2>2, <2>4, <2>6
  <2> QED BY <1>1, <1>2, <2>8, <2>9
<1>4. CASE ~(o < m)
  <2>1. b = <<>> /\ m = 0 /\ o = 0 /\ q = p
    <3>1. b = <<>>
      BY <1>1, <1>4 DEF Calm
    <3>2. m = 0
      BY <1>1, <3>1, EmptySeq
    <3>3. q = p + m
      BY <1>1, <1>4 DEF Calm, Whole
    <3> QED BY <1>2, <3>1, <3>2, <3>3
  <2>2. Piece(b, 0, 0) = <<>> /\ Piece(f, p, p) = <<>>
    BY <1>1, <1>2, EmptyPiece
  <2>3. Piece(b, o, Len(b)) = Piece(f, q, p)
    BY <1>1, <2>1, <2>2
  <2> QED BY <1>1, <1>2, <2>1, <2>3
<1> QED BY <1>3, <1>4

(* Where a read stands.                                                       *)
Going(t, n, got) == [t |-> t, n |-> n, got |-> got, over |-> FALSE]
Over(t, n, got) == [t |-> t, n |-> n, got |-> got, over |-> TRUE]
Shaped(v) == v = IF v.over THEN Over(v.t, v.n, v.got) ELSE Going(v.t, v.n, v.got)

(* The parts of a read that goes on.                                          *)
LEMMA GoingFields ==
  ASSUME NEW t, NEW n, NEW got
  PROVE  /\ Going(t, n, got).t = t /\ Going(t, n, got).n = n /\ Going(t, n, got).got = got
         /\ ~Going(t, n, got).over /\ Shaped(Going(t, n, got))
BY DEF Going, Shaped

(* The parts of a read that is over.                                          *)
LEMMA OverFields ==
  ASSUME NEW t, NEW n, NEW got
  PROVE  /\ Over(t, n, got).t = t /\ Over(t, n, got).n = n /\ Over(t, n, got).got = got
         /\ Over(t, n, got).over /\ Shaped(Over(t, n, got))
BY DEF Over, Shaped

(* A read is ended and nothing else of it changes.                            *)
LEMMA OverIs ==
  ASSUME NEW t, NEW n, NEW got, NEW v, v = Going(t, n, got) \/ v = Over(t, n, got)
  PROVE  [v EXCEPT !.over = TRUE] = Over(t, n, got)
<1>1. ASSUME NEW a, NEW z
      PROVE  [[t |-> t, n |-> n, got |-> got, over |-> a] EXCEPT !.over = z]
               = [t |-> t, n |-> n, got |-> got, over |-> z]
  OBVIOUS
<1> QED BY <1>1 DEF Going, Over

(* One turn of a read, from a stream with nothing to write.                   *)
LEMMA ReadTurn ==
  ASSUME NEW f, NEW p, NEW e, NEW b, NEW o, NEW q, Calm(f, p, e, b, o, q),
         NEW n \in Nat, NEW got, NEW t, t = Strm(f, p, e, b, o, q),
         NEW v, v = Stream!ReadOn(Going(t, n, got)),
         NEW m, m = IF Room < Len(f) - p THEN Room ELSE Len(f) - p,
         NEW l, l = IF n - (p - q) < Len(f) - p THEN n - (p - q) ELSE Len(f) - p,
         NEW x, x = AtEnd(e, m, Room), NEW z, z = AtEnd(e, l, n - (p - q))
  PROVE  \/ /\ o = Len(b) /\ e
            /\ v = Over(t, n, got)
         \/ /\ n < p - q
            /\ v = Over(Strm(f, p, e, b, o + n, q + n), 0, got \o Front(Piece(f, q, p), n))
         \/ /\ n - (p - q) > Room /\ (o < Len(b) \/ ~e)
            /\ v = Over(Strm(f, p + l, z, <<>>, 0, p + Len(Piece(f, p, p + l))), 0,
                     got \o Piece(f, q, p) \o Piece(f, p, p + l))
         \/ /\ n >= p - q /\ n - (p - q) <= Room /\ (o < Len(b) \/ ~e)
            /\ v = Going(Strm(f, p + m, x, Piece(f, p, p + m), 0, p), n - (p - q), got \o Piece(f, q, p))
<1>1. /\ f \in Seq(Bytes) /\ p \in 0..Len(f) /\ q \in 0..p /\ e \in BOOLEAN /\ (e => p = Len(f))
      /\ Len(b) \in Nat /\ o \in 0..Len(b) /\ Len(b) - o = p - q
      /\ Piece(b, o, Len(b)) = Piece(f, q, p)
  BY CalmIs DEF CalmFacts
<1>2. PICK w : w = Going(t, n, got)
  OBVIOUS
<1>3. w.t = t /\ w.n = n /\ w.got = got /\ ~w.over
  BY <1>2, GoingFields
<1>4. PICK k \in Nat : k = p - q
  BY <1>1
<1> PICK rest : rest = Piece(f, q, p)
  OBVIOUS
<1>5. Len(rest) = k
  BY <1>1, <1>4, PieceTo
<1>6. Stream!Unread(t) = rest /\ (Stream!IsReadable(t) <=> o < Len(b) \/ ~e) /\ ~Stream!IsWriting(t)
  <2>1. ~(b # <<>> /\ o = Len(b))
    BY <1>1 DEF Calm
  <2> QED BY <1>1, <1>4, <2>1, Sides
<1>7. PICK used : used = Stream!Ahead(t, k)
  OBVIOUS
<1>8. used = Strm(f, p, e, b, Len(b), p)
  <2>1. used = Strm(f, p, e, b, o + k, q + k)
    BY <1>7, AheadIs
  <2>2. o + k = Len(b) /\ q + k = p
    BY <1>1, <1>4
  <2> QED BY <2>1, <2>2
<1>9. PICK more : more = Stream!Fill(used)
  OBVIOUS
<1>10. more = Strm(f, p + m, x, Piece(f, p, p + m), 0, p)
  BY <1>8, <1>9, FillIs
<1>11. PICK past : past = Stream!FileRead(Stream!Clear(used), n - k)
  OBVIOUS
<1>12. /\ past.t = Strm(f, p + l, z, <<>>, 0, p)
       /\ past.got = Piece(f, p, p + l)
  <2>1. PICK u : u = Stream!Clear(used)
    OBVIOUS
  <2>2. u = Strm(f, p, e, <<>>, 0, p)
    BY <1>8, <2>1, ClearIs
  <2>3. l = IF n - k < Len(f) - p THEN n - k ELSE Len(f) - p
    BY <1>4
  <2>4. z = AtEnd(e, l, n - k)
    BY <1>4
  <2> QED BY <1>11, <2>1, <2>2, <2>3, <2>4, FileReadIs
<1>13. ~(more.buf = <<>> /\ Stream!IsReadable(more))
  <2>1. SUFFICES ASSUME more.buf = <<>> PROVE ~Stream!IsReadable(more)
    OBVIOUS
  <2>2. m \in Nat /\ p + m <= Len(f)
    BY <1>1, RoomIsPositive
  <2>3. Piece(f, p, p + m) = <<>>
    BY <1>10, <2>1, PartsOf
  <2>4. m = 0
    <3>1. Len(Piece(f, p, p + m)) = m
      BY <1>1, <2>2, PieceIs
    <3> QED BY <2>3, <3>1, EmptySeq
  <2>5. m < Room
    BY <2>4, RoomIsPositive
  <2>6. PICK h : more = Strm(f, h, x, <<>>, 0, p)
    BY <1>10, <2>3
  <2>7. Stream!IsReadable(more) <=> 0 < Len(<<>>) \/ ~x
    BY <2>6, Sides
  <2>8. x
    BY <2>5 DEF AtEnd
  <2>9. ~(0 < Len(<<>>))
    BY EmptySeq
  <2> QED BY <2>7, <2>8, <2>9
<1>14. v = IF ~Stream!IsReadable(t) THEN [w EXCEPT !.over = TRUE] ELSE Stream!ReadFrom(t, n, got)
  BY <1>2, <1>3, <1>6 DEF Stream!ReadOn
<1> PICK a, y, i, j : a = past.t /\ y = past.got /\ i = p + l /\ j = p + Len(y)
  OBVIOUS
<1>20. a = Strm(f, i, z, <<>>, 0, p) /\ y = Piece(f, p, p + l)
  BY <1>12
<1>21. a.position = p
  BY <1>20, PartsOf
<1>22. Stream!ReadFrom(t, n, got) =
         IF n < k
         THEN Over(Stream!Ahead(t, n), 0, got \o Front(rest, n))
         ELSE IF n - k > Room
         THEN Over([a EXCEPT !.position = j], 0, got \o rest \o y)
         ELSE Going(more, n - k, got \o rest)
  BY <1>5, <1>6, <1>7, <1>9, <1>11, <1>13, <1>21 DEF Stream!ReadFrom, Going, Over, Front
<1>15. CASE ~Stream!IsReadable(t)
  <2>1. [w EXCEPT !.over = TRUE] = Over(t, n, got)
    BY <1>2, OverIs
  <2>2. o = Len(b) /\ e
    BY <1>1, <1>6, <1>15
  <2> QED BY <1>14, <1>15, <2>1, <2>2
<1>16. CASE Stream!IsReadable(t) /\ n < k
  <2>1. Stream!Ahead(t, n) = Strm(f, p, e, b, o + n, q + n)
    BY AheadIs
  <2> QED BY <1>4, <1>14, <1>16, <1>22, <2>1
<1>17. CASE Stream!IsReadable(t) /\ ~(n < k) /\ n - k > Room
  <2>1. [a EXCEPT !.position = j] = Strm(f, i, z, <<>>, 0, j)
    BY <1>20 DEF Strm
  <2>2. v = Over(Strm(f, i, z, <<>>, 0, j), 0, got \o rest \o y)
    BY <1>14, <1>17, <1>22, <2>1
  <2>3. n - (p - q) > Room /\ (o < Len(b) \/ ~e)
    BY <1>4, <1>6, <1>17
  <2> QED BY <1>20, <2>2, <2>3
<1>18. CASE Stream!IsReadable(t) /\ ~(n < k) /\ ~(n - k > Room)
  <2>1. n >= p - q /\ n - (p - q) <= Room /\ (o < Len(b) \/ ~e)
    BY <1>4, <1>6, <1>18, RoomIsPositive
  <2>2. v = Going(more, n - k, got \o rest)
    BY <1>14, <1>18, <1>22
  <2> QED BY <1>4, <1>10, <2>1, <2>2
<1> QED BY <1>15, <1>16, <1>17, <1>18


Calmly(t) == \E f, p, e, b, o, q : t = Strm(f, p, e, b, o, q) /\ Calm(f, p, e, b, o, q)

(* The buffer was just filled, as far as the file goes.                       *)
Fresh(t) ==
  \E f, p, e, b, q : t = Strm(f, p, e, b, 0, q) /\ Calm(f, p, e, b, 0, q) /\ (Len(b) = Room \/ e)

(* Where a read at q of n bytes ends.                                         *)
Until(c, q, n) == IF q + n < Len(c) THEN q + n ELSE Len(c)

(* What a read at q of n bytes has come to, when it had got before.           *)
Reads(v, c, q, n, got) ==
  \E r \in q..Len(c) :
    /\ Calmly(v.t) /\ v.t.file = c /\ v.t.position = r
    /\ v.got = got \o Piece(c, q, r)
    /\ Shaped(v)
    /\ v.n \in Nat
    /\ v.over => r = Until(c, q, n)
    /\ ~v.over => v.n + r = q + n /\ v.n <= Room /\ Fresh(v.t)

(* A read that is over and stands where it should has read.                   *)
LEMMA OverReads ==
  ASSUME NEW c \in Seq(Bytes), NEW q \in Nat, NEW n \in Nat, NEW got, NEW r \in q..Len(c),
         r = Until(c, q, n), NEW u, Calmly(u), u.file = c, u.position = r, NEW m \in Nat
  PROVE  Reads(Over(u, m, got \o Piece(c, q, r)), c, q, n, got)
<1>1. PICK g, v : g = got \o Piece(c, q, r) /\ v = Over(u, m, g)
  OBVIOUS
<1>2. v.t = u /\ v.n = m /\ v.got = g /\ v.over /\ Shaped(v)
  <2>1. v.t = u
    BY <1>1, OverFields
  <2>5. v.n = m
    BY <1>1, OverFields
  <2>4. v.got = g
    BY <1>1 DEF Over
  <2>2. v.over
    BY <1>1, OverFields
  <2>3. Shaped(v)
    BY <1>1, OverFields
  <2> QED BY <2>1, <2>2, <2>3, <2>4, <2>5
<1>3. Reads(v, c, q, n, got)
  BY <1>1, <1>2 DEF Reads
<1> QED BY <1>1, <1>3

(* With a new buffer and less than one to get a read has come so far.         *)
LEMMA GoingReads ==
  ASSUME NEW c \in Seq(Bytes), NEW q \in Nat, NEW n \in Nat, NEW got, NEW r \in q..Len(c),
         NEW u, Calmly(u), Fresh(u), u.file = c, u.position = r,
         NEW m \in Nat, m <= Room, m + r = q + n
  PROVE  Reads(Going(u, m, got \o Piece(c, q, r)), c, q, n, got)
<1>1. PICK g, v : g = got \o Piece(c, q, r) /\ v = Going(u, m, g)
  OBVIOUS
<1>2. v.t = u /\ v.n = m /\ v.got = g /\ ~v.over /\ Shaped(v)
  <2>1. v.t = u
    BY <1>1, GoingFields
  <2>5. v.n = m
    BY <1>1, GoingFields
  <2>4. v.got = g
    BY <1>1 DEF Going
  <2>2. ~v.over
    BY <1>1, GoingFields
  <2>3. Shaped(v)
    BY <1>1, GoingFields
  <2> QED BY <2>1, <2>2, <2>3, <2>4, <2>5
<1>3. Reads(v, c, q, n, got)
  BY <1>1, <1>2 DEF Reads
<1> QED BY <1>1, <1>3

(* In the buffer, back or on, there is as much to be read.                    *)
LEMMA MovedIs ==
  ASSUME NEW f, NEW p, NEW e, NEW b, NEW o, NEW q, Calm(f, p, e, b, o, q), NEW d \in Int,
         NEW o2 \in 0..Len(b), o2 = o + d, o2 < Len(b), NEW q2, q2 = q + d
  PROVE  Calm(f, p, e, b, o2, q2)
<1>1. PICK m \in Nat, n \in Nat : m = Len(b) /\ n = Len(f)
  BY DEF Calm, Whole
<1>2. b # <<>>
  BY <1>1, EmptySeq
<1>3. o < m
  BY <1>1, <1>2 DEF Calm
<1>4. /\ f \in Seq(Bytes) /\ e \in BOOLEAN /\ (e => p = Len(f)) /\ b \in Seq(Bytes)
      /\ Len(b) <= Room
  BY DEF Calm, Whole
<1>5. p \in 0..n /\ o \in 0..m /\ m <= p /\ q = p - m + o
  BY <1>1, <1>3 DEF Calm, Whole
<1>6. b = Piece(f, p - Len(b), p)
  BY <1>1, <1>3 DEF Calm, Whole
<1>7. q2 \in Nat /\ q2 = p - m + o2
  BY <1>1, <1>5
<1>8. Whole(f, p, e, b, o2, q2)
  <2>1. p \in 0..Len(f) /\ Len(b) <= p /\ q2 = p - Len(b) + o2
    BY <1>1, <1>5, <1>7
  <2> QED BY <1>4, <1>6, <1>7, <2>1 DEF Whole
<1> QED BY <1>8 DEF Calm

(* An empty buffer has nothing to write.                                      *)
LEMMA EmptyIsCalm ==
  ASSUME NEW f \in Seq(Bytes), NEW p \in 0..Len(f), NEW e \in BOOLEAN, e => p = Len(f)
  PROVE  Calm(f, p, e, <<>>, 0, p)
BY EmptySeq, RoomIsPositive DEF Calm, Whole

(* A new buffer is full, or the end was met.                                  *)
LEMMA FilledIsFresh ==
  ASSUME NEW f \in Seq(Bytes), NEW p \in 0..Len(f), NEW e \in BOOLEAN, e => p = Len(f),
         NEW m, m = IF Room < Len(f) - p THEN Room ELSE Len(f) - p, NEW x, x = AtEnd(e, m, Room),
         NEW i, i = p + m, NEW d, d = Piece(f, p, i)
  PROVE  /\ Calm(f, i, x, d, 0, p) /\ (Len(d) = Room \/ x) /\ i \in p..Len(f)
         /\ d \in Seq(Bytes) /\ Len(d) = m /\ m \in 0..Room
<1>1. PICK n \in Nat : n = Len(f) /\ p \in 0..n
  OBVIOUS
<1>2. m \in 0..Room /\ i \in p..n /\ (m < Room => i = n)
  BY <1>1, RoomIsPositive
<1>3. d \in Seq(Bytes) /\ Len(d) = m
  <2>1. i \in 0..Len(f) /\ p \in 0..i
    BY <1>1, <1>2
  <2>2. d \in Seq(Bytes) /\ Len(d) = i - p
    BY <2>1, PieceTo
  <2> QED BY <1>1, <1>2, <2>2
<1>4. x \in BOOLEAN /\ (x => i = n) /\ (m = Room \/ x)
  <2>1. x <=> e \/ m < Room
    BY DEF AtEnd
  <2>2. x \in BOOLEAN
    BY DEF AtEnd
  <2>3. e => i = n
    BY <1>1, <1>2
  <2> QED BY <1>2, <2>1, <2>2, <2>3, RoomIsPositive
<1>5. i - m = p /\ i - m + 0 = p
  BY <1>1, <1>2
<1>6. Whole(f, i, x, d, 0, p)
  <2>1. i \in 0..Len(f) /\ Len(d) <= Room /\ 0 \in 0..Len(d) /\ p \in Nat /\ m \in Nat /\ m <= i
    BY <1>1, <1>2, <1>3, RoomIsPositive
  <2>2. CASE 0 < Len(d)
    <3>1. Len(d) <= i /\ d = Piece(f, i - Len(d), i) /\ p = i - Len(d) + 0
      BY <1>3, <1>5, <2>1
    <3> QED BY <1>1, <1>3, <1>4, <2>1, <2>2, <3>1 DEF Whole
  <2>3. CASE ~(0 < Len(d))
    <3>1. p = i + Len(d)
      <4>1. Len(d) = 0 /\ m = 0
        BY <1>3, <2>1, <2>3
      <4>2. i = p
        BY <1>1, <4>1
      <4> QED BY <1>1, <4>1, <4>2
    <3> QED BY <1>1, <1>3, <1>4, <2>1, <2>3, <3>1 DEF Whole
  <2> QED BY <2>2, <2>3
<1>7. d = <<>> \/ 0 < Len(d)
  BY <1>2, <1>3, EmptySeq, RoomIsPositive
<1> QED BY <1>1, <1>2, <1>3, <1>4, <1>6, <1>7 DEF Calm

(* A turn of a read gets what there is, and either ends it where it should or *)
(* leaves a new buffer.                                                       *)
LEMMA TurnReads ==
  ASSUME NEW f, NEW p, NEW e, NEW b, NEW o, NEW q, Calm(f, p, e, b, o, q),
         NEW n \in Nat, NEW got \in Seq(Bytes), NEW t, t = Strm(f, p, e, b, o, q),
         NEW v, v = Stream!ReadOn(Going(t, n, got))
  PROVE  Reads(v, f, q, n, got)
<1>1. /\ f \in Seq(Bytes) /\ p \in 0..Len(f) /\ q \in 0..p /\ e \in BOOLEAN /\ (e => p = Len(f))
      /\ Len(b) \in Nat /\ o \in 0..Len(b) /\ Len(b) - o = p - q
  BY CalmIs DEF CalmFacts
<1>2. PICK m, l : /\ m = IF Room < Len(f) - p THEN Room ELSE Len(f) - p
                  /\ l = IF n - (p - q) < Len(f) - p THEN n - (p - q) ELSE Len(f) - p
  OBVIOUS
<1>3. PICK x, z : x = AtEnd(e, m, Room) /\ z = AtEnd(e, l, n - (p - q))
  OBVIOUS
<1>4. PICK c \in Nat : c = Len(f) /\ p \in 0..c /\ q \in 0..c
  BY <1>1
<1>5. Until(f, q, n) = IF q + n < c THEN q + n ELSE c
  BY <1>4 DEF Until
<1>6. CASE /\ o = Len(b) /\ e
           /\ v = Over(t, n, got)
  <2>1. q \in q..Len(f) /\ q = Until(f, q, n)
    <3>1. q = p /\ p = Len(f)
      BY <1>1, <1>6
    <3> QED BY <1>4, <1>5, <3>1
  <2>2. t.file = f /\ t.position = q /\ Calmly(t)
    BY PartsOf DEF Calmly
  <2>3. got = got \o Piece(f, q, q)
    <3>1. Piece(f, q, q) = <<>>
      BY <1>1, EmptyPiece
    <3> QED BY <3>1, ConcatEmptySeq
  <2>4. v = Over(t, n, got \o Piece(f, q, q))
    <3>1. PICK g : g = got \o Piece(f, q, q)
      OBVIOUS
    <3>2. v = Over(t, n, g)
      BY <1>6, <2>3, <3>1
    <3> QED BY <3>1, <3>2
  <2>5. q \in Nat
    BY <1>1
  <2> QED BY <1>1, <2>1, <2>2, <2>4, <2>5, OverReads
<1>7. CASE /\ n < p - q
           /\ v = Over(Strm(f, p, e, b, o + n, q + n), 0, got \o Front(Piece(f, q, p), n))
  <2>1. PICK u, g, o2, r : /\ u = Strm(f, p, e, b, o2, r) /\ g = got \o Front(Piece(f, q, p), n)
                           /\ o2 = o + n /\ r = q + n
    OBVIOUS
  <2>2. v = Over(u, 0, g)
    BY <1>7, <2>1
  <2>3. o2 \in 0..Len(b) /\ o2 < Len(b) /\ r \in q..p /\ r \in q..Len(f) /\ n = r - q
        /\ r = Until(f, q, n)
    BY <1>1, <1>4, <1>5, <1>7, <2>1
  <2>4. Calm(f, p, e, b, o2, r)
    BY <2>1, <2>3, MovedIs
  <2>5. Calmly(u) /\ u.file = f /\ u.position = r
    BY <2>1, <2>4, PartsOf DEF Calmly
  <2>6. g = got \o Piece(f, q, r)
    <3>1. Front(Piece(f, q, p), n) = Piece(f, q, r)
      BY <1>1, <2>3, FrontOfPiece
    <3> QED BY <2>1, <3>1
  <2>7. v = Over(u, 0, got \o Piece(f, q, r)) /\ q \in Nat /\ 0 \in Nat
    BY <1>1, <2>2, <2>6
  <2> QED BY <1>1, <2>3, <2>5, <2>7, OverReads
<1>8. CASE /\ n - (p - q) > Room /\ (o < Len(b) \/ ~e)
           /\ v = Over(Strm(f, p + l, z, <<>>, 0, p + Len(Piece(f, p, p + l))), 0, got \o Piece(f, q, p) \o Piece(f, p, p + l))
  <2>1. PICK r : r = p + l
    OBVIOUS
  <2>2. r \in p..c /\ r = Until(f, q, n) /\ (l < n - (p - q) => r = c) /\ l = r - p
    BY <1>1, <1>2, <1>4, <1>5, <1>8, <2>1, RoomIsPositive
  <2>3. PICK y, d : y = Piece(f, q, p) /\ d = Piece(f, p, r)
    OBVIOUS
  <2>4. r \in 0..Len(f) /\ p \in 0..r /\ r \in q..Len(f)
    BY <1>1, <1>4, <2>2
  <2>5. /\ y \in Seq(Bytes) /\ d \in Seq(Bytes) /\ Len(d) = r - p
        /\ y \o d = Piece(f, q, r)
    BY <1>1, <2>3, <2>4, PieceTo, PiecesTo
  <2>6. PICK u, g : u = Strm(f, r, z, <<>>, 0, r) /\ g = got \o y \o d
    OBVIOUS
  <2>7. p + Len(d) = r
    BY <1>4, <2>2, <2>5
  <2>8. v = Over(u, 0, g)
    BY <1>8, <2>1, <2>3, <2>6, <2>7
  <2>9. z \in BOOLEAN /\ (z => r = Len(f))
    <3>1. z <=> e \/ l < n - (p - q)
      BY <1>3 DEF AtEnd
    <3>2. z \in BOOLEAN
      BY <1>3 DEF AtEnd
    <3>3. e => r = Len(f)
      BY <1>1, <1>4, <2>2
    <3> QED BY <1>4, <2>2, <3>1, <3>2, <3>3
  <2>10. Calmly(u) /\ u.file = f /\ u.position = r
    <3>1. Calm(f, r, z, <<>>, 0, r)
      BY <1>1, <2>4, <2>9, EmptyIsCalm
    <3> QED BY <2>6, <3>1, PartsOf DEF Calmly
  <2>11. g = got \o Piece(f, q, r)
    <3>1. got \o y \o d = got \o (y \o d)
      <4>1. y \in Seq(Bytes) /\ d \in Seq(Bytes)
        BY <2>5
      <4> QED BY <4>1, ConcatAssociative
    <3> QED BY <2>5, <2>6, <3>1
  <2>12. v = Over(u, 0, got \o Piece(f, q, r)) /\ q \in Nat /\ 0 \in Nat
    BY <1>1, <2>8, <2>11
  <2> QED BY <1>1, <2>2, <2>4, <2>10, <2>12, OverReads
<1>9. CASE /\ n >= p - q /\ n - (p - q) <= Room /\ (o < Len(b) \/ ~e)
           /\ v = Going(Strm(f, p + m, x, Piece(f, p, p + m), 0, p), n - (p - q), got \o Piece(f, q, p))
  <2>1. PICK d, i, u, g, left : /\ i = p + m /\ d = Piece(f, p, i) /\ u = Strm(f, i, x, d, 0, p)
                                /\ g = got \o Piece(f, q, p) /\ left = n - (p - q)
    OBVIOUS
  <2>2. v = Going(u, left, g)
    BY <1>9, <2>1
  <2>3. Calm(f, i, x, d, 0, p) /\ (Len(d) = Room \/ x)
    BY <1>1, <1>2, <1>3, <2>1, FilledIsFresh
  <2>4. Calmly(u) /\ Fresh(u) /\ u.file = f /\ u.position = p
    BY <2>1, <2>3, PartsOf DEF Calmly, Fresh
  <2>5. left \in Nat /\ left <= Room /\ left + p = q + n /\ p \in q..Len(f)
    BY <1>1, <1>4, <1>9, <2>1
  <2>6. v = Going(u, left, got \o Piece(f, q, p)) /\ q \in Nat
    BY <1>1, <2>1, <2>2
  <2> QED BY <1>1, <2>4, <2>5, <2>6, GoingReads
<1> QED BY <1>2, <1>3, <1>6, <1>7, <1>8, <1>9, ReadTurn


(* What a read got up to a place and what it gets from there are one.         *)
LEMMA ReadsOn ==
  ASSUME NEW c \in Seq(Bytes), NEW q \in Nat, NEW n \in Nat, NEW s \in q..Len(c), NEW h \in Nat,
         h + s = q + n, NEW w, Reads(w, c, s, h, Piece(c, q, s))
  PROVE  Reads(w, c, q, n, <<>>)
<1>1. PICK r \in s..Len(c) :
        /\ Calmly(w.t) /\ w.t.file = c /\ w.t.position = r
        /\ w.got = Piece(c, q, s) \o Piece(c, s, r)
        /\ Shaped(w)
        /\ w.n \in Nat
        /\ w.over => r = Until(c, s, h)
        /\ ~w.over => w.n + r = s + h /\ w.n <= Room /\ Fresh(w.t)
  BY DEF Reads
<1>2. PICK l \in Nat : l = Len(c)
  OBVIOUS
<1>3. r \in q..Len(c) /\ q \in 0..s /\ s \in 0..r /\ r \in 0..Len(c) /\ q \in 0..r
  BY <1>2
<1>4. w.got = Piece(c, q, r)
  BY <1>1, <1>3, PiecesTo
<1>5. <<>> \o Piece(c, q, r) = Piece(c, q, r)
  <2>1. Piece(c, q, r) \in Seq(Bytes)
    BY <1>3, PieceTo
  <2> QED BY <2>1, ConcatEmptySeq
<1>6. Until(c, s, h) = Until(c, q, n)
  <2>1. s + h = q + n
    OBVIOUS
  <2> QED BY <2>1 DEF Until
<1>7. ~w.over => w.n + r = q + n /\ w.n <= Room /\ Fresh(w.t)
  <2>1. s + h = q + n
    OBVIOUS
  <2> QED BY <1>1, <2>1
<1>8. w.over => r = Until(c, q, n)
  BY <1>1, <1>6
<1>9. w.got = <<>> \o Piece(c, q, r)
  BY <1>4, <1>5
<1> QED BY <1>1, <1>3, <1>7, <1>8, <1>9 DEF Reads

(* A read that is over takes no further turn.                                 *)
LEMMA OverStays ==
  ASSUME NEW v, Shaped(v), v.over
  PROVE  Stream!ReadOn(v) = v
<1>1. Stream!ReadOn(v) = [v EXCEPT !.over = TRUE]
  BY DEF Stream!ReadOn
<1>2. v = Over(v.t, v.n, v.got)
  BY DEF Shaped
<1> QED BY <1>1, <1>2, OverIs

(* The read is at its end, or the new buffer is.                              *)
Nearly(v) == v.n = 0 \/ ~Stream!IsReadable(v.t)

(* A turn with a new buffer ends the read, or the next one will.              *)
LEMMA FreshTurn ==
  ASSUME NEW f, NEW p, NEW e, NEW b, NEW q, Calm(f, p, e, b, 0, q), Len(b) = Room \/ e,
         NEW n \in Nat, n <= Room, NEW got, NEW t, t = Strm(f, p, e, b, 0, q),
         NEW v, v = Stream!ReadOn(Going(t, n, got))
  PROVE  /\ v.over \/ Nearly(v)
         /\ n = 0 \/ ~Stream!IsReadable(t) => v.over
<1>1. /\ f \in Seq(Bytes) /\ p \in 0..Len(f) /\ q \in 0..p /\ e \in BOOLEAN /\ (e => p = Len(f))
      /\ Len(b) \in Nat /\ Len(b) - 0 = p - q
  BY CalmIs DEF CalmFacts
<1>2. PICK m, l : /\ m = IF Room < Len(f) - p THEN Room ELSE Len(f) - p
                  /\ l = IF n - (p - q) < Len(f) - p THEN n - (p - q) ELSE Len(f) - p
  OBVIOUS
<1> PICK x, z : x = AtEnd(e, m, Room) /\ z = AtEnd(e, l, n - (p - q))
  OBVIOUS
<1>3. \/ v.over
      \/ /\ n >= p - q /\ n - (p - q) <= Room /\ (0 < Len(b) \/ ~e)
         /\ v = Going(Strm(f, p + m, x, Piece(f, p, p + m), 0, p), n - (p - q), got \o Piece(f, q, p))
  <2>1. \A a, i, y : Over(a, i, y).over
    BY DEF Over
  <2> QED BY <1>2, <2>1, ReadTurn
<1>4. CASE v.over
  BY <1>4
<1>5. CASE /\ n >= p - q /\ n - (p - q) <= Room /\ (0 < Len(b) \/ ~e)
           /\ v = Going(Strm(f, p + m, x, Piece(f, p, p + m), 0, p), n - (p - q), got \o Piece(f, q, p))
  <2>1. PICK d, u : /\ d = Piece(f, p, p + m)
                    /\ u = Strm(f, p + m, x, d, 0, p)
    OBVIOUS
  <2>2. ~v.over /\ v.n = n - (p - q) /\ v.t = u
    BY <1>5, <2>1, GoingFields
  <2>3. 0 < Len(b) /\ p - q = Len(b)
    BY <1>1, <1>5, RoomIsPositive
  <2>4. n # 0
    BY <1>1, <1>5, <2>3
  <2>5. Stream!IsReadable(t)
    BY <2>3, Sides
  <2>6. CASE Len(b) = Room
    <3>1. n - (p - q) = 0
      BY <1>1, <1>5, <2>3, <2>6, RoomIsPositive
    <3> QED BY <2>2, <2>4, <2>5, <3>1 DEF Nearly
  <2>7. CASE e
    <3>1. m = 0
      BY <1>1, <1>2, <2>7, RoomIsPositive
    <3>2. d = <<>> /\ x
      <4>1. Piece(f, p, p + 0) = <<>>
        <5>1. Piece(f, p, p) = <<>> /\ p + 0 = p
          BY <1>1, EmptyPiece
        <5> QED BY <5>1
      <4> QED BY <2>1, <2>7, <3>1, <4>1 DEF AtEnd
    <3>3. ~Stream!IsReadable(u)
      <4>1. Stream!IsReadable(u) <=> 0 < Len(d) \/ ~x
        BY <2>1, Sides
      <4> QED BY <3>2, <4>1, EmptySeq
    <3> QED BY <2>2, <2>4, <2>5, <3>3 DEF Nearly
  <2> QED BY <2>6, <2>7
<1> QED BY <1>3, <1>4, <1>5

(* A read, of as many bytes as there are.                                     *)
LEMMA ReadIs ==
  ASSUME NEW f, NEW p, NEW e, NEW b, NEW o, NEW q, Calm(f, p, e, b, o, q),
         NEW n \in Nat, NEW t, t = Strm(f, p, e, b, o, q)
  PROVE  /\ Calmly(Stream!ReadIndirect(t, n).t)
         /\ Stream!ReadIndirect(t, n).t.file = f
         /\ Stream!ReadIndirect(t, n).t.position = Until(f, q, n)
         /\ Stream!ReadIndirect(t, n).got = Piece(f, q, Until(f, q, n))
<1>1. f \in Seq(Bytes) /\ Len(f) \in Nat /\ p \in 0..Len(f) /\ q \in 0..p
  BY CalmIs DEF CalmFacts
<1>2. PICK v1, v2, v3 : /\ v1 = Stream!ReadOn(Going(t, n, <<>>))
                        /\ v2 = Stream!ReadOn(v1) /\ v3 = Stream!ReadOn(v2)
  OBVIOUS
<1>3. Stream!ReadIndirect(t, n) = v3
  BY <1>2 DEF Stream!ReadIndirect, Stream!Asked, Going
<1>4. SUFFICES Reads(v3, f, q, n, <<>>) /\ v3.over
  <2>1. PICK r \in q..Len(f) :
          /\ Calmly(v3.t) /\ v3.t.file = f /\ v3.t.position = r
          /\ v3.got = <<>> \o Piece(f, q, r)
          /\ r = Until(f, q, n)
    BY <1>4 DEF Reads
  <2>2. r \in 0..Len(f) /\ q \in 0..r
    BY <1>1
  <2>3. Piece(f, q, r) \in Seq(Bytes)
    BY <1>1, <2>2, PieceTo
  <2>4. <<>> \o Piece(f, q, r) = Piece(f, q, r)
    BY <2>3, ConcatEmptySeq
  <2> QED BY <1>3, <2>1, <2>2, <2>4
<1>5. Reads(v1, f, q, n, <<>>)
  <2>1. <<>> \in Seq(Bytes)
    BY EmptySeq
  <2> QED BY <1>2, <2>1, TurnReads
<1>6. ASSUME NEW v, NEW w, w = Stream!ReadOn(v), Reads(v, f, q, n, <<>>)
      PROVE  /\ Reads(w, f, q, n, <<>>)
             /\ v.over => w = v
             /\ ~v.over => w.over \/ Nearly(w)
             /\ ~v.over /\ Nearly(v) => w.over
  <2>1. CASE v.over
    <3>1. Shaped(v)
      BY <1>6 DEF Reads
    <3>2. w = v
      BY <1>6, <2>1, <3>1, OverStays
    <3> QED BY <1>6, <2>1, <3>2
  <2>2. CASE ~v.over
    <3>1. PICK s \in q..Len(f) :
            /\ v.t.file = f /\ v.t.position = s
            /\ v.got = <<>> \o Piece(f, q, s)
            /\ Shaped(v)
            /\ v.n \in Nat
            /\ v.n + s = q + n /\ v.n <= Room /\ Fresh(v.t)
      BY <1>6, <2>2 DEF Reads
    <3> PICK u, h, g : u = v.t /\ h = v.n /\ g = v.got
      OBVIOUS
    <3>2. PICK f2, p2, e2, b2, q2 :
            u = Strm(f2, p2, e2, b2, 0, q2) /\ Calm(f2, p2, e2, b2, 0, q2) /\ (Len(b2) = Room \/ e2)
      BY <3>1 DEF Fresh
    <3>3. f2 = f /\ q2 = s
      <4>1. u.file = f /\ u.position = s
        BY <3>1
      <4> QED BY <3>2, <4>1, PartsOf
    <3>4. w = Stream!ReadOn(Going(u, h, g))
      <4>1. v = Going(u, h, g)
        BY <2>2, <3>1 DEF Shaped
      <4> QED BY <1>6, <4>1
    <3>5. h \in Nat /\ h <= Room /\ h + s = q + n
      BY <3>1
    <3>6. g \in Seq(Bytes) /\ g = Piece(f, q, s)
      <4>1. s \in 0..Len(f) /\ q \in 0..s
        BY <1>1
      <4>2. Piece(f, q, s) \in Seq(Bytes)
        BY <1>1, <4>1, PieceTo
      <4>3. <<>> \o Piece(f, q, s) = Piece(f, q, s)
        BY <4>2, ConcatEmptySeq
      <4> QED BY <3>1, <4>2, <4>3
    <3>7. Reads(w, f, s, h, Piece(f, q, s))
      <4>1. Reads(w, f2, q2, h, g)
        BY <3>2, <3>4, <3>5, <3>6, TurnReads
      <4> QED BY <3>3, <3>6, <4>1
    <3>8. Reads(w, f, q, n, <<>>)
      <4>1. q \in Nat
        BY <1>1
      <4> QED BY <1>1, <3>5, <3>7, <4>1, ReadsOn
    <3>9. /\ w.over \/ Nearly(w)
          /\ h = 0 \/ ~Stream!IsReadable(u) => w.over
      BY <3>2, <3>4, <3>5, FreshTurn
    <3> QED BY <2>2, <3>2, <3>8, <3>9 DEF Nearly
  <2> QED BY <2>1, <2>2
<1>7. /\ Reads(v2, f, q, n, <<>>) /\ (v1.over => v2 = v1) /\ (~v1.over => v2.over \/ Nearly(v2))
  BY <1>2, <1>5, <1>6
<1>8. /\ Reads(v3, f, q, n, <<>>) /\ (v2.over => v3 = v2) /\ (~v2.over /\ Nearly(v2) => v3.over)
  BY <1>2, <1>6, <1>7
<1> QED BY <1>7, <1>8


-----------------------------------------------------------------------------
(* A set of numbers that is not empty has a least one.                        *)
LEMMA LeastNumber ==
  ASSUME NEW T \in SUBSET Nat, T # {}
  PROVE  \E x \in T : \A y \in T : x <= y
<1>1. PICK x \in T : \A y \in T : ~(<<y, x>> \in OpToRel(<, Nat))
  BY NatLessThanWellFounded, WFMin
<1>2. ASSUME NEW y \in T PROVE ~(y < x)
  BY <1>1, <1>2 DEF OpToRel
<1> QED BY <1>2

(* A smaller number is among those up to n.                                   *)
LEMMA UpTo ==
  ASSUME NEW n \in Nat, NEW good, 0 \in good,
         \A k \in 1..n : k - 1 \in good => k \in good
  PROVE  \A k \in 0..n : k \in good
<1> SUFFICES ASSUME \E k \in 0..n : k \notin good PROVE FALSE
  OBVIOUS
<1>1. PICK T : T = {k \in 0..n : k \notin good}
  OBVIOUS
<1>2. PICK k \in T : \A l \in T : k <= l
  <2>1. T \in SUBSET Nat /\ T # {}
    BY <1>1
  <2> QED BY <2>1, LeastNumber
<1>3. k \in 1..n /\ k - 1 \in 0..n /\ k - 1 \notin T
  BY <1>1, <1>2
<1> QED BY <1>1, <1>2, <1>3

(* A loop of n turns from start, each turn a step of S.                      *)
Turns(n, S) == [(1..n) \X S -> S]
Runs(loop, n, S, start, turn) ==
  /\ loop \in [0..n -> S] /\ loop[0] = start
  /\ \A k \in 1..n : loop[k] = turn[<<k, loop[k - 1]>>]

(* A loop whose every turn makes a state of the one before it has a state   *)
(* after each turn.                                                         *)
LEMMA LoopRuns ==
  ASSUME NEW n \in Nat, NEW S, NEW start \in S, NEW turn \in Turns(n, S)
  PROVE  \E loop : Runs(loop, n, S, start, turn)
<1> DEFINE Run(m, f) == f \in [0..m -> S] /\ f[0] = start
                        /\ \A k \in 1..m : f[k] = turn[<<k, f[k - 1]>>]
<1>1. PICK T : T = {m \in 0..n : ~\E f : Run(m, f)}
  OBVIOUS
<1>2. T = {}
  <2> SUFFICES ASSUME T # {} PROVE FALSE
    OBVIOUS
  <2>1. PICK m \in T : \A l \in T : m <= l
    <3>1. T \in SUBSET Nat
      BY <1>1
    <3> QED BY <3>1, LeastNumber
  <2>2. m \in 0..n /\ ~\E f : Run(m, f)
    BY <1>1
  <2>3. CASE m = 0
    <3>1. PICK f : f = [k \in 0..0 |-> start]
      OBVIOUS
    <3>2. Run(0, f)
      BY <3>1
    <3> QED BY <2>2, <2>3, <3>2
  <2>4. CASE m # 0
    <3>1. m - 1 \in 0..n /\ m - 1 \notin T
      BY <2>1, <2>2, <2>4
    <3>2. PICK f : Run(m - 1, f)
      BY <1>1, <3>1
    <3>3. f[m - 1] \in S /\ m \in 1..n
      BY <2>2, <2>4, <3>2
    <3>4. PICK x \in S : x = turn[<<m, f[m - 1]>>]
      BY <3>3 DEF Turns
    <3>5. PICK g : g = [k \in 0..m |-> IF k = m THEN x ELSE f[k]]
      OBVIOUS
    <3>6. \A k \in 0..(m - 1) : g[k] = f[k]
      BY <2>2, <3>5
    <3>7. g[m] = x
      BY <2>2, <3>5
    <3>8. g \in [0..m -> S]
      BY <2>2, <3>2, <3>5
    <3>9. g[0] = start
      BY <2>2, <2>4, <3>2, <3>6
    <3>10. ASSUME NEW k \in 1..m PROVE g[k] = turn[<<k, g[k - 1]>>]
      <4>1. k - 1 \in 0..(m - 1) /\ g[k - 1] = f[k - 1]
        BY <2>2, <3>6, <3>10
      <4>2. CASE k = m
        BY <3>4, <3>7, <4>1, <4>2
      <4>3. CASE k # m
        <5>1. k \in 1..(m - 1) /\ g[k] = f[k]
          BY <2>2, <3>6, <4>3
        <5> QED BY <3>2, <4>1, <5>1
      <4> QED BY <4>2, <4>3
    <3>11. Run(m, g)
      BY <3>8, <3>9, <3>10
    <3> QED BY <2>2, <3>11
  <2> QED BY <2>3, <2>4
<1>3. PICK f : Run(n, f)
  <2>1. n \in 0..n /\ n \notin T
    BY <1>2
  <2> QED BY <1>1, <2>1
<1> QED BY <1>3 DEF Runs

Strms == [file : Seq(Bytes), pos : Nat, eof : BOOLEAN, buf : Seq(Bytes), off : Nat, position : Nat]

(* What is to be skipped of a stream.                                         *)
Skipping == {w \in [t : Strms, n : Nat] : Calmly(w.t)}

(* A stream with nothing to write is one of the loop below.                   *)
LEMMA CalmIsStrm ==
  ASSUME NEW f, NEW p, NEW e, NEW b, NEW o, NEW q, Calm(f, p, e, b, o, q)
  PROVE  Strm(f, p, e, b, o, q) \in Strms
<1>1. f \in Seq(Bytes) /\ p \in Nat /\ q \in Nat /\ e \in BOOLEAN /\ o \in Nat
  BY CalmIs DEF CalmFacts
<1>2. b \in Seq(Bytes)
  BY DEF Calm, Whole
<1> QED BY <1>1, <1>2 DEF Strm, Strms

(* One turn of a skip: all, or a buffer at most, or to the end.               *)
LEMMA SkipOnIs ==
  ASSUME NEW f \in Seq(Bytes), NEW p, NEW e, NEW b, NEW o, NEW q \in 0..Len(f),
         Calm(f, p, e, b, o, q), NEW n \in Nat, NEW t, t = Strm(f, p, e, b, o, q),
         NEW w, w = [t |-> t, n |-> n]
  PROVE  \E u \in Strms, r \in q..Len(f), j \in Nat :
           /\ Stream!SkipOn(w) = [t |-> u, n |-> j] /\ Calmly(u) /\ u.file = f /\ u.position = r
           /\ r <= q + n /\ (n > 0 /\ r = q => q = Len(f))
           /\ j = IF r = q THEN 0 ELSE n - (r - q)
<1>1. w.t = t /\ w.n = n
  OBVIOUS
<1>2. PICK c \in Nat : c = Len(f) /\ q \in 0..c
  OBVIOUS
<1>3. CASE n = 0
  <2>1. Stream!SkipOn(w) = w
    BY <1>1, <1>3 DEF Stream!SkipOn
  <2>2. Calmly(t) /\ t.file = f /\ t.position = q /\ t \in Strms
    BY CalmIsStrm, PartsOf DEF Calmly
  <2>3. PICK u \in Strms, r \in q..Len(f), j \in Nat : u = t /\ r = q /\ j = n
    BY <2>2
  <2>4. Stream!SkipOn(w) = [t |-> u, n |-> j]
    BY <2>1, <2>3
  <2>5. r <= q + n /\ ~(n > 0) /\ j = IF r = q THEN 0 ELSE n - (r - q)
    BY <1>2, <1>3, <2>3
  <2>6. Calmly(u) /\ u.file = f /\ u.position = r
    BY <2>2, <2>3
  <2> QED BY <2>4, <2>5, <2>6
<1>4. CASE n # 0
  <2>1. PICK m \in Nat : m = Stream!Least(n, Room)
    BY RoomIsPositive DEF Stream!Least
  <2>2. m > 0 /\ m <= n
    BY <1>4, <2>1, RoomIsPositive DEF Stream!Least
  <2>3. PICK x : x = Stream!ReadIndirect(t, m)
    OBVIOUS
  <2>4. PICK r : r = Until(f, q, m)
    OBVIOUS
  <2>5. /\ r \in q..Len(f) /\ r <= q + n /\ (r = q => q = Len(f)) /\ r \in 0..Len(f)
        /\ r - q \in 0..n
    BY <1>2, <2>2, <2>4 DEF Until
  <2>6. Calmly(x.t) /\ x.t.file = f /\ x.t.position = r
    BY <2>3, <2>4, ReadIs
  <2>7. x.got = Piece(f, q, r)
    BY <2>3, <2>4, ReadIs
  <2>8. x.got \in Seq(Bytes) /\ Len(x.got) = r - q
    <3>1. q \in 0..r
      BY <1>2, <2>5
    <3> QED BY <2>5, <2>7, <3>1, PieceTo
  <2>9. x.got = <<>> <=> r = q
    <3>1. x.got = <<>> <=> Len(x.got) = 0
      BY <2>8, EmptySeq
    <3>2. r - q = 0 <=> r = q
      BY <1>2, <2>5
    <3> QED BY <2>8, <3>1, <3>2
  <2>10. PICK j \in Nat : j = IF r = q THEN 0 ELSE n - (r - q)
    <3>1. PICK d \in 0..n : d = r - q
      BY <2>5
    <3>2. n - d \in Nat
      OBVIOUS
    <3> QED BY <3>1, <3>2
  <2>11. Stream!SkipOn(w) = [t |-> x.t, n |-> IF x.got = <<>> THEN 0 ELSE n - Len(x.got)]
    BY <1>1, <1>4, <2>1, <2>3 DEF Stream!SkipOn
  <2>12. PICK u : u = x.t
    OBVIOUS
  <2>13. u \in Strms /\ Calmly(u) /\ u.file = f /\ u.position = r
    BY <2>6, <2>12, CalmIsStrm DEF Calmly
  <2>14. Stream!SkipOn(w) = [t |-> u, n |-> j]
    BY <2>8, <2>9, <2>10, <2>11, <2>12
  <2> QED BY <2>5, <2>10, <2>13, <2>14
<1> QED BY <1>3, <1>4

(* What a skip consists of.                                                   *)
LEMMA SkippingIs ==
  ASSUME NEW w \in Skipping
  PROVE  \E f, p, e, b, o, q, n, t :
           /\ f \in Seq(Bytes) /\ q \in 0..Len(f) /\ n \in Nat
           /\ t = Strm(f, p, e, b, o, q) /\ Calm(f, p, e, b, o, q) /\ w = [t |-> t, n |-> n]
<1>1. PICK f, p, e, b, o, q, t : t = Strm(f, p, e, b, o, q) /\ Calm(f, p, e, b, o, q) /\ t = w.t
  BY DEF Skipping, Calmly
<1>2. f \in Seq(Bytes) /\ p \in 0..Len(f) /\ q \in 0..p
  BY <1>1, CalmIs DEF CalmFacts
<1>3. q \in 0..Len(f)
  BY <1>2
<1>4. w = [t |-> w.t, n |-> w.n] /\ w.n \in Nat
  BY DEF Skipping
<1>5. PICK n \in Nat : n = w.n
  BY <1>4
<1>6. w = [t |-> t, n |-> n]
  BY <1>1, <1>4, <1>5
<1> QED BY <1>1, <1>2, <1>3, <1>6

(* A turn of a skip leaves one.                                               *)
LEMMA SkipOnStays ==
  ASSUME NEW w \in Skipping
  PROVE  Stream!SkipOn(w) \in Skipping
<1>1. PICK f, p, e, b, o, q, n, t :
        /\ f \in Seq(Bytes) /\ q \in 0..Len(f) /\ n \in Nat
        /\ t = Strm(f, p, e, b, o, q) /\ Calm(f, p, e, b, o, q) /\ w = [t |-> t, n |-> n]
  BY SkippingIs
<1>2. \E u \in Strms, r \in q..Len(f), j \in Nat :
        /\ Stream!SkipOn(w) = [t |-> u, n |-> j] /\ Calmly(u) /\ u.file = f /\ u.position = r
        /\ r <= q + n /\ (n > 0 /\ r = q => q = Len(f))
        /\ j = IF r = q THEN 0 ELSE n - (r - q)
  BY <1>1, SkipOnIs
<1>3. PICK u \in Strms, j \in Nat :
        Stream!SkipOn(w) = [t |-> u, n |-> j] /\ Calmly(u)
  BY <1>2
<1> QED BY <1>3 DEF Skipping

(* How far a skip is after i turns.                                           *)
Skipped(w, f, q, n, i) ==
  /\ w.t.file = f
  /\ \/ w.n = 0 /\ w.t.position = Until(f, q, n)
     \/ w.n \in 1..(n - i) /\ w.t.position \in q..Len(f) /\ w.t.position + w.n = q + n

(* A turn brings a skip on by a byte at least, or it is over.                 *)
LEMMA SkippedOn ==
  ASSUME NEW f \in Seq(Bytes), NEW q \in 0..Len(f), NEW n \in Nat, NEW i \in 1..n,
         NEW w \in Skipping, Skipped(w, f, q, n, i - 1)
  PROVE  Skipped(Stream!SkipOn(w), f, q, n, i)
<1>1. PICK f2, p, e, b, o, s, m, t :
        /\ f2 \in Seq(Bytes) /\ s \in 0..Len(f2) /\ m \in Nat
        /\ t = Strm(f2, p, e, b, o, s) /\ Calm(f2, p, e, b, o, s) /\ w = [t |-> t, n |-> m]
  BY SkippingIs
<1>2. w.t = t /\ w.n = m /\ t.file = f2 /\ t.position = s
  BY <1>1, PartsOf
<1>3. f2 = f
  BY <1>2 DEF Skipped
<1>4. PICK c \in Nat : c = Len(f) /\ q \in 0..c /\ s \in 0..c /\ m \in Nat
  BY <1>1, <1>3
<1>5. \/ m = 0 /\ s = Until(f, q, n)
      \/ m \in 1..(n - (i - 1)) /\ s \in q..c /\ s + m = q + n
  BY <1>2, <1>4 DEF Skipped
<1>6. PICK u \in Strms, r \in s..Len(f2), j \in Nat :
        /\ Stream!SkipOn(w) = [t |-> u, n |-> j] /\ Calmly(u) /\ u.file = f2 /\ u.position = r
        /\ r <= s + m /\ (m > 0 /\ r = s => s = Len(f2))
        /\ j = IF r = s THEN 0 ELSE m - (r - s)
  BY <1>1, SkipOnIs
<1>7. r \in s..c /\ r <= s + m /\ (m > 0 /\ r = s => s = c)
      /\ j \in Nat /\ j = IF r = s THEN 0 ELSE m - (r - s)
  BY <1>3, <1>4, <1>6
<1>8. Until(f, q, n) = IF q + n < c THEN q + n ELSE c
  BY <1>4 DEF Until
<1>9. \/ j = 0 /\ r = Until(f, q, n)
      \/ j \in 1..(n - i) /\ r \in q..c /\ r + j = q + n
  <2>1. CASE m = 0 /\ s = Until(f, q, n)
    BY <1>4, <1>7, <2>1
  <2>2. CASE m \in 1..(n - (i - 1)) /\ s \in q..c /\ s + m = q + n
    <3>1. CASE r = s
      BY <1>4, <1>7, <1>8, <2>2, <3>1
    <3>2. CASE r # s
      <4>1. j = m - (r - s) /\ r > s /\ r + j = q + n
        BY <1>4, <1>7, <2>2, <3>2
      <4>2. j >= 0 /\ j <= n - i /\ r \in q..c
        BY <1>4, <1>7, <2>2, <4>1
      <4> QED BY <1>4, <1>8, <4>1, <4>2
    <3> QED BY <3>1, <3>2
  <2> QED BY <1>5, <2>1, <2>2
<1>10. PICK v : v = Stream!SkipOn(w)
  OBVIOUS
<1>11. v.t = u /\ v.n = j
  BY <1>6, <1>10
<1>12. v.t.file = f /\ v.t.position = r
  BY <1>3, <1>6, <1>11
<1>13. Skipped(v, f, q, n, i)
  BY <1>4, <1>9, <1>11, <1>12 DEF Skipped
<1> QED BY <1>10, <1>13

(* A skip is a loop of as many turns as bytes are asked for.                  *)
LEMMA SkipRuns ==
  ASSUME NEW t \in Strms, Calmly(t), NEW n \in Nat
  PROVE  \E loop : /\ loop \in [0..n -> Skipping] /\ loop[0] = [t |-> t, n |-> n]
                   /\ \A k \in 1..n : loop[k] = Stream!SkipOn(loop[k - 1])
                   /\ Stream!Skip(t, n) = loop[n].t
<1>1. PICK turn : turn = [x \in (1..n) \X Skipping |-> Stream!SkipOn(x[2])]
  OBVIOUS
<1>2. PICK start : start = [t |-> t, n |-> n]
  OBVIOUS
<1>3. turn \in Turns(n, Skipping) /\ start \in Skipping
  <2>1. ASSUME NEW w \in Skipping PROVE Stream!SkipOn(w) \in Skipping
    BY SkipOnStays
  <2>2. turn \in Turns(n, Skipping)
    BY <1>1, <2>1 DEF Turns
  <2>3. start \in Skipping
    BY <1>2 DEF Skipping
  <2> QED BY <2>2, <2>3
<1>4. PICK loop : Runs(loop, n, Skipping, start, turn)
  BY <1>3, LoopRuns
<1>5. /\ loop \in [0..n -> Skipping] /\ loop[0] = start
      /\ \A k \in 1..n : loop[k] = Stream!SkipOn(loop[k - 1])
  <2>1. /\ loop \in [0..n -> Skipping] /\ loop[0] = start
        /\ \A k \in 1..n : loop[k] = turn[<<k, loop[k - 1]>>]
    BY <1>4 DEF Runs
  <2>2. ASSUME NEW k \in 1..n PROVE loop[k] = Stream!SkipOn(loop[k - 1])
    <3>1. loop[k - 1] \in Skipping
      BY <2>1
    <3> QED BY <1>1, <2>1, <3>1
  <2> QED BY <2>1, <2>2
<1>6. PICK skip : skip = CHOOSE g : g = [k \in 0..n |->
                             IF k = 0 THEN start ELSE Stream!SkipOn(g[k - 1])]
  OBVIOUS
<1>7. Stream!Skip(t, n) = skip[n].t
  BY <1>2, <1>6 DEF Stream!Skip
<1>8. skip = [k \in 0..n |-> IF k = 0 THEN start ELSE Stream!SkipOn(skip[k - 1])]
  <2>1. PICK g : g = [k \in 0..n |-> IF k = 0 THEN start ELSE Stream!SkipOn(loop[k - 1])]
    OBVIOUS
  <2>2. ASSUME NEW k \in 0..n PROVE g[k] = loop[k]
    BY <1>5, <2>1
  <2>3. loop = g
    BY <1>5, <2>1, <2>2
  <2> QED BY <1>6, <2>1, <2>3
<1>9. \A k \in 0..n : skip[k] = loop[k]
  <2>1. PICK good : good = {k \in 0..n : skip[k] = loop[k]}
    OBVIOUS
  <2>2. 0 \in good
    BY <1>5, <1>8, <2>1
  <2>3. ASSUME NEW k \in 1..n, k - 1 \in good PROVE k \in good
    BY <1>5, <1>8, <2>1, <2>3
  <2> QED BY <2>1, <2>2, <2>3, UpTo
<1> QED BY <1>2, <1>5, <1>7, <1>9

(* A skip, to where as many bytes are passed or the file ends.                *)
LEMMA SkipIs ==
  ASSUME NEW f, NEW p, NEW e, NEW b, NEW o, NEW q, Calm(f, p, e, b, o, q),
         NEW n \in Nat, NEW t, t = Strm(f, p, e, b, o, q)
  PROVE  /\ Calmly(Stream!Skip(t, n))
         /\ Stream!Skip(t, n).file = f /\ Stream!Skip(t, n).position = Until(f, q, n)
<1>1. f \in Seq(Bytes) /\ p \in 0..Len(f) /\ q \in 0..p
  BY CalmIs DEF CalmFacts
<1>2. q \in 0..Len(f) /\ Len(f) \in Nat
  BY <1>1
<1>3. t \in Strms /\ Calmly(t) /\ t.file = f /\ t.position = q
  BY CalmIsStrm, PartsOf DEF Calmly
<1>4. PICK loop : /\ loop \in [0..n -> Skipping] /\ loop[0] = [t |-> t, n |-> n]
                  /\ \A i \in 1..n : loop[i] = Stream!SkipOn(loop[i - 1])
                  /\ Stream!Skip(t, n) = loop[n].t
  BY <1>3, SkipRuns
<1>5. PICK good : good = {i \in 0..n : Skipped(loop[i], f, q, n, i)}
  OBVIOUS
<1>6. 0 \in good
  <2>1. PICK w : w = loop[0]
    OBVIOUS
  <2>2. w.t = t /\ w.n = n
    BY <1>4, <2>1
  <2>3. n = 0 => q = Until(f, q, n)
    BY <1>2 DEF Until
  <2>4. Skipped(w, f, q, n, 0)
    <3>1. n = 0 \/ n \in 1..(n - 0)
      OBVIOUS
    <3>2. q \in q..Len(f)
      BY <1>2
    <3> QED BY <1>3, <2>2, <2>3, <3>1, <3>2 DEF Skipped
  <2>5. 0 \in 0..n
    OBVIOUS
  <2> QED BY <1>5, <2>1, <2>4, <2>5
<1>7. ASSUME NEW i \in 1..n, i - 1 \in good PROVE i \in good
  <2>1. PICK w \in Skipping : w = loop[i - 1]
    BY <1>4
  <2>2. Skipped(w, f, q, n, i - 1)
    BY <1>5, <1>7, <2>1
  <2>3. Skipped(Stream!SkipOn(w), f, q, n, i)
    BY <1>1, <1>2, <2>2, SkippedOn
  <2>4. loop[i] = Stream!SkipOn(w)
    BY <1>4, <2>1
  <2>5. i \in 0..n
    OBVIOUS
  <2> QED BY <1>5, <2>3, <2>4, <2>5
<1>8. Skipped(loop[n], f, q, n, n)
  <2>1. \A i \in 0..n : i \in good
    BY <1>5, <1>6, <1>7, UpTo
  <2>2. n \in 0..n
    OBVIOUS
  <2> QED BY <1>5, <2>1, <2>2
<1>9. PICK w \in Skipping : w = loop[n]
  BY <1>4
<1>10. w.t.file = f /\ w.t.position = Until(f, q, n)
  <2>1. ~(w.n \in 1..(n - n))
    OBVIOUS
  <2> QED BY <1>8, <1>9, <2>1 DEF Skipped
<1>11. Calmly(w.t)
  BY DEF Skipping
<1> QED BY <1>4, <1>9, <1>10, <1>11


-----------------------------------------------------------------------------
(* Seeks.                                                                    *)

(* Flush, where nothing is to be written: what was read ahead moves up.       *)
LEMMA FlushIdleIs ==
  ASSUME NEW f, NEW p, NEW e, NEW b, NEW o, NEW q, NEW t, t = Strm(f, p, e, b, o, q),
         ~Stream!IsWriting(t), NEW x, x = Stream!Unread(t)
  PROVE  Stream!Flush(t) = Strm(f, p, e, x, 0, q)
<1>1. PICK y : y = [t EXCEPT !.buf = x]
  OBVIOUS
<1>2. y = Strm(f, p, e, x, o, q)
  BY <1>1 DEF Strm
<1>3. PICK u : u = [y EXCEPT !.off = 0]
  OBVIOUS
<1>4. u = Strm(f, p, e, x, 0, q)
  BY <1>2, <1>3 DEF Strm
<1>5. Stream!Flush(t) = [t EXCEPT !.buf = x, !.off = 0]
  BY DEF Stream!Flush
<1>6. Stream!Flush(t) = u
  BY <1>1, <1>3, <1>5
<1> QED BY <1>4, <1>6

(* Where a stream with nothing to write is put back to its beginning.         *)
LEMMA ResetIs ==
  ASSUME NEW f, NEW p, NEW e, NEW b, NEW o, NEW q, NEW t, t = Strm(f, p, e, b, o, q)
  PROVE  /\ ~Stream!IsWriting(t) => Stream!Reset(t) = Strm(f, p, e, <<>>, 0, q)
         /\ Stream!IsWriting(t) /\ Whole(f, p, e, b, o, q) =>
              Stream!Reset(t) = Strm(Stream!Overlaid(f, p, b), q, e, <<>>, 0, q)
<1>1. CASE ~Stream!IsWriting(t)
  <2>1. PICK x, u : x = Stream!Unread(t) /\ u = Stream!Flush(t)
    OBVIOUS
  <2>2. u = Strm(f, p, e, x, 0, q)
    BY <1>1, <2>1, FlushIdleIs
  <2>3. Stream!Clear(u) = Strm(f, p, e, <<>>, 0, q)
    BY <2>2, ClearIs
  <2> QED BY <1>1, <2>1, <2>3 DEF Stream!Reset
<1>2. CASE Stream!IsWriting(t) /\ Whole(f, p, e, b, o, q)
  <2>1. PICK u : u = Stream!Flush(t)
    OBVIOUS
  <2>2. b # <<>> /\ o = Len(b)
    BY <1>2, Sides
  <2>3. u = Strm(Stream!Overlaid(f, p, b), q, e, <<>>, 0, q)
    BY <1>2, <2>1, <2>2, FlushIs
  <2>4. Stream!Clear(u) = Strm(Stream!Overlaid(f, p, b), q, e, <<>>, 0, q)
    BY <2>3, ClearIs
  <2> QED BY <1>2, <2>1, <2>4 DEF Stream!Reset
<1> QED BY <1>1, <1>2

(* A stream with nothing to write does not wait, and its content is the file. *)
LEMMA CalmIsIdle ==
  ASSUME NEW f, NEW p, NEW e, NEW b, NEW o, NEW q, Calm(f, p, e, b, o, q),
         NEW t, t = Strm(f, p, e, b, o, q)
  PROVE  ~Stream!IsWriting(t) /\ ContentOf(t) = f
<1>1. Len(b) \in Nat /\ o \in 0..Len(b)
  BY CalmIs DEF CalmFacts
<1>2. ~(b # <<>> /\ o = Len(b))
  BY <1>1 DEF Calm
<1> QED BY <1>2, Sides

(* To n, or the end if that is before it.                                     *)
Clipped(c, n) == IF n < 0 THEN 0 ELSE IF n < Len(c) THEN n ELSE Len(c)

(* To the beginning, and from there on.                                       *)
LEMMA FromStartIs ==
  ASSUME NEW f, NEW p, NEW e, NEW b, NEW o, NEW q, Calm(f, p, e, b, o, q),
         NEW t, t = Strm(f, p, e, b, o, q), NEW n \in Int
  PROVE  /\ Calmly(Stream!FromStart(t, n))
         /\ Stream!FromStart(t, n).file = f /\ Stream!FromStart(t, n).position = Clipped(f, n)
<1>1. f \in Seq(Bytes) /\ Len(f) \in Nat
  BY CalmIs DEF CalmFacts
<1>2. PICK u : u = [t EXCEPT !.position = 0]
  OBVIOUS
<1>3. u = Strm(f, p, e, b, o, 0)
  BY <1>2 DEF Strm
<1>4. PICK w : w = Stream!FileSeek(u, 0)
  OBVIOUS
<1>5. w = Strm(f, 0, No, b, o, 0)
  BY <1>3, <1>4, FileSeekIs
<1>6. ~Stream!IsWriting(w)
  <2>1. ~(b # <<>> /\ o = Len(b))
    <3>1. Len(b) \in Nat /\ o \in 0..Len(b)
      BY CalmIs DEF CalmFacts
    <3> QED BY <3>1 DEF Calm
  <2> QED BY <1>5, <2>1, Sides
<1>7. PICK x : x = Stream!Reset(w)
  OBVIOUS
<1>8. x = Strm(f, 0, No, <<>>, 0, 0)
  BY <1>5, <1>6, <1>7, ResetIs
<1>9. Calm(f, 0, No, <<>>, 0, 0)
  <2>1. 0 \in 0..Len(f)
    BY <1>1
  <2> QED BY <1>1, <2>1, EmptyIsCalm, NoIsFalse
<1>10. PICK m \in Nat : m = Stream!Most(n, 0)
  BY DEF Stream!Most
<1>11. Stream!FromStart(t, n) = Stream!Skip(x, m)
  BY <1>2, <1>4, <1>7, <1>10 DEF Stream!FromStart
<1>12. /\ Calmly(Stream!Skip(x, m)) /\ Stream!Skip(x, m).file = f
       /\ Stream!Skip(x, m).position = Until(f, 0, m)
  BY <1>8, <1>9, SkipIs
<1>13. Until(f, 0, m) = Clipped(f, n)
  BY <1>1, <1>10 DEF Stream!Most, Until, Clipped
<1> QED BY <1>11, <1>12, <1>13

(* By d from where the stream is.                                             *)
LEMMA RelativeIs ==
  ASSUME NEW f, NEW p, NEW e, NEW b, NEW o, NEW q, Calm(f, p, e, b, o, q),
         NEW t, t = Strm(f, p, e, b, o, q), NEW d \in Int
  PROVE  /\ Calmly(Stream!Relative(t, d))
         /\ Stream!Relative(t, d).file = f /\ Stream!Relative(t, d).position = Clipped(f, q + d)
<1>1. /\ f \in Seq(Bytes) /\ Len(f) \in Nat /\ p \in 0..Len(f) /\ q \in 0..p /\ e \in BOOLEAN
      /\ (e => p = Len(f)) /\ Len(b) \in Nat /\ o \in 0..Len(b) /\ Len(b) - o = p - q
  BY CalmIs DEF CalmFacts
<1>2. t.pos = p /\ t.off = o /\ t.position = q
  BY PartsOf
<1>3. p = 0 => o = 0 /\ b = <<>> /\ q = 0
  <2>1. SUFFICES ASSUME p = 0 PROVE o = 0 /\ b = <<>> /\ q = 0
    OBVIOUS
  <2>2. o = Len(b) /\ q = 0
    BY <1>1, <2>1
  <2>3. b = <<>>
    BY <1>1, <2>2 DEF Calm
  <2> QED BY <2>2, <2>3, EmptySeq
<1>4. ASSUME p = 0 PROVE Stream!Reset(t) = t
  <2>1. ~Stream!IsWriting(t)
    BY CalmIsIdle
  <2>2. Stream!Reset(t) = Strm(f, p, e, <<>>, 0, q)
    BY <2>1, ResetIs
  <2> QED BY <1>3, <1>4, <2>2
<1>5. CASE d > 0
  <2>1. Stream!Relative(t, d) = Stream!Skip(t, d)
    <3>1. CASE p = 0
      BY <1>2, <1>4, <1>5, <3>1 DEF Stream!Relative
    <3>2. CASE p # 0
      BY <1>2, <1>5, <3>2 DEF Stream!Relative
    <3> QED BY <3>1, <3>2
  <2>2. PICK n \in Nat : n = d
    BY <1>5
  <2>3. /\ Calmly(Stream!Skip(t, n)) /\ Stream!Skip(t, n).file = f
        /\ Stream!Skip(t, n).position = Until(f, q, n)
    BY SkipIs
  <2>4. Until(f, q, n) = Clipped(f, q + d)
    <3>1. ~(q + d < 0)
      BY <1>1, <1>5
    <3> QED BY <2>2, <3>1 DEF Until, Clipped
  <2> QED BY <2>1, <2>2, <2>3, <2>4
<1>6. CASE ~(d > 0) /\ o + d >= 0
  <2>1. PICK u, o2, q2 : u = Stream!Ahead(t, d) /\ o2 = o + d /\ q2 = q + d
    OBVIOUS
  <2>2. u = Strm(f, p, e, b, o2, q2)
    BY <2>1, AheadIs
  <2>3. Calm(f, p, e, b, o2, q2) /\ (p = 0 => d = 0)
    <3>1. CASE b = <<>>
      <4>1. o = 0 /\ d = 0
        BY <1>1, <1>6, <3>1, EmptySeq
      <4>2. o2 = o /\ q2 = q
        BY <1>1, <2>1, <4>1
      <4> QED BY <4>1, <4>2
    <3>2. CASE b # <<>>
      <4>1. o < Len(b)
        BY <1>1, <3>2 DEF Calm
      <4>2. o2 \in 0..Len(b) /\ o2 < Len(b)
        BY <1>1, <1>6, <2>1, <4>1
      <4>3. Calm(f, p, e, b, o2, q2)
        BY <2>1, <4>2, MovedIs
      <4> QED BY <1>3, <3>2, <4>3
    <3> QED BY <3>1, <3>2
  <2>4. Stream!Relative(t, d) = u
    <3>1. CASE p = 0
      <4>1. d = 0 /\ o2 = o /\ q2 = q
        BY <1>1, <2>1, <2>3, <3>1
      <4>2. u = t
        BY <2>2, <4>1
      <4>3. Stream!Relative(t, d) = Stream!Reset(u)
        BY <1>2, <1>6, <2>1, <3>1 DEF Stream!Relative
      <4> QED BY <1>4, <3>1, <4>2, <4>3
    <3>2. CASE p # 0
      BY <1>2, <1>6, <2>1, <3>2 DEF Stream!Relative
    <3> QED BY <3>1, <3>2
  <2>5. Calmly(u) /\ u.file = f /\ u.position = q2
    BY <2>2, <2>3, PartsOf DEF Calmly
  <2>6. q2 = Clipped(f, q + d)
    <3>1. q2 \in 0..p
      BY <2>3, CalmIs DEF CalmFacts
    <3>2. q2 = q + d /\ ~(q2 < 0) /\ (q2 < Len(f) \/ q2 = Len(f))
      BY <1>1, <2>1, <3>1
    <3> QED BY <3>2 DEF Clipped
  <2> QED BY <2>4, <2>5, <2>6
<1>7. CASE ~(d > 0) /\ ~(o + d >= 0)
  <2>1. Stream!Relative(t, d) = Stream!FromStart(t, q + d)
    BY <1>2, <1>7 DEF Stream!Relative
  <2>2. PICK n \in Int : n = q + d
    BY <1>1
  <2>3. /\ Calmly(Stream!FromStart(t, n)) /\ Stream!FromStart(t, n).file = f
        /\ Stream!FromStart(t, n).position = Clipped(f, n)
    BY FromStartIs
  <2> QED BY <2>1, <2>2, <2>3
<1> QED BY <1>5, <1>6, <1>7

(* The content of a stream, and the stream once what waits is written.        *)
LEMMA ContentIs ==
  ASSUME NEW f, NEW p, NEW e, NEW b, NEW o, NEW q, Whole(f, p, e, b, o, q),
         NEW t, t = Strm(f, p, e, b, o, q), NEW c, c = ContentOf(t)
  PROVE  /\ c \in Seq(Bytes) /\ q \in 0..Len(c) /\ Len(f) <= Len(c) /\ p <= Len(c)
         /\ (e => q = Len(c) \/ o < Len(b))
         /\ c = IF o < Len(b) THEN f ELSE Stream!Overlaid(f, p, b)
         /\ Stream!IsWriting(t) => Calm(c, q, e, <<>>, 0, q)
         /\ ~Stream!IsWriting(t) => Calm(f, p, e, b, o, q) /\ c = f
<1>1. PICK n \in Nat, m \in Nat : n = Len(f) /\ m = Len(b)
  BY DEF Whole
<1>2. /\ f \in Seq(Bytes) /\ b \in Seq(Bytes) /\ p \in 0..n /\ e \in BOOLEAN /\ (e => p = n)
      /\ o \in 0..m /\ q \in Nat
  BY <1>1 DEF Whole
<1>3. CASE o < m
  <2>1. ~(b # <<>> /\ o = Len(b))
    BY <1>1, <1>2, <1>3
  <2>2. ~Stream!IsWriting(t) /\ c = f
    BY <2>1, Sides
  <2>3. Calm(f, p, e, b, o, q)
    BY <1>1, <1>3 DEF Calm
  <2>4. q \in 0..p
    BY <2>3, CalmIs DEF CalmFacts
  <2> QED BY <1>1, <1>2, <1>3, <2>2, <2>3, <2>4
<1>4. CASE ~(o < m) /\ b # <<>>
  <2>1. o = Len(b) /\ q = p + m
    BY <1>1, <1>2, <1>4 DEF Whole
  <2>2. Stream!IsWriting(t) /\ c = Stream!Overlaid(f, p, b)
    BY <1>4, <2>1, Sides
  <2>3. c \in Seq(Bytes) /\ Len(c) = IF p + m > n THEN p + m ELSE n
    BY <1>1, <1>2, <2>2, OverlaidIs
  <2>4. q \in 0..Len(c) /\ (e => q = Len(c))
    BY <1>2, <2>1, <2>3
  <2>5. Calm(c, q, e, <<>>, 0, q)
    BY <1>2, <2>3, <2>4, EmptyIsCalm
  <2> QED BY <1>1, <1>2, <1>4, <2>2, <2>3, <2>4, <2>5
<1>5. CASE b = <<>>
  <2>1. m = 0 /\ o = 0
    BY <1>1, <1>2, <1>5, EmptySeq
  <2>2. q = p
    BY <1>1, <1>2, <2>1 DEF Whole
  <2>3. ~Stream!IsWriting(t) /\ c = f
    BY <1>5, Sides
  <2>4. Calm(f, p, e, b, o, q)
    BY <1>5 DEF Calm
  <2>5. Stream!Overlaid(f, p, b) = f
    <3>1. PICK w : w = Stream!Overlaid(f, p, b)
      OBVIOUS
    <3>2. /\ w \in Seq(Bytes) /\ Len(w) = n
          /\ \A i \in 1..n : w[i] = f[i]
      <4>1. /\ w \in Seq(Bytes) /\ Len(w) = IF p + m > n THEN p + m ELSE n
            /\ \A i \in 1..Len(w) : w[i] = IF i \in (p + 1)..(p + m) THEN b[i - p] ELSE f[i]
        BY <1>1, <1>2, <3>1, OverlaidIs
      <4>2. Len(w) = n
        BY <1>2, <2>1, <4>1
      <4>3. \A i \in 1..n : i \notin (p + 1)..(p + m)
        BY <1>2, <2>1
      <4> QED BY <4>1, <4>2, <4>3
    <3>3. w = f
      BY <1>1, <1>2, <3>2, SeqEqual
    <3> QED BY <3>1, <3>3
  <2> QED BY <1>1, <1>2, <2>1, <2>2, <2>3, <2>4, <2>5
<1> QED BY <1>3, <1>4, <1>5

(* Where a seek leads.                                                        *)
Place(c, q, d, origin) ==
  IF (origin = -1 /\ d < 0) \/ (origin = 1 /\ d > 0) THEN q
  ELSE Clipped(c, (CASE origin = -1 -> 0 [] origin = 0 -> q [] origin = 1 -> Len(c)) + d)

(* A seek keeps what the file is, and leads where it should.                  *)
LEMMA SoughtIs ==
  ASSUME NEW f, NEW p, NEW e, NEW b, NEW o, NEW q, Whole(f, p, e, b, o, q),
         NEW t, t = Strm(f, p, e, b, o, q), NEW c, c = ContentOf(t), Len(c) <= MaxContent,
         NEW d \in Int, NEW origin \in {-1, 0, 1}, NEW u, u = Stream!Sought(t, d, origin)
  PROVE  Calmly(u) /\ u.file = c /\ u.position = Place(c, q, d, origin)
<1>1. PICK w : w = IF Stream!IsWriting(t) THEN Stream!Reset(t) ELSE t
  OBVIOUS
<1>2. \E p2, b2, o2 : w = Strm(c, p2, e, b2, o2, q) /\ Calm(c, p2, e, b2, o2, q)
  <2>1. CASE Stream!IsWriting(t)
    <3>1. w = Strm(Stream!Overlaid(f, p, b), q, e, <<>>, 0, q)
      BY <1>1, <2>1, ResetIs
    <3>2. c = Stream!Overlaid(f, p, b)
      BY <2>1, PartsOf DEF ContentOf
    <3>3. Calm(c, q, e, <<>>, 0, q)
      BY <2>1, ContentIs
    <3> QED BY <3>1, <3>2, <3>3
  <2>2. CASE ~Stream!IsWriting(t)
    <3>1. w = t /\ c = f /\ Calm(f, p, e, b, o, q)
      BY <1>1, <2>2, ContentIs
    <3> QED BY <3>1
  <2> QED BY <2>1, <2>2
<1>3. PICK p2, b2, o2 : w = Strm(c, p2, e, b2, o2, q) /\ Calm(c, p2, e, b2, o2, q)
  BY <1>2
<1>4. Calmly(w) /\ w.file = c /\ w.position = q
  BY <1>3, PartsOf DEF Calmly
<1>5. c \in Seq(Bytes) /\ Len(c) \in Nat /\ q \in 0..Len(c) /\ MaxContent \in Nat
  <2>1. c \in Seq(Bytes) /\ p2 \in 0..Len(c) /\ q \in 0..p2
    BY <1>3, CalmIs DEF CalmFacts
  <2> QED BY <2>1, RoomIsPositive
<1>6. CASE origin = -1
  <2>1. CASE d < 0
    <3>1. u = w
      BY <1>1, <1>6, <2>1 DEF Stream!Sought
    <3>2. Place(c, q, d, origin) = q
      BY <1>6, <2>1 DEF Place
    <3> QED BY <1>4, <3>1, <3>2
  <2>2. CASE ~(d < 0)
    <3>1. PICK x \in Int : x = d - q
      BY <1>5
    <3>2. u = Stream!Relative(w, x)
      BY <1>1, <1>4, <1>6, <2>2, <3>1 DEF Stream!Sought
    <3>3. Calmly(u) /\ u.file = c /\ u.position = Clipped(c, q + x)
      BY <1>3, <3>2, RelativeIs
    <3>4. q + x = d /\ 0 + d = d
      BY <1>5, <3>1
    <3>5. Place(c, q, d, origin) = Clipped(c, 0 + d)
      BY <1>6, <2>2 DEF Place
    <3> QED BY <3>3, <3>4, <3>5
  <2> QED BY <2>1, <2>2
<1>7. CASE origin = 0
  <2>1. Place(c, q, d, origin) = Clipped(c, q + d)
    BY <1>7 DEF Place
  <2>2. CASE d = 0
    <3>1. u = w
      BY <1>1, <1>7, <2>2 DEF Stream!Sought
    <3>2. q + d = q /\ Clipped(c, q) = q
      BY <1>5, <2>2 DEF Clipped
    <3> QED BY <1>4, <2>1, <3>1, <3>2
  <2>3. CASE d # 0
    <3>1. u = Stream!Relative(w, d)
      BY <1>1, <1>7, <2>3 DEF Stream!Sought
    <3>2. Calmly(u) /\ u.file = c /\ u.position = Clipped(c, q + d)
      BY <1>3, <3>1, RelativeIs
    <3> QED BY <2>1, <3>2
  <2> QED BY <2>2, <2>3
<1>8. CASE origin = 1
  <2>1. CASE d > 0
    <3>1. u = w
      BY <1>1, <1>8, <2>1 DEF Stream!Sought
    <3>2. Place(c, q, d, origin) = q
      BY <1>8, <2>1 DEF Place
    <3> QED BY <1>4, <3>1, <3>2
  <2>2. CASE ~(d > 0)
    <3>1. PICK m \in Nat : m = MaxContent + 1
      BY <1>5
    <3>2. PICK end : end = Stream!Skip(w, m)
      OBVIOUS
    <3>3. Calmly(end) /\ end.file = c /\ end.position = Until(c, q, m)
      BY <1>3, <3>2, SkipIs
    <3>4. Until(c, q, m) = Len(c)
      BY <1>5, <3>1 DEF Until
    <3>5. PICK f3, p3, e3, b3, o3, q3 :
            end = Strm(f3, p3, e3, b3, o3, q3) /\ Calm(f3, p3, e3, b3, o3, q3)
      BY <3>3 DEF Calmly
    <3>6. f3 = c /\ q3 = Len(c)
      BY <3>3, <3>4, <3>5, PartsOf
    <3>7. u = Stream!Relative(end, d)
      BY <1>1, <1>8, <2>2, <3>1, <3>2 DEF Stream!Sought
    <3>8. Calmly(u) /\ u.file = f3 /\ u.position = Clipped(f3, q3 + d)
      BY <3>5, <3>7, RelativeIs
    <3>9. Place(c, q, d, origin) = Clipped(c, Len(c) + d)
      BY <1>8, <2>2 DEF Place
    <3> QED BY <3>6, <3>8, <3>9
  <2> QED BY <2>1, <2>2
<1> QED BY <1>6, <1>7, <1>8


-----------------------------------------------------------------------------
(* Writes, and Flush.                                                        *)

(* Flush keeps the content and the position.                                  *)
LEMMA FlushKeeps ==
  ASSUME NEW f, NEW p, NEW e, NEW b, NEW o, NEW q, Whole(f, p, e, b, o, q),
         NEW t, t = Strm(f, p, e, b, o, q), NEW u, u = Stream!Flush(t)
  PROVE  Good(u) /\ ContentOf(u) = ContentOf(t) /\ u.position = q
<1>1. PICK c : c = ContentOf(t)
  OBVIOUS
<1>2. CASE Stream!IsWriting(t)
  <2>1. b # <<>> /\ o = Len(b)
    BY <1>2, Sides
  <2>2. c = Stream!Overlaid(f, p, b)
    BY <1>1, <1>2, PartsOf DEF ContentOf
  <2>3. u = Strm(c, q, e, <<>>, 0, q) /\ Whole(c, q, e, <<>>, 0, q)
    BY <2>1, <2>2, FlushIs
  <2>4. ContentOf(u) = c /\ u.position = q
    BY <2>3, Sides, PartsOf
  <2> QED BY <1>1, <2>3, <2>4 DEF Good
<1>3. CASE ~Stream!IsWriting(t)
  <2>1. Calm(f, p, e, b, o, q) /\ c = f
    BY <1>1, <1>3, ContentIs
  <2>2. /\ f \in Seq(Bytes) /\ p \in 0..Len(f) /\ q \in 0..p /\ e \in BOOLEAN /\ (e => p = Len(f))
        /\ Len(b) \in Nat /\ o \in 0..Len(b) /\ Len(b) - o = p - q
        /\ Piece(b, o, Len(b)) = Piece(f, q, p)
    BY <2>1, CalmIs DEF CalmFacts
  <2>3. PICK x : x = Piece(f, q, p)
    OBVIOUS
  <2>4. u = Strm(f, p, e, x, 0, q)
    <3>1. Stream!Unread(t) = x
      BY <2>2, <2>3, Sides
    <3> QED BY <1>3, <3>1, FlushIdleIs
  <2>5. x \in Seq(Bytes) /\ Len(x) = p - q
    BY <2>2, <2>3, PieceTo
  <2>6. Len(b) <= Room
    BY <2>1 DEF Calm, Whole
  <2>7. Calm(f, p, e, x, 0, q)
    <3>1. CASE p = q
      <4>1. x = <<>>
        BY <2>2, <2>5, <3>1, EmptySeq
      <4> QED BY <2>2, <3>1, <4>1, EmptyIsCalm
    <3>2. CASE p # q
      <4>1. PICK k \in Nat : k = Len(x)
        BY <2>5
      <4>2. k <= Room /\ 0 < k /\ k <= p /\ p - k = q /\ q = p - k + 0
        BY <2>2, <2>5, <2>6, <3>2, <4>1, RoomIsPositive
      <4>3. x = Piece(f, p - k, p)
        BY <2>3, <4>2
      <4>4. /\ Len(x) <= Room /\ 0 \in 0..Len(x) /\ q \in Nat /\ 0 < Len(x) /\ Len(x) <= p
            /\ x = Piece(f, p - Len(x), p) /\ q = p - Len(x) + 0
        BY <2>2, <4>1, <4>2, <4>3
      <4>5. Whole(f, p, e, x, 0, q)
        BY <2>2, <2>5, <4>4 DEF Whole
      <4> QED BY <4>4, <4>5 DEF Calm
    <3> QED BY <3>1, <3>2
  <2>10. ContentOf(u) = f /\ u.position = q
    BY <2>4, <2>7, CalmIsIdle, PartsOf
  <2> QED BY <1>1, <2>1, <2>4, <2>7, <2>10 DEF Good, Calm
<1> QED BY <1>2, <1>3

(* Before a write: nothing is read ahead any more, and the position is the    *)
(* same.                                                                      *)
LEMMA PutBackIs ==
  ASSUME NEW f, NEW p, NEW e, NEW b, NEW o, NEW q, Whole(f, p, e, b, o, q),
         NEW t, t = Strm(f, p, e, b, o, q), NEW c, c = ContentOf(t)
  PROVE  \E f2, p2, e2, b2 :
           /\ Stream!PutBack(t) = Strm(f2, p2, e2, b2, Len(b2), q)
           /\ Whole(f2, p2, e2, b2, Len(b2), q) /\ c = Stream!Overlaid(f2, p2, b2)
<1>1. CASE Stream!IsReading(t)
  <2>1. o < Len(b)
    BY <1>1, Sides
  <2>2. Calm(f, p, e, b, o, q)
    BY <2>1 DEF Calm
  <2>3. ~Stream!IsWriting(t) /\ c = f
    BY <2>2, CalmIsIdle
  <2>4. /\ f \in Seq(Bytes) /\ p \in 0..Len(f) /\ q \in 0..p
        /\ Piece(b, o, Len(b)) = Piece(f, q, p)
    BY <2>2, CalmIs DEF CalmFacts
  <2>5. PICK x : x = Piece(f, q, p)
    OBVIOUS
  <2>6. Stream!Unread(t) = x
    BY <2>4, <2>5, Sides
  <2>7. PICK u : u = Stream!Flush(t)
    OBVIOUS
  <2>8. u = Strm(f, p, e, x, 0, q)
    BY <2>3, <2>6, <2>7, FlushIdleIs
  <2>9. t.pos - Len(x) = q
    <3>1. Len(x) = p - q
      BY <2>4, <2>5, PieceTo
    <3>2. t.pos = p
      BY PartsOf
    <3>3. p - (p - q) = q
      BY <2>4
    <3> QED BY <3>1, <3>2, <3>3
  <2>10. PICK w : w = Stream!FileSeek(u, q)
    OBVIOUS
  <2>11. w = Strm(f, q, No, x, 0, q)
    BY <2>8, <2>10, FileSeekIs
  <2>12. Stream!Clear(w) = Strm(f, q, No, <<>>, 0, q)
    BY <2>11, ClearIs
  <2>13. Stream!PutBack(t) = Strm(f, q, No, <<>>, 0, q)
    BY <1>1, <2>6, <2>7, <2>9, <2>10, <2>12 DEF Stream!PutBack
  <2>14. Whole(f, q, No, <<>>, 0, q)
    <3>1. q \in 0..Len(f)
      BY <2>4
    <3>2. Calm(f, q, No, <<>>, 0, q)
      BY <2>4, <3>1, EmptyIsCalm, NoIsFalse
    <3> QED BY <3>2 DEF Calm
  <2>15. Stream!Overlaid(f, q, <<>>) = f
    <3>1. PICK v, d : v = Strm(f, q, No, <<>>, 0, q) /\ d = ContentOf(v)
      OBVIOUS
    <3>2. d = f
      BY <3>1, Sides
    <3>3. d = IF 0 < Len(<<>>) THEN f ELSE Stream!Overlaid(f, q, <<>>)
      BY <2>14, <3>1, ContentIs
    <3> QED BY <3>2, <3>3, EmptySeq
  <2>16. Len(<<>>) = 0
    BY EmptySeq
  <2> QED BY <2>3, <2>13, <2>14, <2>15, <2>16
<1>2. CASE ~Stream!IsReading(t)
  <2>1. ~(o < Len(b)) /\ Stream!PutBack(t) = t
    BY <1>2, Sides DEF Stream!PutBack
  <2>2. o = Len(b)
    <3>1. Len(b) \in Nat /\ o \in 0..Len(b)
      BY DEF Whole
    <3> QED BY <2>1, <3>1
  <2>3. c = Stream!Overlaid(f, p, b)
    BY <2>1, ContentIs
  <2> QED BY <2>1, <2>2, <2>3
<1> QED BY <1>1, <1>2

(* A buffer that waits behind the position of the file fits it.               *)
LEMMA WaitingIsWhole ==
  ASSUME NEW f \in Seq(Bytes), NEW p \in 0..Len(f), NEW e \in BOOLEAN, e => p = Len(f),
         NEW b \in Seq(Bytes), Len(b) <= Room, NEW o, o = Len(b), NEW q, q = p + Len(b)
  PROVE  Whole(f, p, e, b, o, q)
<1>1. Len(b) \in Nat /\ Len(f) \in Nat
  OBVIOUS
<1>2. o \in 0..Len(b) /\ q \in Nat /\ ~(o < Len(b))
  BY <1>1
<1> QED BY <1>2 DEF Whole

(* A write, behind what waits: the content has the bytes at the position.     *)
LEMMA WriteIs ==
  ASSUME NEW f, NEW p, NEW e, NEW b, NEW q, Whole(f, p, e, b, Len(b), q),
         NEW t, t = Strm(f, p, e, b, Len(b), q), NEW c, c = Stream!Overlaid(f, p, b),
         NEW bytes \in Seq(Bytes), NEW n \in Nat \ {0}, n = Len(bytes),
         NEW u, u = Stream!WriteBehind(t, bytes)
  PROVE  Good(u) /\ ContentOf(u) = Stream!Overlaid(c, q, bytes) /\ u.position = q + n
<1>1. PICK l \in Nat : l = Len(b)
  BY DEF Whole
<1>2. /\ f \in Seq(Bytes) /\ b \in Seq(Bytes) /\ p \in 0..Len(f) /\ e \in BOOLEAN /\ (e => p = Len(f))
      /\ l <= Room /\ q \in Nat /\ q = p + l /\ Len(f) \in Nat
  BY <1>1 DEF Whole
<1>3. /\ c \in Seq(Bytes) /\ q \in 0..Len(c) /\ (e => q = Len(c))
  <2>1. Len(c) = IF p + l > Len(f) THEN p + l ELSE Len(f)
    BY <1>1, <1>2, OverlaidIs
  <2>2. c \in Seq(Bytes)
    BY <1>1, <1>2, OverlaidIs
  <2> QED BY <1>2, <2>1, <2>2
<1>4. PICK r \in 0..Room : r = Room - l
  BY <1>2, RoomIsPositive
<1>5. t.off = l
  BY <1>1, PartsOf
<1>6. CASE n <= r
  <2>1. u = Stream!Filled(t, bytes)
    BY <1>4, <1>5, <1>6 DEF Stream!WriteBehind
  <2>2. PICK d, o2, q2 : d = b \o bytes /\ o2 = l + n /\ q2 = q + n
    OBVIOUS
  <2>3. u = Strm(f, p, e, d, o2, q2)
    BY <1>1, <2>1, <2>2, FilledIs
  <2>4. d \in Seq(Bytes) /\ Len(d) = l + n
    BY <1>1, <1>2, <2>2
  <2>5. o2 = Len(d) /\ q2 = p + Len(d) /\ Len(d) <= Room /\ Len(d) # 0
    BY <1>2, <1>4, <1>6, <2>2, <2>4, RoomIsPositive
  <2>6. Whole(f, p, e, d, o2, q2)
    BY <1>2, <2>4, <2>5, WaitingIsWhole
  <2>7. d # <<>>
    BY <2>5, EmptySeq
  <2>8. ContentOf(u) = Stream!Overlaid(f, p, d)
    BY <2>3, <2>5, <2>7, Sides
  <2>9. Stream!Overlaid(c, q, bytes) = Stream!Overlaid(f, p, d)
    BY <1>1, <1>2, <2>2, OverlaidTwice
  <2>10. u.position = q2
    BY <2>3, PartsOf
  <2> QED BY <2>2, <2>3, <2>6, <2>8, <2>9, <2>10 DEF Good
<1>7. CASE ~(n <= r) /\ n <= Room
  <2>1. PICK x, y : x = Front(bytes, r) /\ y = Piece(bytes, r, n)
    OBVIOUS
  <2>2. x \in Seq(Bytes) /\ Len(x) = r /\ y \in Seq(Bytes) /\ Len(y) = n - r /\ x \o y = bytes
    <3>1. r \in 0..n /\ n \in 0..Len(bytes) /\ r \in 0..Len(bytes)
      BY <1>7, RoomIsPositive
    <3>2. x \in Seq(Bytes) /\ Len(x) = r
      BY <2>1, <3>1, FrontFacts
    <3>3. y \in Seq(Bytes) /\ Len(y) = n - r
      BY <2>1, <3>1, PieceTo
    <3>4. Piece(bytes, 0, r) \o Piece(bytes, r, n) = Piece(bytes, 0, n)
      <4>1. 0 \in 0..r
        BY <3>1
      <4> QED BY <3>1, <4>1, PiecesTo
    <3>5. Piece(bytes, 0, n) = bytes
      <4>1. 0 \in 0..n
        OBVIOUS
      <4>2. PICK z : z = Piece(bytes, 0, n)
        OBVIOUS
      <4>3. z \in Seq(Bytes) /\ Len(z) = n - 0 /\ \A i \in 1..(n - 0) : z[i] = bytes[0 + i]
        BY <3>1, <4>1, <4>2, PieceTo
      <4>4. Len(z) = Len(bytes) /\ \A i \in 1..n : z[i] = bytes[i]
        BY <4>3
      <4>5. z = bytes
        BY <4>3, <4>4, SeqEqual
      <4> QED BY <4>2, <4>5
    <3>6. x = Piece(bytes, 0, r)
      BY <2>1, FrontIs
    <3> QED BY <2>1, <3>2, <3>3, <3>4, <3>5, <3>6
  <2>3. PICK full, d, o2, q2 : /\ full = Stream!Filled(t, x) /\ d = b \o x
                               /\ o2 = l + r /\ q2 = q + r
    OBVIOUS
  <2>4. full = Strm(f, p, e, d, o2, q2)
    <3>1. full = Strm(f, p, e, b \o x, Len(b) + Len(x), q + Len(x))
      BY <2>3, FilledIs
    <3>2. Len(b) = l /\ Len(x) = r
      BY <1>1, <2>2
    <3> QED BY <2>3, <3>1, <3>2
  <2>5. d \in Seq(Bytes) /\ Len(d) = l + r
    <3>1. b \in Seq(Bytes) /\ x \in Seq(Bytes)
      BY <1>2, <2>2
    <3>2. d \in Seq(Bytes) /\ Len(d) = Len(b) + Len(x)
      BY <2>3, <3>1, JoinedIs
    <3>3. Len(b) = l /\ Len(x) = r
      BY <1>1, <2>2
    <3> QED BY <3>2, <3>3
  <2>6. l + r = Room /\ o2 = Len(d) /\ q2 = p + Len(d) /\ Len(d) <= Room /\ Len(d) # 0
    BY <1>2, <1>4, <2>3, <2>5, RoomIsPositive
  <2>7. Whole(f, p, e, d, o2, q2)
    BY <1>2, <2>5, <2>6, WaitingIsWhole
  <2>8. d # <<>>
    BY <2>6, EmptySeq
  <2>9. PICK a, v : a = Stream!Overlaid(f, p, d) /\ v = Stream!WriteOut(full)
    OBVIOUS
  <2>10. v = Strm(a, q2, e, <<>>, 0, q2) /\ Whole(a, q2, e, <<>>, 0, q2)
    BY <2>4, <2>6, <2>7, <2>8, <2>9, FlushIs
  <2>11. a = Stream!Overlaid(c, q, x)
    <3>1. x \in Seq(Bytes)
      BY <2>2
    <3>2. Stream!Overlaid(Stream!Overlaid(f, p, b), p + Len(b), x) = Stream!Overlaid(f, p, b \o x)
      BY <1>2, <3>1, OverlaidTwice
    <3>3. p + Len(b) = q
      BY <1>1, <1>2
    <3> QED BY <2>3, <2>9, <3>2, <3>3
  <2>12. u = Stream!Filled(v, y)
    <3>1. x = SubSeq(bytes, 1, r) /\ y = SubSeq(bytes, r + 1, n)
      BY <2>1 DEF Front, Piece
    <3> QED BY <1>4, <1>5, <1>7, <2>3, <2>9, <3>1 DEF Stream!WriteBehind
  <2>13. PICK m, q3 : m \in Nat /\ m = Len(y) /\ q3 = q + n
    BY <2>2
  <2>14. u = Strm(a, q2, e, y, m, q3)
    <3>1. u = Strm(a, q2, e, <<>> \o y, 0 + Len(y), q2 + Len(y))
      <4>1. PICK empty, zero : empty = <<>> /\ zero = 0
        OBVIOUS
      <4>2. v = Strm(a, q2, e, empty, zero, q2)
        BY <2>10, <4>1
      <4>3. Stream!Filled(v, y) = Strm(a, q2, e, empty \o y, zero + Len(y), q2 + Len(y))
        BY <4>2, FilledIs
      <4> QED BY <2>12, <4>1, <4>3
    <3>2. <<>> \o y = y
      BY <2>2, ConcatEmptySeq
    <3>3. 0 + Len(y) = m
      BY <2>13
    <3>4. q2 + Len(y) = q3
      <4>1. Len(y) = n - r
        BY <2>2
      <4> QED BY <1>2, <2>3, <2>13, <4>1, RoomIsPositive
    <3> QED BY <3>1, <3>2, <3>3, <3>4
  <2>15. m <= Room /\ m # 0 /\ q3 = q2 + m
    <3>1. m = n - r
      BY <2>2, <2>13
    <3> QED BY <1>2, <1>7, <2>3, <2>13, <3>1, RoomIsPositive
  <2>16. Whole(a, q2, e, y, m, q3)
    <3>1. a \in Seq(Bytes) /\ q2 \in 0..Len(a) /\ (e => q2 = Len(a))
      BY <2>10 DEF Whole
    <3>2. y \in Seq(Bytes)
      BY <2>2
    <3> QED BY <1>2, <2>13, <2>15, <3>1, <3>2, WaitingIsWhole
  <2>17. y # <<>>
    BY <2>13, <2>15, EmptySeq
  <2>18. ContentOf(u) = Stream!Overlaid(a, q2, y)
    BY <2>13, <2>14, <2>17, Sides
  <2>19. Stream!Overlaid(a, q2, y) = Stream!Overlaid(c, q, bytes)
    <3>1. x \in Seq(Bytes) /\ y \in Seq(Bytes)
      BY <2>2
    <3>2. Stream!Overlaid(Stream!Overlaid(c, q, x), q + Len(x), y) = Stream!Overlaid(c, q, x \o y)
      BY <1>3, <3>1, OverlaidTwice
    <3>3. q + Len(x) = q2 /\ x \o y = bytes
      BY <2>2, <2>3
    <3> QED BY <2>11, <3>2, <3>3
  <2>20. u.position = q3
    BY <2>14, PartsOf
  <2> QED BY <2>13, <2>14, <2>16, <2>18, <2>19, <2>20 DEF Good
<1>8. CASE ~(n <= r) /\ ~(n <= Room)
  <2>1. PICK v, w : v = Stream!Flush(t) /\ w = Stream!FileWrite(v, bytes)
    OBVIOUS
  <2>2. v = Strm(c, q, e, <<>>, 0, q)
    <3>1. CASE b = <<>>
      <4>1. l = 0 /\ q = p
        BY <1>1, <1>2, <3>1, EmptySeq
      <4>2. ~Stream!IsWriting(t) /\ Stream!Unread(t) = Piece(b, l, l)
        BY <1>1, <3>1, Sides
      <4>3. Piece(b, l, l) = <<>>
        BY <1>1, <1>2, EmptyPiece
      <4>4. v = Strm(f, p, e, <<>>, 0, q)
        BY <2>1, <4>2, <4>3, FlushIdleIs
      <4>5. c = f
        <5>1. ContentOf(t) = f
          BY <3>1, Sides
        <5>2. ContentOf(t) = IF Len(b) < Len(b) THEN f ELSE Stream!Overlaid(f, p, b)
          BY ContentIs
        <5> QED BY <1>1, <5>1, <5>2
      <4> QED BY <4>1, <4>4, <4>5
    <3>2. CASE b # <<>>
      BY <2>1, <3>2, FlushIs
    <3> QED BY <3>1, <3>2
  <2>3. PICK a : a = Stream!Overlaid(c, q, bytes)
    OBVIOUS
  <2>4. w = Strm(a, q + n, e, <<>>, 0, q)
    BY <2>1, <2>2, <2>3, FileWriteIs
  <2>5. w.position = q
    BY <2>4, PartsOf
  <2>6. u = [w EXCEPT !.position = w.position + n]
    BY <1>4, <1>5, <1>8, <2>1 DEF Stream!WriteBehind
  <2>7. [w EXCEPT !.position = q + n] = Strm(a, q + n, e, <<>>, 0, q + n)
    BY <2>4 DEF Strm
  <2>8. u = Strm(a, q + n, e, <<>>, 0, q + n)
    BY <2>5, <2>6, <2>7
  <2>9. Calm(a, q + n, e, <<>>, 0, q + n)
    <3>1. a \in Seq(Bytes) /\ Len(a) = IF q + n > Len(c) THEN q + n ELSE Len(c)
      BY <1>3, <2>3, OverlaidIs
    <3>2. q + n \in 0..Len(a) /\ (e => q + n = Len(a))
      BY <1>3, <3>1
    <3> QED BY <1>2, <3>1, <3>2, EmptyIsCalm
  <2>10. ContentOf(u) = a /\ u.position = q + n
    BY <2>8, <2>9, CalmIsIdle, PartsOf
  <2> QED BY <2>3, <2>8, <2>9, <2>10 DEF Good, Calm
<1> QED BY <1>6, <1>7, <1>8


-----------------------------------------------------------------------------
(* Steps.                                                                    *)

(* What every operation keeps and moves, of whatever stream with the content  *)
(* c and the position q.                                                      *)
GoodFacts(c, q) == c \in Seq(Bytes) /\ q \in 0..Len(c)

ReadFacts(r, c, q, n) ==
  /\ Good(r.t) /\ ContentOf(r.t) = c /\ r.t.position = Until(c, q, n)
  /\ r.got = Piece(c, q, Until(c, q, n))

WriteFacts(u, c, q, bytes) ==
  Good(u) /\ ContentOf(u) = Stream!Overlaid(c, q, bytes) /\ u.position = q + Len(bytes)

SoughtFacts(u, c, q, d, origin) ==
  Good(u) /\ ContentOf(u) = c /\ u.position = Place(c, q, d, origin)

FlushFacts(u, c, q) == Good(u) /\ ContentOf(u) = c /\ u.position = q

(* What is in a stream where something waits to be written.                   *)
WaitFacts(f, p, e, b, o, q, t, c) ==
  /\ b # <<>> /\ o = Len(b) /\ c = Stream!Overlaid(f, p, b)
  /\ Stream!IsReadable(t) <=> ~e
  /\ Stream!Flush(t) = Strm(c, q, e, <<>>, 0, q)
  /\ e => q = Len(c)

(* The content is of bytes, and the position in it.                           *)
LEMMA GoodIs ==
  ASSUME NEW t, Good(t)
  PROVE  GoodFacts(ContentOf(t), t.position)
<1>1. PICK f, p, e, b, o, q : t = Strm(f, p, e, b, o, q) /\ Whole(f, p, e, b, o, q)
  BY DEF Good
<1>2. PICK c : c = ContentOf(t)
  OBVIOUS
<1>3. c \in Seq(Bytes) /\ q \in 0..Len(c)
  BY <1>1, <1>2, ContentIs
<1>4. t.position = q
  BY <1>1, PartsOf
<1> QED BY <1>2, <1>3, <1>4 DEF GoodFacts

(* A stream with nothing to write is a good one, its content the file.        *)
LEMMA CalmlyIsGood ==
  ASSUME NEW t, Calmly(t)
  PROVE  Good(t) /\ ContentOf(t) = t.file
<1>1. PICK f, p, e, b, o, q : t = Strm(f, p, e, b, o, q) /\ Calm(f, p, e, b, o, q)
  BY DEF Calmly
<1>2. ContentOf(t) = f
  BY <1>1, CalmIsIdle
<1>3. t.file = f
  BY <1>1, PartsOf
<1>4. Whole(f, p, e, b, o, q)
  BY <1>1 DEF Calm
<1>5. Good(t)
  BY <1>1, <1>4 DEF Good
<1> QED BY <1>2, <1>3, <1>5

(* What waits, once flushed, is the content.                                  *)
LEMMA WaitingIs ==
  ASSUME NEW f, NEW p, NEW e, NEW b, NEW o, NEW q, Whole(f, p, e, b, o, q),
         NEW t, t = Strm(f, p, e, b, o, q), NEW c, c = ContentOf(t), Stream!IsWriting(t)
  PROVE  WaitFacts(f, p, e, b, o, q, t, c)
<1>1. b # <<>> /\ o = Len(b)
  BY Sides
<1>2. c = Stream!Overlaid(f, p, b)
  BY PartsOf DEF ContentOf
<1>3. Len(b) \in Nat
  BY DEF Whole
<1>4. Stream!IsReadable(t) <=> ~e
  <2>1. Stream!IsReadable(t) <=> o < Len(b) \/ ~e
    BY Sides
  <2> QED BY <1>1, <1>3, <2>1
<1>5. Stream!Flush(t) = Strm(c, q, e, <<>>, 0, q)
  BY <1>1, <1>2, FlushIs
<1>6. e => q = Len(c)
  <2>1. Calm(c, q, e, <<>>, 0, q)
    BY ContentIs
  <2> QED BY <2>1, CalmIs DEF CalmFacts
<1> QED BY <1>1, <1>2, <1>4, <1>5, <1>6 DEF WaitFacts

(* A read, of whatever stream: what waits is written first, unless the end    *)
(* was met, and then the stream is at it.                                     *)
LEMMA ReadOf ==
  ASSUME NEW f, NEW p, NEW e, NEW b, NEW o, NEW q, Whole(f, p, e, b, o, q),
         NEW t, t = Strm(f, p, e, b, o, q), NEW c, c = ContentOf(t), NEW n \in Nat
  PROVE  ReadFacts(Stream!ReadIndirect(t, n), c, q, n)
<1>1. /\ c \in Seq(Bytes) /\ Len(c) \in Nat /\ q \in 0..Len(c)
      /\ Stream!IsWriting(t) => Calm(c, q, e, <<>>, 0, q)
      /\ ~Stream!IsWriting(t) => Calm(f, p, e, b, o, q) /\ c = f
  BY ContentIs
<1>2. PICK r : r = Stream!ReadIndirect(t, n)
  OBVIOUS
<1>3. CASE ~Stream!IsWriting(t)
  <2>1. Calmly(r.t) /\ r.t.file = c /\ r.t.position = Until(c, q, n) /\ r.got = Piece(c, q, Until(c, q, n))
    BY <1>1, <1>2, <1>3, ReadIs
  <2> QED BY <1>2, <2>1, CalmlyIsGood DEF ReadFacts
<1>4. PICK w : w = Going(t, n, <<>>)
  OBVIOUS
<1>5. r = Stream!ReadOn(Stream!ReadOn(Stream!ReadOn(w)))
  BY <1>2, <1>4 DEF Stream!ReadIndirect, Stream!Asked, Going
<1>6. w.t = t /\ w.n = n /\ w.got = <<>> /\ ~w.over
  BY <1>4, GoingFields
<1>7. CASE Stream!IsWriting(t) /\ e
  <2>1. PICK v : v = Stream!ReadOn(w)
    OBVIOUS
  <2>2. ~Stream!IsReadable(t) /\ q = Len(c)
    <3>1. WaitFacts(f, p, e, b, o, q, t, c)
      BY <1>7, WaitingIs
    <3> QED BY <1>7, <3>1 DEF WaitFacts
  <2>3. v = [w EXCEPT !.over = TRUE]
    BY <1>6, <2>1, <2>2 DEF Stream!ReadOn
  <2>4. v = Over(t, n, <<>>)
    BY <1>4, <2>3, OverIs
  <2>5. v.t = t /\ v.n = n /\ v.got = <<>> /\ v.over /\ Shaped(v)
    BY <2>4, OverFields
  <2>6. Stream!ReadOn(v) = v
    BY <2>5, OverStays
  <2>7. r = v
    BY <1>5, <2>1, <2>6
  <2>8. q = Until(c, q, n)
    BY <1>1, <2>2 DEF Until
  <2>9. Piece(c, q, q) = <<>>
    BY <1>1, EmptyPiece
  <2>10. t.position = q
    BY PartsOf
  <2>11. Good(t)
    BY DEF Good
  <2>12. ReadFacts(r, c, q, n)
    BY <2>5, <2>7, <2>8, <2>9, <2>10, <2>11 DEF ReadFacts
  <2> QED BY <1>2, <2>12
<1>8. CASE Stream!IsWriting(t) /\ ~e
  <2>1. PICK u, x : u = Stream!Flush(t) /\ x = Going(u, n, <<>>)
    OBVIOUS
  <2>2. Stream!IsReadable(t) /\ u = Strm(c, q, e, <<>>, 0, q)
    BY <1>8, <2>1, WaitingIs DEF WaitFacts
  <2>3. Calm(c, q, e, <<>>, 0, q)
    BY <1>1, <1>8
  <2>4. ~Stream!IsWriting(u) /\ Stream!IsReadable(u)
    BY <1>8, <2>2, <2>3, Sides, CalmIsIdle
  <2>5. x.t = u /\ x.n = n /\ x.got = <<>> /\ ~x.over
    BY <2>1, GoingFields
  <2>6. Stream!ReadOn(w) = Stream!ReadFrom(u, n, <<>>)
    BY <1>6, <1>8, <2>1, <2>2, <2>4 DEF Stream!ReadOn
  <2>7. Stream!ReadOn(w) = Stream!ReadOn(x)
    BY <2>4, <2>5, <2>6 DEF Stream!ReadOn
  <2>8. r = Stream!ReadIndirect(u, n)
    BY <1>2, <1>5, <2>1, <2>7 DEF Stream!ReadIndirect, Stream!Asked, Going
  <2>9. Calmly(r.t) /\ r.t.file = c /\ r.t.position = Until(c, q, n) /\ r.got = Piece(c, q, Until(c, q, n))
    BY <2>2, <2>3, <2>8, ReadIs
  <2> QED BY <1>2, <2>9, CalmlyIsGood DEF ReadFacts
<1> QED BY <1>3, <1>7, <1>8

(* A write, of whatever stream: what was read ahead is given back first.      *)
LEMMA WrittenOf ==
  ASSUME NEW f, NEW p, NEW e, NEW b, NEW o, NEW q, Whole(f, p, e, b, o, q),
         NEW t, t = Strm(f, p, e, b, o, q), NEW c, c = ContentOf(t), NEW bytes \in Seq(Bytes), bytes # <<>>
  PROVE  WriteFacts(Stream!WriteIndirect(t, bytes), c, q, bytes)
<1>1. PICK n \in Nat \ {0} : n = Len(bytes)
  BY EmptySeq
<1>2. PICK f2, p2, e2, b2 :
        /\ Stream!PutBack(t) = Strm(f2, p2, e2, b2, Len(b2), q)
        /\ Whole(f2, p2, e2, b2, Len(b2), q) /\ c = Stream!Overlaid(f2, p2, b2)
  BY PutBackIs
<1>3. PICK v, u : v = Stream!PutBack(t) /\ u = Stream!WriteBehind(v, bytes)
  OBVIOUS
<1>4. Good(u) /\ ContentOf(u) = Stream!Overlaid(c, q, bytes) /\ u.position = q + n
  BY <1>1, <1>2, <1>3, WriteIs
<1>5. WriteFacts(u, c, q, bytes)
  BY <1>1, <1>4 DEF WriteFacts
<1> QED BY <1>3, <1>5 DEF Stream!WriteIndirect

(* A seek, of whatever stream.                                                *)
LEMMA SoughtOf ==
  ASSUME NEW f, NEW p, NEW e, NEW b, NEW o, NEW q, Whole(f, p, e, b, o, q),
         NEW t, t = Strm(f, p, e, b, o, q), NEW c, c = ContentOf(t), Len(c) <= MaxContent,
         NEW d \in Int, NEW origin \in {-1, 0, 1}
  PROVE  SoughtFacts(Stream!Sought(t, d, origin), c, q, d, origin)
<1>1. PICK u : u = Stream!Sought(t, d, origin)
  OBVIOUS
<1>2. Calmly(u) /\ u.file = c /\ u.position = Place(c, q, d, origin)
  BY <1>1, SoughtIs
<1> QED BY <1>1, <1>2, CalmlyIsGood DEF SoughtFacts

(* Flush, of whatever stream.                                                 *)
LEMMA FlushOf ==
  ASSUME NEW f, NEW p, NEW e, NEW b, NEW o, NEW q, Whole(f, p, e, b, o, q),
         NEW t, t = Strm(f, p, e, b, o, q), NEW c, c = ContentOf(t)
  PROVE  FlushFacts(Stream!Flush(t), c, q)
<1>1. PICK u : u = Stream!Flush(t)
  OBVIOUS
<1>2. Good(u) /\ ContentOf(u) = c /\ u.position = q
  BY <1>1, FlushKeeps
<1> QED BY <1>1, <1>2 DEF FlushFacts

(* The same of a stream whose parts need no names.                            *)
LEMMA Operations ==
  ASSUME NEW t, Good(t), NEW c, c = ContentOf(t), NEW q, q = t.position
  PROVE  /\ \A n \in Nat : ReadFacts(Stream!ReadIndirect(t, n), c, q, n)
         /\ \A bytes \in Seq(Bytes) \ {<<>>} : WriteFacts(Stream!WriteIndirect(t, bytes), c, q, bytes)
         /\ Len(c) <= MaxContent => \A d \in Int, origin \in {-1, 0, 1} :
              SoughtFacts(Stream!Sought(t, d, origin), c, q, d, origin)
         /\ FlushFacts(Stream!Flush(t), c, q)
<1>1. PICK f, p, e, b, o, h : t = Strm(f, p, e, b, o, h) /\ Whole(f, p, e, b, o, h)
  BY DEF Good
<1>2. h = q
  BY <1>1, PartsOf
<1>3. t = Strm(f, p, e, b, o, q)
  BY <1>1, <1>2
<1>4. Whole(f, p, e, b, o, q)
  BY <1>1, <1>2
<1>5. ASSUME NEW n \in Nat PROVE ReadFacts(Stream!ReadIndirect(t, n), c, q, n)
  BY <1>3, <1>4, ReadOf
<1>6. ASSUME NEW bytes \in Seq(Bytes) \ {<<>>} PROVE WriteFacts(Stream!WriteIndirect(t, bytes), c, q, bytes)
  BY <1>3, <1>4, WrittenOf
<1>7. ASSUME Len(c) <= MaxContent, NEW d \in Int, NEW origin \in {-1, 0, 1}
      PROVE  SoughtFacts(Stream!Sought(t, d, origin), c, q, d, origin)
  BY <1>3, <1>4, <1>7, SoughtOf
<1>8. FlushFacts(Stream!Flush(t), c, q)
  BY <1>3, <1>4, FlushOf
<1> QED BY <1>5, <1>6, <1>7, <1>8

(* The inductive invariant: buffer, Offset and the three positions fit each   *)
(* other, and the file once written is no longer than allowed.                *)
Answers == [got : Seq(Bytes)] \cup [by : Int, origin : {-1, 0, 1}]
StreamInv == Good(stream) /\ Len(ContentOf(stream)) <= MaxContent /\ ret \in Answers

(* A new stream is one on a file, at its beginning.                           *)
LEMMA StreamStarts == Stream!Init => StreamInv /\ File!Init
<1> SUFFICES ASSUME Stream!Init PROVE StreamInv /\ File!Init
  OBVIOUS
<1>1. PICK file \in Stream!Contents :
        stream = [file |-> file, pos |-> 0, eof |-> FALSE, buf |-> <<>>, off |-> 0, position |-> 0]
  BY DEF Stream!Init
<1>2. PICK n \in 0..MaxContent : file \in [1..n -> Bytes]
  BY <1>1 DEF Stream!Contents
<1>3. file \in Seq(Bytes) /\ Len(file) = n
  BY <1>2, RoomIsPositive
<1>4. stream = Strm(file, 0, No, <<>>, 0, 0)
  BY <1>1 DEF Strm, No
<1>5. Calm(file, 0, No, <<>>, 0, 0)
  <2>1. 0 \in 0..Len(file)
    BY <1>2, <1>3, RoomIsPositive
  <2> QED BY <1>3, <2>1, NoIsFalse, EmptyIsCalm
<1>6. ContentOf(stream) = file /\ stream.position = 0
  BY <1>4, <1>5, CalmIsIdle, PartsOf
<1>7. Good(stream)
  BY <1>4, <1>5 DEF Good, Calm
<1>8. ret = [got |-> <<>>] /\ <<>> \in Seq(Bytes)
  BY EmptySeq DEF Stream!Init
<1>9. Stream!Content = file
  BY <1>6 DEF ContentOf, Stream!Content
<1>10. StreamInv
  BY <1>2, <1>3, <1>6, <1>7, <1>8, RoomIsPositive DEF StreamInv, Answers
<1>11. File!Init
  BY <1>3, <1>6, <1>8, <1>9 DEF File!Init, File!Chunks
<1> QED BY <1>10, <1>11

(* The content of the module is the one meant here.                           *)
LEMMA ContentIsTheirs == Stream!Content = ContentOf(stream) /\ Stream!Content' = ContentOf(stream')
<1>1. Stream!Content = ContentOf(stream)
  BY DEF ContentOf, Stream!Content
<1>2. Stream!Content' = ContentOf(stream')
  BY DEF ContentOf, Stream!Content, Stream!IsWriting, Stream!Overlaid
<1> QED BY <1>1, <1>2

(* A read is one of the file.                                                 *)
LEMMA ReadStep ==
  ASSUME StreamInv, NEW n \in 1..MaxChunk, Stream!Read(n)
  PROVE  StreamInv' /\ File!Next
<1>1. PICK c, q, r : c = ContentOf(stream) /\ q = stream.position /\ r = Stream!ReadIndirect(stream, n)
  OBVIOUS
<1>2. c \in Seq(Bytes) /\ q \in 0..Len(c)
  BY <1>1, GoodIs DEF StreamInv, GoodFacts
<1>3. PICK l \in Nat : l = Len(c)
  BY <1>2
<1>4. n \in Nat
  BY RoomIsPositive
<1>5. PICK s : s = Until(c, q, n)
  OBVIOUS
<1>6. Good(r.t) /\ ContentOf(r.t) = c /\ r.t.position = s /\ r.got = Piece(c, q, s)
  <2>1. ReadFacts(r, c, q, n)
    BY <1>1, <1>4, Operations DEF StreamInv
  <2> QED BY <1>5, <2>1 DEF ReadFacts
<1>7. stream' = r.t /\ ret' = [got |-> r.got]
  BY <1>1 DEF Stream!Read
<1>8. s \in q..l /\ s = IF q + n < l THEN q + n ELSE l
  BY <1>2, <1>3, <1>4, <1>5 DEF Until
<1>9. r.got \in Seq(Bytes) /\ Len(r.got) = s - q
  <2>1. s \in 0..Len(c) /\ q \in 0..s
    BY <1>2, <1>3, <1>8
  <2> QED BY <1>2, <1>6, <2>1, PieceTo
<1>10. StreamInv'
  <2>1. Good(stream') /\ ContentOf(stream') = c
    BY <1>6, <1>7
  <2>2. Len(c) <= MaxContent
    BY <1>1 DEF StreamInv
  <2>3. ret' \in Answers
    BY <1>7, <1>9 DEF Answers
  <2> QED BY <2>1, <2>2, <2>3 DEF StreamInv
<1>11. Stream!Content = c /\ Stream!Content' = c
  BY <1>1, <1>6, <1>7, ContentIsTheirs
<1>12. PICK m \in 1..(l + 1) : m = IF n <= l THEN n ELSE l + 1
  BY <1>4
<1>13. File!Least(q + m, l) = s
  BY <1>2, <1>3, <1>4, <1>8, <1>12 DEF File!Least
<1>14. File!Read(m)
  <2>1. SubSeq(c, q + 1, File!Least(q + m, l)) = r.got
    BY <1>6, <1>13 DEF Piece
  <2>2. stream.position' = q + Len(r.got)
    <3>1. s = q + (s - q)
      BY <1>2, <1>3, <1>8
    <3> QED BY <1>6, <1>7, <1>9, <3>1
  <2> QED BY <1>1, <1>3, <1>7, <1>11, <2>1, <2>2 DEF File!Read
<1>15. m \in 1..(Len(Stream!Content) + 1)
  BY <1>3, <1>11, <1>12
<1> QED BY <1>10, <1>14, <1>15 DEF File!Next

(* A write is one to the file, of the bytes that are then there.              *)
LEMMA WriteStep ==
  ASSUME StreamInv, NEW bytes \in Stream!Data, Stream!Write(bytes)
  PROVE  StreamInv' /\ File!Next
<1>1. PICK c, q, u : c = ContentOf(stream) /\ q = stream.position /\ u = Stream!WriteIndirect(stream, bytes)
  OBVIOUS
<1>2. c \in Seq(Bytes) /\ q \in 0..Len(c)
  BY <1>1, GoodIs DEF StreamInv, GoodFacts
<1>3. PICK l \in Nat : l = Len(c) /\ l <= MaxContent
  BY <1>1, <1>2 DEF StreamInv
<1>4. PICK n \in 1..MaxChunk : bytes \in [1..n -> Bytes]
  BY DEF Stream!Data
<1>5. bytes \in Seq(Bytes) /\ Len(bytes) = n /\ n \in Nat \ {0}
  BY <1>4, RoomIsPositive
<1>6. bytes \in Seq(Bytes) \ {<<>>}
  BY <1>5, EmptySeq
<1>7. PICK d : d = Stream!Overlaid(c, q, bytes)
  OBVIOUS
<1>8. WriteFacts(u, c, q, bytes)
  BY <1>1, <1>6, Operations DEF StreamInv
<1>9. Good(u) /\ ContentOf(u) = d /\ u.position = q + n
  BY <1>5, <1>7, <1>8 DEF WriteFacts
<1>10. stream' = u /\ ret' = [got |-> <<>>] /\ q + n <= MaxContent
  BY <1>1, <1>5 DEF Stream!Write
<1>11. /\ d \in Seq(Bytes) /\ Len(d) = IF q + n > l THEN q + n ELSE l
       /\ \A i \in 1..Len(d) : d[i] = IF i \in (q + 1)..(q + n) THEN bytes[i - q] ELSE c[i]
  BY <1>2, <1>3, <1>5, <1>7, OverlaidIs
<1>12. StreamInv'
  <2>1. Good(stream') /\ ContentOf(stream') = d
    BY <1>9, <1>10
  <2>2. Len(d) <= MaxContent
    BY <1>3, <1>10, <1>11
  <2>3. ret' \in Answers
    BY <1>10, EmptySeq DEF Answers
  <2> QED BY <2>1, <2>2, <2>3 DEF StreamInv
<1>13. Stream!Content = c /\ Stream!Content' = d
  BY <1>1, <1>9, <1>10, ContentIsTheirs
<1>14. Piece(d, q, q + n) = bytes
  <2>1. PICK x : x = Piece(d, q, q + n)
    OBVIOUS
  <2>2. q \in Nat /\ q + n <= Len(d)
    BY <1>2, <1>3, <1>11
  <2>3. x \in Seq(Bytes) /\ Len(x) = n /\ \A i \in 1..n : x[i] = d[q + i]
    BY <1>5, <1>11, <2>1, <2>2, PieceIs
  <2>4. ASSUME NEW i \in 1..n PROVE x[i] = bytes[i]
    <3>1. PICK j : j = q + i
      OBVIOUS
    <3>2. j \in 1..Len(d) /\ j \in (q + 1)..(q + n) /\ j - q = i
      BY <1>5, <1>11, <2>2, <3>1
    <3>3. d[j] = bytes[j - q]
      BY <1>11, <3>2
    <3> QED BY <2>3, <3>1, <3>2, <3>3
  <2>5. x = bytes
    BY <1>5, <2>3, <2>4, SeqEqual
  <2> QED BY <2>1, <2>5
<1>15. File!Write(bytes)
  <2>1. File!Overlaid(c, q, bytes) = d
    BY <1>7 DEF File!Overlaid, Stream!Overlaid
  <2> QED BY <1>1, <1>5, <1>9, <1>10, <1>13, <2>1 DEF File!Write
<1>16. n \in 1..(Len(Stream!Content') - stream.position)
  BY <1>1, <1>2, <1>3, <1>5, <1>11, <1>13
<1>17. SubSeq(Stream!Content', stream.position + 1, stream.position + n) = bytes
  BY <1>1, <1>13, <1>14 DEF Piece
<1>18. File!Write(SubSeq(Stream!Content', stream.position + 1, stream.position + n))
  BY <1>15, <1>17
<1> QED BY <1>12, <1>16, <1>18 DEF File!Next

(* A seek leads where one in the file would.                                  *)
LEMMA SeekStep ==
  ASSUME StreamInv, NEW d \in Int, NEW origin \in {-1, 0, 1}, Stream!Seek(d, origin)
  PROVE  StreamInv' /\ File!Next
<1>1. PICK c, q, u : c = ContentOf(stream) /\ q = stream.position /\ u = Stream!Sought(stream, d, origin)
  OBVIOUS
<1>2. c \in Seq(Bytes) /\ q \in 0..Len(c)
  BY <1>1, GoodIs DEF StreamInv, GoodFacts
<1>3. Len(c) <= MaxContent
  BY <1>1 DEF StreamInv
<1>4. q \in Int /\ Len(c) \in Int
  BY <1>2
<1>5. SoughtFacts(u, c, q, d, origin)
  BY <1>1, <1>3, Operations DEF StreamInv
<1>6. Good(u) /\ ContentOf(u) = c /\ u.position = Place(c, q, d, origin)
  BY <1>5 DEF SoughtFacts
<1>7. stream' = u /\ ret' = [by |-> d, origin |-> origin]
  BY <1>1 DEF Stream!Seek
<1>8. StreamInv'
  <2>1. ret' \in Answers
    BY <1>7 DEF Answers
  <2> QED BY <1>3, <1>6, <1>7, <2>1 DEF StreamInv
<1>9. Stream!Content = c /\ Stream!Content' = c
  BY <1>1, <1>6, <1>7, ContentIsTheirs
<1>10. File!Target(d, origin) = u.position
  <2>1. File!Target(d, origin) = Place(c, q, d, origin)
    BY <1>1, <1>4, <1>9 DEF File!Target, File!Least, Place, Clipped
  <2> QED BY <1>6, <2>1
<1>11. ret'.by = d /\ ret'.origin = origin /\ "by" \in DOMAIN ret'
  BY <1>7
<1>12. File!Seek(d, origin)
  BY <1>7, <1>9, <1>10 DEF File!Seek
<1> QED BY <1>8, <1>11, <1>12 DEF File!Next

(* Every step keeps the stream good and is one of the file, or none.          *)
LEMMA StreamStep ==
  StreamInv /\ [Stream!Next]_Stream!vars =>
    StreamInv' /\ [File!Next]_<<Stream!Content, stream.position, ret>>
<1> SUFFICES ASSUME StreamInv, [Stream!Next]_Stream!vars
             PROVE  StreamInv' /\ [File!Next]_<<Stream!Content, stream.position, ret>>
  OBVIOUS
<1>1. ASSUME NEW n \in 1..MaxChunk, Stream!Read(n) PROVE StreamInv' /\ File!Next
  BY <1>1, ReadStep
<1>2. ASSUME NEW bytes \in Stream!Data, Stream!Write(bytes) PROVE StreamInv' /\ File!Next
  BY <1>2, WriteStep
<1>3. ASSUME NEW d \in -MaxContent..MaxContent, NEW origin \in {-1, 0, 1}, Stream!Seek(d, origin)
      PROVE  StreamInv' /\ File!Next
  <2>1. d \in Int
    BY RoomIsPositive
  <2> QED BY <1>3, <2>1, SeekStep
<1>4. CASE Stream!FlushIt
  <2>1. PICK c, q : c = ContentOf(stream) /\ q = stream.position
    OBVIOUS
  <2>2. stream' = Stream!Flush(stream) /\ ret' = ret
    BY <1>4 DEF Stream!FlushIt
  <2>3. FlushFacts(stream', c, q)
    BY <2>1, <2>2, Operations DEF StreamInv
  <2>4. StreamInv'
    BY <2>1, <2>2, <2>3 DEF StreamInv, FlushFacts
  <2>5. Stream!Content' = Stream!Content
    BY <2>1, <2>3, ContentIsTheirs DEF FlushFacts
  <2>6. stream.position' = stream.position
    BY <2>1, <2>3 DEF FlushFacts
  <2> QED BY <2>2, <2>4, <2>5, <2>6
<1>5. CASE UNCHANGED Stream!vars
  <2>1. stream' = stream /\ ret' = ret
    BY <1>5 DEF Stream!vars
  <2>2. StreamInv'
    BY <2>1 DEF StreamInv
  <2>3. Stream!Content' = Stream!Content
    BY <2>1, ContentIsTheirs
  <2> QED BY <2>1, <2>2, <2>3
<1> QED BY <1>1, <1>2, <1>3, <1>4, <1>5 DEF Stream!Next

(* Whatever is called and in any order, the buffer is a piece of the file     *)
(* that ends where the file stands, or waits to be written there, and         *)
(* Position is where the next byte is read or written.                        *)
THEOREM StreamInvariant == Stream!Spec => []StreamInv
BY StreamStarts, StreamStep, PTL DEF Stream!Spec

(* Whatever is read, written and sought in any order and chunks of any size,  *)
(* the buffered stream (StreamBuffer::ReadIndirect, WriteIndirect, Seek) acts *)
(* as a file with a position does.                                            *)
THEOREM StreamIsFile == Stream!Spec => ImplementsFile
BY StreamStarts, StreamStep, PTL DEF Stream!Spec, ImplementsFile, File!Spec

TypeFacts(f, p, c, q) ==
  c \in Seq(Bytes) /\ q \in 0..Len(c) /\ Len(f) <= Len(c) /\ p <= Len(c)

(* What is left of the content of a good stream is in its bounds.             *)
LEMMA TypesOf ==
  ASSUME NEW f, NEW p, NEW e, NEW b, NEW o, NEW q, Whole(f, p, e, b, o, q),
         NEW t, t = Strm(f, p, e, b, o, q)
  PROVE  TypeFacts(f, p, ContentOf(t), q)
BY ContentIs DEF TypeFacts

(* The types of the stream follow: the buffer is what is left of the file or  *)
(* waits before Position, which is in the content.                            *)
LEMMA StreamTypes == StreamInv => Stream!TypeOK
<1> SUFFICES ASSUME StreamInv PROVE Stream!TypeOK
  OBVIOUS
<1>1. PICK f, p, e, b, o, q, t : t = Strm(f, p, e, b, o, q) /\ Whole(f, p, e, b, o, q) /\ t = stream
  BY DEF StreamInv, Good
<1>2. PICK c : c = ContentOf(t)
  OBVIOUS
<1>3. TypeFacts(f, p, c, q)
  BY <1>1, <1>2, TypesOf
<1>4. /\ f \in Seq(Bytes) /\ p \in 0..Len(f) /\ e \in BOOLEAN /\ b \in Seq(Bytes) /\ Len(b) <= Room
      /\ o \in 0..Len(b) /\ Len(c) <= MaxContent
  BY <1>1, <1>2 DEF Whole, StreamInv
<1>5. Len(f) \in 0..MaxContent /\ Len(b) \in 0..Room /\ o \in 0..Room
      /\ p \in 0..MaxContent /\ q \in 0..MaxContent
  BY <1>3, <1>4, RoomIsPositive DEF TypeFacts
<1>6. f \in Stream!Contents
  <2>1. f \in [1..Len(f) -> Bytes]
    BY <1>4
  <2> QED BY <1>5, <2>1 DEF Stream!Contents
<1>7. b \in UNION {[1..n -> Bytes] : n \in 0..Room}
  <2>1. b \in [1..Len(b) -> Bytes]
    BY <1>4
  <2> QED BY <1>5, <2>1
<1>8. stream = [file |-> f, pos |-> p, eof |-> e, buf |-> b, off |-> o, position |-> q]
  BY <1>1 DEF Strm
<1>9. stream.off <= Len(stream.buf)
  BY <1>4, <1>8
<1>10. ret \in [got : Seq(Bytes)] \cup [by : Int, origin : {-1, 0, 1}]
  BY DEF StreamInv, Answers
<1> QED BY <1>4, <1>5, <1>6, <1>7, <1>8, <1>9, <1>10 DEF Stream!TypeOK

-----------------------------------------------------------------------------
(* The types of all three.                                                    *)

(* The bounds that lost updates leave of the count are those of its type.     *)
LEMMA ServerIsTyped == ServerInv => Server!TypeOK
<1> SUFFICES ASSUME ServerInv PROVE Server!TypeOK
  OBVIOUS
<1>1. ServerTypes /\ CountBounded
  BY DEF ServerInv
<1>2. IsFiniteSet(ServerThreads) /\ MaxConnections \in Nat
  BY SameFinite, ServerAssumption DEF Server!ServerAssumption
<1>3. Uncounted \in Nat /\ Passing \in Nat /\ Unfinished \in Nat
  BY <1>1, <1>2, NumbersAreNaturals
<1>4. connections \in Nat /\ connections <= MaxConnections
  BY <1>1, <1>2 DEF ServerTypes
<1>5. ASSUME NEW x \in Int, Within(x) PROVE x \in Server!Counts
  <2>1. Highest <= MaxConnections /\ Highest \in Int
    BY <1>2, <1>3, <1>4 DEF Highest
  <2>2. -(MaxConnections + 1) <= Lowest /\ Lowest \in Int
    BY <1>2, <1>3, <1>4 DEF Lowest, Started
  <2> QED BY <1>2, <1>5, <2>1, <2>2 DEF Within, Server!Counts
<1>6. ConnectionCount \in Server!Counts
  BY <1>1, <1>5 DEF ServerTypes, CountBounded
<1>7. ASSUME NEW w \in ServerThreads PROVE read[w] \in Server!Counts
  <2>1. read[w] \in Int
    BY <1>1 DEF ServerTypes
  <2>2. CASE Within(read[w])
    BY <1>5, <2>1, <2>2
  <2>3. CASE read[w] = 0
    BY <1>2, <2>3 DEF Server!Counts
  <2> QED BY <1>1, <2>2, <2>3 DEF CountBounded
<1>8. read \in [ServerThreads -> Server!Counts]
  BY <1>1, <1>7 DEF ServerTypes
<1> QED BY <1>1, <1>6, <1>8 DEF ServerTypes, Server!TypeOK

(* The three type invariants, and with them where the bounds of the code are: *)
(* the count stays between minus one more than the connections and their      *)
(* number, and the buffer and the positions of the stream in its content.     *)
THEOREM AllAreTyped == Spec /\ Server!Spec /\ Stream!Spec => []TypesOK
<1>1. IInv => TypeOK
  BY DEF IInv
<1> QED BY <1>1, ServerIsTyped, StreamTypes, AgentInvariant, ServerInvariant, StreamInvariant, PTL
    DEF TypesOK
===============================================================================
