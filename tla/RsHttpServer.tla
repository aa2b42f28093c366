------------------------------ MODULE RsHttpServer ------------------------------
(* HttpServer of reason-2.x and the program around it (reason.cpp): a thread *)
(* waits on the listening socket; when it has a connection it starts the     *)
(* thread that waits next, unless there are too many, and processes the      *)
(* request.  ConnectionCount is an int that all threads increment and        *)
(* decrement with no lock, in two steps.  The list of class Thread registers *)
(* them; the program runs while it is not empty, or asks for a shutdown.     *)
EXTENDS Integers, FiniteSets

CONSTANTS Workers,           \* the Thread::Pointer objects
          ConnectionLimit,
          MaxConnections     \* bound: connections from clients

ServerAssumption ==
  /\ IsFiniteSet(Workers) /\ Cardinality(Workers) > MaxConnections
  /\ ConnectionLimit \in Nat
  /\ MaxConnections \in Nat

VARIABLES List,             \* the registered threads
          at,               \* where a thread is in Accept and Run
          read,             \* the count a thread has read
          ConnectionCount,
          Sentinel,         \* is it locked
          main,             \* what the thread of main does
          connections,      \* connections accepted so far
          limited           \* a thread has seen the limit reached

vars == <<List, at, read, ConnectionCount, Sentinel, main, connections, limited>>

Init ==
  /\ List = {}
  /\ at = [w \in Workers |-> "none"]
  /\ read = [w \in Workers |-> 0]
  /\ ConnectionCount = 0
  /\ Sentinel = FALSE
  /\ main = "startup"
  /\ connections = 0
  /\ limited = FALSE

-----------------------------------------------------------------------------
Goto(w, place) == at' = [at EXCEPT ![w] = place]

(* Thread::Start registers a thread and creates it.  One that could not be  *)
(* created stays in the list.                                               *)
Start(w) ==
  /\ w \notin List
  /\ List' = List \cup {w}

Created(w, next) ==
  \E place \in {"listen", "failed"} : at' = [next EXCEPT ![w] = place]

Startup(w) ==
  /\ main = "startup"
  /\ Start(w) /\ Created(w, at)
  /\ Sentinel' = TRUE
  /\ main' = "running"
  /\ UNCHANGED <<read, ConnectionCount, connections, limited>>

(* main leaves when Active() is false; so does Shutdown when it has told    *)
(* the threads to stop.                                                     *)
Shutdown ==
  /\ main = "running"
  /\ Sentinel' = FALSE
  /\ main' = "stopping"
  /\ UNCHANGED <<List, at, read, ConnectionCount, connections, limited>>

Return ==
  /\ main \in {"running", "stopping"} /\ List = {}
  /\ main' = "over"
  /\ UNCHANGED <<List, at, read, ConnectionCount, Sentinel, connections, limited>>

-----------------------------------------------------------------------------
(* A connection on the socket. *)
Connect(w) ==
  /\ at[w] = "listen"
  /\ connections < MaxConnections
  /\ connections' = connections + 1
  /\ Goto(w, "add")
  /\ UNCHANGED <<List, read, ConnectionCount, Sentinel, main, limited>>

(* None, and the sentinel is not locked any more: the loop ends.            *)
GiveUp(w) ==
  /\ at[w] = "listen" /\ ~Sentinel
  /\ Goto(w, "subtract")
  /\ UNCHANGED <<List, read, ConnectionCount, Sentinel, main, connections, limited>>

ReadCount(w) ==
  /\ at[w] \in {"add", "subtract"}
  /\ read' = [read EXCEPT ![w] = ConnectionCount]
  /\ Goto(w, IF at[w] = "add" THEN "added" ELSE "subtracted")
  /\ UNCHANGED <<List, ConnectionCount, Sentinel, main, connections, limited>>

Increment(w) ==
  /\ at[w] = "added"
  /\ ConnectionCount' = read[w] + 1
  /\ read' = [read EXCEPT ![w] = 0]
  /\ Goto(w, "accepted")
  /\ UNCHANGED <<List, Sentinel, main, connections, limited>>

(* A bug a run must catch: the thread that was started is not waited for,   *)
(* and its parent goes on listening after the request.                      *)
MutantProcess(w) ==
  /\ at[w] = "process"
  /\ Goto(w, IF Sentinel THEN "listen" ELSE "subtract")
  /\ UNCHANGED <<List, read, ConnectionCount, Sentinel, main, connections, limited>>

(* A thread that has accepted starts the next one, unless there are too     *)
(* many or the server is shut down; then the connection is dropped.         *)
PassOn(w) ==
  /\ at[w] = "accepted"
  /\ \/ /\ Sentinel /\ ConnectionCount < ConnectionLimit
        /\ \E v \in Workers : Start(v) /\ Created(v, [at EXCEPT ![w] = "process"])
        /\ UNCHANGED limited
     \/ /\ Sentinel /\ ConnectionCount >= ConnectionLimit
        /\ limited' = TRUE
        /\ Goto(w, "process")
        /\ UNCHANGED List
     \/ /\ ~Sentinel
        /\ Goto(w, "subtract")
        /\ UNCHANGED <<List, limited>>
  /\ UNCHANGED <<read, ConnectionCount, Sentinel, main, connections>>

Process(w) ==
  /\ at[w] = "process"
  /\ Goto(w, "subtract")
  /\ UNCHANGED <<List, read, ConnectionCount, Sentinel, main, connections, limited>>

(* A bug a run must catch: Spawn takes the thread off the list, then Run    *)
(* decrements the count.                                                    *)
MutantDecrement(w) ==
  /\ at[w] \in {"subtracted", "unlisted"}
  /\ IF at[w] = "subtracted"
       THEN List' = List \ {w} /\ Goto(w, "unlisted") /\ UNCHANGED <<ConnectionCount, read>>
       ELSE /\ ConnectionCount' = read[w] - 1
            /\ read' = [read EXCEPT ![w] = 0]
            /\ Goto(w, "none") /\ UNCHANGED List
  /\ UNCHANGED <<Sentinel, main, connections, limited>>

(* Run decrements the count also for a thread that had no connection.       *)
Decrement(w) ==
  /\ at[w] = "subtracted"
  /\ ConnectionCount' = read[w] - 1
  /\ read' = [read EXCEPT ![w] = 0]
  /\ Goto(w, "leave")
  /\ UNCHANGED <<List, Sentinel, main, connections, limited>>

(* Spawn, after Run. *)
Leave(w) ==
  /\ at[w] = "leave"
  /\ List' = List \ {w}
  /\ Goto(w, "none")
  /\ UNCHANGED <<read, ConnectionCount, Sentinel, main, connections, limited>>

Work(w) ==
  GiveUp(w) \/ ReadCount(w) \/ Increment(w) \/ PassOn(w) \/ Process(w) \/ Decrement(w) \/ Leave(w)

Next ==
  \/ \E w \in Workers : Startup(w) \/ Connect(w) \/ Work(w)
  \/ Shutdown
  \/ Return

(* The scheduler runs every thread; clients send their requests and close.  *)
Fairness ==
  /\ \A w \in Workers : WF_vars(Work(w))
  /\ WF_vars(Return)

Spec == Init /\ [][Next]_vars
FairSpec == Spec /\ Fairness

-----------------------------------------------------------------------------
Places == {"none", "listen", "add", "added", "accepted", "process", "subtract", "subtracted",
           "leave", "failed"}

(* Every thread decrements once, and one of them had no connection; lost    *)
(* increments and decrements can move the count no further than this.       *)
Counts == -(MaxConnections + 1)..MaxConnections

(* The variables are of their types, and the count within its range.        *)
TypeOK ==
  /\ List \subseteq Workers
  /\ at \in [Workers -> Places]
  /\ read \in [Workers -> Counts]
  /\ ConnectionCount \in Counts
  /\ Sentinel \in BOOLEAN
  /\ main \in {"startup", "running", "stopping", "over"}
  /\ connections \in 0..MaxConnections
  /\ limited \in BOOLEAN

(* The threads that wait for a connection, or have one and start the next.  *)
Front == {w \in Workers : at[w] \in {"listen", "add", "added", "accepted"}}

Failed == {w \in Workers : at[w] = "failed"}

(* One thread at a time waits on the socket, whatever became of the count;  *)
(* and as long as the program runs and no thread has found the limit        *)
(* reached, there is one.  (After the limit no thread listens any more.)    *)
OneListener ==
  /\ Cardinality(Front) <= 1
  /\ Front = {} /\ main = "running" => limited \/ Failed # {}

(* What ~Thread asserts when main returns: no thread is left that uses the  *)
(* server; and the list it looks at tells the truth.                        *)
NoChildrenAtExit ==
  /\ main = "over" => \A w \in Workers : at[w] = "none"
  /\ \A w \in Workers : at[w] # "none" => w \in List

(* Shutdown returns, unless a thread could not be created: it waits for     *)
(* that one although it does not exist.                                     *)
ShutdownReturns == main = "stopping" ~> (main = "over" \/ Failed # {})
=============================================================================
