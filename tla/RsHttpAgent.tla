------------------------------ MODULE RsHttpAgent ------------------------------
(* HttpAgent of reason-2.x: threads that take links from one queue, process  *)
(* them, and in an agent derived from it enqueue the links they find, one    *)
(* level deeper.  Nobody tells the owner that all is done: he asks Active(), *)
(* which compares the number of threads in the list of class Thread with the *)
(* number of those that found the queue empty.                               *)
(*                                                                           *)
(* A step is what runs under the agent's Mutex, or between two such parts.   *)
EXTENDS Naturals, FiniteSets

CONSTANTS Workers,       \* the Thread::Pointer objects
          Links,
          MaxDepth       \* bound: the depths that are told apart

ASSUME AgentAssumption ==
  /\ IsFiniteSet(Workers)
  /\ MaxDepth \in Nat

VARIABLES List,       \* the registered threads: List.Count is their number
          at,         \* the part of Run a thread is at
          state,      \* the local variable state
          link,       \* the local variable link, with its depth
          Queue,      \* the set of links of each depth
          Sleeping,
          Sentinel,   \* is it locked
          owner       \* what the thread that made the agent does

vars == <<List, at, state, link, Queue, Sleeping, Sentinel, owner>>

(* The links that are deeper go by one depth, that of all of them.          *)
Deeper == MaxDepth + 1
Depths == 0..Deeper
Below(d) == IF d = Deeper THEN Deeper ELSE d + 1
Nothing == [depth |-> 0, url |-> {}]
LinkTypes == {Nothing} \cup [depth : Depths, url : Links]

Init ==
  /\ List = {}
  /\ at = [w \in Workers |-> "none"]
  /\ state = [w \in Workers |-> "initial"]
  /\ link = [w \in Workers |-> Nothing]
  /\ Queue = [d \in Depths |-> {}]
  /\ Sleeping = 0
  /\ Sentinel = TRUE
  /\ owner = "running"

-----------------------------------------------------------------------------
Goto(w, place) == at' = [at EXCEPT ![w] = place]

Has == \E d \in Depths : Queue[d] # {}

Active == List # {} /\ (Sleeping < Cardinality(List) \/ Has)

(* A link that is in the set of its depth already is not inserted again.    *)
Enqueue(l, d) == Queue' = [Queue EXCEPT ![d] = @ \cup {l}]

(* Start registers the thread and then creates it.  One that could not be   *)
(* created stays in the list.  (The Id that Start writes after that, maybe  *)
(* when Run has read it, is for messages only.)                             *)
Start(w) ==
  /\ owner = "running"
  /\ at[w] = "none" /\ w \notin List
  /\ List' = List \cup {w}
  /\ \E place \in {"check", "failed"} : Goto(w, place)
  /\ UNCHANGED <<state, link, Queue, Sleeping, Sentinel, owner>>

OwnerEnqueue(l) ==
  /\ owner = "running"
  /\ Enqueue(l, 0)
  /\ UNCHANGED <<List, at, state, link, Sleeping, Sentinel, owner>>

(* The destructor unlocks the sentinel and waits for the list to be empty.  *)
Stop ==
  /\ owner = "running"
  /\ owner' = "stopping"
  /\ Sentinel' = FALSE
  /\ UNCHANGED <<List, at, state, link, Queue, Sleeping>>

Destroyed ==
  /\ owner = "stopping" /\ List = {}
  /\ owner' = "gone"
  /\ UNCHANGED <<List, at, state, link, Queue, Sleeping, Sentinel>>

-----------------------------------------------------------------------------
(* Bugs the runs must catch: a thread that finds nothing is counted each    *)
(* time it looks; Dequeue takes a link of any depth.                        *)
MutantFallAsleep(w) ==
  /\ at[w] = "check" /\ ~Has
  /\ Sleeping' = Sleeping + 1
  /\ state' = [state EXCEPT ![w] = "sleeping"]
  /\ Goto(w, "act")
  /\ UNCHANGED <<List, link, Queue, Sentinel, owner>>


FallAsleep(w) ==
  /\ at[w] = "check" /\ ~Has
  /\ Sleeping' = IF state[w] # "sleeping" THEN Sleeping + 1 ELSE Sleeping
  /\ state' = [state EXCEPT ![w] = "sleeping"]
  /\ Goto(w, "act")
  /\ UNCHANGED <<List, link, Queue, Sentinel, owner>>

(* The least link of the first set that is not empty; links are compared by *)
(* their text, so which one is least is left open.  Where depths are not    *)
(* told apart, the same link may be there again, a depth further down.      *)
Dequeue(w) ==
  /\ at[w] = "check" /\ Has
  /\ Sleeping' = IF state[w] = "sleeping" THEN Sleeping - 1 ELSE Sleeping
  /\ \E d \in Depths, l \in Links :
       /\ l \in Queue[d] /\ \A e \in Depths : e < d => Queue[e] = {}
       /\ \/ Queue' = [Queue EXCEPT ![d] = @ \ {l}]
          \/ d = Deeper /\ UNCHANGED Queue
       /\ link' = [link EXCEPT ![w] = [depth |-> d, url |-> l]]
  /\ state' = [state EXCEPT ![w] = "processing"]
  /\ Goto(w, "act")
  /\ UNCHANGED <<List, Sentinel, owner>>

(* Process of a derived agent enqueues a link it found in the page.         *)
Follow(w, l) ==
  /\ at[w] = "act" /\ state[w] = "processing"
  /\ Enqueue(l, Below(link[w].depth))
  /\ UNCHANGED <<List, at, state, link, Sleeping, Sentinel, owner>>

(* The end of Process or of the sleep, and the condition of the loop.       *)
Acted(w) ==
  /\ at[w] = "act"
  /\ link' = [link EXCEPT ![w] = Nothing]
  /\ Goto(w, IF Sentinel THEN "check" ELSE "leave")
  /\ UNCHANGED <<List, state, Queue, Sleeping, Sentinel, owner>>

(* Spawn, after Run. *)
Leave(w) ==
  /\ at[w] = "leave"
  /\ List' = List \ {w}
  /\ Goto(w, "none")
  /\ UNCHANGED <<state, link, Queue, Sleeping, Sentinel, owner>>

Work(w) == FallAsleep(w) \/ Dequeue(w) \/ Acted(w) \/ Leave(w)

Next ==
  \/ \E w \in Workers : Start(w) \/ Work(w) \/ \E l \in Links : Follow(w, l)
  \/ \E l \in Links : OwnerEnqueue(l)
  \/ Stop
  \/ Destroyed

(* The scheduler runs every thread, and every request comes to its end: all *)
(* that waits for a socket in one has a timeout.                            *)
Fairness ==
  /\ \A w \in Workers : WF_vars(Work(w))
  /\ WF_vars(Destroyed)

Spec == Init /\ [][Next]_vars
FairSpec == Spec /\ Fairness

-----------------------------------------------------------------------------
(* The variables are of their types; the number of sleeping threads is      *)
(* never negative.                                                          *)
TypeOK ==
  /\ List \subseteq Workers
  /\ at \in [Workers -> {"none", "check", "act", "leave", "failed"}]
  /\ state \in [Workers -> {"initial", "sleeping", "processing"}]
  /\ link \in [Workers -> LinkTypes]
  /\ Queue \in [Depths -> SUBSET Links]
  /\ Sleeping \in Nat
  /\ Sentinel \in BOOLEAN
  /\ owner \in {"running", "stopping", "gone"}

Quiet == ~Has /\ \A w \in Workers : link[w] = Nothing

(* An owner with threads who is told that the agent is not active may rely  *)
(* on it: no link is queued and none is being processed, so that nothing    *)
(* will be enqueued any more unless he does it.                             *)
InactiveIsDone == List # {} /\ ~Active /\ Sentinel => Quiet

(* When the destructor has returned, no thread uses the agent.              *)
GoneIsUnused == owner = "gone" => \A w \in Workers : at[w] \in {"none", "failed"}

(* The owner may go on enqueuing, and then keeps the threads to his links.  *)
OwnerRests == <>[][\A l \in Links : ~OwnerEnqueue(l)]_vars

(* Pages may add links for ever, at every depth below their own, and the    *)
(* queue need never be empty.  But as an agent takes the links of the least *)
(* depth first, no link waits for ever: once the owner enqueues no more and *)
(* while he lets it run, an agent with a thread takes each of them.         *)
EveryLinkIsTaken ==
  OwnerRests => \A d \in 0..MaxDepth, l \in Links :
    /\ l \in Queue[d] /\ owner = "running"
    /\ \E w \in Workers : at[w] \notin {"none", "failed"}
    ~> l \notin Queue[d] \/ owner # "running"

(* The destructor returns, unless a thread could not be created: that one   *)
(* is waited for although it does not exist.                                *)
DestructorReturns ==
  owner = "stopping" ~> (owner = "gone" \/ \E w \in Workers : at[w] = "failed")
=============================================================================
