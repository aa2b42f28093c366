-------------------------------- MODULE PpMq --------------------------------
(***************************************************************************)
(* The message queue of paperplane, src/paperplane/src/pp_base/pp_base.c:  *)
(* a fixed pool of nodes that moves between two singly linked lists, the   *)
(* free nodes (unqueued_list) and the waiting messages (queued_list).      *)
(* The C code walks and links raw pointers; so do the definitions here.    *)
(* qs and us are history variables: the nodes each list should hold.       *)
(***************************************************************************)
EXTENDS Integers, Sequences

CONSTANTS
  Number,     \* nodes in the pool, the argument of pp_mq_open
  MaxLength,  \* longest message, its other argument
  Payloads,   \* message contents
  Garbage,    \* what malloc left in a message buffer
  NULL

ASSUME MqAssumption ==
  /\ Number \in Nat
  /\ MaxLength \in Nat
  /\ NULL \notin 1..Number

Nodes == 1..Number

VARIABLES
  open,      \* pp_mq_open has returned
  next,      \* node->next
  length,    \* node->length
  payload,   \* the bytes behind the node
  queued,    \* queued_list, [head, tail]
  unqueued,  \* unqueued_list
  answer,    \* result of the last call
  qs, us     \* history: nodes of queued_list and of unqueued_list, in order

vars == <<open, next, length, payload, queued, unqueued, answer, qs, us>>

-----------------------------------------------------------------------------
(* pp_slist: each operation is a function of the list and of the links.    *)

EmptyList == [head |-> NULL, tail |-> NULL]

(* Bugs the runs must catch: the link of a reused node is not cleared; a   *)
(* node put behind others is linked to but does not become the tail.       *)
MutantSlistPut(list, links, node) ==
  IF list.head = NULL
  THEN [list |-> [head |-> node, tail |-> node], next |-> links]
  ELSE [list |-> [list EXCEPT !.tail = node],
        next |-> [links EXCEPT ![list.tail] = node]]

MutantSlistPutTail(list, links, node) ==
  IF list.head = NULL
  THEN [list |-> [head |-> node, tail |-> node], next |-> [links EXCEPT ![node] = NULL]]
  ELSE [list |-> list, next |-> [links EXCEPT ![node] = NULL, ![list.tail] = node]]

SlistPut(list, links, node) ==
  IF list.head = NULL
  THEN [list |-> [head |-> node, tail |-> node], next |-> [links EXCEPT ![node] = NULL]]
  ELSE [list |-> [list EXCEPT !.tail = node],
        next |-> [links EXCEPT ![node] = NULL, ![list.tail] = node]]

(* The list without its head; node->next keeps its value. *)
SlistGet(list, links) ==
  [head |-> links[list.head],
   tail |-> IF list.tail = list.head THEN NULL ELSE list.tail]

-----------------------------------------------------------------------------
Init ==
  /\ open = FALSE
  /\ next = [n \in Nodes |-> NULL]
  /\ length = [n \in Nodes |-> 0]
  /\ payload = [n \in Nodes |-> Garbage]
  /\ queued = EmptyList
  /\ unqueued = EmptyList
  /\ answer = [result |-> -1]
  /\ qs = <<>>
  /\ us = <<>>

(* pp_mq_open puts node after node on the free list. *)
Open ==
  /\ ~open
  /\ open' = TRUE
  /\ next' = [n \in Nodes |-> IF n < Number THEN n + 1 ELSE NULL]
  /\ unqueued' = IF Number = 0 THEN EmptyList ELSE [head |-> 1, tail |-> Number]
  /\ us' = [i \in 1..Number |-> i]
  /\ UNCHANGED <<length, payload, queued, answer, qs>>

(* Both calls fail without a change to the queue: a bad length, or no node. *)
Refuse ==
  /\ answer' = [result |-> -1]
  /\ UNCHANGED <<open, next, length, payload, queued, unqueued, qs, us>>

(* A bug a run must catch: one unit too many, over the next node's header. *)
MutantBadLength(l) == l <= 0 \/ l > MaxLength + 1

BadLength(l) == l <= 0 \/ l > MaxLength

Send(p, l) ==
  /\ open
  /\ \/ (BadLength(l) \/ unqueued.head = NULL) /\ Refuse
     \/ /\ ~BadLength(l) /\ unqueued.head # NULL
        /\ LET node == unqueued.head
               put  == SlistPut(queued, next, node)
           IN  /\ unqueued' = SlistGet(unqueued, next)
               /\ payload' = [payload EXCEPT ![node] = p]
               /\ length' = [length EXCEPT ![node] = l]
               /\ queued' = put.list
               /\ next' = put.next
               /\ qs' = Append(qs, node)
        /\ us' = Tail(us)
        /\ answer' = [result |-> 0]
        /\ UNCHANGED open

Receive(room) ==
  /\ open
  /\ \/ (room <= 0 \/ queued.head = NULL) /\ Refuse
     \/ /\ room > 0 /\ queued.head # NULL
        /\ LET node == queued.head
               put  == SlistPut(unqueued, next, node)
           IN  /\ queued' = SlistGet(queued, next)
               /\ answer' = [payload |-> payload[node],
                             result  |-> IF room < length[node] THEN room ELSE length[node]]
               /\ length' = [length EXCEPT ![node] = 0]
               /\ unqueued' = put.list
               /\ next' = put.next
               /\ us' = Append(us, node)
        /\ qs' = Tail(qs)
        /\ UNCHANGED <<open, payload>>

Next ==
  \/ Open
  \/ \E p \in Payloads, l \in 0..(MaxLength + 1) : Send(p, l)
  \/ \E room \in 0..MaxLength : Receive(room)

Spec == Init /\ [][Next]_vars

-----------------------------------------------------------------------------
(* The pointers of a list spell out the sequence s of its nodes. *)
Spells(links, list, s) ==
  /\ s = <<>> => list = EmptyList
  /\ s # <<>> => list = [head |-> s[1], tail |-> s[Len(s)]] /\ links[s[Len(s)]] = NULL
  /\ \A i \in 1..(Len(s) - 1) : links[s[i]] = s[i + 1]

Distinct(s) == \A i, j \in 1..Len(s) : s[i] = s[j] => i = j

Disjoint(s, t) == \A i \in 1..Len(s), j \in 1..Len(t) : s[i] # t[j]

(* Every list is a proper chain from its head to its tail, and the two     *)
(* lists share the pool: no node is lost, in both, or twice in one.        *)
PoolIntact ==
  /\ Spells(next, queued, qs)
  /\ Spells(next, unqueued, us)
  /\ Distinct(qs) /\ Distinct(us)
  /\ Disjoint(qs, us)
  /\ IF open THEN Len(qs) + Len(us) = Number ELSE qs = <<>> /\ us = <<>>

TypeOK ==
  /\ open \in BOOLEAN
  /\ next \in [Nodes -> Nodes \cup {NULL}]
  /\ length \in [Nodes -> 0..MaxLength]
  /\ payload \in [Nodes -> Payloads \cup {Garbage}]
  /\ queued \in [head : Nodes \cup {NULL}, tail : Nodes \cup {NULL}]
  /\ unqueued \in [head : Nodes \cup {NULL}, tail : Nodes \cup {NULL}]
  /\ qs \in Seq(Nodes)
  /\ us \in Seq(Nodes)

(* The queue is a bounded FIFO of messages with their lengths; a node      *)
(* taken from the pool never shows an earlier message.                     *)
Fifo == INSTANCE BoundedFifo WITH
  Capacity <- Number,
  queue <- [i \in 1..Len(qs) |-> [payload |-> payload[qs[i]], length |-> length[qs[i]]]]

ImplementsFifo == Fifo!Spec
=============================================================================
