-------------------------------- MODULE BsList --------------------------------
(***************************************************************************)
(* The circular doubly linked lists of airguitar, bs_list.c. A list is a   *)
(* head cell whose links close the circle; an entry also points to its     *)
(* head. cells is [next, prev, head, size], each a function on all cells.  *)
(***************************************************************************)
EXTENDS Integers, Sequences, FiniteSets

CONSTANTS
  Heads,    \* the list heads
  Entries,  \* the cells lists are made of
  NULL

Cells == Heads \cup Entries

(* Heads initialised as empty lists; entries as memory that is not linked. *)
EmptyLists ==
  [next |-> [c \in Cells |-> IF c \in Heads THEN c ELSE NULL],
   prev |-> [c \in Cells |-> IF c \in Heads THEN c ELSE NULL],
   head |-> [c \in Cells |-> IF c \in Heads THEN c ELSE NULL],
   size |-> [h \in Heads |-> 0]]

(* bs_list_init of every head: the entries keep the links they had. *)
Reinitialised(cells) ==
  [next |-> [c \in Cells |-> IF c \in Heads THEN c ELSE cells.next[c]],
   prev |-> [c \in Cells |-> IF c \in Heads THEN c ELSE cells.prev[c]],
   head |-> [c \in Cells |-> IF c \in Heads THEN c ELSE cells.head[c]],
   size |-> [h \in Heads |-> 0]]

First(cells, head) == IF cells.next[head] # head THEN cells.next[head] ELSE NULL

NextEntry(cells, entry) ==
  IF cells.next[entry] # cells.head[entry] THEN cells.next[entry] ELSE NULL

(* A bug a run must catch: the old first entry still points back to head.  *)
MutantInsertFirst(cells, head, entry) ==
  [next |-> [cells.next EXCEPT ![entry] = cells.next[head], ![head] = entry],
   prev |-> [cells.prev EXCEPT ![entry] = head],
   head |-> [cells.head EXCEPT ![entry] = head],
   size |-> [cells.size EXCEPT ![head] = @ + 1]]

InsertFirst(cells, head, entry) ==
  [next |-> [cells.next EXCEPT ![entry] = cells.next[head], ![head] = entry],
   prev |-> [cells.prev EXCEPT ![entry] = head, ![cells.next[head]] = entry],
   head |-> [cells.head EXCEPT ![entry] = head],
   size |-> [cells.size EXCEPT ![head] = @ + 1]]

(* The entry keeps its own links; only its head is forgotten. *)
Removed(cells, entry) ==
  [next |-> [cells.next EXCEPT ![cells.prev[entry]] = cells.next[entry]],
   prev |-> [cells.prev EXCEPT ![cells.next[entry]] = cells.prev[entry]],
   head |-> [cells.head EXCEPT ![entry] = NULL],
   size |-> [cells.size EXCEPT ![cells.head[entry]] = @ - 1]]

-----------------------------------------------------------------------------
(* The entries from c on, up to the end of the list: at most all of them.  *)
Chain(cells, c) ==
  LET at[n \in 0..Cardinality(Entries)] ==
        IF n = 0 THEN c
        ELSE LET last == at[n - 1] IN IF last \in Entries THEN cells.next[last] ELSE last
  IN  {at[n] : n \in 0..Cardinality(Entries)} \ (Heads \cup {NULL})

Members(cells, head) == Chain(cells, cells.next[head])

(* Both directions agree, every entry on a list points to its head, the    *)
(* sizes are right and an entry that points to a head is on its list.      *)
WellLinked(cells) ==
  /\ \A h \in Heads :
       /\ cells.next[h] # NULL /\ cells.prev[cells.next[h]] = h
       /\ cells.size[h] = Cardinality(Members(cells, h))
       /\ \A e \in Members(cells, h) :
            cells.head[e] = h /\ cells.prev[cells.next[e]] = e
  /\ \A e \in Entries : cells.head[e] # NULL => e \in Members(cells, cells.head[e])
=============================================================================
