------------------------------- MODULE PpNHash -------------------------------
(* pp_nhash, the open-addressing hash table of pp_named_var.c, which         *)
(* bs_hash.c repeats without the shrinking (LowWaterMark = 0: no load is     *)
(* below it).  Objects that hash to one index follow each other in the next  *)
(* free slots, and a removal moves the followers back over the hole, so that *)
(* a search may stop at the first empty slot.                                *)
EXTENDS Integers, FiniteSetsExt

CONSTANTS Objects,        \* the entries, each with a key of its own
          HashValues,     \* what obj_hash_func may make of a key
          InitialSize, LowWaterMark, HighWaterMark,
          NoObject        \* NULL

\* A table grows from the mark on to more than twice its size, and shrinks to
\* less than half of it: then it must be crowded by no more than it holds.
HashAssumption ==
  /\ NoObject \notin Objects
  /\ HashValues \subseteq Nat
  /\ InitialSize \in Nat /\ InitialSize >= 5
  /\ HighWaterMark \in Nat /\ HighWaterMark >= 25
  /\ LowWaterMark \in 0 .. 12 /\ 4 * LowWaterMark <= HighWaterMark + 1

VARIABLES head,    \* table, size and elem of pp_nhash_t
          hashOf,  \* obj_hash_func, of any object: fixed, and not known
          ret      \* what the last call returned

vars == <<head, hashOf, ret>>

Empty(size) == [table |-> [i \in 0 .. size - 1 |-> NoObject], size |-> size, elem |-> 0]

Ideal(o, size) == hashOf[o] % size

-----------------------------------------------------------------------------
\* Where a search for o ends: at o, or at the first empty slot.
Probe(h, o) ==
  LET At(k) == (Ideal(o, h.size) + k) % h.size
  IN  At(Min({k \in 0 .. h.size - 1 : h.table[At(k)] \in {o, NoObject}}))

\* An object is sought by its key, which hashes as the object does.
Get(o) == head.table[Probe(head, o)]

Crowded(h) == ((h.elem + 1) * 100) \div h.size > HighWaterMark

Full(h) == h.size \div 2 <= h.elem

Sparse(h) == h.size > InitialSize /\ (h.elem * 100) \div h.size < LowWaterMark

Placed(h, o) == [h EXCEPT !.table[Probe(h, o)] = o, !.elem = @ + 1]

\* The old slots are put into the new table in their order.  A table that
\* would have to be resized again meanwhile is not followed any further: it
\* would drop the object here, and the properties would tell.
Resized(h, size) ==
  LET filled[i \in 0 .. h.size] ==
        IF i = 0 THEN Empty(size)
        ELSE LET new == filled[i - 1]
                 o   == h.table[i - 1]
             IN  IF o = NoObject \/ Crowded(new) \/ Full(new) THEN new ELSE Placed(new, o)
  IN  filled[h.size]

MutantCanMove(ideal, hole, size) == ideal <= hole  \* the end of the table forgotten

\* May an object be moved into a hole before it?  Not to before its ideal
\* index.  Indices more than half a table apart are on the two sides of its
\* end, and are compared half a table further on.
CanMove(ideal, hole, size) ==
  LET half      == size \div 2
      Turned(i) == (i + half) % size
  IN  IF ideal - hole \in -half .. half THEN ideal <= hole ELSE Turned(ideal) <= Turned(hole)

\* The walk that closes a hole: up to the next empty slot, every object that
\* may be moved goes into the hole and leaves its own slot as the next hole.
Closed(h, removed) ==
  LET walk[k \in 0 .. h.size - 1] ==
        IF k = 0 THEN [table |-> h.table, hole |-> removed, over |-> FALSE]
        ELSE LET w == walk[k - 1]
                 i == (removed + k) % h.size
                 o == w.table[i]
             IN  IF w.over \/ o = NoObject THEN [w EXCEPT !.over = TRUE]
                 ELSE IF CanMove(Ideal(o, h.size), w.hole, h.size)
                 THEN [w EXCEPT !.table = [@ EXCEPT ![w.hole] = o, ![i] = NoObject], !.hole = i]
                 ELSE w
  IN  [h EXCEPT !.table = walk[h.size - 1].table]

-----------------------------------------------------------------------------
Init ==
  /\ head = Empty(InitialSize)
  /\ hashOf \in [Objects -> HashValues]
  /\ ret = 0

\* A duplicate is met on the way to a free slot, after the table has grown.
Add(o) ==
  LET h == IF Crowded(head) THEN Resized(head, 2 * head.size + 3) ELSE head
  IN  IF Full(h) \/ h.table[Probe(h, o)] = o
      THEN head' = h /\ ret' = -1
      ELSE head' = Placed(h, o) /\ ret' = 0

\* calloc has nothing for the larger table.
AddWithoutMemory(o) ==
  /\ Crowded(head)
  /\ ret' = -1
  /\ UNCHANGED head

RemoveMissing(o) ==
  /\ head.table[Probe(head, o)] # o
  /\ ret' = -1
  /\ UNCHANGED head

Without(o) == [head EXCEPT !.table[Probe(head, o)] = NoObject, !.elem = @ - 1]

\* The smaller table is made anew; if calloc has nothing for it, the hole of
\* the old one is closed as usual.
Remove(o) ==
  /\ head.table[Probe(head, o)] = o
  /\ ret' = 0
  /\ \/ Sparse(Without(o)) /\ head' = Resized(Without(o), head.size \div 2 - 1)
     \/ head' = Closed(Without(o), Probe(head, o))

Next ==
  /\ \E o \in Objects : Add(o) \/ AddWithoutMemory(o) \/ RemoveMissing(o) \/ Remove(o)
  /\ UNCHANGED hashOf

Spec == Init /\ [][Next]_vars

-----------------------------------------------------------------------------
Slots == 0 .. head.size - 1

\* The head is a table of size slots, each with an object or none.
TypeOK ==
  /\ head.table \in [Slots -> Objects \union {NoObject}]
  /\ head.elem \in 0 .. head.size
  /\ hashOf \in [Objects -> HashValues]
  /\ ret \in {0, -1}

\* What pp_nhash_get finds.
Held == {o \in Objects : Get(o) = o}

\* Whatever was added, and not removed since, is found by its key, through
\* every growing, shrinking and closing of holes (pp_nhash_add, pp_nhash_remove
\* and pp_nhash_get): the table implements a set.  A step that is none of the
\* table's needs no search of it to tell.
ImplementsSet == INSTANCE ObjectSet WITH members <- Held
SetSpec == ImplementsSet!Init /\ [][UNCHANGED vars \/ ImplementsSet!Next]_<<Held, ret>>
=============================================================================
