------------------------------ MODULE PpVarList ------------------------------
(* Listing the named variables in the order of their names                   *)
(* (pp_named_var_for_each): the entries of the hash table go, in the order   *)
(* of their slots, into a priority queue kept as a binary heap in an array   *)
(* that is reallocated when it is full, and are taken out of it one by one.  *)
(* An entry in the queue carries a reference, and is freed with its last.    *)
EXTENDS Integers, Sequences, FiniteSets, SequencesExt

CONSTANTS Names,           \* numbers, in the order of strcmp
          InitialCapacity, \* PP_PQUEUE_INITIAL_SIZE, scaled
          MaxRefcount      \* the bound on references that failed insertions leave behind
NamesAssumption == Names \subseteq Nat
CapacityAssumption == InitialCapacity \in Nat \ {0} /\ MaxRefcount \in Nat \ {0}

VARIABLES refcount,  \* of every variable; 0 is for one that does not exist
          pc,        \* of the listing: "idle", "fill" or "drain"
          todo,      \* the entries the walk of the hash table has still to visit
          heap,      \* the heap, without the unused heap[0]; num_elem is its length
          capacity,
          listed,    \* the names given to cb_func, in that order
          dropped    \* the entries the queue of this listing had no memory for

vars == <<refcount, pc, todo, heap, capacity, listed, dropped>>

Existing == {n \in Names : refcount[n] > 0}

-----------------------------------------------------------------------------
\* cmp_func: the lesser name has the higher priority.
Cmp(a, b) == b - a

Exchanged(h, i, j) == [h EXCEPT ![i] = h[j], ![j] = h[i]]

\* The last object rises while its parent does not come before it.  The C
\* shifts the parents down and stores the object once; the array is the same.
UpHeap(h) ==
  LET loop[k \in 0 .. Len(h)] ==
        IF k = 0 THEN [heap |-> h, at |-> Len(h)]
        ELSE LET s      == loop[k - 1]
                 parent == s.at \div 2
             IN  IF parent = 0 \/ Cmp(s.heap[parent], s.heap[s.at]) > 0 THEN s
                 ELSE [heap |-> Exchanged(s.heap, s.at, parent), at |-> parent]
  IN  loop[Len(h)].heap

\* The first object sinks while the better of its children comes before it.
DownHeap(h) ==
  LET loop[k \in 0 .. Len(h)] ==
        IF k = 0 THEN [heap |-> h, at |-> 1]
        ELSE LET s     == loop[k - 1]
                 left  == 2 * s.at
                 child == IF left < Len(h) /\ Cmp(s.heap[left], s.heap[left + 1]) < 0
                          THEN left + 1 ELSE left
             IN  IF s.at > Len(h) \div 2 \/ Cmp(s.heap[s.at], s.heap[child]) >= 0 THEN s
                 ELSE [heap |-> Exchanged(s.heap, s.at, child), at |-> child]
  IN  loop[Len(h)].heap

MutantTaken(h) ==  \* the hole at the top is closed by moving everything up
  Tail(h)

\* The heap without its first object: the last one takes its place and sinks.
Taken(h) ==
  IF Len(h) = 1 THEN << >> ELSE DownHeap(Front([h EXCEPT ![1] = Last(h)]))

-----------------------------------------------------------------------------
Init ==
  /\ refcount = [n \in Names |-> 0]
  /\ pc = "idle"
  /\ todo = {} /\ heap = << >> /\ capacity = InitialCapacity
  /\ listed = << >> /\ dropped = {}

\* pp_named_var_set_tree: a variable is made with one reference, or made anew.
\* The macros that would lock the tree are empty: variables are set between
\* listings here, as from the shell, which runs one command after the other.
SetVar(n) ==
  /\ pc = "idle"
  /\ refcount' = [refcount EXCEPT ![n] = 1]
  /\ UNCHANGED <<pc, todo, heap, capacity, listed, dropped>>

\* The old entry of a string is removed and freed first: then malloc has no
\* memory for the new one, or pp_nhash_add refuses it, and the variable is gone.
SetVarFails(n) ==
  /\ pc = "idle" /\ n \in Existing
  /\ refcount' = [refcount EXCEPT ![n] = 0]
  /\ UNCHANGED <<pc, todo, heap, capacity, listed, dropped>>

\* The walk is over a copy of the table's pointers, for which malloc may have
\* nothing: then it is over nothing.
StartListing ==
  /\ pc = "idle"
  /\ pc' = "fill"
  /\ todo' \in {Existing, {}} /\ dropped' = Existing \ todo'
  /\ heap' = << >> /\ capacity' = InitialCapacity
  /\ listed' = << >>
  /\ UNCHANGED refcount

MustGrow == Len(heap) + 1 > capacity

MutantInsert(n) ==  \* the reference is taken for the heap, and forgotten
  /\ pc = "fill" /\ n \in todo
  /\ todo' = todo \ {n}
  /\ heap' = UpHeap(Append(heap, n))
  /\ capacity' = IF MustGrow THEN 2 * capacity ELSE capacity
  /\ UNCHANGED <<refcount, pc, listed, dropped>>

\* The slots of the hash table come in an order of their own.
Insert(n) ==
  /\ pc = "fill" /\ n \in todo
  /\ todo' = todo \ {n}
  /\ refcount' = [refcount EXCEPT ![n] = @ + 1]
  /\ heap' = UpHeap(Append(heap, n))
  /\ capacity' = IF MustGrow THEN 2 * capacity ELSE capacity
  /\ UNCHANGED <<pc, listed, dropped>>

\* realloc fails: the entry keeps the reference the queue was to hold.
InsertWithoutMemory(n) ==
  /\ pc = "fill" /\ n \in todo /\ MustGrow
  /\ refcount[n] < MaxRefcount
  /\ todo' = todo \ {n}
  /\ refcount' = [refcount EXCEPT ![n] = @ + 1]
  /\ dropped' = dropped \union {n}
  /\ UNCHANGED <<pc, heap, capacity, listed>>

AllInserted ==
  /\ pc = "fill" /\ todo = {}
  /\ pc' = "drain"
  /\ UNCHANGED <<refcount, todo, heap, capacity, listed, dropped>>

\* pp_pqueue_remove_next, the call of cb_func, and pp_named_var_release, which
\* removes and frees the entry if that was its last reference.
ListNext ==
  /\ pc = "drain" /\ heap # << >>
  /\ listed' = Append(listed, heap[1])
  /\ refcount' = [refcount EXCEPT ![heap[1]] = @ - 1]
  /\ heap' = Taken(heap)
  /\ UNCHANGED <<pc, todo, capacity, dropped>>

Listed ==
  /\ pc = "drain" /\ heap = << >>
  /\ pc' = "idle"
  /\ UNCHANGED <<refcount, todo, heap, capacity, listed, dropped>>

Next ==
  \/ \E n \in Names : SetVar(n) \/ SetVarFails(n) \/ Insert(n) \/ InsertWithoutMemory(n)
  \/ StartListing \/ AllInserted \/ ListNext \/ Listed

Spec == Init /\ [][Next]_vars

-----------------------------------------------------------------------------
TypeOK ==
  /\ refcount \in [Names -> 0 .. MaxRefcount + 1]
  /\ pc \in {"idle", "fill", "drain"}
  /\ todo \subseteq Names /\ dropped \subseteq Names
  /\ heap \in Seq(Names) /\ Len(heap) <= capacity
  /\ listed \in Seq(Names)

\* "Add all vars to the priority queue so they can be extracted sorted in
\* lexicographical order" (pp_named_var.c:1442): the names are listed in their
\* order, each once, and at the end none is missing but those there was no
\* memory for.
ListedInOrder ==
  /\ \A i, j \in DOMAIN listed : i < j => listed[i] < listed[j]
  /\ pc = "drain" /\ heap = << >> =>
       {listed[i] : i \in DOMAIN listed} = Existing \ dropped

\* Listing is no more than looking: pp_named_var_release never frees an entry
\* that pp_named_var_for_each has met.  A variable goes away between listings
\* only, alone, when setting it fails.
NothingFreed ==
  [][\/ Existing \subseteq Existing'
     \/ pc = "idle" /\ pc' = "idle" /\ \E n \in Names : Existing' = Existing \ {n}]_vars
=============================================================================
