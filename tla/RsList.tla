-------------------------------- MODULE RsList --------------------------------
(* OrderedList of reason-2.x and the classes it is derived from: doubly      *)
(* linked lists that remember the entry they were last asked for by index    *)
(* (Sentinel), insert by binary search over links when they have an order,   *)
(* and sort themselves by relinking.  Entries pass between several lists.    *)
(* "next" and "prev" name the two links of an entry and, of a list, the end  *)
(* that lies that way: Last and First.                                       *)
EXTENDS Integers, Sequences, FiniteSets

CONSTANTS Lists,
          Entries,   \* bound: the entries there are, numbers from 1
          Rank,      \* how Compare orders them
          Order      \* the order of each list: "default", "ascending" or "descending"

Seqs == INSTANCE SequencesExt

NULL == 0
LOST == -1   \* a sentinel that is not at its index any more
Orders == {"ascending", "descending"}

ListAssumption ==
  /\ IsFiniteSet(Entries) /\ Entries \subseteq Nat \ {NULL}
  /\ Rank \in [Entries -> 1..Cardinality(Entries)]
  /\ Order \in [Lists -> Orders \cup {"default"}]

VARIABLE t   \* the entries and the lists

Alone == [next |-> NULL, prev |-> NULL]
Back(d) == IF d = "next" THEN "prev" ELSE "next"
Distance(a, b) == IF a < b THEN b - a ELSE a - b

Init ==
  t = [link |-> [e \in Entries |-> Alone], end |-> [l \in Lists |-> Alone],
       count |-> [l \in Lists |-> 0],
       sentinel |-> [l \in Lists |-> NULL], index |-> [l \in Lists |-> 0]]

RECURSIVE Walk(_, _, _, _)
Walk(s, e, d, n) == IF n = 0 THEN e ELSE Walk(s, s.link[e][d], d, n - 1)

(* The entries of a list by their next links, and those no list holds.      *)
Content(s, l) ==
  LET RECURSIVE From(_, _)
      From(e, n) == IF e = NULL \/ n = 0 THEN <<>> ELSE <<e>> \o From(s.link[e].next, n - 1)
  IN  From(s.end[l].prev, Cardinality(Entries) + 1)

Members(l) == {Content(t, l)[i] : i \in 1..t.count[l]}
Free == Entries \ UNION {Members(l) : l \in Lists}

-----------------------------------------------------------------------------
Pointed(s, l, e, i) == [s EXCEPT !.sentinel[l] = e, !.index[l] = i]
Reset(s, l) == Pointed(s, l, NULL, 0)

(* Lists that are sorted, taken over or inserted into at random keep their  *)
(* sentinel, although another entry has its index then: LOST stands for it. *)
Moved(s, l) == IF s.sentinel[l] = NULL THEN s ELSE Pointed(s, l, LOST, 0)

(* From the nearer end only if it is the end itself, else from the sentinel. *)
IterandAt(s, l, i) ==
  IF i < 0 \/ i >= s.count[l] THEN s
  ELSE IF i = 0 THEN Pointed(s, l, s.end[l].prev, 0)
  ELSE IF i = s.count[l] - 1 THEN Pointed(s, l, s.end[l].next, i)
  ELSE LET start == IF s.sentinel[l] = NULL THEN Pointed(s, l, s.end[l].prev, 0) ELSE s
           d == IF i > start.index[l] THEN "next" ELSE "prev"
       IN  Pointed(s, l, Walk(s, start.sentinel[l], d, Distance(i, start.index[l])), i)

EntryAt(s, l, i) ==
  IF i < 0 \/ i >= s.count[l] THEN NULL ELSE IterandAt(s, l, i).sentinel[l]

(* Callers must not ask for an index the sentinel would miss.               *)
Reachable(l, i) == t.sentinel[l] = LOST => i <= 0 \/ i >= t.count[l] - 1

(* e is linked next to a place, after it (d is "next") or before it, where  *)
(* no place is the end of the list on that side.                            *)
Insert(s, l, e, place, d) ==
  LET at == IF place = NULL THEN s.end[l][d] ELSE place
      s0 == [Reset(s, l) EXCEPT !.count[l] = @ + 1]
      s1 == IF at = s.end[l][d] THEN [s0 EXCEPT !.end[l][d] = e]
            ELSE [s0 EXCEPT !.link[e][d] = s.link[at][d], !.link[s.link[at][d]][Back(d)] = e]
  IN  IF at = NULL THEN [s0 EXCEPT !.link[e] = Alone, !.end[l] = [next |-> e, prev |-> e]]
      ELSE [s1 EXCEPT !.link[e][Back(d)] = at, !.link[at][d] = e]

(* Its neighbours, or the ends of the list, close the gap it leaves.         *)
Remove(s, l, e) ==
  LET p == s.link[e].prev
      n == s.link[e].next
      s1 == IF s.count[l] = 1 THEN [s EXCEPT !.end[l] = Alone]
            ELSE IF e = s.end[l].prev THEN [s EXCEPT !.link[n].prev = NULL, !.end[l].prev = n]
            ELSE IF e = s.end[l].next THEN [s EXCEPT !.link[p].next = NULL, !.end[l].next = p]
            ELSE [s EXCEPT !.link[n].prev = p, !.link[p].next = n]
  IN  Reset([s1 EXCEPT !.link[e] = Alone, !.count[l] = @ - 1], l)

InsertAt(s, l, e, i) ==
  LET s1 == IF i = 0 THEN Insert(s, l, e, NULL, "prev")
            ELSE IF i = s.count[l] THEN Insert(s, l, e, NULL, "next")
            ELSE Insert(IterandAt(s, l, i), l, e, EntryAt(s, l, i), "prev")
  IN  [s1 EXCEPT !.index[l] = IF i <= @ THEN @ + 1 ELSE @]

(* Two entries change places, by way of the entries before them.            *)
Swap(s, l, i, j) ==
  LET ii == s.link[i].prev
      jj == s.link[j].prev
      Behind(x, e, place) == Insert(x, l, e, place, IF place = NULL THEN "prev" ELSE "next")
  IN  IF i = j THEN s
      ELSE IF ii = j THEN Insert(Remove(s, l, i), l, i, j, "prev")
      ELSE IF jj = i THEN Insert(Remove(s, l, j), l, j, i, "prev")
      ELSE Behind(Remove(Behind(Remove(s, l, j), j, ii), l, i), i, jj)

RECURSIVE Rotate(_, _, _)
Rotate(s, l, n) ==
  IF n = 0 THEN s
  ELSE LET d == IF n > 0 THEN "next" ELSE "prev"
           e == s.end[l][d]
       IN  Rotate(Insert(Remove(s, l, e), l, e, NULL, Back(d)), l, IF n > 0 THEN n - 1 ELSE n + 1)

(* Every list the random numbers can lead to.  The entry before e is the    *)
(* next one to be swapped, wherever it has gone in the meantime.            *)
RECURSIVE Shuffled(_, _, _, _)
Shuffled(s, l, e, remaining) ==
  IF remaining = 0 \/ s.link[e].prev = NULL THEN {s}
  ELSE UNION {Shuffled(Swap(IterandAt(s, l, r), l, e, EntryAt(s, l, r)), l, s.link[e].prev,
                       remaining - 1) : r \in 0..remaining - 1}

-----------------------------------------------------------------------------
(* Binary search: the pivot, at index middle, walks to the middle of what   *)
(* is left of the list.  go says of a pivot to stop there ("found"), or to  *)
(* go on behind or before it.                                               *)
Pivot(s, l, go) ==
  LET RECURSIVE Between(_, _, _, _)
      Between(first, last, middle, pivot) ==
        LET m == (first + last) \div 2
            p == Walk(s, pivot, IF m < middle THEN "prev" ELSE "next", Distance(m, middle))
        IN  IF first > last THEN NULL
            ELSE CASE go[p] = "found" -> p
                   [] go[p] = "next" -> Between(m + 1, last, m, p)
                   [] go[p] = "prev" -> Between(first, m - 1, m, p)
  IN  Between(0, s.count[l] - 1, 0, s.end[l].prev)

(* Whether rank a goes before rank b.                                       *)
Before(order, a, b) == IF order = "descending" THEN a > b ELSE a < b

(* Where e goes: equals go behind each other in an ascending list, and in   *)
(* front of each other in a descending one.                                 *)
Passes(l, p, e) == IF Order[l] = "descending" THEN Rank[p] > Rank[e] ELSE Rank[p] <= Rank[e]

(* A bug a run must catch: a pivot that goes behind e is the place.         *)
MutantInsertOrdered(s, l, e) ==
  IF Order[l] = "default" THEN Insert(s, l, e, NULL, "next")
  ELSE LET go == [p \in Entries |-> IF Passes(l, p, e) THEN "next" ELSE "found"]
           p == Pivot(s, l, go)
       IN  Insert(s, l, e, p, IF p = NULL THEN "next" ELSE "prev")

InsertOrdered(s, l, e) ==
  LET go == [p \in Entries |->
        LET n == s.link[p][IF Passes(l, p, e) THEN "next" ELSE "prev"]
        IN  IF n = NULL THEN "found"
            ELSE IF Passes(l, p, e)
                 THEN IF Before(Order[l], Rank[e], Rank[n]) THEN "found" ELSE "next"
                 ELSE IF Before(Order[l], Rank[n], Rank[e]) THEN "found" ELSE "prev"]
      pivot == Pivot(s, l, go)
      place == IF pivot # NULL /\ Passes(l, pivot, e) THEN s.link[pivot].next ELSE pivot
  IN  IF Order[l] = "default" \/ place = NULL THEN Insert(s, l, e, NULL, "next")
      ELSE Insert(s, l, e, place, "prev")

Select(s, l, k) ==
  LET go == [p \in Entries |->
        IF Rank[p] = k THEN "found" ELSE IF Before(Order[l], k, Rank[p]) THEN "prev" ELSE "next"]
      equal == SelectSeq(Content(s, l), LAMBDA e : Rank[e] = k)
  IN  IF Order[l] # "default" THEN Pivot(s, l, go)
      ELSE IF equal = <<>> THEN NULL ELSE equal[1]

-----------------------------------------------------------------------------
(* The entries in the order of a sequence become the list.                  *)
Relinked(s, l, seq) ==
  LET Nth(i) == IF i \in DOMAIN seq THEN seq[i] ELSE NULL
      place == [e \in {seq[i] : i \in DOMAIN seq} |-> CHOOSE i \in DOMAIN seq : seq[i] = e]
  IN  [s EXCEPT !.link = [e \in Entries |->
                            IF e \notin DOMAIN place THEN @[e]
                            ELSE [next |-> Nth(place[e] + 1), prev |-> Nth(place[e] - 1)]],
                !.end[l] = [next |-> Nth(Len(seq)), prev |-> Nth(1)]]

(* SortTree hangs one entry after the other into a tree made of the links,  *)
(* b, with short cuts to its ends.  Equals go to the side that is read last. *)
Side(order, e, node) ==
  IF Rank[e] < Rank[node] THEN "prev"
  ELSE IF Rank[e] > Rank[node] \/ order = "ascending" THEN "next"
  ELSE "prev"

Hung(b, order, e) ==
  LET RECURSIVE Down(_)
      Down(node) ==
        LET d == Side(order, e, node)
        IN  IF b.link[node][d] # NULL THEN Down(b.link[node][d])
            ELSE [b EXCEPT !.link[node][d] = e,
                           !.utmost[d] = IF node = @ THEN e ELSE @]
      min == b.utmost.prev
      max == b.utmost.next
  IN  IF Rank[e] < Rank[min] THEN [b EXCEPT !.link[min].prev = e, !.utmost.prev = e]
      ELSE IF Rank[e] > Rank[max] THEN [b EXCEPT !.link[max].next = e, !.utmost.next = e]
      ELSE Down(IF Rank[e] = Rank[max] THEN max ELSE IF Rank[e] = Rank[min] THEN min ELSE b.root)

RECURSIVE InOrder(_, _, _)
InOrder(b, node, d) ==
  IF node = NULL THEN <<>>
  ELSE InOrder(b, b.link[node][Back(d)], d) \o <<node>> \o InOrder(b, b.link[node][d], d)

SortTree(s, l, order) ==
  LET seq == Content(s, l)
      RECURSIVE Tree(_)
      Tree(n) == IF n = 1 THEN [root |-> seq[1], utmost |-> [next |-> seq[1], prev |-> seq[1]],
                                link |-> [e \in Entries |-> Alone]]
                 ELSE Hung(Tree(n - 1), order, seq[n])
      b == Tree(Len(seq))
  IN  IF seq = <<>> THEN s
      ELSE Moved(Relinked(s, l, InOrder(b, b.root, IF order = "ascending" THEN "next" ELSE "prev")), l)

(* SortQuickStable parts what is left of the list by its first entry. Which *)
(* of the two parts it sorts by calling itself makes no difference.         *)
RECURSIVE Parted(_, _)
Parted(seq, order) ==
  IF seq = <<>> THEN <<>>
  ELSE Parted(SelectSeq(seq, LAMBDA e : Before(order, Rank[e], Rank[seq[1]])), order)
       \o SelectSeq(seq, LAMBDA e : Rank[e] = Rank[seq[1]])
       \o Parted(SelectSeq(seq, LAMBDA e : Before(order, Rank[seq[1]], Rank[e])), order)

SortQuickStable(s, l, order) == Moved(Relinked(s, l, Parted(Content(s, l), order)), l)

(* SortQuick parts the positions a to b around the middle of three entries, *)
(* which it swaps to the front, and counts how far its two scans moved.     *)
At(s, l, i) == Content(s, l)[i + 1]
Swapped(s, l, i, j) == Swap(s, l, At(s, l, i), At(s, l, j))

Median(s, l, a, b) ==
  LET K(i) == Rank[At(s, l, i)]
      p == a + Seqs!Max({2^k - 1 : k \in {k \in 0..b - a : 2^(k + 1) - 1 <= b - a}})
  IN  IF K(a) >= K(p) THEN IF K(b) < K(p) THEN p ELSE IF K(a) >= K(b) THEN b ELSE a
      ELSE IF K(b) >= K(p) THEN p ELSE IF K(b) >= K(a) THEN b ELSE a

RECURSIVE Scanned(_, _, _, _, _, _, _)
Scanned(s, l, order, a, left, right, shift) ==
  LET K(i) == Rank[At(s, l, i)]
      stop == Seqs!Min({i \in left..right : i = right \/ Before(order, K(a), K(i))})
      back == Seqs!Max({i \in stop..right : i = stop \/ ~Before(order, K(a), K(i))})
      moves == shift + (stop - left) - (right - back)
  IN  IF stop = back THEN [s |-> s, meet |-> stop, shift |-> moves]
      ELSE Scanned(Swapped(s, l, stop, back), l, order, a, stop, back, moves)

(* A scan r ended at r.meet: the pivot goes between the two parts, and the  *)
(* part that seems shorter is sorted first, by a call.                      *)
RECURSIVE Quick(_, _, _, _, _), SortParts(_, _, _, _, _)
Quick(s, l, order, a, b) ==
  IF a = b THEN s
  ELSE SortParts(Scanned(Swapped(s, l, a, Median(s, l, a, b)), l, order, a, a, b, 0), l, order, a, b)

SortParts(r, l, order, a, b) ==
  LET K(i) == Rank[At(r.s, l, i)]
      place == IF Before(order, K(a), K(r.meet)) THEN r.meet - 1 ELSE r.meet
      parted == Swapped(r.s, l, a, place)
      right == IF place = r.meet THEN place - 1 ELSE place
  IN  IF r.shift > 0 THEN Quick(Quick(parted, l, order, r.meet, b), l, order, a, right)
      ELSE Quick(Quick(parted, l, order, a, right), l, order, r.meet, b)

SortQuick(s, l, order) == IF s.count[l] = 0 THEN s ELSE Quick(s, l, order, 0, s.count[l] - 1)

-----------------------------------------------------------------------------
Get(l, i) == Reachable(l, i) /\ t' = IterandAt(t, l, i)

\* Append and Prepend give no place.
Place(l, e, place, d) == t' = Insert(t, l, e, place, d)
PlaceAt(l, e, i) == Reachable(l, i) /\ t' = InsertAt(t, l, e, i)
PlaceInOrder(l, e) == t' = InsertOrdered(t, l, e)

(* The place is asked for by index after the sentinel was reset, and stays  *)
(* the sentinel although the entry before it is new. In an empty list the   *)
(* code divides by the number of entries, zero: callers put one in before.  *)
PlaceAtRandom(l, e) == \E i \in 0..t.count[l] - 1 :
  LET at == EntryAt(Reset(t, l), l, i)
  IN  t' = Moved(Pointed(Insert(t, l, e, at, "prev"), l, at, i), l)

TakeOut(l, e) == t' = Remove(t, l, e)
TakeOutAt(l, i) ==
  /\ Reachable(l, i)
  /\ t' = LET e == EntryAt(t, l, i) IN IF e = NULL THEN t ELSE Remove(t, l, e)

Release(l) ==
  t' = Reset([t EXCEPT !.link = [e \in Entries |-> IF e \in Members(l) THEN Alone ELSE @[e]],
                       !.end[l] = Alone, !.count[l] = 0], l)

Switch(l, i, j) ==
  /\ Reachable(l, i) /\ Reachable(l, j)
  /\ t' = LET s == IterandAt(IterandAt(t, l, i), l, j)
          IN  Swap(s, l, EntryAt(t, l, i), EntryAt(t, l, j))

\* The remainder of C has the sign of the rotation.
Turned(s, l, n) ==
  Rotate(s, l, IF n < 0 THEN -((-n) % s.count[l]) ELSE n % s.count[l])

Turn(l, n) == t' = Turned(t, l, n)

Shuffle(l) ==
  /\ t.count[l] > 2 /\ t.sentinel[l] # LOST
  /\ t' \in Shuffled(t, l, t.end[l].next, t.count[l] - 1)

Sort(l, order) ==
  t' \in {SortTree(t, l, order), SortQuickStable(t, l, order), SortQuick(t, l, order)}

Take(l, e, from) == t' = Insert(Remove(t, from, e), l, e, NULL, "next")

(* Both lists keep their sentinels.                                         *)
TakeAll(l, from) ==
  /\ l # from /\ t.count[l] = 0
  /\ t' = Moved(Moved([t EXCEPT !.end = [@ EXCEPT ![l] = t.end[from], ![from] = Alone],
                                !.count = [@ EXCEPT ![l] = t.count[from], ![from] = 0]], l), from)

Next == \E l \in Lists :
  \/ \E i \in -1..t.count[l] : Get(l, i) \/ TakeOutAt(l, i)
  \/ \E e \in Free :
       \/ PlaceInOrder(l, e) \/ PlaceAtRandom(l, e)
       \/ \E i \in 0..t.count[l] : PlaceAt(l, e, i)
       \/ \E place \in Members(l) \cup {NULL}, d \in {"next", "prev"} : Place(l, e, place, d)
  \/ \E e \in Members(l) : TakeOut(l, e)
  \/ Release(l)
  \/ \E i, j \in 0..t.count[l] - 1 : Switch(l, i, j)
  \/ t.count[l] # 0 /\ \E n \in -t.count[l] - 1..t.count[l] + 1 : Turn(l, n)
  \/ Shuffle(l)
  \/ \E order \in Orders : Sort(l, order)
  \/ \E from \in Lists : TakeAll(l, from) \/ \E e \in Members(from) : Take(l, e, from)

Spec == Init /\ [][Next]_t

-----------------------------------------------------------------------------
(* The links of every list lead through the same entries both ways and end  *)
(* at its ends, count says how many there are, no entry is in two lists or  *)
(* keeps links outside of one, and a sentinel is at its index.              *)
Linked ==
  /\ \A l \in Lists : LET c == Content(t, l) IN
       /\ t.count[l] = Len(c)
       /\ t.end[l] = IF c = <<>> THEN Alone ELSE [next |-> c[Len(c)], prev |-> c[1]]
       /\ \A i \in 1..Len(c) : t.link[c[i]].prev = IF i = 1 THEN NULL ELSE c[i - 1]
       /\ t.sentinel[l] \notin {NULL, LOST} => t.sentinel[l] = c[t.index[l] + 1]
       /\ \A m \in Lists \ {l} : Members(l) \cap Members(m) = {}
  /\ \A e \in Free : t.link[e] = Alone

Sorted(l, c) == \A i \in 1..Len(c) - 1 : ~Before(Order[l], Rank[c[i + 1]], Rank[c[i]])

(* The stable sort: rank by rank, the entries of one as they came.          *)
StablySorted(c, order) ==
  LET R == Cardinality(Entries)
      Of(k) == IF order = "descending" THEN R + 1 - k ELSE k
  IN  Seqs!FlattenSeq([k \in 1..R |-> SelectSeq(c, LAMBDA e : Rank[e] = Of(k))])

Asked(l, c) ==
  /\ \A i \in -1..Len(c) : Reachable(l, i) =>
       EntryAt(t, l, i) = IF i + 1 \in DOMAIN c THEN c[i + 1] ELSE NULL
  /\ Sorted(l, c) => \A k \in 1..Cardinality(Entries) :
       LET e == Select(t, l, k)
       IN  IF e = NULL THEN \A i \in DOMAIN c : Rank[c[i]] # k
           ELSE e \in Members(l) /\ Rank[e] = k

Placed(l, c) == \A e \in Free :
  LET Lands(s, i) == Content(s, l) = Seqs!InsertAt(c, i, e)
  IN  /\ \A i \in 0..Len(c) : Reachable(l, i) => Lands(InsertAt(t, l, e, i), i + 1)
      /\ \A i \in DOMAIN c : /\ Lands(Insert(t, l, e, c[i], "prev"), i)
                             /\ Lands(Insert(t, l, e, c[i], "next"), i + 1)
      /\ Order[l] # "default" /\ Sorted(l, c) =>
           Lands(InsertOrdered(t, l, e), 1 + Cardinality({i \in DOMAIN c : Passes(l, c[i], e)}))

Rearranged(l, c) ==
  /\ \A i, j \in DOMAIN c :
       Content(Swap(t, l, c[i], c[j]), l) = [c EXCEPT ![i] = c[j], ![j] = c[i]]
  /\ c # <<>> => \A n \in -Len(c) - 1..Len(c) + 1 :
       Content(Turned(t, l, n), l) = [i \in DOMAIN c |-> c[((i - 1 - n) % Len(c)) + 1]]
  /\ \A order \in Orders :
       LET sorted == StablySorted(c, order)
           quick == Content(SortQuick(t, l, order), l)
       IN  /\ Content(SortTree(t, l, order), l) = sorted
           /\ Content(SortQuickStable(t, l, order), l) = sorted
           /\ Len(quick) = Len(c) /\ {quick[i] : i \in DOMAIN quick} = Members(l)
           /\ \A i \in DOMAIN c : Rank[quick[i]] = Rank[sorted[i]]

(* Whatever calls came before, a list acts as the sequence of its entries:  *)
(* an index means the entry at it, an entry goes to the place it was given, *)
(* in a sorted list to one that keeps it sorted, where it is found again,   *)
(* and the sorts, of which two keep the order of equals, lose no entry.     *)
ActsAsSequences ==
  /\ Linked
  /\ \A l \in Lists : LET c == Content(t, l) IN
       /\ Asked(l, c) /\ Placed(l, c) /\ Rearranged(l, c)
       /\ \A i \in DOMAIN c : Content(Remove(t, l, c[i]), l) = Seqs!RemoveAt(c, i)
===============================================================================
