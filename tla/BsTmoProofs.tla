----------------------------- MODULE BsTmoProofs -----------------------------
(***************************************************************************)
(* The lists of the wheel stay whole whatever tasks and routines set,      *)
(* cancel and reset, and the walk stays on the list of its slot unless a   *)
(* routine takes away the timer it goes to next, for every size of the     *)
(* wheel and any number of timers.                                         *)
(***************************************************************************)
EXTENDS BsTmo, Sequences, FiniteSetTheorems, WellFoundedInduction, TLAPS

CellsTyped(c) ==
  /\ c.next \in [Cells -> Cells \cup {NULL}]
  /\ c.prev \in [Cells -> Cells \cup {NULL}]
  /\ c.head \in [Cells -> Slots \cup {NULL}]
  /\ c.size \in [Slots -> Int]

(* The i-th cell of the circle through h and the entries of s.             *)
Spot(h, s, i) == IF i \in 1..Len(s) THEN s[i] ELSE h

(* s is the list of h, in its order: that is what the links, read either   *)
(* way, the heads of the entries and the size of the list say.             *)
IsList(c, h, s) ==
  /\ c.size[h] = Len(s)
  /\ \A i, j \in 1..Len(s) : s[i] = s[j] => i = j
  /\ \A i \in 1..Len(s) : c.head[s[i]] = h
  /\ \A t \in Timers : c.head[t] = h => \E i \in 1..Len(s) : s[i] = t
  /\ \A i \in 0..Len(s) :
       /\ c.next[Spot(h, s, i)] = Spot(h, s, i + 1)
       /\ c.prev[Spot(h, s, i + 1)] = Spot(h, s, i)

Linked(c) == \A h \in Slots : \E s \in Seq(Timers) : IsList(c, h, s)

(* The walk is on the list of the slot.                                    *)
OnList ==
  /\ entry # NULL /\ running = NULL => entry \in Timers /\ cells.head[entry] = slot
  /\ next # NULL => next \in Timers /\ cells.head[next] = slot

Periods == Msecs \cup {0}

(* While a routine runs the walk knows where it goes on.                   *)
Walking ==
  /\ slot \in Slots
  /\ entry \in Cells \cup {NULL} /\ next \in Cells \cup {NULL}
  /\ running \in Timers \cup {NULL}
  /\ next # NULL => running # NULL
  /\ running # NULL => entry # NULL
  /\ lap \in [Timers -> Nat] /\ msec \in [Timers -> Periods]

WheelInv ==
  /\ CellsTyped(cells) /\ Linked(cells) /\ Walking
  /\ strayed = NULL => OnList

-----------------------------------------------------------------------------
LEMMA SlotsAreNoTimers ==
  /\ Slots \cap Timers = {} /\ NULL \notin Slots /\ NULL \notin Timers
  /\ Cells = Slots \cup Timers
BY TmoAssumption DEF Cells

LEMMA SpotIsCell ==
  ASSUME NEW c, NEW h \in Slots, NEW s \in Seq(Timers), IsList(c, h, s),
         NEW i \in Int
  PROVE  /\ Spot(h, s, i) \in Cells
         /\ Spot(h, s, i) = h \/ (Spot(h, s, i) \in Timers /\ c.head[Spot(h, s, i)] = h)
BY SlotsAreNoTimers DEF Spot, IsList

LEMMA SpotsDiffer ==
  ASSUME NEW c, NEW h \in Slots, NEW s \in Seq(Timers), IsList(c, h, s),
         NEW i \in 0..Len(s), NEW j \in 0..Len(s), Spot(h, s, i) = Spot(h, s, j)
  PROVE  i = j
<1>1. Len(s) \in Nat /\ \A k \in 1..Len(s) : s[k] \in Timers
  OBVIOUS
<1>2. CASE i = 0 \/ j = 0
  BY <1>1, <1>2, SlotsAreNoTimers DEF Spot
<1>3. CASE i \in 1..Len(s) /\ j \in 1..Len(s)
  BY <1>3 DEF Spot, IsList
<1> QED BY <1>1, <1>2, <1>3

(* What a change to cells of other lists leaves a list.                    *)
LEMMA OthersStay ==
  ASSUME NEW c, NEW d, NEW h \in Slots, NEW s \in Seq(Timers), IsList(c, h, s),
         d.size[h] = c.size[h],
         \A t \in Timers : d.head[t] = h <=> c.head[t] = h,
         \A x \in Cells : x = h \/ (x \in Timers /\ c.head[x] = h) =>
           d.next[x] = c.next[x] /\ d.prev[x] = c.prev[x]
  PROVE  IsList(d, h, s)
<1>1. ASSUME NEW i \in Int
      PROVE  /\ d.next[Spot(h, s, i)] = c.next[Spot(h, s, i)]
             /\ d.prev[Spot(h, s, i)] = c.prev[Spot(h, s, i)]
  <2>1. PICK x : x = Spot(h, s, i)
    OBVIOUS
  <2>2. x \in Cells /\ (x = h \/ (x \in Timers /\ c.head[x] = h))
    BY <2>1, SpotIsCell
  <2> QED BY <2>1, <2>2
<1>2. \A i \in 1..Len(s) : s[i] \in Timers
  OBVIOUS
<1>3. \A i \in 0..Len(s) : i \in Int /\ i + 1 \in Int
  OBVIOUS
<1> QED BY <1>1, <1>2, <1>3 DEF IsList

-----------------------------------------------------------------------------
(* list_insert_first, read cell by cell.                                   *)
LEMMA InsertCells ==
  ASSUME NEW c, CellsTyped(c), NEW h \in Slots, NEW t \in Timers,
         c.next[h] \in Cells, c.next[h] # t
  PROVE  LET d == InsertFirst(c, h, t) IN
         /\ CellsTyped(d)
         /\ \A x \in Cells :
              /\ d.next[x] = IF x = h THEN t ELSE IF x = t THEN c.next[h] ELSE c.next[x]
              /\ d.prev[x] = IF x = c.next[h] THEN t ELSE IF x = t THEN h ELSE c.prev[x]
              /\ d.head[x] = IF x = t THEN h ELSE c.head[x]
         /\ \A g \in Slots : d.size[g] = IF g = h THEN c.size[h] + 1 ELSE c.size[g]
<1>1. PICK next0, prev0, head0, size0, first :
        next0 = c.next /\ prev0 = c.prev /\ head0 = c.head /\ size0 = c.size /\ first = next0[h]
  OBVIOUS
<1>2. /\ next0 \in [Cells -> Cells \cup {NULL}] /\ prev0 \in [Cells -> Cells \cup {NULL}]
      /\ head0 \in [Cells -> Slots \cup {NULL}] /\ size0 \in [Slots -> Int]
      /\ h \in Cells /\ t \in Cells /\ first \in Cells /\ first # t /\ h # t
  BY <1>1, SlotsAreNoTimers DEF CellsTyped
<1>3. PICK next1, prev1, head1, size1 :
        /\ next1 = [next0 EXCEPT ![t] = first, ![h] = t]
        /\ prev1 = [prev0 EXCEPT ![t] = h, ![first] = t]
        /\ head1 = [head0 EXCEPT ![t] = h]
        /\ size1 = [size0 EXCEPT ![h] = @ + 1]
  OBVIOUS
<1>4. /\ next1 \in [Cells -> Cells \cup {NULL}] /\ prev1 \in [Cells -> Cells \cup {NULL}]
      /\ head1 \in [Cells -> Slots \cup {NULL}] /\ size1 \in [Slots -> Int]
  BY <1>2, <1>3
<1>5. /\ \A x \in Cells :
           /\ next1[x] = IF x = h THEN t ELSE IF x = t THEN first ELSE next0[x]
           /\ prev1[x] = IF x = first THEN t ELSE IF x = t THEN h ELSE prev0[x]
           /\ head1[x] = IF x = t THEN h ELSE head0[x]
      /\ \A g \in Slots : size1[g] = IF g = h THEN size0[h] + 1 ELSE size0[g]
  BY <1>2, <1>3
<1>6. InsertFirst(c, h, t) = [next |-> next1, prev |-> prev1, head |-> head1, size |-> size1]
  BY <1>1, <1>3 DEF InsertFirst
<1>7. PICK d : d = InsertFirst(c, h, t)
  OBVIOUS
<1>8. d.next = next1 /\ d.prev = prev1 /\ d.head = head1 /\ d.size = size1
  BY <1>6, <1>7
<1>9. CellsTyped(d)
  BY <1>4, <1>8 DEF CellsTyped
<1> QED BY <1>1, <1>5, <1>7, <1>8, <1>9

(* The list with t in front.                                               *)
LEMMA InsertList ==
  ASSUME NEW c, CellsTyped(c), NEW h \in Slots, NEW t \in Timers, c.head[t] # h,
         NEW s \in Seq(Timers), IsList(c, h, s)
  PROVE  IsList(InsertFirst(c, h, t), h, <<t>> \o s)
<1>1. PICK d, r, n, first :
        d = InsertFirst(c, h, t) /\ r = <<t>> \o s /\ n = Len(s) /\ first = c.next[h]
  OBVIOUS
<1>2. /\ r \in Seq(Timers) /\ Len(r) = n + 1 /\ n \in Nat /\ r[1] = t
      /\ \A i \in 1..n : r[i + 1] = s[i] /\ s[i] \in Timers /\ s[i] # t
  BY <1>1 DEF IsList
<1>3. first = Spot(h, s, 1) /\ first \in Cells /\ first # t
  BY <1>1, <1>2, SpotIsCell, SlotsAreNoTimers DEF IsList, Spot
<1>4. /\ \A x \in Cells :
           /\ d.next[x] = IF x = h THEN t ELSE IF x = t THEN first ELSE c.next[x]
           /\ d.prev[x] = IF x = first THEN t ELSE IF x = t THEN h ELSE c.prev[x]
           /\ d.head[x] = IF x = t THEN h ELSE c.head[x]
      /\ d.size[h] = c.size[h] + 1
  <2>1. c.next[h] \in Cells /\ c.next[h] # t
    BY <1>1, <1>3
  <2>2. PICK e : e = InsertFirst(c, h, t)
    OBVIOUS
  <2>3. /\ \A x \in Cells :
             /\ e.next[x] = IF x = h THEN t ELSE IF x = t THEN c.next[h] ELSE c.next[x]
             /\ e.prev[x] = IF x = c.next[h] THEN t ELSE IF x = t THEN h ELSE c.prev[x]
             /\ e.head[x] = IF x = t THEN h ELSE c.head[x]
        /\ \A g \in Slots : e.size[g] = IF g = h THEN c.size[h] + 1 ELSE c.size[g]
    BY <2>1, <2>2, InsertCells
  <2>4. e = d /\ c.next[h] = first
    BY <1>1, <2>2
  <2> QED BY <2>3, <2>4
<1>5. d.size[h] = Len(r)
  BY <1>1, <1>2, <1>4 DEF IsList
<1>6. \A i \in 1..Len(r) : i = 1 \/ (i - 1 \in 1..n /\ r[i] = s[i - 1])
  <2> TAKE i \in 1..Len(r)
  <2>1. i = 1 \/ i - 1 \in 1..n
    BY <1>2
  <2>2. i - 1 \in 1..n => r[(i - 1) + 1] = s[i - 1]
    BY <1>2
  <2>3. (i - 1) + 1 = i
    OBVIOUS
  <2> QED BY <2>1, <2>2, <2>3
<1>7. \A i, j \in 1..Len(r) : r[i] = r[j] => i = j
  <2> SUFFICES ASSUME NEW i \in 1..Len(r), NEW j \in 1..Len(r), r[i] = r[j] PROVE i = j
    OBVIOUS
  <2>1. CASE i = 1 \/ j = 1
    BY <1>2, <1>6, <2>1
  <2>2. CASE i # 1 /\ j # 1
    <3>1. i - 1 \in 1..n /\ j - 1 \in 1..n /\ s[i - 1] = s[j - 1]
      BY <1>6, <2>2
    <3>2. i - 1 = j - 1
      BY <1>1, <3>1 DEF IsList
    <3> QED BY <3>2
  <2> QED BY <2>1, <2>2
<1>8. \A i \in 1..Len(r) : d.head[r[i]] = h
  <2> TAKE i \in 1..Len(r)
  <2>1. CASE i = 1
    BY <1>2, <1>4, <2>1, SlotsAreNoTimers
  <2>2. CASE i # 1
    <3>1. i - 1 \in 1..n /\ r[i] = s[i - 1]
      BY <1>6, <2>2
    <3>2. s[i - 1] \in Cells /\ s[i - 1] # t /\ c.head[s[i - 1]] = h
      BY <1>1, <1>2, <3>1, SlotsAreNoTimers DEF IsList
    <3> QED BY <1>4, <3>1, <3>2
  <2> QED BY <2>1, <2>2
<1>9. \A u \in Timers : d.head[u] = h => \E i \in 1..Len(r) : r[i] = u
  <2> SUFFICES ASSUME NEW u \in Timers, d.head[u] = h PROVE \E i \in 1..Len(r) : r[i] = u
    OBVIOUS
  <2>1. CASE u = t
    BY <1>2, <2>1
  <2>2. CASE u # t
    <3>1. c.head[u] = h
      BY <1>4, <2>2, SlotsAreNoTimers
    <3>2. PICK i \in 1..n : s[i] = u
      BY <1>1, <3>1 DEF IsList
    <3>3. i + 1 \in 1..Len(r) /\ r[i + 1] = u
      BY <1>2, <3>2
    <3> QED BY <3>3
  <2> QED BY <2>1, <2>2
<1>10. \A i \in 0..n : Spot(h, r, i + 2) = Spot(h, s, i + 1)
  <2> TAKE i \in 0..n
  <2>1. CASE i < n
    <3>1. i + 1 \in 1..n /\ (i + 1) + 1 = i + 2 /\ i + 2 \in 1..Len(r)
      BY <1>2, <2>1
    <3>2. r[i + 2] = s[i + 1]
      BY <1>2, <3>1
    <3> QED BY <1>1, <3>1, <3>2 DEF Spot
  <2>2. CASE i = n
    BY <1>1, <1>2, <2>2 DEF Spot
  <2> QED BY <1>2, <2>1, <2>2
<1>11. Spot(h, r, 0) = h /\ Spot(h, r, 1) = t
  BY <1>2 DEF Spot
<1>12. \A i \in 0..Len(r) : d.next[Spot(h, r, i)] = Spot(h, r, i + 1)
  <2> TAKE i \in 0..Len(r)
  <2>1. CASE i = 0
    BY <1>4, <1>11, <2>1, SlotsAreNoTimers
  <2>2. CASE i = 1
    <3>1. Spot(h, r, 2) = first
      BY <1>2, <1>3, <1>10
    <3> QED BY <1>4, <1>11, <2>2, <3>1, SlotsAreNoTimers
  <2>3. CASE i > 1
    <3>1. PICK k \in 1..n : k + 1 = i
      <4>1. i - 1 \in 1..n /\ (i - 1) + 1 = i
        BY <1>2, <2>3
      <4> QED BY <4>1
    <3>2. Spot(h, r, i) = s[k] /\ s[k] = Spot(h, s, k) /\ s[k] \in Cells /\ s[k] # t /\ s[k] # h
      BY <1>1, <1>2, <3>1, SlotsAreNoTimers DEF Spot
    <3>3. d.next[s[k]] = c.next[Spot(h, s, k)]
      BY <1>4, <3>2
    <3>4. c.next[Spot(h, s, k)] = Spot(h, s, k + 1)
      BY <1>1, <1>2, <3>1 DEF IsList
    <3>5. Spot(h, r, k + 2) = Spot(h, s, k + 1) /\ k + 2 = i + 1
      BY <1>2, <1>10, <3>1
    <3> QED BY <3>2, <3>3, <3>4, <3>5
  <2> QED BY <1>2, <2>1, <2>2, <2>3
<1>13. \A i \in 0..Len(r) : d.prev[Spot(h, r, i + 1)] = Spot(h, r, i)
  <2> TAKE i \in 0..Len(r)
  <2>1. CASE i = 0
    BY <1>3, <1>4, <1>11, <2>1, SlotsAreNoTimers
  <2>2. CASE i # 0
    <3>1. PICK k \in 0..n : k + 1 = i
      <4>1. i - 1 \in 0..n /\ (i - 1) + 1 = i
        BY <1>2, <2>2
      <4> QED BY <4>1
    <3>2. PICK x : x = Spot(h, s, k + 1)
      OBVIOUS
    <3>3. Spot(h, r, i + 1) = x
      BY <1>10, <3>1, <3>2
    <3>4. x \in Cells /\ x # t
      BY <1>1, <1>2, <3>1, <3>2, SlotsAreNoTimers DEF Spot
    <3>5. CASE k = 0
      BY <1>3, <1>4, <1>11, <3>1, <3>2, <3>3, <3>4, <3>5
    <3>6. CASE k # 0
      <4>1. x # first
        <5>1. k \in 1..n /\ n >= 1
          BY <1>2, <3>6
        <5>2. first = s[1]
          BY <1>1, <1>3, <5>1 DEF Spot
        <5>3. CASE k = n
          <6>1. x = h
            BY <1>1, <1>2, <3>2, <5>3 DEF Spot
          <6> QED BY <1>2, <5>1, <5>2, <6>1, SlotsAreNoTimers
        <5>4. CASE k < n
          <6>1. k + 1 \in 1..n /\ k + 1 # 1 /\ 1 \in 1..n
            BY <1>2, <5>1, <5>4
          <6>2. x = s[k + 1]
            BY <1>1, <3>2, <6>1 DEF Spot
          <6> QED BY <1>1, <5>2, <6>1, <6>2 DEF IsList
        <5> QED BY <1>2, <5>1, <5>3, <5>4
      <4>2. d.prev[x] = c.prev[x]
        BY <1>4, <3>4, <4>1
      <4>3. c.prev[x] = Spot(h, s, k)
        BY <1>1, <3>1, <3>2 DEF IsList
      <4>4. Spot(h, s, k) = Spot(h, r, i)
        <5>1. k \in 1..n /\ k + 1 \in 1..Len(r)
          BY <1>2, <3>6
        <5>2. r[k + 1] = s[k]
          BY <1>2, <5>1
        <5> QED BY <1>1, <3>1, <5>1, <5>2 DEF Spot
      <4> QED BY <3>3, <4>2, <4>3, <4>4
    <3> QED BY <3>5, <3>6
  <2> QED BY <2>1, <2>2
<1>14. IsList(d, h, r)
  BY <1>5, <1>7, <1>8, <1>9, <1>12, <1>13 DEF IsList
<1> QED BY <1>1, <1>14

(* The other lists stay as they are, links and all.                        *)
LEMMA InsertOther ==
  ASSUME NEW c, CellsTyped(c), NEW h \in Slots, NEW t \in Timers, c.head[t] = NULL,
         NEW s \in Seq(Timers), IsList(c, h, s),
         NEW g \in Slots, g # h, NEW q \in Seq(Timers), IsList(c, g, q)
  PROVE  IsList(InsertFirst(c, h, t), g, q)
<1>1. PICK d, first : d = InsertFirst(c, h, t) /\ first = c.next[h]
  OBVIOUS
<1>2. first \in Cells /\ first # t /\ (first = h \/ (first \in Timers /\ c.head[first] = h))
  <2>1. first = Spot(h, s, 1)
    <3>1. Len(s) \in Nat
      OBVIOUS
    <3>2. c.next[Spot(h, s, 0)] = Spot(h, s, 0 + 1)
      BY <3>1 DEF IsList
    <3>3. Spot(h, s, 0) = h
      BY <3>1 DEF Spot
    <3> QED BY <1>1, <3>2, <3>3
  <2>2. PICK i \in Int : i = 1
    OBVIOUS
  <2>3. /\ Spot(h, s, i) \in Cells
        /\ Spot(h, s, i) = h \/ (Spot(h, s, i) \in Timers /\ c.head[Spot(h, s, i)] = h)
    BY SpotIsCell
  <2> QED BY <2>1, <2>2, <2>3, SlotsAreNoTimers
<1>3. /\ \A x \in Cells :
           /\ d.next[x] = IF x = h THEN t ELSE IF x = t THEN first ELSE c.next[x]
           /\ d.prev[x] = IF x = first THEN t ELSE IF x = t THEN h ELSE c.prev[x]
           /\ d.head[x] = IF x = t THEN h ELSE c.head[x]
      /\ \A f \in Slots : d.size[f] = IF f = h THEN c.size[h] + 1 ELSE c.size[f]
  <2>1. c.next[h] \in Cells /\ c.next[h] # t
    BY <1>1, <1>2
  <2>2. PICK e : e = InsertFirst(c, h, t)
    OBVIOUS
  <2>3. /\ \A x \in Cells :
             /\ e.next[x] = IF x = h THEN t ELSE IF x = t THEN c.next[h] ELSE c.next[x]
             /\ e.prev[x] = IF x = c.next[h] THEN t ELSE IF x = t THEN h ELSE c.prev[x]
             /\ e.head[x] = IF x = t THEN h ELSE c.head[x]
        /\ \A f \in Slots : e.size[f] = IF f = h THEN c.size[h] + 1 ELSE c.size[f]
    BY <2>1, <2>2, InsertCells
  <2>4. e = d /\ c.next[h] = first
    BY <1>1, <2>2
  <2> QED BY <2>3, <2>4
<1>4. d.size[g] = c.size[g]
  BY <1>3
<1>5. \A u \in Timers : d.head[u] = g <=> c.head[u] = g
  BY <1>3, SlotsAreNoTimers
<1>6. \A x \in Cells : x = g \/ (x \in Timers /\ c.head[x] = g) =>
        d.next[x] = c.next[x] /\ d.prev[x] = c.prev[x]
  <2> SUFFICES ASSUME NEW x \in Cells, x = g \/ (x \in Timers /\ c.head[x] = g)
               PROVE  d.next[x] = c.next[x] /\ d.prev[x] = c.prev[x]
    OBVIOUS
  <2>1. x # h /\ x # t
    BY SlotsAreNoTimers
  <2>2. x # first
    BY <1>2, <2>1, SlotsAreNoTimers
  <2> QED BY <1>3, <2>1, <2>2
<1>7. IsList(d, g, q)
  BY <1>4, <1>5, <1>6, OthersStay
<1> QED BY <1>1, <1>7

(* list_insert_first keeps every list a list.                              *)
LEMMA InsertKeeps ==
  ASSUME NEW c, CellsTyped(c), Linked(c), NEW h \in Slots, NEW t \in Timers, c.head[t] = NULL
  PROVE  /\ CellsTyped(InsertFirst(c, h, t)) /\ Linked(InsertFirst(c, h, t))
         /\ \A x \in Cells : InsertFirst(c, h, t).head[x] = IF x = t THEN h ELSE c.head[x]
<1>1. PICK d : d = InsertFirst(c, h, t)
  OBVIOUS
<1>2. PICK s \in Seq(Timers) : IsList(c, h, s)
  BY DEF Linked
<1>3. c.head[t] # h
  BY SlotsAreNoTimers
<1>4. IsList(d, h, <<t>> \o s) /\ <<t>> \o s \in Seq(Timers)
  BY <1>1, <1>2, <1>3, InsertList
<1>5. CellsTyped(d) /\ \A x \in Cells : d.head[x] = IF x = t THEN h ELSE c.head[x]
  <2>1. c.next[h] = Spot(h, s, 1)
    <3>1. Len(s) \in Nat
      OBVIOUS
    <3>2. c.next[Spot(h, s, 0)] = Spot(h, s, 0 + 1)
      BY <1>2, <3>1 DEF IsList
    <3>3. Spot(h, s, 0) = h
      BY <3>1 DEF Spot
    <3> QED BY <3>2, <3>3
  <2>2. PICK i \in Int : i = 1
    OBVIOUS
  <2>3. PICK x : x = Spot(h, s, i) /\ x \in Cells /\ (x = h \/ (x \in Timers /\ c.head[x] = h))
    BY <1>2, SpotIsCell
  <2>4. c.next[h] \in Cells /\ c.next[h] # t
    BY <1>3, <2>1, <2>2, <2>3, SlotsAreNoTimers
  <2> QED BY <1>1, <2>4, InsertCells
<1>6. ASSUME NEW g \in Slots PROVE \E q \in Seq(Timers) : IsList(d, g, q)
  <2>1. CASE g = h
    BY <1>4, <2>1
  <2>2. CASE g # h
    <3>1. PICK q \in Seq(Timers) : IsList(c, g, q)
      BY DEF Linked
    <3>2. IsList(d, g, q)
      BY <1>1, <1>2, <2>2, <3>1, InsertOther
    <3> QED BY <3>2
  <2> QED BY <2>1, <2>2
<1> QED BY <1>1, <1>5, <1>6 DEF Linked

(* list_remove, read cell by cell.                                         *)
LEMMA RemoveCells ==
  ASSUME NEW c, CellsTyped(c), NEW h \in Slots, NEW t \in Timers, c.head[t] = h,
         c.next[t] \in Cells, c.prev[t] \in Cells
  PROVE  LET d == Removed(c, t) IN
         /\ CellsTyped(d)
         /\ \A x \in Cells :
              /\ d.next[x] = IF x = c.prev[t] THEN c.next[t] ELSE c.next[x]
              /\ d.prev[x] = IF x = c.next[t] THEN c.prev[t] ELSE c.prev[x]
              /\ d.head[x] = IF x = t THEN NULL ELSE c.head[x]
         /\ \A g \in Slots : d.size[g] = IF g = h THEN c.size[h] - 1 ELSE c.size[g]
<1>1. PICK next0, prev0, head0, size0, after, before :
        /\ next0 = c.next /\ prev0 = c.prev /\ head0 = c.head /\ size0 = c.size
        /\ after = c.next[t] /\ before = c.prev[t]
  OBVIOUS
<1>2. /\ next0 \in [Cells -> Cells \cup {NULL}] /\ prev0 \in [Cells -> Cells \cup {NULL}]
      /\ head0 \in [Cells -> Slots \cup {NULL}] /\ size0 \in [Slots -> Int]
      /\ t \in Cells /\ after \in Cells /\ before \in Cells /\ head0[t] = h
  BY <1>1, SlotsAreNoTimers DEF CellsTyped
<1>3. PICK next1, prev1, head1, size1 :
        /\ next1 = [next0 EXCEPT ![before] = after]
        /\ prev1 = [prev0 EXCEPT ![after] = before]
        /\ head1 = [head0 EXCEPT ![t] = NULL]
        /\ size1 = [size0 EXCEPT ![h] = @ - 1]
  OBVIOUS
<1>4. /\ next1 \in [Cells -> Cells \cup {NULL}] /\ prev1 \in [Cells -> Cells \cup {NULL}]
      /\ head1 \in [Cells -> Slots \cup {NULL}] /\ size1 \in [Slots -> Int]
  BY <1>2, <1>3
<1>5. /\ \A x \in Cells :
           /\ next1[x] = IF x = before THEN after ELSE next0[x]
           /\ prev1[x] = IF x = after THEN before ELSE prev0[x]
           /\ head1[x] = IF x = t THEN NULL ELSE head0[x]
      /\ \A g \in Slots : size1[g] = IF g = h THEN size0[h] - 1 ELSE size0[g]
  BY <1>2, <1>3
<1>6. Removed(c, t) = [next |-> next1, prev |-> prev1, head |-> head1, size |-> size1]
  BY <1>1, <1>2, <1>3 DEF Removed
<1>7. PICK d : d = Removed(c, t)
  OBVIOUS
<1>8. d.next = next1 /\ d.prev = prev1 /\ d.head = head1 /\ d.size = size1
  BY <1>6, <1>7
<1>9. CellsTyped(d)
  BY <1>4, <1>8 DEF CellsTyped
<1> QED BY <1>1, <1>5, <1>7, <1>8, <1>9

(* s without its k-th entry.                                               *)
Without(s, k) == [i \in 1..(Len(s) - 1) |-> IF i < k THEN s[i] ELSE s[i + 1]]

(* The list without t.                                                     *)
LEMMA RemoveList ==
  ASSUME NEW c, CellsTyped(c), NEW h \in Slots,
         NEW s \in Seq(Timers), IsList(c, h, s), NEW k \in 1..Len(s)
  PROVE  /\ Without(s, k) \in Seq(Timers)
         /\ IsList(Removed(c, s[k]), h, Without(s, k))
<1>1. PICK d, r, n, t :
        d = Removed(c, t) /\ r = Without(s, k) /\ n = Len(s) /\ t = s[k]
  OBVIOUS
<1>2. /\ n \in Nat /\ k \in 1..n /\ t \in Timers /\ c.head[t] = h
      /\ \A i \in 1..n : s[i] \in Timers /\ (s[i] = t => i = k)
  BY <1>1 DEF IsList
<1>3. /\ r \in Seq(Timers) /\ Len(r) = n - 1
      /\ \A i \in 1..(n - 1) : r[i] = IF i < k THEN s[i] ELSE s[i + 1]
  <2>1. r = [i \in 1..(n - 1) |-> IF i < k THEN s[i] ELSE s[i + 1]]
    BY <1>1 DEF Without
  <2>2. PICK m \in Nat : m = n - 1
    <3>1. n - 1 \in Nat
      BY <1>2
    <3> QED BY <3>1
  <2>3. r \in [1..m -> Timers]
    BY <1>2, <2>1, <2>2
  <2>4. r \in Seq(Timers) /\ Len(r) = m
    BY <2>3
  <2> QED BY <2>1, <2>2, <2>4
<1>4. Spot(h, s, k) = t /\ Spot(h, s, k - 1 + 1) = t /\ k - 1 \in 0..n /\ k \in 0..n
  BY <1>1, <1>2 DEF Spot
<1>5. c.next[t] = Spot(h, s, k + 1) /\ c.prev[t] = Spot(h, s, k - 1)
  BY <1>1, <1>4 DEF IsList
<1>6. c.next[t] \in Cells /\ c.prev[t] \in Cells
  <2>1. PICK i \in Int, j \in Int : i = k + 1 /\ j = k - 1
    BY <1>2
  <2>2. Spot(h, s, i) \in Cells /\ Spot(h, s, j) \in Cells
    BY SpotIsCell
  <2> QED BY <1>5, <2>1, <2>2
<1>7. /\ \A x \in Cells :
           /\ d.next[x] = IF x = Spot(h, s, k - 1) THEN Spot(h, s, k + 1) ELSE c.next[x]
           /\ d.prev[x] = IF x = Spot(h, s, k + 1) THEN Spot(h, s, k - 1) ELSE c.prev[x]
           /\ d.head[x] = IF x = t THEN NULL ELSE c.head[x]
      /\ d.size[h] = c.size[h] - 1
  <2>1. PICK e : e = Removed(c, t)
    OBVIOUS
  <2>2. /\ \A x \in Cells :
             /\ e.next[x] = IF x = c.prev[t] THEN c.next[t] ELSE c.next[x]
             /\ e.prev[x] = IF x = c.next[t] THEN c.prev[t] ELSE c.prev[x]
             /\ e.head[x] = IF x = t THEN NULL ELSE c.head[x]
        /\ \A g \in Slots : e.size[g] = IF g = h THEN c.size[h] - 1 ELSE c.size[g]
    BY <1>2, <1>6, <2>1, RemoveCells
  <2>3. e = d
    BY <1>1, <2>1
  <2> QED BY <1>5, <2>2, <2>3
<1>8. d.size[h] = Len(r)
  BY <1>1, <1>3, <1>7 DEF IsList
<1>9. \A i \in 1..Len(r) : \E m \in 1..n :
        m = (IF i < k THEN i ELSE i + 1) /\ m # k /\ r[i] = s[m]
  <2> TAKE i \in 1..Len(r)
  <2>1. CASE i < k
    BY <1>2, <1>3, <2>1
  <2>2. CASE i >= k
    BY <1>2, <1>3, <2>2
  <2> QED BY <1>2, <1>3, <2>1, <2>2
<1>10. \A i, j \in 1..Len(r) : r[i] = r[j] => i = j
  <2> SUFFICES ASSUME NEW i \in 1..Len(r), NEW j \in 1..Len(r), r[i] = r[j] PROVE i = j
    OBVIOUS
  <2>1. PICK m \in 1..n : m = (IF i < k THEN i ELSE i + 1) /\ m # k /\ r[i] = s[m]
    BY <1>9
  <2>2. PICK o \in 1..n : o = (IF j < k THEN j ELSE j + 1) /\ o # k /\ r[j] = s[o]
    BY <1>9
  <2>3. m = o
    BY <1>1, <2>1, <2>2 DEF IsList
  <2> QED BY <1>2, <1>3, <2>1, <2>2, <2>3
<1>11. \A i \in 1..Len(r) : d.head[r[i]] = h
  <2> TAKE i \in 1..Len(r)
  <2>1. PICK m \in 1..n : m # k /\ r[i] = s[m]
    BY <1>9
  <2>2. s[m] \in Cells /\ s[m] # t /\ c.head[s[m]] = h
    BY <1>1, <1>2, <2>1, SlotsAreNoTimers DEF IsList
  <2> QED BY <1>7, <2>1, <2>2
<1>12. \A u \in Timers : d.head[u] = h => \E i \in 1..Len(r) : r[i] = u
  <2> SUFFICES ASSUME NEW u \in Timers, d.head[u] = h PROVE \E i \in 1..Len(r) : r[i] = u
    OBVIOUS
  <2>1. u # t /\ c.head[u] = h
    BY <1>7, SlotsAreNoTimers
  <2>2. PICK m \in 1..n : s[m] = u
    BY <1>1, <2>1 DEF IsList
  <2>3. m # k
    BY <1>1, <2>1, <2>2
  <2>4. CASE m < k
    <3>1. m \in 1..(n - 1)
      BY <1>2, <2>4
    <3> QED BY <1>3, <2>2, <2>4, <3>1
  <2>5. CASE m > k
    <3>1. m - 1 \in 1..(n - 1) /\ ~(m - 1 < k) /\ (m - 1) + 1 = m
      BY <1>2, <2>5
    <3>2. r[m - 1] = s[m]
      BY <1>3, <3>1
    <3> QED BY <1>3, <2>2, <3>1, <3>2
  <2> QED BY <1>2, <2>3, <2>4, <2>5
<1>13. ASSUME NEW i \in 0..n
       PROVE  Spot(h, r, i) = IF i < k THEN Spot(h, s, i) ELSE Spot(h, s, i + 1)
  <2>1. CASE i < k
    <3>1. i \in 1..n <=> i \in 1..(n - 1)
      BY <1>2, <2>1
    <3> QED BY <1>1, <1>3, <2>1, <3>1 DEF Spot
  <2>2. CASE i >= k
    <3>1. i \in 1..(n - 1) <=> i + 1 \in 1..n
      BY <1>2, <2>2
    <3>2. i \in 1..(n - 1) => ~(i < k) /\ r[i] = s[i + 1]
      BY <1>3, <2>2
    <3>3. ~(i < k)
      BY <1>2, <2>2
    <3> QED BY <1>1, <1>3, <3>1, <3>2, <3>3 DEF Spot
  <2> QED BY <1>2, <2>1, <2>2
<1>14. ASSUME NEW i \in 0..Len(r)
       PROVE  /\ d.next[Spot(h, r, i)] = Spot(h, r, i + 1)
              /\ d.prev[Spot(h, r, i + 1)] = Spot(h, r, i)
  <2>0. i \in 0..n /\ i + 1 \in 0..n /\ i \in 0..(n - 1)
    BY <1>2, <1>3
  <2>1. ASSUME NEW a \in 0..n, NEW b \in 0..n, Spot(h, s, a) = Spot(h, s, b) PROVE a = b
    BY <1>1, <2>1, SpotsDiffer
  <2>2. ASSUME NEW a \in 0..n
        PROVE  /\ c.next[Spot(h, s, a)] = Spot(h, s, a + 1)
               /\ c.prev[Spot(h, s, a + 1)] = Spot(h, s, a)
    BY <1>1 DEF IsList
  <2>3. ASSUME NEW a \in Int PROVE Spot(h, s, a) \in Cells
    BY SpotIsCell
  <2>4. CASE i + 1 < k
    <3>1. Spot(h, r, i) = Spot(h, s, i) /\ Spot(h, r, i + 1) = Spot(h, s, i + 1)
      BY <1>2, <1>13, <2>0, <2>4
    <3>2. Spot(h, s, i) # Spot(h, s, k - 1)
      BY <1>4, <2>0, <2>1, <2>4
    <3>3. Spot(h, s, i + 1) # Spot(h, s, k + 1)
      <4>1. CASE k + 1 \in 0..n
        BY <1>4, <2>0, <2>1, <2>4, <4>1
      <4>2. CASE k + 1 \notin 0..n
        <5>1. Spot(h, s, k + 1) = Spot(h, s, 0)
          BY <1>1, <1>2, <4>2 DEF Spot
        <5> QED BY <1>2, <2>0, <2>1, <5>1
      <4> QED BY <4>1, <4>2
    <3>4. Spot(h, s, i) \in Cells /\ Spot(h, s, i + 1) \in Cells
      BY <2>0, <2>3
    <3> QED BY <1>7, <2>0, <2>2, <3>1, <3>2, <3>3, <3>4
  <2>5. CASE i + 1 = k
    <3>1. Spot(h, r, i) = Spot(h, s, k - 1) /\ Spot(h, r, i + 1) = Spot(h, s, k + 1)
      <4>1. i < k /\ ~(i + 1 < k) /\ i = k - 1 /\ (i + 1) + 1 = k + 1
        BY <2>0, <2>5
      <4>2. Spot(h, r, i) = Spot(h, s, i)
        BY <1>13, <2>0, <4>1
      <4>3. Spot(h, r, i + 1) = Spot(h, s, (i + 1) + 1)
        BY <1>13, <2>0, <4>1
      <4> QED BY <4>1, <4>2, <4>3
    <3>2. Spot(h, s, k - 1) \in Cells /\ Spot(h, s, k + 1) \in Cells
      BY <1>5, <1>6
    <3> QED BY <1>7, <3>1, <3>2
  <2>6. CASE i + 1 > k
    <3>1. ~(i < k) /\ ~(i + 1 < k) /\ (i + 1) + 1 = i + 2
      BY <1>2, <2>0, <2>6
    <3>2. Spot(h, r, i) = Spot(h, s, i + 1) /\ Spot(h, r, i + 1) = Spot(h, s, i + 2)
      BY <1>13, <2>0, <3>1
    <3>3. Spot(h, s, i + 1) # Spot(h, s, k - 1)
      BY <1>2, <1>4, <2>0, <2>1, <2>6
    <3>4. Spot(h, s, i + 2) # Spot(h, s, k + 1)
      <4>1. k + 1 \in 1..n
        BY <1>2, <2>0, <2>6
      <4>2. CASE i + 2 \in 0..n
        BY <1>2, <2>0, <2>1, <2>6, <4>1, <4>2
      <4>3. CASE i + 2 \notin 0..n
        <5>1. Spot(h, s, i + 2) = Spot(h, s, 0)
          BY <1>1, <1>2, <2>0, <4>3 DEF Spot
        <5> QED BY <1>2, <2>1, <4>1, <5>1
      <4> QED BY <4>2, <4>3
    <3>5. Spot(h, s, i + 1) \in Cells /\ Spot(h, s, i + 2) \in Cells
      BY <2>0, <2>3
    <3>6. c.next[Spot(h, s, i + 1)] = Spot(h, s, i + 2) /\ c.prev[Spot(h, s, i + 2)] = Spot(h, s, i + 1)
      BY <2>0, <2>2, <3>1
    <3> QED BY <1>7, <3>2, <3>3, <3>4, <3>5, <3>6
  <2> QED BY <1>2, <2>0, <2>4, <2>5, <2>6
<1>15. IsList(d, h, r)
  BY <1>8, <1>10, <1>11, <1>12, <1>14 DEF IsList
<1> QED BY <1>1, <1>3, <1>15

(* list_remove keeps every list a list, and those t is not on as they are. *)
LEMMA RemoveKeeps ==
  ASSUME NEW c, CellsTyped(c), Linked(c), NEW t \in Timers, c.head[t] # NULL
  PROVE  /\ CellsTyped(Removed(c, t)) /\ Linked(Removed(c, t))
         /\ \A x \in Cells : Removed(c, t).head[x] = IF x = t THEN NULL ELSE c.head[x]
         /\ \A g \in Slots : \A q \in Seq(Timers) :
              g # c.head[t] /\ IsList(c, g, q) => IsList(Removed(c, t), g, q)
<1>1. PICK d, h : d = Removed(c, t) /\ h = c.head[t]
  OBVIOUS
<1>2. h \in Slots
  BY <1>1, SlotsAreNoTimers DEF CellsTyped
<1>3. PICK s \in Seq(Timers) : IsList(c, h, s)
  BY <1>2 DEF Linked
<1>4. PICK k \in 1..Len(s) : s[k] = t
  BY <1>1, <1>3 DEF IsList
<1>5. PICK before, after :
        /\ before = c.prev[t] /\ after = c.next[t] /\ before \in Cells /\ after \in Cells
        /\ before = h \/ (before \in Timers /\ c.head[before] = h)
        /\ after = h \/ (after \in Timers /\ c.head[after] = h)
  <2>1. Spot(h, s, k) = t /\ k - 1 + 1 = k /\ k - 1 \in 0..Len(s) /\ k \in 0..Len(s)
    BY <1>4 DEF Spot
  <2>2. c.next[t] = Spot(h, s, k + 1) /\ c.prev[t] = Spot(h, s, k - 1)
    BY <1>3, <2>1 DEF IsList
  <2>3. PICK i \in Int, j \in Int : i = k + 1 /\ j = k - 1
    OBVIOUS
  <2>4. /\ Spot(h, s, i) \in Cells
        /\ Spot(h, s, i) = h \/ (Spot(h, s, i) \in Timers /\ c.head[Spot(h, s, i)] = h)
    BY <1>2, <1>3, SpotIsCell
  <2>5. /\ Spot(h, s, j) \in Cells
        /\ Spot(h, s, j) = h \/ (Spot(h, s, j) \in Timers /\ c.head[Spot(h, s, j)] = h)
    BY <1>2, <1>3, SpotIsCell
  <2> QED BY <2>2, <2>3, <2>4, <2>5
<1>6. /\ CellsTyped(d)
      /\ \A x \in Cells :
           /\ d.next[x] = IF x = before THEN after ELSE c.next[x]
           /\ d.prev[x] = IF x = after THEN before ELSE c.prev[x]
           /\ d.head[x] = IF x = t THEN NULL ELSE c.head[x]
      /\ \A g \in Slots : d.size[g] = IF g = h THEN c.size[h] - 1 ELSE c.size[g]
  <2>1. c.head[t] = h /\ c.next[t] \in Cells /\ c.prev[t] \in Cells
    BY <1>1, <1>5
  <2>2. PICK e : e = Removed(c, t)
    OBVIOUS
  <2>3. /\ CellsTyped(e)
        /\ \A x \in Cells :
             /\ e.next[x] = IF x = c.prev[t] THEN c.next[t] ELSE c.next[x]
             /\ e.prev[x] = IF x = c.next[t] THEN c.prev[t] ELSE c.prev[x]
             /\ e.head[x] = IF x = t THEN NULL ELSE c.head[x]
        /\ \A g \in Slots : e.size[g] = IF g = h THEN c.size[h] - 1 ELSE c.size[g]
    BY <1>2, <2>1, <2>2, RemoveCells
  <2>4. e = d
    BY <1>1, <2>2
  <2> QED BY <1>5, <2>3, <2>4
<1>7. ASSUME NEW g \in Slots, g # h, NEW q \in Seq(Timers), IsList(c, g, q)
      PROVE  IsList(d, g, q)
  <2>1. d.size[g] = c.size[g]
    BY <1>6, <1>7
  <2>2. \A u \in Timers : d.head[u] = g <=> c.head[u] = g
    BY <1>1, <1>6, <1>7, SlotsAreNoTimers
  <2>3. \A x \in Cells : x = g \/ (x \in Timers /\ c.head[x] = g) =>
          d.next[x] = c.next[x] /\ d.prev[x] = c.prev[x]
    <3> SUFFICES ASSUME NEW x \in Cells, x = g \/ (x \in Timers /\ c.head[x] = g)
                 PROVE  d.next[x] = c.next[x] /\ d.prev[x] = c.prev[x]
      OBVIOUS
    <3>1. x # before /\ x # after
      BY <1>2, <1>5, <1>7, SlotsAreNoTimers
    <3> QED BY <1>6, <3>1
  <2> QED BY <1>7, <2>1, <2>2, <2>3, OthersStay
<1>8. ASSUME NEW g \in Slots PROVE \E q \in Seq(Timers) : IsList(d, g, q)
  <2>1. CASE g = h
    <3>1. Without(s, k) \in Seq(Timers) /\ IsList(Removed(c, s[k]), h, Without(s, k))
      BY <1>2, <1>3, RemoveList
    <3> QED BY <1>1, <1>4, <2>1, <3>1
  <2>2. CASE g # h
    <3>1. PICK q \in Seq(Timers) : IsList(c, g, q)
      BY DEF Linked
    <3> QED BY <1>7, <2>2, <3>1
  <2> QED BY <2>1, <2>2
<1> QED BY <1>1, <1>6, <1>7, <1>8 DEF Linked

-----------------------------------------------------------------------------
(* A walk from a cell of a list comes to the entries from there on.        *)
Walk(next1, c, at) ==
  at = [n \in 0..Cardinality(Timers) |->
          IF n = 0 THEN c
          ELSE IF at[n - 1] \in Timers THEN next1[at[n - 1]] ELSE at[n - 1]]

LEMMA SizesCount ==
  ASSUME NEW s \in Seq(Timers), \A i, j \in 1..Len(s) : s[i] = s[j] => i = j
  PROVE  /\ Cardinality({s[i] : i \in 1..Len(s)}) = Len(s)
         /\ Len(s) <= Cardinality(Timers) /\ Cardinality(Timers) \in Nat
<1>1. PICK n \in Nat : n = Len(s)
  OBVIOUS
<1>2. PICK S : S = {s[i] : i \in 1..n}
  OBVIOUS
<1>3. s \in Bijection(1..n, S)
  BY <1>1, <1>2 DEF Bijection, Injection, Surjection, IsInjective
<1>4. Cardinality(1..n) = n /\ IsFiniteSet(1..n)
  BY FS_Interval
<1>5. IsFiniteSet(S) /\ Cardinality(S) = n
  BY <1>3, <1>4, FS_Bijection DEF ExistsBijection
<1>6. S \subseteq Timers
  BY <1>1, <1>2
<1>7. Cardinality(S) <= Cardinality(Timers) /\ Cardinality(Timers) \in Nat
  BY <1>6, TmoAssumption, FS_Subset, FS_CardinalityType
<1> QED BY <1>1, <1>2, <1>5, <1>7

(* A number that is not as it should be has a first one before it: this is *)
(* induction in a form the provers can be given.                           *)
LEMMA LeastNumber ==
  ASSUME NEW T \in SUBSET Nat, T # {}
  PROVE  \E x \in T : \A y \in T : x <= y
<1>1. PICK x \in T : \A y \in T : ~(<<y, x>> \in OpToRel(<, Nat))
  BY NatLessThanWellFounded, WFMin
<1>2. ASSUME NEW y \in T PROVE ~(y < x)
  BY <1>1, <1>2 DEF OpToRel
<1> QED BY <1>2

(* The index of the cell n steps on from the i-th, where the end stays.    *)
Onward(s, i, n) == IF i + n <= Len(s) THEN i + n ELSE Len(s) + 1

LEMMA OnwardStep ==
  ASSUME NEW c, NEW h \in Slots, NEW s \in Seq(Timers), IsList(c, h, s),
         NEW i \in 1..(Len(s) + 1), NEW n \in Nat, n > 0
  PROVE  Spot(h, s, Onward(s, i, n)) =
           IF Spot(h, s, Onward(s, i, n - 1)) \in Timers
             THEN c.next[Spot(h, s, Onward(s, i, n - 1))]
             ELSE Spot(h, s, Onward(s, i, n - 1))
<1>1. Len(s) \in Nat /\ \A k \in 1..Len(s) : s[k] \in Timers
  OBVIOUS
<1>2. CASE i + (n - 1) <= Len(s)
  <2>1. PICK k \in 1..Len(s) : k = i + (n - 1)
    BY <1>1, <1>2
  <2>2. Onward(s, i, n - 1) = k /\ Onward(s, i, n) = k + 1
    BY <1>1, <2>1 DEF Onward
  <2>3. Spot(h, s, k) \in Timers
    BY <1>1 DEF Spot
  <2>4. c.next[Spot(h, s, k)] = Spot(h, s, k + 1)
    BY <1>1 DEF IsList
  <2> QED BY <2>2, <2>3, <2>4
<1>3. CASE i + (n - 1) > Len(s)
  <2>1. Onward(s, i, n - 1) = Len(s) + 1 /\ Onward(s, i, n) = Len(s) + 1
    BY <1>1, <1>3 DEF Onward
  <2>2. Spot(h, s, Len(s) + 1) = h
    BY <1>1 DEF Spot
  <2> QED BY <2>1, <2>2, SlotsAreNoTimers
<1> QED BY <1>1, <1>2, <1>3

LEMMA WalkIsOnward ==
  ASSUME NEW c, NEW h \in Slots, NEW s \in Seq(Timers), IsList(c, h, s),
         NEW i \in 1..(Len(s) + 1), NEW at, Walk(c.next, Spot(h, s, i), at)
  PROVE  \A n \in 0..Cardinality(Timers) : at[n] = Spot(h, s, Onward(s, i, n))
<1>1. PICK K \in Nat : K = Cardinality(Timers)
  BY TmoAssumption, FS_CardinalityType
<1>2. \A n \in 0..K : at[n] = IF n = 0 THEN Spot(h, s, i)
                              ELSE IF at[n - 1] \in Timers THEN c.next[at[n - 1]] ELSE at[n - 1]
  BY <1>1 DEF Walk
<1>3. PICK T : T = {n \in 0..K : at[n] # Spot(h, s, Onward(s, i, n))}
  OBVIOUS
<1>4. SUFFICES ASSUME T # {} PROVE FALSE
  BY <1>1, <1>3
<1>5. PICK n \in T : \A m \in T : n <= m
  <2>1. T \in SUBSET Nat
    BY <1>3
  <2> QED BY <1>4, <2>1, LeastNumber
<1>6. n \in 0..K /\ at[n] # Spot(h, s, Onward(s, i, n))
  BY <1>3
<1>7. n # 0
  <2>1. Onward(s, i, 0) = i
    BY DEF Onward
  <2> QED BY <1>1, <1>2, <1>6, <2>1
<1>8. n - 1 \in 0..K /\ n - 1 \notin T
  BY <1>1, <1>5, <1>6, <1>7
<1>9. at[n - 1] = Spot(h, s, Onward(s, i, n - 1))
  BY <1>3, <1>8
<1>10. n \in Nat /\ n > 0
  BY <1>6, <1>7
<1>11. PICK x, y : x = Spot(h, s, Onward(s, i, n)) /\ y = Spot(h, s, Onward(s, i, n - 1))
  OBVIOUS
<1>12. x = IF y \in Timers THEN c.next[y] ELSE y
  BY <1>10, <1>11, OnwardStep
<1>13. at[n] # x /\ at[n - 1] = y
  BY <1>6, <1>9, <1>11
<1> QED BY <1>2, <1>6, <1>7, <1>12, <1>13

LEMMA ChainIs ==
  ASSUME NEW c, NEW h \in Slots, NEW s \in Seq(Timers), IsList(c, h, s),
         NEW i \in 1..(Len(s) + 1), NEW x
  PROVE  x \in Chain(c, Spot(h, s, i)) <=> \E j \in i..Len(s) : s[j] = x
<1>1. PICK K \in Nat : K = Cardinality(Timers)
  BY TmoAssumption, FS_CardinalityType
<1>2. PICK first : first = Spot(h, s, i)
  OBVIOUS
<1>3. PICK at : at = CHOOSE f : f =
        [n \in 0..Cardinality(Timers) |-> IF n = 0 THEN first
           ELSE LET last == f[n - 1] IN IF last \in Timers THEN c.next[last] ELSE last]
  OBVIOUS
<1>4. Chain(c, first) = {at[n] : n \in 0..K} \ (Slots \cup {NULL})
  BY <1>1, <1>3 DEF Chain
<1>5. Walk(c.next, first, at)
  <2>1. PICK f : f = [n \in 0..K |-> Spot(h, s, Onward(s, i, n))]
    OBVIOUS
  <2>2. Onward(s, i, 0) = i
    BY DEF Onward
  <2>3. ASSUME NEW n \in 0..K
        PROVE  f[n] = IF n = 0 THEN first
                      ELSE IF f[n - 1] \in Timers THEN c.next[f[n - 1]] ELSE f[n - 1]
    <3>1. CASE n = 0
      BY <1>2, <2>1, <2>2, <3>1
    <3>2. CASE n # 0
      <4>1. n - 1 \in 0..K /\ n \in Nat /\ n > 0
        BY <3>2
      <4>2. f[n] = Spot(h, s, Onward(s, i, n)) /\ f[n - 1] = Spot(h, s, Onward(s, i, n - 1))
        BY <2>1, <4>1
      <4>3. PICK y, z : y = Spot(h, s, Onward(s, i, n)) /\ z = Spot(h, s, Onward(s, i, n - 1))
        OBVIOUS
      <4>4. y = IF z \in Timers THEN c.next[z] ELSE z
        BY <4>1, <4>3, OnwardStep
      <4> QED BY <3>2, <4>2, <4>3, <4>4
    <3> QED BY <3>1, <3>2
  <2>4. Walk(c.next, first, f)
    BY <1>1, <2>1, <2>3 DEF Walk
  <2> QED BY <1>3, <2>4 DEF Walk
<1>6. \A n \in 0..K : at[n] = Spot(h, s, Onward(s, i, n))
  BY <1>1, <1>2, <1>5, WalkIsOnward
<1>7. Len(s) \in Nat /\ Len(s) <= K /\ \A j \in 1..Len(s) : s[j] \in Timers
  <2>1. \A j, k \in 1..Len(s) : s[j] = s[k] => j = k
    BY DEF IsList
  <2>2. Len(s) <= Cardinality(Timers)
    BY <2>1, SizesCount
  <2> QED BY <1>1, <2>2
<1>8. ASSUME NEW j \in i..Len(s) PROVE \E n \in 0..K : at[n] = s[j]
  <2>1. j - i \in 0..K /\ i + (j - i) = j /\ j \in 1..Len(s)
    BY <1>7
  <2>2. Onward(s, i, j - i) = j
    BY <1>7, <2>1 DEF Onward
  <2> QED BY <1>6, <2>1, <2>2 DEF Spot
<1>9. ASSUME NEW n \in 0..K, at[n] \notin Slots PROVE \E j \in i..Len(s) : at[n] = s[j]
  <2>1. CASE i + n <= Len(s)
    <3>1. i + n \in i..Len(s) /\ i + n \in 1..Len(s)
      BY <1>7, <2>1
    <3> QED BY <1>6, <2>1, <3>1 DEF Onward, Spot
  <2>2. CASE i + n > Len(s)
    <3>1. Onward(s, i, n) = Len(s) + 1 /\ Len(s) + 1 \notin 1..Len(s)
      BY <1>7, <2>2 DEF Onward
    <3>2. at[n] = h
      BY <1>6, <3>1 DEF Spot
    <3> QED BY <1>9, <3>2
  <2> QED BY <1>7, <2>1, <2>2
<1>10. \A j \in i..Len(s) : s[j] \in Timers
  BY <1>7
<1>11. PICK A : A = {at[n] : n \in 0..K} \ (Slots \cup {NULL})
  OBVIOUS
<1>12. x \in A => \E j \in i..Len(s) : s[j] = x
  BY <1>9, <1>11
<1>13. ASSUME NEW j \in i..Len(s), s[j] = x PROVE x \in A
  <2>1. PICK n \in 0..K : at[n] = x
    BY <1>8, <1>13
  <2>2. x \in Timers
    BY <1>10, <1>13
  <2> QED BY <1>11, <2>1, <2>2, SlotsAreNoTimers
<1> QED BY <1>2, <1>4, <1>11, <1>12, <1>13

(* The members of a list are the timers that point to its head.            *)
LEMMA MembersAre ==
  ASSUME NEW c, CellsTyped(c), NEW h \in Slots, NEW s \in Seq(Timers), IsList(c, h, s)
  PROVE  /\ Members(c, h) = {t \in Timers : c.head[t] = h}
         /\ Members(c, h) = {s[j] : j \in 1..Len(s)}
<1>1. Len(s) \in Nat
  OBVIOUS
<1>2. c.next[h] = Spot(h, s, 1)
  <2>1. c.next[Spot(h, s, 0)] = Spot(h, s, 0 + 1)
    BY <1>1 DEF IsList
  <2>2. Spot(h, s, 0) = h
    BY <1>1 DEF Spot
  <2> QED BY <2>1, <2>2
<1>3. Members(c, h) = {s[j] : j \in 1..Len(s)}
  <2>1. PICK i \in 1..(Len(s) + 1) : i = 1
    BY <1>1
  <2>2. ASSUME NEW x PROVE x \in Chain(c, Spot(h, s, i)) <=> \E j \in i..Len(s) : s[j] = x
    BY ChainIs
  <2>3. Spot(h, s, i) = c.next[h]
    BY <1>2, <2>1
  <2> QED BY <2>1, <2>2, <2>3 DEF Members
<1>4. {s[j] : j \in 1..Len(s)} = {t \in Timers : c.head[t] = h}
  BY <1>1 DEF IsList
<1> QED BY <1>3, <1>4

(* The invariant said by lists is the one the run checks.                  *)
LEMMA LinkedIsWell ==
  ASSUME NEW c, CellsTyped(c), Linked(c)
  PROVE  /\ WellLinked(c)
         /\ \A h \in Slots : Members(c, h) = {t \in Timers : c.head[t] = h}
<1>1. ASSUME NEW h \in Slots
      PROVE  /\ c.next[h] # NULL /\ c.prev[c.next[h]] = h
             /\ c.size[h] = Cardinality(Members(c, h))
             /\ Members(c, h) = {t \in Timers : c.head[t] = h}
             /\ \A e \in Members(c, h) : c.head[e] = h /\ c.prev[c.next[e]] = e
  <2>1. PICK s \in Seq(Timers) : IsList(c, h, s)
    BY DEF Linked
  <2>2. Len(s) \in Nat /\ 0 \in 0..Len(s) /\ \A i \in 1..Len(s) : s[i] \in Timers /\ i \in 0..Len(s)
    OBVIOUS
  <2>3. /\ Members(c, h) = {t \in Timers : c.head[t] = h}
        /\ Members(c, h) = {s[j] : j \in 1..Len(s)}
    BY <2>1, MembersAre
  <2>4. \A i \in 0..Len(s) : c.prev[c.next[Spot(h, s, i)]] = Spot(h, s, i)
    BY <2>1 DEF IsList
  <2>5. Spot(h, s, 0) = h /\ \A i \in 1..Len(s) : Spot(h, s, i) = s[i]
    BY <2>2 DEF Spot
  <2>6. c.prev[c.next[h]] = h
    BY <2>2, <2>4, <2>5
  <2>7. c.next[h] # NULL
    <3>1. c.next[h] = Spot(h, s, 1)
      <4>1. c.next[Spot(h, s, 0)] = Spot(h, s, 0 + 1)
        BY <2>1, <2>2 DEF IsList
      <4> QED BY <2>5, <4>1
    <3>2. PICK i \in Int : i = 1
      OBVIOUS
    <3>3. Spot(h, s, i) \in Cells
      BY <2>1, SpotIsCell
    <3> QED BY <3>1, <3>2, <3>3, SlotsAreNoTimers
  <2>8. c.size[h] = Cardinality(Members(c, h))
    <3>1. \A i, j \in 1..Len(s) : s[i] = s[j] => i = j
      BY <2>1 DEF IsList
    <3> QED BY <2>1, <2>3, <3>1, SizesCount DEF IsList
  <2>9. \A e \in Members(c, h) : c.head[e] = h /\ c.prev[c.next[e]] = e
    <3> SUFFICES ASSUME NEW e \in Members(c, h) PROVE c.head[e] = h /\ c.prev[c.next[e]] = e
      OBVIOUS
    <3>1. PICK i \in 1..Len(s) : s[i] = e
      BY <2>3
    <3> QED BY <2>2, <2>3, <2>4, <2>5, <3>1
  <2> QED BY <2>3, <2>6, <2>7, <2>8, <2>9
<1>2. \A e \in Timers : c.head[e] # NULL => e \in Members(c, c.head[e])
  <2>1. \A e \in Timers : c.head[e] \in Slots \cup {NULL}
    BY SlotsAreNoTimers DEF CellsTyped
  <2> QED BY <1>1, <2>1
<1> QED BY <1>1, <1>2 DEF WellLinked

-----------------------------------------------------------------------------
LEMMA ModIsSlot ==
  ASSUME NEW n \in Int
  PROVE  n % Size \in Slots
BY TmoAssumption DEF Slots

LEMMA PeriodsAre ==
  ASSUME NEW m \in Periods
  PROVE  m \in Nat /\ m \in 0..(2^Width - 1)
BY TmoAssumption DEF Periods

LEMMA PulsesAre ==
  ASSUME NEW m \in Periods
  PROVE  /\ m \div Resolution \in Nat
         /\ m \div Resolution + (IF (m % Resolution) # 0 THEN 1 ELSE 0) \in Nat
BY TmoAssumption, PeriodsAre

LEMMA LapsAre ==
  ASSUME NEW p \in Nat
  PROVE  p \div Size \in Nat /\ AgainLap(p) \in Nat
<1>1. PICK S \in Nat \ {0}, W \in Nat \ {0} : S = Size /\ W = 2^Width
  BY TmoAssumption
<1>2. p \div S \in Nat /\ (p - 1) % W \in Nat /\ ((p - 1) % W) \div S \in Nat
  OBVIOUS
<1> QED BY <1>1, <1>2 DEF AgainLap

(* Where a walk goes on: at an entry of the same list, or it is over.      *)
LEMMA FirstIsOnList ==
  ASSUME NEW c, CellsTyped(c), Linked(c), NEW h \in Slots
  PROVE  LET e == First(c, h) IN e = NULL \/ (e \in Timers /\ c.head[e] = h)
<1>1. PICK s \in Seq(Timers) : IsList(c, h, s)
  BY DEF Linked
<1>2. Len(s) \in Nat
  OBVIOUS
<1>3. c.next[h] = Spot(h, s, 1)
  <2>1. c.next[Spot(h, s, 0)] = Spot(h, s, 0 + 1)
    BY <1>1, <1>2 DEF IsList
  <2>2. Spot(h, s, 0) = h
    BY <1>2 DEF Spot
  <2> QED BY <2>1, <2>2
<1>4. PICK i \in Int : i = 1
  OBVIOUS
<1>5. Spot(h, s, i) = h \/ (Spot(h, s, i) \in Timers /\ c.head[Spot(h, s, i)] = h)
  BY <1>1, SpotIsCell
<1> QED BY <1>3, <1>4, <1>5 DEF First

LEMMA NextIsOnList ==
  ASSUME NEW c, CellsTyped(c), Linked(c), NEW t \in Timers, c.head[t] \in Slots
  PROVE  LET e == NextEntry(c, t) IN e = NULL \/ (e \in Timers /\ e # t /\ c.head[e] = c.head[t])
<1>1. PICK h \in Slots : h = c.head[t]
  OBVIOUS
<1>2. PICK s \in Seq(Timers) : IsList(c, h, s)
  BY DEF Linked
<1>3. PICK k \in 1..Len(s) : s[k] = t
  BY <1>1, <1>2 DEF IsList
<1>4. Len(s) \in Nat
  OBVIOUS
<1>5. c.next[t] = Spot(h, s, k + 1)
  <2>1. c.next[Spot(h, s, k)] = Spot(h, s, k + 1)
    BY <1>2, <1>4 DEF IsList
  <2>2. Spot(h, s, k) = t
    BY <1>3 DEF Spot
  <2> QED BY <2>1, <2>2
<1>6. CASE k + 1 \in 1..Len(s)
  <2>1. PICK j \in 1..Len(s) : j = k + 1
    BY <1>6
  <2>2. j # k
    BY <2>1
  <2>3. s[j] # t /\ s[j] \in Timers /\ c.head[s[j]] = h
    BY <1>2, <1>3, <2>2 DEF IsList
  <2>4. c.next[t] = s[j]
    BY <1>5, <2>1 DEF Spot
  <2> QED BY <1>1, <2>3, <2>4 DEF NextEntry
<1>7. CASE k + 1 \notin 1..Len(s)
  <2>1. c.next[t] = h
    BY <1>5, <1>7 DEF Spot
  <2> QED BY <1>1, <2>1 DEF NextEntry
<1> QED BY <1>6, <1>7

LEMMA WheelInit ==
  ASSUME Init
  PROVE  WheelInv
<1>1. PICK c : c = EmptyLists
  OBVIOUS
<1>2. /\ \A x \in Cells : /\ c.next[x] = IF x \in Slots THEN x ELSE NULL
                          /\ c.prev[x] = IF x \in Slots THEN x ELSE NULL
                          /\ c.head[x] = IF x \in Slots THEN x ELSE NULL
      /\ \A h \in Slots : c.size[h] = 0
  BY <1>1 DEF EmptyLists
<1>3. CellsTyped(c)
  BY <1>1, SlotsAreNoTimers DEF CellsTyped, EmptyLists
<1>4. ASSUME NEW h \in Slots PROVE IsList(c, h, <<>>)
  <2>1. Len(<<>>) = 0 /\ \A i \in Int : Spot(h, <<>>, i) = h
    BY DEF Spot
  <2>2. c.next[h] = h /\ c.prev[h] = h
    BY <1>2, SlotsAreNoTimers
  <2>3. \A t \in Timers : c.head[t] = NULL
    BY <1>2, SlotsAreNoTimers
  <2>4. \A i \in 0..Len(<<>>) : i \in Int /\ i + 1 \in Int
    BY <2>1
  <2>5. c.size[h] = Len(<<>>)
    BY <1>2, <2>1
  <2>6. 1..Len(<<>>) = {}
    BY <2>1
  <2> QED BY <2>1, <2>2, <2>3, <2>4, <2>5, <2>6, SlotsAreNoTimers DEF IsList
<1>5. Linked(c)
  <2>1. <<>> \in Seq(Timers)
    OBVIOUS
  <2> QED BY <1>4, <2>1 DEF Linked
<1>6. 0 \in Slots
  BY TmoAssumption DEF Slots
<1> QED BY <1>1, <1>3, <1>5, <1>6 DEF Init, WheelInv, Walking, OnList, Periods

(* set and reset: a timer that is on no list goes on one.                  *)
LEMMA PutKeeps ==
  ASSUME NEW t \in Timers, NEW m \in Periods, NEW links, CellsTyped(links), Linked(links),
         links.head[t] = NULL, slot \in Slots, PutOnWheel(t, m, links),
         msec \in [Timers -> Periods], lap \in [Timers -> Nat]
  PROVE  /\ CellsTyped(cells') /\ Linked(cells')
         /\ msec' \in [Timers -> Periods] /\ lap' \in [Timers -> Nat]
         /\ \A u \in Timers : u # t => cells'.head[u] = links.head[u]
<1>1. PICK h : h = (slot + (m \div Resolution) + 1) % Size
  OBVIOUS
<1>2. h \in Slots
  <2>1. m \div Resolution \in Int
    BY PulsesAre
  <2>2. slot + (m \div Resolution) + 1 \in Int
    BY <2>1 DEF Slots
  <2> QED BY <1>1, <2>2, ModIsSlot
<1>3. cells' = InsertFirst(links, h, t)
  BY <1>1 DEF PutOnWheel
<1>4. msec' \in [Timers -> Periods] /\ lap' \in [Timers -> Nat]
  <2>1. (m \div Resolution) \div Size \in Nat
    BY PulsesAre, LapsAre
  <2> QED BY <2>1 DEF PutOnWheel
<1> QED BY <1>2, <1>3, <1>4, InsertKeeps, SlotsAreNoTimers

(* The cell after one of the circle, wherever the walk got it from.        *)
LEMMA NextIsCell ==
  ASSUME NEW c, CellsTyped(c), NEW t \in Timers
  PROVE  NextEntry(c, t) \in Cells \cup {NULL}
BY SlotsAreNoTimers DEF CellsTyped, NextEntry

LEMMA WheelStep ==
  ASSUME WheelInv, Next
  PROVE  WheelInv'
<1> USE DEF WheelInv, Walking
<1>0. Cells = Slots \cup Timers /\ NULL \notin Slots /\ NULL \notin Timers
  BY SlotsAreNoTimers
<1>1. \A t \in Timers : cells.head[t] \in Slots \cup {NULL}
  BY SlotsAreNoTimers DEF CellsTyped
<1>2. CASE Pulse
  <2>1. slot' \in Slots
    BY <1>2, ModIsSlot DEF Pulse, Slots
  <2>2. entry' = NULL \/ (entry' \in Timers /\ cells.head[entry'] = slot')
    BY <1>2, <2>1, FirstIsOnList DEF Pulse
  <2>3. running = NULL /\ next = NULL
    BY <1>2 DEF Pulse
  <2>4. entry' \in Cells \cup {NULL}
    BY <1>0, <2>2
  <2>5. OnList'
    BY <1>2, <2>2, <2>3 DEF Pulse, OnList
  <2> QED BY <1>2, <2>1, <2>3, <2>4, <2>5 DEF Pulse
<1>3. CASE PassBy
  <2>1. entry \in Timers /\ entry' = NextEntry(cells, entry) /\ running = NULL /\ next' = NULL
    BY <1>3 DEF PassBy
  <2>2. entry' \in Cells \cup {NULL}
    BY <2>1, NextIsCell
  <2>3. ASSUME strayed' = NULL PROVE OnList'
    <3>1. cells.head[entry] = slot
      BY <1>0, <1>3, <2>1, <2>3 DEF PassBy, OnList
    <3>2. entry' = NULL \/ (entry' \in Timers /\ cells.head[entry'] = slot)
      BY <2>1, <3>1, NextIsOnList
    <3> QED BY <1>3, <2>1, <3>2 DEF PassBy, OnList
  <2>4. lap' \in [Timers -> Nat]
    BY <1>3 DEF PassBy
  <2> QED BY <1>3, <2>1, <2>2, <2>3, <2>4 DEF PassBy
<1>4. CASE Call
  <2>1. /\ entry \in Timers /\ next' = NextEntry(cells, entry) /\ running' = entry
        /\ cells.head[entry] \in Slots /\ cells.head[entry] # NULL
        /\ running = NULL /\ entry' = entry /\ entry # NULL
    BY <1>0, <1>1, <1>4 DEF Call, Armed
  <2>2. next' = NULL \/ (next' \in Timers /\ next' # entry /\ cells.head[next'] = cells.head[entry])
    BY <2>1, NextIsOnList
  <2>3. /\ CellsTyped(cells') /\ Linked(cells')
        /\ \A x \in Cells : cells'.head[x] = IF x = entry THEN NULL ELSE cells.head[x]
    BY <1>4, <2>1, RemoveKeeps DEF Call
  <2>4. ASSUME strayed' = NULL PROVE OnList'
    <3>1. cells.head[entry] = slot
      BY <1>4, <2>1, <2>4 DEF Call, OnList
    <3>2. next' # NULL => next' \in Timers /\ cells'.head[next'] = slot
      BY <1>0, <2>2, <2>3, <3>1
    <3> QED BY <1>4, <2>1, <3>2 DEF Call, OnList
  <2> QED BY <1>0, <1>4, <2>1, <2>2, <2>3, <2>4 DEF Call
<1>5. CASE Return
  <2>1. /\ CellsTyped(cells') /\ Linked(cells')
        /\ \A u \in Timers : u # running => cells'.head[u] = cells.head[u]
        /\ ~Armed(running) \/ cells' = cells
    <3>1. CASE UNCHANGED <<cells, lap>>
      BY <3>1
    <3>2. CASE ~UNCHANGED <<cells, lap>>
      <4>1. PICK pulses : pulses = msec[running] \div Resolution
                             + (IF (msec[running] % Resolution) # 0 THEN 1 ELSE 0)
        OBVIOUS
      <4>2. ~Armed(running) /\ cells' = InsertFirst(cells, (slot + pulses) % Size, running)
        BY <1>5, <3>2, <4>1 DEF Return
      <4>3. running \in Timers /\ cells.head[running] = NULL
        BY <1>5, <4>2 DEF Return, Armed
      <4>4. slot + pulses \in Int
        <5>1. pulses \in Nat
          BY <4>1, <4>3, PulsesAre
        <5> QED BY <5>1 DEF Slots
      <4> QED BY <4>2, <4>3, <4>4, ModIsSlot, InsertKeeps, SlotsAreNoTimers
    <3> QED BY <3>1, <3>2
  <2>2. ASSUME strayed' = NULL PROVE OnList'
    <3>1. next # NULL => next \in Timers /\ cells.head[next] = slot
      BY <1>5, <2>2 DEF Return, OnList
    <3>2. next # NULL /\ next = running => Armed(running)
      BY <1>0, <3>1 DEF Armed
    <3>3. next # NULL => cells'.head[next] = slot
      BY <2>1, <3>1, <3>2
    <3> QED BY <1>5, <3>1, <3>3 DEF Return, OnList
  <2>3. lap' \in [Timers -> Nat]
    <3>1. PICK pulses \in Nat : pulses = msec[running] \div Resolution
                                  + (IF (msec[running] % Resolution) # 0 THEN 1 ELSE 0)
      <4>1. running \in Timers
        BY <1>5 DEF Return
      <4>2. msec[running] \in Periods
        BY <4>1
      <4>3. msec[running] \div Resolution
              + (IF (msec[running] % Resolution) # 0 THEN 1 ELSE 0) \in Nat
        BY <4>2, PulsesAre
      <4> QED BY <4>3
    <3>2. lap' = lap \/ lap' = [lap EXCEPT ![running] = AgainLap(pulses)]
      BY <1>5, <3>1 DEF Return
    <3> QED BY <3>1, <3>2, LapsAre
  <2> QED BY <1>5, <2>1, <2>2, <2>3 DEF Return
<1>6. ASSUME NEW t \in Timers, Cancel(t) PROVE WheelInv'
  <2>1. /\ CellsTyped(cells') /\ Linked(cells')
        /\ \A x \in Cells : cells'.head[x] = IF x = t THEN NULL ELSE cells.head[x]
    BY <1>6, RemoveKeeps DEF Cancel, Armed
  <2>2. ASSUME strayed' = NULL PROVE OnList'
    <3>1. t # next /\ strayed = NULL
      BY <1>0, <1>6, <2>2 DEF Cancel, Stray
    <3> QED BY <1>0, <1>6, <2>1, <3>1 DEF Cancel, OnList, MayCall
  <2> QED BY <1>6, <2>1, <2>2 DEF Cancel
<1>7. ASSUME NEW t \in Timers, NEW m \in Msecs, Set(t, m) PROVE WheelInv'
  <2>1. m \in Periods
    BY DEF Periods
  <2>2. /\ CellsTyped(cells') /\ Linked(cells') /\ msec' \in [Timers -> Periods]
        /\ lap' \in [Timers -> Nat]
        /\ \A u \in Timers : u # t => cells'.head[u] = cells.head[u]
    BY <1>7, <2>1, PutKeeps DEF Set, Armed
  <2>3. ASSUME strayed' = NULL PROVE OnList'
    <3>1. strayed = NULL
      BY <1>7, <2>3 DEF Set
    <3>2. next # NULL => next # t
      BY <1>0, <1>7, <3>1 DEF Set, Armed, OnList
    <3> QED BY <1>7, <2>2, <3>1, <3>2 DEF Set, OnList, MayCall
  <2> QED BY <1>7, <2>2, <2>3 DEF Set
<1>8. ASSUME NEW t \in Timers, Reset(t) PROVE WheelInv'
  <2>1. PICK links : links = Removed(cells, t)
    OBVIOUS
  <2>2. /\ CellsTyped(links) /\ Linked(links)
        /\ \A x \in Cells : links.head[x] = IF x = t THEN NULL ELSE cells.head[x]
    BY <1>8, <2>1, RemoveKeeps DEF Reset, Armed
  <2>3. links.head[t] = NULL /\ PutOnWheel(t, msec[t], links) /\ msec[t] \in Periods
    BY <1>8, <2>1, <2>2, SlotsAreNoTimers DEF Reset
  <2>4. /\ CellsTyped(cells') /\ Linked(cells') /\ msec' \in [Timers -> Periods]
        /\ lap' \in [Timers -> Nat]
        /\ \A u \in Timers : u # t => cells'.head[u] = links.head[u]
    BY <2>2, <2>3, PutKeeps
  <2>5. ASSUME strayed' = NULL PROVE OnList'
    <3>1. t # next /\ strayed = NULL
      BY <1>0, <1>8, <2>5 DEF Reset, Stray
    <3> QED BY <1>0, <1>8, <2>2, <2>4, <3>1 DEF Reset, OnList, MayCall
  <2> QED BY <1>8, <2>4, <2>5 DEF Reset
<1> QED BY <1>2, <1>3, <1>4, <1>5, <1>6, <1>7, <1>8 DEF Next

-----------------------------------------------------------------------------
(* Every list of the wheel is one list from its head around, read either   *)
(* way, of the timers that point to it; and the walk is on the list of the *)
(* current slot, also after a routine, as long as none of its routines     *)
(* cancels or resets the timer bs_tmo.next points to.                      *)
THEOREM WheelInvariant == Spec => []WheelInv
<1>1. Init => WheelInv
  BY WheelInit
<1>2. WheelInv /\ UNCHANGED vars => WheelInv'
  BY DEF WheelInv, Walking, OnList, vars
<1>3. WheelInv /\ [Next]_vars => WheelInv'
  BY <1>2, WheelStep
<1> QED BY <1>1, <1>3, PTL DEF Spec

(* The invariant the run checks: no call from a task or from a routine     *)
(* inside the walk breaks a list, and only a call on the timer the walk    *)
(* goes to next leads it away from its list, or where it breaks.           *)
THEOREM WheelStaysIntact == Spec => []WheelIntact
<1>1. WheelInv => WheelIntact
  <2> SUFFICES ASSUME WheelInv PROVE WheelIntact
    OBVIOUS
  <2>1. /\ WellLinked(cells)
        /\ Members(cells, slot) = {t \in Timers : cells.head[t] = slot}
    BY LinkedIsWell DEF WheelInv, Walking
  <2>2. ASSUME strayed = NULL
        PROVE  /\ (entry # NULL /\ running = NULL) => entry \in Members(cells, slot)
               /\ next # NULL => next \in Members(cells, slot)
    BY <2>1, <2>2 DEF WheelInv, OnList
  <2>3. ASSUME strayed = NULL PROVE ~WalkBreaks
    BY <2>3, SlotsAreNoTimers DEF WheelInv, Walking, OnList, WalkBreaks, Armed
  <2> QED BY <2>1, <2>2, <2>3 DEF WheelIntact
<1> QED BY <1>1, WheelInvariant, PTL

-----------------------------------------------------------------------------
(* The timers the walk still has to visit, and what calls do to them.      *)
LEMMA NoChain ==
  ASSUME NEW c
  PROVE  Chain(c, NULL) = {}
<1>1. PICK K \in Nat : K = Cardinality(Timers)
  BY TmoAssumption, FS_CardinalityType
<1>2. PICK at : at = CHOOSE f : f =
        [n \in 0..Cardinality(Timers) |-> IF n = 0 THEN NULL
           ELSE LET last == f[n - 1] IN IF last \in Timers THEN c.next[last] ELSE last]
  OBVIOUS
<1>3. Chain(c, NULL) = {at[n] : n \in 0..K} \ (Slots \cup {NULL})
  BY <1>1, <1>2 DEF Chain
<1>4. Walk(c.next, NULL, at)
  <2>1. PICK f : f = [n \in 0..K |-> NULL]
    OBVIOUS
  <2>2. ASSUME NEW n \in 0..K
        PROVE  f[n] = IF n = 0 THEN NULL
                      ELSE IF f[n - 1] \in Timers THEN c.next[f[n - 1]] ELSE f[n - 1]
    <3>1. n # 0 => n - 1 \in 0..K
      OBVIOUS
    <3> QED BY <2>1, <3>1, SlotsAreNoTimers
  <2>3. Walk(c.next, NULL, f)
    BY <1>1, <2>1, <2>2 DEF Walk
  <2> QED BY <1>2, <2>3 DEF Walk
<1>5. \A n \in 0..K : at[n] = IF n = 0 THEN NULL
                              ELSE IF at[n - 1] \in Timers THEN c.next[at[n - 1]] ELSE at[n - 1]
  BY <1>1, <1>4 DEF Walk
<1>6. PICK T : T = {n \in 0..K : at[n] # NULL}
  OBVIOUS
<1>7. T = {}
  <2> SUFFICES ASSUME T # {} PROVE FALSE
    OBVIOUS
  <2>1. T \in SUBSET Nat
    BY <1>6
  <2>2. PICK n \in T : \A m \in T : n <= m
    BY <2>1, LeastNumber
  <2>3. n \in 0..K /\ at[n] # NULL /\ n # 0
    BY <1>5, <1>6
  <2>4. n - 1 \in 0..K /\ n - 1 \notin T
    BY <1>1, <2>2, <2>3
  <2>5. at[n - 1] = NULL
    BY <1>6, <2>4
  <2> QED BY <1>5, <2>3, <2>5, SlotsAreNoTimers
<1> QED BY <1>3, <1>6, <1>7

(* An entry with its list, and its place there.                            *)
LEMMA EntryHasPlace ==
  ASSUME NEW c, CellsTyped(c), Linked(c), NEW e \in Timers, c.head[e] # NULL
  PROVE  /\ c.head[e] \in Slots
         /\ \E s \in Seq(Timers) : IsList(c, c.head[e], s) /\ \E k \in 1..Len(s) : s[k] = e
<1>1. PICK h : h = c.head[e]
  OBVIOUS
<1>2. h \in Slots
  BY <1>1, SlotsAreNoTimers DEF CellsTyped
<1>3. PICK s \in Seq(Timers) : IsList(c, h, s)
  BY <1>2 DEF Linked
<1>4. \E k \in 1..Len(s) : s[k] = e
  BY <1>1, <1>3 DEF IsList
<1> QED BY <1>1, <1>2, <1>3, <1>4

(* x is the k-th entry of s or a later one.                                *)
IsFrom(s, k, x) == \E j \in k..Len(s) : s[j] = x

LEMMA ChainFrom ==
  ASSUME NEW c, NEW h \in Slots, NEW s \in Seq(Timers), IsList(c, h, s),
         NEW k \in 1..Len(s), NEW x
  PROVE  x \in Chain(c, s[k]) <=> IsFrom(s, k, x)
<1>1. Len(s) \in Nat
  OBVIOUS
<1>2. PICK i \in 1..(Len(s) + 1) : i = k
  BY <1>1
<1>3. x \in Chain(c, Spot(h, s, i)) <=> \E j \in i..Len(s) : s[j] = x
  BY ChainIs
<1>4. Spot(h, s, i) = s[k]
  BY <1>2 DEF Spot
<1> QED BY <1>2, <1>3, <1>4 DEF IsFrom

LEMMA ChainIsOnList ==
  ASSUME NEW c, CellsTyped(c), Linked(c), NEW e \in Timers, c.head[e] # NULL
  PROVE  /\ e \in Chain(c, e)
         /\ \A x \in Chain(c, e) : x \in Timers /\ c.head[x] = c.head[e]
<1>0. PICK h \in Slots : h = c.head[e]
  BY EntryHasPlace
<1>1. PICK s \in Seq(Timers) : IsList(c, h, s) /\ \E k \in 1..Len(s) : s[k] = e
  BY <1>0, EntryHasPlace
<1>2. PICK k \in 1..Len(s) : IsList(c, h, s) /\ s[k] = e
  BY <1>1
<1>3. Len(s) \in Nat
  OBVIOUS
<1>4. ASSUME NEW x \in Chain(c, e) PROVE x \in Timers /\ c.head[x] = c.head[e]
  <2>1. PICK j \in k..Len(s) : s[j] = x
    <3>1. x \in Chain(c, s[k])
      BY <1>2, <1>4
    <3>2. IsFrom(s, k, x)
      BY <1>2, <3>1, ChainFrom
    <3> QED BY <3>2 DEF IsFrom
  <2>2. j \in 1..Len(s)
    BY <1>3
  <2> QED BY <1>0, <1>2, <2>1, <2>2 DEF IsList
<1>5. e \in Chain(c, e)
  <2>1. k \in k..Len(s)
    BY <1>3
  <2>2. IsFrom(s, k, e)
    BY <1>2, <2>1 DEF IsFrom
  <2>3. e \in Chain(c, s[k])
    BY <1>2, <2>2, ChainFrom
  <2> QED BY <1>2, <2>3
<1> QED BY <1>4, <1>5

LEMMA ChainNext ==
  ASSUME NEW c, CellsTyped(c), Linked(c), NEW e \in Timers, c.head[e] # NULL, NEW x
  PROVE  x \in Chain(c, NextEntry(c, e)) <=> (x \in Chain(c, e) /\ x # e)
<1>0. PICK h \in Slots : h = c.head[e]
  BY EntryHasPlace
<1>1. PICK s \in Seq(Timers) : IsList(c, h, s) /\ \E k \in 1..Len(s) : s[k] = e
  BY <1>0, EntryHasPlace
<1>2. PICK k \in 1..Len(s) : IsList(c, h, s) /\ s[k] = e
  BY <1>1
<1>3. Len(s) \in Nat /\ \A i \in 1..Len(s) : s[i] \in Timers
  OBVIOUS
<1>4. c.next[e] = Spot(h, s, k + 1)
  <2>1. c.next[Spot(h, s, k)] = Spot(h, s, k + 1)
    BY <1>2, <1>3 DEF IsList
  <2>2. Spot(h, s, k) = e
    BY <1>2 DEF Spot
  <2> QED BY <2>1, <2>2
<1>5. x \in Chain(c, e) <=> \E j \in k..Len(s) : s[j] = x
  <2>1. x \in Chain(c, s[k]) <=> IsFrom(s, k, x)
    BY <1>2, ChainFrom
  <2> QED BY <1>2, <2>1 DEF IsFrom
<1>6. \A j \in 1..Len(s) : s[j] = e => j = k
  BY <1>2 DEF IsList
<1>7. CASE k < Len(s)
  <2>1. PICK n \in 1..Len(s) : n = k + 1
    <3>1. k + 1 \in 1..Len(s)
      BY <1>3, <1>7
    <3> QED BY <3>1
  <2>2. NextEntry(c, e) = s[n]
    BY <1>0, <1>3, <1>4, <2>1, SlotsAreNoTimers DEF NextEntry, Spot
  <2>3. x \in Chain(c, s[n]) <=> \E j \in n..Len(s) : s[j] = x
    <3>1. x \in Chain(c, s[n]) <=> IsFrom(s, n, x)
      BY <1>2, ChainFrom
    <3> QED BY <1>2, <3>1 DEF IsFrom
  <2>4. (\E j \in n..Len(s) : s[j] = x) => x # e /\ \E j \in k..Len(s) : s[j] = x
    <3> SUFFICES ASSUME NEW j \in n..Len(s), s[j] = x
                 PROVE  x # e /\ \E i \in k..Len(s) : s[i] = x
      OBVIOUS
    <3>1. j \in k..Len(s) /\ j # k /\ j \in 1..Len(s)
      BY <1>3, <2>1
    <3> QED BY <1>6, <3>1
  <2>5. x # e /\ (\E j \in k..Len(s) : s[j] = x) => \E j \in n..Len(s) : s[j] = x
    <3> SUFFICES ASSUME x # e, NEW j \in k..Len(s), s[j] = x
                 PROVE  \E i \in n..Len(s) : s[i] = x
      OBVIOUS
    <3>1. j # k
      BY <1>2
    <3>2. j \in n..Len(s)
      BY <1>3, <2>1, <3>1
    <3> QED BY <3>2
  <2> QED BY <1>5, <2>2, <2>3, <2>4, <2>5
<1>8. CASE k = Len(s)
  <2>1. NextEntry(c, e) = NULL
    <3>1. c.next[e] = h
      BY <1>3, <1>4, <1>8 DEF Spot
    <3> QED BY <1>0, <3>1 DEF NextEntry
  <2>2. x \notin Chain(c, NextEntry(c, e))
    BY <2>1, NoChain
  <2>3. x \in Chain(c, e) => x = e
    <3> SUFFICES ASSUME NEW j \in k..Len(s), s[j] = x PROVE x = e
      BY <1>5
    <3>1. j = k
      BY <1>3, <1>8
    <3> QED BY <1>2, <3>1
  <2> QED BY <2>2, <2>3
<1> QED BY <1>3, <1>7, <1>8

LEMMA ChainFirst ==
  ASSUME NEW c, CellsTyped(c), Linked(c), NEW h \in Slots, NEW x
  PROVE  x \in Chain(c, First(c, h)) <=> (x \in Timers /\ c.head[x] = h)
<1>1. PICK s \in Seq(Timers) : IsList(c, h, s)
  BY DEF Linked
<1>2. Len(s) \in Nat /\ \A i \in 1..Len(s) : s[i] \in Timers
  OBVIOUS
<1>3. c.next[h] = Spot(h, s, 1)
  <2>1. c.next[Spot(h, s, 0)] = Spot(h, s, 0 + 1)
    BY <1>1, <1>2 DEF IsList
  <2>2. Spot(h, s, 0) = h
    BY <1>2 DEF Spot
  <2> QED BY <2>1, <2>2
<1>4. (x \in Timers /\ c.head[x] = h) <=> \E j \in 1..Len(s) : s[j] = x
  <2>1. x \in Timers /\ c.head[x] = h => \E j \in 1..Len(s) : s[j] = x
    BY <1>1 DEF IsList
  <2>2. \A j \in 1..Len(s) : s[j] \in Timers /\ c.head[s[j]] = h
    BY <1>1, <1>2 DEF IsList
  <2> QED BY <2>1, <2>2
<1>5. CASE Len(s) = 0
  <2>1. First(c, h) = NULL
    BY <1>2, <1>3, <1>5 DEF First, Spot
  <2>2. 1..Len(s) = {}
    BY <1>5
  <2> QED BY <1>4, <2>1, <2>2, NoChain
<1>6. CASE Len(s) # 0
  <2>1. PICK i \in 1..Len(s) : i = 1
    BY <1>2, <1>6
  <2>2. First(c, h) = s[i]
    BY <1>2, <1>3, <2>1, SlotsAreNoTimers DEF First, Spot
  <2>3. x \in Chain(c, s[i]) <=> \E j \in i..Len(s) : s[j] = x
    <3>1. x \in Chain(c, s[i]) <=> IsFrom(s, i, x)
      BY <1>1, ChainFrom
    <3> QED BY <1>1, <3>1 DEF IsFrom
  <2> QED BY <1>4, <2>1, <2>2, <2>3
<1> QED BY <1>5, <1>6

LEMMA ChainInsert ==
  ASSUME NEW c, CellsTyped(c), Linked(c), NEW h \in Slots,
         NEW t \in Timers, c.head[t] = NULL, NEW e \in Timers, c.head[e] # NULL, NEW x
  PROVE  x \in Chain(InsertFirst(c, h, t), e) <=> x \in Chain(c, e)
<1>0. PICK g \in Slots, d \in {InsertFirst(c, h, t)} :
        g = c.head[e] /\ d = InsertFirst(c, h, t)
  BY EntryHasPlace
<1>1. PICK s \in Seq(Timers) : IsList(c, g, s) /\ \E k \in 1..Len(s) : s[k] = e
  BY <1>0, EntryHasPlace
<1>2. PICK k \in 1..Len(s) : IsList(c, g, s) /\ s[k] = e
  BY <1>1
<1>3. Len(s) \in Nat
  OBVIOUS
<1>4. x \in Chain(c, e) <=> \E j \in k..Len(s) : s[j] = x
  <2>1. x \in Chain(c, s[k]) <=> IsFrom(s, k, x)
    BY <1>2, ChainFrom
  <2> QED BY <1>2, <2>1 DEF IsFrom
<1>5. CASE g # h
  <2>1. PICK q \in Seq(Timers) : IsList(c, h, q)
    BY DEF Linked
  <2>2. IsList(d, g, s)
    BY <1>0, <1>2, <1>5, <2>1, InsertOther
  <2>3. x \in Chain(d, s[k]) <=> \E j \in k..Len(s) : s[j] = x
    <3>1. x \in Chain(d, s[k]) <=> IsFrom(s, k, x)
      BY <2>2, ChainFrom
    <3> QED BY <2>2, <3>1 DEF IsFrom
  <2> QED BY <1>0, <1>2, <1>4, <2>3
<1>6. CASE g = h
  <2>1. PICK r : r = <<t>> \o s
    OBVIOUS
  <2>2. r \in Seq(Timers) /\ Len(r) = Len(s) + 1 /\ \A i \in 1..Len(s) : r[i + 1] = s[i]
    BY <1>3, <2>1
  <2>3. IsList(d, h, r)
    <3>1. c.head[t] # h
      BY SlotsAreNoTimers
    <3> QED BY <1>0, <1>2, <1>6, <2>1, <3>1, InsertList
  <2>4. PICK n \in 1..Len(r) : n = k + 1
    <3>1. k + 1 \in 1..Len(r)
      BY <1>3, <2>2
    <3> QED BY <3>1
  <2>5. r[n] = e
    BY <1>2, <2>2, <2>4
  <2>6. x \in Chain(d, r[n]) <=> \E j \in n..Len(r) : r[j] = x
    <3>1. x \in Chain(d, r[n]) <=> IsFrom(r, n, x)
      BY <2>2, <2>3, ChainFrom
    <3> QED BY <2>2, <2>3, <3>1 DEF IsFrom
  <2>7. ASSUME NEW j \in n..Len(r) PROVE \E i \in k..Len(s) : s[i] = r[j]
    <3>1. j - 1 \in k..Len(s) /\ (j - 1) + 1 = j /\ j - 1 \in 1..Len(s)
      BY <1>3, <2>2, <2>4
    <3>2. r[(j - 1) + 1] = s[j - 1]
      BY <2>2, <3>1
    <3> QED BY <3>1, <3>2
  <2>8. ASSUME NEW i \in k..Len(s) PROVE \E j \in n..Len(r) : s[i] = r[j]
    <3>1. i + 1 \in n..Len(r) /\ i \in 1..Len(s)
      BY <1>3, <2>2, <2>4
    <3> QED BY <2>2, <3>1
  <2> QED BY <1>0, <1>4, <2>5, <2>6, <2>7, <2>8
<1> QED BY <1>5, <1>6

LEMMA ChainRemove ==
  ASSUME NEW c, CellsTyped(c), Linked(c), NEW t \in Timers, c.head[t] # NULL,
         NEW e \in Timers, c.head[e] # NULL, e # t, NEW x
  PROVE  x \in Chain(Removed(c, t), e) <=> (x \in Chain(c, e) /\ x # t)
<1>0. PICK g \in Slots, d \in {Removed(c, t)} :
        g = c.head[e] /\ d = Removed(c, t)
  BY EntryHasPlace
<1>1. PICK s \in Seq(Timers) : IsList(c, g, s) /\ \E k \in 1..Len(s) : s[k] = e
  BY <1>0, EntryHasPlace
<1>2. PICK k \in 1..Len(s) : IsList(c, g, s) /\ s[k] = e
  BY <1>1
<1>3. Len(s) \in Nat
  OBVIOUS
<1>4. x \in Chain(c, e) <=> \E j \in k..Len(s) : s[j] = x
  <2>1. x \in Chain(c, s[k]) <=> IsFrom(s, k, x)
    BY <1>2, ChainFrom
  <2> QED BY <1>2, <2>1 DEF IsFrom
<1>5. CASE g # c.head[t]
  <2>1. IsList(d, g, s)
    BY <1>0, <1>2, <1>5, RemoveKeeps
  <2>2. x \in Chain(d, s[k]) <=> \E j \in k..Len(s) : s[j] = x
    <3>1. x \in Chain(d, s[k]) <=> IsFrom(s, k, x)
      BY <2>1, ChainFrom
    <3> QED BY <2>1, <3>1 DEF IsFrom
  <2>3. x \in Chain(c, e) => x # t
    BY <1>0, <1>5, ChainIsOnList
  <2> QED BY <1>0, <1>2, <1>4, <2>2, <2>3
<1>6. CASE g = c.head[t]
  <2>1. PICK m \in 1..Len(s) : s[m] = t
    BY <1>2, <1>6 DEF IsList
  <2>2. PICK r : r = Without(s, m)
    OBVIOUS
  <2>3. r \in Seq(Timers) /\ IsList(d, g, r)
    BY <1>0, <1>2, <2>1, <2>2, RemoveList
  <2>4. /\ \A i \in 1..(Len(s) - 1) : r[i] = IF i < m THEN s[i] ELSE s[i + 1]
        /\ Len(r) = Len(s) - 1
    <3>1. r = [i \in 1..(Len(s) - 1) |-> IF i < m THEN s[i] ELSE s[i + 1]]
      BY <2>2 DEF Without
    <3>2. Len(s) - 1 \in Nat
      BY <1>3
    <3>3. DOMAIN r = 1..(Len(s) - 1) /\ DOMAIN r = 1..Len(r) /\ Len(r) \in Nat
      BY <2>3, <3>1
    <3>4. Len(r) = Len(s) - 1
      BY <3>2, <3>3
    <3> QED BY <3>1, <3>4
  <2>5. k # m /\ k \in 1..Len(s) /\ m \in 1..Len(s) /\ \A i \in 1..Len(s) : s[i] = t => i = m
    BY <1>2, <2>1 DEF IsList
  <2>6. PICK n \in 1..Len(r) : n = IF k < m THEN k ELSE k - 1
    <3>1. CASE k < m
      <4>1. k \in 1..Len(r)
        BY <1>3, <2>4, <2>5, <3>1
      <4> QED BY <3>1, <4>1
    <3>2. CASE k > m
      <4>1. k - 1 \in 1..Len(r) /\ ~(k < m)
        BY <1>3, <2>4, <2>5, <3>2
      <4> QED BY <4>1
    <3> QED BY <1>3, <2>5, <3>1, <3>2
  <2>7. r[n] = e
    <3>1. CASE k < m
      BY <1>2, <1>3, <2>4, <2>5, <2>6, <3>1
    <3>2. CASE k > m
      <4>1. n = k - 1 /\ n \in 1..(Len(s) - 1) /\ ~(n < m) /\ n + 1 = k
        BY <1>3, <2>4, <2>5, <2>6, <3>2
      <4>2. r[n] = s[n + 1]
        BY <2>4, <4>1
      <4> QED BY <1>2, <4>1, <4>2
    <3> QED BY <1>3, <2>5, <3>1, <3>2
  <2>8. x \in Chain(d, r[n]) <=> \E j \in n..Len(r) : r[j] = x
    <3>1. x \in Chain(d, r[n]) <=> IsFrom(r, n, x)
      BY <2>3, ChainFrom
    <3> QED BY <2>3, <3>1 DEF IsFrom
  <2>9. ASSUME NEW j \in n..Len(r) PROVE r[j] # t /\ \E i \in k..Len(s) : s[i] = r[j]
    <3>1. PICK i \in 1..Len(s) : i = IF j < m THEN j ELSE j + 1
      <4>1. j \in 1..Len(s) /\ j + 1 \in 1..Len(s)
        BY <1>3, <2>4, <2>9
      <4> QED BY <4>1
    <3>2. j \in 1..(Len(s) - 1)
      BY <1>3, <2>4, <2>9
    <3>3. r[j] = s[i]
      BY <2>4, <3>1, <3>2
    <3>4. i # m /\ i \in k..Len(s)
      BY <1>3, <2>4, <2>5, <2>6, <2>9, <3>1
    <3> QED BY <2>5, <3>3, <3>4
  <2>10. ASSUME NEW i \in k..Len(s), s[i] # t PROVE \E j \in n..Len(r) : r[j] = s[i]
    <3>1. i # m /\ i \in 1..Len(s)
      BY <1>3, <2>1, <2>10
    <3>2. CASE i < m
      <4>1. i \in 1..(Len(s) - 1) /\ i \in n..Len(r)
        BY <1>3, <2>4, <2>5, <2>6, <2>10, <3>1, <3>2
      <4>2. r[i] = s[i]
        BY <2>4, <3>2, <4>1
      <4> QED BY <4>1, <4>2
    <3>3. CASE i > m
      <4>1. PICK j \in 1..(Len(s) - 1) : j = i - 1
        BY <1>3, <2>5, <3>1, <3>3
      <4>2. ~(j < m) /\ j + 1 = i /\ j \in n..Len(r)
        BY <1>3, <2>4, <2>5, <2>6, <2>10, <3>1, <3>3, <4>1
      <4>3. r[j] = s[j + 1]
        BY <2>4, <4>1, <4>2
      <4> QED BY <4>2, <4>3
    <3> QED BY <1>3, <2>5, <3>1, <3>2, <3>3
  <2> QED BY <1>0, <1>4, <2>7, <2>8, <2>9, <2>10
<1> QED BY <1>5, <1>6

-----------------------------------------------------------------------------
(* The laps and the slot of a timer together are its number of pulses.     *)
LEMMA NoMultiple ==
  ASSUME NEW S \in Nat \ {0}, NEW a \in Int, a * S < S, a * S > -S
  PROVE  a = 0
<1>1. CASE a >= 1
  <2>1. PICK b \in Nat : a = b + 1
    <3>1. a - 1 \in Nat /\ a = (a - 1) + 1
      BY <1>1
    <3> QED BY <3>1
  <2>2. a * S = b * S + S
    BY <2>1
  <2>3. b * S >= 0 /\ b * S \in Int
    OBVIOUS
  <2> QED BY <2>2, <2>3
<1>2. CASE a <= -1
  <2>1. PICK b \in Nat : a = -(b + 1)
    <3>1. -a - 1 \in Nat /\ a = -((-a - 1) + 1)
      BY <1>2
    <3> QED BY <3>1
  <2>2. a * S = -(b * S) - S
    BY <2>1
  <2>3. b * S >= 0 /\ b * S \in Int
    OBVIOUS
  <2> QED BY <2>2, <2>3
<1> QED BY <1>1, <1>2

LEMMA Division ==
  ASSUME NEW S \in Nat \ {0}, NEW q \in Int, NEW r \in 0..(S - 1)
  PROVE  (q * S + r) % S = r /\ (q * S + r) \div S = q
<1>1. PICK x \in Int : x = q * S + r
  <2>1. q * S \in Int
    OBVIOUS
  <2> QED BY <2>1
<1>2. PICK d \in Int, m \in 0..(S - 1) : d = x \div S /\ m = x % S
  OBVIOUS
<1>3. x = d * S + m
  BY <1>2
<1>4. PICK a \in Int : a = q - d
  OBVIOUS
<1>5. a * S = m - r
  <2>1. a * S = q * S - d * S
    BY <1>4
  <2> QED BY <1>1, <1>3, <2>1
<1>6. a = 0
  BY <1>5, NoMultiple
<1>7. m = r
  BY <1>5, <1>6
<1>8. q = d
  BY <1>4, <1>6
<1> QED BY <1>1, <1>2, <1>7, <1>8

LEMMA Ahead ==
  ASSUME NEW S \in Nat \ {0}, NEW a \in 0..(S - 1), NEW k \in Nat
  PROVE  (((a + k) % S) - a) % S = k % S
<1>1. PICK q \in Int, r \in 0..(S - 1) : q = k \div S /\ r = k % S
  OBVIOUS
<1>2. k = q * S + r /\ q * S \in Int
  BY <1>1
<1>3. CASE a + r < S
  <2>1. PICK b \in 0..(S - 1) : b = a + r
    BY <1>3
  <2>2. a + k = q * S + b
    BY <1>2, <2>1
  <2>3. (a + k) % S = b
    BY <2>2, Division
  <2>4. ((a + k) % S) - a = r
    BY <2>1, <2>3
  <2>5. r % S = r
    OBVIOUS
  <2> QED BY <1>1, <2>4, <2>5
<1>4. CASE a + r >= S
  <2>1. PICK b \in 0..(S - 1) : b = a + r - S
    BY <1>4
  <2>2. PICK p \in Int : p = q + 1
    OBVIOUS
  <2>3. p * S = q * S + S
    BY <2>2
  <2>4. a + k = p * S + b
    BY <1>2, <2>1, <2>3
  <2>5. (a + k) % S = b
    BY <2>4, Division
  <2>6. PICK o \in Int : o = -1
    OBVIOUS
  <2>7. o * S = -S
    BY <2>6
  <2>8. ((a + k) % S) - a = o * S + r
    BY <2>1, <2>5, <2>7
  <2>9. (o * S + r) % S = r
    BY Division
  <2> QED BY <1>1, <2>8, <2>9
<1> QED BY <1>3, <1>4

(* A remainder counted from 1 to S instead of from 0.                      *)
Full(S, k) == IF k % S = 0 THEN S ELSE k % S

LEMMA LapsAndRest ==
  ASSUME NEW S \in Nat \ {0}, NEW p \in Nat
  PROVE  (p \div S) * S + Full(S, p + 1) = p + 1
<1>1. PICK q \in Int, r \in 0..(S - 1) : q = p \div S /\ r = p % S
  OBVIOUS
<1>2. p = q * S + r /\ q * S \in Int
  BY <1>1
<1>3. CASE r + 1 < S
  <2>1. PICK b \in 0..(S - 1) : b = r + 1 /\ b # 0
    BY <1>3
  <2>2. p + 1 = q * S + b
    BY <1>2, <2>1
  <2>3. (p + 1) % S = b
    BY <2>2, Division
  <2> QED BY <1>1, <2>1, <2>2, <2>3 DEF Full
<1>4. CASE r + 1 = S
  <2>1. PICK o \in Int, b \in 0..(S - 1) : o = q + 1 /\ b = 0
    OBVIOUS
  <2>2. o * S = q * S + S
    BY <2>1
  <2>3. p + 1 = o * S + b
    BY <1>2, <1>4, <2>1, <2>2
  <2>4. (p + 1) % S = b
    BY <2>3, Division
  <2> QED BY <1>1, <1>2, <1>4, <2>1, <2>4 DEF Full
<1> QED BY <1>3, <1>4

(* One pulse on, every timer is one slot nearer, and one that was passed   *)
(* by in this slot has all of them but one to go.                          *)
LEMMA OneNearer ==
  ASSUME NEW S \in Nat \ {0}, NEW a \in 0..(S - 1), NEW h \in 0..(S - 1)
  PROVE  (h - ((a + 1) % S)) % S = Full(S, h - a) - 1
<1>1. ASSUME NEW x \in (-S)..(S - 1) PROVE x % S = IF x < 0 THEN x + S ELSE x
  <2>1. CASE x < 0
    <3>1. PICK o \in Int, b \in 0..(S - 1) : o = -1 /\ b = x + S
      BY <1>1, <2>1
    <3>2. o * S = -S
      BY <3>1
    <3>3. x = o * S + b
      BY <3>1, <3>2
    <3>4. x % S = b
      BY <3>3, Division
    <3> QED BY <2>1, <3>1, <3>4
  <2>2. CASE x >= 0
    BY <1>1, <2>2
  <2> QED BY <1>1, <2>1, <2>2
<1>2. CASE a + 1 < S
  <2>1. (a + 1) % S = a + 1
    BY <1>2
  <2>2. h - (a + 1) \in (-S)..(S - 1) /\ h - a \in (-S)..(S - 1)
    OBVIOUS
  <2>3. (h - (a + 1)) % S = IF h - (a + 1) < 0 THEN h - (a + 1) + S ELSE h - (a + 1)
    BY <1>1, <2>2
  <2>4. (h - a) % S = IF h - a < 0 THEN h - a + S ELSE h - a
    BY <1>1, <2>2
  <2> QED BY <1>2, <2>1, <2>3, <2>4 DEF Full
<1>3. CASE a + 1 = S
  <2>1. (a + 1) % S = 0
    <3>1. PICK o \in Int, b \in 0..(S - 1) : o = 1 /\ b = 0
      OBVIOUS
    <3>2. a + 1 = o * S + b
      BY <1>3, <3>1
    <3> QED BY <3>1, <3>2, Division
  <2>2. h \in (-S)..(S - 1) /\ h - a \in (-S)..(S - 1)
    OBVIOUS
  <2>3. h % S = h
    BY <1>1, <2>2
  <2>4. (h - a) % S = IF h - a < 0 THEN h - a + S ELSE h - a
    BY <1>1, <2>2
  <2> QED BY <1>3, <2>1, <2>3, <2>4 DEF Full
<1> QED BY <1>2, <1>3

(* Pulses are milliseconds rounded up, and do not overflow.                *)
LEMMA RoundedUp ==
  ASSUME NEW R \in Nat \ {0}, NEW m \in Nat
  PROVE  LET p == m \div R + (IF (m % R) # 0 THEN 1 ELSE 0) IN
         /\ p \in 0..m
         /\ m # 0 => p # 0 /\ p = (m + R - 1) \div R
<1>1. PICK q \in Nat, r \in 0..(R - 1) : q = m \div R /\ r = m % R
  OBVIOUS
<1>2. m = q * R + r /\ q * R \in Int
  BY <1>1
<1>3. q * R >= q
  <2>1. PICK s \in Nat : R = s + 1
    <3>1. R - 1 \in Nat /\ R = (R - 1) + 1
      OBVIOUS
    <3> QED BY <3>1
  <2>2. q * R = q * s + q
    BY <2>1
  <2>3. q * s >= 0 /\ q * s \in Int
    OBVIOUS
  <2> QED BY <2>2, <2>3
<1>4. PICK p \in Nat : p = m \div R + (IF (m % R) # 0 THEN 1 ELSE 0)
  BY <1>1
<1>5. p = q + (IF r # 0 THEN 1 ELSE 0)
  BY <1>1, <1>4
<1>6. p \in 0..m
  BY <1>2, <1>3, <1>5
<1>7. ASSUME m # 0 PROVE p # 0
  <2>1. q = 0 => q * R = 0
    OBVIOUS
  <2> QED BY <1>2, <1>5, <1>7, <2>1
<1>8. p = (m + R - 1) \div R
  <2>1. CASE r = 0
    <3>1. PICK b \in 0..(R - 1) : b = R - 1
      OBVIOUS
    <3>2. m + R - 1 = q * R + b
      BY <1>2, <2>1, <3>1
    <3> QED BY <1>5, <2>1, <3>2, Division
  <2>2. CASE r # 0
    <3>1. PICK o \in Int, b \in 0..(R - 1) : o = q + 1 /\ b = r - 1
      BY <2>2
    <3>2. o * R = q * R + R
      BY <3>1
    <3>3. m + R - 1 = o * R + b
      BY <1>2, <3>1, <3>2
    <3> QED BY <1>5, <2>2, <3>1, <3>3, Division
  <2> QED BY <2>1, <2>2
<1> QED BY <1>4, <1>6, <1>7, <1>8

-----------------------------------------------------------------------------
(* The entry the walk comes to next, and the pulses until a timer's call.  *)
Cursor == IF running # NULL THEN next ELSE entry

Left(c, at, laps, todo, t) ==
  IF c.head[t] = NULL THEN -1
  ELSE laps[t] * Size + (IF t \in todo THEN (c.head[t] - at) % Size
                         ELSE Full(Size, c.head[t] - at))

(* Pulses to go to h with n laps, for a timer the walk does not visit now. *)
Away(h, at, n) == n * Size + Full(Size, h - at)

LEMMA LeftIs ==
  ASSUME NEW t \in Timers
  PROVE  /\ PulsesLeft(t) = Left(cells, slot, lap, Pending, t)
         /\ PulsesLeft(t)' = Left(cells', slot', lap', Pending', t)
BY DEF PulsesLeft, Armed, Left, Full

LEMMA CursorIsOnList ==
  ASSUME WheelInv, strayed = NULL
  PROVE  /\ Pending = Chain(cells, Cursor)
         /\ Cursor = NULL \/ (Cursor \in Timers /\ cells.head[Cursor] = slot /\ slot # NULL)
<1>1. Pending = Chain(cells, Cursor)
  BY DEF Pending, Cursor
<1>2. Cursor = NULL \/ (Cursor \in Timers /\ cells.head[Cursor] = slot)
  BY DEF WheelInv, Walking, OnList, Cursor
<1> QED BY <1>1, <1>2, SlotsAreNoTimers DEF WheelInv, Walking

(* What the walk has to visit does not change with a timer that goes on a  *)
(* list, nor, but for that timer, with one that is taken off.              *)
LEMMA InsertLeaves ==
  ASSUME NEW c, CellsTyped(c), Linked(c), NEW h \in Slots, NEW t \in Timers, c.head[t] = NULL,
         NEW e \in Timers \cup {NULL}, e # NULL => c.head[e] # NULL, NEW x
  PROVE  /\ x \in Chain(InsertFirst(c, h, t), e) <=> x \in Chain(c, e)
         /\ t \notin Chain(c, e)
<1>1. CASE e = NULL
  BY <1>1, NoChain
<1>2. CASE e # NULL
  BY <1>2, ChainInsert, ChainIsOnList
<1> QED BY <1>1, <1>2

LEMMA RemoveLeaves ==
  ASSUME NEW c, CellsTyped(c), Linked(c), NEW t \in Timers, c.head[t] # NULL,
         NEW e \in Timers \cup {NULL}, e # t, e # NULL => c.head[e] # NULL, NEW x, x # t
  PROVE  x \in Chain(Removed(c, t), e) <=> x \in Chain(c, e)
<1>1. CASE e = NULL
  BY <1>1, NoChain
<1>2. CASE e # NULL
  BY <1>2, ChainRemove
<1> QED BY <1>1, <1>2

(* The slot and the laps of a timer that is set p full pulses ahead.       *)
LEMMA Counted ==
  ASSUME NEW a \in Slots, NEW p \in Nat
  PROVE  Away((a + p + 1) % Size, a, p \div Size) = p + 1
<1>1. PICK S \in Nat \ {0} : S = Size
  BY TmoAssumption
<1>2. PICK b \in 0..(S - 1), k \in Nat : b = a /\ k = p + 1
  BY <1>1 DEF Slots
<1>3. (((b + k) % S) - b) % S = k % S
  BY Ahead
<1>4. b + k = a + p + 1
  BY <1>2 DEF Slots
<1>5. PICK x \in Int : x = ((b + k) % S) - b
  <2>1. PICK y \in Int : y = (b + k) % S
    OBVIOUS
  <2>2. y - b \in Int
    OBVIOUS
  <2> QED BY <2>1, <2>2
<1>6. Full(S, x) = Full(S, k)
  BY <1>3, <1>5 DEF Full
<1>7. (p \div S) * S + Full(S, k) = p + 1
  BY <1>2, LapsAndRest
<1> QED BY <1>1, <1>2, <1>4, <1>5, <1>6, <1>7 DEF Away

(* set and reset: the call comes on the pulse after the full ones.         *)
LEMMA PutCounts ==
  ASSUME NEW t \in Timers, NEW m \in Periods, NEW links, CellsTyped(links), Linked(links),
         links.head[t] = NULL, slot \in Slots, PutOnWheel(t, m, links),
         lap \in [Timers -> Nat],
         NEW e \in Timers \cup {NULL}, e # NULL => links.head[e] # NULL
  PROVE  \A u \in Timers : Left(cells', slot, lap', Chain(cells', e), u) =
           IF u = t THEN m \div Resolution + 1 ELSE Left(links, slot, lap, Chain(links, e), u)
<1>1. PICK p \in Nat : p = m \div Resolution
  BY PulsesAre
<1>2. PICK h \in Slots : h = (slot + p + 1) % Size
  <2>1. slot + p + 1 \in Int
    BY DEF Slots
  <2> QED BY <2>1, ModIsSlot
<1>3. PICK n \in Nat : n = p \div Size
  BY LapsAre
<1>4. lap' = [lap EXCEPT ![t] = n] /\ cells' = InsertFirst(links, h, t)
  BY <1>1, <1>2, <1>3 DEF PutOnWheel
<1>5. Away(h, slot, n) = p + 1
  BY <1>2, <1>3, Counted
<1>6. \A x \in Cells : cells'.head[x] = IF x = t THEN h ELSE links.head[x]
  BY <1>4, InsertKeeps
<1>7. \A u \in Timers : lap'[u] = IF u = t THEN n ELSE lap[u]
  BY <1>4
<1>8. ASSUME NEW u \in Timers
      PROVE  (u \in Chain(cells', e) <=> u \in Chain(links, e)) /\ t \notin Chain(links, e)
  BY <1>4, InsertLeaves
<1>9. Left(cells', slot, lap', Chain(cells', e), t) = p + 1
  BY <1>5, <1>6, <1>7, <1>8, SlotsAreNoTimers DEF Left, Away
<1>10. ASSUME NEW u \in Timers, u # t
       PROVE  Left(cells', slot, lap', Chain(cells', e), u)
                = Left(links, slot, lap, Chain(links, e), u)
  BY <1>6, <1>7, <1>8, <1>10, SlotsAreNoTimers DEF Left
<1> QED BY <1>1, <1>9, <1>10

(* Laps and slot of a timer that is repeated.                              *)
LEMMA AgainCounts ==
  ASSUME NEW a \in Slots, NEW m \in Periods
  PROVE  LET p == m \div Resolution + (IF (m % Resolution) # 0 THEN 1 ELSE 0) IN
         Away((a + p) % Size, a, AgainLap(p)) = Service!Again(m)
<1>1. m \in Nat /\ m \in 0..(2^Width - 1)
  BY PeriodsAre
<1>2. PICK S \in Nat \ {0}, W \in Nat \ {0} : S = Size /\ W = 2^Width /\ W % S = 0
  BY TmoAssumption
<1>3. PICK p \in 0..m : /\ p = m \div Resolution + (IF (m % Resolution) # 0 THEN 1 ELSE 0)
                        /\ m # 0 => p # 0 /\ p = (m + Resolution - 1) \div Resolution
  BY <1>1, TmoAssumption, RoundedUp
<1>4. CASE m # 0
  <2>1. PICK k \in Nat : k = p - 1
    <3>1. p - 1 \in Nat
      BY <1>3, <1>4
    <3> QED BY <3>1
  <2>2. k % W = k
    <3>1. k \in 0..(W - 1)
      BY <1>1, <1>2, <2>1
    <3> QED BY <3>1
  <2>3. AgainLap(p) = k \div Size
    BY <1>2, <2>1, <2>2 DEF AgainLap
  <2>4. Away((a + k + 1) % Size, a, k \div Size) = k + 1
    BY Counted
  <2>5. a + k + 1 = a + p /\ k + 1 = p
    BY <2>1 DEF Slots
  <2>6. Service!Again(m) = p
    BY <1>3, <1>4 DEF Service!Again
  <2> QED BY <1>3, <2>3, <2>4, <2>5, <2>6
<1>5. CASE m = 0
  <2>1. p = 0
    BY <1>5
  <2>2. PICK k \in Nat : k = W - 1
    OBVIOUS
  <2>3. (-1) % W = k
    <3>1. PICK o \in Int, b \in 0..(W - 1) : o = -1 /\ b = W - 1
      OBVIOUS
    <3>2. o * W = -W
      BY <3>1
    <3>3. -1 = o * W + b
      BY <3>1, <3>2
    <3> QED BY <2>2, <3>1, <3>3, Division
  <2>4. AgainLap(p) = k \div S
    BY <1>2, <2>1, <2>3 DEF AgainLap
  <2>5. PICK f \in Int : f = Full(S, k + 1)
    <3>1. (k + 1) % S \in Int
      OBVIOUS
    <3> QED BY <3>1 DEF Full
  <2>6. f = S
    BY <1>2, <2>2, <2>5 DEF Full
  <2>7. (k \div S) * S + f = k + 1
    BY <2>5, LapsAndRest
  <2>8. PICK x \in Int : x = ((a + p) % Size) - a
    BY <1>2, <2>1 DEF Slots
  <2>9. x % S = 0
    <3>1. PICK b \in 0..(S - 1), z \in Nat : b = a /\ z = 0
      BY <1>2 DEF Slots
    <3>2. (((b + z) % S) - b) % S = z % S
      BY Ahead
    <3> QED BY <1>2, <2>1, <2>8, <3>1, <3>2
  <2>10. Full(Size, x) = S
    BY <1>2, <2>9 DEF Full
  <2>11. Service!Again(m) = W
    BY <1>2, <1>5 DEF Service!Again
  <2> QED BY <1>2, <1>3, <2>2, <2>4, <2>6, <2>7, <2>8, <2>10, <2>11 DEF Away
<1> QED BY <1>4, <1>5

-----------------------------------------------------------------------------
(* One pulse of the wheel is one pulse for every timer on it.              *)
LEMMA PulseCounts ==
  ASSUME WheelInv, Pulse, NEW t \in Timers
  PROVE  /\ PulsesLeft(t) # 0
         /\ PulsesLeft(t)' = IF PulsesLeft(t) = -1 THEN -1 ELSE PulsesLeft(t) - 1
<1> USE DEF WheelInv, Walking
<1>1. PICK S \in Nat \ {0} : S = Size
  BY TmoAssumption
<1>2. PICK a \in 0..(S - 1) : a = slot
  BY <1>1 DEF Slots
<1>3. entry = NULL /\ running = NULL /\ cells' = cells /\ lap' = lap /\ running' = NULL
  BY DEF Pulse, OnList
<1>4. slot' = (a + 1) % S /\ slot' \in Slots /\ entry' = First(cells, slot')
  BY <1>1, <1>2, ModIsSlot DEF Pulse
<1>5. t \notin Pending
  BY <1>3, NoChain DEF Pending
<1>6. t \in Pending' <=> cells.head[t] = slot'
  <2>1. Pending' = Chain(cells, First(cells, slot'))
    BY <1>3, <1>4 DEF Pending
  <2> QED BY <1>4, <2>1, ChainFirst
<1>7. PulsesLeft(t) = Left(cells, slot, lap, Pending, t)
  BY LeftIs
<1>8. PulsesLeft(t)' = Left(cells, slot', lap, Pending', t)
  BY <1>3, LeftIs
<1>9. CASE cells.head[t] = NULL
  BY <1>7, <1>8, <1>9 DEF Left
<1>10. CASE cells.head[t] # NULL
  <2>1. PICK h \in 0..(S - 1) : h = cells.head[t]
    BY <1>1, <1>10, SlotsAreNoTimers DEF CellsTyped, Slots
  <2>2. PICK n \in Nat : n = lap[t]
    OBVIOUS
  <2>3. PICK f \in 1..S : f = Full(S, h - a)
    <3>1. (h - a) % S \in 0..(S - 1)
      OBVIOUS
    <3> QED BY <3>1 DEF Full
  <2>4. PICK m \in Int : m = n * S /\ m >= 0
    OBVIOUS
  <2>5. PulsesLeft(t) = m + f
    BY <1>1, <1>2, <1>5, <1>7, <1>10, <2>1, <2>2, <2>3, <2>4 DEF Left
  <2>6. PICK b \in 0..(S - 1) : b = slot'
    BY <1>1, <1>4 DEF Slots
  <2>7. (h - b) % S = f - 1
    BY <1>4, <2>3, <2>6, OneNearer
  <2>8. h = b \/ (h - b) % S # 0
    <3>1. ASSUME (h - b) % S = 0 PROVE h = b
      <4>1. PICK x \in Int, q \in Int : x = h - b /\ q = x \div S
        OBVIOUS
      <4>2. x % S = 0
        BY <3>1, <4>1
      <4>3. x = q * S
        BY <4>1, <4>2
      <4>4. x < S /\ x > -S
        BY <4>1
      <4>5. q = 0
        BY <4>3, <4>4, NoMultiple
      <4>6. x = 0
        BY <4>3, <4>5
      <4> QED BY <4>1, <4>6
    <3> QED BY <3>1
  <2>9. PulsesLeft(t)' = m + ((h - b) % S)
    <3>1. CASE h = b
      BY <1>1, <1>6, <1>8, <1>10, <2>1, <2>2, <2>4, <2>6, <3>1 DEF Left
    <3>2. CASE h # b
      BY <1>1, <1>8, <1>10, <2>1, <2>2, <2>4, <2>6, <2>8, <3>2 DEF Left, Full
    <3> QED BY <3>1, <3>2
  <2>10. m + f # 0 /\ m + f # -1 /\ m + (f - 1) = (m + f) - 1
    BY <2>4
  <2>11. PulsesLeft(t)' = m + (f - 1)
    BY <2>7, <2>9
  <2> QED BY <2>5, <2>10, <2>11
<1> QED BY <1>9, <1>10

(* A timer the walk passes by has its turn after a full one.               *)
LEMMA PassByCounts ==
  ASSUME WheelInv, PassBy, strayed' = NULL, NEW t \in Timers
  PROVE  PulsesLeft(t)' = PulsesLeft(t)
<1> USE DEF WheelInv, Walking
<1>1. /\ entry \in Timers /\ running = NULL /\ cells.head[entry] = slot /\ cells' = cells
      /\ slot' = slot /\ running' = NULL /\ entry' = NextEntry(cells, entry)
      /\ lap' = [lap EXCEPT ![entry] = lap[entry] - 1] /\ lap[entry] # 0
      /\ cells.head[entry] # NULL
  BY SlotsAreNoTimers DEF PassBy, OnList
<1>2. Pending = Chain(cells, entry) /\ Pending' = Chain(cells, NextEntry(cells, entry))
  BY <1>1 DEF Pending
<1>3. t \in Pending' <=> (t \in Pending /\ t # entry)
  BY <1>1, <1>2, ChainNext
<1>4. entry \in Pending
  BY <1>1, <1>2, ChainIsOnList
<1>5. PulsesLeft(t) = Left(cells, slot, lap, Pending, t)
  BY LeftIs
<1>6. PulsesLeft(t)' = Left(cells, slot, lap', Pending', t)
  BY <1>1, LeftIs
<1>7. CASE t # entry
  <2>1. lap'[t] = lap[t]
    BY <1>1, <1>7
  <2> QED BY <1>3, <1>5, <1>6, <1>7, <2>1 DEF Left
<1>8. CASE t = entry
  <2>1. PICK S \in Nat \ {0} : S = Size
    BY TmoAssumption
  <2>2. PICK n \in Nat : lap[t] = n + 1
    <3>1. lap[t] - 1 \in Nat /\ lap[t] = (lap[t] - 1) + 1
      BY <1>1, <1>8
    <3> QED BY <3>1
  <2>3. lap'[t] = n
    BY <1>1, <1>8, <2>2
  <2>4. PICK x \in Int : x = cells.head[t] - slot /\ x = 0
    BY <1>1, <1>8 DEF Slots
  <2>5. x % S = 0 /\ Full(S, x) = S
    BY <2>4 DEF Full
  <2>6. PulsesLeft(t) = (n + 1) * S
    BY <1>1, <1>4, <1>5, <1>8, <2>1, <2>2, <2>4, <2>5 DEF Left
  <2>7. PulsesLeft(t)' = n * S + S
    BY <1>1, <1>3, <1>6, <1>8, <2>1, <2>3, <2>4, <2>5 DEF Left
  <2>8. (n + 1) * S = n * S + S
    OBVIOUS
  <2> QED BY <2>6, <2>7, <2>8
<1> QED BY <1>7, <1>8

(* A timer without laps in the slot is due, and off the wheel when called. *)
LEMMA CallCounts ==
  ASSUME WheelInv, Call, strayed' = NULL, NEW t \in Timers
  PROVE  /\ entry \in Timers /\ PulsesLeft(entry) = 0
         /\ PulsesLeft(t)' = IF t = entry THEN -1 ELSE PulsesLeft(t)
<1> USE DEF WheelInv, Walking
<1>1. /\ entry \in Timers /\ running = NULL /\ cells.head[entry] = slot
      /\ cells' = Removed(cells, entry) /\ next' = NextEntry(cells, entry)
      /\ slot' = slot /\ running' # NULL /\ lap' = lap /\ lap[entry] = 0
      /\ cells.head[entry] # NULL
  BY SlotsAreNoTimers DEF Call, OnList
<1>2. Pending = Chain(cells, entry) /\ Pending' = Chain(Removed(cells, entry), next')
  BY <1>1 DEF Pending
<1>3. ASSUME t # entry PROVE t \in Pending' <=> t \in Pending
  <2>1. t \in Chain(cells, NextEntry(cells, entry)) <=> t \in Chain(cells, entry)
    BY <1>1, <1>3, ChainNext
  <2>2. next' \in Timers \cup {NULL} /\ next' # entry /\ (next' # NULL => cells.head[next'] # NULL)
    BY <1>1, NextIsOnList, SlotsAreNoTimers
  <2>3. PICK e \in Timers \cup {NULL} : e = next'
    BY <2>2
  <2>4. t \in Chain(Removed(cells, entry), e) <=> t \in Chain(cells, e)
    BY <1>1, <1>3, <2>2, <2>3, RemoveLeaves
  <2> QED BY <1>1, <1>2, <2>1, <2>3, <2>4
<1>4. \A x \in Cells : cells'.head[x] = IF x = entry THEN NULL ELSE cells.head[x]
  BY <1>1, RemoveKeeps
<1>5. PulsesLeft(entry) = 0
  <2>1. entry \in Pending
    BY <1>1, <1>2, ChainIsOnList
  <2>2. PICK S \in Nat \ {0} : S = Size
    BY TmoAssumption
  <2>3. PICK x \in Int : x = cells.head[entry] - slot /\ x = 0
    BY <1>1 DEF Slots
  <2>4. x % S = 0 /\ 0 * S = 0
    BY <2>3
  <2>5. PulsesLeft(entry) = Left(cells, slot, lap, Pending, entry)
    BY <1>1, LeftIs
  <2> QED BY <1>1, <2>1, <2>2, <2>3, <2>4, <2>5 DEF Left
<1>6. PulsesLeft(t) = Left(cells, slot, lap, Pending, t)
  BY LeftIs
<1>7. PulsesLeft(t)' = Left(cells', slot, lap, Pending', t)
  BY <1>1, LeftIs
<1>8. CASE t = entry
  BY <1>1, <1>4, <1>5, <1>7, <1>8, SlotsAreNoTimers DEF Left
<1>9. CASE t # entry
  BY <1>1, <1>3, <1>4, <1>5, <1>6, <1>7, <1>9, SlotsAreNoTimers DEF Left
<1> QED BY <1>8, <1>9

(* A timer that is repeated comes back after its milliseconds, rounded up. *)
LEMMA ReturnCounts ==
  ASSUME WheelInv, Return, strayed' = NULL, NEW t \in Timers
  PROVE  PulsesLeft(t)' = PulsesLeft(t) \/
           /\ PulsesLeft(running) = -1
           /\ PulsesLeft(t)' = IF t = running THEN Service!Again(msec[t]) ELSE PulsesLeft(t)
<1> USE DEF WheelInv, Walking
<1>1. /\ running \in Timers /\ running # NULL /\ slot' = slot /\ running' = NULL
      /\ entry' = next /\ next \in Timers \cup {NULL} /\ (next # NULL => cells.head[next] # NULL)
  BY SlotsAreNoTimers DEF Return, OnList
<1>2. Pending = Chain(cells, next) /\ Pending' = Chain(cells', next)
  BY <1>1 DEF Pending
<1>3. /\ PulsesLeft(t) = Left(cells, slot, lap, Pending, t)
      /\ PulsesLeft(t)' = Left(cells', slot, lap', Pending', t)
  BY <1>1, LeftIs
<1>4. CASE UNCHANGED <<cells, lap>>
  BY <1>2, <1>3, <1>4
<1>5. CASE ~UNCHANGED <<cells, lap>>
  <2>1. PICK m \in Periods : m = msec[running]
    BY <1>1
  <2>2. PICK p \in Nat : p = m \div Resolution + (IF (m % Resolution) # 0 THEN 1 ELSE 0)
    BY PulsesAre
  <2>3. PICK h \in Slots, n \in Nat : h = (slot + p) % Size /\ n = AgainLap(p)
    <3>1. slot + p \in Int
      BY DEF Slots
    <3> QED BY <3>1, ModIsSlot, LapsAre
  <2>4. /\ cells.head[running] = NULL /\ cells' = InsertFirst(cells, h, running)
        /\ lap' = [lap EXCEPT ![running] = n]
    BY <1>5, <2>1, <2>2, <2>3 DEF Return, Armed
  <2>5. Away(h, slot, n) = Service!Again(m)
    BY <2>2, <2>3, AgainCounts
  <2>6. \A x \in Cells : cells'.head[x] = IF x = running THEN h ELSE cells.head[x]
    BY <1>1, <2>4, InsertKeeps
  <2>7. \A u \in Timers : lap'[u] = IF u = running THEN n ELSE lap[u]
    BY <2>4
  <2>8. (t \in Pending' <=> t \in Pending) /\ running \notin Pending
    <3>1. PICK e \in Timers \cup {NULL} : e = next /\ (e # NULL => cells.head[e] # NULL)
      BY <1>1
    <3>2. /\ t \in Chain(InsertFirst(cells, h, running), e) <=> t \in Chain(cells, e)
          /\ running \notin Chain(cells, e)
      BY <1>1, <2>4, <3>1, InsertLeaves
    <3> QED BY <1>2, <2>4, <3>1, <3>2
  <2>9. PulsesLeft(running) = -1
    BY <2>4 DEF PulsesLeft, Armed
  <2>10. CASE t = running
    BY <1>3, <2>1, <2>5, <2>6, <2>7, <2>8, <2>9, <2>10, SlotsAreNoTimers DEF Left, Away
  <2>11. CASE t # running
    BY <1>3, <2>6, <2>7, <2>8, <2>9, <2>11, SlotsAreNoTimers DEF Left
  <2> QED BY <2>10, <2>11
<1> QED BY <1>4, <1>5

LEMMA SetCounts ==
  ASSUME WheelInv, NEW t \in Timers, NEW m \in Msecs, Set(t, m), strayed' = NULL
  PROVE  /\ PulsesLeft(t) = -1
         /\ \A u \in Timers : PulsesLeft(u)' =
              IF u = t THEN m \div Resolution + 1 ELSE PulsesLeft(u)
<1> USE DEF WheelInv, Walking
<1>1. /\ cells.head[t] = NULL /\ PutOnWheel(t, m, cells) /\ m \in Periods
      /\ slot' = slot /\ Cursor' = Cursor /\ Pending' = Chain(cells', Cursor)
  BY DEF Set, Armed, Periods, Cursor, Pending
<1>0. strayed = NULL
  BY DEF Set
<1>2. PICK e \in Timers \cup {NULL} : e = Cursor /\ (e # NULL => cells.head[e] # NULL)
  BY <1>0, CursorIsOnList
<1>3. \A u \in Timers : Left(cells', slot, lap', Chain(cells', e), u) =
           IF u = t THEN m \div Resolution + 1 ELSE Left(cells, slot, lap, Chain(cells, e), u)
  BY <1>1, <1>2, PutCounts
<1>4. PulsesLeft(t) = -1
  BY <1>1 DEF PulsesLeft, Armed
<1>5. \A u \in Timers : /\ PulsesLeft(u) = Left(cells, slot, lap, Chain(cells, e), u)
                        /\ PulsesLeft(u)' = Left(cells', slot, lap', Chain(cells', e), u)
  BY <1>0, <1>1, <1>2, LeftIs, CursorIsOnList
<1> QED BY <1>3, <1>4, <1>5

(* What is taken off, be it to go on again, was on the wheel.              *)
LEMMA OffCounts ==
  ASSUME WheelInv, strayed = NULL, NEW t \in Timers, MayCall, Armed(t), t # next
  PROVE  /\ PulsesLeft(t) # -1
         /\ CellsTyped(Removed(cells, t)) /\ Linked(Removed(cells, t))
         /\ Removed(cells, t).head[t] = NULL
         /\ Cursor \in Timers \cup {NULL}
         /\ Cursor # NULL => Removed(cells, t).head[Cursor] # NULL
         /\ \A u \in Timers : Left(Removed(cells, t), slot, lap, Chain(Removed(cells, t), Cursor), u)
              = IF u = t THEN -1 ELSE PulsesLeft(u)
<1> USE DEF WheelInv, Walking
<1>1. PICK e \in Timers \cup {NULL} : e = Cursor /\ (e # NULL => cells.head[e] # NULL) /\ e # t
  <2>1. Cursor # t
    BY SlotsAreNoTimers DEF MayCall, Cursor, OnList
  <2> QED BY <2>1, CursorIsOnList
<1>2. PICK d : d = Removed(cells, t)
  OBVIOUS
<1>3. /\ cells.head[t] # NULL /\ CellsTyped(d) /\ Linked(d)
      /\ \A x \in Cells : d.head[x] = IF x = t THEN NULL ELSE cells.head[x]
  BY <1>2, RemoveKeeps DEF Armed
<1>4. PulsesLeft(t) # -1
  <2>1. PICK S \in Nat \ {0} : S = Size
    BY TmoAssumption
  <2>2. PICK x \in Int : x = cells.head[t] - slot
    BY <1>3, SlotsAreNoTimers DEF CellsTyped, Slots
  <2>3. PICK r \in 0..(S - 1) : r = x % S
    <3>1. x % S \in 0..(S - 1)
      OBVIOUS
    <3> QED BY <3>1
  <2>4. PICK n \in Nat : n = lap[t]
    OBVIOUS
  <2>5. PICK m \in Nat : m = n * S
    OBVIOUS
  <2>6. PulsesLeft(t) = m + r \/ PulsesLeft(t) = m + S
    BY <1>3, <2>1, <2>2, <2>3, <2>4, <2>5 DEF PulsesLeft, Armed
  <2> QED BY <2>6
<1>5. ASSUME NEW u \in Timers
      PROVE  Left(d, slot, lap, Chain(d, e), u) = IF u = t THEN -1 ELSE PulsesLeft(u)
  <2>1. CASE u = t
    BY <1>3, <2>1, SlotsAreNoTimers DEF Left
  <2>2. CASE u # t
    <3>1. u \in Chain(d, e) <=> u \in Chain(cells, e)
      BY <1>1, <1>2, <1>3, <2>2, RemoveLeaves
    <3>2. PulsesLeft(u) = Left(cells, slot, lap, Chain(cells, e), u)
      BY <1>1, LeftIs, CursorIsOnList
    <3> QED BY <1>3, <2>2, <3>1, <3>2, SlotsAreNoTimers DEF Left
  <2> QED BY <2>1, <2>2
<1>6. d.head[t] = NULL /\ (e # NULL => d.head[e] # NULL)
  BY <1>1, <1>3, SlotsAreNoTimers
<1> QED BY <1>1, <1>2, <1>3, <1>4, <1>5, <1>6

LEMMA CancelCounts ==
  ASSUME WheelInv, NEW t \in Timers, Cancel(t), strayed' = NULL
  PROVE  /\ PulsesLeft(t) # -1
         /\ \A u \in Timers : PulsesLeft(u)' = IF u = t THEN -1 ELSE PulsesLeft(u)
<1>0. t # next /\ strayed = NULL
  BY SlotsAreNoTimers DEF Cancel, Stray
<1>1. /\ MayCall /\ Armed(t) /\ cells' = Removed(cells, t)
      /\ slot' = slot /\ lap' = lap /\ Pending' = Chain(cells', Cursor)
  BY DEF Cancel, Cursor, Pending
<1>2. \A u \in Timers : PulsesLeft(u)' = Left(cells', slot, lap, Chain(cells', Cursor), u)
  BY <1>1, LeftIs
<1> QED BY <1>0, <1>1, <1>2, OffCounts

LEMMA ResetCounts ==
  ASSUME WheelInv, NEW t \in Timers, Reset(t), strayed' = NULL
  PROVE  /\ PulsesLeft(t) # -1
         /\ msec' = msec
         /\ \A u \in Timers : PulsesLeft(u)' =
              IF u = t THEN msec[t] \div Resolution + 1 ELSE PulsesLeft(u)
<1> USE DEF WheelInv, Walking
<1>1. PICK m \in Periods : m = msec[t]
  OBVIOUS
<1>2. PICK d : d = Removed(cells, t)
  OBVIOUS
<1>0. t # next /\ strayed = NULL
  BY SlotsAreNoTimers DEF Reset, Stray
<1>3. /\ MayCall /\ Armed(t) /\ PutOnWheel(t, m, d)
      /\ slot' = slot /\ Pending' = Chain(cells', Cursor) /\ msec' = [msec EXCEPT ![t] = m]
  BY <1>1, <1>2 DEF Reset, Cursor, Pending, PutOnWheel
<1>4. /\ PulsesLeft(t) # -1 /\ CellsTyped(d) /\ Linked(d) /\ d.head[t] = NULL
      /\ Cursor \in Timers \cup {NULL} /\ (Cursor # NULL => d.head[Cursor] # NULL)
      /\ \A u \in Timers :
           Left(d, slot, lap, Chain(d, Cursor), u) = IF u = t THEN -1 ELSE PulsesLeft(u)
  BY <1>0, <1>2, <1>3, OffCounts
<1>5. PICK e \in Timers \cup {NULL} : e = Cursor /\ (e # NULL => d.head[e] # NULL)
  BY <1>4
<1>6. \A u \in Timers : Left(cells', slot, lap', Chain(cells', e), u) =
           IF u = t THEN m \div Resolution + 1 ELSE Left(d, slot, lap, Chain(d, e), u)
  BY <1>3, <1>4, <1>5, PutCounts
<1>7. \A u \in Timers : PulsesLeft(u)' = Left(cells', slot, lap', Chain(cells', e), u)
  BY <1>3, <1>5, LeftIs
<1>8. msec' = msec
  BY <1>1, <1>3
<1> QED BY <1>1, <1>4, <1>5, <1>6, <1>7, <1>8

(* The service's view of the wheel.                                        *)
Due == [t \in Timers |-> PulsesLeft(t)]

LEMMA DueIs ==
  /\ \A t \in Timers : Due[t] = PulsesLeft(t) /\ Due'[t] = PulsesLeft(t)'
  /\ Due' = [t \in Timers |-> PulsesLeft(t)']
BY DEF Due

LEMMA DueChanges ==
  ASSUME NEW t \in Timers, NEW n,
         \A u \in Timers : PulsesLeft(u)' = IF u = t THEN n ELSE PulsesLeft(u)
  PROVE  Due' = [Due EXCEPT ![t] = n]
BY DEF Due

LEMMA DueInit ==
  ASSUME Init
  PROVE  Service!Init
<1>1. \A t \in Timers : PulsesLeft(t) = -1
  BY SlotsAreNoTimers DEF Init, EmptyLists, PulsesLeft, Armed
<1> QED BY <1>1 DEF Init, Service!Init

(* Every step of the wheel is a step of the service it promises, or none.  *)
LEMMA WheelStepServes ==
  ASSUME WheelInv, Next, strayed' = NULL
  PROVE  Service!Next \/ UNCHANGED <<Due, msec, running>>
<1>1. CASE Pulse
  <2>1. running = NULL /\ running' = NULL /\ msec' = msec
    BY <1>1 DEF Pulse, WheelInv, Walking
  <2>2. \A t \in Timers : Due[t] # 0
    BY <1>1, DueIs, PulseCounts
  <2>3. Due' = [t \in Timers |-> IF Due[t] = -1 THEN -1 ELSE Due[t] - 1]
    BY <1>1, DueIs, PulseCounts
  <2> QED BY <2>1, <2>2, <2>3 DEF Due, Service!Pulse, Service!Next
<1>2. CASE PassBy
  <2>1. Due' = Due
    BY <1>2, DueIs, PassByCounts DEF Due
  <2> QED BY <1>2, <2>1 DEF PassBy
<1>3. CASE Call
  <2>1. entry \in Timers /\ Due[entry] = 0
    <3>1. PICK t : t = entry
      OBVIOUS
    <3>2. entry \in Timers
      BY <1>3 DEF Call, WheelInv, Walking
    <3> QED BY <1>3, <3>2, CallCounts, DueIs
  <2>2. Due' = [Due EXCEPT ![entry] = -1]
    <3>1. \A t \in Timers : PulsesLeft(t)' = IF t = entry THEN -1 ELSE PulsesLeft(t)
      BY <1>3, CallCounts
    <3> QED BY <2>1, <3>1, DueChanges
  <2>3. running = NULL /\ running' = entry /\ msec' = msec
    BY <1>3 DEF Call
  <2> QED BY <2>1, <2>2, <2>3 DEF Due, Service!Call, Service!Next
<1>4. CASE Return
  <2>1. running \in Timers /\ running' = NULL /\ msec' = msec
    BY <1>4 DEF Return, WheelInv, Walking
  <2>2. CASE \A t \in Timers : PulsesLeft(t)' = PulsesLeft(t)
    <3>1. Due' = Due
      BY <2>2, DueIs DEF Due
    <3>2. Service!Return(running)
      BY <2>1, <3>1 DEF Due, Service!Return
    <3> QED BY <2>1, <3>2 DEF Service!Next
  <2>3. CASE \E t \in Timers : PulsesLeft(t)' # PulsesLeft(t)
    <3>1. PICK t \in Timers : PulsesLeft(t)' # PulsesLeft(t)
      BY <2>3
    <3>2. PulsesLeft(running) = -1 /\ t = running
      BY <1>4, <3>1, ReturnCounts
    <3>3. \A u \in Timers : PulsesLeft(u)' =
            IF u = running THEN Service!Again(msec[running]) ELSE PulsesLeft(u)
      BY <1>4, <3>1, <3>2, ReturnCounts
    <3>4. Due' = [Due EXCEPT ![running] = Service!Again(msec[running])]
      BY <2>1, <3>3, DueChanges
    <3>5. Due[running] = -1
      BY <2>1, <3>2, DueIs
    <3>6. Service!Return(running)
      BY <2>1, <3>4, <3>5 DEF Due, Service!Return
    <3> QED BY <2>1, <3>6 DEF Service!Next
  <2> QED BY <2>2, <2>3
<1>5. ASSUME NEW t \in Timers, Cancel(t) PROVE Service!Next
  <2>1. Due[t] # -1 /\ Due' = [Due EXCEPT ![t] = -1]
    BY <1>5, CancelCounts, DueIs, DueChanges
  <2>2. Service!Cancel(t)
    BY <1>5, <2>1 DEF Cancel, Due, Service!Cancel
  <2> QED BY <2>2 DEF Service!Next
<1>6. ASSUME NEW t \in Timers, Reset(t) PROVE Service!Next
  <2>1. Due[t] # -1 /\ Due' = [Due EXCEPT ![t] = msec[t] \div Resolution + 1] /\ msec' = msec
    BY <1>6, ResetCounts, DueIs, DueChanges
  <2>2. Service!Reset(t)
    BY <1>6, <2>1 DEF Reset, Due, Service!Reset
  <2> QED BY <2>2 DEF Service!Next
<1>7. ASSUME NEW t \in Timers, NEW m \in Msecs, Set(t, m) PROVE Service!Next
  <2>1. Due[t] = -1 /\ Due' = [Due EXCEPT ![t] = m \div Resolution + 1]
    BY <1>7, SetCounts, DueIs, DueChanges
  <2>2. Service!Set(t, m)
    BY <1>7, <2>1 DEF Set, PutOnWheel, Due, Service!Set
  <2> QED BY <2>2 DEF Service!Next
<1> QED BY <1>1, <1>2, <1>3, <1>4, <1>5, <1>6, <1>7 DEF Next

(* The wheel implements the service in every step of a walk that no        *)
(* routine has sent astray: a timer is called on the very pulse it was set *)
(* for, whatever is set, cancelled and reset in between, also by routines  *)
(* inside the walk, and however many laps it waits.                        *)
THEOREM WheelIsPulseTimers == Spec => ImplementsService
<1>1. Init => Service!Init
  BY DueInit
<1>2. WheelInv /\ [Next]_vars
        => [strayed' = NULL => Service!Next]_<<[t \in Timers |-> PulsesLeft(t)], msec, running>>
  <2> SUFFICES ASSUME WheelInv, [Next]_vars, strayed' = NULL
               PROVE  Service!Next \/ UNCHANGED <<[t \in Timers |-> PulsesLeft(t)], msec, running>>
    OBVIOUS
  <2>1. CASE Next
    BY <2>1, WheelStepServes DEF Due
  <2>2. CASE UNCHANGED vars
    BY <2>2 DEF vars, PulsesLeft, Armed, Pending
  <2> QED BY <2>1, <2>2
<1> QED BY <1>1, <1>2, WheelInvariant, PTL DEF Spec, ImplementsService
===============================================================================
