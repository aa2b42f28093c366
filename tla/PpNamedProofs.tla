----------------------------- MODULE PpNamedProofs -----------------------------
(* Proofs about the named variables of pp_base: the hash table is a set of    *)
(* objects, and the listing meets every variable once, in order, and frees    *)
(* none, for any number of them.                                              *)
EXTENDS MCPpNamed, FiniteSetTheorems, SequenceTheorems, WellFoundedInduction, TLAPS

-----------------------------------------------------------------------------
(* Numbers and loops.                                                        *)

(* A number that is not as it should be has a first one before it: this is *)
(* induction in a form the provers can be given.                           *)
LEMMA LeastNumber ==
  ASSUME NEW T \in SUBSET Nat, T # {}
  PROVE  \E x \in T : \A y \in T : x <= y
<1>1. PICK x \in T : \A y \in T : ~(<<y, x>> \in OpToRel(<, Nat))
  BY NatLessThanWellFounded, WFMin
<1>2. ASSUME NEW y \in T PROVE ~(y < x)
  BY <1>1, <1>2 DEF OpToRel
<1> QED BY <1>2

Turns(n, S) == [(1..n) \X S -> S]
Runs(loop, n, S, start, turn) ==
  /\ loop \in [0..n -> S] /\ loop[0] = start
  /\ \A k \in 1..n : loop[k] = turn[<<k, loop[k - 1]>>]

(* A loop whose every turn makes a state of the one before it has a state   *)
(* after each turn.                                                         *)
LEMMA LoopRuns ==
  ASSUME NEW n \in Nat, NEW S, NEW start \in S, NEW turn \in Turns(n, S)
  PROVE  \E loop : Runs(loop, n, S, start, turn)
<1> DEFINE Run(m, f) == f \in [0..m -> S] /\ f[0] = start
                        /\ \A k \in 1..m : f[k] = turn[<<k, f[k - 1]>>]
<1>1. PICK T : T = {m \in 0..n : ~\E f : Run(m, f)}
  OBVIOUS
<1>2. T = {}
  <2> SUFFICES ASSUME T # {} PROVE FALSE
    OBVIOUS
  <2>1. PICK m \in T : \A l \in T : m <= l
    <3>1. T \in SUBSET Nat
      BY <1>1
    <3> QED BY <3>1, LeastNumber
  <2>2. m \in 0..n /\ ~\E f : Run(m, f)
    BY <1>1
  <2>3. CASE m = 0
    <3>1. PICK f : f = [k \in 0..0 |-> start]
      OBVIOUS
    <3>2. Run(0, f)
      BY <3>1
    <3> QED BY <2>2, <2>3, <3>2
  <2>4. CASE m # 0
    <3>1. m - 1 \in 0..n /\ m - 1 \notin T
      BY <2>1, <2>2, <2>4
    <3>2. PICK f : Run(m - 1, f)
      BY <1>1, <3>1
    <3>3. f[m - 1] \in S /\ m \in 1..n
      BY <2>2, <2>4, <3>2
    <3>4. PICK x \in S : x = turn[<<m, f[m - 1]>>]
      BY <3>3 DEF Turns
    <3>5. PICK g : g = [k \in 0..m |-> IF k = m THEN x ELSE f[k]]
      OBVIOUS
    <3>6. \A k \in 0..(m - 1) : g[k] = f[k]
      BY <2>2, <3>5
    <3>7. g[m] = x
      BY <2>2, <3>5
    <3>8. g \in [0..m -> S]
      BY <2>2, <3>2, <3>5
    <3>9. g[0] = start
      BY <2>2, <2>4, <3>2, <3>6
    <3>10. ASSUME NEW k \in 1..m PROVE g[k] = turn[<<k, g[k - 1]>>]
      <4>1. k - 1 \in 0..(m - 1) /\ g[k - 1] = f[k - 1]
        BY <2>2, <3>6, <3>10
      <4>2. CASE k = m
        BY <3>4, <3>7, <4>1, <4>2
      <4>3. CASE k # m
        <5>1. k \in 1..(m - 1) /\ g[k] = f[k]
          BY <2>2, <3>6, <4>3
        <5> QED BY <3>2, <4>1, <5>1
      <4> QED BY <4>2, <4>3
    <3>11. Run(m, g)
      BY <3>8, <3>9, <3>10
    <3> QED BY <2>2, <3>11
  <2> QED BY <2>3, <2>4
<1>3. PICK f : Run(n, f)
  <2>1. n \in 0..n /\ n \notin T
    BY <1>2
  <2> QED BY <1>1, <2>1
<1> QED BY <1>3 DEF Runs

-----------------------------------------------------------------------------
(* The heap.                                                                 *)

LEMMA Halves ==
  ASSUME NEW i \in Nat
  PROVE  i \div 2 \in Nat /\ 2 * (i \div 2) <= i /\ i <= 2 * (i \div 2) + 1
OBVIOUS

Heaps(n) == {g \in [1..n -> Names] : \A i, j \in 1..n : g[i] = g[j] => i = j}

Loops(n) == [heap : Heaps(n), at : 1..n]

(* Every object comes no earlier than its parent.                           *)
InHeap(g, n) == \A i \in 2..n : g[i \div 2] <= g[i]

Same(g, h, n) == {g[i] : i \in 1..n} = {h[i] : i \in 1..n}

LEMMA ExchangedIsHeap ==
  ASSUME NEW n \in Nat, NEW g \in Heaps(n), NEW i \in 1..n, NEW j \in 1..n
  PROVE  /\ List!Exchanged(g, i, j) \in Heaps(n)
         /\ Same(List!Exchanged(g, i, j), g, n)
         /\ \A k \in 1..n : List!Exchanged(g, i, j)[k] =
              IF k = i THEN g[j] ELSE IF k = j THEN g[i] ELSE g[k]
<1>1. PICK x : x = List!Exchanged(g, i, j)
  OBVIOUS
<1>2. g \in [1..n -> Names] /\ \A k, l \in 1..n : g[k] = g[l] => k = l
  BY DEF Heaps
<1>3. x \in [1..n -> Names]
  BY <1>1, <1>2 DEF List!Exchanged
<1>4. \A k \in 1..n : x[k] = IF k = i THEN g[j] ELSE IF k = j THEN g[i] ELSE g[k]
  BY <1>1, <1>2 DEF List!Exchanged
<1>5. \A k, l \in 1..n : x[k] = x[l] => k = l
  BY <1>2, <1>4
<1>6. ASSUME NEW k \in 1..n PROVE (\E l \in 1..n : g[l] = x[k]) /\ (\E l \in 1..n : x[l] = g[k])
  BY <1>4
<1>7. Same(x, g, n)
  BY <1>6 DEF Same
<1> QED BY <1>1, <1>3, <1>4, <1>5, <1>7 DEF Heaps

(* One turn of the loop of pp_pqueue_upheap.                                *)
Stays(s) == s.at \div 2 = 0 \/ List!Cmp(s.heap[s.at \div 2], s.heap[s.at]) > 0
Rise(s) ==
  IF Stays(s) THEN s
  ELSE [heap |-> List!Exchanged(s.heap, s.at, s.at \div 2), at |-> s.at \div 2]

(* What is out of order is only what rises, and its children come after its  *)
(* parent.                                                                   *)
Rising(s, n) ==
  /\ \A i \in 2..n : i # s.at => s.heap[i \div 2] <= s.heap[i]
  /\ \A i \in 2..n : i \div 2 = s.at /\ s.at # 1 => s.heap[s.at \div 2] <= s.heap[i]

LEMMA RiseKeeps ==
  ASSUME NEW n \in Nat, NEW s \in Loops(n)
  PROVE  /\ Rise(s) \in Loops(n)
         /\ Same(Rise(s).heap, s.heap, n)
         /\ Rising(s, n) => Rising(Rise(s), n)
         /\ Rising(s, n) /\ Stays(s) => InHeap(s.heap, n)
         /\ ~Stays(s) => Rise(s).at < s.at
<1>1. /\ s.heap \in Heaps(n) /\ s.at \in 1..n
      /\ \A i \in 1..n : s.heap[i] \in Nat
  BY NamesAssumption DEF Loops, Heaps, List!NamesAssumption
<1>2. PICK g \in Heaps(n), at \in 1..n, p \in Nat : g = s.heap /\ at = s.at /\ p = s.at \div 2
  BY <1>1, Halves
<1>3. 2 * p <= at /\ at <= 2 * p + 1
  BY <1>2, Halves
<1>4. CASE Stays(s)
  <2>1. p = 0 \/ g[at] > g[p]
    <3>1. p # 0 => p \in 1..n
      BY <1>2, <1>3
    <3> QED BY <1>1, <1>2, <1>4, <3>1 DEF Stays, List!Cmp
  <2>2. ASSUME Rising(s, n) PROVE InHeap(g, n)
    <3> SUFFICES ASSUME NEW i \in 2..n PROVE g[i \div 2] <= g[i]
      BY DEF InHeap
    <3>1. CASE i # at
      BY <1>2, <2>2, <3>1 DEF Rising
    <3>2. CASE i = at
      <4>1. p # 0 /\ p \in 1..n /\ i \div 2 = p
        BY <1>2, <1>3, <3>2
      <4> QED BY <1>1, <1>2, <2>1, <3>2, <4>1
    <3> QED BY <3>1, <3>2
  <2> QED BY <1>2, <1>4, <2>2 DEF Rise, Same
<1>5. CASE ~Stays(s)
  <2>1. p \in 1..n /\ p < at /\ ~(g[at] > g[p])
    BY <1>1, <1>2, <1>3, <1>5 DEF Stays, List!Cmp
  <2>2. PICK x : x = List!Exchanged(g, at, p)
    OBVIOUS
  <2>3. /\ x \in Heaps(n) /\ Same(x, g, n)
        /\ \A k \in 1..n : x[k] = IF k = at THEN g[p] ELSE IF k = p THEN g[at] ELSE g[k]
    BY <2>1, <2>2, ExchangedIsHeap
  <2>4. Rise(s) = [heap |-> x, at |-> p]
    BY <1>2, <1>5, <2>2 DEF Rise
  <2>5. \A k \in 1..n : g[k] \in Nat
    BY <1>1, <1>2
  <2>6. g[at] <= g[p]
    BY <2>1, <2>5
  <2>7. ASSUME Rising(s, n) PROVE Rising(Rise(s), n)
    <3>1. \A i \in 2..n : i # at => g[i \div 2] <= g[i]
      BY <1>2, <2>7 DEF Rising
    <3>2. \A i \in 2..n : i \div 2 = at /\ at # 1 => g[p] <= g[i]
      BY <1>2, <2>7 DEF Rising
    <3>3. ASSUME NEW i \in 2..n, i # p PROVE x[i \div 2] <= x[i]
      <4>1. PICK q \in Nat : q = i \div 2
        BY Halves
      <4>2. 2 * q <= i /\ i <= 2 * q + 1 /\ q \in 1..n /\ i \in 1..n
        BY <4>1, Halves
      <4>3. CASE i = at
        <5>1. q = p
          BY <1>2, <4>1, <4>3
        <5> QED BY <2>1, <2>3, <2>6, <4>1, <4>2, <4>3, <5>1
      <4>4. CASE i # at
        <5>1. g[q] <= g[i]
          BY <3>1, <4>1, <4>4
        <5>2. x[i] = g[i]
          BY <2>3, <3>3, <4>2, <4>4
        <5>3. CASE q = at
          <6>1. g[p] <= g[i]
            BY <2>1, <3>2, <4>1, <5>3
          <6> QED BY <2>3, <4>1, <4>2, <5>2, <5>3, <6>1
        <5>4. CASE q = p
          <6>1. g[at] <= g[i]
            BY <2>1, <2>5, <2>6, <4>2, <5>1, <5>4
          <6> QED BY <2>1, <2>3, <4>1, <4>2, <5>2, <5>4, <6>1
        <5>5. CASE q # at /\ q # p
          BY <2>3, <4>1, <4>2, <5>1, <5>2, <5>5
        <5> QED BY <5>3, <5>4, <5>5
      <4> QED BY <4>3, <4>4
    <3>4. ASSUME NEW i \in 2..n, i \div 2 = p, p # 1 PROVE x[p \div 2] <= x[i]
      <4>1. PICK q \in Nat : q = p \div 2
        BY Halves
      <4>2. 2 * q <= p /\ p <= 2 * q + 1 /\ q \in 1..n /\ q # p /\ q # at /\ i \in 1..n /\ p \in 2..n
        BY <2>1, <3>4, <4>1, Halves
      <4>3. x[q] = g[q]
        BY <2>3, <4>2
      <4>4. g[q] <= g[p]
        BY <2>1, <3>1, <4>1, <4>2
      <4>5. i # p
        BY <2>1, <3>4, Halves
      <4>6. CASE i = at
        BY <2>3, <4>1, <4>2, <4>3, <4>4, <4>6
      <4>7. CASE i # at
        <5>1. g[p] <= g[i] /\ x[i] = g[i]
          BY <2>3, <3>1, <3>4, <4>2, <4>5, <4>7
        <5> QED BY <2>1, <2>5, <4>1, <4>2, <4>3, <4>4, <5>1
      <4> QED BY <4>6, <4>7
    <3> QED BY <2>4, <3>3, <3>4 DEF Rising
  <2> QED BY <1>2, <1>5, <2>1, <2>3, <2>4, <2>7 DEF Loops
<1> QED BY <1>2, <1>4, <1>5

LEMMA SameThrough ==
  ASSUME NEW n, NEW a, NEW b, NEW c, Same(a, b, n), Same(b, c, n)
  PROVE  Same(a, c, n)
BY DEF Same

(* The object that was appended ends where it is in order.                  *)
LEMMA UpHeapOrders ==
  ASSUME NEW n \in Nat \ {0}, NEW h \in Heaps(n), Len(h) = n,
         \A i \in 2..(n - 1) : h[i \div 2] <= h[i]
  PROVE  /\ List!UpHeap(h) \in Heaps(n)
         /\ InHeap(List!UpHeap(h), n)
         /\ Same(List!UpHeap(h), h, n)
<1>1. PICK start : start = [heap |-> h, at |-> n]
  OBVIOUS
<1>2. start \in Loops(n) /\ start.heap = h /\ start.at = n
  BY <1>1 DEF Loops
<1>3. PICK turn : turn = [x \in (1..n) \X Loops(n) |-> Rise(x[2])]
  OBVIOUS
<1>4. turn \in [(1..n) \X Loops(n) -> Loops(n)]
  <2> SUFFICES ASSUME NEW x \in (1..n) \X Loops(n) PROVE Rise(x[2]) \in Loops(n)
    BY <1>3
  <2> QED BY RiseKeeps
<1>5. PICK f \in [0..n -> Loops(n)] :
        /\ f[0] = start
        /\ \A k \in 1..n : f[k] = turn[<<k, f[k - 1]>>]
  <2>1. PICK S : S = Loops(n)
    OBVIOUS
  <2>2. start \in S /\ turn \in Turns(n, S) /\ n \in Nat
    BY <1>2, <1>4, <2>1 DEF Turns
  <2>3. \E f : Runs(f, n, S, start, turn)
    BY <2>2, LoopRuns
  <2> QED BY <2>1, <2>3 DEF Runs
<1>6. PICK loop : loop = CHOOSE g : g = [k \in 0..n |->
        IF k = 0 THEN [heap |-> h, at |-> n]
        ELSE IF g[k - 1].at \div 2 = 0
                \/ List!Cmp(g[k - 1].heap[g[k - 1].at \div 2], g[k - 1].heap[g[k - 1].at]) > 0
             THEN g[k - 1]
             ELSE [heap |-> List!Exchanged(g[k - 1].heap, g[k - 1].at, g[k - 1].at \div 2),
                   at |-> g[k - 1].at \div 2]]
  OBVIOUS
<1>7. loop = CHOOSE g : g = [k \in 0..n |-> IF k = 0 THEN start ELSE Rise(g[k - 1])]
  BY <1>1, <1>6 DEF Rise, Stays
<1>8. List!UpHeap(h) = loop[n].heap
  BY <1>6 DEF List!UpHeap
<1>9. loop = [k \in 0..n |-> IF k = 0 THEN start ELSE Rise(loop[k - 1])]
  <2>1. ASSUME NEW k \in 1..n PROVE turn[<<k, f[k - 1]>>] = Rise(f[k - 1])
    <3>1. f[k - 1] \in Loops(n)
      OBVIOUS
    <3> QED BY <1>3, <3>1
  <2>2. PICK g : g = [k \in 0..n |-> IF k = 0 THEN start ELSE Rise(f[k - 1])]
    OBVIOUS
  <2>3. ASSUME NEW k \in 0..n PROVE g[k] = f[k]
    <3>1. k # 0 => k \in 1..n
      OBVIOUS
    <3> QED BY <1>5, <2>1, <2>2, <3>1
  <2>4. f = g
    BY <1>5, <2>2, <2>3
  <2> QED BY <1>7, <2>2, <2>4
<1>10. loop[0] = start /\ \A k \in 1..n : loop[k] = Rise(loop[k - 1])
  BY <1>9
<1> DEFINE Good(k) == /\ loop[k] \in Loops(n) /\ Rising(loop[k], n) /\ Same(loop[k].heap, h, n)
                      /\ Stays(loop[k]) \/ loop[k].at + k <= n
<1>11. Good(0)
  <2>1. Rising(start, n)
    <3>1. ASSUME NEW i \in 2..n, i # n PROVE h[i \div 2] <= h[i]
      BY <3>1
    <3>2. ASSUME NEW i \in 2..n PROVE i \div 2 # n
      BY Halves
    <3> QED BY <1>2, <3>1, <3>2 DEF Rising
  <2> QED BY <1>2, <1>10, <2>1 DEF Same
<1>12. ASSUME NEW k \in 1..n, Good(k - 1) PROVE Good(k)
  <2>1. PICK s \in Loops(n) : s = loop[k - 1]
    BY <1>12
  <2>2. loop[k] = Rise(s)
    BY <1>10, <2>1
  <2>3. Rise(s) \in Loops(n) /\ Rising(Rise(s), n) /\ Same(Rise(s).heap, s.heap, n)
        /\ (~Stays(s) => Rise(s).at < s.at)
    BY <1>12, <2>1, RiseKeeps
  <2>4. Same(Rise(s).heap, h, n)
    BY <1>12, <2>1, <2>3, SameThrough
  <2>5. Stays(Rise(s)) \/ Rise(s).at + k <= n
    <3>1. CASE Stays(s)
      BY <3>1 DEF Rise
    <3>2. CASE ~Stays(s)
      <4>1. s.at \in Nat /\ Rise(s).at \in Nat
        <5>1. \A r \in Loops(n) : r.at \in Nat
          BY DEF Loops
        <5> QED BY <2>3, <5>1
      <4>2. s.at + (k - 1) <= n
        BY <1>12, <2>1, <3>2
      <4> QED BY <2>3, <3>2, <4>1, <4>2
    <3> QED BY <3>1, <3>2
  <2> QED BY <2>2, <2>3, <2>4, <2>5
<1>13. PICK T : T = {k \in 0..n : ~Good(k)}
  OBVIOUS
<1>14. T = {}
  <2> SUFFICES ASSUME T # {} PROVE FALSE
    OBVIOUS
  <2>1. PICK k \in T : \A l \in T : k <= l
    <3>1. T \in SUBSET Nat
      BY <1>13
    <3> QED BY <3>1, LeastNumber
  <2>2. k \in 0..n /\ ~Good(k)
    BY <1>13, <2>1
  <2>3. k # 0
    BY <1>11, <2>2
  <2>4. k \in 1..n /\ k - 1 \in 0..n /\ k - 1 \notin T
    BY <2>1, <2>2, <2>3
  <2>5. Good(k - 1)
    BY <1>13, <2>4
  <2> QED BY <1>12, <2>2, <2>4, <2>5
<1>15. Good(n)
  <2>1. n \in 0..n /\ n \notin T
    BY <1>14
  <2> QED BY <1>13, <2>1
<1>16. Stays(loop[n])
  <2>1. loop[n].at \in 1..n
    BY <1>15 DEF Loops
  <2> QED BY <1>15, <2>1
<1>17. InHeap(loop[n].heap, n)
  BY <1>15, <1>16, RiseKeeps
<1> QED BY <1>8, <1>15, <1>17 DEF Loops

(* One turn of the loop of pp_pqueue_downheap.                              *)
Better(s, n) ==
  IF 2 * s.at < n /\ List!Cmp(s.heap[2 * s.at], s.heap[2 * s.at + 1]) < 0
  THEN 2 * s.at + 1 ELSE 2 * s.at
Settled(s, n) == s.at > n \div 2 \/ List!Cmp(s.heap[s.at], s.heap[Better(s, n)]) >= 0
Sink(s, n) ==
  IF Settled(s, n) THEN s
  ELSE [heap |-> List!Exchanged(s.heap, s.at, Better(s, n)), at |-> Better(s, n)]

(* What is out of order is only what sinks, and its children come after its  *)
(* parent.                                                                   *)
Sinking(s, n) ==
  /\ \A i \in 2..n : i \div 2 # s.at => s.heap[i \div 2] <= s.heap[i]
  /\ \A i \in 2..n : i \div 2 = s.at /\ s.at # 1 => s.heap[s.at \div 2] <= s.heap[i]

LEMMA BetterChild ==
  ASSUME NEW n \in Nat, NEW s \in Loops(n), ~(s.at > n \div 2)
  PROVE  /\ Better(s, n) \in 2..n /\ Better(s, n) \div 2 = s.at
         /\ \A i \in 2..n : i \div 2 = s.at => s.heap[Better(s, n)] <= s.heap[i]
<1>1. /\ s.heap \in Heaps(n) /\ s.at \in 1..n
      /\ \A i \in 1..n : s.heap[i] \in Nat
  BY NamesAssumption DEF Loops, Heaps, List!NamesAssumption
<1>2. PICK g \in Heaps(n), at \in 1..n, b \in {2 * s.at, 2 * s.at + 1} :
        g = s.heap /\ at = s.at /\ b = Better(s, n)
  BY <1>1 DEF Better
<1>3. 2 * at \in 2..n
  <2>1. n \div 2 \in Nat /\ 2 * (n \div 2) <= n /\ at <= n \div 2
    BY <1>2, Halves
  <2> QED BY <2>1
<1>4. b = IF 2 * at < n /\ g[2 * at + 1] - g[2 * at] < 0 THEN 2 * at + 1 ELSE 2 * at
  BY <1>2 DEF Better, List!Cmp
<1>5. b \in 2..n
  BY <1>3, <1>4
<1>6. (2 * at) \div 2 = at /\ (2 * at + 1) \div 2 = at
  OBVIOUS
<1>7. ASSUME NEW i \in 2..n, i \div 2 = at PROVE g[b] <= g[i]
  <2>1. i = 2 * at \/ (i = 2 * at + 1 /\ 2 * at < n)
    BY <1>7, Halves
  <2>2. g[2 * at] \in Nat /\ g[i] \in Nat
    BY <1>1, <1>2, <1>3
  <2>3. 2 * at < n => g[2 * at + 1] \in Nat
    BY <1>1, <1>2
  <2>4. CASE i = 2 * at
    BY <1>4, <2>2, <2>3, <2>4
  <2>5. CASE i = 2 * at + 1 /\ 2 * at < n
    BY <1>4, <2>2, <2>3, <2>5
  <2> QED BY <2>1, <2>4, <2>5
<1> QED BY <1>2, <1>5, <1>6, <1>7

LEMMA SinkKeeps ==
  ASSUME NEW n \in Nat, NEW s \in Loops(n)
  PROVE  /\ Sink(s, n) \in Loops(n)
         /\ Same(Sink(s, n).heap, s.heap, n)
         /\ Sinking(s, n) => Sinking(Sink(s, n), n)
         /\ Sinking(s, n) /\ Settled(s, n) => InHeap(s.heap, n)
         /\ ~Settled(s, n) => Sink(s, n).at > s.at
<1>1. /\ s.heap \in Heaps(n) /\ s.at \in 1..n
      /\ \A i \in 1..n : s.heap[i] \in Nat
  BY NamesAssumption DEF Loops, Heaps, List!NamesAssumption
<1>2. PICK g \in Heaps(n), at \in 1..n, b \in {Better(s, n)} : g = s.heap /\ at = s.at
  BY <1>1
<1>3. \A k \in 1..n : g[k] \in Nat
  BY <1>1, <1>2
<1>4. CASE Settled(s, n)
  <2>1. ASSUME Sinking(s, n) PROVE InHeap(g, n)
    <3> SUFFICES ASSUME NEW i \in 2..n PROVE g[i \div 2] <= g[i]
      BY DEF InHeap
    <3>1. CASE i \div 2 # at
      BY <1>2, <2>1, <3>1 DEF Sinking
    <3>2. CASE i \div 2 = at
      <4>1. ~(s.at > n \div 2)
        BY <1>2, <3>2, Halves
      <4>2. b \in 2..n /\ g[b] <= g[i]
        BY <1>2, <3>2, <4>1, BetterChild
      <4>3. g[b] - g[at] >= 0
        BY <1>2, <1>4, <4>1 DEF Settled, List!Cmp
      <4>4. g[b] \in Nat /\ g[at] \in Nat /\ g[i] \in Nat
        BY <1>3, <4>2
      <4> QED BY <3>2, <4>2, <4>3, <4>4
    <3> QED BY <3>1, <3>2
  <2> QED BY <1>2, <1>4, <2>1 DEF Sink, Same
<1>5. CASE ~Settled(s, n)
  <2>1. /\ b \in 2..n /\ b \div 2 = at /\ \A i \in 2..n : i \div 2 = at => g[b] <= g[i]
    BY <1>2, <1>5, BetterChild DEF Settled
  <2>2. b > at /\ b \in 1..n
    BY <2>1, Halves
  <2>3. g[b] <= g[at]
    <3>1. ~(g[b] - g[at] >= 0)
      BY <1>2, <1>5 DEF Settled, List!Cmp
    <3> QED BY <1>3, <2>2, <3>1
  <2>4. PICK x : x = List!Exchanged(g, at, b)
    OBVIOUS
  <2>5. /\ x \in Heaps(n) /\ Same(x, g, n)
        /\ \A k \in 1..n : x[k] = IF k = at THEN g[b] ELSE IF k = b THEN g[at] ELSE g[k]
    BY <2>2, <2>4, ExchangedIsHeap
  <2>6. Sink(s, n) = [heap |-> x, at |-> b]
    BY <1>2, <1>5, <2>4 DEF Sink
  <2>7. ASSUME Sinking(s, n) PROVE Sinking(Sink(s, n), n)
    <3>1. \A i \in 2..n : i \div 2 # at => g[i \div 2] <= g[i]
      BY <1>2, <2>7 DEF Sinking
    <3>2. \A i \in 2..n : i \div 2 = at /\ at # 1 => g[at \div 2] <= g[i]
      BY <1>2, <2>7 DEF Sinking
    <3>3. ASSUME NEW i \in 2..n, i \div 2 # b PROVE x[i \div 2] <= x[i]
      <4>1. PICK q \in Nat : q = i \div 2
        BY Halves
      <4>2. q \in 1..n /\ i \in 1..n /\ q < i
        BY <4>1, Halves
      <4>3. CASE q = at
        <5>1. g[b] <= g[i] /\ i # at /\ x[q] = g[b]
          BY <2>1, <2>5, <4>1, <4>2, <4>3
        <5>2. x[i] = g[at] \/ x[i] = g[i]
          BY <2>5, <4>2, <5>1
        <5> QED BY <2>3, <4>1, <5>1, <5>2
      <4>4. CASE q # at
        <5>1. x[q] = g[q] /\ i # b /\ g[q] <= g[i]
          BY <2>1, <2>5, <3>1, <3>3, <4>1, <4>2, <4>4
        <5>2. CASE i = at
          <6>1. at # 1 /\ at \div 2 = q
            BY <4>1, <5>2
          <6>2. g[q] <= g[b]
            BY <2>1, <3>2, <6>1
          <6> QED BY <2>5, <4>1, <4>2, <5>1, <5>2, <6>2
        <5>3. CASE i # at
          BY <2>5, <4>1, <4>2, <5>1, <5>3
        <5> QED BY <5>2, <5>3
      <4> QED BY <4>3, <4>4
    <3>4. ASSUME NEW i \in 2..n, i \div 2 = b PROVE x[b \div 2] <= x[i]
      <4>1. i # at /\ i # b /\ i \in 1..n
        BY <2>2, <3>4, Halves
      <4>2. x[b \div 2] = g[b] /\ x[i] = g[i]
        BY <2>1, <2>5, <4>1
      <4>3. g[b] <= g[i]
        BY <2>2, <3>1, <3>4
      <4> QED BY <4>2, <4>3
    <3> QED BY <2>6, <3>3, <3>4 DEF Sinking
  <2> QED BY <1>2, <1>5, <2>2, <2>5, <2>6, <2>7 DEF Loops
<1> QED BY <1>2, <1>4, <1>5

(* The object that was put on top ends where it is in order.                *)
LEMMA DownHeapOrders ==
  ASSUME NEW n \in Nat \ {0}, NEW h \in Heaps(n), Len(h) = n,
         \A i \in 2..n : i \div 2 # 1 => h[i \div 2] <= h[i]
  PROVE  /\ List!DownHeap(h) \in Heaps(n)
         /\ InHeap(List!DownHeap(h), n)
         /\ Same(List!DownHeap(h), h, n)
<1>1. PICK start : start = [heap |-> h, at |-> 1]
  OBVIOUS
<1>2. start \in Loops(n) /\ start.heap = h /\ start.at = 1
  BY <1>1 DEF Loops
<1>3. PICK turn : turn = [x \in (1..n) \X Loops(n) |-> Sink(x[2], n)]
  OBVIOUS
<1>4. turn \in [(1..n) \X Loops(n) -> Loops(n)]
  <2> SUFFICES ASSUME NEW x \in (1..n) \X Loops(n) PROVE Sink(x[2], n) \in Loops(n)
    BY <1>3
  <2> QED BY SinkKeeps
<1>5. PICK f \in [0..n -> Loops(n)] :
        /\ f[0] = start
        /\ \A k \in 1..n : f[k] = turn[<<k, f[k - 1]>>]
  <2>1. PICK S : S = Loops(n)
    OBVIOUS
  <2>2. start \in S /\ turn \in Turns(n, S) /\ n \in Nat
    BY <1>2, <1>4, <2>1 DEF Turns
  <2>3. \E f : Runs(f, n, S, start, turn)
    BY <2>2, LoopRuns
  <2> QED BY <2>1, <2>3 DEF Runs
<1>6. PICK loop : loop = CHOOSE g : g = [k \in 0..n |->
        IF k = 0 THEN [heap |-> h, at |-> 1]
        ELSE LET t     == g[k - 1]
                 left  == 2 * t.at
                 child == IF left < n /\ List!Cmp(t.heap[left], t.heap[left + 1]) < 0
                          THEN left + 1 ELSE left
             IN  IF t.at > n \div 2 \/ List!Cmp(t.heap[t.at], t.heap[child]) >= 0 THEN t
                 ELSE [heap |-> List!Exchanged(t.heap, t.at, child), at |-> child]]
  OBVIOUS
<1>7. loop = CHOOSE g : g = [k \in 0..n |-> IF k = 0 THEN start ELSE Sink(g[k - 1], n)]
  BY <1>1, <1>6 DEF Sink, Settled, Better
<1>8. List!DownHeap(h) = loop[n].heap
  BY <1>6 DEF List!DownHeap
<1>9. loop = [k \in 0..n |-> IF k = 0 THEN start ELSE Sink(loop[k - 1], n)]
  <2>1. ASSUME NEW k \in 1..n PROVE turn[<<k, f[k - 1]>>] = Sink(f[k - 1], n)
    <3>1. f[k - 1] \in Loops(n)
      OBVIOUS
    <3> QED BY <1>3, <3>1
  <2>2. PICK g : g = [k \in 0..n |-> IF k = 0 THEN start ELSE Sink(f[k - 1], n)]
    OBVIOUS
  <2>3. ASSUME NEW k \in 0..n PROVE g[k] = f[k]
    <3>1. k # 0 => k \in 1..n
      OBVIOUS
    <3> QED BY <1>5, <2>1, <2>2, <3>1
  <2>4. f = g
    BY <1>5, <2>2, <2>3
  <2> QED BY <1>7, <2>2, <2>4
<1>10. loop[0] = start /\ \A k \in 1..n : loop[k] = Sink(loop[k - 1], n)
  BY <1>9
<1> DEFINE Good(k) == /\ loop[k] \in Loops(n) /\ Sinking(loop[k], n) /\ Same(loop[k].heap, h, n)
                      /\ Settled(loop[k], n) \/ loop[k].at >= k + 1
<1>11. Good(0)
  <2>1. Sinking(start, n)
    <3> QED BY <1>2 DEF Sinking
  <2> QED BY <1>2, <1>10, <2>1 DEF Same
<1>12. ASSUME NEW k \in 1..n, Good(k - 1) PROVE Good(k)
  <2>1. PICK s \in Loops(n) : s = loop[k - 1]
    BY <1>12
  <2>2. loop[k] = Sink(s, n)
    BY <1>10, <2>1
  <2>3. Sink(s, n) \in Loops(n) /\ Sinking(Sink(s, n), n) /\ Same(Sink(s, n).heap, s.heap, n)
        /\ (~Settled(s, n) => Sink(s, n).at > s.at)
    BY <1>12, <2>1, SinkKeeps
  <2>4. Same(Sink(s, n).heap, h, n)
    BY <1>12, <2>1, <2>3, SameThrough
  <2>5. Settled(Sink(s, n), n) \/ Sink(s, n).at >= k + 1
    <3>1. CASE Settled(s, n)
      BY <3>1 DEF Sink
    <3>2. CASE ~Settled(s, n)
      <4>1. s.at \in Nat /\ Sink(s, n).at \in Nat
        <5>1. \A r \in Loops(n) : r.at \in Nat
          BY DEF Loops
        <5> QED BY <2>3, <5>1
      <4>2. s.at >= k
        BY <1>12, <2>1, <3>2
      <4> QED BY <2>3, <3>2, <4>1, <4>2
    <3> QED BY <3>1, <3>2
  <2> QED BY <2>2, <2>3, <2>4, <2>5
<1>13. PICK T : T = {k \in 0..n : ~Good(k)}
  OBVIOUS
<1>14. T = {}
  <2> SUFFICES ASSUME T # {} PROVE FALSE
    OBVIOUS
  <2>1. PICK k \in T : \A l \in T : k <= l
    <3>1. T \in SUBSET Nat
      BY <1>13
    <3> QED BY <3>1, LeastNumber
  <2>2. k \in 0..n /\ ~Good(k)
    BY <1>13, <2>1
  <2>3. k # 0
    BY <1>11, <2>2
  <2>4. k \in 1..n /\ k - 1 \in 0..n /\ k - 1 \notin T
    BY <2>1, <2>2, <2>3
  <2>5. Good(k - 1)
    BY <1>13, <2>4
  <2> QED BY <1>12, <2>2, <2>4, <2>5
<1>15. Good(n)
  <2>1. n \in 0..n /\ n \notin T
    BY <1>14
  <2> QED BY <1>13, <2>1
<1>16. Settled(loop[n], n)
  <2>1. loop[n].at \in 1..n
    BY <1>15 DEF Loops
  <2> QED BY <1>15, <2>1
<1>17. InHeap(loop[n].heap, n)
  BY <1>15, <1>16, SinkKeeps
<1> QED BY <1>8, <1>15, <1>17 DEF Loops

LEMMA HeapsAreSequences ==
  ASSUME NEW n \in Nat, NEW g \in Heaps(n)
  PROVE  g \in Seq(Names) /\ Len(g) = n
BY DEF Heaps

(* The first object comes before every other one.                           *)
LEMMA TopIsFirst ==
  ASSUME NEW n \in Nat, NEW g \in Heaps(n), InHeap(g, n), NEW i \in 2..n
  PROVE  g[1] < g[i]
<1>1. /\ \A k \in 1..n : g[k] \in Nat
      /\ \A k, l \in 1..n : g[k] = g[l] => k = l
  BY NamesAssumption DEF Heaps, List!NamesAssumption
<1>2. PICK T : T = {k \in 1..n : ~(g[1] <= g[k])}
  OBVIOUS
<1>3. T = {}
  <2> SUFFICES ASSUME T # {} PROVE FALSE
    OBVIOUS
  <2>1. PICK k \in T : \A l \in T : k <= l
    <3>1. T \in SUBSET Nat
      BY <1>2
    <3> QED BY <3>1, LeastNumber
  <2>2. k \in 2..n /\ ~(g[1] <= g[k])
    BY <1>1, <1>2, <2>1
  <2>3. PICK p \in Nat : p = k \div 2
    BY <2>2, Halves
  <2>4. p \in 1..n /\ p < k
    BY <2>2, <2>3, Halves
  <2>5. p \notin T
    BY <2>1, <2>2, <2>4
  <2>6. g[1] <= g[p] /\ g[p] <= g[k]
    BY <1>2, <2>2, <2>3, <2>4, <2>5 DEF InHeap
  <2>7. g[1] \in Nat /\ g[p] \in Nat /\ g[k] \in Nat
    BY <1>1, <2>2, <2>4
  <2> QED BY <2>2, <2>6, <2>7
<1>4. i \in 1..n /\ 1 \in 1..n /\ i # 1
  OBVIOUS
<1>5. i \notin T /\ g[1] # g[i] /\ g[1] \in Nat /\ g[i] \in Nat
  BY <1>1, <1>3, <1>4
<1>6. g[1] <= g[i]
  BY <1>2, <1>4, <1>5
<1> QED BY <1>5, <1>6

Others(g, h, n) == {g[i] : i \in 1..(n - 1)} = {h[i] : i \in 2..n}

(* pp_pqueue_remove_next takes the first object and leaves the others.      *)
LEMMA TakenOrders ==
  ASSUME NEW n \in Nat \ {0}, NEW h \in Heaps(n), InHeap(h, n)
  PROVE  /\ List!Taken(h) \in Heaps(n - 1)
         /\ InHeap(List!Taken(h), n - 1)
         /\ Others(List!Taken(h), h, n)
<1>1. h \in Seq(Names) /\ Len(h) = n
  BY HeapsAreSequences
<1>2. h \in [1..n -> Names] /\ \A k, l \in 1..n : h[k] = h[l] => k = l
  BY DEF Heaps
<1>3. CASE n = 1
  <2>1. List!Taken(h) = << >>
    BY <1>1, <1>3 DEF List!Taken
  <2>2. List!Taken(h) \in Heaps(n - 1)
    BY <1>3, <2>1 DEF Heaps
  <2> QED BY <1>3, <2>2 DEF InHeap, Others
<1>4. CASE n # 1
  <2>1. PICK m \in Nat \ {0} : m = n - 1
    BY <1>4
  <2>2. PICK f : f = SubSeq([h EXCEPT ![1] = h[n]], 1, m)
    OBVIOUS
  <2>3. List!Taken(h) = List!DownHeap(f)
    <3>1. [h EXCEPT ![1] = h[n]] \in Seq(Names) /\ Len([h EXCEPT ![1] = h[n]]) = n
      BY <1>1, <1>2
    <3> QED BY <1>1, <1>4, <2>1, <2>2, <3>1 DEF List!Taken, List!Front, List!Last
  <2>4. \A i \in 1..m : f[i] = IF i = 1 THEN h[n] ELSE h[i]
    <3>1. [h EXCEPT ![1] = h[n]] \in Seq(Names) /\ Len([h EXCEPT ![1] = h[n]]) = n
      BY <1>1, <1>2
    <3> QED BY <1>1, <1>2, <2>1, <2>2, <3>1
  <2>5. f \in [1..m -> Names] /\ Len(f) = m
    <3>1. [h EXCEPT ![1] = h[n]] \in Seq(Names) /\ Len([h EXCEPT ![1] = h[n]]) = n
      BY <1>1, <1>2
    <3>2. f \in Seq(Names) /\ Len(f) = m
      BY <1>1, <2>1, <2>2, <3>1
    <3> QED BY <3>2
  <2>6. f \in Heaps(m)
    <3>1. ASSUME NEW k \in 1..m, NEW l \in 1..m, f[k] = f[l] PROVE k = l
      BY <1>2, <2>1, <2>4, <3>1
    <3> QED BY <2>5, <3>1 DEF Heaps
  <2>7. ASSUME NEW i \in 2..m, i \div 2 # 1 PROVE f[i \div 2] <= f[i]
    <3>1. i \div 2 \in 2..m /\ i \in 2..n
      BY <2>1, <2>7, Halves
    <3> QED BY <2>4, <3>1 DEF InHeap
  <2>8. /\ List!DownHeap(f) \in Heaps(m)
        /\ InHeap(List!DownHeap(f), m)
        /\ Same(List!DownHeap(f), f, m)
    BY <2>5, <2>6, <2>7, DownHeapOrders
  <2>9. {f[i] : i \in 1..m} = {h[i] : i \in 2..n}
    <3>1. ASSUME NEW i \in 1..m PROVE \E k \in 2..n : h[k] = f[i]
      BY <1>4, <2>1, <2>4
    <3>2. ASSUME NEW k \in 2..n PROVE \E i \in 1..m : h[k] = f[i]
      <4>1. CASE k = n
        BY <2>1, <2>4, <4>1
      <4>2. CASE k # n
        BY <2>1, <2>4, <4>2
      <4> QED BY <4>1, <4>2
    <3> QED BY <3>1, <3>2
  <2> QED BY <2>1, <2>3, <2>8, <2>9 DEF Same, Others
<1> QED BY <1>3, <1>4

(* pp_pqueue_insert adds the object.                                        *)
LEMMA InsertOrders ==
  ASSUME NEW n \in Nat, NEW h \in Heaps(n), InHeap(h, n), NEW o \in Names,
         \A i \in 1..n : h[i] # o
  PROVE  /\ List!UpHeap(Append(h, o)) \in Heaps(n + 1)
         /\ InHeap(List!UpHeap(Append(h, o)), n + 1)
         /\ {List!UpHeap(Append(h, o))[i] : i \in 1..(n + 1)} = {h[i] : i \in 1..n} \cup {o}
<1>1. h \in Seq(Names) /\ Len(h) = n
  BY HeapsAreSequences
<1>2. h \in [1..n -> Names] /\ \A k, l \in 1..n : h[k] = h[l] => k = l
  BY DEF Heaps
<1>3. PICK m \in Nat \ {0} : m = n + 1
  OBVIOUS
<1>4. PICK f : f = Append(h, o)
  OBVIOUS
<1>5. Len(f) = m /\ f \in [1..m -> Names] /\ \A i \in 1..m : f[i] = IF i = m THEN o ELSE h[i]
  <2>1. f \in Seq(Names) /\ Len(f) = m
    BY <1>1, <1>3, <1>4
  <2>2. \A i \in 1..m : f[i] = IF i = m THEN o ELSE h[i]
    BY <1>1, <1>3, <1>4
  <2> QED BY <2>1, <2>2
<1>6. f \in Heaps(m)
  <2>1. ASSUME NEW k \in 1..m, NEW l \in 1..m, f[k] = f[l] PROVE k = l
    BY <1>2, <1>3, <1>5, <2>1
  <2> QED BY <1>5, <2>1 DEF Heaps
<1>7. ASSUME NEW i \in 2..(m - 1) PROVE f[i \div 2] <= f[i]
  <2>1. i \div 2 \in 1..n /\ i \in 2..n
    BY <1>3, Halves
  <2> QED BY <1>3, <1>5, <2>1 DEF InHeap
<1>8. /\ List!UpHeap(f) \in Heaps(m)
      /\ InHeap(List!UpHeap(f), m)
      /\ Same(List!UpHeap(f), f, m)
  BY <1>5, <1>6, <1>7, UpHeapOrders
<1>9. {f[i] : i \in 1..m} = {h[i] : i \in 1..n} \cup {o}
  <2>1. ASSUME NEW i \in 1..m PROVE f[i] \in {h[k] : k \in 1..n} \cup {o}
    BY <1>3, <1>5
  <2>2. ASSUME NEW k \in 1..n PROVE \E i \in 1..m : h[k] = f[i]
    BY <1>3, <1>5
  <2>3. m \in 1..m /\ f[m] = o
    BY <1>5
  <2> QED BY <2>1, <2>2, <2>3
<1> QED BY <1>3, <1>4, <1>8, <1>9 DEF Same

-----------------------------------------------------------------------------
(* The listing.                                                              *)

Queued == {heap[i] : i \in 1..Len(heap)}
Told == {listed[i] : i \in 1..Len(listed)}

ListTypes ==
  /\ refcount \in [Names -> 0..(MaxRefcount + 1)]
  /\ pc \in {"idle", "fill", "drain"}
  /\ todo \subseteq Names /\ dropped \subseteq Names
  /\ capacity \in Nat \ {0}
  /\ heap \in Seq(Names) /\ listed \in Seq(Names)
  /\ Len(heap) <= capacity

(* The queue is a heap, and what was told is sorted and comes before it.     *)
InOrder ==
  /\ heap \in Heaps(Len(heap)) /\ InHeap(heap, Len(heap))
  /\ \A i, j \in 1..Len(listed) : i < j => listed[i] < listed[j]
  /\ \A t \in Told, q \in Queued : t < q

(* While a listing runs every variable is in one of the four places.         *)
InOnePlace ==
  /\ pc = "idle" => todo = {} /\ heap = << >>
  /\ pc = "fill" => listed = << >>
  /\ pc = "drain" => todo = {}
  /\ pc # "idle" => todo \cup Queued \cup Told \cup dropped = List!Existing
  /\ todo \cap Queued = {} /\ todo \cap dropped = {}
  /\ pc # "idle" => Told \cap dropped = {} /\ Queued \cap dropped = {}

(* The queue has a reference of its own to what is in it, and there is room  *)
(* for that of what is not.                                                  *)
Referenced ==
  /\ \A n \in Queued : refcount[n] >= 2
  /\ \A n \in Names \ Queued : refcount[n] <= MaxRefcount

ListInv == ListTypes /\ InOrder /\ InOnePlace /\ Referenced

LEMMA ListingStarts == List!Init => ListInv
<1> SUFFICES ASSUME List!Init PROVE ListInv
  OBVIOUS
<1>1. Len(heap) = 0 /\ Len(listed) = 0 /\ heap = << >> /\ Queued = {} /\ Told = {}
  BY DEF List!Init, Queued, Told
<1>2. ListTypes
  BY CapacityAssumption DEF ListTypes, List!Init, List!CapacityAssumption
<1>3. InOrder
  <2>1. heap \in Heaps(0)
    BY <1>1 DEF Heaps
  <2> QED BY <1>1, <2>1 DEF InOrder, InHeap
<1>4. InOnePlace
  BY <1>1 DEF InOnePlace, List!Init
<1>5. Referenced
  BY <1>1, CapacityAssumption DEF Referenced, List!Init, List!CapacityAssumption
<1> QED BY <1>2, <1>3, <1>4, <1>5 DEF ListInv

LEMMA InsertStep ==
  ASSUME ListInv, NEW n \in Names, List!Insert(n)
  PROVE  ListInv'
<1>1. /\ pc = "fill" /\ n \in todo /\ todo' = todo \ {n}
      /\ refcount' = [refcount EXCEPT ![n] = @ + 1]
      /\ heap' = List!UpHeap(Append(heap, n))
      /\ capacity' = IF List!MustGrow THEN 2 * capacity ELSE capacity
      /\ UNCHANGED <<pc, listed, dropped>>
  BY DEF List!Insert
<1>2. PICK m \in Nat : m = Len(heap)
  BY DEF ListInv, ListTypes
<1>3. heap \in Heaps(m) /\ InHeap(heap, m) /\ \A i \in 1..m : heap[i] # n
  BY <1>1, <1>2 DEF ListInv, InOrder, InOnePlace, Queued
<1>4. /\ heap' \in Heaps(m + 1) /\ InHeap(heap', m + 1)
      /\ {heap'[i] : i \in 1..(m + 1)} = {heap[i] : i \in 1..m} \cup {n}
  BY <1>1, <1>3, InsertOrders
<1>5. heap' \in Seq(Names) /\ Len(heap') = m + 1
  BY <1>2, <1>4, HeapsAreSequences
<1>6. Queued' = Queued \cup {n} /\ Told' = Told /\ n \notin Queued
  BY <1>1, <1>2, <1>3, <1>4, <1>5 DEF Queued, Told
<1>7. refcount[n] \in 0..MaxRefcount /\ refcount[n] > 0 /\ MaxRefcount \in Nat
  <2>1. n \in List!Existing
    BY <1>1 DEF ListInv, InOnePlace
  <2> QED BY <1>6, <2>1, CapacityAssumption
       DEF ListInv, ListTypes, Referenced, List!Existing, List!CapacityAssumption
<1>8. ListTypes'
  <2>1. Len(heap') <= capacity' /\ capacity' \in Nat \ {0}
    BY <1>1, <1>2, <1>5 DEF ListInv, ListTypes, List!MustGrow
  <2>2. refcount' \in [Names -> 0..(MaxRefcount + 1)]
    BY <1>1, <1>7 DEF ListInv, ListTypes
  <2> QED BY <1>1, <1>5, <2>1, <2>2 DEF ListInv, ListTypes
<1>9. InOrder'
  BY <1>1, <1>4, <1>5 DEF ListInv, InOrder, InOnePlace, Told
<1>10. List!Existing' = List!Existing
  BY <1>1, <1>7 DEF List!Existing, ListInv, ListTypes
<1>11. InOnePlace'
  BY <1>1, <1>6, <1>10 DEF ListInv, InOnePlace
<1>12. Referenced'
  BY <1>1, <1>6, <1>7 DEF ListInv, ListTypes, Referenced
<1> QED BY <1>8, <1>9, <1>11, <1>12 DEF ListInv

LEMMA ListNextStep ==
  ASSUME ListInv, List!ListNext
  PROVE  ListInv' /\ List!Existing \subseteq List!Existing'
<1>1. /\ pc = "drain" /\ heap # << >>
      /\ listed' = Append(listed, heap[1])
      /\ refcount' = [refcount EXCEPT ![heap[1]] = @ - 1]
      /\ heap' = List!Taken(heap)
      /\ UNCHANGED <<pc, todo, capacity, dropped>>
  BY DEF List!ListNext
<1>2. PICK m \in Nat \ {0} : m = Len(heap)
  BY <1>1 DEF ListInv, ListTypes
<1>3. heap \in Heaps(m) /\ InHeap(heap, m)
  BY <1>2 DEF ListInv, InOrder
<1>4. /\ heap' \in Heaps(m - 1) /\ InHeap(heap', m - 1)
      /\ {heap'[i] : i \in 1..(m - 1)} = {heap[i] : i \in 2..m}
  <2>1. PICK h, g : h = heap /\ g = List!Taken(h)
    OBVIOUS
  <2>2. h \in Heaps(m) /\ InHeap(h, m)
    BY <1>3, <2>1
  <2>3. g \in Heaps(m - 1) /\ InHeap(g, m - 1) /\ Others(g, h, m)
    BY <2>1, <2>2, TakenOrders
  <2> QED BY <1>1, <2>1, <2>3 DEF Others
<1>5. heap' \in Seq(Names) /\ Len(heap') = m - 1 /\ m - 1 \in Nat
  BY <1>2, <1>4, HeapsAreSequences
<1>6. PICK top \in Names : top = heap[1]
  BY <1>2, <1>3 DEF Heaps
<1>7. Queued' = Queued \ {top} /\ top \in Queued
  <2>1. Queued' = {heap[i] : i \in 2..m}
    BY <1>4, <1>5 DEF Queued
  <2>2. \A i \in 2..m : heap[i] # top
    BY <1>3, <1>6 DEF Heaps
  <2>3. Queued = {heap[i] : i \in 2..m} \cup {top}
    BY <1>2, <1>6 DEF Queued
  <2> QED BY <2>1, <2>2, <2>3
<1>8. Told' = Told \cup {top}
  <2>1. listed \in Seq(Names) /\ listed' = Append(listed, top)
    BY <1>1, <1>6 DEF ListInv, ListTypes
  <2> QED BY <2>1 DEF Told
<1>9. refcount[top] \in 2..(MaxRefcount + 1) /\ MaxRefcount \in Nat
  BY <1>6, <1>7, CapacityAssumption DEF ListInv, ListTypes, Referenced, List!CapacityAssumption
<1>10. List!Existing' = List!Existing
  BY <1>1, <1>6, <1>9 DEF List!Existing, ListInv, ListTypes
<1>11. ListTypes'
  BY <1>1, <1>2, <1>5, <1>6, <1>9 DEF ListInv, ListTypes
<1>12. InOrder'
  <2>1. \A q \in Queued' : top < q
    <3>1. \A i \in 2..m : top < heap[i]
      BY <1>3, <1>6, TopIsFirst
    <3> QED BY <1>4, <1>5, <3>1 DEF Queued
  <2>2. \A t \in Told', q \in Queued' : t < q
    BY <1>7, <1>8, <2>1 DEF ListInv, InOrder
  <2>3. ASSUME NEW i \in 1..Len(listed'), NEW j \in 1..Len(listed'), i < j
        PROVE  listed'[i] < listed'[j]
    <3>1. PICK l \in Nat : l = Len(listed)
      BY DEF ListInv, ListTypes
    <3>2. /\ Len(listed') = l + 1 /\ listed'[l + 1] = top
          /\ \A k \in 1..l : listed'[k] = listed[k]
      BY <1>1, <1>6, <3>1 DEF ListInv, ListTypes
    <3>3. i \in 1..l
      BY <2>3, <3>1, <3>2
    <3>4. CASE j = l + 1
      <4>1. listed[i] \in Told
        BY <3>1, <3>3 DEF Told
      <4> QED BY <1>7, <3>2, <3>3, <3>4, <4>1 DEF ListInv, InOrder
    <3>5. CASE j # l + 1
      <4>1. j \in 1..l
        BY <3>2, <3>5
      <4> QED BY <2>3, <3>1, <3>2, <3>3, <4>1 DEF ListInv, InOrder
    <3> QED BY <3>4, <3>5
  <2> QED BY <1>4, <1>5, <2>2, <2>3 DEF InOrder
<1>13. InOnePlace'
  BY <1>1, <1>7, <1>8, <1>10 DEF ListInv, InOnePlace
<1>14. Referenced'
  BY <1>1, <1>6, <1>7, <1>9 DEF ListInv, ListTypes, Referenced
<1> QED BY <1>10, <1>11, <1>12, <1>13, <1>14 DEF ListInv

(* What a step may do to the variables that exist.                           *)
Kept ==
  \/ List!Existing \subseteq List!Existing'
  \/ pc = "idle" /\ pc' = "idle" /\ \E n \in Names : List!Existing' = List!Existing \ {n}

LEMMA OtherListSteps ==
  ASSUME ListInv, \/ \E n \in Names : List!SetVar(n) \/ List!SetVarFails(n) \/ List!InsertWithoutMemory(n)
                  \/ List!StartListing \/ List!AllInserted \/ List!Listed
                  \/ UNCHANGED List!vars
  PROVE  ListInv' /\ Kept
<1>1. ASSUME NEW n \in Names, List!SetVar(n)
      PROVE  ListInv' /\ List!Existing \subseteq List!Existing'
  <2>1. /\ pc = "idle" /\ refcount' = [refcount EXCEPT ![n] = 1]
        /\ UNCHANGED <<pc, todo, heap, capacity, listed, dropped>>
    BY <1>1 DEF List!SetVar
  <2>2. Queued' = Queued /\ Told' = Told /\ Queued = {} /\ MaxRefcount \in Nat \ {0}
    BY <2>1, CapacityAssumption DEF Queued, Told, ListInv, InOnePlace, List!CapacityAssumption
  <2>3. ListTypes'
    BY <2>1, <2>2 DEF ListInv, ListTypes
  <2>4. InOrder'
    BY <2>1, <2>2 DEF ListInv, InOrder
  <2>5. InOnePlace'
    BY <2>1, <2>2 DEF ListInv, InOnePlace
  <2>6. Referenced'
    BY <2>1, <2>2 DEF ListInv, ListTypes, Referenced
  <2>7. List!Existing \subseteq List!Existing'
    BY <2>1 DEF ListInv, ListTypes, List!Existing
  <2> QED BY <2>3, <2>4, <2>5, <2>6, <2>7 DEF ListInv
<1>2. ASSUME NEW n \in Names, List!InsertWithoutMemory(n)
      PROVE  ListInv' /\ List!Existing \subseteq List!Existing'
  <2>1. /\ pc = "fill" /\ n \in todo /\ refcount[n] < MaxRefcount
        /\ todo' = todo \ {n} /\ dropped' = dropped \cup {n}
        /\ refcount' = [refcount EXCEPT ![n] = @ + 1]
        /\ UNCHANGED <<pc, heap, capacity, listed>>
    BY <1>2 DEF List!InsertWithoutMemory
  <2>2. Queued' = Queued /\ Told' = Told /\ Told = {} /\ n \notin Queued /\ MaxRefcount \in Nat
    BY <2>1, CapacityAssumption DEF Queued, Told, ListInv, InOnePlace, List!CapacityAssumption
  <2>3. refcount[n] > 0 /\ refcount[n] \in Nat
    <3>1. n \in List!Existing
      BY <2>1 DEF ListInv, InOnePlace
    <3> QED BY <3>1 DEF ListInv, ListTypes, List!Existing
  <2>4. List!Existing' = List!Existing
    BY <2>1, <2>3 DEF ListInv, ListTypes, List!Existing
  <2>5. ListTypes'
    BY <2>1, <2>2, <2>3 DEF ListInv, ListTypes
  <2>6. InOrder'
    BY <2>1, <2>2 DEF ListInv, InOrder
  <2>7. InOnePlace'
    BY <2>1, <2>2, <2>4 DEF ListInv, InOnePlace
  <2>8. Referenced'
    BY <2>1, <2>2, <2>3 DEF ListInv, ListTypes, Referenced
  <2> QED BY <2>4, <2>5, <2>6, <2>7, <2>8 DEF ListInv
<1>3. ASSUME List!StartListing
      PROVE  ListInv' /\ List!Existing \subseteq List!Existing'
  <2>1. /\ pc = "idle" /\ pc' = "fill" /\ heap' = << >> /\ listed' = << >>
        /\ todo' \in {List!Existing, {}} /\ dropped' = List!Existing \ todo'
        /\ capacity' = InitialCapacity /\ UNCHANGED refcount
    BY <1>3 DEF List!StartListing
  <2>2. /\ Queued' = {} /\ Told' = {} /\ Queued = {} /\ MaxRefcount \in Nat
        /\ Len(heap') = 0 /\ Len(listed') = 0
    BY <2>1, CapacityAssumption DEF Queued, Told, ListInv, InOnePlace, List!CapacityAssumption
  <2>3. List!Existing' = List!Existing /\ List!Existing \subseteq Names
    BY <2>1 DEF List!Existing
  <2>4. ListTypes'
    BY <2>1, <2>2, <2>3, CapacityAssumption DEF ListInv, ListTypes, List!CapacityAssumption
  <2>5. InOrder'
    <3>1. heap' \in Heaps(0)
      BY <2>1 DEF Heaps
    <3> QED BY <2>1, <2>2, <3>1 DEF InOrder, InHeap
  <2>6. InOnePlace'
    BY <2>1, <2>2, <2>3 DEF ListInv, InOnePlace
  <2>7. Referenced'
    BY <2>1, <2>2 DEF ListInv, ListTypes, Referenced
  <2> QED BY <2>3, <2>4, <2>5, <2>6, <2>7 DEF ListInv
<1>4. ASSUME List!AllInserted \/ List!Listed
      PROVE  ListInv' /\ List!Existing \subseteq List!Existing'
  <2>1. /\ UNCHANGED <<refcount, todo, heap, capacity, listed, dropped>>
        /\ \/ pc = "fill" /\ todo = {} /\ pc' = "drain"
           \/ pc = "drain" /\ heap = << >> /\ pc' = "idle"
    BY <1>4 DEF List!AllInserted, List!Listed
  <2>2. Queued' = Queued /\ Told' = Told /\ List!Existing' = List!Existing
    BY <2>1 DEF Queued, Told, List!Existing
  <2>3. ListTypes' /\ InOrder' /\ Referenced'
    BY <2>1, <2>2 DEF ListInv, ListTypes, InOrder, Referenced
  <2>4. InOnePlace'
    BY <2>1, <2>2 DEF ListInv, InOnePlace
  <2> QED BY <2>2, <2>3, <2>4 DEF ListInv
<1>5. ASSUME UNCHANGED List!vars
      PROVE  ListInv' /\ List!Existing \subseteq List!Existing'
  <2>1. UNCHANGED <<refcount, pc, todo, heap, capacity, listed, dropped>>
    BY <1>5 DEF List!vars
  <2>2. Queued' = Queued /\ Told' = Told /\ List!Existing' = List!Existing
    BY <2>1 DEF Queued, Told, List!Existing
  <2> QED BY <2>1, <2>2 DEF ListInv, ListTypes, InOrder, InOnePlace, Referenced
<1>6. ASSUME NEW n \in Names, List!SetVarFails(n)
      PROVE  ListInv' /\ Kept
  <2>1. /\ pc = "idle" /\ refcount' = [refcount EXCEPT ![n] = 0]
        /\ UNCHANGED <<pc, todo, heap, capacity, listed, dropped>>
    BY <1>6 DEF List!SetVarFails
  <2>2. Queued' = Queued /\ Told' = Told /\ Queued = {} /\ MaxRefcount \in Nat \ {0}
    BY <2>1, CapacityAssumption DEF Queued, Told, ListInv, InOnePlace, List!CapacityAssumption
  <2>3. ListTypes'
    BY <2>1, <2>2 DEF ListInv, ListTypes
  <2>4. InOrder'
    BY <2>1, <2>2 DEF ListInv, InOrder
  <2>5. InOnePlace'
    BY <2>1, <2>2 DEF ListInv, InOnePlace
  <2>6. Referenced'
    BY <2>1, <2>2 DEF ListInv, ListTypes, Referenced
  <2>7. List!Existing' = List!Existing \ {n}
    BY <2>1 DEF ListInv, ListTypes, List!Existing
  <2> QED BY <2>1, <2>3, <2>4, <2>5, <2>6, <2>7 DEF ListInv, Kept
<1> QED BY <1>1, <1>2, <1>3, <1>4, <1>5, <1>6 DEF Kept

LEMMA ListStep ==
  ASSUME ListInv, [List!Next]_List!vars
  PROVE  ListInv' /\ Kept
<1>1. ASSUME NEW n \in Names, List!Insert(n)
      PROVE  ListInv' /\ List!Existing \subseteq List!Existing'
  <2>1. refcount' = [refcount EXCEPT ![n] = @ + 1]
    BY <1>1 DEF List!Insert
  <2>2. List!Existing \subseteq List!Existing'
    BY <2>1 DEF ListInv, ListTypes, List!Existing
  <2> QED BY <1>1, <2>2, InsertStep
<1> QED BY <1>1, ListNextStep, OtherListSteps DEF List!Next, Kept

(* The queue, the names told and the references fit each other at every      *)
(* point of a listing, for any number of names, capacity and failed realloc. *)
THEOREM ListInvariant == List!Spec => []ListInv
<1>1. ListInv /\ [List!Next]_List!vars => ListInv'
  BY ListStep
<1> QED BY ListingStarts, <1>1, PTL DEF List!Spec

(* Any number of variables are listed in the order of their names, each once *)
(* and none left out but for want of memory.                                 *)
THEOREM ListingIsOrdered == List!Spec => []ListedInOrder
<1>1. ListInv => ListedInOrder
  <2> SUFFICES ASSUME ListInv PROVE List!ListedInOrder
    BY DEF ListedInOrder
  <2>1. DOMAIN listed = 1..Len(listed)
    BY DEF ListInv, ListTypes
  <2>2. \A i, j \in DOMAIN listed : i < j => listed[i] < listed[j]
    BY <2>1 DEF ListInv, InOrder
  <2>3. ASSUME pc = "drain", heap = << >>
        PROVE  {listed[i] : i \in DOMAIN listed} = List!Existing \ dropped
    <3>1. Queued = {} /\ todo = {}
      BY <2>3 DEF Queued, ListInv, InOnePlace
    <3>2. Told = List!Existing \ dropped
      BY <2>3, <3>1 DEF ListInv, InOnePlace
    <3> QED BY <2>1, <3>2 DEF Told
  <2> QED BY <2>2, <2>3 DEF List!ListedInOrder
<1> QED BY <1>1, ListInvariant, PTL

(* No listing frees a variable, however many it meets and whichever of its   *)
(* insertions fail; only a set that fails makes one go away, that one alone. *)
THEOREM ListingFreesNothing == List!Spec => NothingFreed
<1>1. ListInv /\ [List!Next]_List!vars => [Kept]_List!vars
  BY ListStep
<1> QED BY <1>1, ListInvariant, PTL DEF List!Spec, NothingFreed, List!NothingFreed, Kept
-----------------------------------------------------------------------------
(* Slots.                                                                    *)

Tables(m) == [0..(m - 1) -> Objects \cup {NoObject}]

(* The k-th slot from i on, and how far it is from i on to j.               *)
On(i, k, m) == IF i + k < m THEN i + k ELSE i + k - m
Far(i, j, m) == IF i <= j THEN j - i ELSE j - i + m

LEMMA Remainders ==
  ASSUME NEW m \in Nat \ {0}, NEW a \in 0..(2 * m - 1)
  PROVE  a % m = IF a < m THEN a ELSE a - m
<1>1. ASSUME NEW b \in 0..(m - 1) PROVE b % m = b /\ (b + m) % m = b
  OBVIOUS
<1>2. CASE a < m
  BY <1>1, <1>2
<1>3. CASE a >= m
  <2>1. a - m \in 0..(m - 1) /\ (a - m) + m = a
    BY <1>3
  <2> QED BY <1>1, <1>3, <2>1
<1> QED BY <1>2, <1>3

LEMMA Slotted ==
  ASSUME NEW m \in Nat \ {0}, NEW i \in 0..(m - 1), NEW j \in 0..(m - 1), NEW k \in 0..(m - 1)
  PROVE  /\ On(i, k, m) \in 0..(m - 1) /\ Far(i, j, m) \in 0..(m - 1)
         /\ On(i, Far(i, j, m), m) = j
         /\ Far(i, On(i, k, m), m) = k
         /\ (i + k) % m = On(i, k, m)
<1>1. (i + k) % m = IF i + k < m THEN i + k ELSE i + k - m
  <2>1. PICK a \in 0..(2 * m - 1) : a = i + k
    OBVIOUS
  <2>2. a % m = IF a < m THEN a ELSE a - m
    BY Remainders
  <2> QED BY <2>1, <2>2
<1> QED BY <1>1 DEF On, Far

(* The objects in a table, the slots they have, and that each has one.       *)
Within(tab, m) == {o \in Objects : \E i \in 0..(m - 1) : tab[i] = o}
Used(tab, m) == {i \in 0..(m - 1) : tab[i] # NoObject}
Once(tab, m) == \A i, j \in 0..(m - 1) : tab[i] = tab[j] /\ tab[i] # NoObject => i = j

(* From slot a on, slot q comes before slot i.                               *)
Passes(a, q, i, m) == Far(a, q, m) < Far(a, i, m)

(* No slot is empty between the ideal one of an object and its own.          *)
Reached(tab, m, home) ==
  \A i, q \in 0..(m - 1) :
    tab[i] # NoObject /\ Passes(home[tab[i]], q, i, m) => tab[q] # NoObject

LEMMA UsedCount ==
  ASSUME NEW m \in Nat \ {0}, NEW tab \in Tables(m)
  PROVE  /\ IsFiniteSet(Used(tab, m)) /\ Cardinality(Used(tab, m)) \in 0..m
         /\ Cardinality(Used(tab, m)) < m => \E i \in 0..(m - 1) : tab[i] = NoObject
<1>1. IsFiniteSet(0..(m - 1)) /\ Cardinality(0..(m - 1)) = m
  BY FS_Interval
<1>2. Used(tab, m) \in SUBSET (0..(m - 1))
  BY DEF Used
<1>3. /\ IsFiniteSet(Used(tab, m)) /\ Cardinality(Used(tab, m)) <= m
      /\ Cardinality(Used(tab, m)) \in Nat
  BY <1>1, <1>2, FS_Subset, FS_CardinalityType
<1>4. (\A i \in 0..(m - 1) : tab[i] # NoObject) => Used(tab, m) = 0..(m - 1)
  BY DEF Used
<1> QED BY <1>1, <1>3, <1>4

(* A row of slots in a set is no longer than the set has members.            *)
LEMMA RowBound ==
  ASSUME NEW m \in Nat \ {0}, NEW i \in 0..(m - 1), NEW n \in 0..m, NEW A, IsFiniteSet(A),
         \A k \in 0..(n - 1) : On(i, k, m) \in A
  PROVE  n <= Cardinality(A)
<1>1. IsFiniteSet(0..(n - 1)) /\ Cardinality(0..(n - 1)) = n
  BY FS_Interval
<1>2. PICK f : f = [k \in 0..(n - 1) |-> On(i, k, m)]
  OBVIOUS
<1>3. f \in [0..(n - 1) -> A]
  BY <1>2
<1>4. ASSUME NEW k \in 0..(n - 1), NEW l \in 0..(n - 1), f[k] = f[l] PROVE k = l
  BY <1>2, <1>4 DEF On
<1>5. f \in Injection(0..(n - 1), A)
  BY <1>3, <1>4 DEF Injection, IsInjective
<1> QED BY <1>1, <1>5, FS_Injection

(* As many slots are used as there are objects.                             *)
LEMMA UsedIsWithin ==
  ASSUME NEW m \in Nat \ {0}, NEW tab \in Tables(m), Once(tab, m), NoObject \notin Objects
  PROVE  IsFiniteSet(Within(tab, m)) /\ Cardinality(Within(tab, m)) = Cardinality(Used(tab, m))
<1>1. PICK f : f = [i \in Used(tab, m) |-> tab[i]]
  OBVIOUS
<1>2. f \in [Used(tab, m) -> Within(tab, m)]
  BY <1>1 DEF Used, Within, Tables
<1>3. ASSUME NEW o \in Within(tab, m) PROVE \E i \in Used(tab, m) : f[i] = o
  BY <1>1 DEF Used, Within
<1>4. ASSUME NEW i \in Used(tab, m), NEW j \in Used(tab, m), f[i] = f[j] PROVE i = j
  BY <1>1, <1>4 DEF Used, Once
<1>5. f \in Bijection(Used(tab, m), Within(tab, m))
  <2>1. f \in Injection(Used(tab, m), Within(tab, m))
    BY <1>2, <1>4 DEF Injection, IsInjective
  <2>2. f \in Surjection(Used(tab, m), Within(tab, m))
    BY <1>2, <1>3 DEF Surjection
  <2> QED BY <2>1, <2>2 DEF Bijection
<1> QED BY <1>5, UsedCount, FS_Bijection DEF ExistsBijection
(* The slots up to a used one, all but a hole used, are no more than those.  *)
LEMMA RowLength ==
  ASSUME NEW m \in Nat \ {0}, NEW tab \in Tables(m), NEW a \in 0..(m - 1),
         NEW i \in 0..(m - 1), NEW hole \in 0..(m - 1), tab[i] # NoObject,
         \A q \in 0..(m - 1) : Passes(a, q, i, m) => tab[q] # NoObject \/ q = hole
  PROVE  Far(a, i, m) <= Cardinality(Used(tab, m))
<1>1. PICK A : A = Used(tab, m) \cup {hole}
  OBVIOUS
<1>2. /\ IsFiniteSet(Used(tab, m)) /\ Cardinality(Used(tab, m)) \in Nat
  <2>1. Cardinality(Used(tab, m)) \in 0..m /\ IsFiniteSet(Used(tab, m))
    BY UsedCount
  <2> QED BY <2>1
<1>3. IsFiniteSet(A) /\ Cardinality(A) <= Cardinality(Used(tab, m)) + 1
  BY <1>1, <1>2, FS_AddElement
<1>4. PICK n \in 0..m : n = Far(a, i, m) + 1
  <2>1. Far(a, i, m) \in 0..(m - 1)
    BY Slotted
  <2> QED BY <2>1
<1>5. ASSUME NEW k \in 0..(n - 1) PROVE On(a, k, m) \in A
  <2>1. k \in 0..(m - 1)
    OBVIOUS
  <2>2. On(a, k, m) \in 0..(m - 1) /\ Far(a, On(a, k, m), m) = k
    BY <2>1, Slotted
  <2>3. CASE k = n - 1
    <3>1. On(a, k, m) = i
      BY <1>4, <2>3 DEF On, Far
    <3> QED BY <1>1, <3>1 DEF Used
  <2>4. CASE k # n - 1
    <3>1. Passes(a, On(a, k, m), i, m)
      BY <1>4, <2>2, <2>4 DEF Passes, Far
    <3> QED BY <1>1, <2>2, <3>1 DEF Used
  <2> QED BY <2>3, <2>4
<1>6. n <= Cardinality(A)
  BY <1>3, <1>5, RowBound
<1>7. Cardinality(A) \in Nat /\ Far(a, i, m) \in Nat
  BY <1>3, FS_CardinalityType DEF Far
<1> QED BY <1>2, <1>3, <1>4, <1>6, <1>7

(* In a table that is less than half used, an object may be moved into the   *)
(* hole exactly if its search passes the hole.                               *)
LEMMA MayMove ==
  ASSUME NEW m \in Nat, m >= 2, NEW ideal \in 0..(m - 1), NEW hole \in 0..(m - 1),
         NEW i \in 0..(m - 1), i # hole,
         Far(ideal, i, m) < m \div 2, Far(hole, i, m) < m \div 2
  PROVE  CanMove(ideal, hole, m) <=> Passes(ideal, hole, i, m)
<1>1. PICK half \in Nat : half = m \div 2 /\ 2 * half <= m /\ m <= 2 * half + 1
  BY Halves
<1>2. ASSUME NEW j \in 0..(m - 1)
      PROVE  (j + half) % m = IF j + half < m THEN j + half ELSE j + half - m
  <2>1. PICK a \in 0..(2 * m - 1) : a = j + half
    BY <1>1
  <2>2. m \in Nat \ {0}
    OBVIOUS
  <2>3. a % m = IF a < m THEN a ELSE a - m
    BY <2>2, Remainders
  <2> QED BY <2>1, <2>3
<1>3. CanMove(ideal, hole, m) <=>
        IF ideal - hole \in -half .. half THEN ideal <= hole
        ELSE (IF ideal + half < m THEN ideal + half ELSE ideal + half - m)
             <= (IF hole + half < m THEN hole + half ELSE hole + half - m)
  BY <1>1, <1>2 DEF CanMove
<1>4. Far(ideal, i, m) < half /\ Far(hole, i, m) < half
  BY <1>1
<1>5. ideal - hole \in -half .. half <=> -half <= ideal - hole /\ ideal - hole <= half
  OBVIOUS
<1> QED BY <1>1, <1>3, <1>4, <1>5 DEF Passes, Far

(* Where the search for an object ends.                                      *)
LEMMA ProbeEnds ==
  ASSUME NoObject \notin Objects, NEW h, NEW m \in Nat \ {0}, NEW o \in Objects,
         NEW home \in [Objects -> 0..(m - 1)],
         h.size = m, h.table \in Tables(m), Once(h.table, m), Reached(h.table, m, home),
         Cardinality(Used(h.table, m)) < m, Ideal(o, m) = home[o]
  PROVE  /\ Probe(h, o) \in 0..(m - 1)
         /\ h.table[Probe(h, o)] = IF o \in Within(h.table, m) THEN o ELSE NoObject
         /\ \A q \in 0..(m - 1) :
              Passes(home[o], q, Probe(h, o), m) => h.table[q] # NoObject
<1>1. PICK tab \in Tables(m) : tab = h.table
  OBVIOUS
<1>2. PICK a \in 0..(m - 1) : a = home[o]
  OBVIOUS
<1>3. PICK S : S = {k \in 0..(m - 1) : tab[(a + k) % m] \in {o, NoObject}}
  OBVIOUS
<1>4. Probe(h, o) = (a + Min(S)) % m
  BY <1>1, <1>2, <1>3 DEF Probe
<1>5. ASSUME NEW k \in 0..(m - 1)
      PROVE  (a + k) % m = On(a, k, m) /\ On(a, k, m) \in 0..(m - 1) /\ Far(a, On(a, k, m), m) = k
  BY Slotted
<1>6. \A k \in 0..(m - 1) : k \in S <=> tab[On(a, k, m)] \in {o, NoObject}
  BY <1>3, <1>5
<1>7. ASSUME NEW q \in 0..(m - 1)
      PROVE  Far(a, q, m) \in 0..(m - 1) /\ On(a, Far(a, q, m), m) = q
  BY Slotted
<1>8. PICK e \in 0..(m - 1) : tab[e] = NoObject
  BY <1>1, UsedCount
<1>9. Far(a, e, m) \in S
  BY <1>6, <1>7, <1>8
<1>10. \E x \in S : \A y \in S : x <= y
  <2>1. S \in SUBSET Nat /\ S # {}
    BY <1>3, <1>9
  <2> QED BY <2>1, LeastNumber
<1>11. PICK k : k = Min(S) /\ k \in S /\ \A y \in S : k <= y
  BY <1>10 DEF Min
<1>12. PICK p : p = Probe(h, o)
  OBVIOUS
<1>13. k \in 0..(m - 1)
  BY <1>3, <1>11
<1>14. p = On(a, k, m) /\ p \in 0..(m - 1) /\ Far(a, p, m) = k
  BY <1>4, <1>5, <1>11, <1>12, <1>13
<1>15. tab[p] \in {o, NoObject}
  BY <1>6, <1>11, <1>13, <1>14
<1>16. ASSUME NEW q \in 0..(m - 1), Passes(a, q, p, m) PROVE tab[q] \notin {o, NoObject}
  <2>1. Far(a, q, m) < k /\ Far(a, q, m) \in 0..(m - 1)
    BY <1>7, <1>14, <1>16 DEF Passes
  <2>2. Far(a, q, m) \notin S
    BY <1>11, <1>13, <2>1
  <2> QED BY <1>6, <1>7, <2>1, <2>2
<1>17. ASSUME o \in Within(tab, m) PROVE tab[p] = o
  <2>1. PICK j \in 0..(m - 1) : tab[j] = o
    BY <1>17 DEF Within
  <2>2. tab[j] # NoObject
    BY <2>1
  <2>3. ~Passes(a, p, j, m) \/ tab[p] # NoObject
    BY <1>1, <1>2, <1>14, <2>1, <2>2 DEF Reached
  <2>4. CASE Passes(a, p, j, m)
    BY <1>15, <2>3, <2>4
  <2>5. CASE ~Passes(a, p, j, m)
    <3>1. ~Passes(a, j, p, m)
      BY <1>16, <2>1
    <3>2. Far(a, j, m) = Far(a, p, m)
      BY <1>7, <1>14, <2>5, <3>1 DEF Passes
    <3> QED BY <1>7, <1>14, <2>1, <3>2
  <2> QED BY <2>4, <2>5
<1>18. o \notin Within(tab, m) => tab[p] # o
  BY <1>14 DEF Within
<1> QED BY <1>1, <1>2, <1>12, <1>14, <1>15, <1>16, <1>17, <1>18
(* A table in which every object is found.                                   *)
Sound(tab, m, home) == tab \in Tables(m) /\ Once(tab, m) /\ Reached(tab, m, home)

(* One slot is written.                                                      *)
Put(t, tab, p, x, m) ==
  /\ t \in Tables(m) /\ t[p] = x
  /\ \A i \in 0..(m - 1) : i # p => t[i] = tab[i]

LEMMA PutIsExcept ==
  ASSUME NEW m, NEW tab \in Tables(m), NEW p \in 0..(m - 1), NEW x \in Objects \cup {NoObject}
  PROVE  Put([tab EXCEPT ![p] = x], tab, p, x, m)
BY DEF Put, Tables

LEMMA Filling ==
  ASSUME NoObject \notin Objects, NEW m \in Nat \ {0}, NEW home \in [Objects -> 0..(m - 1)],
         NEW tab, Sound(tab, m, home), NEW o \in Objects, o \notin Within(tab, m),
         NEW p \in 0..(m - 1), tab[p] = NoObject,
         \A q \in 0..(m - 1) : Passes(home[o], q, p, m) => tab[q] # NoObject,
         NEW t, Put(t, tab, p, o, m)
  PROVE  /\ Sound(t, m, home)
         /\ Within(t, m) = Within(tab, m) \cup {o}
         /\ Cardinality(Used(t, m)) = Cardinality(Used(tab, m)) + 1
<1>1. tab \in Tables(m) /\ Once(tab, m) /\ Reached(tab, m, home)
  BY DEF Sound
<1>2. t \in Tables(m) /\ t[p] = o /\ \A i \in 0..(m - 1) : i # p => t[i] = tab[i]
  BY DEF Put
<1>3. o # NoObject /\ \A i \in 0..(m - 1) : tab[i] # o
  BY DEF Within
<1>4. Once(t, m)
  BY <1>1, <1>2, <1>3 DEF Once
<1>5. Reached(t, m, home)
  <2> SUFFICES ASSUME NEW i \in 0..(m - 1), NEW q \in 0..(m - 1), t[i] # NoObject,
                      Passes(home[t[i]], q, i, m)
               PROVE  t[q] # NoObject
    BY DEF Reached
  <2>1. CASE i = p
    BY <1>2, <1>3, <2>1
  <2>2. CASE i # p
    BY <1>1, <1>2, <1>3, <2>2 DEF Reached
  <2> QED BY <2>1, <2>2
<1>6. Within(t, m) = Within(tab, m) \cup {o}
  BY <1>2, <1>3 DEF Within
<1>7. Used(t, m) = Used(tab, m) \cup {p} /\ p \notin Used(tab, m)
  BY <1>2, <1>3 DEF Used
<1>8. Cardinality(Used(t, m)) = Cardinality(Used(tab, m)) + 1
  BY <1>1, <1>7, UsedCount, FS_AddElement
<1> QED BY <1>2, <1>4, <1>5, <1>6, <1>8 DEF Sound

LEMMA Emptying ==
  ASSUME NoObject \notin Objects, NEW m \in Nat \ {0}, NEW tab \in Tables(m), Once(tab, m),
         NEW p \in 0..(m - 1), NEW o \in Objects, tab[p] = o,
         NEW t, Put(t, tab, p, NoObject, m)
  PROVE  /\ t \in Tables(m) /\ t[p] = NoObject
         /\ \A i \in 0..(m - 1) : i # p => t[i] = tab[i]
         /\ Once(t, m) /\ Within(t, m) = Within(tab, m) \ {o}
         /\ Cardinality(Used(t, m)) = Cardinality(Used(tab, m)) - 1
<1>1. t \in Tables(m) /\ t[p] = NoObject /\ \A i \in 0..(m - 1) : i # p => t[i] = tab[i]
  BY DEF Put
<1>2. o # NoObject /\ \A i \in 0..(m - 1) : i # p => tab[i] # o
  BY DEF Once
<1>3. Once(t, m)
  BY <1>1 DEF Once
<1>4. Within(t, m) = Within(tab, m) \ {o}
  BY <1>1, <1>2 DEF Within
<1>5. Used(t, m) = Used(tab, m) \ {p} /\ p \in Used(tab, m)
  BY <1>1, <1>2 DEF Used
<1>6. Cardinality(Used(t, m)) = Cardinality(Used(tab, m)) - 1
  BY <1>5, UsedCount, FS_RemoveElement
<1> QED BY <1>1, <1>3, <1>4, <1>6

(* A hole is being closed that was made k slots ago, at r: the only slot of  *)
(* those k and the only one on any search that is empty is the hole, and the *)
(* searches for the objects of those k slots do not pass it.                 *)
Walking(tab, m, home, r, k, hole) ==
  /\ tab \in Tables(m) /\ Once(tab, m)
  /\ hole \in 0..(m - 1) /\ tab[hole] = NoObject /\ Far(r, hole, m) <= k
  /\ \A i \in 0..(m - 1) : Far(r, i, m) <= k /\ i # hole => tab[i] # NoObject
  /\ \A i, q \in 0..(m - 1) :
       tab[i] # NoObject /\ Passes(home[tab[i]], q, i, m) => tab[q] # NoObject \/ q = hole
  /\ \A i \in 0..(m - 1) :
       Far(r, i, m) <= k /\ tab[i] # NoObject => ~Passes(home[tab[i]], hole, i, m)

LEMMA WalkStarts ==
  ASSUME NEW m \in Nat \ {0}, NEW home, NEW tab, Sound(tab, m, home), NEW r \in 0..(m - 1),
         NEW t \in Tables(m), t[r] = NoObject, Once(t, m),
         \A i \in 0..(m - 1) : i # r => t[i] = tab[i]
  PROVE  Walking(t, m, home, r, 0, r)
<1>1. \A i \in 0..(m - 1) : Far(r, i, m) <= 0 => i = r
  BY DEF Far
<1>2. Far(r, r, m) <= 0
  BY DEF Far
<1> QED BY <1>1, <1>2 DEF Walking, Sound, Reached

LEMMA WalkEnds ==
  ASSUME NEW m \in Nat \ {0}, NEW home \in [Objects -> 0..(m - 1)], NEW tab,
         NEW r \in 0..(m - 1), NEW k \in 1..(m - 1), NEW hole,
         Walking(tab, m, home, r, k - 1, hole),
         NEW i \in 0..(m - 1), Far(r, i, m) = k, tab[i] = NoObject
  PROVE  Reached(tab, m, home)
<1> SUFFICES ASSUME NEW s \in 0..(m - 1), NEW q \in 0..(m - 1), tab[s] # NoObject,
                    Passes(home[tab[s]], q, s, m), tab[q] = NoObject
             PROVE  FALSE
  BY DEF Reached
<1>1. q = hole /\ hole \in 0..(m - 1) /\ Far(r, hole, m) <= k - 1
  BY DEF Walking
<1>2. PICK a \in 0..(m - 1) : a = home[tab[s]]
  BY DEF Walking, Tables
<1>3. Passes(a, hole, s, m) /\ s # i
  BY <1>1, <1>2
<1>4. ~(Far(r, s, m) <= k - 1)
  BY <1>1 DEF Walking
<1>5. Passes(a, i, s, m) /\ i # hole
  BY <1>1, <1>3, <1>4 DEF Passes, Far
<1> QED BY <1>2, <1>5 DEF Walking

LEMMA WalkStays ==
  ASSUME NEW m \in Nat \ {0}, NEW home, NEW tab,
         NEW r \in 0..(m - 1), NEW k \in 1..(m - 1), NEW hole,
         Walking(tab, m, home, r, k - 1, hole),
         NEW i \in 0..(m - 1), Far(r, i, m) = k, tab[i] # NoObject,
         ~Passes(home[tab[i]], hole, i, m)
  PROVE  Walking(tab, m, home, r, k, hole)
<1>1. ASSUME NEW s \in 0..(m - 1), Far(r, s, m) <= k
      PROVE  s = i \/ Far(r, s, m) <= k - 1
  BY <1>1 DEF Far
<1>2. Far(r, hole, m) <= k
  BY DEF Walking, Far
<1> QED BY <1>1, <1>2 DEF Walking

(* In the k-th turn of a walk the object of slot i, whose search passes the  *)
(* hole, is put into it, and another slot is empty too.                      *)
Moved(t, tab, m, home, r, k, hole, i) ==
  /\ r \in 0..(m - 1) /\ k \in 1..(m - 1)
  /\ Walking(tab, m, home, r, k - 1, hole)
  /\ i \in 0..(m - 1) /\ Far(r, i, m) = k /\ tab[i] # NoObject
  /\ Passes(home[tab[i]], hole, i, m)
  /\ t \in Tables(m) /\ t[hole] = tab[i] /\ t[i] = NoObject
  /\ \A s \in 0..(m - 1) : s # hole /\ s # i => t[s] = tab[s]
  /\ \E e \in 0..(m - 1) : e # hole /\ tab[e] = NoObject

LEMMA WalkMoves ==
  ASSUME NoObject \notin Objects, NEW m \in Nat \ {0}, NEW home \in [Objects -> 0..(m - 1)],
         NEW tab, NEW t, NEW r, NEW k, NEW hole, NEW i, Moved(t, tab, m, home, r, k, hole, i)
  PROVE  Walking(t, m, home, r, k, i) /\ Within(t, m) = Within(tab, m)
<1> r \in 0..(m - 1) /\ k \in 1..(m - 1) /\ i \in 0..(m - 1) /\ hole \in 0..(m - 1)
  BY DEF Moved, Walking
<1> /\ Walking(tab, m, home, r, k - 1, hole)
    /\ Far(r, i, m) = k /\ tab[i] # NoObject /\ Passes(home[tab[i]], hole, i, m)
  BY DEF Moved
<1> PICK e \in 0..(m - 1) : e # hole /\ tab[e] = NoObject
  BY DEF Moved
<1>1. /\ tab \in Tables(m) /\ Once(tab, m) /\ hole \in 0..(m - 1) /\ tab[hole] = NoObject
      /\ Far(r, hole, m) <= k - 1 /\ i # hole
  BY DEF Walking
<1>2. PICK o \in Objects : o = tab[i]
  BY <1>1 DEF Tables
<1>3. /\ t \in Tables(m) /\ t[hole] = o /\ t[i] = NoObject
      /\ \A s \in 0..(m - 1) : s # hole /\ s # i => t[s] = tab[s]
  BY <1>2 DEF Moved
<1>4. o # NoObject /\ \A s \in 0..(m - 1) : s # i => tab[s] # o
  BY <1>1, <1>2 DEF Once
<1>5. Once(t, m)
  BY <1>1, <1>3, <1>4 DEF Once
<1>6. Within(t, m) = Within(tab, m)
  BY <1>1, <1>2, <1>3, <1>4 DEF Within
<1>7. ASSUME NEW s \in 0..(m - 1), Far(r, s, m) <= k, s # i PROVE Far(r, s, m) <= k - 1
  BY <1>7 DEF Far
<1>8. ASSUME NEW s \in 0..(m - 1), Far(r, s, m) <= k, s # i PROVE t[s] # NoObject
  BY <1>3, <1>4, <1>7, <1>8 DEF Walking
<1>9. PICK a \in 0..(m - 1) : a = home[o]
  OBVIOUS
<1>10. Passes(a, hole, i, m)
  BY <1>2, <1>9
<1>11. ASSUME NEW s \in 0..(m - 1), NEW q \in 0..(m - 1), t[s] # NoObject,
              Passes(home[t[s]], q, s, m)
       PROVE  t[q] # NoObject \/ q = i
  <2>1. CASE s = hole
    <3>1. Passes(a, q, hole, m)
      BY <1>3, <1>9, <1>11, <2>1
    <3>2. Passes(a, q, i, m) /\ q # hole /\ q # i
      BY <1>1, <1>10, <3>1 DEF Passes, Far
    <3>3. tab[q] # NoObject
      BY <1>2, <1>9, <3>2 DEF Walking
    <3> QED BY <1>3, <3>2, <3>3
  <2>2. CASE s # hole
    <3>1. s # i /\ t[s] = tab[s]
      BY <1>3, <1>11, <2>2
    <3>2. tab[q] # NoObject \/ q = hole
      BY <1>11, <3>1 DEF Walking
    <3> QED BY <1>3, <1>4, <3>2
  <2> QED BY <2>1, <2>2
<1>12. ASSUME NEW s \in 0..(m - 1), Far(r, s, m) <= k, t[s] # NoObject
       PROVE  ~Passes(home[t[s]], i, s, m)
  <2>1. s # i
    BY <1>3, <1>12
  <2>2. CASE s = hole
    <3>1. ~Passes(a, i, hole, m)
      BY <1>1, <1>10 DEF Passes, Far
    <3> QED BY <1>3, <1>9, <2>2, <3>1
  <2>3. CASE s # hole
    <3>1. t[s] = tab[s] /\ Far(r, s, m) <= k - 1
      BY <1>3, <1>7, <1>12, <2>1, <2>3
    <3>2. PICK b \in 0..(m - 1) : b = home[tab[s]]
      BY <1>1, <1>12, <3>1 DEF Tables
    <3>3. ~Passes(b, hole, s, m) /\ ~Passes(b, e, s, m)
      BY <1>12, <3>1, <3>2 DEF Walking
    <3>4. ~(Far(r, e, m) <= k)
      <4>1. e # i
        OBVIOUS
      <4>2. Far(r, e, m) <= k - 1 => e = hole
        BY DEF Walking
      <4> QED BY <1>7, <4>1, <4>2
    <3>5. ~Passes(b, i, s, m)
      BY <2>1, <3>1, <3>3, <3>4 DEF Passes, Far
    <3> QED BY <3>1, <3>2, <3>5
  <2> QED BY <2>2, <2>3
<1>13. Far(r, i, m) <= k
  OBVIOUS
<1> QED BY <1>3, <1>5, <1>6, <1>8, <1>11, <1>12, <1>13 DEF Walking
LEMMA SecondEmpty ==
  ASSUME NEW m \in Nat \ {0}, NEW tab \in Tables(m), NEW hole \in 0..(m - 1),
         Cardinality(Used(tab, m)) + 1 < m
  PROVE  \E e \in 0..(m - 1) : e # hole /\ tab[e] = NoObject
<1>1. PICK A : A = Used(tab, m) \cup {hole}
  OBVIOUS
<1>2. IsFiniteSet(Used(tab, m)) /\ Cardinality(Used(tab, m)) \in Nat
  <2>1. Cardinality(Used(tab, m)) \in 0..m /\ IsFiniteSet(Used(tab, m))
    BY UsedCount
  <2> QED BY <2>1
<1>3. IsFiniteSet(A) /\ Cardinality(A) <= Cardinality(Used(tab, m)) + 1
  BY <1>1, <1>2, FS_AddElement
<1>4. Cardinality(A) \in Nat /\ Cardinality(0..(m - 1)) = m
  BY <1>3, FS_CardinalityType, FS_Interval
<1>5. A # 0..(m - 1)
  BY <1>2, <1>3, <1>4
<1>6. A \subseteq 0..(m - 1)
  BY <1>1 DEF Used
<1> QED BY <1>1, <1>5, <1>6 DEF Used

(* The walk of Closed, and one turn of it.                                  *)
Walks(m) == [table : Tables(m), hole : 0..(m - 1), over : BOOLEAN]

Turn(w, k, r, m) ==
  LET i == (r + k) % m
      o == w.table[i]
  IN  IF w.over \/ o = NoObject THEN [w EXCEPT !.over = TRUE]
      ELSE IF CanMove(Ideal(o, m), w.hole, m)
      THEN [w EXCEPT !.table = [@ EXCEPT ![w.hole] = o, ![i] = NoObject], !.hole = i]
      ELSE w

Walked(w, m, home, r, k) ==
  IF w.over THEN Sound(w.table, m, home) ELSE Walking(w.table, m, home, r, k, w.hole)

LEMMA WalkTurns ==
  ASSUME NoObject \notin Objects, NEW m \in Nat \ {0}, NEW home \in [Objects -> 0..(m - 1)],
         \A o \in Objects : Ideal(o, m) = home[o],
         NEW r \in 0..(m - 1), NEW k \in 1..(m - 1), NEW w \in Walks(m),
         Walked(w, m, home, r, k - 1), Cardinality(Used(w.table, m)) < m \div 2
  PROVE  /\ Turn(w, k, r, m) \in Walks(m)
         /\ Walked(Turn(w, k, r, m), m, home, r, k)
         /\ Within(Turn(w, k, r, m).table, m) = Within(w.table, m)
<1>1. PICK i \in 0..(m - 1) : i = (r + k) % m /\ Far(r, i, m) = k
  <2>1. k \in 0..(m - 1)
    OBVIOUS
  <2> QED BY <2>1, Slotted
<1>2. PICK tab \in Tables(m), hole \in 0..(m - 1), over \in BOOLEAN :
        w = [table |-> tab, hole |-> hole, over |-> over]
  BY DEF Walks
<1>3. w.table = tab /\ w.hole = hole /\ w.over = over
  BY <1>2
<1>4. PICK v : v = Turn(w, k, r, m)
  OBVIOUS
<1>5. CASE over
  <2>1. v = [table |-> tab, hole |-> hole, over |-> TRUE]
    BY <1>2, <1>3, <1>4, <1>5 DEF Turn
  <2> QED BY <1>3, <1>4, <1>5, <2>1 DEF Walked, Walks
<1>6. CASE ~over /\ tab[i] = NoObject
  <2>1. v = [table |-> tab, hole |-> hole, over |-> TRUE]
    BY <1>1, <1>2, <1>3, <1>4, <1>6 DEF Turn
  <2>2. Walking(tab, m, home, r, k - 1, hole)
    BY <1>3, <1>6 DEF Walked
  <2>3. Reached(tab, m, home)
    BY <1>1, <1>6, <2>2, WalkEnds
  <2>4. Sound(tab, m, home)
    BY <2>2, <2>3 DEF Walking, Sound
  <2> QED BY <1>3, <1>4, <2>1, <2>4 DEF Walked, Walks
<1>7. CASE ~over /\ tab[i] # NoObject
  <2>1. Walking(tab, m, home, r, k - 1, hole)
    BY <1>3, <1>7 DEF Walked
  <2>2. PICK o \in Objects : o = tab[i]
    BY <1>7 DEF Tables
  <2>3. i # hole
    BY <1>7, <2>1 DEF Walking
  <2>4. PICK used \in Nat : used = Cardinality(Used(tab, m)) /\ used < m \div 2
    <3>1. Cardinality(Used(tab, m)) \in 0..m
      BY UsedCount
    <3> QED BY <1>3, <3>1
  <2>5. Far(home[o], i, m) <= used
    <3>1. \A q \in 0..(m - 1) : Passes(home[o], q, i, m) => tab[q] # NoObject \/ q = hole
      BY <1>7, <2>1, <2>2 DEF Walking
    <3>2. home[o] \in 0..(m - 1)
      OBVIOUS
    <3> QED BY <1>7, <2>4, <3>1, <3>2, RowLength
  <2>6. Far(hole, i, m) <= used
    <3>1. ASSUME NEW q \in 0..(m - 1), Passes(hole, q, i, m)
          PROVE  tab[q] # NoObject \/ q = hole
      <4>1. Far(r, hole, m) <= k - 1
        BY <2>1 DEF Walking
      <4>2. Far(r, q, m) <= k - 1
        BY <1>1, <3>1, <4>1 DEF Passes, Far
      <4> QED BY <2>1, <4>2 DEF Walking
    <3> QED BY <1>7, <2>4, <3>1, RowLength
  <2>7. m >= 2 /\ used + 1 < m
    BY <2>4, Halves
  <2>8. CanMove(home[o], hole, m) <=> Passes(home[o], hole, i, m)
    <3>1. Far(home[o], i, m) < m \div 2 /\ Far(hole, i, m) < m \div 2
      <4>1. /\ Far(home[o], i, m) \in Nat /\ Far(hole, i, m) \in Nat /\ m \div 2 \in Nat
        BY Halves DEF Far
      <4> QED BY <2>4, <2>5, <2>6, <4>1
    <3> QED BY <2>3, <2>7, <3>1, MayMove
  <2>9. Ideal(o, m) = home[o]
    OBVIOUS
  <2>10. CASE Passes(home[o], hole, i, m)
    <3>1. PICK t : t = [[tab EXCEPT ![hole] = tab[i]] EXCEPT ![i] = NoObject]
      OBVIOUS
    <3>2. v = [table |-> t, hole |-> i, over |-> FALSE]
      BY <1>1, <1>2, <1>3, <1>4, <1>7, <2>2, <2>8, <2>9, <2>10, <3>1 DEF Turn
    <3>3. PICK e \in 0..(m - 1) : e # hole /\ tab[e] = NoObject
      BY <2>4, <2>7, SecondEmpty
    <3>4. Walking(t, m, home, r, k, i) /\ Within(t, m) = Within(tab, m)
      <4>1. Passes(home[tab[i]], hole, i, m) /\ tab[i] # NoObject /\ Far(r, i, m) = k
        BY <1>1, <1>7, <2>2, <2>10
      <4>2. /\ t \in Tables(m) /\ t[hole] = tab[i] /\ t[i] = NoObject
            /\ \A s \in 0..(m - 1) : s # hole /\ s # i => t[s] = tab[s]
        BY <2>2, <2>3, <3>1 DEF Tables
      <4>3. Moved(t, tab, m, home, r, k, hole, i)
        BY <2>1, <3>3, <4>1, <4>2 DEF Moved
      <4> QED BY <4>3, WalkMoves
    <3>5. t \in Tables(m)
      BY <3>4 DEF Walking
    <3> QED BY <1>3, <1>4, <3>2, <3>4, <3>5 DEF Walked, Walks
  <2>11. CASE ~Passes(home[o], hole, i, m)
    <3>1. v = w
      BY <1>1, <1>3, <1>4, <1>7, <2>2, <2>8, <2>9, <2>11 DEF Turn
    <3>2. Walking(tab, m, home, r, k, hole)
      BY <1>1, <1>7, <2>1, <2>2, <2>11, WalkStays
    <3> QED BY <1>3, <1>4, <1>7, <3>1, <3>2 DEF Walked
  <2> QED BY <2>10, <2>11
<1> QED BY <1>5, <1>6, <1>7

(* Closing a hole leaves every object where it is found, and loses none.     *)
LEMMA ClosedIsSound ==
  ASSUME NoObject \notin Objects, NEW m \in Nat \ {0}, NEW home \in [Objects -> 0..(m - 1)],
         \A o \in Objects : Ideal(o, m) = home[o],
         NEW h, h.size = m, NEW r \in 0..(m - 1), Walking(h.table, m, home, r, 0, r),
         Cardinality(Used(h.table, m)) < m \div 2
  PROVE  \E t : /\ Closed(h, r) = [h EXCEPT !.table = t] /\ Sound(t, m, home)
                /\ Within(t, m) = Within(h.table, m)
<1>1. PICK start : start = [table |-> h.table, hole |-> r, over |-> FALSE]
  OBVIOUS
<1>2. start \in Walks(m) /\ Walked(start, m, home, r, 0) /\ start.table = h.table
  BY <1>1 DEF Walks, Walked, Walking
<1>3. PICK n \in Nat : n = m - 1
  OBVIOUS
<1>4. PICK turn : turn = [x \in (1..n) \X Walks(m) |->
                            IF Turn(x[2], x[1], r, m) \in Walks(m)
                            THEN Turn(x[2], x[1], r, m) ELSE x[2]]
  OBVIOUS
<1>5. PICK f \in [0..n -> Walks(m)] :
        /\ f[0] = start
        /\ \A k \in 1..n : f[k] = turn[<<k, f[k - 1]>>]
  <2>1. PICK S : S = Walks(m)
    OBVIOUS
  <2>2. start \in S /\ turn \in Turns(n, S) /\ n \in Nat
    BY <1>2, <1>4, <2>1 DEF Turns
  <2>3. \E g : Runs(g, n, S, start, turn)
    BY <2>2, LoopRuns
  <2> QED BY <2>1, <2>3 DEF Runs
<1> DEFINE Good(k) == /\ f[k] \in Walks(m) /\ Walked(f[k], m, home, r, k)
                      /\ Within(f[k].table, m) = Within(h.table, m)
<1>6. \A k \in 0..n : Good(k) /\ (k # 0 => f[k] = Turn(f[k - 1], k, r, m))
  <2>1. Good(0)
    BY <1>2, <1>5
  <2>2. ASSUME NEW k \in 1..n, Good(k - 1) PROVE Good(k) /\ f[k] = Turn(f[k - 1], k, r, m)
    <3>1. PICK w \in Walks(m) : w = f[k - 1]
      BY <2>2
    <3>2. w.table \in Tables(m) /\ Once(w.table, m)
      BY <2>2, <3>1 DEF Walks, Walked, Walking, Sound
    <3>3. Cardinality(Used(w.table, m)) = Cardinality(Used(h.table, m))
      <4>1. h.table \in Tables(m) /\ Once(h.table, m)
        BY DEF Walking
      <4> QED BY <2>2, <3>1, <3>2, <4>1, UsedIsWithin
    <3>4. k \in 1..(m - 1) /\ Walked(w, m, home, r, k - 1)
      BY <1>3, <2>2, <3>1
    <3>5. /\ Turn(w, k, r, m) \in Walks(m)
          /\ Walked(Turn(w, k, r, m), m, home, r, k)
          /\ Within(Turn(w, k, r, m).table, m) = Within(w.table, m)
      BY <3>3, <3>4, WalkTurns
    <3>6. f[k] = turn[<<k, w>>]
      BY <1>5, <3>1
    <3>7. f[k] = Turn(w, k, r, m)
      BY <1>4, <3>5, <3>6
    <3> QED BY <2>2, <3>1, <3>5, <3>7
  <2>3. \A k \in 0..n : Good(k)
    <3> SUFFICES ASSUME \E k \in 0..n : ~Good(k) PROVE FALSE
      OBVIOUS
    <3>1. PICK T : T = {k \in 0..n : ~Good(k)}
      OBVIOUS
    <3>2. PICK k \in T : \A l \in T : k <= l
      <4>1. T \in SUBSET Nat /\ T # {}
        BY <3>1
      <4> QED BY <4>1, LeastNumber
    <3>3. k \in 0..n /\ ~Good(k) /\ k # 0
      BY <2>1, <3>1, <3>2
    <3>4. k \in 1..n /\ k - 1 \in 0..n /\ k - 1 \notin T
      BY <3>2, <3>3
    <3>5. Good(k - 1)
      BY <3>1, <3>4
    <3> QED BY <2>2, <3>3, <3>4, <3>5
  <2> QED BY <2>2, <2>3
<1>7. PICK walk : walk = CHOOSE g : g = [k \in 0 .. h.size - 1 |->
        IF k = 0 THEN [table |-> h.table, hole |-> r, over |-> FALSE]
        ELSE IF g[k - 1].over \/ g[k - 1].table[(r + k) % h.size] = NoObject
             THEN [g[k - 1] EXCEPT !.over = TRUE]
             ELSE IF CanMove(Ideal(g[k - 1].table[(r + k) % h.size], h.size), g[k - 1].hole, h.size)
             THEN [g[k - 1] EXCEPT
                     !.table = [@ EXCEPT ![g[k - 1].hole] = g[k - 1].table[(r + k) % h.size],
                                         ![(r + k) % h.size] = NoObject],
                     !.hole = (r + k) % h.size]
             ELSE g[k - 1]]
  OBVIOUS
<1>8. walk = CHOOSE g : g = [k \in 0 .. h.size - 1 |->
                IF k = 0 THEN [table |-> h.table, hole |-> r, over |-> FALSE]
                ELSE Turn(g[k - 1], k, r, h.size)]
  BY <1>7 DEF Turn
<1>9. Closed(h, r) = [h EXCEPT !.table = walk[n].table]
  BY <1>3, <1>7 DEF Closed
<1>10. walk = [k \in 0..n |-> IF k = 0 THEN start ELSE Turn(walk[k - 1], k, r, m)]
  <2>1. PICK g : g = [k \in 0 .. h.size - 1 |->
                        IF k = 0 THEN [table |-> h.table, hole |-> r, over |-> FALSE]
                        ELSE Turn(f[k - 1], k, r, h.size)]
    OBVIOUS
  <2>2. ASSUME NEW k \in 0..n PROVE g[k] = f[k]
    BY <1>1, <1>3, <1>5, <1>6, <2>1
  <2>3. f = g
    BY <1>3, <1>5, <2>1, <2>2
  <2>4. walk = [k \in 0 .. h.size - 1 |->
                  IF k = 0 THEN [table |-> h.table, hole |-> r, over |-> FALSE]
                  ELSE Turn(walk[k - 1], k, r, h.size)]
    BY <1>8, <2>1, <2>3
  <2> QED BY <1>1, <1>3, <2>4
<1>11. \A k \in 0..n : walk[k] = f[k]
  <2> SUFFICES ASSUME \E k \in 0..n : walk[k] # f[k] PROVE FALSE
    OBVIOUS
  <2>1. PICK T : T = {k \in 0..n : walk[k] # f[k]}
    OBVIOUS
  <2>2. PICK k \in T : \A l \in T : k <= l
    <3>1. T \in SUBSET Nat /\ T # {}
      BY <2>1
    <3> QED BY <3>1, LeastNumber
  <2>3. k \in 0..n /\ walk[k] # f[k] /\ k # 0
    BY <1>5, <1>10, <2>1, <2>2
  <2>4. k - 1 \in 0..n /\ k - 1 \notin T
    BY <2>2, <2>3
  <2>5. walk[k - 1] = f[k - 1]
    BY <2>1, <2>4
  <2> QED BY <1>6, <1>10, <2>3, <2>5
<1>12. PICK w \in Walks(m) : w = f[n]
  BY <1>5
<1>13. Closed(h, r) = [h EXCEPT !.table = w.table] /\ Within(w.table, m) = Within(h.table, m)
  BY <1>6, <1>9, <1>11, <1>12
<1>14. Sound(w.table, m, home)
  <2>1. CASE w.over
    BY <1>6, <1>12, <2>1 DEF Walked
  <2>2. CASE ~w.over
    <3>1. Walking(w.table, m, home, r, n, w.hole) /\ w.hole \in 0..(m - 1)
      BY <1>6, <1>12, <2>2 DEF Walked, Walking
    <3>2. w.table \in Tables(m) /\ Once(w.table, m)
      BY <3>1 DEF Walking
    <3>3. Cardinality(Used(w.table, m)) = Cardinality(Used(h.table, m))
      <4>1. h.table \in Tables(m) /\ Once(h.table, m)
        BY DEF Walking
      <4> QED BY <1>13, <3>2, <4>1, UsedIsWithin
    <3>4. Cardinality(Used(w.table, m)) + 1 < m
      <4>1. Cardinality(Used(w.table, m)) \in 0..m
        BY <3>2, UsedCount
      <4> QED BY <3>3, <4>1, Halves
    <3>5. PICK e \in 0..(m - 1) : e # w.hole /\ w.table[e] = NoObject
      BY <3>1, <3>2, <3>4, SecondEmpty
    <3>6. Far(r, e, m) <= n
      BY <1>3 DEF Far
    <3> QED BY <3>1, <3>5, <3>6 DEF Walking
  <2> QED BY <2>1, <2>2
<1> QED BY <1>13, <1>14
-----------------------------------------------------------------------------
(* The table with its size and its count.                                    *)

HashHome(hash, m) == [o \in Objects |-> hash[o] % m]

HeadOk(h, hash) ==
  /\ h.size \in Nat /\ h.size >= 2
  /\ h = [table |-> h.table, size |-> h.size, elem |-> h.elem]
  /\ Sound(h.table, h.size, HashHome(hash, h.size))
  /\ h.elem = Cardinality(Used(h.table, h.size))
  /\ h.elem <= h.size \div 2

(* The inductive invariant: every object of the table is where it is found,  *)
(* the count is that of the slots in use, and no more than half of them are. *)
HashInv ==
  /\ hashOf \in [Objects -> HashValues]
  /\ HeadOk(head, hashOf)
  /\ ret \in {0, -1}

LEMMA HomeIsSlot ==
  ASSUME hashOf \in [Objects -> HashValues], NEW m \in Nat \ {0}
  PROVE  /\ HashHome(hashOf, m) \in [Objects -> 0..(m - 1)]
         /\ \A o \in Objects : Ideal(o, m) = HashHome(hashOf, m)[o]
<1>1. \A o \in Objects : hashOf[o] \in Nat
  BY HashParameters DEF HashAssumption
<1>2. ASSUME NEW a \in Nat PROVE a % m \in 0..(m - 1)
  OBVIOUS
<1> QED BY <1>1, <1>2 DEF HashHome, Ideal

LEMMA NoObjectIsNone == NoObject \notin Objects
BY HashParameters DEF HashAssumption

LEMMA HeadParts ==
  ASSUME NEW h, NEW hash, HeadOk(h, hash)
  PROVE  \E m, tab, e :
           /\ m \in Nat \ {0} /\ tab \in Tables(m) /\ e \in Nat
           /\ h = [table |-> tab, size |-> m, elem |-> e]
           /\ h.table = tab /\ h.size = m /\ h.elem = e /\ m >= 2
           /\ Sound(tab, m, HashHome(hash, m)) /\ Once(tab, m)
           /\ Reached(tab, m, HashHome(hash, m))
           /\ e = Cardinality(Used(tab, m)) /\ e <= m \div 2 /\ e < m
           /\ IsFiniteSet(Within(tab, m)) /\ e = Cardinality(Within(tab, m))
<1>1. PICK m, tab, e :
        /\ m \in Nat \ {0}
        /\ h = [table |-> tab, size |-> m, elem |-> e]
        /\ h.table = tab /\ h.size = m /\ h.elem = e /\ m >= 2
        /\ Sound(tab, m, HashHome(hash, m))
        /\ e = Cardinality(Used(tab, m)) /\ e <= m \div 2
  BY DEF HeadOk
<1>2. tab \in Tables(m) /\ Once(tab, m) /\ Reached(tab, m, HashHome(hash, m))
  BY <1>1 DEF Sound
<1>3. e \in Nat
  <2>1. Cardinality(Used(tab, m)) \in 0..m
    BY <1>1, <1>2, UsedCount
  <2> QED BY <1>1, <2>1
<1>4. e < m
  BY <1>1, <1>3, Halves
<1>5. IsFiniteSet(Within(tab, m)) /\ e = Cardinality(Within(tab, m))
  BY <1>1, <1>2, UsedIsWithin, NoObjectIsNone
<1> QED BY <1>1, <1>2, <1>3, <1>4, <1>5

LEMMA HeadProbe ==
  ASSUME hashOf \in [Objects -> HashValues], NEW h, HeadOk(h, hashOf), NEW o \in Objects
  PROVE  /\ Probe(h, o) \in 0..(h.size - 1)
         /\ h.table[Probe(h, o)] = IF o \in Within(h.table, h.size) THEN o ELSE NoObject
         /\ \A q \in 0..(h.size - 1) :
              Passes(HashHome(hashOf, h.size)[o], q, Probe(h, o), h.size)
              => h.table[q] # NoObject
<1>1. PICK m, tab, e :
        /\ m \in Nat \ {0} /\ tab \in Tables(m) /\ e \in Nat
        /\ h.table = tab /\ h.size = m /\ Once(tab, m)
        /\ Reached(tab, m, HashHome(hashOf, m))
        /\ e = Cardinality(Used(tab, m)) /\ e < m
  BY HeadParts
<1>2. PICK home \in [Objects -> 0..(m - 1)] :
        home = HashHome(hashOf, m) /\ Ideal(o, m) = home[o]
  BY <1>1, HomeIsSlot
<1>3. /\ Probe(h, o) \in 0..(m - 1)
      /\ h.table[Probe(h, o)] = IF o \in Within(h.table, m) THEN o ELSE NoObject
      /\ \A q \in 0..(m - 1) : Passes(home[o], q, Probe(h, o), m) => h.table[q] # NoObject
  BY <1>1, <1>2, ProbeEnds, NoObjectIsNone
<1> QED BY <1>1, <1>2, <1>3

(* An object that the table has not is put into it.                         *)
LEMMA PlacedOk ==
  ASSUME hashOf \in [Objects -> HashValues], NEW h, HeadOk(h, hashOf), NEW o \in Objects,
         o \notin Within(h.table, h.size), ~Full(h)
  PROVE  /\ HeadOk(Placed(h, o), hashOf) /\ Placed(h, o).size = h.size
         /\ Within(Placed(h, o).table, h.size) = Within(h.table, h.size) \cup {o}
<1>1. PICK m, tab, e :
        /\ m \in Nat \ {0} /\ tab \in Tables(m) /\ e \in Nat
        /\ h = [table |-> tab, size |-> m, elem |-> e]
        /\ h.table = tab /\ h.size = m /\ h.elem = e /\ m >= 2
        /\ Sound(tab, m, HashHome(hashOf, m))
        /\ e = Cardinality(Used(tab, m)) /\ e <= m \div 2
  BY HeadParts
<1>2. PICK home \in [Objects -> 0..(m - 1)] : home = HashHome(hashOf, m)
  BY <1>1, HomeIsSlot
<1>3. PICK p \in 0..(m - 1) : p = Probe(h, o)
  BY <1>1, HeadProbe
<1>4. tab[p] = NoObject /\ \A q \in 0..(m - 1) : Passes(home[o], q, p, m) => tab[q] # NoObject
  BY <1>1, <1>2, <1>3, HeadProbe
<1>5. PICK t : t = [tab EXCEPT ![p] = o]
  OBVIOUS
<1>6. /\ Sound(t, m, home) /\ Within(t, m) = Within(tab, m) \cup {o}
      /\ Cardinality(Used(t, m)) = Cardinality(Used(tab, m)) + 1
  <2>1. o \notin Within(tab, m) /\ Sound(tab, m, home)
    BY <1>1, <1>2
  <2>2. Put(t, tab, p, o, m)
    BY <1>1, <1>5, PutIsExcept
  <2> QED BY <1>1, <1>4, <2>1, <2>2, Filling, NoObjectIsNone
<1>7. Placed(h, o) = [table |-> t, size |-> m, elem |-> e + 1]
  <2>1. Placed(h, o) = [h EXCEPT !.table = [h.table EXCEPT ![Probe(h, o)] = o],
                                 !.elem = h.elem + 1]
    BY DEF Placed
  <2>2. Placed(h, o) = [h EXCEPT !.table = t, !.elem = e + 1]
    BY <1>1, <1>3, <1>5, <2>1
  <2> QED BY <1>1, <2>2
<1>8. e + 1 <= m \div 2
  <2>1. e < m \div 2 /\ m \div 2 \in Nat
    BY <1>1, Halves DEF Full
  <2> QED BY <1>1, <2>1
<1> QED BY <1>1, <1>2, <1>6, <1>7, <1>8 DEF HeadOk

(* An object is taken out, and the hole it leaves is closed.                 *)
LEMMA TakenOut ==
  ASSUME HashInv, NEW o \in Objects, head.table[Probe(head, o)] = o
  PROVE  \E m, tab, e :
           /\ m \in Nat \ {0} /\ tab \in Tables(m) /\ e \in Nat
           /\ Without(o) = [table |-> tab, size |-> m, elem |-> e] /\ m = head.size
           /\ Probe(head, o) \in 0..(m - 1) /\ m >= 2
           /\ e = Cardinality(Used(tab, m)) /\ e < m \div 2
           /\ Once(tab, m) /\ Within(tab, m) = Within(head.table, m) \ {o}
           /\ Walking(tab, m, HashHome(hashOf, m), Probe(head, o), 0, Probe(head, o))
<1>1. hashOf \in [Objects -> HashValues] /\ HeadOk(head, hashOf)
  BY DEF HashInv
<1>2. PICK m, tab, e :
        /\ m \in Nat \ {0} /\ tab \in Tables(m) /\ e \in Nat
        /\ head = [table |-> tab, size |-> m, elem |-> e]
        /\ head.table = tab /\ head.size = m /\ head.elem = e /\ m >= 2
        /\ Sound(tab, m, HashHome(hashOf, m)) /\ Once(tab, m)
        /\ e = Cardinality(Used(tab, m)) /\ e <= m \div 2
  BY <1>1, HeadParts
<1>3. PICK p \in 0..(m - 1) : p = Probe(head, o)
  BY <1>1, <1>2, HeadProbe
<1>4. PICK t : t = [tab EXCEPT ![p] = NoObject]
  OBVIOUS
<1>5. /\ t \in Tables(m) /\ t[p] = NoObject
      /\ \A i \in 0..(m - 1) : i # p => t[i] = tab[i]
      /\ Once(t, m) /\ Within(t, m) = Within(tab, m) \ {o}
      /\ Cardinality(Used(t, m)) = Cardinality(Used(tab, m)) - 1
  <2>1. tab[p] = o
    BY <1>2, <1>3
  <2>2. Put(t, tab, p, NoObject, m)
    BY <1>2, <1>4, PutIsExcept
  <2> QED BY <1>2, <2>1, <2>2, Emptying, NoObjectIsNone
<1>6. Walking(t, m, HashHome(hashOf, m), p, 0, p)
  BY <1>2, <1>5, WalkStarts
<1>7. Without(o) = [table |-> t, size |-> m, elem |-> e - 1]
  <2>1. Without(o) = [head EXCEPT !.table = [head.table EXCEPT ![Probe(head, o)] = NoObject],
                                  !.elem = head.elem - 1]
    BY DEF Without
  <2>2. Without(o) = [head EXCEPT !.table = t, !.elem = e - 1]
    BY <1>2, <1>3, <1>4, <2>1
  <2> QED BY <1>2, <2>2
<1>8. e - 1 \in Nat /\ e - 1 < m \div 2
  <2>1. Cardinality(Used(t, m)) \in 0..m
    BY <1>2, <1>5, UsedCount
  <2> QED BY <1>2, <1>5, <2>1, Halves
<1> QED BY <1>2, <1>3, <1>5, <1>6, <1>7, <1>8

LEMMA ClosedOk ==
  ASSUME HashInv, NEW o \in Objects, head.table[Probe(head, o)] = o,
         NEW h, h = Closed(Without(o), Probe(head, o))
  PROVE  /\ HeadOk(h, hashOf)
         /\ Within(h.table, h.size) = Within(head.table, head.size) \ {o}
<1>1. PICK m, tab, e :
        /\ m \in Nat \ {0} /\ tab \in Tables(m) /\ e \in Nat
        /\ Without(o) = [table |-> tab, size |-> m, elem |-> e] /\ m = head.size
        /\ Probe(head, o) \in 0..(m - 1) /\ m >= 2
        /\ e = Cardinality(Used(tab, m)) /\ e < m \div 2
        /\ Once(tab, m) /\ Within(tab, m) = Within(head.table, m) \ {o}
        /\ Walking(tab, m, HashHome(hashOf, m), Probe(head, o), 0, Probe(head, o))
  BY TakenOut
<1>2. PICK home \in [Objects -> 0..(m - 1)] :
        home = HashHome(hashOf, m) /\ \A x \in Objects : Ideal(x, m) = home[x]
  BY <1>1, HomeIsSlot DEF HashInv
<1>3. PICK r \in 0..(m - 1) : r = Probe(head, o)
  BY <1>1
<1>4. PICK old : old = Without(o) /\ old.size = m /\ old.table = tab
  BY <1>1
<1>5. PICK t : /\ Closed(old, r) = [old EXCEPT !.table = t] /\ Sound(t, m, home)
               /\ Within(t, m) = Within(tab, m)
  <2>1. Walking(old.table, m, home, r, 0, r) /\ Cardinality(Used(old.table, m)) < m \div 2
    BY <1>1, <1>2, <1>3, <1>4
  <2> QED BY <1>1, <1>2, <1>4, <2>1, ClosedIsSound, NoObjectIsNone
<1>6. h = [table |-> t, size |-> m, elem |-> e]
  BY <1>1, <1>3, <1>4, <1>5
<1>7. Cardinality(Used(t, m)) = e
  <2>1. t \in Tables(m) /\ Once(t, m)
    BY <1>5 DEF Sound
  <2> QED BY <1>1, <1>5, <2>1, UsedIsWithin, NoObjectIsNone
<1>8. e <= m \div 2
  BY <1>1, Halves
<1> QED BY <1>1, <1>2, <1>5, <1>6, <1>7, <1>8 DEF HeadOk
-----------------------------------------------------------------------------
(* Resizing.                                                                 *)

LEMMA EmptyOk ==
  ASSUME hashOf \in [Objects -> HashValues], NEW m \in Nat, m >= 2
  PROVE  HeadOk(Empty(m), hashOf) /\ Within(Empty(m).table, m) = {} /\ Empty(m).size = m
<1>1. PICK tab : tab = [i \in 0..(m - 1) |-> NoObject]
  OBVIOUS
<1>2. Empty(m) = [table |-> tab, size |-> m, elem |-> 0]
  BY <1>1 DEF Empty
<1>3. Used(tab, m) = {} /\ Within(tab, m) = {}
  BY <1>1, NoObjectIsNone DEF Used, Within
<1>4. Cardinality(Used(tab, m)) = 0
  BY <1>3, FS_EmptySet
<1>5. Sound(tab, m, HashHome(hashOf, m))
  BY <1>1 DEF Sound, Once, Reached, Tables
<1>6. m \div 2 \in Nat
  BY Halves
<1>7. 0 <= m \div 2
  BY <1>6
<1> QED BY <1>2, <1>3, <1>4, <1>5, <1>7 DEF HeadOk

(* One turn of the loop that fills the new table.                            *)
Fill(new, o) == IF o = NoObject \/ Crowded(new) \/ Full(new) THEN new ELSE Placed(new, o)

Heads(size) == {h \in [table : Tables(size), size : {size}, elem : Nat] : HeadOk(h, hashOf)}

(* A size at which as many objects as a table has leave every one a place.   *)
Roomy(elem, size) ==
  /\ size \in Nat /\ size >= 2 /\ elem <= size \div 2
  /\ \A e \in Nat : e < elem => ((e + 1) * 100) \div size <= HighWaterMark /\ e < size \div 2

LEMMA HeadsAreOk ==
  ASSUME hashOf \in [Objects -> HashValues], NEW h, HeadOk(h, hashOf)
  PROVE  h \in Heads(h.size)
<1>1. PICK m, tab, e :
        /\ m \in Nat \ {0} /\ tab \in Tables(m) /\ e \in Nat
        /\ h = [table |-> tab, size |-> m, elem |-> e] /\ h.size = m
  BY HeadParts
<1> QED BY <1>1 DEF Heads

LEMMA FillKeeps ==
  ASSUME hashOf \in [Objects -> HashValues], NEW n \in Nat \ {0}, NEW tab \in Tables(n), Once(tab, n),
         NEW size, Roomy(Cardinality(Used(tab, n)), size), NEW new \in Heads(size),
         NEW k \in 1..n, Within(new.table, size) = Within(tab, k - 1)
  PROVE  Fill(new, tab[k - 1]) \in Heads(size)
         /\ Within(Fill(new, tab[k - 1]).table, size) = Within(tab, k)
<1>1. new.size = size /\ HeadOk(new, hashOf)
  BY DEF Heads
<1>2. k - 1 \in 0..(n - 1)
  OBVIOUS
<1>3. PICK o : o = tab[k - 1] /\ o \in Objects \cup {NoObject}
  BY <1>2 DEF Tables
<1>4. Within(tab, k) = Within(tab, k - 1) \cup ({o} \ {NoObject})
  <2>1. ASSUME NEW i \in Int PROVE i \in 0..(k - 1) <=> i \in 0..(k - 1 - 1) \/ i = k - 1
    OBVIOUS
  <2> QED BY <1>3, <2>1, NoObjectIsNone DEF Within
<1>5. CASE o = NoObject
  <2>1. Fill(new, o) = new
    BY <1>5 DEF Fill
  <2> QED BY <1>3, <1>4, <1>5, <2>1
<1>6. CASE o # NoObject
  <2>1. o \in Objects /\ o \notin Within(tab, k - 1)
    <3>1. ASSUME NEW i \in 0..(k - 1 - 1) PROVE tab[i] # o
      <4>1. i \in 0..(n - 1) /\ i # k - 1
        OBVIOUS
      <4> QED BY <1>2, <1>3, <1>6, <4>1 DEF Once
    <3> QED BY <1>3, <1>6, <3>1 DEF Within
  <2>2. PICK e \in Nat : e = new.elem /\ IsFiniteSet(Within(new.table, size))
                         /\ e = Cardinality(Within(new.table, size))
    BY <1>1, HeadParts
  <2>3. e < Cardinality(Used(tab, n))
    <3>1. Within(tab, k) \subseteq Within(tab, n)
      <4>1. ASSUME NEW i \in 0..(k - 1) PROVE i \in 0..(n - 1)
        OBVIOUS
      <4> QED BY <4>1 DEF Within
    <3>2. IsFiniteSet(Within(tab, n)) /\ Cardinality(Within(tab, n)) = Cardinality(Used(tab, n))
      BY UsedIsWithin, NoObjectIsNone
    <3>3. Within(tab, k) = Within(new.table, size) \cup {o} /\ o \notin Within(new.table, size)
      BY <1>4, <1>6, <2>1
    <3>4. Cardinality(Within(tab, k)) = e + 1
      <4>1. PICK S : S = Within(new.table, size)
        OBVIOUS
      <4>2. IsFiniteSet(S) /\ o \notin S /\ Cardinality(S) = e /\ Within(tab, k) = S \cup {o}
        BY <2>2, <3>3, <4>1
      <4>3. Cardinality(S \cup {o}) = Cardinality(S) + 1
        BY <4>2, FS_AddElement
      <4> QED BY <4>2, <4>3
    <3>5. Cardinality(Within(tab, k)) <= Cardinality(Within(tab, n))
          /\ Cardinality(Within(tab, n)) \in Nat
      BY <3>1, <3>2, FS_Subset, FS_CardinalityType
    <3> QED BY <3>2, <3>4, <3>5
  <2>4. ((e + 1) * 100) \div size <= HighWaterMark /\ e < size \div 2 /\ size \in Nat \ {0}
    BY <2>3 DEF Roomy
  <2>5. HighWaterMark \in Nat /\ size \div 2 \in Nat
    BY <2>4, Halves, HashParameters DEF HashAssumption
  <2>6. ~Full(new)
    BY <1>1, <2>2, <2>4, <2>5 DEF Full
  <2>7. ~Crowded(new)
    <3>1. PICK q \in Int : q = ((e + 1) * 100) \div size
      BY <2>4
    <3>2. ~(q > HighWaterMark)
      BY <2>4, <2>5, <3>1
    <3> QED BY <1>1, <2>2, <3>1, <3>2 DEF Crowded
  <2>8. Fill(new, o) = Placed(new, o)
    BY <1>6, <2>6, <2>7 DEF Fill
  <2>9. o \notin Within(new.table, new.size)
    BY <1>1, <2>1
  <2>10. /\ HeadOk(Placed(new, o), hashOf) /\ Placed(new, o).size = size
         /\ Within(Placed(new, o).table, size) = Within(new.table, size) \cup {o}
    BY <1>1, <2>1, <2>6, <2>9, PlacedOk
  <2>11. Placed(new, o) \in Heads(size)
    BY <2>10, HeadsAreOk
  <2> QED BY <1>3, <1>4, <1>6, <2>8, <2>10, <2>11
<1> QED BY <1>5, <1>6

LEMMA ResizedOk ==
  ASSUME hashOf \in [Objects -> HashValues], NEW h, NEW n \in Nat \ {0}, h.size = n,
         h.table \in Tables(n), Once(h.table, n),
         NEW size, Roomy(Cardinality(Used(h.table, n)), size)
  PROVE  /\ HeadOk(Resized(h, size), hashOf) /\ Resized(h, size).size = size
         /\ Within(Resized(h, size).table, size) = Within(h.table, n)
<1>1. PICK start : start = Empty(size)
  OBVIOUS
<1>2. start \in Heads(size) /\ Within(start.table, size) = Within(h.table, 0)
  <2>1. /\ HeadOk(Empty(size), hashOf) /\ Within(Empty(size).table, size) = {}
        /\ Empty(size).size = size
    BY EmptyOk DEF Roomy
  <2>2. Within(h.table, 0) = {}
    BY DEF Within
  <2> QED BY <1>1, <2>1, <2>2, HeadsAreOk
<1>3. PICK tab \in Tables(n) : tab = h.table
  OBVIOUS
<1>4. PICK turn : turn = [x \in (1..n) \X Heads(size) |->
                            IF Fill(x[2], tab[x[1] - 1]) \in Heads(size)
                            THEN Fill(x[2], tab[x[1] - 1]) ELSE x[2]]
  OBVIOUS
<1>5. PICK f \in [0..n -> Heads(size)] :
        /\ f[0] = start
        /\ \A k \in 1..n : f[k] = turn[<<k, f[k - 1]>>]
  <2>1. PICK S : S = Heads(size)
    OBVIOUS
  <2>2. start \in S /\ turn \in Turns(n, S) /\ n \in Nat
    BY <1>2, <1>4, <2>1 DEF Turns
  <2>3. \E g : Runs(g, n, S, start, turn)
    BY <2>2, LoopRuns
  <2> QED BY <2>1, <2>3 DEF Runs
<1> DEFINE Good(k) == f[k] \in Heads(size) /\ Within(f[k].table, size) = Within(tab, k)
<1>6. \A k \in 0..n : Good(k) /\ (k # 0 => f[k] = Fill(f[k - 1], tab[k - 1]))
  <2>1. Good(0)
    BY <1>2, <1>3, <1>5
  <2>2. ASSUME NEW k \in 1..n, Good(k - 1) PROVE Good(k) /\ f[k] = Fill(f[k - 1], tab[k - 1])
    <3>1. PICK w \in Heads(size) : w = f[k - 1]
      BY <2>2
    <3>2. /\ Fill(w, tab[k - 1]) \in Heads(size)
          /\ Within(Fill(w, tab[k - 1]).table, size) = Within(tab, k)
      BY <1>3, <2>2, <3>1, FillKeeps
    <3>3. f[k] = turn[<<k, w>>]
      BY <1>5, <3>1
    <3>4. f[k] = Fill(w, tab[k - 1])
      BY <1>4, <3>2, <3>3
    <3> QED BY <3>1, <3>2, <3>4
  <2>3. \A k \in 0..n : Good(k)
    <3> SUFFICES ASSUME \E k \in 0..n : ~Good(k) PROVE FALSE
      OBVIOUS
    <3>1. PICK T : T = {k \in 0..n : ~Good(k)}
      OBVIOUS
    <3>2. PICK k \in T : \A l \in T : k <= l
      <4>1. T \in SUBSET Nat /\ T # {}
        BY <3>1
      <4> QED BY <4>1, LeastNumber
    <3>3. k \in 0..n /\ ~Good(k) /\ k # 0
      BY <2>1, <3>1, <3>2
    <3>4. k \in 1..n /\ k - 1 \in 0..n /\ k - 1 \notin T
      BY <3>2, <3>3
    <3>5. Good(k - 1)
      BY <3>1, <3>4
    <3> QED BY <2>2, <3>3, <3>4, <3>5
  <2> QED BY <2>2, <2>3
<1>7. PICK filled : filled = CHOOSE g : g = [i \in 0 .. h.size |->
        IF i = 0 THEN Empty(size)
        ELSE IF h.table[i - 1] = NoObject \/ Crowded(g[i - 1]) \/ Full(g[i - 1])
             THEN g[i - 1] ELSE Placed(g[i - 1], h.table[i - 1])]
  OBVIOUS
<1>8. filled = CHOOSE g : g = [i \in 0 .. h.size |->
                 IF i = 0 THEN Empty(size) ELSE Fill(g[i - 1], h.table[i - 1])]
  BY <1>7 DEF Fill
<1>9. Resized(h, size) = filled[n]
  BY <1>7 DEF Resized
<1>10. filled = [k \in 0..n |-> IF k = 0 THEN start ELSE Fill(filled[k - 1], tab[k - 1])]
  <2>1. PICK g : g = [i \in 0 .. h.size |->
                        IF i = 0 THEN Empty(size) ELSE Fill(f[i - 1], h.table[i - 1])]
    OBVIOUS
  <2>2. ASSUME NEW k \in 0..n PROVE g[k] = f[k]
    BY <1>1, <1>3, <1>5, <1>6, <2>1
  <2>3. f = g
    BY <1>5, <2>1, <2>2
  <2>4. filled = [i \in 0 .. h.size |->
                    IF i = 0 THEN Empty(size) ELSE Fill(filled[i - 1], h.table[i - 1])]
    BY <1>8, <2>1, <2>3
  <2> QED BY <1>1, <1>3, <2>4
<1>11. \A k \in 0..n : filled[k] = f[k]
  <2> SUFFICES ASSUME \E k \in 0..n : filled[k] # f[k] PROVE FALSE
    OBVIOUS
  <2>1. PICK T : T = {k \in 0..n : filled[k] # f[k]}
    OBVIOUS
  <2>2. PICK k \in T : \A l \in T : k <= l
    <3>1. T \in SUBSET Nat /\ T # {}
      BY <2>1
    <3> QED BY <3>1, LeastNumber
  <2>3. k \in 0..n /\ filled[k] # f[k] /\ k # 0
    BY <1>5, <1>10, <2>1, <2>2
  <2>4. k - 1 \in 0..n /\ k - 1 \notin T
    BY <2>2, <2>3
  <2>5. filled[k - 1] = f[k - 1]
    BY <2>1, <2>4
  <2> QED BY <1>6, <1>10, <2>3, <2>5
<1>12. n \in 0..n
  OBVIOUS
<1>13. Resized(h, size) = f[n] /\ Good(n)
  BY <1>6, <1>9, <1>11, <1>12
<1> QED BY <1>3, <1>13 DEF Heads
(* The quotient of the integers below and above a product.                  *)
LEMMA Quotients ==
  ASSUME NEW a \in Nat, NEW m \in Nat \ {0}, NEW b \in Nat
  PROVE  (a < (b + 1) * m => a \div m <= b) /\ (a \div m < b => a < b * m)
         /\ a \div m \in Nat
<1>1. PICK q \in Nat : q = a \div m /\ q * m <= a /\ a < q * m + m
  OBVIOUS
<1>2. ASSUME a < (b + 1) * m, q > b PROVE FALSE
  <2>1. PICK d \in Nat : q = b + 1 + d
    <3>1. q - b - 1 \in Nat /\ q = b + 1 + (q - b - 1)
      BY <1>2
    <3> QED BY <3>1
  <2>2. q * m = (b + 1) * m + d * m /\ d * m \in Nat /\ (b + 1) * m \in Nat
    BY <2>1
  <2>3. q * m \in Nat
    OBVIOUS
  <2> QED BY <1>1, <1>2, <2>2, <2>3
<1>3. ASSUME q < b PROVE a < b * m
  <2>1. PICK d \in Nat : b = q + 1 + d
    <3>1. b - q - 1 \in Nat /\ b = q + 1 + (b - q - 1)
      BY <1>3
    <3> QED BY <3>1
  <2>2. b * m = q * m + m + d * m /\ d * m \in Nat /\ q * m \in Nat
    BY <2>1
  <2>3. b * m \in Nat
    OBVIOUS
  <2> QED BY <1>1, <2>2, <2>3
<1> QED BY <1>1, <1>2, <1>3

(* More than twice its size leaves room for what a table holds.              *)
LEMMA GrownIsRoomy ==
  ASSUME NEW m \in Nat, m >= 2, NEW elem \in Nat, elem <= m \div 2
  PROVE  Roomy(elem, 2 * m + 3)
<1>1. PICK size \in Nat : size = 2 * m + 3
  OBVIOUS
<1>2. 2 * elem <= m
  BY Halves
<1>3. size \div 2 \in Nat /\ elem < size \div 2
  BY <1>1, <1>2, Halves
<1>4. ASSUME NEW e \in Nat, e < elem
      PROVE  ((e + 1) * 100) \div size <= HighWaterMark /\ e < size \div 2
  <2>1. PICK a \in Nat : a = (e + 1) * 100 /\ a < 26 * size
    <3>1. (e + 1) * 100 \in Nat /\ (e + 1) * 100 < 26 * size
      BY <1>1, <1>2, <1>4
    <3> QED BY <3>1
  <2>2. PICK q \in Nat : q = a \div size /\ q <= 25
    <3>1. size \in Nat \ {0} /\ 25 \in Nat /\ a < (25 + 1) * size
      BY <1>1, <2>1
    <3>2. a \div size <= 25 /\ a \div size \in Nat
      BY <3>1, Quotients
    <3> QED BY <3>2
  <2>3. HighWaterMark \in Nat /\ HighWaterMark >= 25
    BY HashParameters DEF HashAssumption
  <2> QED BY <1>3, <1>4, <2>1, <2>2, <2>3
<1> QED BY <1>1, <1>3, <1>4 DEF Roomy

(* So does less than half its size, when it holds as little as it must to    *)
(* shrink.                                                                   *)
LEMMA ShrunkIsRoomy ==
  ASSUME NEW m \in Nat, m >= 6, NEW elem \in Nat, (elem * 100) \div m < LowWaterMark
  PROVE  Roomy(elem, m \div 2 - 1)
<1>1. PICK size \in Nat : size = m \div 2 - 1 /\ size >= 2 /\ m <= 2 * size + 3
  <2>1. m \div 2 - 1 \in Nat /\ m \div 2 - 1 >= 2 /\ m <= 2 * (m \div 2 - 1) + 3
    BY Halves
  <2> QED BY <2>1
<1>2. LowWaterMark \in 0..12 /\ HighWaterMark \in Nat /\ 4 * LowWaterMark <= HighWaterMark + 1
  BY HashParameters DEF HashAssumption
<1>3. elem * 100 < LowWaterMark * m
  <2>1. PICK a \in Nat : a = elem * 100
    OBVIOUS
  <2>2. m \in Nat \ {0} /\ LowWaterMark \in Nat
    BY <1>2
  <2>3. a \div m < LowWaterMark => a < LowWaterMark * m
    BY <2>2, Quotients
  <2> QED BY <2>1, <2>3
<1>4. PICK d \in Nat : 4 * size = m + d
  <2>1. 4 * size - m \in Nat /\ 4 * size = m + (4 * size - m)
    BY <1>1
  <2> QED BY <2>1
<1>5. LowWaterMark * m <= LowWaterMark * (4 * size) /\ LowWaterMark * m <= 12 * m
  <2>1. LowWaterMark * (4 * size) = LowWaterMark * m + LowWaterMark * d
    BY <1>2, <1>4
  <2>2. LowWaterMark * d \in Nat /\ LowWaterMark * m \in Nat
    BY <1>2
  <2>3. PICK c \in Nat : 12 = LowWaterMark + c
    <3>1. 12 - LowWaterMark \in Nat /\ 12 = LowWaterMark + (12 - LowWaterMark)
      BY <1>2
    <3> QED BY <3>1
  <2>4. 12 * m = LowWaterMark * m + c * m /\ c * m \in Nat
    BY <1>2, <2>3
  <2> QED BY <2>1, <2>2, <2>4
<1>6. LowWaterMark * (4 * size) <= (HighWaterMark + 1) * size
  <2>1. PICK c \in Nat : HighWaterMark + 1 = 4 * LowWaterMark + c
    <3>1. HighWaterMark + 1 - 4 * LowWaterMark \in Nat
          /\ HighWaterMark + 1 = 4 * LowWaterMark + (HighWaterMark + 1 - 4 * LowWaterMark)
      BY <1>2
    <3> QED BY <3>1
  <2>2. (HighWaterMark + 1) * size = LowWaterMark * (4 * size) + c * size /\ c * size \in Nat
    BY <1>2, <2>1
  <2>3. LowWaterMark * (4 * size) \in Nat
    BY <1>2
  <2> QED BY <2>2, <2>3
<1>7. PICK bound \in Nat : bound = (HighWaterMark + 1) * size /\ elem * 100 < bound
  <2>1. (HighWaterMark + 1) * size \in Nat /\ LowWaterMark * m \in Nat
        /\ LowWaterMark * (4 * size) \in Nat
    BY <1>2
  <2> QED BY <1>3, <1>5, <1>6, <2>1
<1>8. elem * 100 < 24 * size + 36
  <2>1. LowWaterMark * m \in Nat
    BY <1>2
  <2> QED BY <1>1, <1>3, <1>5, <2>1
<1>9. size \div 2 \in Nat /\ elem <= size \div 2
  <2>1. size \div 2 \in Nat /\ size <= 2 * (size \div 2) + 1
    BY Halves
  <2> QED BY <1>1, <1>8, <2>1
<1>10. ASSUME NEW e \in Nat, e < elem
       PROVE  ((e + 1) * 100) \div size <= HighWaterMark /\ e < size \div 2
  <2>1. PICK a \in Nat : a = (e + 1) * 100 /\ a < bound
    <3>1. (e + 1) * 100 \in Nat /\ (e + 1) * 100 < bound
      BY <1>7, <1>10
    <3> QED BY <3>1
  <2>2. a \div size <= HighWaterMark
    BY <1>1, <1>2, <1>7, <2>1, Quotients
  <2> QED BY <1>9, <1>10, <2>1, <2>2
<1> QED BY <1>1, <1>9, <1>10 DEF Roomy
-----------------------------------------------------------------------------
(* Every step keeps the invariant and is one of a set of objects.            *)

Content == Within(head.table, head.size)

LEMMA HeldIsContent == HashInv => Held = Content
<1> SUFFICES ASSUME HashInv PROVE Held = Content
  OBVIOUS
<1>1. hashOf \in [Objects -> HashValues] /\ HeadOk(head, hashOf)
  BY DEF HashInv
<1>2. ASSUME NEW o \in Objects
      PROVE  head.table[Probe(head, o)] = IF o \in Content THEN o ELSE NoObject
  BY <1>1, HeadProbe DEF Content
<1>3. Content \subseteq Objects
  BY DEF Content, Within
<1> QED BY <1>2, <1>3, NoObjectIsNone DEF Held, Get

LEMMA HashStarts == Init => HashInv /\ Content = {}
<1> SUFFICES ASSUME Init PROVE HashInv /\ Content = {}
  OBVIOUS
<1>1. InitialSize \in Nat /\ InitialSize >= 2
  BY HashParameters DEF HashAssumption
<1>2. hashOf \in [Objects -> HashValues] /\ head = Empty(InitialSize) /\ ret = 0
  BY DEF Init
<1>3. /\ HeadOk(head, hashOf) /\ Within(head.table, InitialSize) = {}
      /\ head.size = InitialSize
  BY <1>1, <1>2, EmptyOk
<1> QED BY <1>2, <1>3 DEF HashInv, Content

LEMMA AddStep ==
  ASSUME HashInv, NEW o \in Objects, Add(o), UNCHANGED hashOf
  PROVE  /\ HeadOk(head', hashOf)
         /\ \/ o \notin Content /\ Content' = Content \cup {o} /\ ret' = 0
            \/ Content' = Content /\ ret' = -1
<1>1. hashOf \in [Objects -> HashValues] /\ HeadOk(head, hashOf)
  BY DEF HashInv
<1>2. PICK h : h = IF Crowded(head) THEN Resized(head, 2 * head.size + 3) ELSE head
  OBVIOUS
<1>3. HeadOk(h, hashOf) /\ Within(h.table, h.size) = Content
  <2>1. CASE ~Crowded(head)
    BY <1>1, <1>2, <2>1 DEF Content
  <2>2. CASE Crowded(head)
    <3>1. PICK m, tab, e :
            /\ m \in Nat \ {0} /\ tab \in Tables(m) /\ e \in Nat
            /\ head.table = tab /\ head.size = m /\ m >= 2 /\ Once(tab, m)
            /\ e = Cardinality(Used(tab, m)) /\ e <= m \div 2
      BY <1>1, HeadParts
    <3>2. Roomy(e, 2 * m + 3)
      BY <3>1, GrownIsRoomy
    <3>3. h = Resized(head, 2 * m + 3)
      BY <1>2, <2>2, <3>1
    <3> QED BY <1>1, <3>1, <3>2, <3>3, ResizedOk DEF Content
  <2> QED BY <2>1, <2>2
<1>4. CASE head' = h /\ ret' = -1
  BY <1>3, <1>4 DEF Content
<1>5. CASE /\ ~Full(h) /\ h.table[Probe(h, o)] # o
           /\ head' = Placed(h, o) /\ ret' = 0
  <2>1. o \notin Within(h.table, h.size)
    BY <1>1, <1>3, <1>5, HeadProbe
  <2>2. /\ HeadOk(Placed(h, o), hashOf) /\ Placed(h, o).size = h.size
        /\ Within(Placed(h, o).table, h.size) = Within(h.table, h.size) \cup {o}
    BY <1>1, <1>3, <1>5, <2>1, PlacedOk
  <2> QED BY <1>3, <1>5, <2>1, <2>2 DEF Content
<1>6. IF Full(h) \/ h.table[Probe(h, o)] = o
      THEN head' = h /\ ret' = -1
      ELSE head' = Placed(h, o) /\ ret' = 0
  BY <1>2 DEF Add
<1> QED BY <1>4, <1>5, <1>6

LEMMA RemoveStep ==
  ASSUME HashInv, NEW o \in Objects, Remove(o), UNCHANGED hashOf
  PROVE  /\ HeadOk(head', hashOf)
         /\ o \in Content /\ Content' = Content \ {o} /\ ret' = 0
<1>1. hashOf \in [Objects -> HashValues] /\ HeadOk(head, hashOf)
  BY DEF HashInv
<1>2. head.table[Probe(head, o)] = o /\ ret' = 0
  BY DEF Remove
<1>3. o \in Content
  BY <1>1, <1>2, HeadProbe, NoObjectIsNone DEF Content
<1>4. CASE head' = Closed(Without(o), Probe(head, o))
  BY <1>2, <1>3, <1>4, ClosedOk DEF Content
<1>5. CASE Sparse(Without(o)) /\ head' = Resized(Without(o), head.size \div 2 - 1)
  <2>1. PICK m, tab, e :
          /\ m \in Nat \ {0} /\ tab \in Tables(m) /\ e \in Nat
          /\ Without(o) = [table |-> tab, size |-> m, elem |-> e] /\ m = head.size
          /\ e = Cardinality(Used(tab, m)) /\ Once(tab, m)
          /\ Within(tab, m) = Within(head.table, m) \ {o}
    BY <1>2, TakenOut
  <2>2. PICK h : /\ h = Without(o) /\ h.table = tab /\ h.size = m /\ h.elem = e
    BY <2>1
  <2>3. m > InitialSize /\ (e * 100) \div m < LowWaterMark
    BY <1>5, <2>2 DEF Sparse
  <2>4. m >= 6
    BY <2>1, <2>3, HashParameters DEF HashAssumption
  <2>5. Roomy(e, m \div 2 - 1)
    BY <2>1, <2>3, <2>4, ShrunkIsRoomy
  <2>6. PICK size : size = m \div 2 - 1
    OBVIOUS
  <2>7. /\ HeadOk(Resized(h, size), hashOf) /\ Resized(h, size).size = size
        /\ Within(Resized(h, size).table, size) = Within(tab, m)
    BY <1>1, <2>1, <2>2, <2>5, <2>6, ResizedOk
  <2>8. head' = Resized(h, size)
    BY <1>5, <2>1, <2>2, <2>6
  <2> QED BY <1>2, <1>3, <2>1, <2>7, <2>8 DEF Content
<1> QED BY <1>4, <1>5 DEF Remove

LEMMA HashNextStep ==
  ASSUME HashInv, [Next]_vars
  PROVE  /\ HashInv'
         /\ \/ /\ \E o \in Objects :
                    \/ o \notin Content /\ Content' = Content \cup {o} /\ ret' = 0
                    \/ Content' = Content /\ ret' = -1
                    \/ Content' = Content \ {o} /\ ret' = IF o \in Content THEN 0 ELSE -1
            \/ Content' = Content /\ ret' = ret
<1>1. hashOf \in [Objects -> HashValues] /\ HeadOk(head, hashOf) /\ ret \in {0, -1}
  BY DEF HashInv
<1>2. CASE UNCHANGED vars
  BY <1>1, <1>2 DEF vars, HashInv, Content
<1>3. CASE Next
  <2>1. PICK o \in Objects : Add(o) \/ AddWithoutMemory(o) \/ RemoveMissing(o) \/ Remove(o)
    BY <1>3 DEF Next
  <2>2. UNCHANGED hashOf
    BY <1>3 DEF Next
  <2>3. CASE Add(o)
    <3>1. /\ HeadOk(head', hashOf)
          /\ \/ o \notin Content /\ Content' = Content \cup {o} /\ ret' = 0
             \/ Content' = Content /\ ret' = -1
      BY <2>2, <2>3, AddStep
    <3>2. HashInv'
      BY <1>1, <2>2, <3>1 DEF HashInv
    <3> QED BY <3>1, <3>2
  <2>4. CASE AddWithoutMemory(o)
    BY <1>1, <2>2, <2>4 DEF AddWithoutMemory, HashInv, Content
  <2>5. CASE RemoveMissing(o)
    BY <1>1, <2>2, <2>5 DEF RemoveMissing, HashInv, Content
  <2>6. CASE Remove(o)
    <3>1. HeadOk(head', hashOf) /\ o \in Content /\ Content' = Content \ {o} /\ ret' = 0
      BY <2>2, <2>6, RemoveStep
    <3>2. HashInv'
      BY <1>1, <2>2, <3>1 DEF HashInv
    <3> QED BY <3>1, <3>2
  <2> QED BY <2>1, <2>3, <2>4, <2>5, <2>6
<1> QED BY <1>2, <1>3

(* Every object of the table is found where its hash sends a search, through *)
(* every growing, shrinking and closing of holes, each one once, and no more *)
(* than half of the slots are in use (pp_nhash_add, pp_nhash_remove).        *)
THEOREM HashInvariant == Spec => []HashInv
<1>1. Init => HashInv
  BY HashStarts
<1>2. HashInv /\ [Next]_vars => HashInv'
  BY HashNextStep
<1> QED BY <1>1, <1>2, PTL DEF Spec

(* The table implements a set: whatever was added and not removed since is   *)
(* found by its key, and nothing else is.                                    *)
THEOREM TableIsSet == Spec => SetSpec
<1>1. Init => ImplementsSet!Init
  <2> SUFFICES ASSUME Init PROVE ImplementsSet!Init
    OBVIOUS
  <2>1. Held = {} /\ ret = 0
    BY HashStarts, HeldIsContent DEF Init
  <2> QED BY <2>1 DEF ImplementsSet!Init
<1>2. HashInv /\ Held = Content /\ (Held = Content)' /\ [Next]_vars
      => [UNCHANGED vars \/ ImplementsSet!Next]_<<Held, ret>>
  <2> SUFFICES ASSUME HashInv, Held = Content, Held' = Content', [Next]_vars
               PROVE  ImplementsSet!Next \/ UNCHANGED <<Held, ret>>
    OBVIOUS
  <2>1. CASE Content' = Content /\ ret' = ret
    BY <2>1
  <2>2. ASSUME NEW o \in Objects,
               \/ o \notin Content /\ Content' = Content \cup {o} /\ ret' = 0
               \/ Content' = Content /\ ret' = -1
               \/ Content' = Content \ {o} /\ ret' = IF o \in Content THEN 0 ELSE -1
        PROVE  ImplementsSet!Next
    BY <2>2 DEF ImplementsSet!Next, ImplementsSet!Add, ImplementsSet!Remove
  <2> QED BY <2>1, <2>2, HashNextStep
<1>3. HashInv => Held = Content
  BY HeldIsContent
<1> QED BY <1>1, <1>2, <1>3, HashInvariant, PTL DEF Spec, SetSpec

(* The table has size slots, each with an object or none, and its count is   *)
(* never more than them (pp_nhash_t).                                        *)
THEOREM HashTypes == Spec => []TypeOK
<1>1. HashInv => TypeOK
  <2> SUFFICES ASSUME HashInv PROVE TypeOK
    OBVIOUS
  <2>1. PICK m, tab, e :
          /\ m \in Nat \ {0} /\ tab \in Tables(m) /\ e \in Nat
          /\ head.table = tab /\ head.size = m /\ head.elem = e /\ e < m
    BY HeadParts DEF HashInv
  <2> QED BY <2>1 DEF TypeOK, HashInv, Slots, Tables
<1> QED BY <1>1, HashInvariant, PTL
===============================================================================
