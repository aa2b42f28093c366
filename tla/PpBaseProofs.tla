----------------------------- MODULE PpBaseProofs ----------------------------
(***************************************************************************)
(* Proofs about the queue, the ring and the log of pp_base: PpMq for pools *)
(* and threads of any number, PpRing and PpLog for buffers of any size.    *)
(* The lemmas of the ring name the size of its buffer, for the ring of     *)
(* PpRing and the log's ring are two of different sizes.                   *)
(***************************************************************************)
EXTENDS MCPpBase, SequenceTheorems, WellFoundedInduction, TLAPS

Links == [Nodes -> Nodes \cup {NULL}]
Lists == [head : Nodes \cup {NULL}, tail : Nodes \cup {NULL}]

-----------------------------------------------------------------------------
(* The two list operations.                                                *)

(* A list that spells s, given another node, spells s with it at the end. *)
LEMMA PutAppends ==
  ASSUME NEW links \in Links, NEW list \in Lists, NEW s \in Seq(Nodes), NEW node \in Nodes,
         Spells(links, list, s), Distinct(s), \A i \in 1..Len(s) : s[i] # node
  PROVE  LET put == SlistPut(list, links, node) IN
           /\ put.next \in Links
           /\ put.list \in Lists
           /\ Spells(put.next, put.list, Append(s, node))
           /\ Distinct(Append(s, node))
           /\ \A m \in Nodes \ {node} :
                (\A i \in 1..Len(s) : s[i] # m) => put.next[m] = links[m]
<1> DEFINE put == SlistPut(list, links, node)
           t   == Append(s, node)
<1>0. /\ node # NULL
      /\ Len(t) = Len(s) + 1 /\ t # <<>>
      /\ t[Len(t)] = node
      /\ \A i \in 1..Len(s) : t[i] = s[i] /\ s[i] \in Nodes
      /\ Len(s) \in Nat
  BY MqAssumption DEF Nodes
<1>1. Distinct(t)
  BY <1>0 DEF Distinct
<1>2. CASE s = <<>>
  <2>1. put = [list |-> [head |-> node, tail |-> node], next |-> [links EXCEPT ![node] = NULL]]
    BY <1>2 DEF Spells, SlistPut, EmptyList
  <2>2. t = <<node>> /\ Len(s) = 0
    BY <1>2
  <2>3. put.next \in Links /\ put.list \in Lists
    BY <2>1 DEF Links, Lists
  <2>4. put.next[node] = NULL
    BY <2>1 DEF Links
  <2>5. Spells(put.next, put.list, t)
    BY <2>1, <2>2, <2>4 DEF Spells
  <2>6. \A m \in Nodes \ {node} : put.next[m] = links[m]
    BY <2>1 DEF Links
  <2>7. QED BY <1>1, <2>3, <2>5, <2>6
<1>3. CASE s # <<>>
  <2>1. /\ list = [head |-> s[1], tail |-> s[Len(s)]]
        /\ Len(s) \in 1..Len(s) /\ 1 \in 1..Len(s)
    BY <1>0, <1>3 DEF Spells
  <2>2. list.head # NULL /\ s[Len(s)] \in Nodes /\ s[Len(s)] # node
    BY <1>0, <2>1, MqAssumption DEF Nodes
  <2>3. /\ put.list = [head |-> s[1], tail |-> node]
        /\ put.next = [links EXCEPT ![node] = NULL, ![s[Len(s)]] = node]
    BY <2>1, <2>2 DEF SlistPut
  <2>4. put.next \in Links /\ put.list \in Lists
    <3>1. s[1] \in Nodes /\ node \in Nodes
      BY <1>0, <2>1
    <3>2. put.list \in Lists
      BY <3>1, <2>3 DEF Lists
    <3>3. [links EXCEPT ![node] = NULL, ![s[Len(s)]] = node] \in Links
      BY <2>2 DEF Links
    <3>4. QED BY <3>2, <3>3, <2>3
  <2>5. /\ put.next[node] = NULL
        /\ put.next[s[Len(s)]] = node
        /\ \A m \in Nodes \ {node, s[Len(s)]} : put.next[m] = links[m]
    BY <2>2, <2>3 DEF Links
  <2>6. \A i \in 1..(Len(t) - 1) : put.next[t[i]] = t[i + 1]
    <3>0. \A i \in 1..(Len(t) - 1) : i \in 1..Len(s) /\ t[i] = s[i]
      BY <1>0
    <3> HIDE DEF put, t
    <3> SUFFICES ASSUME NEW i \in 1..Len(s) PROVE put.next[s[i]] = t[i + 1]
      BY <3>0
    <3>1. CASE i = Len(s)
      BY <3>1, <1>0, <2>5
    <3>2. CASE i # Len(s)
      <4>1. i \in 1..(Len(s) - 1) /\ i + 1 \in 1..Len(s)
        BY <3>2, <1>0
      <4>2. links[s[i]] = s[i + 1]
        BY <4>1 DEF Spells
      <4>3. s[i] \in Nodes \ {node, s[Len(s)]}
        BY <1>0, <2>1, <3>2 DEF Distinct
      <4>4. QED BY <1>0, <2>5, <4>1, <4>2, <4>3
    <3>3. QED BY <3>1, <3>2
  <2>7. t[1] = s[1]
    BY <1>0, <2>1
  <2>8. Spells(put.next, put.list, t)
    BY <1>0, <2>3, <2>5, <2>6, <2>7 DEF Spells
  <2>9. \A m \in Nodes \ {node} : (\A i \in 1..Len(s) : s[i] # m) => put.next[m] = links[m]
    BY <2>1, <2>5
  <2>10. QED BY <1>1, <2>4, <2>8, <2>9
<1>4. QED BY <1>2, <1>3

(* Taking the head of a list that spells s leaves one that spells Tail(s). *)
LEMMA GetTakesHead ==
  ASSUME NEW links \in Links, NEW list \in Lists, NEW s \in Seq(Nodes),
         Spells(links, list, s), Distinct(s), list.head # NULL
  PROVE  /\ s # <<>> /\ list.head = s[1] /\ s[1] \in Nodes
         /\ SlistGet(list, links) \in Lists
         /\ Spells(links, SlistGet(list, links), Tail(s))
         /\ Tail(s) \in Seq(Nodes) /\ Distinct(Tail(s))
         /\ Len(Tail(s)) = Len(s) - 1
         /\ \A i \in 1..Len(Tail(s)) : Tail(s)[i] = s[i + 1] /\ Tail(s)[i] # s[1]
<1>1. s # <<>> /\ list = [head |-> s[1], tail |-> s[Len(s)]] /\ links[s[Len(s)]] = NULL
  BY DEF Spells, EmptyList
<1> DEFINE t == Tail(s)
<1>2. /\ t \in Seq(Nodes) /\ Len(t) = Len(s) - 1 /\ Len(s) \in Nat \ {0}
      /\ \A i \in 1..Len(t) : t[i] = s[i + 1]
      /\ \A i \in 1..Len(s) : s[i] \in Nodes
  BY <1>1
<1>3. Distinct(t) /\ \A i \in 1..Len(t) : t[i] # s[1]
  BY <1>2 DEF Distinct
<1>4. SlistGet(list, links) \in Lists
  BY <1>1, <1>2 DEF SlistGet, Lists, Links
<1>5. CASE Len(s) = 1
  <2>1. t = <<>>
    <3> HIDE DEF t
    <3>1. Len(t) = 0
      BY <1>2, <1>5
    <3>2. QED BY <1>2, <3>1
  <2>2. SlistGet(list, links) = EmptyList
    BY <1>1, <1>5 DEF SlistGet, EmptyList
  <2>3. Spells(links, SlistGet(list, links), t)
    BY <2>1, <2>2 DEF Spells
  <2>4. QED BY <1>1, <1>2, <1>3, <1>4, <2>3
<1>6. CASE Len(s) # 1
  <2>1. t # <<>> /\ Len(t) \in 1..Len(t) /\ 1 \in 1..Len(t)
    <3> HIDE DEF t
    <3>1. Len(t) \in Nat \ {0}
      BY <1>2, <1>6
    <3>2. QED BY <1>2, <3>1
  <2>2. t[1] = s[2] /\ t[Len(t)] = s[Len(s)] /\ s[Len(s)] # s[1]
    BY <1>2, <1>6, <2>1 DEF Distinct
  <2>3. links[s[1]] = s[2]
    BY <1>2, <1>6 DEF Spells
  <2>4. SlistGet(list, links) = [head |-> t[1], tail |-> t[Len(t)]]
    <3>1. list.head = s[1] /\ list.tail = s[Len(s)]
      BY <1>1
    <3>2. QED BY <3>1, <2>2, <2>3 DEF SlistGet
  <2>5. \A i \in 1..(Len(t) - 1) : links[t[i]] = t[i + 1]
    <3> SUFFICES ASSUME NEW i \in 1..(Len(t) - 1) PROVE links[t[i]] = t[i + 1]
      OBVIOUS
    <3>1. i \in 1..Len(t) /\ i + 1 \in 1..Len(t) /\ i + 1 \in 1..(Len(s) - 1)
      BY <1>2
    <3>2. links[s[i + 1]] = s[(i + 1) + 1]
      BY <3>1 DEF Spells
    <3>3. QED BY <1>2, <3>1, <3>2
  <2>6. Spells(links, SlistGet(list, links), t)
    <3>1. links[t[Len(t)]] = NULL
      BY <1>1, <2>2
    <3> HIDE DEF t
    <3>2. QED BY <2>1, <2>4, <2>5, <3>1 DEF Spells
  <2>7. QED BY <1>1, <1>2, <1>3, <1>4, <2>6
<1>7. QED BY <1>5, <1>6

(* A list does not notice changed links of nodes it does not hold. *)
LEMMA SpellsFrame ==
  ASSUME NEW links, NEW links2, NEW list, NEW s \in Seq(Nodes),
         Spells(links, list, s), \A i \in 1..Len(s) : links2[s[i]] = links[s[i]]
  PROVE  Spells(links2, list, s)
<1>1. s # <<>> => Len(s) \in 1..Len(s)
  OBVIOUS
<1>2. \A i \in 1..(Len(s) - 1) : i \in 1..Len(s)
  OBVIOUS
<1>3. QED BY <1>1, <1>2 DEF Spells

-----------------------------------------------------------------------------
(* The pool.                                                               *)

IInv == TypeOK /\ PoolIntact

(* A queue that was not opened has neither nodes nor lists.               *)
LEMMA InitIInv == Init => IInv
<1> SUFFICES ASSUME Init PROVE IInv
  OBVIOUS
<1>1. TypeOK
  <2>1. <<>> \in Seq(Nodes)
    OBVIOUS
  <2>2. EmptyList \in Lists
    BY DEF EmptyList, Lists
  <2>3. length \in [Nodes -> 0..MaxLength] /\ next \in [Nodes -> Nodes \cup {NULL}]
    BY MqAssumption DEF Init
  <2>4. payload \in [Nodes -> Payloads \cup {Garbage}]
    BY DEF Init
  <2>5. QED BY <2>1, <2>2, <2>3, <2>4 DEF Init, TypeOK, Lists
<1>2. PoolIntact
  BY DEF Init, PoolIntact, Spells, Distinct, Disjoint
<1>3. QED BY <1>1, <1>2 DEF IInv

(* Opening strings every node of the pool on the list of unqueued ones.   *)
LEMMA OpenIInv == IInv /\ Open => IInv'
<1> SUFFICES ASSUME IInv, Open PROVE IInv'
  OBVIOUS
<1> USE MqAssumption DEF Nodes
<1>1. us' \in Seq(Nodes) /\ Len(us') = Number /\ (\A i \in 1..Number : us'[i] = i)
  BY DEF Open
<1>2. qs' = <<>> /\ open' = TRUE /\ queued' = EmptyList
  BY DEF Open, IInv, PoolIntact, Spells
<1>3. next' \in [Nodes -> Nodes \cup {NULL}]
  BY DEF Open
<1>4. TypeOK'
  BY <1>1, <1>2, <1>3 DEF Open, IInv, TypeOK, EmptyList
<1>5. Spells(next', unqueued', us')
  <2>1. CASE Number = 0
    <3>1. us' = <<>>
      BY <1>1, <2>1
    <3>2. QED BY <2>1, <3>1 DEF Open, Spells
  <2>2. CASE Number # 0
    <3>1. us' # <<>> /\ us'[1] = 1 /\ us'[Len(us')] = Number
      BY <1>1, <2>2
    <3>2. next'[Number] = NULL /\ unqueued' = [head |-> 1, tail |-> Number]
      BY <2>2 DEF Open
    <3>3. \A i \in 1..(Number - 1) : next'[i] = i + 1
      BY DEF Open
    <3>4. QED BY <1>1, <3>1, <3>2, <3>3 DEF Spells
  <2>3. QED BY <2>1, <2>2
<1>6. Spells(next', queued', qs') /\ Distinct(qs') /\ Disjoint(qs', us')
  BY <1>2 DEF Spells, Distinct, Disjoint
<1>7. Distinct(us')
  BY <1>1 DEF Distinct
<1>8. PoolIntact'
  BY <1>1, <1>2, <1>5, <1>6, <1>7 DEF PoolIntact
<1>9. QED BY <1>4, <1>8 DEF IInv

(* What a node's move from the head of list a to the end of list b does to *)
(* the pool; Send and Receive are the two directions.                      *)
LEMMA MoveNode ==
  ASSUME NEW links \in Links,
         NEW a \in Lists, NEW s \in Seq(Nodes), Spells(links, a, s), Distinct(s),
         NEW b \in Lists, NEW t \in Seq(Nodes), Spells(links, b, t), Distinct(t),
         Disjoint(s, t), a.head # NULL
  PROVE  LET node == a.head
             put  == SlistPut(b, links, node)
             rest == SlistGet(a, links)
         IN /\ node \in Nodes /\ s # <<>> /\ node = s[1]
            /\ put.next \in Links /\ put.list \in Lists /\ rest \in Lists
            /\ Spells(put.next, rest, Tail(s)) /\ Distinct(Tail(s))
            /\ Spells(put.next, put.list, Append(t, node)) /\ Distinct(Append(t, node))
            /\ Disjoint(Tail(s), Append(t, node))
            /\ Tail(s) \in Seq(Nodes) /\ Append(t, node) \in Seq(Nodes)
            /\ Len(Tail(s)) + Len(Append(t, node)) = Len(s) + Len(t)
<1> DEFINE node == a.head
           put  == SlistPut(b, links, node)
           rest == SlistGet(a, links)
<1>1. /\ s # <<>> /\ node = s[1] /\ node \in Nodes /\ rest \in Lists
      /\ Spells(links, rest, Tail(s))
      /\ Tail(s) \in Seq(Nodes) /\ Distinct(Tail(s)) /\ Len(Tail(s)) = Len(s) - 1
      /\ \A i \in 1..Len(Tail(s)) : Tail(s)[i] = s[i + 1] /\ Tail(s)[i] # s[1]
  BY GetTakesHead
<1>2. \A i \in 1..Len(t) : t[i] # node
  BY <1>1 DEF Disjoint
<1>3. /\ put.next \in Links /\ put.list \in Lists
      /\ Spells(put.next, put.list, Append(t, node))
      /\ Distinct(Append(t, node))
      /\ \A m \in Nodes \ {node} : (\A i \in 1..Len(t) : t[i] # m) => put.next[m] = links[m]
  <2> HIDE DEF node
  <2>1. node \in Nodes /\ \A i \in 1..Len(t) : t[i] # node
    BY <1>1, <1>2
  <2>2. QED BY <2>1, PutAppends
<1>4. /\ Append(t, node) \in Seq(Nodes) /\ Len(Append(t, node)) = Len(t) + 1
      /\ \A i \in 1..Len(t) : Append(t, node)[i] = t[i]
      /\ Append(t, node)[Len(t) + 1] = node
  BY <1>1
<1>5. Disjoint(Tail(s), Append(t, node))
  <2> SUFFICES ASSUME NEW i \in 1..Len(Tail(s)), NEW j \in 1..(Len(t) + 1)
               PROVE  Tail(s)[i] # Append(t, node)[j]
    BY <1>4 DEF Disjoint
  <2>1. Tail(s)[i] = s[i + 1] /\ i + 1 \in 1..Len(s) /\ Tail(s)[i] # node
    BY <1>1
  <2>2. CASE j = Len(t) + 1
    BY <1>4, <2>1, <2>2
  <2>3. CASE j \in 1..Len(t)
    BY <1>4, <2>1, <2>3 DEF Disjoint
  <2>4. QED BY <2>2, <2>3
<1>6. \A i \in 1..Len(Tail(s)) : put.next[Tail(s)[i]] = links[Tail(s)[i]]
  <2> SUFFICES ASSUME NEW i \in 1..Len(Tail(s))
               PROVE  put.next[Tail(s)[i]] = links[Tail(s)[i]]
    OBVIOUS
  <2>1. /\ Tail(s)[i] = s[i + 1] /\ i + 1 \in 1..Len(s)
        /\ Tail(s)[i] \in Nodes \ {node}
    BY <1>1
  <2>2. \A j \in 1..Len(t) : t[j] # Tail(s)[i]
    BY <2>1 DEF Disjoint
  <2>3. QED BY <1>3, <2>1, <2>2
<1>7. Spells(put.next, rest, Tail(s))
  BY <1>1, <1>6, SpellsFrame
<1>8. Len(Tail(s)) + Len(Append(t, node)) = Len(s) + Len(t)
  <2>1. Len(s) \in Nat /\ Len(t) \in Nat
    OBVIOUS
  <2>2. QED BY <2>1, <1>1, <1>4
<1> HIDE DEF put, rest
<1>9. /\ node \in Nodes /\ s # <<>> /\ node = s[1]
      /\ put.next \in Links /\ put.list \in Lists /\ rest \in Lists
      /\ Spells(put.next, rest, Tail(s)) /\ Distinct(Tail(s))
      /\ Spells(put.next, put.list, Append(t, node)) /\ Distinct(Append(t, node))
      /\ Disjoint(Tail(s), Append(t, node))
      /\ Tail(s) \in Seq(Nodes) /\ Append(t, node) \in Seq(Nodes)
  BY <1>1, <1>3, <1>4, <1>5, <1>7
<1>10. QED BY <1>8, <1>9 DEF put, rest

(* The facts MoveNode needs, from the invariant. *)
LEMMA IInvFacts ==
  ASSUME IInv
  PROVE  /\ next \in Links /\ queued \in Lists /\ unqueued \in Lists
         /\ qs \in Seq(Nodes) /\ us \in Seq(Nodes)
         /\ Spells(next, queued, qs) /\ Distinct(qs)
         /\ Spells(next, unqueued, us) /\ Distinct(us)
         /\ Disjoint(qs, us) /\ Disjoint(us, qs)
BY DEF IInv, TypeOK, PoolIntact, Disjoint, Links, Lists

(* A call that is refused moves no node.                                  *)
LEMMA RefuseIInv == IInv /\ Refuse => IInv'
BY DEF IInv, TypeOK, PoolIntact, Refuse

(* A length the check lets through fits a node. *)
LEMMA GoodLength ==
  ASSUME NEW l \in 0..(MaxLength + 1)
  PROVE  ~BadLength(l) <=> l \in 1..MaxLength
BY MqAssumption DEF BadLength

(* A send moves one node to the queued list, or none.                     *)
LEMMA SendIInv ==
  ASSUME IInv, NEW p \in Payloads, NEW l \in 0..(MaxLength + 1), Send(p, l)
  PROVE  IInv'
<1>1. CASE Refuse
  BY <1>1, RefuseIInv
<1>2. CASE /\ open /\ l \in 1..MaxLength /\ unqueued.head # NULL
           /\ ~Refuse
  <2> DEFINE node == unqueued.head
             put  == SlistPut(queued, next, node)
             rest == SlistGet(unqueued, next)
  <2>1. /\ unqueued' = rest /\ payload' = [payload EXCEPT ![node] = p]
        /\ length' = [length EXCEPT ![node] = l]
        /\ queued' = put.list /\ next' = put.next
        /\ qs' = Append(qs, node) /\ us' = Tail(us) /\ open' = open /\ open
    BY <1>2, GoodLength DEF Send
  <2>2. /\ node \in Nodes /\ us # <<>> /\ node = us[1]
        /\ put.next \in Links /\ put.list \in Lists /\ rest \in Lists
        /\ Spells(put.next, rest, Tail(us)) /\ Distinct(Tail(us))
        /\ Spells(put.next, put.list, Append(qs, node)) /\ Distinct(Append(qs, node))
        /\ Disjoint(Tail(us), Append(qs, node))
        /\ Tail(us) \in Seq(Nodes) /\ Append(qs, node) \in Seq(Nodes)
        /\ Len(Tail(us)) + Len(Append(qs, node)) = Len(us) + Len(qs)
    BY <1>2, IInvFacts, MoveNode
  <2> HIDE DEF node, put, rest
  <2>3. TypeOK'
    <3>1. payload' \in [Nodes -> Payloads \cup {Garbage}]
      BY <2>1, <2>2 DEF IInv, TypeOK
    <3>2. length' \in [Nodes -> 0..MaxLength]
      <4>1. l \in 0..MaxLength
        BY <1>2, MqAssumption
      <4>2. QED BY <4>1, <2>1, <2>2 DEF IInv, TypeOK
    <3>3. QED BY <2>1, <2>2, <3>1, <3>2 DEF IInv, TypeOK, Links, Lists
  <2>4. PoolIntact'
    <3>1. Len(qs') + Len(us') = Number
      <4>1. Len(qs) + Len(us) = Number
        BY <2>1 DEF IInv, PoolIntact
      <4>2. Len(qs) \in Nat /\ Len(us) \in Nat /\ Len(qs') \in Nat /\ Len(us') \in Nat
        BY <2>1, <2>2, IInvFacts
      <4>3. QED BY <2>1, <2>2, <4>1, <4>2
    <3>2. Disjoint(qs', us')
      BY <2>1, <2>2 DEF Disjoint
    <3>3. QED BY <2>1, <2>2, <3>1, <3>2 DEF PoolIntact
  <2>5. QED BY <2>3, <2>4 DEF IInv
<1>3. QED BY <1>1, <1>2, GoodLength DEF Send

(* A receive moves one node back to the unqueued list, or none.           *)
LEMMA ReceiveIInv ==
  ASSUME IInv, NEW room \in 0..MaxLength, Receive(room)
  PROVE  IInv'
<1>1. CASE Refuse
  BY <1>1, RefuseIInv
<1>2. CASE open /\ room > 0 /\ queued.head # NULL /\ ~Refuse
  <2> DEFINE node == queued.head
             put  == SlistPut(unqueued, next, node)
             rest == SlistGet(queued, next)
  <2>1. /\ queued' = rest /\ payload' = payload
        /\ length' = [length EXCEPT ![node] = 0]
        /\ unqueued' = put.list /\ next' = put.next
        /\ us' = Append(us, node) /\ qs' = Tail(qs) /\ open' = open /\ open
    BY <1>2 DEF Receive
  <2>2. /\ node \in Nodes /\ qs # <<>> /\ node = qs[1]
        /\ put.next \in Links /\ put.list \in Lists /\ rest \in Lists
        /\ Spells(put.next, rest, Tail(qs)) /\ Distinct(Tail(qs))
        /\ Spells(put.next, put.list, Append(us, node)) /\ Distinct(Append(us, node))
        /\ Disjoint(Tail(qs), Append(us, node))
        /\ Tail(qs) \in Seq(Nodes) /\ Append(us, node) \in Seq(Nodes)
        /\ Len(Tail(qs)) + Len(Append(us, node)) = Len(qs) + Len(us)
    BY <1>2, IInvFacts, MoveNode
  <2> HIDE DEF node, put, rest
  <2>3. TypeOK'
    <3>1. length' \in [Nodes -> 0..MaxLength]
      <4>1. 0 \in 0..MaxLength
        BY MqAssumption
      <4>2. QED BY <4>1, <2>1, <2>2 DEF IInv, TypeOK
    <3>2. QED BY <2>1, <2>2, <3>1 DEF IInv, TypeOK, Links, Lists
  <2>4. PoolIntact'
    <3>1. Len(qs') + Len(us') = Number
      BY <2>1, <2>2 DEF IInv, PoolIntact
    <3>2. QED BY <2>1, <2>2, <3>1 DEF PoolIntact
  <2>5. QED BY <2>3, <2>4 DEF IInv
<1>3. QED BY <1>1, <1>2 DEF Receive

(* The invariant of types and pool is inductive.                          *)
LEMMA IInvStep ==
  ASSUME IInv, [Next]_vars
  PROVE  IInv'
<1>1. CASE UNCHANGED vars
  BY <1>1 DEF vars, IInv, TypeOK, PoolIntact
<1> QED BY <1>1, OpenIInv, SendIInv, ReceiveIInv DEF Next

LEMMA IInvHolds == Spec => []IInv
BY InitIInv, IInvStep, PTL DEF Spec

(* The lists, the lengths and the payloads have their types throughout.   *)
THEOREM TypeCorrect == Spec => []TypeOK
BY IInvHolds, PTL DEF IInv

(* No call loses a node, links one twice or breaks a chain, for a pool of  *)
(* any size and any sequence of sends and receives.                        *)
THEOREM PoolStaysIntact == Spec => []PoolIntact
BY IInvHolds, PTL DEF IInv

-----------------------------------------------------------------------------
(* The queue of PpMq is a bounded FIFO.                                    *)

FifoQueue == [i \in 1..Len(qs) |-> [payload |-> payload[qs[i]], length |-> length[qs[i]]]]

(* Waiting messages have a length of 1..MaxLength and a payload that was   *)
(* sent; the nodes behind them are never written while they wait.          *)
Waiting == \A i \in 1..Len(qs) : payload[qs[i]] \in Payloads /\ length[qs[i]] \in 1..MaxLength

(* What waits in the queue was sent, and no later call writes over it.    *)
LEMMA WaitingHolds == Spec => []Waiting
<1>1. Init => Waiting
  BY DEF Init, Waiting
<1>2. IInv /\ Waiting /\ [Next]_vars => Waiting'
  <2> SUFFICES ASSUME IInv, Waiting, [Next]_vars PROVE Waiting'
    OBVIOUS
  <2>0. qs \in Seq(Nodes) /\ length \in [Nodes -> 0..MaxLength]
        /\ payload \in [Nodes -> Payloads \cup {Garbage}]
        /\ \A i \in 1..Len(qs) : qs[i] \in Nodes
    BY DEF IInv, TypeOK
  <2>1. CASE Open \/ Refuse \/ UNCHANGED vars
    BY <2>1 DEF Open, Refuse, vars, Waiting
  <2>2. ASSUME NEW p \in Payloads, NEW l \in 0..(MaxLength + 1), Send(p, l), ~Refuse
        PROVE  Waiting'
    <3>1. /\ qs' = Append(qs, unqueued.head) /\ l \in 1..MaxLength
          /\ payload' = [payload EXCEPT ![unqueued.head] = p]
          /\ length' = [length EXCEPT ![unqueued.head] = l]
          /\ unqueued.head # NULL
      BY <2>2, GoodLength DEF Send
    <3>2. unqueued.head \in Nodes /\ us # <<>> /\ unqueued.head = us[1]
      BY <3>1, IInvFacts, GetTakesHead
    <3>3. \A i \in 1..Len(qs) : qs[i] # unqueued.head
      BY <3>2, IInvFacts DEF Disjoint
    <3>4. QED BY <2>0, <3>1, <3>2, <3>3 DEF Waiting
  <2>3. ASSUME NEW room \in 0..MaxLength, Receive(room), ~Refuse
        PROVE  Waiting'
    <3>1. /\ qs' = Tail(qs) /\ payload' = payload
          /\ length' = [length EXCEPT ![queued.head] = 0]
          /\ queued.head # NULL
      BY <2>3 DEF Receive
    <3>2. /\ qs # <<>> /\ Len(Tail(qs)) = Len(qs) - 1
          /\ \A i \in 1..Len(Tail(qs)) : Tail(qs)[i] = qs[i + 1] /\ Tail(qs)[i] # queued.head
      BY <3>1, IInvFacts, GetTakesHead
    <3>3. QED BY <2>0, <3>1, <3>2 DEF Waiting
  <2>4. QED BY <2>1, <2>2, <2>3 DEF Next
<1>3. QED BY <1>1, <1>2, IInvHolds, PTL DEF Spec

QueueFacts ==
  /\ FifoQueue \in Seq(Fifo!Message)
  /\ Len(FifoQueue) = Len(qs) /\ Len(qs) \in Nat
  /\ \A i \in 1..Len(qs) :
       /\ qs[i] \in Nodes
       /\ FifoQueue[i] = [payload |-> payload[qs[i]], length |-> length[qs[i]]]

(* The messages of the queued nodes are a sequence of messages.           *)
LEMMA QueueIsSeq == IInv /\ Waiting => QueueFacts
<1> SUFFICES ASSUME IInv, Waiting PROVE QueueFacts
  OBVIOUS
<1>1. qs \in Seq(Nodes) /\ Len(qs) \in Nat
  BY DEF IInv, TypeOK
<1>2. \A i \in 1..Len(qs) :
        [payload |-> payload[qs[i]], length |-> length[qs[i]]] \in Fifo!Message
  BY DEF Waiting, Fifo!Message
<1>3. FifoQueue \in [1..Len(qs) -> Fifo!Message]
  BY <1>2 DEF FifoQueue
<1>4. FifoQueue \in Seq(Fifo!Message)
  BY <1>1, <1>3
<1>5. Len(FifoQueue) = Len(qs)
  BY <1>1, <1>3, <1>4
<1>6. QED BY <1>1, <1>4, <1>5 DEF FifoQueue, QueueFacts

(* Sends and receives of the pointer code are sends and receives of a      *)
(* bounded FIFO: order, capacity, lengths and contents are kept.           *)
THEOREM QueueIsFifo == Spec => ImplementsFifo
<1>1. Init => Fifo!Init
  <2> SUFFICES ASSUME Init PROVE FifoQueue = <<>> /\ answer = [result |-> -1]
    BY DEF Fifo!Init, FifoQueue
  <2>1. QueueFacts
    <3>1. Waiting
      BY DEF Init, Waiting
    <3>2. QED BY <3>1, InitIInv, QueueIsSeq
  <2>2. Len(FifoQueue) = 0 /\ FifoQueue \in Seq(Fifo!Message)
    BY <2>1 DEF Init, QueueFacts
  <2>3. FifoQueue = <<>>
    <3> HIDE DEF Fifo!Message
    <3>1. \A s \in Seq(Fifo!Message) : Len(s) = 0 => s = <<>>
      BY EmptySeq
    <3>2. QED BY <2>2, <3>1
  <2>4. answer = [result |-> -1]
    BY DEF Init
  <2>5. QED BY <2>3, <2>4
<1>2. IInv /\ IInv' /\ Waiting /\ Waiting' /\ [Next]_vars
        => [Fifo!Next]_<<FifoQueue, answer>>
  <2> SUFFICES ASSUME IInv, IInv', Waiting, Waiting', [Next]_vars
               PROVE  Fifo!Next \/ UNCHANGED <<FifoQueue, answer>>
    OBVIOUS
  <2>0. /\ qs \in Seq(Nodes) /\ length \in [Nodes -> 0..MaxLength]
        /\ payload \in [Nodes -> Payloads \cup {Garbage}]
        /\ Len(qs) \in Nat
    <3>1. TypeOK
      BY DEF IInv
    <3>2. /\ qs \in Seq(Nodes) /\ length \in [Nodes -> 0..MaxLength]
          /\ payload \in [Nodes -> Payloads \cup {Garbage}]
      BY ONLY <3>1 DEF TypeOK
    <3>3. QED BY ONLY <3>2
  <2>a. /\ FifoQueue \in Seq(Fifo!Message)
        /\ Len(FifoQueue) = Len(qs)
        /\ \A i \in 1..Len(qs) :
             /\ qs[i] \in Nodes
             /\ FifoQueue[i] = [payload |-> payload[qs[i]], length |-> length[qs[i]]]
    BY QueueIsSeq DEF QueueFacts
  <2>b. /\ FifoQueue' \in Seq(Fifo!Message)
        /\ Len(FifoQueue') = Len(qs')
        /\ \A i \in 1..Len(qs') :
             FifoQueue'[i] = [payload |-> payload'[qs'[i]], length |-> length'[qs'[i]]]
    <3>1. QueueFacts'
      BY QueueIsSeq, PTL
    <3>2. QED BY <3>1 DEF QueueFacts
  <2>1. CASE Open \/ UNCHANGED vars
    BY <2>1 DEF Open, vars, FifoQueue
  <2>2. CASE Refuse
    BY <2>2 DEF Refuse, Fifo!Next, Fifo!Refuse, FifoQueue
  <2>3. ASSUME NEW p \in Payloads, NEW l \in 0..(MaxLength + 1), Send(p, l), ~Refuse
        PROVE  Fifo!Next
    <3> DEFINE m == [payload |-> p, length |-> l]
    <3>1. /\ qs' = Append(qs, unqueued.head) /\ l \in 1..MaxLength
          /\ payload' = [payload EXCEPT ![unqueued.head] = p]
          /\ length' = [length EXCEPT ![unqueued.head] = l]
          /\ unqueued.head # NULL /\ open /\ answer' = [result |-> 0]
      BY <2>3, GoodLength DEF Send
    <3>2. unqueued.head \in Nodes /\ us # <<>> /\ unqueued.head = us[1]
      BY <3>1, IInvFacts, GetTakesHead
    <3>3. \A i \in 1..Len(qs) : qs[i] # unqueued.head
      BY <3>2, IInvFacts DEF Disjoint
    <3>4. Len(FifoQueue) < Number
      <4>1. Len(qs) + Len(us) = Number
        BY <3>1 DEF IInv, PoolIntact
      <4>2. Len(us) \in Nat \ {0}
        BY <3>2, IInvFacts
      <4>3. QED BY <2>0, <2>a, <4>1, <4>2
    <3>5. m \in Fifo!Message
      BY <3>1 DEF Fifo!Message
    <3>6. FifoQueue' = Append(FifoQueue, m)
      <4>1. /\ Append(FifoQueue, m) \in Seq(Fifo!Message)
            /\ Len(Append(FifoQueue, m)) = Len(qs) + 1 /\ Len(qs') = Len(qs) + 1
        BY <2>0, <2>a, <3>1, <3>2, <3>5
      <4>2. ASSUME NEW i \in 1..(Len(qs) + 1)
            PROVE  FifoQueue'[i] = Append(FifoQueue, m)[i]
        <5>1. CASE i = Len(qs) + 1
          <6>1. qs'[i] = unqueued.head /\ Append(FifoQueue, m)[i] = m
            BY <2>0, <2>a, <3>1, <3>2, <5>1
          <6>2. payload'[qs'[i]] = p /\ length'[qs'[i]] = l
            BY <2>0, <3>1, <3>2, <6>1
          <6>3. QED BY <2>b, <4>1, <6>1, <6>2
        <5>2. CASE i \in 1..Len(qs)
          <6>1. qs'[i] = qs[i] /\ Append(FifoQueue, m)[i] = FifoQueue[i]
            BY <2>0, <2>a, <3>1, <3>2, <5>2
          <6>2. payload'[qs[i]] = payload[qs[i]] /\ length'[qs[i]] = length[qs[i]]
            BY <2>0, <2>a, <3>1, <3>2, <3>3, <5>2
          <6>3. QED BY <2>a, <2>b, <4>1, <5>2, <6>1, <6>2
        <5>3. i \in 1..Len(qs) \/ i = Len(qs) + 1
          BY <2>0
        <5>4. QED BY <5>1, <5>2, <5>3
      <4>3. QED BY <2>b, <4>1, <4>2, SeqEqual
    <3>7. Fifo!Send(m)
      BY <3>1, <3>4, <3>6 DEF Fifo!Send, FifoQueue
    <3>8. QED BY <3>5, <3>7 DEF Fifo!Next
  <2>4. ASSUME NEW room \in 0..MaxLength, Receive(room), ~Refuse
        PROVE  Fifo!Next
    <3>1. /\ qs' = Tail(qs) /\ payload' = payload
          /\ length' = [length EXCEPT ![queued.head] = 0]
          /\ queued.head # NULL /\ room > 0
          /\ answer' = [payload |-> payload[queued.head],
                        result |-> IF room < length[queued.head] THEN room
                                   ELSE length[queued.head]]
      BY <2>4 DEF Receive
    <3>2. /\ qs # <<>> /\ queued.head = qs[1] /\ Len(Tail(qs)) = Len(qs) - 1
          /\ \A i \in 1..Len(Tail(qs)) : Tail(qs)[i] = qs[i + 1] /\ Tail(qs)[i] # queued.head
      BY <3>1, IInvFacts, GetTakesHead
    <3>3. room \in 1..MaxLength
      BY <3>1, MqAssumption
    <3>4. Len(qs) \in Nat \ {0} /\ FifoQueue # <<>>
      BY <2>0, <2>a, <3>2
    <3>5. Head(FifoQueue) = [payload |-> payload[queued.head], length |-> length[queued.head]]
      <4> HIDE DEF FifoQueue
      <4>1. FifoQueue[1] = [payload |-> payload[queued.head], length |-> length[queued.head]]
        BY <2>a, <3>2, <3>4
      <4>2. Head(FifoQueue) = FifoQueue[1]
        BY <2>a, <3>4
      <4>3. QED BY <4>1, <4>2
    <3>6. FifoQueue' = Tail(FifoQueue)
      <4>1. /\ Tail(FifoQueue) \in Seq(Fifo!Message)
            /\ Len(Tail(FifoQueue)) = Len(qs) - 1 /\ Len(qs') = Len(qs) - 1
        BY <2>a, <3>1, <3>2, <3>4
      <4>2. ASSUME NEW i \in 1..(Len(qs) - 1)
            PROVE  FifoQueue'[i] = Tail(FifoQueue)[i]
        <5>1. qs'[i] = qs[i + 1] /\ qs[i + 1] # queued.head /\ i + 1 \in 1..Len(qs)
          BY <2>0, <3>1, <3>2
        <5>2. Tail(FifoQueue)[i] = FifoQueue[i + 1]
          BY <2>a, <3>4
        <5>3. payload'[qs[i + 1]] = payload[qs[i + 1]] /\ length'[qs[i + 1]] = length[qs[i + 1]]
          BY <2>0, <2>a, <3>1, <5>1
        <5>4. FifoQueue'[i] = [payload |-> payload'[qs[i + 1]], length |-> length'[qs[i + 1]]]
          BY <2>b, <4>1, <5>1
        <5>5. QED BY <2>a, <5>1, <5>2, <5>3, <5>4
      <4>3. QED BY <2>b, <4>1, <4>2, SeqEqual
    <3>7. Fifo!Receive(room)
      <4>1. /\ Head(FifoQueue).payload = payload[queued.head]
            /\ Head(FifoQueue).length = length[queued.head]
        BY <3>5
      <4>2. answer' = [payload |-> Head(FifoQueue).payload,
                       result  |-> IF room < Head(FifoQueue).length THEN room
                                   ELSE Head(FifoQueue).length]
        BY <3>1, <4>1
      <4>3. QED BY <3>4, <3>6, <4>2 DEF Fifo!Receive, FifoQueue
    <3>8. QED BY <3>3, <3>7 DEF Fifo!Next
  <2>5. QED BY <2>1, <2>2, <2>3, <2>4 DEF Next
<1>3. QED
  BY <1>1, <1>2, IInvHolds, WaitingHolds, PTL DEF Spec, ImplementsFifo, Fifo!Spec, FifoQueue
-----------------------------------------------------------------------------
(* The byte ring, of any size.                                             *)

(* The rings there can be: only pp_ring_create sets size, and nothing      *)
(* writes to the byte behind the buffer.                                   *)
Rings(size) ==
  {r \in [size : {size}, into : 0..(size - 1), from : 0..(size - 1),
          buff : [0..size -> Bytes \cup {NUL, Garbage}]] : r.buff[size] = NUL}

(* How many bytes a ring holds, where the i-th of them is, and all of them. *)
Held(size, r) == IF r.into >= r.from THEN r.into - r.from ELSE r.into - r.from + size
Place(size, r, i) ==
  IF r.from + i - 1 < size THEN r.from + i - 1 ELSE r.from + i - 1 - size
Contents(size, r) == [i \in 1..Held(size, r) |-> r.buff[Place(size, r, i)]]

-----------------------------------------------------------------------------
(* The two branches are what the remainders of Content come to.            *)
LEMMA Remainders ==
  ASSUME NEW m \in Nat \ {0}, NEW a \in 0..(2 * m - 1)
  PROVE  a % m = IF a < m THEN a ELSE a - m
<1>1. ASSUME NEW b \in 0..(m - 1) PROVE b % m = b /\ (b + m) % m = b
  OBVIOUS
<1>2. CASE a < m
  BY <1>1, <1>2
<1>3. CASE a >= m
  <2>1. a - m \in 0..(m - 1) /\ (a - m) + m = a
    BY <1>3
  <2> QED BY <1>1, <1>3, <2>1
<1> QED BY <1>2, <1>3

LEMMA RingParts ==
  ASSUME NEW size \in Nat \ {0}, NEW r \in Rings(size)
  PROVE  /\ r.into \in 0..(size - 1) /\ r.from \in 0..(size - 1)
         /\ r.buff \in [0..size -> Bytes \cup {NUL, Garbage}] /\ r.buff[size] = NUL
         /\ r = [size |-> size, into |-> r.into, from |-> r.from, buff |-> r.buff]
BY DEF Rings

LEMMA HeldBound ==
  ASSUME NEW size \in Nat \ {0}, NEW r \in Rings(size)
  PROVE  /\ Held(size, r) \in 0..(size - 1)
         /\ \A i \in 1..Held(size, r) : Place(size, r, i) \in 0..(size - 1)
BY DEF Rings, Held, Place

LEMMA ContentIsContents ==
  ASSUME NEW size \in Nat \ {0}, NEW r \in Rings(size)
  PROVE  [i \in 1..((r.into - r.from + size) % size) |-> r.buff[(r.from + i - 1) % size]]
           = Contents(size, r)
<1>1. /\ size \in Nat \ {0}
      /\ r.into \in 0..(size - 1) /\ r.from \in 0..(size - 1)
  BY DEF Rings
<1>2. (r.into - r.from + size) % size = Held(size, r)
  <2>1. r.into - r.from + size \in 0..(2 * size - 1)
    BY <1>1
  <2> QED BY <1>1, <2>1, Remainders DEF Held
<1>3. ASSUME NEW i \in 1..Held(size, r) PROVE (r.from + i - 1) % size = Place(size, r, i)
  <2>1. r.from + i - 1 \in 0..(2 * size - 1)
    BY <1>1, HeldBound
  <2> QED BY <1>1, <2>1, Remainders DEF Place
<1> QED BY <1>2, <1>3 DEF Contents

-----------------------------------------------------------------------------
(* What memcpy takes and what it leaves in the buffer.                     *)
LEMMA Slice ==
  ASSUME NEW S, NEW s \in Seq(S), NEW a \in Nat, NEW n \in Nat, a + n <= Len(s)
  PROVE  /\ Len(SubSeq(s, a + 1, a + n)) = n
         /\ \A k \in 1..n : SubSeq(s, a + 1, a + n)[k] = s[a + k]
OBVIOUS

LEMMA OtherBuffer ==
  ASSUME NEW a, NEW b, NEW c, NEW d, NEW e
  PROVE  [[size |-> a, into |-> b, from |-> c, buff |-> d] EXCEPT !.buff = e]
           = [size |-> a, into |-> b, from |-> c, buff |-> e]
OBVIOUS

(* pp_ring_put: the bytes there is room for go behind those that are held. *)
LEMMA PutGoesBehind ==
  ASSUME NEW size \in Nat \ {0}, NEW r \in Rings(size), NEW bytes \in Seq(Bytes \cup {NUL})
  PROVE  LET p == Ring!PutBytes(r, bytes) IN
         /\ p.put = Ring!Least(Len(bytes), size - 1 - Held(size, r)) /\ p.put \in 0..Len(bytes)
         /\ p.ring \in Rings(size)
         /\ Held(size, p.ring) = Held(size, r) + p.put
         /\ \A i \in 1..(Held(size, r) + p.put) :
              p.ring.buff[Place(size, p.ring, i)] =
                IF i <= Held(size, r) THEN r.buff[Place(size, r, i)] ELSE bytes[i - Held(size, r)]
<1>1. PICK into \in 0..(size - 1), from \in 0..(size - 1),
           buff \in [0..size -> Bytes \cup {NUL, Garbage}] :
        r = [size |-> size, into |-> into, from |-> from, buff |-> buff] /\ buff[size] = NUL
  BY RingParts
<1>2. PICK len : len = Len(bytes) /\ len \in Nat
  OBVIOUS
<1>3. PICK room : room = IF from > into THEN from - into - 1
                         ELSE IF from = 0 THEN size - into - 1 ELSE size - into
  OBVIOUS
<1>4. PICK n1 : n1 = IF len < room THEN len ELSE room
  OBVIOUS
<1>5. PICK n2 : n2 = IF from \in 1..into /\ into + n1 = size
                       THEN IF len - n1 < from - 1 THEN len - n1 ELSE from - 1 ELSE 0
  OBVIOUS
<1>6. PICK after : after = IF from \in 1..into /\ into + n1 = size THEN n2 ELSE into + n1
  OBVIOUS
<1>7. PICK buff1 : buff1 = Ring!Copied(buff, into, SubSeq(bytes, 1, n1))
  OBVIOUS
<1>8. PICK buff2 : buff2 = Ring!Copied(buff1, 0, SubSeq(bytes, n1 + 1, n1 + n2))
  OBVIOUS
<1>9. PICK held : held = IF into >= from THEN into - from ELSE into - from + size
  OBVIOUS
<1>10. Ring!RoomAhead(r) = room /\ Held(size, r) = held
  BY <1>1, <1>3, <1>9 DEF Ring!RoomAhead, Held
<1>11. Ring!PutBytes(r, bytes) =
         [put |-> n1 + n2,
          ring |-> [size |-> size, into |-> after, from |-> from, buff |-> buff2]]
  <2>1. n1 = Ring!Least(Len(bytes), Ring!RoomAhead(r))
    BY <1>2, <1>4, <1>10 DEF Ring!Least
  <2>2. n2 = IF r.from \in 1..r.into /\ r.into + n1 = r.size
               THEN Ring!Least(Len(bytes) - n1, r.from - 1) ELSE 0
    BY <1>1, <1>2, <1>5 DEF Ring!Least
  <2>3. buff2 = Ring!Copied(Ring!Copied(r.buff, r.into, SubSeq(bytes, 1, n1)), 0,
                       SubSeq(bytes, n1 + 1, n1 + n2))
    BY <1>1, <1>7, <1>8
  <2>4. after = IF r.from \in 1..r.into /\ r.into + n1 = r.size THEN n2 ELSE r.into + n1
    BY <1>1, <1>6
  <2>5. [r EXCEPT !.into = after, !.buff = buff2]
          = [size |-> size, into |-> after, from |-> from, buff |-> buff2]
    <3>1. [r EXCEPT !.into = after, !.buff = buff2]
            = [[r EXCEPT !.into = after] EXCEPT !.buff = buff2]
      BY <1>1
    <3>2. PICK half : half = [r EXCEPT !.into = after]
      OBVIOUS
    <3>3. half = [size |-> size, into |-> after, from |-> from, buff |-> buff]
      BY <1>1, <3>2
    <3>4. [half EXCEPT !.buff = buff2]
            = [size |-> size, into |-> after, from |-> from, buff |-> buff2]
      BY <3>3, OtherBuffer
    <3> QED BY <3>1, <3>2, <3>4
  <2> QED BY <2>1, <2>2, <2>3, <2>4, <2>5 DEF Ring!PutBytes
<1>12. size \in Nat \ {0}
  OBVIOUS
<1>13. room \in Nat /\ held \in 0..(size - 1) /\ into + room <= size
  BY <1>3, <1>9, <1>12
<1>14. n1 \in 0..len /\ n1 <= room
  BY <1>2, <1>4, <1>13
<1>15. n2 \in 0..(len - n1) /\ (n2 # 0 => n2 <= from - 1 /\ into + n1 = size /\ from <= into)
  BY <1>2, <1>5, <1>14
<1>16. after \in 0..(size - 1)
  BY <1>3, <1>4, <1>5, <1>6, <1>12, <1>14, <1>15
<1>17. n1 + n2 = IF len < size - 1 - held THEN len ELSE size - 1 - held
  BY <1>2, <1>3, <1>4, <1>5, <1>9, <1>12
<1>18. held + (n1 + n2) = IF after >= from THEN after - from ELSE after - from + size
  BY <1>2, <1>3, <1>4, <1>5, <1>6, <1>9, <1>12
<1>19. ASSUME NEW j \in 0..size
       PROVE  buff2[j] = IF j < n2 THEN bytes[n1 + j + 1]
                         ELSE IF into <= j /\ j < into + n1 THEN bytes[j - into + 1]
                         ELSE buff[j]
  <2>1. /\ Len(SubSeq(bytes, 1, n1)) = n1
        /\ \A k \in 1..n1 : SubSeq(bytes, 1, n1)[k] = bytes[k]
    <3>1. n1 \in Nat /\ 0 + n1 <= Len(bytes)
      BY <1>2, <1>14
    <3> QED BY <1>14, <3>1, Slice
  <2>2. /\ Len(SubSeq(bytes, n1 + 1, n1 + n2)) = n2
        /\ \A k \in 1..n2 : SubSeq(bytes, n1 + 1, n1 + n2)[k] = bytes[n1 + k]
    <3>1. n1 \in Nat /\ n2 \in Nat /\ n1 + n2 <= Len(bytes)
      BY <1>2, <1>14, <1>15
    <3> QED BY <3>1, Slice
  <2>3. DOMAIN buff = 0..size /\ DOMAIN buff1 = 0..size
    BY <1>7 DEF Ring!Copied
  <2>4. buff1[j] = IF into <= j /\ j < into + n1 THEN bytes[j - into + 1] ELSE buff[j]
    <3>1. buff1[j] = IF j \in into..(into + n1 - 1)
                       THEN SubSeq(bytes, 1, n1)[j - into + 1] ELSE buff[j]
      BY <1>7, <2>1, <2>3 DEF Ring!Copied
    <3>2. j \in into..(into + n1 - 1) <=> into <= j /\ j < into + n1
      BY <1>12, <1>14
    <3>3. into <= j /\ j < into + n1 => j - into + 1 \in 1..n1
      BY <1>12, <1>14
    <3> QED BY <2>1, <3>1, <3>2, <3>3
  <2>5. buff2[j] = IF j < n2 THEN bytes[n1 + j + 1] ELSE buff1[j]
    <3>1. buff2[j] = IF j \in 0..(0 + n2 - 1)
                       THEN SubSeq(bytes, n1 + 1, n1 + n2)[j - 0 + 1] ELSE buff1[j]
      BY <1>8, <2>2, <2>3 DEF Ring!Copied
    <3>2. j \in 0..(0 + n2 - 1) <=> j < n2
      BY <1>12, <1>14, <1>15
    <3>3. j < n2 => j - 0 + 1 \in 1..n2 /\ n1 + (j - 0 + 1) = n1 + j + 1
      BY <1>2, <1>12, <1>14, <1>15
    <3> QED BY <2>2, <3>1, <3>2, <3>3
  <2> QED BY <2>4, <2>5
<1>20. PICK new : new = [size |-> size, into |-> after, from |-> from, buff |-> buff2]
  OBVIOUS
<1>21. new \in Rings(size) /\ Held(size, new) = held + (n1 + n2)
  <2>1. ASSUME NEW j \in 0..size PROVE buff2[j] \in Bytes \cup {NUL, Garbage}
    <3>1. j < n2 => n1 + j + 1 \in 1..len
      BY <1>2, <1>12, <1>14, <1>15
    <3>2. into <= j /\ j < into + n1 => j - into + 1 \in 1..len
      BY <1>2, <1>12, <1>14
    <3>3. \A k \in 1..len : bytes[k] \in Bytes \cup {NUL}
      BY <1>2
    <3> QED BY <1>19, <3>1, <3>2, <3>3
  <2>2. buff2 = [j \in 0..size |-> buff2[j]]
    <3>1. DOMAIN buff1 = 0..size /\ buff2 = [j \in DOMAIN buff1 |-> buff2[j]]
      BY <1>7, <1>8 DEF Ring!Copied
    <3> QED BY <3>1
  <2>3. buff2 \in [0..size -> Bytes \cup {NUL, Garbage}]
    BY <2>1, <2>2
  <2>4. buff2[size] = NUL
    <3>1. size \in 0..size /\ ~(size < n2) /\ ~(size < into + n1)
      BY <1>3, <1>12, <1>13, <1>14, <1>15
    <3> QED BY <1>1, <1>19, <3>1
  <2>5. new \in Rings(size)
    BY <1>16, <1>20, <2>3, <2>4 DEF Rings
  <2> QED BY <1>18, <1>20, <2>5 DEF Held
<1>22. ASSUME NEW i \in 1..(held + (n1 + n2))
       PROVE  new.buff[Place(size, new, i)] =
                IF i <= held THEN r.buff[Place(size, r, i)] ELSE bytes[i - held]
  <2>1. PICK k : k = IF from + i - 1 < size THEN from + i - 1 ELSE from + i - 1 - size
    OBVIOUS
  <2>2. Place(size, new, i) = k /\ Place(size, r, i) = k /\ r.buff = buff /\ new.buff = buff2
    BY <1>1, <1>20, <2>1 DEF Place
  <2>3. k \in 0..size
    BY <1>9, <1>12, <1>13, <1>14, <1>15, <1>17, <2>1
  <2>4. CASE i <= held
    <3>1. ~(k < n2) /\ ~(into <= k /\ k < into + n1)
      BY <1>3, <1>4, <1>9, <1>12, <1>14, <1>15, <2>1, <2>4
    <3> QED BY <1>19, <2>2, <2>3, <2>4, <3>1
  <2>5. CASE i > held
    <3>1. CASE k < n2
      <4>1. n1 + k + 1 = i - held
        BY <1>5, <1>9, <1>12, <1>13, <1>14, <1>15, <2>1, <2>5, <3>1
      <4> QED BY <1>13, <1>19, <2>2, <2>3, <2>5, <3>1, <4>1
    <3>2. CASE ~(k < n2)
      <4>1. into <= k /\ k < into + n1 /\ k - into + 1 = i - held
        BY <1>5, <1>9, <1>12, <1>13, <1>14, <1>15, <2>1, <2>5, <3>2
      <4>2. buff2[k] = bytes[k - into + 1]
        BY <1>19, <2>3, <3>2, <4>1
      <4> QED BY <1>13, <2>2, <2>5, <4>1, <4>2
    <3> QED BY <3>1, <3>2
  <2> QED BY <1>13, <2>4, <2>5
<1>23. n1 + n2 = Ring!Least(Len(bytes), size - 1 - held) /\ n1 + n2 \in 0..Len(bytes)
  BY <1>2, <1>14, <1>15, <1>17 DEF Ring!Least
<1>24. Ring!PutBytes(r, bytes).put = n1 + n2 /\ Ring!PutBytes(r, bytes).ring = new
  BY <1>11, <1>20
<1> QED BY <1>10, <1>21, <1>22, <1>23, <1>24

-----------------------------------------------------------------------------
(* What a memcpy out of the buffer returns, and two of them one behind the *)
(* other.                                                                  *)
LEMMA BytesOut ==
  ASSUME NEW S, NEW buff, NEW at, NEW n \in Nat, \A i \in 1..n : buff[at + i - 1] \in S
  PROVE  /\ Ring!BytesAt(buff, at, n) \in Seq(S)
         /\ Len(Ring!BytesAt(buff, at, n)) = n
         /\ \A i \in 1..n : Ring!BytesAt(buff, at, n)[i] = buff[at + i - 1]
<1>1. [i \in 1..n |-> buff[at + i - 1]] \in [1..n -> S]
  OBVIOUS
<1> QED BY <1>1 DEF Ring!BytesAt

LEMMA Concatenation ==
  ASSUME NEW S, NEW a \in Seq(S), NEW b \in Seq(S)
  PROVE  /\ a \o b \in Seq(S) /\ Len(a \o b) = Len(a) + Len(b)
         /\ \A i \in 1..(Len(a) + Len(b)) :
              (a \o b)[i] = IF i <= Len(a) THEN a[i] ELSE b[i - Len(a)]
OBVIOUS

(* pp_ring_get: the bytes held longest leave, in their order.              *)
LEMMA GetTakes ==
  ASSUME NEW size \in Nat \ {0}, NEW r \in Rings(size), NEW n \in Nat
  PROVE  LET g == Ring!GetBytes(r, n)
             m == Ring!Least(n, Held(size, r)) IN
         /\ g.ring \in Rings(size)
         /\ m \in 0..Held(size, r) /\ Held(size, g.ring) = Held(size, r) - m
         /\ \A i \in 1..(Held(size, r) - m) :
              g.ring.buff[Place(size, g.ring, i)] = r.buff[Place(size, r, m + i)]
         /\ g.got \in Seq(Bytes \cup {NUL, Garbage}) /\ Len(g.got) = m
         /\ \A i \in 1..m : g.got[i] = r.buff[Place(size, r, i)]
<1>1. PICK into \in 0..(size - 1), from \in 0..(size - 1),
           buff \in [0..size -> Bytes \cup {NUL, Garbage}] :
        r = [size |-> size, into |-> into, from |-> from, buff |-> buff] /\ buff[size] = NUL
  BY RingParts
<1>2. size \in Nat \ {0}
  OBVIOUS
<1>3. PICK ahead : ahead = IF into >= from THEN into - from ELSE size - from
  OBVIOUS
<1>4. PICK n1 : n1 = IF n < ahead THEN n ELSE ahead
  OBVIOUS
<1>5. PICK n2 : n2 = IF into < from /\ from + n1 = size
                       THEN IF n - n1 < into THEN n - n1 ELSE into ELSE 0
  OBVIOUS
<1>6. PICK after : after = IF into < from /\ from + n1 = size THEN n2 ELSE from + n1
  OBVIOUS
<1>7. PICK held : held = IF into >= from THEN into - from ELSE into - from + size
  OBVIOUS
<1>8. Held(size, r) = held
  BY <1>1, <1>7 DEF Held
<1>9. PICK new : new = [size |-> size, into |-> into, from |-> after, buff |-> buff]
  OBVIOUS
<1>10. /\ Ring!GetBytes(r, n).ring = new
       /\ Ring!GetBytes(r, n).got = Ring!BytesAt(buff, from, n1) \o Ring!BytesAt(buff, 0, n2)
  <2>1. n1 = Ring!Least(n, IF r.into >= r.from THEN r.into - r.from ELSE r.size - r.from)
    BY <1>1, <1>3, <1>4 DEF Ring!Least
  <2>2. n2 = IF r.into < r.from /\ r.from + n1 = r.size THEN Ring!Least(n - n1, r.into) ELSE 0
    BY <1>1, <1>5 DEF Ring!Least
  <2>3. after = IF r.into < r.from /\ r.from + n1 = r.size THEN n2 ELSE r.from + n1
    BY <1>1, <1>6
  <2>4. [r EXCEPT !.from = after] = new
    BY <1>1, <1>9
  <2>5. r.buff = buff /\ r.from = from
    BY <1>1
  <2> QED BY <2>1, <2>2, <2>3, <2>4, <2>5 DEF Ring!GetBytes
<1>11. ahead \in Nat /\ held \in 0..(size - 1) /\ from + ahead <= size
  BY <1>2, <1>3, <1>7
<1>12. n1 \in 0..n /\ n1 <= ahead
  BY <1>4, <1>11
<1>13. n2 \in 0..(n - n1) /\ n2 <= into
  BY <1>5, <1>12
<1>14. after \in 0..(size - 1)
  BY <1>2, <1>3, <1>4, <1>5, <1>6, <1>12, <1>13
<1>15. n1 + n2 = IF n < held THEN n ELSE held
  BY <1>2, <1>3, <1>4, <1>5, <1>7
<1>16. held - (n1 + n2) = IF into >= after THEN into - after ELSE into - after + size
  BY <1>2, <1>3, <1>4, <1>5, <1>6, <1>7
<1>17. new \in Rings(size) /\ Held(size, new) = held - (n1 + n2)
  BY <1>1, <1>9, <1>14, <1>16 DEF Rings, Held
<1>18. ASSUME NEW i \in 1..(held - (n1 + n2))
       PROVE  new.buff[Place(size, new, i)] = r.buff[Place(size, r, n1 + n2 + i)]
  <2>1. PICK k : k = IF after + i - 1 < size THEN after + i - 1 ELSE after + i - 1 - size
    OBVIOUS
  <2>2. k = IF from + (n1 + n2 + i) - 1 < size THEN from + (n1 + n2 + i) - 1
            ELSE from + (n1 + n2 + i) - 1 - size
    BY <1>2, <1>3, <1>4, <1>5, <1>6, <1>7, <1>11, <1>12, <1>13, <2>1
  <2> QED BY <1>1, <1>9, <2>1, <2>2 DEF Place
<1>19. /\ Ring!GetBytes(r, n).got \in Seq(Bytes \cup {NUL, Garbage})
       /\ Len(Ring!GetBytes(r, n).got) = n1 + n2
       /\ \A i \in 1..(n1 + n2) : Ring!GetBytes(r, n).got[i] = r.buff[Place(size, r, i)]
  <2>1. PICK a : a = Ring!BytesAt(buff, from, n1)
    OBVIOUS
  <2>2. PICK start : start = 0
    OBVIOUS
  <2>3. PICK b : b = Ring!BytesAt(buff, start, n2)
    OBVIOUS
  <2>4. /\ a \in Seq(Bytes \cup {NUL, Garbage}) /\ Len(a) = n1
        /\ \A i \in 1..n1 : a[i] = buff[from + i - 1]
    <3>1. n1 \in Nat /\ \A i \in 1..n1 : buff[from + i - 1] \in Bytes \cup {NUL, Garbage}
      BY <1>2, <1>11, <1>12
    <3> QED BY <2>1, <3>1, BytesOut
  <2>5. /\ b \in Seq(Bytes \cup {NUL, Garbage}) /\ Len(b) = n2
        /\ \A i \in 1..n2 : b[i] = buff[start + i - 1]
    <3>1. n2 \in Nat /\ \A i \in 1..n2 : buff[start + i - 1] \in Bytes \cup {NUL, Garbage}
      BY <1>2, <1>12, <1>13, <2>2
    <3>2. /\ Ring!BytesAt(buff, start, n2) \in Seq(Bytes \cup {NUL, Garbage})
          /\ Len(Ring!BytesAt(buff, start, n2)) = n2
          /\ \A i \in 1..n2 : Ring!BytesAt(buff, start, n2)[i] = buff[start + i - 1]
      BY <3>1, BytesOut
    <3> QED BY <2>3, <3>2
  <2>6. /\ a \o b \in Seq(Bytes \cup {NUL, Garbage}) /\ Len(a \o b) = n1 + n2
        /\ \A i \in 1..(n1 + n2) : (a \o b)[i] = IF i <= n1 THEN a[i] ELSE b[i - n1]
    BY <2>4, <2>5, Concatenation
  <2>7. ASSUME NEW i \in 1..(n1 + n2) PROVE (a \o b)[i] = r.buff[Place(size, r, i)]
    <3>1. Place(size, r, i) = IF from + i - 1 < size THEN from + i - 1 ELSE from + i - 1 - size
      BY <1>1 DEF Place
    <3>2. CASE i <= n1
      <4>1. Place(size, r, i) = from + i - 1 /\ i \in 1..n1
        BY <1>2, <1>11, <1>12, <1>13, <3>1, <3>2
      <4> QED BY <1>1, <2>4, <2>6, <3>2, <4>1
    <3>3. CASE i > n1
      <4>1. Place(size, r, i) = start + (i - n1) - 1 /\ i - n1 \in 1..n2
        BY <1>2, <1>5, <1>11, <1>12, <1>13, <2>2, <3>1, <3>3
      <4>2. (a \o b)[i] = b[i - n1]
        BY <1>12, <1>13, <2>6, <3>3
      <4> QED BY <1>1, <2>5, <4>1, <4>2
    <3>4. i <= n1 \/ i > n1
      BY <1>12, <1>13
    <3> QED BY <3>2, <3>3, <3>4
  <2> QED BY <1>10, <2>1, <2>2, <2>3, <2>6, <2>7
<1>20. n1 + n2 = Ring!Least(n, held) /\ n1 + n2 \in 0..held
  BY <1>11, <1>12, <1>13, <1>15 DEF Ring!Least
<1> QED BY <1>8, <1>10, <1>17, <1>18, <1>19, <1>20

-----------------------------------------------------------------------------
(* Numbers in a set have a least one, so the string at from has a length.  *)
LEMMA LeastNumber ==
  ASSUME NEW T \in SUBSET Nat, T # {}
  PROVE  \E x \in T : \A y \in T : x <= y
<1>1. PICK x \in T : \A y \in T : ~(<<y, x>> \in OpToRel(<, Nat))
  BY NatLessThanWellFounded, WFMin
<1>2. ASSUME NEW y \in T PROVE ~(y < x)
  BY <1>1, <1>2 DEF OpToRel
<1> QED BY <1>2

LEMMA StringEnds ==
  ASSUME NEW size \in Nat \ {0}, NEW r \in Rings(size)
  PROVE  /\ Ring!StringLength(r) \in 0..(size - r.from)
         /\ r.buff[r.from + Ring!StringLength(r)] = NUL
         /\ \A i \in 0..(Ring!StringLength(r) - 1) : r.buff[r.from + i] # NUL
<1>1. r.size = size /\ r.from \in 0..(size - 1) /\ r.buff[size] = NUL /\ size \in Nat
  BY DEF Rings
<1>2. PICK T : T = {n \in 0..(size - r.from) : r.buff[r.from + n] = NUL}
  OBVIOUS
<1>3. T \in SUBSET Nat /\ size - r.from \in T
  BY <1>1, <1>2
<1>4. PICK x \in T : \A y \in T : x <= y
  BY <1>3, LeastNumber
<1>5. ASSUME NEW i \in 0..(x - 1) PROVE r.buff[r.from + i] # NUL
  <2>1. i \notin T
    BY <1>2, <1>4
  <2>2. i \in 0..(size - r.from)
    BY <1>1, <1>2
  <2> QED BY <1>2, <2>1, <2>2
<1>6. \E n \in 0..(r.size - r.from) :
        /\ r.buff[r.from + n] = NUL
        /\ \A i \in 0..(n - 1) : r.buff[r.from + i] # NUL
  BY <1>1, <1>2, <1>5
<1> QED BY <1>1, <1>6 DEF Ring!StringLength

-----------------------------------------------------------------------------
(* Sequences are the same when they have the same entries.                 *)
LEMMA SameSequence ==
  ASSUME NEW S, NEW a \in Seq(S), NEW b \in Seq(S), Len(a) = Len(b),
         \A i \in 1..Len(a) : a[i] = b[i]
  PROVE  a = b
OBVIOUS

LEMMA ContentsAreBytes ==
  ASSUME NEW size \in Nat \ {0}, NEW r \in Rings(size)
  PROVE  /\ Contents(size, r) \in Seq(Bytes \cup {NUL, Garbage})
         /\ Len(Contents(size, r)) = Held(size, r) /\ Held(size, r) \in 0..(size - 1)
         /\ \A i \in 1..Held(size, r) : Contents(size, r)[i] = r.buff[Place(size, r, i)]
<1>1. \A i \in 1..Held(size, r) : r.buff[Place(size, r, i)] \in Bytes \cup {NUL, Garbage}
  BY HeldBound DEF Rings
<1>2. Contents(size, r) \in [1..Held(size, r) -> Bytes \cup {NUL, Garbage}]
  BY <1>1 DEF Contents
<1>3. Held(size, r) \in 0..(size - 1) /\ Held(size, r) \in Nat
  BY HeldBound
<1> QED BY <1>2, <1>3 DEF Contents

(* A put appends to the bytes held, and a get takes the first of them.     *)
LEMMA PutIsAppend ==
  ASSUME NEW size \in Nat \ {0}, NEW r \in Rings(size), NEW bytes \in Seq(Bytes \cup {NUL})
  PROVE  LET p == Ring!PutBytes(r, bytes) IN
         /\ p.ring \in Rings(size)
         /\ p.put = Ring!Least(Len(bytes), size - 1 - Len(Contents(size, r)))
         /\ SubSeq(bytes, 1, p.put) \in Seq(Bytes \cup {NUL})
         /\ Contents(size, p.ring) = Contents(size, r) \o SubSeq(bytes, 1, p.put)
<1>1. PICK n, new : n = Ring!PutBytes(r, bytes).put /\ new = Ring!PutBytes(r, bytes).ring
  OBVIOUS
<1>2. /\ n = Ring!Least(Len(bytes), size - 1 - Held(size, r)) /\ n \in 0..Len(bytes)
      /\ new \in Rings(size) /\ Held(size, new) = Held(size, r) + n
      /\ \A i \in 1..(Held(size, r) + n) :
           new.buff[Place(size, new, i)] =
             IF i <= Held(size, r) THEN r.buff[Place(size, r, i)] ELSE bytes[i - Held(size, r)]
  BY <1>1, PutGoesBehind
<1>3. PICK taken : taken = SubSeq(bytes, 1, n)
  OBVIOUS
<1>4. /\ taken \in Seq(Bytes \cup {NUL}) /\ taken \in Seq(Bytes \cup {NUL, Garbage})
      /\ Len(taken) = n /\ \A i \in 1..n : taken[i] = bytes[i]
  BY <1>2, <1>3
<1>5. PICK old : old = Contents(size, r)
  OBVIOUS
<1>6. /\ old \in Seq(Bytes \cup {NUL, Garbage}) /\ Len(old) = Held(size, r) /\ Held(size, r) \in Nat
      /\ \A i \in 1..Held(size, r) : old[i] = r.buff[Place(size, r, i)]
  BY <1>5, ContentsAreBytes
<1>7. /\ Contents(size, new) \in Seq(Bytes \cup {NUL, Garbage}) /\ Len(Contents(size, new)) = Held(size, new)
      /\ \A i \in 1..Held(size, new) : Contents(size, new)[i] = new.buff[Place(size, new, i)]
  BY <1>2, ContentsAreBytes
<1>8. /\ old \o taken \in Seq(Bytes \cup {NUL, Garbage})
      /\ Len(old \o taken) = Held(size, r) + n
      /\ \A i \in 1..(Held(size, r) + n) :
           (old \o taken)[i] = IF i <= Held(size, r) THEN old[i] ELSE taken[i - Held(size, r)]
  <2>1. /\ old \o taken \in Seq(Bytes \cup {NUL, Garbage})
        /\ Len(old \o taken) = Len(old) + Len(taken)
        /\ \A i \in 1..(Len(old) + Len(taken)) :
             (old \o taken)[i] = IF i <= Len(old) THEN old[i] ELSE taken[i - Len(old)]
    BY <1>4, <1>6, Concatenation
  <2> QED BY <1>4, <1>6, <2>1
<1>9. ASSUME NEW i \in 1..(Held(size, r) + n) PROVE Contents(size, new)[i] = (old \o taken)[i]
  <2>1. i <= Held(size, r) => i \in 1..Held(size, r)
    BY <1>6
  <2>2. ~(i <= Held(size, r)) => i - Held(size, r) \in 1..n
    BY <1>2, <1>6
  <2> QED BY <1>2, <1>4, <1>6, <1>7, <1>8, <2>1, <2>2
<1>10. Contents(size, new) = old \o taken
  BY <1>2, <1>7, <1>8, <1>9, SameSequence
<1> QED BY <1>1, <1>2, <1>3, <1>4, <1>5, <1>6, <1>10

LEMMA GetIsPrefix ==
  ASSUME NEW size \in Nat \ {0}, NEW r \in Rings(size), NEW n \in Nat
  PROVE  LET g == Ring!GetBytes(r, n)
             m == Ring!Least(n, Len(Contents(size, r))) IN
         /\ g.ring \in Rings(size)
         /\ g.got = SubSeq(Contents(size, r), 1, m)
         /\ Contents(size, g.ring) = SubSeq(Contents(size, r), m + 1, Len(Contents(size, r)))
<1>1. PICK got, new : got = Ring!GetBytes(r, n).got /\ new = Ring!GetBytes(r, n).ring
  OBVIOUS
<1>2. PICK h : h = Held(size, r)
  OBVIOUS
<1>3. PICK m : m = Ring!Least(n, h)
  OBVIOUS
<1>4. /\ new \in Rings(size) /\ m \in 0..h /\ Held(size, new) = h - m
      /\ \A i \in 1..(h - m) : new.buff[Place(size, new, i)] = r.buff[Place(size, r, m + i)]
      /\ got \in Seq(Bytes \cup {NUL, Garbage}) /\ Len(got) = m
      /\ \A i \in 1..m : got[i] = r.buff[Place(size, r, i)]
  BY <1>1, <1>2, <1>3, GetTakes
<1>5. PICK old : old = Contents(size, r)
  OBVIOUS
<1>6. /\ old \in Seq(Bytes \cup {NUL, Garbage}) /\ Len(old) = h /\ h \in Nat
      /\ \A i \in 1..h : old[i] = r.buff[Place(size, r, i)]
  BY <1>2, <1>5, ContentsAreBytes
<1>7. /\ Contents(size, new) \in Seq(Bytes \cup {NUL, Garbage}) /\ Len(Contents(size, new)) = h - m
      /\ \A i \in 1..(h - m) : Contents(size, new)[i] = new.buff[Place(size, new, i)]
  BY <1>4, ContentsAreBytes
<1>8. got = SubSeq(old, 1, m)
  <2>1. /\ SubSeq(old, 1, m) \in Seq(Bytes \cup {NUL, Garbage}) /\ Len(SubSeq(old, 1, m)) = m
        /\ \A i \in 1..m : SubSeq(old, 1, m)[i] = old[i] /\ i \in 1..h
    BY <1>4, <1>6
  <2> QED BY <1>4, <1>6, <2>1, SameSequence
<1>9. Contents(size, new) = SubSeq(old, m + 1, h)
  <2>1. m \in Nat /\ h - m \in Nat /\ m + (h - m) = h
    BY <1>4, <1>6
  <2>2. /\ SubSeq(old, m + 1, h) \in Seq(Bytes \cup {NUL, Garbage})
        /\ Len(SubSeq(old, m + 1, h)) = h - m
        /\ \A i \in 1..(h - m) : SubSeq(old, m + 1, h)[i] = old[m + i] /\ m + i \in 1..h
    BY <1>6, <2>1
  <2>3. ASSUME NEW i \in 1..(h - m) PROVE Contents(size, new)[i] = SubSeq(old, m + 1, h)[i]
    <3>1. m + i \in 1..h /\ SubSeq(old, m + 1, h)[i] = old[m + i]
      BY <2>2
    <3>2. old[m + i] = r.buff[Place(size, r, m + i)]
      BY <1>6, <3>1
    <3>3. Contents(size, new)[i] = r.buff[Place(size, r, m + i)]
      BY <1>4, <1>7
    <3> QED BY <3>1, <3>2, <3>3
  <2> QED BY <1>7, <2>2, <2>3, SameSequence
<1> QED BY <1>1, <1>2, <1>3, <1>4, <1>5, <1>6, <1>8, <1>9

-----------------------------------------------------------------------------
LEMMA RingSized == RingSize \in Nat \ {0} /\ MaxLen \in Nat
BY RingAssumption DEF Ring!RingAssumption

(* A ring is one that pp_ring_create made, and of the garbage malloc left  *)
(* in it nobody sees anything.                                             *)
RingInv ==
  /\ ring \in Rings(RingSize)
  /\ Ring!Content \in Seq(Bytes \cup {NUL})
  /\ moved \in Seq(Bytes \cup {NUL})

LEMMA RingInit ==
  ASSUME Ring!Init
  PROVE  RingInv /\ RingFifo!Init
<1> USE RingSized
<1>1. ring \in Rings(RingSize) /\ Held(RingSize, ring) = 0
  BY DEF Ring!Init, Ring!Created, Rings, Held
<1>2. Ring!Content = Contents(RingSize, ring)
  BY <1>1, ContentIsContents DEF Ring!Content
<1>3. Ring!Content = <<>>
  BY <1>1, <1>2, ContentsAreBytes
<1> QED BY <1>1, <1>3 DEF Ring!Init, RingInv, RingFifo!Init

LEMMA ClearIsClear ==
  ASSUME RingInv, Ring!Clear
  PROVE  RingInv' /\ RingFifo!Clear
<1> USE RingSized
<1>1. ring' \in Rings(RingSize) /\ Held(RingSize, ring') = 0 /\ moved' = moved
  <2>1. PICK r \in Rings(RingSize) : r = ring
    BY DEF RingInv
  <2>2. PICK half, new : half = [r EXCEPT !.into = 0] /\ new = [half EXCEPT !.from = 0]
    OBVIOUS
  <2>3. half \in Rings(RingSize) /\ half.into = 0
    BY <2>1, <2>2 DEF Rings
  <2>4. new \in Rings(RingSize) /\ new.into = 0 /\ new.from = 0
    BY <2>2, <2>3 DEF Rings
  <2>5. new = [r EXCEPT !.into = 0, !.from = 0]
    BY <2>1, <2>2 DEF Rings
  <2>6. ring' = new /\ moved' = moved
    BY <2>1, <2>5 DEF Ring!Clear, Ring!Cleared
  <2> QED BY <2>4, <2>6 DEF Held
<1>2. Ring!Content' = Contents(RingSize, ring')
  BY <1>1, ContentIsContents DEF Ring!Content
<1>3. Ring!Content' = <<>>
  BY <1>1, <1>2, ContentsAreBytes
<1> QED BY <1>1, <1>3 DEF RingInv, RingFifo!Clear

LEMMA PutIsPut ==
  ASSUME RingInv, NEW bytes \in Ring!Chunks, Ring!Put(bytes)
  PROVE  RingInv' /\ RingFifo!Put(bytes)
<1> USE RingSized
<1>1. bytes \in Seq(Bytes \cup {NUL})
  BY DEF Ring!Chunks
<1>2. PICK n, new : n = Ring!PutBytes(ring, bytes).put /\ new = Ring!PutBytes(ring, bytes).ring
  OBVIOUS
<1>3. ring \in Rings(RingSize) /\ ring' = new /\ moved' = SubSeq(bytes, 1, n)
  BY <1>2 DEF RingInv, Ring!Put
<1>4. /\ new \in Rings(RingSize)
      /\ n = Ring!Least(Len(bytes), RingSize - 1 - Len(Contents(RingSize, ring)))
      /\ SubSeq(bytes, 1, n) \in Seq(Bytes \cup {NUL})
      /\ Contents(RingSize, new) = Contents(RingSize, ring) \o SubSeq(bytes, 1, n)
  BY <1>1, <1>2, <1>3, PutIsAppend
<1>5. Ring!Content = Contents(RingSize, ring) /\ Ring!Content' = Contents(RingSize, new)
  BY <1>3, <1>4, ContentIsContents DEF Ring!Content
<1>6. n = RingFifo!Least(Len(bytes), RingSize - 1 - Len(Ring!Content))
  BY <1>4, <1>5 DEF Ring!Least, RingFifo!Least
<1>7. Ring!Content' = Ring!Content \o SubSeq(bytes, 1, n) /\ Ring!Content' \in Seq(Bytes \cup {NUL})
  BY <1>4, <1>5 DEF RingInv
<1> QED BY <1>3, <1>4, <1>6, <1>7 DEF RingInv, RingFifo!Put

(* Whatever a get asks for, and a line asks for no more than its end: the  *)
(* fifo would be asked for as much.                                        *)
LEMMA GetIsGet ==
  ASSUME RingInv, NEW n \in Nat,
         ring' = Ring!GetBytes(ring, n).ring, moved' = Ring!GetBytes(ring, n).got
  PROVE  RingInv' /\ \E k \in 0..(RingSize - 1 + 1) : RingFifo!Get(k)
<1> USE RingSized
<1>1. PICK got, new : got = Ring!GetBytes(ring, n).got /\ new = Ring!GetBytes(ring, n).ring
  OBVIOUS
<1>2. PICK h, m : h = Len(Contents(RingSize, ring)) /\ m = Ring!Least(n, h)
  OBVIOUS
<1>3. /\ new \in Rings(RingSize) /\ got = SubSeq(Contents(RingSize, ring), 1, m)
      /\ Contents(RingSize, new) = SubSeq(Contents(RingSize, ring), m + 1, h)
  BY <1>1, <1>2, GetIsPrefix DEF RingInv
<1>4. /\ ring' = new /\ moved' = got
      /\ Ring!Content = Contents(RingSize, ring) /\ Ring!Content' = Contents(RingSize, new)
  BY <1>1, <1>3, ContentIsContents DEF Ring!Content, RingInv
<1>5. h \in 0..(RingSize - 1) /\ RingSize \in Nat
  BY <1>2, ContentsAreBytes DEF RingInv
<1>6. m \in 0..h /\ m <= n
  BY <1>2, <1>5 DEF Ring!Least
<1>7. /\ got \in Seq(Bytes \cup {NUL}) /\ Len(got) = m
      /\ Contents(RingSize, new) \in Seq(Bytes \cup {NUL})
  <2>1. Contents(RingSize, ring) \in Seq(Bytes \cup {NUL}) /\ Len(Contents(RingSize, ring)) = h
    BY <1>2, <1>4 DEF RingInv
  <2> QED BY <1>3, <1>5, <1>6, <2>1
<1>8. PICK k : k = Ring!Least(n, RingSize)
  OBVIOUS
<1>9. k \in 0..(RingSize - 1 + 1) /\ m = RingFifo!Least(k, h)
  BY <1>2, <1>5, <1>8 DEF Ring!Least, RingFifo!Least
<1>10. RingFifo!Get(k)
  BY <1>2, <1>3, <1>4, <1>7, <1>9 DEF RingFifo!Get
<1> QED BY <1>3, <1>4, <1>7, <1>9, <1>10 DEF RingInv

(* Every call of the ring is one of the fifo.                              *)
LEMMA RingStep ==
  ASSUME RingInv, Ring!Next
  PROVE  RingInv' /\ RingFifo!Next
<1> USE RingSized
<1>1. CASE Ring!Clear
  BY <1>1, ClearIsClear DEF RingFifo!Next
<1>2. ASSUME NEW bytes \in Ring!Chunks, Ring!Put(bytes) PROVE RingInv' /\ RingFifo!Next
  BY <1>2, PutIsPut DEF RingFifo!Next
<1>3. ASSUME NEW n \in 0..(RingSize + 1), Ring!Get(n) PROVE RingInv' /\ RingFifo!Next
  <2>1. n \in Nat /\ ring' = Ring!GetBytes(ring, n).ring /\ moved' = Ring!GetBytes(ring, n).got
    BY <1>3 DEF Ring!Get
  <2> QED BY <2>1, GetIsGet DEF RingFifo!Next
<1>4. ASSUME NEW n \in 0..(RingSize + 1), Ring!GetLine(n) PROVE RingInv' /\ RingFifo!Next
  <2>1. PICK m : m = Ring!Least(n, Ring!StringLength(ring) + 1)
    OBVIOUS
  <2>2. m \in Nat
    BY <2>1, StringEnds DEF Ring!Least, RingInv, Rings
  <2>3. ring' = Ring!GetBytes(ring, m).ring /\ moved' = Ring!GetBytes(ring, m).got
    BY <1>4, <2>1 DEF Ring!GetLine, Ring!GetString
  <2> QED BY <2>2, <2>3, GetIsGet DEF RingFifo!Next
<1> QED BY <1>1, <1>2, <1>3, <1>4 DEF Ring!Next

-----------------------------------------------------------------------------
(* Of every size, a ring stays one that pp_ring_create could have made,    *)
(* and gives out only bytes that were put: never what malloc left there.   *)
THEOREM RingInvariant == Ring!Spec => []RingInv
<1>1. RingInv /\ UNCHANGED Ring!vars => RingInv'
  BY DEF RingInv, Ring!vars, Ring!Content
<1>2. RingInv /\ [Ring!Next]_Ring!vars => RingInv'
  BY <1>1, RingStep
<1> QED BY RingInit, <1>2, PTL DEF Ring!Spec

(* The ring implements the fifo: whatever is put and got, in chunks or in  *)
(* lines, around the end of the buffer or not, no byte is lost, repeated,  *)
(* reordered or read before it was put.                                    *)
THEOREM RingIsFifo == Ring!Spec => RingImplementsFifo
<1>1. RingInv /\ UNCHANGED Ring!vars => UNCHANGED <<Ring!Content, moved>>
  BY DEF Ring!vars, Ring!Content
<1>2. RingInv /\ [Ring!Next]_Ring!vars => [RingFifo!Next]_<<Ring!Content, moved>>
  BY <1>1, RingStep
<1> QED BY RingInit, <1>2, RingInvariant, PTL DEF Ring!Spec, RingImplementsFifo, RingFifo!Spec

LEMMA LogSized == LogSize \in Nat \ {0}
BY LogAssumption DEF Log!LogAssumption

-----------------------------------------------------------------------------
(* The log. The instance has its own copies of the ring's operators.       *)
LEMMA SamePut ==
  ASSUME NEW r, NEW bytes
  PROVE  Log!PutBytes(r, bytes) = Ring!PutBytes(r, bytes)
BY DEF Log!PutBytes, Ring!PutBytes, Log!RoomAhead, Ring!RoomAhead, Log!Copied, Ring!Copied, Log!Least, Ring!Least

(* pp_ring_get_advance, when the bytes do not fit: into overtakes from, so *)
(* that of the bytes held the last ones are not held any more.             *)
LEMMA AdvanceForgets ==
  ASSUME NEW size \in Nat \ {0}, NEW r \in Rings(size), NEW n \in 0..size, Held(size, r) + n >= size
  PROVE  LET new == Ring!Advanced(r, n)
             k == Held(size, r) + n - size IN
         /\ new \in Rings(size) /\ Held(size, new) = k
         /\ \A i \in 1..k : new.buff[Place(size, new, i)] = r.buff[Place(size, r, i)]
<1>1. PICK into \in 0..(size - 1), from \in 0..(size - 1),
           buff \in [0..size -> Bytes \cup {NUL, Garbage}] :
        r = [size |-> size, into |-> into, from |-> from, buff |-> buff] /\ buff[size] = NUL
  BY RingParts
<1>2. size \in Nat \ {0}
  OBVIOUS
<1>3. PICK after : after = IF n + into >= size THEN n + into - size ELSE n + into
  OBVIOUS
<1>4. PICK held : held = IF into >= from THEN into - from ELSE into - from + size
  OBVIOUS
<1>5. Held(size, r) = held
  BY <1>1, <1>4 DEF Held
<1>6. /\ after \in 0..(size - 1)
      /\ held + n - size = IF after >= from THEN after - from ELSE after - from + size
  BY <1>2, <1>3, <1>4, <1>5
<1>7. PICK new : new = [size |-> size, into |-> after, from |-> from, buff |-> buff]
  OBVIOUS
<1>8. Ring!Advanced(r, n) = new
  <2>1. PICK sum : sum = n + r.into
    OBVIOUS
  <2>2. [r EXCEPT !.into = after] = new
    BY <1>1, <1>7
  <2>3. after = IF sum >= r.size THEN sum - r.size ELSE sum
    <3>1. r.size = size /\ r.into = into
      BY <1>1
    <3>2. sum = n + into
      BY <2>1, <3>1
    <3>3. after = IF sum >= size THEN sum - size ELSE sum
      BY <1>2, <1>3, <3>2
    <3> QED BY <3>1, <3>3
  <2>4. Ring!Advanced(r, n) = [r EXCEPT !.into = after]
    BY <2>1, <2>3 DEF Ring!Advanced
  <2> QED BY <2>2, <2>4
<1>9. new \in Rings(size) /\ Held(size, new) = held + n - size
  BY <1>1, <1>6, <1>7 DEF Rings, Held
<1>10. \A i : new.buff[Place(size, new, i)] = r.buff[Place(size, r, i)]
  BY <1>1, <1>7 DEF Place
<1> QED BY <1>5, <1>8, <1>9, <1>10

LEMMA AdvanceIsPrefix ==
  ASSUME NEW size \in Nat \ {0}, NEW r \in Rings(size), NEW n \in 0..size, Held(size, r) + n >= size
  PROVE  /\ Ring!Advanced(r, n) \in Rings(size)
         /\ Contents(size, Ring!Advanced(r, n)) = SubSeq(Contents(size, r), 1, Held(size, r) + n - size)
<1>1. PICK new, k, h : new = Ring!Advanced(r, n) /\ k = h + n - size /\ h = Held(size, r)
  OBVIOUS
<1>2. /\ new \in Rings(size) /\ Held(size, new) = k
      /\ \A i \in 1..k : new.buff[Place(size, new, i)] = r.buff[Place(size, r, i)]
  BY <1>1, AdvanceForgets
<1>3. PICK old : old = Contents(size, r)
  OBVIOUS
<1>4. /\ old \in Seq(Bytes \cup {NUL, Garbage}) /\ Len(old) = h /\ h \in Nat
      /\ \A i \in 1..h : old[i] = r.buff[Place(size, r, i)]
  BY <1>1, <1>3, ContentsAreBytes
<1>5. /\ Contents(size, new) \in Seq(Bytes \cup {NUL, Garbage}) /\ Len(Contents(size, new)) = k
      /\ \A i \in 1..k : Contents(size, new)[i] = new.buff[Place(size, new, i)]
  BY <1>2, ContentsAreBytes
<1>6. k \in 0..h
  BY <1>1, <1>4
<1>7. /\ SubSeq(old, 1, k) \in Seq(Bytes \cup {NUL, Garbage}) /\ Len(SubSeq(old, 1, k)) = k
      /\ \A i \in 1..k : SubSeq(old, 1, k)[i] = old[i] /\ i \in 1..h
  BY <1>4, <1>6
<1>8. \A i \in 1..k : Contents(size, new)[i] = SubSeq(old, 1, k)[i]
  BY <1>2, <1>4, <1>5, <1>7
<1>9. Contents(size, new) = SubSeq(old, 1, k)
  BY <1>5, <1>7, <1>8, SameSequence
<1> QED BY <1>1, <1>2, <1>3, <1>9

(* pp_ring_put_with_shift: a line always fits in the end, and the bytes    *)
(* that stay are the ones held longest.                                    *)
LEMMA ShiftForgets ==
  ASSUME NEW r \in Rings(LogSize), NEW line \in Log!Lines
  PROVE  LET new == Log!PutWithShift(r, line).ring IN
         /\ new \in Rings(LogSize)
         /\ \E k \in 0..Held(LogSize, r) : Contents(LogSize, new) = SubSeq(Contents(LogSize, r), 1, k) \o line
<1>0. LogSize \in Nat \ {0}
  BY LogSized
<1>1. PICK len : len = Len(line)
  OBVIOUS
<1>2. /\ line \in Seq(Bytes \cup {NUL}) /\ len \in 0..MaxLine
      /\ MaxLine \in Nat \ {0} /\ LogSize \in Nat /\ LogSize >= 2 * MaxLine
  <2>0. PICK n \in 0..(MaxLine - 1) : \E text \in [1..n -> Bytes] : line = Append(text, NUL)
    BY DEF Log!Lines
  <2>1. PICK text \in [1..n -> Bytes] : line = Append(text, NUL)
    BY <2>0
  <2>2. MaxLine \in Nat \ {0} /\ LogSize \in Nat /\ LogSize >= 2 * MaxLine
    BY LogAssumption DEF Log!LogAssumption
  <2>3. text \in Seq(Bytes \cup {NUL}) /\ Len(text) = n
    BY <2>1, <2>2
  <2>4. line \in Seq(Bytes \cup {NUL}) /\ Len(line) = n + 1
    BY <2>1, <2>3
  <2> QED BY <1>1, <2>1, <2>2, <2>4
<1>3. LogSize \in Nat \ {0} /\ Held(LogSize, r) \in 0..(LogSize - 1) /\ len \in 0..LogSize
  BY <1>0, <1>2, ContentsAreBytes
<1>4. Log!FreeBytes(r) = LogSize - 1 - Held(LogSize, r)
  <2>1. /\ r.size = LogSize /\ r.into \in 0..(LogSize - 1) /\ r.from \in 0..(LogSize - 1)
    BY DEF Rings
  <2> QED BY <1>3, <2>1 DEF Log!FreeBytes, Held
<1>5. ASSUME NEW q \in Rings(LogSize), NEW k \in 0..Held(LogSize, r), Contents(LogSize, q) = SubSeq(Contents(LogSize, r), 1, k),
             len <= LogSize - 1 - k, Log!PutWithShift(r, line) = Log!PutBytes(q, line)
      PROVE  /\ Log!PutWithShift(r, line).ring \in Rings(LogSize)
             /\ Contents(LogSize, Log!PutWithShift(r, line).ring) = SubSeq(Contents(LogSize, r), 1, k) \o line
  <2>1. PICK new, n : new = Ring!PutBytes(q, line).ring /\ n = Ring!PutBytes(q, line).put
    OBVIOUS
  <2>2. Log!PutWithShift(r, line).ring = new
    BY <1>5, <2>1, SamePut
  <2>3. /\ new \in Rings(LogSize) /\ n = Ring!Least(Len(line), LogSize - 1 - Len(Contents(LogSize, q)))
        /\ Contents(LogSize, new) = Contents(LogSize, q) \o SubSeq(line, 1, n)
    BY <1>2, <1>3, <2>1, PutIsAppend
  <2>4. Len(Contents(LogSize, q)) = k
    BY <1>3, <1>5, ContentsAreBytes
  <2>5. n = len /\ SubSeq(line, 1, n) = line
    BY <1>1, <1>2, <1>3, <1>5, <2>3, <2>4 DEF Ring!Least
  <2> QED BY <1>5, <2>2, <2>3, <2>5
<1>6. CASE len > Log!FreeBytes(r)
  <2>1. PICK k : k = Held(LogSize, r) + len - LogSize
    OBVIOUS
  <2>2. /\ k \in 0..Held(LogSize, r) /\ Held(LogSize, r) + len >= LogSize /\ len <= LogSize - 1 - k
    BY <1>2, <1>3, <1>4, <1>6, <2>1
  <2>3. /\ Ring!Advanced(r, len) \in Rings(LogSize)
        /\ Contents(LogSize, Ring!Advanced(r, len)) = SubSeq(Contents(LogSize, r), 1, k)
    BY <1>3, <2>1, <2>2, AdvanceIsPrefix
  <2>4. Log!PutWithShift(r, line) = Log!PutBytes(Ring!Advanced(r, len), line)
    BY <1>1, <1>6 DEF Log!PutWithShift, Log!Advanced, Ring!Advanced
  <2> QED BY <1>5, <2>2, <2>3, <2>4
<1>7. CASE ~(len > Log!FreeBytes(r))
  <2>1. /\ Held(LogSize, r) \in 0..Held(LogSize, r) /\ len <= LogSize - 1 - Held(LogSize, r)
    BY <1>3, <1>4, <1>7
  <2>2. Contents(LogSize, r) = SubSeq(Contents(LogSize, r), 1, Held(LogSize, r))
    BY <1>3, ContentsAreBytes
  <2>3. Log!PutWithShift(r, line) = Log!PutBytes(r, line)
    BY <1>1, <1>7 DEF Log!PutWithShift
  <2> QED BY <1>5, <2>1, <2>2, <2>3
<1> QED BY <1>6, <1>7

-----------------------------------------------------------------------------
LogInv ==
  /\ log \in Rings(LogSize)
  /\ newest \in Log!Lines \cup {NoLine}

LEMMA LogInit ==
  ASSUME Log!Init
  PROVE  LogInv
BY LogSized DEF Log!Init, Log!Created, LogInv, Rings

LEMMA LogStep ==
  ASSUME LogInv, NEW line \in Log!Lines, Log!Log(line)
  PROVE  /\ LogInv'
         /\ newest' = line
         /\ \E k \in 0..Len(Log!Content(log)) :
              Log!Content(log') = SubSeq(Log!Content(log), 1, k) \o line
<1>1. log \in Rings(LogSize) /\ LogSize \in Nat \ {0}
  BY LogSized DEF LogInv
<1>2. /\ log' \in Rings(LogSize)
      /\ \E k \in 0..Held(LogSize, log) : Contents(LogSize, log') = SubSeq(Contents(LogSize, log), 1, k) \o line
  <2>1. PICK new : new = Log!PutWithShift(log, line).ring
    OBVIOUS
  <2>2. /\ new \in Rings(LogSize)
        /\ \E k \in 0..Held(LogSize, log) : Contents(LogSize, new) = SubSeq(Contents(LogSize, log), 1, k) \o line
    BY <1>1, <2>1, ShiftForgets
  <2>3. log' = new
    BY <2>1 DEF Log!Log
  <2> QED BY <2>2, <2>3
<1>3. newest' = line
  BY DEF Log!Log
<1>4. Log!Content(log) = Contents(LogSize, log) /\ Len(Contents(LogSize, log)) = Held(LogSize, log)
  BY <1>1, ContentIsContents, ContentsAreBytes DEF Log!Content
<1>5. Log!Content(log') = Contents(LogSize, log')
  BY <1>1, <1>2, ContentIsContents DEF Log!Content
<1> QED BY <1>2, <1>3, <1>4, <1>5 DEF LogInv

(* The log stays a ring pp_ring_create could have made: the advance that   *)
(* makes room never moves into out of the buffer, and no line, however     *)
(* long, overwrites the NUL behind it.                                     *)
THEOREM LogInvariant == Log!Spec => []LogInv
<1>1. LogInv /\ UNCHANGED Log!vars => LogInv'
  BY DEF LogInv, Log!vars
<1>2. LogInv /\ [Log!Next]_Log!vars => LogInv'
  BY <1>1, LogStep DEF Log!Next
<1> QED BY LogInit, <1>2, PTL DEF Log!Spec

(* A new line is always in the log whole, behind the oldest of the bytes   *)
(* that were there: what pp_ring_get_advance forgets is never the start.   *)
THEOREM LogForgetsFromTheMiddle == Log!Spec => ForgetsFromTheMiddle
<1> DEFINE Forgets == \E line \in Log!Lines : newest' = line /\
             \E k \in 0..Len(Log!Content(log)) :
               Log!Content(log') = SubSeq(Log!Content(log), 1, k) \o line
<1>1. LogInv /\ [Log!Next]_Log!vars => [Forgets]_log
  <2>1. UNCHANGED Log!vars => UNCHANGED log
    BY DEF Log!vars
  <2>2. LogInv /\ Log!Next => Forgets
    BY LogStep DEF Log!Next
  <2> QED BY <2>1, <2>2
<1> QED BY <1>1, LogInvariant, PTL
    DEF Log!Spec, ForgetsFromTheMiddle, Log!ForgetsFromTheMiddle

-----------------------------------------------------------------------------
(* A loop of n turns from start, each turn a step of S.                    *)
Turns(n, S) == [(1..n) \X S -> S]
Runs(loop, n, S, start, turn) ==
  /\ loop \in [0..n -> S] /\ loop[0] = start
  /\ \A k \in 1..n : loop[k] = turn[<<k, loop[k - 1]>>]

(* A loop whose every turn makes a state of the one before it has a state   *)
(* after each turn.                                                         *)
LEMMA LoopRuns ==
  ASSUME NEW n \in Nat, NEW S, NEW start \in S, NEW turn \in Turns(n, S)
  PROVE  \E loop : Runs(loop, n, S, start, turn)
<1> DEFINE Run(m, f) == f \in [0..m -> S] /\ f[0] = start
                        /\ \A k \in 1..m : f[k] = turn[<<k, f[k - 1]>>]
<1>1. PICK T : T = {m \in 0..n : ~\E f : Run(m, f)}
  OBVIOUS
<1>2. T = {}
  <2> SUFFICES ASSUME T # {} PROVE FALSE
    OBVIOUS
  <2>1. PICK m \in T : \A l \in T : m <= l
    <3>1. T \in SUBSET Nat
      BY <1>1
    <3> QED BY <3>1, LeastNumber
  <2>2. m \in 0..n /\ ~\E f : Run(m, f)
    BY <1>1
  <2>3. CASE m = 0
    <3>1. PICK f : f = [k \in 0..0 |-> start]
      OBVIOUS
    <3>2. Run(0, f)
      BY <3>1
    <3> QED BY <2>2, <2>3, <3>2
  <2>4. CASE m # 0
    <3>1. m - 1 \in 0..n /\ m - 1 \notin T
      BY <2>1, <2>2, <2>4
    <3>2. PICK f : Run(m - 1, f)
      BY <1>1, <3>1
    <3>3. f[m - 1] \in S /\ m \in 1..n
      BY <2>2, <2>4, <3>2
    <3>4. PICK x \in S : x = turn[<<m, f[m - 1]>>]
      BY <3>3 DEF Turns
    <3>5. PICK g : g = [k \in 0..m |-> IF k = m THEN x ELSE f[k]]
      OBVIOUS
    <3>6. \A k \in 0..(m - 1) : g[k] = f[k]
      BY <2>2, <3>5
    <3>7. g[m] = x
      BY <2>2, <3>5
    <3>8. g \in [0..m -> S]
      BY <2>2, <3>2, <3>5
    <3>9. g[0] = start
      BY <2>2, <2>4, <3>2, <3>6
    <3>10. ASSUME NEW k \in 1..m PROVE g[k] = turn[<<k, g[k - 1]>>]
      <4>1. k - 1 \in 0..(m - 1) /\ g[k - 1] = f[k - 1]
        BY <2>2, <3>6, <3>10
      <4>2. CASE k = m
        BY <3>4, <3>7, <4>1, <4>2
      <4>3. CASE k # m
        <5>1. k \in 1..(m - 1) /\ g[k] = f[k]
          BY <2>2, <3>6, <4>3
        <5> QED BY <3>2, <4>1, <5>1
      <4> QED BY <4>2, <4>3
    <3>11. Run(m, g)
      BY <3>8, <3>9, <3>10
    <3> QED BY <2>2, <3>11
  <2> QED BY <2>3, <2>4
<1>3. PICK f : Run(n, f)
  <2>1. n \in 0..n /\ n \notin T
    BY <1>2
  <2> QED BY <1>1, <2>1
<1> QED BY <1>3 DEF Runs

-----------------------------------------------------------------------------
(* What pp_log_show prints.                                                *)

(* Where a property of numbers passes from each to the next, all have it.  *)
LEMMA UpTo ==
  ASSUME NEW n \in Nat, NEW good, 0 \in good,
         \A k \in 1..n : k - 1 \in good => k \in good
  PROVE  \A k \in 0..n : k \in good
<1> SUFFICES ASSUME \E k \in 0..n : k \notin good PROVE FALSE
  OBVIOUS
<1>1. PICK T : T = {k \in 0..n : k \notin good}
  OBVIOUS
<1>2. PICK k \in T : \A l \in T : k <= l
  <2>1. T \in SUBSET Nat /\ T # {}
    BY <1>1
  <2> QED BY <2>1, LeastNumber
<1>3. k \in 1..n /\ k - 1 \in 0..n /\ k - 1 \notin T
  BY <1>1, <1>2
<1> QED BY <1>1, <1>2, <1>3

AllBytes == Bytes \cup {NUL, Garbage}

Kept(text, b) == IF b = NUL THEN text ELSE Append(text, b)

(* f is how Text goes through the bytes.                                   *)
Keeps(f, bytes) ==
  /\ f \in [0..Len(bytes) -> Seq(AllBytes)] /\ f[0] = <<>>
  /\ \A i \in 1..Len(bytes) : f[i] = Kept(f[i - 1], bytes[i])
  /\ Log!Text(bytes) = f[Len(bytes)]

LEMMA TextKeeps ==
  ASSUME NEW bytes \in Seq(AllBytes)
  PROVE  \E f : Keeps(f, bytes)
<1>1. PICK n \in Nat : n = Len(bytes)
  OBVIOUS
<1>2. PICK turn : turn = [x \in (1..n) \X Seq(AllBytes) |-> Kept(x[2], bytes[x[1]])]
  OBVIOUS
<1>3. PICK S : S = Seq(AllBytes)
  OBVIOUS
<1>4. turn \in Turns(n, S) /\ <<>> \in S
  <2>1. ASSUME NEW k \in 1..n, NEW text \in Seq(AllBytes)
        PROVE  Kept(text, bytes[k]) \in Seq(AllBytes)
    <3>1. bytes[k] \in AllBytes
      BY <1>1
    <3> QED BY <3>1 DEF Kept
  <2> QED BY <1>2, <1>3, <2>1 DEF Turns
<1>5. PICK f : Runs(f, n, S, <<>>, turn)
  BY <1>4, LoopRuns
<1>6. /\ f \in [0..n -> Seq(AllBytes)] /\ f[0] = <<>>
      /\ \A i \in 1..n : f[i] = Kept(f[i - 1], bytes[i])
  <2>1. /\ f \in [0..n -> S] /\ f[0] = <<>>
        /\ \A i \in 1..n : f[i] = turn[<<i, f[i - 1]>>]
    BY <1>5 DEF Runs
  <2>2. ASSUME NEW i \in 1..n PROVE f[i] = Kept(f[i - 1], bytes[i])
    <3>1. i - 1 \in 0..n
      OBVIOUS
    <3>2. f[i - 1] \in Seq(AllBytes)
      BY <1>3, <2>1, <3>1
    <3> QED BY <1>2, <2>1, <3>2
  <2> QED BY <1>3, <2>1, <2>2
<1>7. PICK kept : kept = CHOOSE g : g = [i \in 0..Len(bytes) |->
        IF i = 0 THEN <<>>
        ELSE IF bytes[i] = NUL THEN g[i - 1] ELSE Append(g[i - 1], bytes[i])]
  OBVIOUS
<1>8. kept = CHOOSE g : g = [i \in 0..Len(bytes) |-> IF i = 0 THEN <<>> ELSE Kept(g[i - 1], bytes[i])]
  BY <1>7 DEF Kept
<1>9. Log!Text(bytes) = kept[n]
  BY <1>1, <1>7 DEF Log!Text
<1>10. kept = [i \in 0..Len(bytes) |-> IF i = 0 THEN <<>> ELSE Kept(kept[i - 1], bytes[i])]
  <2>1. PICK g : g = [i \in 0..Len(bytes) |-> IF i = 0 THEN <<>> ELSE Kept(f[i - 1], bytes[i])]
    OBVIOUS
  <2>2. ASSUME NEW i \in 0..n PROVE g[i] = f[i]
    BY <1>1, <1>6, <2>1
  <2>3. f = g
    BY <1>1, <1>6, <2>1, <2>2
  <2> QED BY <1>8, <2>1, <2>3
<1>11. \A i \in 0..n : kept[i] = f[i]
  <2>1. PICK good : good = {i \in 0..n : kept[i] = f[i]}
    OBVIOUS
  <2>2. 0 \in good
    BY <1>6, <1>10, <2>1
  <2>3. ASSUME NEW i \in 1..n, i - 1 \in good PROVE i \in good
    BY <1>1, <1>6, <1>10, <2>1, <2>3
  <2> QED BY <2>1, <2>2, <2>3, UpTo
<1> QED BY <1>1, <1>6, <1>9, <1>11 DEF Keeps

(* One more byte behind the second of two pieces.                          *)
LEMMA OneBehind ==
  ASSUME NEW x \in Seq(AllBytes), NEW y \in Seq(AllBytes), NEW e \in AllBytes
  PROVE  Append(x \o y, e) = x \o Append(y, e)
<1>1. PICK last \in Seq(AllBytes) : last = <<e>>
  <2>1. <<e>> \in Seq(AllBytes)
    OBVIOUS
  <2> QED BY <2>1
<1>2. x \o y \in Seq(AllBytes)
  BY Concatenation
<1>3. Append(x \o y, e) = (x \o y) \o last /\ Append(y, e) = y \o last
  BY <1>1, <1>2, AppendIsConcat
<1>4. (x \o y) \o last = x \o (y \o last)
  BY ConcatAssociative
<1> QED BY <1>3, <1>4

(* The text of two pieces is that of the one and then that of the other.   *)
LEMMA TextJoins ==
  ASSUME NEW a \in Seq(AllBytes), NEW b \in Seq(AllBytes)
  PROVE  /\ Log!Text(a \o b) = Log!Text(a) \o Log!Text(b)
         /\ Log!Text(a) \in Seq(AllBytes)
<1>1. PICK n \in Nat, m \in Nat : n = Len(a) /\ m = Len(b)
  OBVIOUS
<1>2. PICK c : c = a \o b
  OBVIOUS
<1>3. /\ c \in Seq(AllBytes) /\ Len(c) = n + m
      /\ \A i \in 1..n : c[i] = a[i]
      /\ \A i \in 1..m : c[n + i] = b[i]
  BY <1>1, <1>2
<1>4. PICK f : Keeps(f, a)
  BY TextKeeps
<1>5. PICK g : Keeps(g, b)
  BY TextKeeps
<1>6. PICK h : Keeps(h, c)
  BY <1>3, TextKeeps
<1>7. /\ f \in [0..n -> Seq(AllBytes)] /\ f[0] = <<>> /\ Log!Text(a) = f[n]
      /\ \A i \in 1..n : f[i] = Kept(f[i - 1], a[i])
  BY <1>1, <1>4 DEF Keeps
<1>8. /\ g \in [0..m -> Seq(AllBytes)] /\ g[0] = <<>> /\ Log!Text(b) = g[m]
      /\ \A i \in 1..m : g[i] = Kept(g[i - 1], b[i])
  BY <1>1, <1>5 DEF Keeps
<1>9. /\ h[0] = <<>> /\ Log!Text(c) = h[n + m]
      /\ \A i \in 1..(n + m) : h[i] = Kept(h[i - 1], c[i])
  BY <1>3, <1>6 DEF Keeps
<1>10. \A i \in 0..n : h[i] = f[i]
  <2>1. PICK good : good = {i \in 0..n : h[i] = f[i]}
    OBVIOUS
  <2>2. 0 \in good
    BY <1>7, <1>9, <2>1
  <2>3. ASSUME NEW i \in 1..n, i - 1 \in good PROVE i \in good
    BY <1>3, <1>7, <1>9, <2>1, <2>3
  <2> QED BY <2>1, <2>2, <2>3, UpTo
<1>11. f[n] \in Seq(AllBytes)
  BY <1>7
<1>12. \A i \in 0..m : h[n + i] = f[n] \o g[i]
  <2>1. PICK good : good = {i \in 0..m : h[n + i] = f[n] \o g[i]}
    OBVIOUS
  <2>2. 0 \in good
    <3>1. n + 0 = n /\ n \in 0..n /\ 0 \in 0..m
      OBVIOUS
    <3>2. f[n] \o <<>> = f[n]
      BY <1>11, ConcatEmptySeq
    <3>3. h[n + 0] = f[n] \o g[0]
      BY <1>8, <1>10, <3>1, <3>2
    <3> QED BY <2>1, <3>1, <3>3
  <2>3. ASSUME NEW i \in 1..m, i - 1 \in good PROVE i \in good
    <3>1. h[n + i] = Kept(h[n + i - 1], c[n + i]) /\ c[n + i] = b[i] /\ n + (i - 1) = n + i - 1
      BY <1>3, <1>9
    <3>2. h[n + i - 1] = f[n] \o g[i - 1]
      BY <2>1, <2>3, <3>1
    <3>3. PICK x, y, e : x = f[n] /\ y = g[i - 1] /\ e = b[i]
      OBVIOUS
    <3>4. x \in Seq(AllBytes) /\ y \in Seq(AllBytes) /\ e \in AllBytes
      <4>1. i - 1 \in 0..m
        OBVIOUS
      <4>2. g[i - 1] \in Seq(AllBytes)
        BY <1>8, <4>1
      <4>3. b[i] \in AllBytes
        BY <1>1
      <4> QED BY <1>11, <3>3, <4>2, <4>3
    <3>5. Append(x \o y, e) = x \o Append(y, e)
      BY <3>4, OneBehind
    <3>6. Kept(x \o y, e) = x \o Kept(y, e)
      BY <3>5 DEF Kept
    <3>7. h[n + i] = Kept(x \o y, e)
      BY <3>1, <3>2, <3>3
    <3>8. g[i] = Kept(y, e)
      BY <1>8, <3>3
    <3>9. i \in 0..m /\ h[n + i] = f[n] \o g[i]
      BY <3>3, <3>6, <3>7, <3>8
    <3> QED BY <2>1, <3>9
  <2> QED BY <2>1, <2>2, <2>3, UpTo
<1>13. h[n + m] = f[n] \o g[m]
  <2>1. m \in 0..m
    OBVIOUS
  <2> QED BY <1>12, <2>1
<1> QED BY <1>2, <1>7, <1>8, <1>9, <1>11, <1>13

(* Bytes without a NUL are their own text, and a NUL has none.             *)
LEMMA TextOfText ==
  ASSUME NEW a \in Seq(AllBytes), \A i \in 1..Len(a) : a[i] # NUL
  PROVE  Log!Text(a) = a
<1>1. PICK n \in Nat : n = Len(a)
  OBVIOUS
<1>2. PICK f : Keeps(f, a)
  BY TextKeeps
<1>3. /\ f[0] = <<>> /\ Log!Text(a) = f[n]
      /\ \A i \in 1..n : f[i] = Kept(f[i - 1], a[i])
  BY <1>1, <1>2 DEF Keeps
<1>4. \A i \in 0..n : f[i] = SubSeq(a, 1, i)
  <2>1. PICK good : good = {i \in 0..n : f[i] = SubSeq(a, 1, i)}
    OBVIOUS
  <2>2. 0 \in good
    <3>1. SubSeq(a, 1, 0) = <<>>
      BY SubSeqEmpty
    <3>2. 0 \in 0..n
      OBVIOUS
    <3> QED BY <1>3, <2>1, <3>1, <3>2
  <2>3. ASSUME NEW i \in 1..n, i - 1 \in good PROVE i \in good
    <3>1. f[i] = Append(SubSeq(a, 1, i - 1), a[i])
      BY <1>1, <1>3, <2>1, <2>3 DEF Kept
    <3>2. Append(SubSeq(a, 1, i - 1), a[i]) = SubSeq(a, 1, i)
      BY <1>1
    <3> QED BY <2>1, <3>1, <3>2
  <2> QED BY <2>1, <2>2, <2>3, UpTo
<1>5. SubSeq(a, 1, n) = a
  BY <1>1
<1> QED BY <1>3, <1>4, <1>5

LEMMA TextOfNul == Log!Text(<<NUL>>) = <<>>
<1>1. <<NUL>> \in Seq(AllBytes) /\ Len(<<NUL>>) = 1 /\ <<NUL>>[1] = NUL
  BY DEF AllBytes
<1>2. PICK f : Keeps(f, <<NUL>>)
  BY <1>1, TextKeeps
<1>3. f[0] = <<>> /\ f[1] = Kept(f[0], NUL) /\ Log!Text(<<NUL>>) = f[1]
  <2>1. 1 \in 1..1 /\ 1 - 1 = 0
    OBVIOUS
  <2> QED BY <1>1, <1>2, <2>1 DEF Keeps
<1> QED BY <1>3 DEF Kept

(* Where a NUL can only be the last of the bytes got, all before it is     *)
(* printed, and that is their text.                                        *)
LEMMA PrintedIsText ==
  ASSUME NEW got \in Seq(AllBytes), \A i \in 1..(Len(got) - 1) : got[i] # NUL
  PROVE  /\ Log!Printed(got) \in Seq(AllBytes) /\ Log!Printed(got) = Log!Text(got)
         /\ Log!Plain(got) => Log!Plain(Log!Printed(got))
<1>1. PICK m \in Nat : m = Len(got)
  OBVIOUS
<1>2. PICK n : n = CHOOSE k \in 0..Len(got) :
             /\ k = Len(got) \/ got[k + 1] = NUL
             /\ \A i \in 1..k : got[i] # NUL
  OBVIOUS
<1>3. Log!Printed(got) = SubSeq(got, 1, n)
  BY <1>2 DEF Log!Printed
<1>4. \E k \in 0..Len(got) : /\ k = Len(got) \/ got[k + 1] = NUL
                             /\ \A i \in 1..k : got[i] # NUL
  <2>1. CASE m = 0 \/ got[m] # NUL
    <3>1. m \in 0..Len(got) /\ \A i \in 1..m : got[i] # NUL
      BY <1>1, <2>1
    <3> QED BY <1>1, <3>1
  <2>2. CASE m # 0 /\ got[m] = NUL
    <3>1. m - 1 \in 0..Len(got) /\ (m - 1) + 1 = m /\ \A i \in 1..(m - 1) : got[i] # NUL
      BY <1>1, <2>2
    <3> QED BY <2>2, <3>1
  <2> QED BY <2>1, <2>2
<1>5. /\ n \in 0..m /\ (n = m \/ got[n + 1] = NUL)
      /\ \A i \in 1..n : got[i] # NUL
  BY <1>1, <1>2, <1>4
<1>6. PICK front : front = SubSeq(got, 1, n)
  OBVIOUS
<1>7. /\ front \in Seq(AllBytes) /\ Len(front) = n
      /\ \A i \in 1..n : front[i] = got[i]
  BY <1>1, <1>5, <1>6
<1>8. Log!Text(front) = front
  BY <1>5, <1>7, TextOfText
<1>9. Log!Plain(got) => Log!Plain(front)
  BY <1>1, <1>5, <1>7 DEF Log!Plain
<1>10. CASE n = m
  <2>1. front = got
    BY <1>1, <1>6, <1>10, SubSeqFull
  <2> QED BY <1>3, <1>6, <1>7, <1>8, <1>9, <2>1
<1>11. CASE n # m
  <2>1. n + 1 \in 1..m /\ ~(n + 1 \in 1..(m - 1))
    <3>1. n + 1 \in 1..m /\ got[n + 1] = NUL
      BY <1>5, <1>11
    <3> QED BY <1>1, <3>1
  <2>2. n + 1 = m /\ got[m] = NUL
    BY <1>5, <1>11, <2>1
  <2>3. PICK nul \in Seq(AllBytes) : nul = <<NUL>> /\ Len(nul) = 1 /\ nul[1] = NUL
    <3>1. <<NUL>> \in Seq(AllBytes) /\ Len(<<NUL>>) = 1 /\ <<NUL>>[1] = NUL
      BY DEF AllBytes
    <3> QED BY <3>1
  <2>4. /\ front \o nul \in Seq(AllBytes) /\ Len(front \o nul) = n + 1
        /\ \A i \in 1..(n + 1) : (front \o nul)[i] = IF i <= n THEN front[i] ELSE nul[i - n]
    <3>1. /\ front \o nul \in Seq(AllBytes) /\ Len(front \o nul) = Len(front) + Len(nul)
          /\ \A i \in 1..(Len(front) + Len(nul)) :
               (front \o nul)[i] = IF i <= Len(front) THEN front[i] ELSE nul[i - Len(front)]
      BY <1>7, <2>3, Concatenation
    <3>2. Len(front) = n /\ Len(front) + Len(nul) = n + 1
      BY <1>5, <1>7, <2>3
    <3> QED BY <3>1, <3>2
  <2>5. ASSUME NEW i \in 1..m PROVE got[i] = (front \o nul)[i]
    <3>1. CASE i <= n
      BY <1>5, <1>7, <2>2, <2>4, <3>1
    <3>2. CASE i > n
      <4>1. i = m /\ i - n = 1
        BY <1>5, <2>2, <3>2
      <4> QED BY <1>5, <2>2, <2>3, <2>4, <3>2, <4>1
    <3>3. i <= n \/ i > n
      BY <1>5
    <3> QED BY <3>1, <3>2, <3>3
  <2>6. got = front \o nul
    BY <1>1, <2>2, <2>4, <2>5, SameSequence
  <2>7. Log!Text(got) = front \o <<>>
    <3>1. Log!Text(front \o nul) = Log!Text(front) \o Log!Text(nul)
      BY <1>7, TextJoins
    <3> QED BY <1>8, <2>3, <2>6, <3>1, TextOfNul
  <2>8. front \o <<>> = front
    BY <1>7, ConcatEmptySeq
  <2> QED BY <1>3, <1>6, <1>7, <1>9, <2>7, <2>8
<1> QED BY <1>10, <1>11

LEMMA SameGet ==
  ASSUME NEW r, NEW n
  PROVE  /\ Log!GetBytes(r, n) = Ring!GetBytes(r, n)
         /\ Log!GetString(r, n) = Ring!GetBytes(r, Ring!Least(n, Ring!StringLength(r) + 1))
<1>1. \A k : Log!GetBytes(r, k) = Ring!GetBytes(r, k)
  BY DEF Log!GetBytes, Ring!GetBytes, Log!BytesAt, Ring!BytesAt, Log!Least, Ring!Least
<1>2. Log!StringLength(r) = Ring!StringLength(r)
  BY DEF Log!StringLength, Ring!StringLength
<1> QED BY <1>1, <1>2 DEF Log!GetString, Log!Least, Ring!Least

LEMMA GotTakes ==
  ASSUME NEW size \in Nat \ {0}, NEW r \in Rings(size), NEW n \in Nat,
         NEW got, got = Ring!GetBytes(r, n).got, NEW new, new = Ring!GetBytes(r, n).ring,
         NEW h, h = Held(size, r), NEW m, m = Ring!Least(n, h)
  PROVE  /\ new \in Rings(size) /\ m \in 0..h /\ Held(size, new) = h - m
         /\ got \in Seq(Bytes \cup {NUL, Garbage}) /\ Len(got) = m
         /\ \A i \in 1..m : got[i] = r.buff[Place(size, r, i)]
BY GetTakes

(* A piece is some of the bytes held, while there are any, and ends at the *)
(* first NUL if it has one: the string does not go past the buffer's end.  *)
(* Of bytes without a '%' neither the piece nor the rest has one.          *)
LEMMA PieceIsText ==
  ASSUME NEW size \in Nat \ {0}, NEW r \in Rings(size), NEW piece \in Nat \ {0}
  PROVE  LET g == Log!GetString(r, piece) IN
         /\ g.ring \in Rings(size)
         /\ g.got = <<>> <=> Held(size, r) = 0
         /\ g.got # <<>> => Held(size, g.ring) < Held(size, r)
         /\ Log!Printed(g.got) \in Seq(AllBytes)
         /\ Log!Text(Contents(size, r)) = Log!Printed(g.got) \o Log!Text(Contents(size, g.ring))
         /\ Log!Plain(Contents(size, r)) =>
              Log!Plain(Log!Printed(g.got)) /\ Log!Plain(Contents(size, g.ring))
<1>1. PICK s : s = Ring!StringLength(r)
  OBVIOUS
<1>2. /\ s \in 0..(size - r.from) /\ r.from \in 0..(size - 1)
      /\ \A i \in 0..(s - 1) : r.buff[r.from + i] # NUL
  BY <1>1, StringEnds, RingParts
<1>3. PICK n \in Nat : n = Ring!Least(piece, s + 1) /\ n <= s + 1 /\ n > 0
  BY <1>2 DEF Ring!Least
<1>4. PICK got, new : got = Ring!GetBytes(r, n).got /\ new = Ring!GetBytes(r, n).ring
  OBVIOUS
<1>5. Log!GetString(r, piece).got = got /\ Log!GetString(r, piece).ring = new
  BY <1>1, <1>3, <1>4, SameGet
<1>6. PICK h : h = Held(size, r) /\ h \in 0..(size - 1)
  BY HeldBound
<1>7. PICK m : m = Ring!Least(n, h)
  OBVIOUS
<1>8. /\ new \in Rings(size) /\ m \in 0..h /\ Held(size, new) = h - m
      /\ got \in Seq(AllBytes) /\ Len(got) = m
      /\ \A i \in 1..m : got[i] = r.buff[Place(size, r, i)]
  <2>1. /\ new \in Rings(size) /\ m \in 0..h /\ Held(size, new) = h - m
        /\ got \in Seq(Bytes \cup {NUL, Garbage}) /\ Len(got) = m
        /\ \A i \in 1..m : got[i] = r.buff[Place(size, r, i)]
    BY <1>4, <1>6, <1>7, GotTakes
  <2> QED BY <2>1 DEF AllBytes
<1>9. m <= n /\ (m = 0 <=> h = 0)
  BY <1>3, <1>6, <1>7 DEF Ring!Least
<1>10. got = <<>> <=> m = 0
  BY <1>8
<1>11. ASSUME NEW i \in 1..(Len(got) - 1) PROVE got[i] # NUL
  <2>1. i \in 1..m /\ i - 1 \in 0..(s - 1)
    BY <1>2, <1>3, <1>6, <1>8, <1>9
  <2>2. Place(size, r, i) = r.from + (i - 1)
    BY <1>2, <2>1 DEF Place
  <2> QED BY <1>2, <1>8, <2>1, <2>2
<1>12. /\ Log!Printed(got) \in Seq(AllBytes) /\ Log!Printed(got) = Log!Text(got)
       /\ Log!Plain(got) => Log!Plain(Log!Printed(got))
  BY <1>8, <1>11, PrintedIsText
<1>13. PICK old, rest : old = Contents(size, r) /\ rest = Contents(size, new)
  OBVIOUS
<1>14. /\ old \in Seq(AllBytes) /\ Len(old) = h
       /\ rest \in Seq(AllBytes) /\ got = SubSeq(old, 1, m) /\ rest = SubSeq(old, m + 1, h)
  <2>1. /\ old \in Seq(AllBytes) /\ Len(old) = h /\ rest \in Seq(AllBytes)
    BY <1>6, <1>8, <1>13, ContentsAreBytes DEF AllBytes
  <2>2. /\ got = SubSeq(Contents(size, r), 1, Ring!Least(n, Len(Contents(size, r))))
        /\ Contents(size, new) = SubSeq(Contents(size, r), Ring!Least(n, Len(Contents(size, r))) + 1,
                                        Len(Contents(size, r)))
    BY <1>3, <1>4, GetIsPrefix
  <2> QED BY <1>7, <1>13, <2>1, <2>2
<1>15. old = got \o rest
  <2>1. /\ 1 \in 1..(Len(old) + 1) /\ m \in (1 - 1)..Len(old) /\ h \in m..Len(old)
    BY <1>6, <1>8, <1>14
  <2>2. SubSeq(old, 1, m) \o SubSeq(old, m + 1, h) = SubSeq(old, 1, h)
    BY <1>14, <2>1, ConcatAdjacentSubSeq
  <2>3. SubSeq(old, 1, h) = old
    BY <1>14, SubSeqFull
  <2> QED BY <1>14, <2>2, <2>3
<1>16. Log!Text(old) = Log!Text(got) \o Log!Text(rest)
  <2>1. Log!Text(got \o rest) = Log!Text(got) \o Log!Text(rest)
    BY <1>8, <1>14, TextJoins
  <2> QED BY <1>15, <2>1
<1>17. Held(size, new) < h <=> m # 0
  BY <1>6, <1>8
<1>18. ASSUME Log!Plain(old) PROVE Log!Plain(got) /\ Log!Plain(rest)
  <2>1. \A i \in 1..h : old[i] # Percent
    BY <1>14, <1>18 DEF Log!Plain
  <2>2. /\ Len(got) = m /\ \A i \in 1..m : got[i] = old[i]
        /\ Len(rest) = h - m /\ \A i \in 1..(h - m) : rest[i] = old[m + i]
    BY <1>6, <1>8, <1>14
  <2>3. Log!Plain(got)
    BY <1>6, <1>8, <2>1, <2>2 DEF Log!Plain
  <2>4. ASSUME NEW i \in 1..Len(rest) PROVE rest[i] # Percent
    <3>1. i \in 1..(h - m) /\ m + i \in 1..h
      BY <1>6, <1>8, <2>2
    <3> QED BY <2>1, <2>2, <3>1
  <2> QED BY <2>3, <2>4 DEF Log!Plain
<1> QED BY <1>5, <1>6, <1>8, <1>9, <1>10, <1>12, <1>13, <1>16, <1>17, <1>18

-----------------------------------------------------------------------------
(* What is left to print in a turn of the loop of pp_log_show, of a log    *)
(* without a '%'.                                                          *)
Showing ==
  {w \in [ring : Rings(LogSize), text : Seq(AllBytes)] : Log!Plain(Contents(LogSize, w.ring))}

PieceShown(w) ==
  IF Log!GetString(w.ring, Piece).got = <<>> THEN w
  ELSE [ring |-> Log!GetString(w.ring, Piece).ring,
        text |-> w.text \o Log!Formatted(Log!Printed(Log!GetString(w.ring, Piece).got))]

LEMMA PieceShownIsShowing ==
  ASSUME NEW w \in Showing
  PROVE  /\ PieceShown(w) \in Showing
         /\ PieceShown(w).text \o Log!Text(Contents(LogSize, PieceShown(w).ring))
              = w.text \o Log!Text(Contents(LogSize, w.ring))
         /\ \/ Held(LogSize, w.ring) = 0 /\ PieceShown(w) = w
            \/ Held(LogSize, PieceShown(w).ring) < Held(LogSize, w.ring)
<1>1. PICK r \in Rings(LogSize), text \in Seq(AllBytes) :
        w.ring = r /\ w.text = text /\ Log!Plain(Contents(LogSize, r))
  BY DEF Showing
<1>2. PICK got, new : got = Log!GetString(r, Piece).got /\ new = Log!GetString(r, Piece).ring
  OBVIOUS
<1>3. PICK old, rest : old = Log!Text(Contents(LogSize, r)) /\ rest = Log!Text(Contents(LogSize, new))
  OBVIOUS
<1>4. PICK printed : printed = Log!Printed(got)
  OBVIOUS
<1>5. /\ new \in Rings(LogSize) /\ (got = <<>> <=> Held(LogSize, r) = 0)
      /\ got # <<>> => Held(LogSize, new) < Held(LogSize, r)
      /\ printed \in Seq(AllBytes) /\ old = printed \o rest
      /\ Log!Formatted(printed) = printed /\ Log!Plain(Contents(LogSize, new))
  <2>1. LogSize \in Nat \ {0} /\ Piece \in Nat \ {0}
    BY LogSized, LogAssumption DEF Log!LogAssumption
  <2>2. Log!Plain(printed) /\ Log!Plain(Contents(LogSize, new))
    BY <1>1, <1>2, <1>4, <2>1, PieceIsText
  <2>3. Log!Formatted(printed) = printed
    BY <2>2 DEF Log!Formatted
  <2> QED BY <1>1, <1>2, <1>3, <1>4, <2>1, <2>2, <2>3, PieceIsText
<1>6. CASE got = <<>>
  <2>1. PieceShown(w) = w
    BY <1>1, <1>2, <1>6 DEF PieceShown
  <2> QED BY <1>1, <1>5, <1>6, <2>1
<1>7. CASE got # <<>>
  <2>1. PICK joined : joined = text \o printed
    OBVIOUS
  <2>2. PieceShown(w) = [ring |-> new, text |-> joined]
    BY <1>1, <1>2, <1>4, <1>5, <1>7, <2>1 DEF PieceShown
  <2>3. joined \in Seq(AllBytes)
    BY <1>1, <1>5, <2>1, Concatenation
  <2>4. rest \in Seq(AllBytes)
    BY <1>3, <1>5, TextJoins, ContentsAreBytes, LogSized DEF AllBytes
  <2>5. joined \o rest = text \o old
    BY <1>1, <1>5, <2>1, <2>4, ConcatAssociative
  <2>6. PieceShown(w) \in Showing /\ PieceShown(w).ring = new /\ PieceShown(w).text = joined
    BY <1>5, <2>2, <2>3 DEF Showing
  <2>7. Held(LogSize, PieceShown(w).ring) < Held(LogSize, w.ring)
    BY <1>1, <1>5, <1>7, <2>6
  <2>8. /\ PieceShown(w).text \o Log!Text(Contents(LogSize, PieceShown(w).ring)) = joined \o rest
        /\ w.text \o Log!Text(Contents(LogSize, w.ring)) = text \o old
    BY <1>1, <1>3, <2>6
  <2> QED BY <2>5, <2>6, <2>7, <2>8
<1> QED BY <1>6, <1>7

(* The loop gets all that is held and prints its text.                     *)
LEMMA ShownIsText ==
  ASSUME NEW copy \in Rings(LogSize), Log!Plain(Contents(LogSize, copy))
  PROVE  Log!Shown(copy) = Log!Text(Contents(LogSize, copy))
<1>1. PICK n \in Nat : n = LogSize /\ n # 0
  BY LogSized
<1>2. PICK S, start : S = Showing /\ start = [ring |-> copy, text |-> <<>>]
  OBVIOUS
<1>3. PICK turn : turn = [x \in (1..n) \X S |-> PieceShown(x[2])]
  OBVIOUS
<1>4. start \in S /\ turn \in Turns(n, S)
  <2>1. start \in S
    BY <1>2 DEF Showing
  <2>2. \A w \in S : PieceShown(w) \in S
    BY <1>2, PieceShownIsShowing
  <2> QED BY <1>3, <2>1, <2>2 DEF Turns
<1>5. PICK f : Runs(f, n, S, start, turn)
  BY <1>4, LoopRuns
<1>6. f \in [0..n -> S] /\ f[0] = start /\ \A k \in 1..n : f[k] = PieceShown(f[k - 1])
  <2>1. f \in [0..n -> S] /\ f[0] = start /\ \A k \in 1..n : f[k] = turn[<<k, f[k - 1]>>]
    BY <1>5 DEF Runs
  <2>2. ASSUME NEW k \in 1..n PROVE f[k] = PieceShown(f[k - 1])
    <3>1. k - 1 \in 0..n
      OBVIOUS
    <3>2. f[k - 1] \in S
      BY <2>1, <3>1
    <3> QED BY <1>3, <2>1, <3>2
  <2> QED BY <2>1, <2>2
<1>7. PICK show : show = CHOOSE g : g = [k \in 0..LogSize |->
        IF k = 0 THEN [ring |-> copy, text |-> <<>>]
        ELSE IF Log!GetString(g[k - 1].ring, Piece).got = <<>> THEN g[k - 1]
             ELSE [ring |-> Log!GetString(g[k - 1].ring, Piece).ring,
                   text |-> g[k - 1].text \o Log!Formatted(Log!Printed(Log!GetString(g[k - 1].ring, Piece).got))]]
  OBVIOUS
<1>8. show = CHOOSE g : g = [k \in 0..n |-> IF k = 0 THEN start ELSE PieceShown(g[k - 1])]
  BY <1>1, <1>2, <1>7 DEF PieceShown
<1>9. Log!Shown(copy) = show[n].text
  BY <1>1, <1>7 DEF Log!Shown
<1>10. show = [k \in 0..n |-> IF k = 0 THEN start ELSE PieceShown(show[k - 1])]
  <2>1. PICK g : g = [k \in 0..n |-> IF k = 0 THEN start ELSE PieceShown(f[k - 1])]
    OBVIOUS
  <2>2. ASSUME NEW k \in 0..n PROVE g[k] = f[k]
    BY <1>6, <2>1
  <2>3. f = g
    BY <1>6, <2>1, <2>2
  <2> QED BY <1>8, <2>1, <2>3
<1>11. \A k \in 0..n : show[k] = f[k]
  <2>1. PICK good : good = {k \in 0..n : show[k] = f[k]}
    OBVIOUS
  <2>2. 0 \in good
    BY <1>6, <1>10, <2>1
  <2>3. ASSUME NEW k \in 1..n, k - 1 \in good PROVE k \in good
    BY <1>6, <1>10, <2>1, <2>3
  <2> QED BY <2>1, <2>2, <2>3, UpTo
<1>12. PICK all : all = Log!Text(Contents(LogSize, copy))
  OBVIOUS
<1>13. all \in Seq(AllBytes)
  BY <1>12, TextJoins, ContentsAreBytes, LogSized DEF AllBytes
<1>14. \A k \in 0..n : /\ f[k].text \o Log!Text(Contents(LogSize, f[k].ring)) = all
                       /\ Held(LogSize, f[k].ring) = 0 \/ Held(LogSize, f[k].ring) + k < n
  <2>1. PICK good : good = {k \in 0..n :
                       /\ f[k].text \o Log!Text(Contents(LogSize, f[k].ring)) = all
                       /\ Held(LogSize, f[k].ring) = 0 \/ Held(LogSize, f[k].ring) + k < n}
    OBVIOUS
  <2>2. 0 \in good
    <3>1. f[0].text = <<>> /\ f[0].ring = copy
      BY <1>2, <1>6
    <3>2. <<>> \o all = all
      BY <1>13, ConcatEmptySeq
    <3>3. Held(LogSize, copy) + 0 < n /\ 0 \in 0..n
      BY <1>1, HeldBound
    <3> QED BY <1>12, <2>1, <3>1, <3>2, <3>3
  <2>3. ASSUME NEW k \in 1..n, k - 1 \in good PROVE k \in good
    <3>1. PICK w, v : w = f[k - 1] /\ v = f[k]
      OBVIOUS
    <3>2. w \in Showing /\ v = PieceShown(w)
      <4>1. k - 1 \in 0..n
        OBVIOUS
      <4> QED BY <1>2, <1>6, <3>1, <4>1
    <3>3. /\ v.text \o Log!Text(Contents(LogSize, v.ring)) = w.text \o Log!Text(Contents(LogSize, w.ring))
          /\ \/ Held(LogSize, w.ring) = 0 /\ v = w
             \/ Held(LogSize, v.ring) < Held(LogSize, w.ring)
          /\ v \in Showing
      BY <3>2, PieceShownIsShowing
    <3>4. /\ w.text \o Log!Text(Contents(LogSize, w.ring)) = all
          /\ Held(LogSize, w.ring) = 0 \/ Held(LogSize, w.ring) + (k - 1) < n
      BY <2>1, <2>3, <3>1
    <3>5. PICK hw, hv : hw = Held(LogSize, w.ring) /\ hv = Held(LogSize, v.ring)
      OBVIOUS
    <3>6. hw \in Nat /\ hv \in Nat
      BY <1>1, <3>2, <3>3, <3>5, HeldBound DEF Showing
    <3>7. hv = 0 \/ hv + k < n
      BY <3>3, <3>4, <3>5, <3>6
    <3>8. k \in 0..n
      OBVIOUS
    <3> QED BY <2>1, <3>1, <3>3, <3>4, <3>5, <3>7, <3>8
  <2> QED BY <2>1, <2>2, <2>3, UpTo
<1>15. PICK last : last = f[n] /\ last \in Showing
  BY <1>2, <1>6
<1>16. Held(LogSize, last.ring) = 0
  <2>1. PICK h \in Nat : h = Held(LogSize, last.ring)
    BY <1>1, <1>15, HeldBound DEF Showing
  <2>2. n \in 0..n
    OBVIOUS
  <2>3. h = 0 \/ h + n < n
    BY <1>14, <1>15, <2>1, <2>2
  <2> QED BY <2>1, <2>3
<1>17. Contents(LogSize, last.ring) = <<>>
  BY <1>1, <1>15, <1>16, ContentsAreBytes, EmptySeq DEF Showing
<1>18. Log!Text(<<>>) = <<>>
  <2>1. PICK e \in Seq(AllBytes) : e = <<>> /\ Len(e) = 0
    BY EmptySeq
  <2>2. \A i \in 1..Len(e) : e[i] # NUL
    BY <2>1
  <2>3. Log!Text(e) = e
    BY <2>2, TextOfText
  <2> QED BY <2>1, <2>3
<1>19. last.text \o <<>> = last.text
  BY <1>15, ConcatEmptySeq DEF Showing
<1>20. n \in 0..n
  OBVIOUS
<1> QED BY <1>9, <1>11, <1>12, <1>14, <1>15, <1>17, <1>18, <1>19, <1>20

(* However long the lines and short the pieces, pp_log_show prints what a  *)
(* log without a '%' holds, whole, and nothing else.                       *)
THEOREM LogShowIsComplete == Log!Spec => []ShowIsComplete
<1>1. LogInv => ShowIsComplete
  <2> SUFFICES ASSUME LogInv PROVE ShowIsComplete
    OBVIOUS
  <2>1. log \in Rings(LogSize) /\ LogSize \in Nat \ {0}
    BY LogSized DEF LogInv
  <2>2. Log!Content(log) = Contents(LogSize, log)
    BY <2>1, ContentIsContents DEF Log!Content
  <2> QED BY <2>1, <2>2, ShownIsText DEF ShowIsComplete, Log!ShowIsComplete
<1> QED BY <1>1, LogInvariant, PTL

-----------------------------------------------------------------------------
(* Whichever of the three a behaviour is of, all three stay well typed: no *)
(* message is longer than its node, no index outside of its buffer, and    *)
(* nobody is given what malloc left.                                       *)
THEOREM TypesCorrect == BaseSpec => []TypesOK
<1> DEFINE BaseInv == IInv /\ RingInv /\ LogInv
<1>1. BaseInit => BaseInv
  BY InitIInv, RingInit, LogInit DEF BaseInit
<1>2. BaseInv /\ [BaseNext]_<<part, vars, ringVars, logVars>> => BaseInv'
  <2> SUFFICES ASSUME BaseInv, [BaseNext]_<<part, vars, ringVars, logVars>> PROVE BaseInv'
    OBVIOUS
  <2>1. /\ [Next]_vars /\ [Ring!Next]_Ring!vars /\ [Log!Next]_Log!vars
    BY DEF BaseNext, ringVars, logVars, Ring!vars, Log!vars
  <2>2. IInv'
    BY <2>1, IInvStep
  <2>3. RingInv'
    BY <2>1, RingStep DEF RingInv, Ring!vars, Ring!Content
  <2>4. LogInv'
    BY <2>1, LogStep DEF LogInv, Log!vars, Log!Next
  <2> QED BY <2>2, <2>3, <2>4
<1>3. BaseInv => TypesOK
  <2>1. RingInv => Ring!TypeOK
    BY DEF RingInv, Rings, Ring!TypeOK
  <2>2. LogInv => Log!TypeOK
    BY DEF LogInv, Rings, Log!TypeOK
  <2> QED BY <2>1, <2>2 DEF IInv, TypesOK
<1> QED BY <1>1, <1>2, <1>3, PTL DEF BaseSpec
===============================================================================
