----------------------------- MODULE RsOrderedSet -----------------------------
(* OrderedSet of reason-2.x, a red-black tree whose nodes know their parent, *)
(* with pointers to the least and the greatest node, as the links in it are  *)
(* changed by insertions and removals.  A node is named by its key, and the  *)
(* two links down are told apart by the directions of the code, -1 and 1.    *)
EXTENDS Integers, Sequences, FiniteSets

CONSTANT N      \* bound: the keys are 1..N

OrderedSetAssumption == N \in Nat \ {0}

Keys == 1..N
NULL == 0
Left == -1
Right == 1

VARIABLES tree,   \* the object and its nodes
          ret     \* what the last call returned: 0 for a key it took, -1 if not

vars == <<tree, ret>>

NewNode == [parent |-> NULL, child |-> [d \in {Left, Right} |-> NULL], red |-> TRUE]
EmptyTree == [root |-> NULL, min |-> NULL, max |-> NULL, count |-> 0,
              node |-> [k \in Keys |-> NewNode]]

-----------------------------------------------------------------------------
Parent(t, n) == t.node[n].parent
Child(t, n, d) == t.node[n].child[d]

\* Left is asked first, which matters when both links are NULL.
Sibling(t, p, n) == IF n = Child(t, p, Left) THEN Child(t, p, Right) ELSE Child(t, p, Left)

Direction(t, n) ==
  IF Parent(t, n) = NULL THEN 0
  ELSE IF Child(t, Parent(t, n), Left) = n THEN Left ELSE Right

Red(t, n) == t.node[n].red
Black(t, n) == ~t.node[n].red

SetChild(t, p, d, n) == [t EXCEPT !.node[p].child[d] = n]
SetParent(t, n, p) == IF n = NULL THEN t ELSE [t EXCEPT !.node[n].parent = p]
Paint(t, n, red) == [t EXCEPT !.node[n].red = red]

(* A child of p, or the root if p is NULL. *)
Hang(t, p, d, n) == IF p = NULL THEN [t EXCEPT !.root = n] ELSE SetChild(t, p, d, n)

(* One level: the child on the other side takes the place of n, which goes  *)
(* down in direction d.                                                     *)
Rotate(t, n, d) ==
  LET place == Child(t, n, -d)
      inner == Child(t, place, d)
      above == Parent(t, n)
      t1 == SetParent(SetChild(t, n, -d, inner), inner, n)
      t2 == Hang(SetParent(t1, place, above), above, Direction(t, n), place)
  IN  SetParent(SetChild(t2, place, d, n), n, place)

-----------------------------------------------------------------------------
(* The way down to a key, or to the node that has no child where it would be. *)
Select(t, k) ==
  LET RECURSIVE Down(_)
      Down(n) == IF n = k THEN n
                 ELSE LET next == Child(t, n, IF n < k THEN Right ELSE Left)
                      IN  IF next = NULL THEN n ELSE Down(next)
  IN  IF t.root = NULL THEN NULL ELSE Down(t.root)

RECURSIVE InsertRebalance(_, _)
InsertRebalance(t, n) ==
  LET p == Parent(t, n)
  IN  IF n = t.root \/ Black(t, p) THEN Paint(t, t.root, FALSE)
      ELSE LET a == Parent(t, p)
               uncle == Sibling(t, a, p)
           IN  IF uncle # NULL /\ Red(t, uncle)
               THEN InsertRebalance(Paint(Paint(Paint(t, uncle, FALSE), p, FALSE), a, TRUE), a)
               ELSE LET pd == Direction(t, p)
                        nd == Direction(t, n)
                        t1 == IF nd # pd THEN Rotate(t, p, -nd) ELSE t
                        n1 == IF nd # pd THEN p ELSE n
                        p1 == Parent(t1, n1)
                        t2 == Rotate(Paint(t1, a, TRUE), a, -pd)
                    IN  InsertRebalance(Paint(t2, p1, FALSE), n1)

(* Min and Max move to a node that was hung under them, as its parent is    *)
(* once the tree has been rebalanced.                                       *)
Extremes(t, k) ==
  IF t.min = NULL /\ t.max = NULL THEN [t EXCEPT !.min = k, !.max = k]
  ELSE IF Parent(t, k) = t.min /\ Direction(t, k) = Left THEN [t EXCEPT !.min = k]
  ELSE IF Parent(t, k) = t.max /\ Direction(t, k) = Right THEN [t EXCEPT !.max = k]
  ELSE t

Inserted(t, k) ==
  LET p == Select(t, k)
      fresh == [t EXCEPT !.node[k] = NewNode, !.count = @ + 1]
      t1 == SetParent(Hang(fresh, p, IF p < k THEN Right ELSE Left, k), k, p)
  IN  Extremes(IF p = NULL THEN Paint(t1, k, FALSE) ELSE InsertRebalance(t1, k), k)

-----------------------------------------------------------------------------
(* The two pointers look for their neighbour before n is taken out.         *)
RECURSIVE Utmost(_, _, _)
Utmost(t, n, d) == IF n = NULL \/ Child(t, n, d) = NULL THEN n ELSE Utmost(t, Child(t, n, d), d)

Neighbour(t, n, d) ==
  LET m == Utmost(t, Child(t, n, d), -d) IN IF m = NULL THEN Parent(t, n) ELSE m

ForgottenExtremes(t, n) ==
  [t EXCEPT !.min = IF n = @ THEN Neighbour(t, n, Right) ELSE @,
            !.max = IF n = @ THEN Neighbour(t, n, Left) ELSE @]

(* The node m takes the place of n, with those children of n that it is not. *)
Adopt(t, n, m, d) ==
  LET c == Child(t, n, d)
  IN  IF c # NULL /\ c # m THEN SetParent(SetChild(t, m, d, c), c, m) ELSE t

Replace(t, n, m) ==
  LET t1 == SetParent(Hang(t, Parent(t, n), Direction(t, n), m), m, Parent(t, n))
  IN  Adopt(Adopt(t1, n, m, Left), n, m, Right)

(* A bug a run must catch: where nothing red is left to paint black, the    *)
(* tree stays short of a black node.                                        *)
MutantRepaired(t, p, d) ==
  IF p = NULL \/ Child(t, p, d) = NULL THEN t ELSE Paint(t, Child(t, p, d), FALSE)

(* Under p a black node is missing on side d, where n is; s is its sibling. *)
RECURSIVE RemoveRebalance(_, _, _, _, _)
RemoveRebalance(t, p, n, d, s) ==
  IF n = t.root \/ (n # NULL /\ Red(t, n)) THEN IF n = NULL THEN t ELSE Paint(t, n, FALSE)
  ELSE LET turned == Red(t, s)
           t1 == IF turned THEN Rotate(Paint(Paint(t, s, FALSE), p, TRUE), p, d) ELSE t
           s1 == IF turned THEN Sibling(t1, p, n) ELSE s
           near == Child(t1, s1, d)
           far == Child(t1, s1, -d)
       IN  IF \/ near = NULL /\ far = NULL
              \/ near # NULL /\ far # NULL /\ Black(t1, near) /\ Black(t1, far)
           THEN LET t2 == Paint(t1, s1, TRUE)
                    q == Parent(t2, p)
                    e == Direction(t2, p)
                IN  IF q = NULL THEN Paint(t2, p, FALSE)
                    ELSE RemoveRebalance(t2, q, p, e, Child(t2, q, -e))
           ELSE LET inward == near # NULL /\ (far = NULL \/ Black(t1, far))
                    t2 == IF inward THEN Rotate(Paint(Paint(t1, near, FALSE), s1, TRUE), s1, -d)
                          ELSE t1
                    s2 == IF inward THEN Sibling(t2, p, n) ELSE s1
                    t3 == Paint(Paint(t2, s2, Red(t2, p)), p, FALSE)
                    outer == Child(t3, s2, -d)
                    t4 == IF outer # NULL THEN Rotate(Paint(t3, outer, FALSE), p, d) ELSE t3
                IN  Paint(t4, t4.root, FALSE)

Repaired(t, p, d) ==
  IF p = NULL THEN t
  ELSE LET n == Child(t, p, d) IN RemoveRebalance(t, p, n, d, Sibling(t, p, n))

(* Which node takes the place of n, and below which one and on which side a *)
(* node is missing then.  A leaf with a parent stands for itself.           *)
Plan(t, n) ==
  LET l == Child(t, n, Left)
      r == Child(t, n, Right)
      next == Utmost(t, r, Left)
  IN  CASE l = NULL /\ r = NULL -> [by |-> IF Parent(t, n) = NULL THEN NULL ELSE n,
                                    at |-> Parent(t, n), side |-> Direction(t, n)]
        [] l = NULL /\ r # NULL -> [by |-> r, at |-> NULL, side |-> 0]
        [] l # NULL /\ r = NULL -> [by |-> l, at |-> NULL, side |-> 0]
        [] OTHER ->
             IF Child(t, l, Right) = NULL THEN [by |-> l, at |-> l, side |-> Left]
             ELSE IF Child(t, r, Left) = NULL THEN [by |-> r, at |-> r, side |-> Right]
             ELSE [by |-> next, at |-> Parent(t, next), side |-> Left]

(* A bug a run must catch: the child of the successor is forgotten. *)
MutantUnlinked(t, n, plan) ==
  IF plan.at \notin {NULL, plan.by} /\ plan.by # n
  THEN SetChild(SetChild(t, plan.at, Left, NULL), plan.by, Right, NULL)
  ELSE t

(* The successor far down is unlinked, with its right child in its place.   *)
Unlinked(t, n, plan) ==
  IF plan.at \notin {NULL, plan.by} /\ plan.by # n
  THEN LET c == Child(t, plan.by, Right)
           t1 == SetParent(SetChild(t, plan.at, Left, c), c, plan.at)
       IN  SetChild(t1, plan.by, Right, NULL)
  ELSE t

Without(t, n) ==
  LET plan == Plan(t, n)
      t1 == Unlinked(t, n, plan)
      t2 == IF plan.by = n THEN SetParent(Hang(t1, plan.at, plan.side, NULL), n, NULL)
            ELSE IF plan.by = NULL THEN Hang(t1, NULL, 0, NULL)
            ELSE Replace(t1, n, plan.by)
      black == Black(t2, plan.by)
      t3 == Paint(t2, plan.by, Red(t, n))
  IN  IF plan.by = NULL THEN t2
      ELSE IF black THEN Repaired(t3, plan.at, plan.side) ELSE t3

(* The node is deleted after Remove; here it gets back its initial links.   *)
Removed(t, n) ==
  LET t1 == Without(ForgottenExtremes(t, n), n)
  IN  [t1 EXCEPT !.count = @ - 1, !.node[n] = NewNode]

-----------------------------------------------------------------------------
Init == tree = EmptyTree /\ ret = 0

Has(k) == Select(tree, k) = k

Insert(k) ==
  IF Has(k) THEN ret' = -1 /\ UNCHANGED tree
  ELSE ret' = 0 /\ tree' = Inserted(tree, k)

Remove(k) ==
  IF Has(k) THEN ret' = 0 /\ tree' = Removed(tree, k)
  ELSE ret' = -1 /\ UNCHANGED tree

Next == \E k \in Keys : Insert(k) \/ Remove(k)

Spec == Init /\ [][Next]_vars

-----------------------------------------------------------------------------
(* The tree and its links are of their types.                               *)
TypeOK ==
  /\ tree \in [root : Keys \cup {NULL}, min : Keys \cup {NULL}, max : Keys \cup {NULL},
               count : 0..N, node : [Keys -> [parent : Keys \cup {NULL}, red : BOOLEAN,
                                              child : [{Left, Right} -> Keys \cup {NULL}]]]]
  /\ ret \in {0, -1}

(* What Verify asserts of the nodes under n and returns of them: the number *)
(* of black nodes on every way down, or -1 when an assertion fails.         *)
RECURSIVE BlackDepth(_, _)
BlackDepth(t, n) ==
  IF n = NULL THEN 0
  ELSE LET kids == {Child(t, n, Left), Child(t, n, Right)} \ {NULL}
           left == BlackDepth(t, Child(t, n, Left))
           right == BlackDepth(t, Child(t, n, Right))
           fine == IF Red(t, n) THEN \A m \in kids \cup ({Parent(t, n)} \ {NULL}) : Black(t, m)
                   ELSE Parent(t, n) # NULL => Sibling(t, Parent(t, n), n) # NULL
       IN  IF fine /\ left = right /\ left # -1 THEN left + (IF Red(t, n) THEN 0 ELSE 1) ELSE -1

Members == {k \in Keys : Has(k)}

(* Verify's assertions hold between calls: no red node has a red relative,  *)
(* all ways down have as many black nodes, a black node has a sibling, and  *)
(* the count is right; so the depth stays logarithmic.                      *)
VerifyHolds ==
  /\ BlackDepth(tree, tree.root) # -1
  /\ tree.count = Cardinality(Members)

(* The next node in order: down the other side, or up to the first node     *)
(* that is reached from its left (in the other direction, from its right).  *)
RECURSIVE Up(_, _, _)
Up(t, n, d) == IF Parent(t, n) # NULL /\ Direction(t, n) = d THEN Up(t, Parent(t, n), d)
               ELSE Parent(t, n)

Move(t, n, d) ==
  IF Child(t, n, d) # NULL THEN Utmost(t, Child(t, n, d), -d) ELSE Up(t, n, d)

Walk(t, d) ==
  LET RECURSIVE From(_)
      From(n) == IF n = NULL THEN <<>> ELSE <<n>> \o From(Move(t, n, d))
  IN  From(Utmost(t, t.root, -d))

(* An iterator meets every member once, in order, forwards and backwards,   *)
(* and Minimum and Maximum are its ends: the links up agree with those      *)
(* down, and a rotation kept the pointers to the ends.                      *)
IteratesInOrder ==
  LET there == Walk(tree, Right)
      back == Walk(tree, Left)
  IN  /\ {there[i] : i \in DOMAIN there} = Members
      /\ \A i \in 1..Len(there) - 1 : there[i] < there[i + 1]
      /\ back = [i \in DOMAIN there |-> there[Len(there) + 1 - i]]
      /\ tree.min = (IF there = <<>> THEN NULL ELSE there[1])
      /\ tree.max = (IF there = <<>> THEN NULL ELSE there[Len(there)])

(* The tree implements a set of keys, of which Insert takes each once and   *)
(* Remove finds each.                                                       *)
Set == INSTANCE ObjectSet WITH Objects <- Keys, members <- Members
SetSpec == Set!Spec
=============================================================================
