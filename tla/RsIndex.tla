-------------------------------- MODULE RsIndex --------------------------------
(* Index and Catalogue of reason-2.x: a tree of texts in which the nodes     *)
(* below one another spell a key.  The nodes under one node are a binary     *)
(* tree of siblings by the first letter; no two begin with the same letter,  *)
(* so that a node splits when a key leaves it half way.  Node 1 is the       *)
(* catalogue itself, which keeps its text when everything else is destroyed. *)
(* The case of letters is left out, and what a search for a key answers that *)
(* was never attached.                                                       *)
EXTENDS Integers, Sequences, FiniteSets

CONSTANTS Keys,         \* texts: sequences of letters, which are numbers
          MaxAttached   \* bound on the calls of Attach

Seqs == INSTANCE SequencesExt

NULL == 0

IndexAssumption ==
  /\ IsFiniteSet(Keys)
  /\ \A k \in Keys : k \in Seq(Nat) /\ k # <<>>
  /\ MaxAttached \in Nat

VARIABLES nodes, Count, Occurrences,
          attached     \* the key of every kind attached since the last Destroy

indexVars == <<nodes, Count, Occurrences, attached>>

(* Ancestor is a Shared pointer: it names a counted cell, by the node the   *)
(* cell was made for, and Kind is what the cell made for a node points to.  *)
(* That of the catalogue, where nothing was assigned yet, points to nothing. *)
Blank == [Key |-> <<>>, List |-> <<>>, Left |-> NULL, Right |-> NULL, Parent |-> NULL,
          Ancestor |-> 1, Kind |-> NULL, Descendant |-> NULL]

Init == nodes = <<Blank>> /\ Count = 0 /\ Occurrences = 0 /\ attached = <<>>

-----------------------------------------------------------------------------
Drop(text, n) == SubSeq(text, n + 1, Len(text))
Common(a, b) == Seqs!LongestCommonPrefix({a, b})

AncestorOf(x, i) == x[x[i].Ancestor].Kind

(* A bug a run must catch: siblings that know the ancestor, each for itself. *)
MutantHung(x, i, side) ==
  IF x[i][side] # NULL THEN x
  ELSE LET new == IF side = "Descendant" THEN [Blank EXCEPT !.Ancestor = Len(x) + 1, !.Kind = i]
                  ELSE [Blank EXCEPT !.Ancestor = Len(x) + 1, !.Kind = AncestorOf(x, i),
                                     !.Parent = i]
       IN  Append([x EXCEPT ![i][side] = Len(x) + 1], new)

(* The node that hangs at i on the given side, made if there is none. One   *)
(* below has a cell of its own, siblings share the one of their parent.     *)
Hung(x, i, side) ==
  IF x[i][side] # NULL THEN x
  ELSE LET new == IF side = "Descendant" THEN [Blank EXCEPT !.Ancestor = Len(x) + 1, !.Kind = i]
                  ELSE [Blank EXCEPT !.Ancestor = x[i].Ancestor, !.Parent = i]
       IN  Append([x EXCEPT ![i][side] = Len(x) + 1], new)

(* The rest of the text of node i, its kinds and what is below it go to a   *)
(* new node below. The assignment to the node on top of those that were     *)
(* below goes through the cell they all share.                              *)
Split(x, i, n) ==
  LET new == Len(x) + 1
      lower == [Blank EXCEPT !.Key = Drop(x[i].Key, n), !.List = x[i].List,
                             !.Descendant = x[i].Descendant, !.Ancestor = new, !.Kind = i]
      y == Append([x EXCEPT ![i].Key = SubSeq(@, 1, n), ![i].List = <<>>,
                            ![i].Descendant = new], lower)
  IN  IF x[i].Descendant = NULL THEN y ELSE [y EXCEPT ![x[x[i].Descendant].Ancestor].Kind = new]

(* What is left of the key is attached at node i or where it leads: the new *)
(* nodes, and the node that got the kind.                                   *)
RECURSIVE AttachAt(_, _, _, _)
AttachAt(x, i, text, kind) ==
  LET Key == x[i].Key
      Follow(side, rest) == AttachAt(Hung(x, i, side), Hung(x, i, side)[i][side], rest, kind)
  IN  IF Key = <<>> THEN AttachAt([x EXCEPT ![i].Key = text], i, text, kind)
      ELSE IF text[1] > Key[1] THEN Follow("Right", text)
      ELSE IF text[1] < Key[1] THEN Follow("Left", text)
      ELSE IF Key = text THEN [nodes |-> [x EXCEPT ![i].List = Append(@, kind)], at |-> i]
      ELSE IF Seqs!IsPrefix(Key, text) THEN Follow("Descendant", Drop(text, Len(Key)))
      ELSE AttachAt(Split(x, i, Len(Common(Key, text))), i, text, kind)

Attach(key) ==
  /\ Len(attached) < MaxAttached
  /\ LET r == AttachAt(nodes, 1, key, Len(attached) + 1)
     IN  /\ nodes' = r.nodes
         /\ Count' = IF Len(r.nodes[r.at].List) = 1 THEN Count + 1 ELSE Count
  /\ Occurrences' = Occurrences + 1
  /\ attached' = Append(attached, key)

Destroy ==
  /\ nodes' = <<[Blank EXCEPT !.Key = nodes[1].Key]>>
  /\ Count' = 0 /\ Occurrences' = 0 /\ attached' = <<>>

Next == Destroy \/ \E key \in Keys : Attach(key)

Spec == Init /\ [][Next]_indexVars

-----------------------------------------------------------------------------
(* A node whose text begins like the key leads further down, as far as they *)
(* agree.                                                                   *)
RECURSIVE SelectAt(_, _)
SelectAt(i, text) ==
  LET Key == nodes[i].Key
      n == Len(Common(Key, text))
  IN  IF i = NULL \/ text = <<>> THEN NULL
      ELSE IF n = 0 THEN SelectAt(IF text[1] > Key[1] THEN nodes[i].Right ELSE nodes[i].Left, text)
      ELSE IF Key = text THEN i
      ELSE SelectAt(nodes[i].Descendant, Drop(text, n))

Select(text) == IF nodes[1].Key = <<>> THEN NULL ELSE SelectAt(1, text)

RECURSIVE Spelled(_)
Spelled(i) == IF i = NULL THEN <<>> ELSE Spelled(AncestorOf(nodes, i)) \o nodes[i].Key

RECURSIVE FirstSibling(_), Climbed(_), Above(_), Forward(_), Move(_)
FirstSibling(i) == IF nodes[i].Left = NULL THEN i ELSE FirstSibling(nodes[i].Left)

Climbed(i) ==
  LET p == nodes[i].Parent IN IF p = NULL \/ nodes[p].Right # i THEN p ELSE Climbed(p)

NextSibling(i) == IF nodes[i].Right = NULL THEN Climbed(i) ELSE FirstSibling(nodes[i].Right)

\* The next sibling of the nearest ancestor that has one.
Above(i) ==
  LET a == AncestorOf(nodes, i)
  IN  IF a = NULL THEN NULL ELSE IF NextSibling(a) # NULL THEN NextSibling(a) ELSE Above(a)

(* The first node with kinds, and the next one behind node i.               *)
Forward(i) ==
  LET first == FirstSibling(i)
  IN  IF nodes[first].List # <<>> THEN first
      ELSE IF nodes[first].Descendant = NULL THEN NULL
      ELSE Forward(nodes[first].Descendant)

Move(i) ==
  LET next == IF nodes[i].Descendant # NULL THEN FirstSibling(nodes[i].Descendant)
              ELSE IF NextSibling(i) # NULL THEN NextSibling(i)
              ELSE Above(i)
  IN  IF next = NULL \/ nodes[next].List # <<>> THEN next ELSE Move(next)

Iterated ==
  LET RECURSIVE From(_, _)
      From(i, n) == IF i = NULL \/ n = 0 THEN <<>> ELSE <<i>> \o From(Move(i), n - 1)
  IN  From(Forward(1), Len(nodes) + 1)

-----------------------------------------------------------------------------
Kinds(key) == SelectSeq([i \in DOMAIN attached |-> i], LAMBDA i : attached[i] = key)
Attached == {attached[i] : i \in DOMAIN attached}

Precedes(a, b) ==
  LET n == Len(Common(a, b)) IN n < Len(b) /\ (n = Len(a) \/ a[n + 1] < b[n + 1])

(* What is left of the text of a catalogue that was destroyed: a node       *)
(* without kinds and with nothing below, at which Forward gives up when it  *)
(* is the first.                                                            *)
LeftOver == \E i \in DOMAIN nodes : nodes[i].List = <<>> /\ nodes[i].Descendant = NULL

(* In whatever order keys came that begin alike or within one another, each *)
(* is found, has the kinds attached under it, in their order, and prints as *)
(* it was attached, however the nodes above it were split; the counts are   *)
(* right; iterating meets each key once, in alphabetical order, and comes   *)
(* to an end. After Destroy it may find nothing, but never a part.          *)
FindsWhatWasAttached ==
  LET found == [key \in Attached |-> Select(key)]
      visited == Iterated
      Met(i) == CHOOSE key \in Attached : found[key] = visited[i]
  IN  /\ \A key \in Attached : /\ found[key] # NULL /\ nodes[found[key]].List = Kinds(key)
                               /\ Spelled(found[key]) = key
      /\ Count = Cardinality(Attached) /\ Occurrences = Len(attached)
      /\ \A i \in DOMAIN visited : \E key \in Attached : found[key] = visited[i]
      /\ \A i \in 2..Len(visited) : Precedes(Met(i - 1), Met(i))
      /\ Len(visited) = Cardinality(Attached) \/ (LeftOver /\ visited = <<>>)
===============================================================================
