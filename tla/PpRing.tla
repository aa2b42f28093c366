------------------------------- MODULE PpRing -------------------------------
(***************************************************************************)
(* A byte ring between a caller that puts and one that gets, in turns.     *)
(***************************************************************************)
EXTENDS PpRingOps

CONSTANTS
  Size,   \* argument of pp_ring_create
  Bytes,  \* byte values besides NUL
  MaxLen  \* longest chunk a caller puts

RingAssumption == Size \in Nat \ {0} /\ MaxLen \in Nat

Chunks == UNION {[1..n -> Bytes \cup {NUL}] : n \in 0..MaxLen}

VARIABLES
  ring,
  answer  \* bytes the last call moved

vars == <<ring, answer>>

Init == ring = Created(Size) /\ answer = <<>>

Clear == ring' = Cleared(ring) /\ UNCHANGED answer

Put(bytes) ==
  LET p == PutBytes(ring, bytes) IN
  ring' = p.ring /\ answer' = SubSeq(bytes, 1, p.put)

Get(n) ==
  LET g == GetBytes(ring, n) IN
  ring' = g.ring /\ answer' = g.got

(* pp_ring_get_string. *)
GetLine(n) ==
  LET g == GetString(ring, n) IN
  ring' = g.ring /\ answer' = g.got

Next ==
  \/ Clear
  \/ \E bytes \in Chunks : Put(bytes)
  \/ \E n \in 0..(Size + 1) : Get(n) \/ GetLine(n)

Spec == Init /\ [][Next]_vars

-----------------------------------------------------------------------------
TypeOK ==
  /\ ring.size = Size
  /\ ring.into \in 0..(Size - 1)
  /\ ring.from \in 0..(Size - 1)
  /\ ring.buff \in [0..Size -> Bytes \cup {NUL, Garbage}]
  /\ answer \in Seq(Bytes \cup {NUL})

(* The bytes between from and into, around the end of the buffer. *)
Content ==
  [i \in 1..((ring.into - ring.from + Size) % Size) |-> ring.buff[(ring.from + i - 1) % Size]]
=============================================================================
