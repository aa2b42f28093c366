------------------------------ MODULE RandomFile ------------------------------
(* What a stream on a file promises: bytes with a position, read, written    *)
(* over or behind the end, and moved to.                                     *)
EXTENDS Integers, Sequences

CONSTANT Bytes

VARIABLES content, place, answer

Chunks == Seq(Bytes)
Least(a, b) == IF a < b THEN a ELSE b

(* The content with bytes written from place p on.                          *)
Overlaid(old, p, bytes) ==
  SubSeq(old, 1, p) \o bytes \o SubSeq(old, p + Len(bytes) + 1, Len(old))

Init ==
  /\ content \in Chunks
  /\ place = 0 /\ answer = [got |-> <<>>]

Read(n) ==
  LET got == SubSeq(content, place + 1, Least(place + n, Len(content))) IN
  /\ answer' = [got |-> got]
  /\ place' = place + Len(got)
  /\ UNCHANGED content

Write(bytes) ==
  /\ content' = Overlaid(content, place, bytes)
  /\ place' = place + Len(bytes)
  /\ answer' = [got |-> <<>>]

(* Where a seek by p from the beginning (-1), from the place (0) or from the *)
(* end (1) leads: not past either end, and nowhere from outside of them.     *)
Target(p, origin) ==
  LET from == CASE origin = -1 -> 0 [] origin = 0 -> place [] origin = 1 -> Len(content)
      to == from + p
  IN  IF (origin = -1 /\ p < 0) \/ (origin = 1 /\ p > 0) THEN place
      ELSE IF to < 0 THEN 0 ELSE Least(to, Len(content))

Seek(p, origin) ==
  /\ place' = Target(p, origin)
  /\ answer' = [by |-> p, origin |-> origin]
  /\ UNCHANGED content

(* A call is told from another by what it answers.                          *)
Next ==
  \/ \E n \in 1..Len(content) + 1 : Read(n)
  \/ \E n \in 1..Len(content') - place : Write(SubSeq(content', place + 1, place + n))
  \/ "by" \in DOMAIN answer' /\ Seek(answer'.by, answer'.origin)

Spec == Init /\ [][Next]_<<content, place, answer>>
===============================================================================
