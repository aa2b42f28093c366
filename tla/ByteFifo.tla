------------------------------ MODULE ByteFifo ------------------------------
(***************************************************************************)
(* What a byte ring promises: a put takes as many of the offered bytes as  *)
(* there is room for, a get returns the oldest bytes in order.             *)
(***************************************************************************)
EXTENDS Integers, Sequences

CONSTANTS
  Room,    \* bytes the fifo can hold
  Chunks   \* byte sequences callers put

VARIABLES
  content,  \* bytes waiting, oldest first
  answer    \* bytes the last call moved

Least(a, b) == IF a < b THEN a ELSE b

Init == content = <<>> /\ answer = <<>>

Clear == content' = <<>> /\ UNCHANGED answer

Put(bytes) ==
  LET taken == SubSeq(bytes, 1, Least(Len(bytes), Room - Len(content))) IN
  content' = content \o taken /\ answer' = taken

Get(n) ==
  LET got == SubSeq(content, 1, Least(n, Len(content))) IN
  /\ content' = SubSeq(content, Len(got) + 1, Len(content))
  /\ answer' = got

Next ==
  \/ Clear
  \/ \E bytes \in Chunks : Put(bytes)
  \/ \E n \in 0..(Room + 1) : Get(n)

Spec == Init /\ [][Next]_<<content, answer>>
=============================================================================
