-------------------------------- MODULE PpLog --------------------------------
(***************************************************************************)
(* The log of paperplane, pp_log and pp_log_show in pp_base.c: a byte ring *)
(* of lines, each ended by its NUL. A line that does not fit makes the     *)
(* ring advance first, and the ring forgets bytes. Nothing is ever taken   *)
(* out: pp_log_show reads a copy.                                          *)
(***************************************************************************)
EXTENDS PpRingOps

CONSTANTS
  Size,     \* pp_log_ring_size
  Bytes,    \* characters of log lines
  MaxLine,  \* longest line, with its NUL
  Piece,    \* bytes pp_log_show gets at once
  Percent,  \* the byte '%'
  Converted, \* what comes out of a conversion that was given no argument
  NoLine

(* Twice the longest line: below that even a single line may not fit.      *)
LogAssumption ==
  /\ MaxLine \in Nat \ {0} /\ Size \in Nat /\ Size >= 2 * MaxLine
  /\ Piece \in Nat \ {0}

Lines == {Append(text, NUL) : text \in UNION {[1..n -> Bytes] : n \in 0..(MaxLine - 1)}}

VARIABLES
  ring,
  newest  \* the line logged last

vars == <<ring, newest>>

Init == ring = Created(Size) /\ newest = NoLine

Log(line) ==
  /\ ring' = PutWithShift(ring, line).ring
  /\ newest' = line

Next == \E line \in Lines : Log(line)

Spec == Init /\ [][Next]_vars

-----------------------------------------------------------------------------
(* A bug a run must catch: what is printed ends before the last byte got,  *)
(* as if that were always the NUL.                                         *)
MutantPrinted(got) == SubSeq(got, 1, Len(got) - 1)

(* Of what pp_ring_get_string got, the bytes before the NUL, if one came.  *)
Printed(got) ==
  LET n == CHOOSE n \in 0..Len(got) :
             /\ n = Len(got) \/ got[n + 1] = NUL
             /\ \A i \in 1..n : got[i] # NUL
  IN  SubSeq(got, 1, n)

Plain(text) == \A i \in 1..Len(text) : text[i] # Percent

(* pp_log_show gives pp_printf the piece as its format, with no argument.  *)
(* What a '%' in it makes of the piece is not defined: it is not the piece. *)
Formatted(text) == IF Plain(text) THEN text ELSE <<Converted>>

(* What pp_log_show prints, piece by piece, of a copy of the ring. Every    *)
(* piece has a byte at least, so it gets no more than Size of them.        *)
Shown(copy) ==
  LET show[k \in 0..Size] ==
        IF k = 0 THEN [ring |-> copy, text |-> <<>>]
        ELSE LET w == show[k - 1]
                 g == GetString(w.ring, Piece)
             IN  IF g.got = <<>> THEN w
                 ELSE [ring |-> g.ring, text |-> w.text \o Formatted(Printed(g.got))]
  IN  show[Size].text

Content(r) ==
  [i \in 1..((r.into - r.from + Size) % Size) |-> r.buff[(r.from + i - 1) % Size]]

(* The indices stay in the buffer, and the NUL behind it stays there.      *)
TypeOK ==
  /\ ring.into \in 0..(Size - 1) /\ ring.from \in 0..(Size - 1)
  /\ ring.buff \in [0..Size -> Bytes \cup {NUL, Garbage}] /\ ring.buff[Size] = NUL
  /\ newest \in Lines \cup {NoLine}

(* The bytes that are not NUL.                                             *)
Text(bytes) ==
  LET kept[i \in 0..Len(bytes)] ==
        IF i = 0 THEN <<>>
        ELSE IF bytes[i] = NUL THEN kept[i - 1] ELSE Append(kept[i - 1], bytes[i])
  IN  kept[Len(bytes)]

(* Of a log without a '%', pp_log_show prints the text, no more and no     *)
(* less: it gets a long line in pieces, and stops at no NUL in the middle  *)
(* and at no byte left behind in the buffer. A log with a '%' is promised  *)
(* nothing, for the line is printed as a format.                           *)
ShowIsComplete == Plain(Content(ring)) => Shown(ring) = Text(Content(ring))

(* What a step forgets are the latest of the older bytes: those that stay  *)
(* are the oldest ones, in their order, and the new line follows them.     *)
ForgetsFromTheMiddle ==
  [][\E line \in Lines : newest' = line /\
       \E k \in 0..Len(Content(ring)) : Content(ring') = SubSeq(Content(ring), 1, k) \o line]_ring
=============================================================================
