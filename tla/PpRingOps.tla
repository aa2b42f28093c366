------------------------------ MODULE PpRingOps ------------------------------
(***************************************************************************)
(* The byte ring of paperplane, src/paperplane/src/pp_base/pp_base.c: a    *)
(* buffer of size bytes between two indices. Bytes enter at into and leave *)
(* at from; equal indices mean empty, so one byte always stays unused. The *)
(* buffer has a byte more, always NUL, where a string scan must end.       *)
(***************************************************************************)
EXTENDS Integers, Sequences

CONSTANTS
  NUL,      \* the byte '\0'
  Garbage   \* a byte malloc left

Least(a, b) == IF a < b THEN a ELSE b

Created(size) ==
  [size |-> size, into |-> 0, from |-> 0,
   buff |-> [i \in 0..size |-> IF i = size THEN NUL ELSE Garbage]]

Cleared(ring) == [ring EXCEPT !.into = 0, !.from = 0]

FreeBytes(ring) ==
  LET n == ring.from - ring.into - 1 IN IF n < 0 THEN n + ring.size ELSE n

(* pp_ring_get_advance moves into, not from. *)
Advanced(ring, n) ==
  LET into == n + ring.into IN
  [ring EXCEPT !.into = IF into >= ring.size THEN into - ring.size ELSE into]

(* memcpy into the buffer at index at. *)
Copied(buff, at, bytes) ==
  [i \in DOMAIN buff |-> IF i \in at..(at + Len(bytes) - 1) THEN bytes[i - at + 1] ELSE buff[i]]

(* memcpy of n bytes out of the buffer at index at. *)
BytesAt(buff, at, n) == [i \in 1..n |-> buff[at + i - 1]]

(* Bugs the runs must catch: the last free byte is used, so that a full    *)
(* ring looks empty; the wrapped part of a put may reach from itself.      *)
MutantRoomAhead(ring) ==
  CASE ring.from > ring.into -> ring.from - ring.into
    [] ring.from <= ring.into /\ ring.from = 0 -> ring.size - ring.into - 1
    [] OTHER -> ring.size - ring.into

(* Free bytes from into to the end of the buffer or to from. *)
RoomAhead(ring) ==
  CASE ring.from > ring.into -> ring.from - ring.into - 1
    [] ring.from <= ring.into /\ ring.from = 0 -> ring.size - ring.into - 1
    [] OTHER -> ring.size - ring.into

PutBytes(ring, bytes) ==
  LET n1    == Least(Len(bytes), RoomAhead(ring))
      wraps == ring.from \in 1..ring.into /\ ring.into + n1 = ring.size
      n2    == IF wraps THEN Least(Len(bytes) - n1, ring.from - 1) ELSE 0
      buff1 == Copied(ring.buff, ring.into, SubSeq(bytes, 1, n1))
  IN  [put  |-> n1 + n2,
       ring |-> [ring EXCEPT
                   !.into = IF wraps THEN n2 ELSE ring.into + n1,
                   !.buff = Copied(buff1, 0, SubSeq(bytes, n1 + 1, n1 + n2))]]

(* A bug a run must catch: the ring advances when it need not. *)
MutantPutWithShiftAlways(ring, bytes) == PutBytes(Advanced(ring, Len(bytes)), bytes)

PutWithShift(ring, bytes) ==
  PutBytes(IF Len(bytes) > FreeBytes(ring) THEN Advanced(ring, Len(bytes)) ELSE ring, bytes)

GetBytes(ring, n) ==
  LET ahead == IF ring.into >= ring.from THEN ring.into - ring.from ELSE ring.size - ring.from
      n1    == Least(n, ahead)
      wraps == ring.into < ring.from /\ ring.from + n1 = ring.size
      n2    == IF wraps THEN Least(n - n1, ring.into) ELSE 0
  IN  [got  |-> BytesAt(ring.buff, ring.from, n1) \o BytesAt(ring.buff, 0, n2),
       ring |-> [ring EXCEPT !.from = IF wraps THEN n2 ELSE ring.from + n1]]

(* strlen of the bytes at from, which the NUL behind the buffer bounds. *)
StringLength(ring) ==
  CHOOSE n \in 0..(ring.size - ring.from) :
    /\ ring.buff[ring.from + n] = NUL
    /\ \A i \in 0..(n - 1) : ring.buff[ring.from + i] # NUL

GetString(ring, n) == GetBytes(ring, Least(n, StringLength(ring) + 1))
=============================================================================
