---------------------------- MODULE RsStreamBuffer ----------------------------
(* StreamBuffer of reason-2.x on a FileStream: one buffer for what was read   *)
(* ahead and for what is still to be written, told apart by where Offset is,  *)
(* and three positions, of the stream, of the file and in the buffer, that    *)
(* every read, write and seek has to keep in step.                            *)
EXTENDS Integers, Sequences

CONSTANTS Bytes,
          Room,        \* Buffer.Allocated - 1, 4096
          MaxContent,  \* bound: the length of the file
          MaxChunk     \* bound: bytes of one call

StreamAssumption == Room \in Nat \ {0} /\ MaxContent \in Nat /\ MaxChunk \in Nat

Contents == UNION {[1..n -> Bytes] : n \in 0..MaxContent}
Data == UNION {[1..n -> Bytes] : n \in 1..MaxChunk}

VARIABLES s,    \* the stream: file, pos and eof of the FILE; buf, off, position
          ret   \* what the last call read, or where it sought

vars == <<s, ret>>

Least(a, b) == IF a < b THEN a ELSE b
Most(a, b) == IF a > b THEN a ELSE b

-----------------------------------------------------------------------------
(* The file below, as stdio has it: the end is noticed by reading past it,  *)
(* and forgotten by seeking.                                                *)
Rest(t) == Len(t.file) - t.pos

FileRead(t, n) ==
  LET m == Least(n, Rest(t)) IN
  [t |-> [t EXCEPT !.pos = @ + m, !.eof = @ \/ m < n],
   got |-> SubSeq(t.file, t.pos + 1, t.pos + m)]

Overlaid(file, p, bytes) ==
  SubSeq(file, 1, p) \o bytes \o SubSeq(file, p + Len(bytes) + 1, Len(file))

FileWrite(t, bytes) ==
  [t EXCEPT !.file = Overlaid(@, t.pos, bytes), !.pos = @ + Len(bytes)]

FileSeek(t, p) == [t EXCEPT !.pos = p, !.eof = FALSE]

-----------------------------------------------------------------------------
Unread(t) == SubSeq(t.buf, t.off + 1, Len(t.buf))

IsReading(t) == t.off < Len(t.buf)
IsWriting(t) == t.buf # <<>> /\ t.off = Len(t.buf)
IsReadable(t) == IsReading(t) \/ ~t.eof

Clear(t) == [t EXCEPT !.buf = <<>>, !.off = 0]

(* ReadIndirect() and WriteIndirect(): the buffer as a whole. *)
Fill(t) == LET r == FileRead(Clear(t), Room) IN [r.t EXCEPT !.buf = r.got]

WriteOut(t) == Clear(FileWrite(t, t.buf))

Flush(t) ==
  LET w == IF IsWriting(t) THEN WriteOut(t) ELSE t IN [w EXCEPT !.buf = Unread(w), !.off = 0]

Reset(t) == Clear(Flush(t))

Ahead(t, n) == [t EXCEPT !.off = @ + n, !.position = @ + n]

(* Where a read stands: the stream, the bytes it still asks for, those it   *)
(* has got, and whether it is over.                                         *)
Asked(t, n) == [t |-> t, n |-> n, got |-> <<>>, over |-> FALSE]

(* A bug a run must catch: what is asked for may be the rest of the buffer, *)
(* which then looks like one that was written.                              *)
MutantReadFrom(t, n, got) ==
  LET rest == Unread(t)
      more == Fill(Ahead(t, Len(rest)))
  IN  IF n <= Len(rest)
      THEN [t |-> Ahead(t, n), n |-> 0, got |-> got \o SubSeq(rest, 1, n), over |-> TRUE]
      ELSE [t |-> more, n |-> n - Len(rest), got |-> got \o rest, over |-> FALSE]

(* The rest of the buffer is never taken to its end without a new one; what *)
(* does not fit a buffer is read past it.                                   *)
ReadFrom(t, n, got) ==
  LET rest == Unread(t)
      used == Ahead(t, Len(rest))
      missing == n - Len(rest)
      more == Fill(used)
      past == FileRead(Clear(used), missing)
  IN  IF n < Len(rest)
      THEN [t |-> Ahead(t, n), n |-> 0, got |-> got \o SubSeq(rest, 1, n), over |-> TRUE]
      ELSE IF missing > Room
      THEN [t |-> [past.t EXCEPT !.position = @ + Len(past.got)],
            n |-> 0, got |-> got \o rest \o past.got, over |-> TRUE]
      ELSE IF more.buf = <<>> /\ IsReadable(more)
      THEN [t |-> more, n |-> n, got |-> got, over |-> TRUE]
      ELSE [t |-> more, n |-> missing, got |-> got \o rest, over |-> FALSE]

(* ReadIndirect(data, size) up to its call of itself: what waits is written *)
(* before anything is read.                                                 *)
ReadOn(w) ==
  IF w.over \/ ~IsReadable(w.t) THEN [w EXCEPT !.over = TRUE]
  ELSE ReadFrom(IF IsWriting(w.t) THEN Flush(w.t) ELSE w.t, w.n, w.got)

(* It calls itself at most twice: once for the new buffer, and again when   *)
(* that is taken to its end, to look for one more.                          *)
ReadIndirect(t, n) == ReadOn(ReadOn(ReadOn(Asked(t, n))))

(* A bug a run must catch: the file is not put back to where the reader is. *)
MutantPutBack(t) == IF IsReading(t) THEN Clear(Flush(t)) ELSE t

(* What was read ahead is given back before anything is written.            *)
PutBack(t) ==
  IF IsReading(t) THEN Clear(FileSeek(Flush(t), t.pos - Len(Unread(t)))) ELSE t

Filled(t, bytes) == [Ahead(t, Len(bytes)) EXCEPT !.buf = @ \o bytes]

(* What fits the buffer waits there; what fits an empty one is split, so    *)
(* that full buffers are written out; what does not is written past it.     *)
WriteBehind(t, bytes) ==
  LET room == Room - t.off
      full == Filled(t, SubSeq(bytes, 1, room))
      direct == FileWrite(Flush(t), bytes)
  IN  IF Len(bytes) <= room THEN Filled(t, bytes)
      ELSE IF Len(bytes) <= Room THEN Filled(WriteOut(full), SubSeq(bytes, room + 1, Len(bytes)))
      ELSE [direct EXCEPT !.position = @ + Len(bytes)]

WriteIndirect(t, bytes) == WriteBehind(PutBack(t), bytes)

-----------------------------------------------------------------------------
(* Reading on, by at most a buffer at a time, as long as there is something. *)
SkipOn(w) ==
  LET r == ReadIndirect(w.t, Least(w.n, Room))
  IN  IF w.n = 0 THEN w
      ELSE [t |-> r.t, n |-> IF r.got = <<>> THEN 0 ELSE w.n - Len(r.got)]

Skip(t, n) ==
  LET skip[k \in 0..n] == IF k = 0 THEN [t |-> t, n |-> n] ELSE SkipOn(skip[k - 1])
  IN  skip[n].t

(* To the beginning, and from there to p. *)
FromStart(t, p) ==
  Skip(Reset(FileSeek([t EXCEPT !.position = 0], 0)), Most(p, 0))

(* By distance d: on, back in the buffer, or from the start. *)
Relative(t, d) ==
  IF d > 0 THEN Skip(IF t.pos = 0 THEN Reset(t) ELSE t, d)
  ELSE IF t.off + d >= 0 THEN (IF t.pos = 0 THEN Reset(Ahead(t, d)) ELSE Ahead(t, d))
  ELSE FromStart(t, t.position + d)

(* Seek from the beginning (origin -1), from here (0) or from the end (1).  *)
Sought(t, p, origin) ==
  LET w == IF IsWriting(t) THEN Reset(t) ELSE t IN
  CASE origin = -1 -> IF p < 0 THEN w ELSE Relative(w, p - w.position)
    [] origin = 0 -> IF p = 0 THEN w ELSE Relative(w, p)
    [] origin = 1 -> IF p > 0 THEN w
                     ELSE LET end == Skip(w, MaxContent + 1) IN Relative(end, p)

-----------------------------------------------------------------------------
Init ==
  /\ \E file \in Contents :
       s = [file |-> file, pos |-> 0, eof |-> FALSE, buf |-> <<>>, off |-> 0, position |-> 0]
  /\ ret = [got |-> <<>>]

Read(n) == LET r == ReadIndirect(s, n) IN s' = r.t /\ ret' = [got |-> r.got]

Write(bytes) ==
  /\ s.position + Len(bytes) <= MaxContent
  /\ s' = WriteIndirect(s, bytes) /\ ret' = [got |-> <<>>]

Seek(p, origin) == s' = Sought(s, p, origin) /\ ret' = [by |-> p, origin |-> origin]

FlushIt == s' = Flush(s) /\ UNCHANGED ret

Next ==
  \/ \E n \in 1..MaxChunk : Read(n)
  \/ \E bytes \in Data : Write(bytes)
  \/ \E p \in -MaxContent..MaxContent, origin \in {-1, 0, 1} : Seek(p, origin)
  \/ FlushIt

Spec == Init /\ [][Next]_vars

-----------------------------------------------------------------------------
(* The stream is of its type, and Offset in the buffer, as IsReading and     *)
(* IsWriting assert.                                                         *)
TypeOK ==
  /\ s \in [file : Contents, pos : 0..MaxContent, eof : BOOLEAN,
            buf : UNION {[1..n -> Bytes] : n \in 0..Room}, off : 0..Room, position : 0..MaxContent]
  /\ s.off <= Len(s.buf)
  /\ ret \in [got : Seq(Bytes)] \cup [by : Int, origin : {-1, 0, 1}]

(* What the file is once all is written. *)
Content == IF IsWriting(s) THEN Overlaid(s.file, s.pos, s.buf) ELSE s.file
===============================================================================
