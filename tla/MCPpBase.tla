------------------------------- MODULE MCPpBase -------------------------------
(* The message queue, the byte ring and the log of pp_base.c in one run: a   *)
(* behaviour is that of one of them, and the others stay as they are created. *)
(* The pool has the four nodes of the test in pp_shell_stub.c, and three     *)
(* lengths are enough for a message that is cut and one that is not.  Four   *)
(* cells and chunks of up to three bytes: a put or a get can fill, empty or  *)
(* wrap the ring from every pair of indices, and be cut where less is free.  *)
(* A log of eight bytes for lines of up to three letters: a line is put      *)
(* where it fits, where it just fits, and where the ring must advance and    *)
(* keeps none or some of the oldest.  One of the three letters is a '%'.     *)
EXTENDS PpMq

CONSTANTS NUL, Bytes,
          RingSize, MaxLen,
          LogSize, MaxLine, Piece, Percent, Converted, NoLine

VARIABLES part, ring, moved, log, newest

ringVars == <<ring, moved>>
logVars == <<log, newest>>

Ring == INSTANCE PpRing WITH Size <- RingSize, answer <- moved
Log == INSTANCE PpLog WITH Size <- LogSize, ring <- log

ASSUME RingAssumption == Ring!RingAssumption
ASSUME LogAssumption == Log!LogAssumption

BaseInit == Init /\ Ring!Init /\ Log!Init /\ part \in {"mq", "ring", "log"}

BaseNext ==
  \/ part = "mq" /\ Next /\ UNCHANGED <<part, ringVars, logVars>>
  \/ part = "ring" /\ Ring!Next /\ UNCHANGED <<part, vars, logVars>>
  \/ part = "log" /\ Log!Next /\ UNCHANGED <<part, vars, ringVars>>

BaseSpec == BaseInit /\ [][BaseNext]_<<part, vars, ringVars, logVars>>

(* The type invariants of the three modules, each stated there: no message  *)
(* is longer than its node, no index outside of its buffer.                 *)
TypesOK == TypeOK /\ Ring!TypeOK /\ Log!TypeOK

(* The two-part copies around the end of the buffer implement a byte fifo:  *)
(* no byte is lost, repeated, reordered or read before it was put.          *)
RingFifo == INSTANCE ByteFifo WITH
  Room <- RingSize - 1, Chunks <- Ring!Chunks, content <- Ring!Content, answer <- moved

RingImplementsFifo == RingFifo!Spec

(* The properties of PpLog, stated there. *)
ShowIsComplete == Log!ShowIsComplete
ForgetsFromTheMiddle == Log!ForgetsFromTheMiddle
===============================================================================
