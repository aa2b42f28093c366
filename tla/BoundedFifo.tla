----------------------------- MODULE BoundedFifo -----------------------------
(***************************************************************************)
(* What a message queue promises: messages of 1..MaxLength units leave in  *)
(* the order they came, at most Capacity wait, a full queue refuses and a  *)
(* reader that offers less room than the message has gets its beginning.   *)
(***************************************************************************)
EXTENDS Integers, Sequences

CONSTANTS Capacity, MaxLength, Payloads

VARIABLES
  queue,   \* messages waiting, oldest first
  answer   \* result of the last call

Message == [payload : Payloads, length : 1..MaxLength]

Init == queue = <<>> /\ answer = [result |-> -1]

Send(m) ==
  /\ Len(queue) < Capacity
  /\ queue' = Append(queue, m)
  /\ answer' = [result |-> 0]

(* A failed send, or a failed receive, changes nothing. *)
Refuse == answer' = [result |-> -1] /\ UNCHANGED queue

Receive(room) ==
  /\ queue # <<>>
  /\ queue' = Tail(queue)
  /\ answer' = [payload |-> Head(queue).payload,
                result  |-> IF room < Head(queue).length THEN room ELSE Head(queue).length]

Next ==
  \/ Refuse
  \/ \E m \in Message : Send(m)
  \/ \E room \in 1..MaxLength : Receive(room)

Spec == Init /\ [][Next]_<<queue, answer>>
=============================================================================
