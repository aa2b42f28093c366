------------------------------ MODULE ObjectSet ------------------------------
(* What a hash table promises its callers: a set of objects.  The results    *)
(* are the C ones: 0 for done, -1 for refused.                               *)
EXTENDS Integers

CONSTANT Objects
VARIABLES members,  \* the objects held
          ret       \* what the last call returned

Init == members = {} /\ ret = 0

\* An object that is not held is taken, or refused for want of memory.
Add(o) ==
  \/ o \notin members /\ members' = members \union {o} /\ ret' = 0
  \/ members' = members /\ ret' = -1

Remove(o) ==
  /\ members' = members \ {o}
  /\ ret' = IF o \in members THEN 0 ELSE -1

Next == \E o \in Objects : Add(o) \/ Remove(o)

Spec == Init /\ [][Next]_<<members, ret>>
=============================================================================
