------------------------------- MODULE CbRefCnt -------------------------------
(* RefCntPointer of nopebts: objects that count the pointers to them, under  *)
(* a mutex of their own, and are deleted by the one that counts them down to *)
(* nothing, after it gave the mutex up since that is part of the object.     *)
(* An operation is a program of calls, each of them a step: threads come in  *)
(* between any two.  Each thread changes pointers of its own, and copies     *)
(* from those of others, which their owner leaves alone meanwhile.           *)
EXTENDS Integers, Sequences, FiniteSets

CONSTANTS Holders, Pointers, Owner, Objects, NULL

ASSUME RefCntAssumption ==
  /\ Owner \in [Pointers -> Holders]
  /\ NULL \notin Objects \cup Pointers
  /\ IsFiniteSet(Pointers) /\ IsFiniteSet(Holders)

VARIABLES mRefCnt,     \* the count of an object
          life,        \* "unborn", "alive" or "deleted"
          rcPointer,   \* what a pointer points to
          doing        \* the operation a thread is in, and its place there

refcntVars == <<mRefCnt, life, rcPointer, doing>>

(* A bug a run must catch: nobody counts the pointer itself, as if its count *)
(* came with the argument.                                                   *)
MutantAssignment ==
  <<"inc", "rcDec", "deleteOld", "reset", "set", "dropNew", "deleteNew">>

(* "old" is what the pointer had and "new" what it is given.  rcDec resets   *)
(* the pointer after a deletion, which callers of decRefCnt ("drop") do not. *)
(* An assignment counts its argument, which is a copy, once for the copy and *)
(* once for the pointer, and the copy is destroyed in the end.               *)
Assignment ==
  <<"inc", "inc", "rcDec", "deleteOld", "reset", "set", "dropNew", "deleteNew">>

Program(op) ==
  CASE op = "copy"   -> <<"set", "inc">>
    [] op = "assign" -> Assignment
    [] op = "object" -> <<"set", "inc", "dropOld", "deleteOld">>
    [] op = "free"   -> <<"rcDec", "deleteOld", "reset", "set">>
    [] OTHER         -> <<>>

Doing(op, p, q, new, old) ==
  [op |-> op, at |-> 1, to |-> p, from |-> q, new |-> new, old |-> old]

Nothing == Doing("none", NULL, NULL, NULL, NULL)

RefCntInit ==
  /\ mRefCnt = [o \in Objects |-> 0]
  /\ life = [o \in Objects |-> "unborn"]
  /\ rcPointer = [p \in Pointers |-> NULL]
  /\ doing = [t \in Holders |-> Nothing]

-----------------------------------------------------------------------------
(* Operations on the pointer p, which nobody reads, by its owner.            *)
Start(p, op, q, new) ==
  /\ doing[Owner[p]] = Nothing
  /\ \A t \in Holders : doing[t].from # p
  /\ doing' = [doing EXCEPT ![Owner[p]] = Doing(op, p, q, new, rcPointer[p])]
  /\ UNCHANGED <<mRefCnt, rcPointer>>

Readable(q) == \A t \in Holders : doing[t].to # q

(* The copy constructor, of a pointer that does not exist before.            *)
Copy(p, q) ==
  /\ rcPointer[p] = NULL /\ Readable(q)
  /\ Start(p, "copy", q, rcPointer[q])
  /\ UNCHANGED life

Assign(p, q) ==
  /\ Readable(q)
  /\ Start(p, "assign", q, rcPointer[q])
  /\ UNCHANGED life

(* p = o, with the address of an object that is new or that another pointer  *)
(* of the thread keeps alive, or with NULL.                                  *)
AssignObject(p, o) ==
  /\ \/ o \in Objects /\ life[o] = "unborn" /\ life' = [life EXCEPT ![o] = "alive"]
     \/ /\ o = NULL \/ \E q \in Pointers : Owner[q] = Owner[p] /\ rcPointer[q] = o
        /\ UNCHANGED life
  /\ Start(p, "object", NULL, o)

(* free, and the destructor.                                                 *)
Free(p) ==
  /\ rcPointer[p] # NULL
  /\ Start(p, "free", NULL, NULL)
  /\ UNCHANGED life

-----------------------------------------------------------------------------
Calls(d) == Program(d.op)
Call(d) == Calls(d)[d.at]
Calling(t, calls) == doing[t].op # "none" /\ Call(doing[t]) \in calls

(* The object the call i of the operation d is about.                        *)
ObjectAt(d, i) ==
  CASE Calls(d)[i] \in {"rcDec", "dropOld", "deleteOld"} -> d.old
    [] Calls(d)[i] = "reset" -> NULL
    [] OTHER -> d.new

Object(t) == ObjectAt(doing[t], doing[t].at)

(* From the first count on, the argument is no longer needed.                *)
Later(d, n) ==
  IF d.at + n > Len(Calls(d)) THEN Nothing
  ELSE [d EXCEPT !.at = @ + n, !.from = IF Call(d) = "inc" THEN NULL ELSE @]

Goes(t, n) == doing' = [doing EXCEPT ![t] = Later(@, n)]

Set(t) ==
  /\ Calling(t, {"set", "reset"})
  /\ rcPointer' = [rcPointer EXCEPT ![doing[t].to] = Object(t)]
  /\ Goes(t, 1)
  /\ UNCHANGED <<mRefCnt, life>>

(* A count through a pointer to nothing is not made.                         *)
incRefCnt(t) ==
  /\ Calling(t, {"inc"})
  /\ mRefCnt' = [o \in Objects |-> IF o = Object(t) THEN mRefCnt[o] + 1 ELSE mRefCnt[o]]
  /\ Goes(t, 1)
  /\ UNCHANGED <<life, rcPointer>>

(* What the locked block leaves in saveRefCnt decides what follows.          *)
decRefCnt(t) ==
  /\ Calling(t, {"rcDec", "dropOld", "dropNew"})
  /\ mRefCnt' = [o \in Objects |-> IF o = Object(t) THEN mRefCnt[o] - 1 ELSE mRefCnt[o]]
  /\ IF Object(t) # NULL /\ mRefCnt'[Object(t)] <= 0 THEN Goes(t, 1)
     ELSE Goes(t, IF Call(doing[t]) = "rcDec" THEN 3 ELSE 2)
  /\ UNCHANGED <<life, rcPointer>>

Delete(t) ==
  /\ Calling(t, {"deleteOld", "deleteNew"})
  /\ life' = [life EXCEPT ![Object(t)] = "deleted"]
  /\ Goes(t, 1)
  /\ UNCHANGED <<mRefCnt, rcPointer>>

RefCntNext ==
  \/ \E p \in Pointers :
       \/ \E q \in Pointers : Copy(p, q) \/ Assign(p, q)
       \/ \E o \in Objects \cup {NULL} : AssignObject(p, o)
       \/ Free(p)
  \/ \E t \in Holders : Set(t) \/ incRefCnt(t) \/ decRefCnt(t) \/ Delete(t)

RefCntSpec == RefCntInit /\ [][RefCntNext]_refcntVars

-----------------------------------------------------------------------------
(* The calls an operation has still to make, and those of all about o.       *)
Ahead(d) == d.at..Len(Calls(d))

CallsOn(o, calls) ==
  {c \in Holders \X (1..8) :
     LET d == doing[c[1]]
     IN  c[2] \in Ahead(d) /\ Calls(d)[c[2]] \in calls /\ ObjectAt(d, c[2]) = o}

InUse(o) == \E t \in Holders : \E i \in Ahead(doing[t]) : ObjectAt(doing[t], i) = o

(* What p will point to when the operation on it is over.                    *)
Becomes(p) ==
  LET d == doing[Owner[p]]
  IN  IF d.to = p /\ \E i \in Ahead(d) : Calls(d)[i] = "set" THEN d.new ELSE rcPointer[p]

(* The count of an object is that of the pointers that will point to it, as *)
(* soon as every call under way is made.                                    *)
Settled(o) ==
  mRefCnt[o] + Cardinality(CallsOn(o, {"inc"})) =
    Cardinality({p \in Pointers : Becomes(p) = o})
      + Cardinality(CallsOn(o, {"rcDec", "dropOld", "dropNew"}))

(* However the calls of threads mix, an object is deleted once, when the     *)
(* last pointer to it lets go, and nothing is counted in it any more: it is  *)
(* neither lost nor found deleted by a pointer that thinks it keeps it.      *)
CountedOnce == \A o \in Objects :
  /\ Settled(o)
  /\ life[o] = "deleted" => ~InUse(o)
  /\ life[o] = "deleted" => \A p \in Pointers : Becomes(p) # o
  /\ life[o] = "alive" /\ ~InUse(o) => \E p \in Pointers : rcPointer[p] = o
===============================================================================
