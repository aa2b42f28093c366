----------------------------- MODULE MCCommonLibs -----------------------------
(* Parts of nopebts/CommonLibs in one run: a behaviour is that of the locks, *)
(* that of the counted objects, or that of the pid file of a program started *)
(* twice, and the others stay as they are created.                           *)
EXTENDS ScopedLockMultiple, CbRefCnt, TLC

CONSTANTS Processes, NumSignals, Harmless, NoFile

VARIABLES part, file, phase, action, listed, named, frames

selfVars == <<file, phase, action, listed, named, frames>>

Self == INSTANCE CbSelfDetect

ASSUME SelfAssumption == Self!SelfAssumption

AllInit ==
  /\ Init /\ RefCntInit /\ Self!Init
  /\ part \in {"locks", "objects", "pidfile"}

AllNext ==
  \/ part = "locks" /\ Next /\ UNCHANGED <<part, refcntVars, selfVars>>
  \/ part = "objects" /\ RefCntNext /\ UNCHANGED <<part, vars, selfVars>>
  \/ part = "pidfile" /\ Self!Next /\ UNCHANGED <<part, vars, refcntVars>>

AllSpec == AllInit /\ [][AllNext]_<<part, vars, refcntVars, selfVars>>

(* Two pointers each. *)
TwoEach == Holders \X {1, 2}
OwnerOf == [p \in TwoEach |-> p[1]]

ThreadsAreAlike == Permutations(Threads)

(* The property of CbSelfDetect, stated there. *)
NothingLeft == Self!NothingLeft
===============================================================================
