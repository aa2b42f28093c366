----------------------------- MODULE CbSelfDetect -----------------------------
(* SelfDetect and UnixSignal of nopebts: a program refuses to start when its *)
(* pid file is there, creates it, and removes it when it exits and in the    *)
(* handler of every signal, which then throws the signal again for the       *)
(* system to do what it does by default.  Processes start, are interrupted   *)
(* between any two steps, by another signal in a handler too, and die.  The  *)
(* lists of handlers are locked by a mutex that lets its own thread in.      *)
EXTENDS Integers, Sequences

CONSTANTS Processes,     \* the processes ever started of one program
          NumSignals,    \* signals are registered in the order 1..NumSignals
          Harmless,      \* those a process survives by default, like SIGWINCH
          NoFile

Signals == 1..NumSignals

SelfAssumption ==
  NumSignals \in Nat /\ Harmless \subseteq Signals /\ NoFile \notin Processes

VARIABLES file,          \* who created the pid file last, if it is there
          phase,         \* how far a process is
          action,        \* what a signal does: "default", "handler", "ignore"
          listed,        \* signals with sigfcn in their mListHandlers: 1..listed
          named,         \* mFile is set
          frames         \* the handlers on the stack, newest first

selfVars == <<file, phase, action, listed, named, frames>>

Init ==
  /\ file = NoFile
  /\ phase = [p \in Processes |-> "off"]
  /\ action = [p \in Processes |-> [s \in Signals |-> "default"]]
  /\ listed = [p \in Processes |-> 0]
  /\ named = [p \in Processes |-> FALSE]
  /\ frames = [p \in Processes |-> <<>>]

Goto(p, from, to) ==
  /\ phase[p] = from /\ frames[p] = <<>>
  /\ phase' = [phase EXCEPT ![p] = to]

-----------------------------------------------------------------------------
(* RegisterProgram                                                           *)
VerifyAlone(p) ==
  /\ \/ file = NoFile /\ Goto(p, "off", "verified")
     \/ file # NoFile /\ Goto(p, "off", "gone")
  /\ UNCHANGED <<file, action, listed, named, frames>>

CreateFile(p) ==
  /\ Goto(p, "verified", "register")
  /\ file' = p
  /\ UNCHANGED <<action, listed, named, frames>>

CreateFails(p) ==
  /\ Goto(p, "verified", "gone")
  /\ UNCHANGED <<file, action, listed, named, frames>>

(* UnixSignal::Register installs the handler before it lists the function.   *)
Catch(p) ==
  /\ listed[p] < NumSignals
  /\ Goto(p, "register", "list")
  /\ action' = [action EXCEPT ![p][listed[p] + 1] = "handler"]
  /\ UNCHANGED <<file, listed, named, frames>>

List(p) ==
  /\ Goto(p, "list", "register")
  /\ listed' = [listed EXCEPT ![p] = @ + 1]
  /\ UNCHANGED <<file, action, named, frames>>

Name(p) ==
  /\ listed[p] = NumSignals
  /\ Goto(p, "register", "running")
  /\ named' = [named EXCEPT ![p] = TRUE]
  /\ UNCHANGED <<file, action, listed, frames>>

-----------------------------------------------------------------------------
Unlinked(p) == IF named[p] THEN NoFile ELSE file

(* The function given to atexit, then the destructors of gSelf and gSigVec.  *)
Finish(p) == Goto(p, "running", "exit") /\ UNCHANGED <<file, action, listed, named, frames>>

(* A bug a run must catch: the file stays when the program exits itself.     *)
MutantAtExit(p) ==
  /\ Goto(p, "exit", "destroy")
  /\ UNCHANGED <<file, action, listed, named, frames>>

AtExit(p) ==
  /\ Goto(p, "exit", "destroy")
  /\ file' = Unlinked(p)
  /\ UNCHANGED <<action, listed, named, frames>>

Destroy(p) ==
  /\ Goto(p, "destroy", "gone")
  /\ named' = [named EXCEPT ![p] = FALSE]
  /\ action' = [action EXCEPT ![p] = [s \in Signals |-> "default"]]
  /\ listed' = [listed EXCEPT ![p] = 0]
  /\ UNCHANGED <<file, frames>>

-----------------------------------------------------------------------------
Alive(p) == phase[p] \notin {"off", "gone", "killed"}

(* Whoever dies of a signal that did not reach Exit leaves what it created.  *)
Die(p) ==
  phase' = [phase EXCEPT ![p] = IF @ = "verified" \/ named[p] THEN "gone" ELSE "killed"]

Kill(p) ==
  /\ Alive(p)
  /\ phase' = [phase EXCEPT ![p] = "killed"]
  /\ UNCHANGED <<file, action, listed, named, frames>>

Blocked(p, s) == \E i \in 1..Len(frames[p]) : frames[p][i].sig = s

(* A signal comes; one that is ignored, or harmless by default, does nothing. *)
Signalled(p, s) ==
  /\ Alive(p) /\ ~Blocked(p, s)
  /\ \/ /\ action[p][s] = "default" /\ s \notin Harmless
        /\ Die(p)
        /\ UNCHANGED <<action, frames>>
     \/ /\ action[p][s] = "handler"
        /\ action' = [action EXCEPT ![p][s] = "ignore"]
        /\ frames' = [frames EXCEPT ![p] = <<[sig |-> s, cleaned |-> FALSE]>> \o @]
        /\ UNCHANGED phase
  /\ UNCHANGED <<file, listed, named>>

(* Handler calls the functions listed: SelfDetect::Exit, if it is there yet. *)
Handler(p) ==
  /\ Alive(p) /\ frames[p] # <<>> /\ ~Head(frames[p]).cleaned
  /\ file' = IF Head(frames[p]).sig <= listed[p] THEN Unlinked(p) ELSE file
  /\ frames' = [frames EXCEPT ![p][1].cleaned = TRUE]
  /\ UNCHANGED <<phase, action, listed, named>>

(* The signal is thrown again, to take effect when the handler returns.      *)
Rethrow(p) ==
  /\ Alive(p) /\ frames[p] # <<>> /\ Head(frames[p]).cleaned
  /\ LET s == Head(frames[p]).sig
     IN  /\ action' = [action EXCEPT ![p][s] = "default"]
         /\ frames' = [frames EXCEPT ![p] = Tail(@)]
         /\ IF s \in Harmless THEN UNCHANGED phase ELSE Die(p)
  /\ UNCHANGED <<file, listed, named>>

-----------------------------------------------------------------------------
Start(p) == VerifyAlone(p) \/ CreateFile(p) \/ CreateFails(p)

Step(p) ==
  \/ Start(p) \/ Catch(p) \/ List(p) \/ Name(p)
  \/ Finish(p) \/ AtExit(p) \/ Destroy(p)
  \/ Kill(p) \/ Handler(p) \/ Rethrow(p)
  \/ \E s \in Signals : Signalled(p, s)

Next == \E p \in Processes : Step(p)

Spec == Init /\ [][Next]_selfVars

(* Programs that are started one after the other: none looks for the file    *)
(* while another is between looking and creating it.                         *)
StartsInTurn == \A p, q \in Processes :
  phase[p] = "verified" /\ phase[q] = "verified" => p = q

TurnsSpec == Init /\ [][Next /\ StartsInTurn']_selfVars

-----------------------------------------------------------------------------
(* The pid file is there because its process is, or because that was killed  *)
(* before it could clean up: one that exits, is interrupted while it exits,  *)
(* or gets a signal in the handler of another, leaves no file that keeps the *)
(* program from starting again, even if others took or removed it meanwhile. *)
NothingLeft ==
  file # NoFile => phase[file] \in {"register", "list", "running", "exit", "killed"}

(* What the comments on SelfDetect say: it prevents two instances of a       *)
(* program from running, those in the handler of a signal left aside.        *)
Runs(p) == phase[p] = "running" /\ frames[p] = <<>>

OnlyOneRuns == \A p, q \in Processes : Runs(p) /\ Runs(q) => p = q
===============================================================================
