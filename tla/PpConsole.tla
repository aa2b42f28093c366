------------------------------ MODULE PpConsole ------------------------------
(***************************************************************************)
(* The consoles of paperplane: the startup file, the shell on stdin, the   *)
(* telnet daemon and the http daemon (pp_shell.c, pp_telnetd.c and         *)
(* pp_httpd.c in src/paperplane/src/pp_base) run command lines through one *)
(* shell under one mutex, and print through one pointer, pp_write, that a  *)
(* session redirects to its connection. A step is an access to shared      *)
(* state; what a command computes is left out, that it may print is not.   *)
(***************************************************************************)
EXTENDS Integers, Sequences

CONSTANT
  InitFile  \* command lines of the .init file

Daemons == {"telnetd", "httpd"}
Threads == Daemons \cup {"main", "shell"}

(* A command that starts a thread is named for it; the others print or do  *)
(* not. Lines with nothing to run, comments among them, are "none".        *)
Typed == {"print", "none"}
Commands == Typed \cup Daemons \cup {"shell"}

ASSUME ConsoleAssumption ==
  /\ InitFile \in Seq(Commands)
  /\ \A i, j \in 1..Len(InitFile) :
       InitFile[i] = InitFile[j] /\ InitFile[i] \notin Typed => i = j

VARIABLES
  pc,      \* where each thread is; "crashed" is the end of the process
  req,     \* the line a thread has in its own buffer, <<thread, command>>
  back,    \* where it goes on when pp_shell returns
  then,    \* where it goes on when pp_printf returns
  dest,    \* the pp_write it read in pp_printf
  mutex,   \* owner of pp_shell_mutex, or "free"
  line,    \* pp_shell_line
  argv,    \* pp_shell_argv
  write,   \* pp_write: a daemon's writer, or "NULL"
  sock,    \* has a daemon a client socket, or is it -1?
  taken,   \* lines of the .init file read so far
  alone    \* history: no other session overlapped this daemon's session

vars == <<pc, req, back, then, dest, mutex, line, argv, write, sock, taken, alone>>
local == <<req, back, then, dest, taken>>

(* In pp_printf. *)
Printing == {"load", "call", "send", "crashed"}

InSession(d) == pc[d] \notin {"off", "banner", "listen", "accept", "set", "close"}
                /\ ~(pc[d] \in Printing /\ then[d] = "listen")

Init ==
  /\ pc = [t \in Threads |-> IF t = "main" THEN "read" ELSE "off"]
  /\ req = [t \in Threads |-> <<>>]
  /\ back = [t \in Threads |-> "off"]
  /\ then = [t \in Threads |-> "off"]
  /\ dest = [t \in Threads |-> "NULL"]
  /\ mutex = "free"
  /\ line = <<>>
  /\ argv = <<>>
  /\ write = "NULL"
  /\ sock = [d \in Daemons |-> FALSE]
  /\ taken = 0
  /\ alone = [d \in Daemons |-> FALSE]

Goto(t, where) == pc' = [pc EXCEPT ![t] = where]

-----------------------------------------------------------------------------
(* pp_printf: the pointer is tested, then called. *)

PrintOut(t, where) ==
  /\ Goto(t, "load")
  /\ then' = [then EXCEPT ![t] = where]

Load(t) ==
  /\ pc[t] = "load"
  /\ dest' = [dest EXCEPT ![t] = write]
  /\ Goto(t, IF write = "NULL" THEN "send" ELSE "call")
  /\ UNCHANGED <<req, back, then, mutex, line, argv, write, sock, taken, alone>>

(* The call reads the pointer again, or uses what the test read, as it was *)
(* compiled. A session that ended in between left NULL: the process ends.  *)
Call(t) ==
  /\ pc[t] = "call"
  /\ \E writer \in {dest[t], write} :
       /\ dest' = [dest EXCEPT ![t] = writer]
       /\ Goto(t, IF writer = "NULL" THEN "crashed" ELSE "send")
  /\ UNCHANGED <<req, back, then, mutex, line, argv, write, sock, taken, alone>>

(* A writer sends to the socket its daemon has by then; none: bytes lost. *)
Destination(t) ==
  IF dest[t] = "NULL" THEN "stdout" ELSE IF sock[dest[t]] THEN dest[t] ELSE "lost"

(* A client that is gone ends the process, for SIGPIPE is not handled; one *)
(* that does not read holds the thread up, as long as it likes.            *)
Send(t) ==
  /\ pc[t] = "send"
  /\ \/ /\ dest' = [dest EXCEPT ![t] = "NULL"]
        /\ then' = [then EXCEPT ![t] = "off"]
        /\ Goto(t, then[t])
     \/ Destination(t) \in Daemons /\ Goto(t, "crashed") /\ UNCHANGED <<dest, then>>
  /\ UNCHANGED <<req, back, mutex, line, argv, write, sock, taken, alone>>

-----------------------------------------------------------------------------
(* pp_shell. *)

Shell(t, command, where) ==
  /\ req' = [req EXCEPT ![t] = <<t, command>>]
  /\ back' = [back EXCEPT ![t] = where]
  /\ Goto(t, "lock")

(* Bugs the runs must catch: no lock; a lock that is not given back. *)
MutantLock(t) ==
  /\ pc[t] = "lock"
  /\ mutex' = t
  /\ Goto(t, "copy")
  /\ UNCHANGED <<local, line, argv, write, sock, alone>>

Lock(t) ==
  /\ pc[t] = "lock" /\ mutex = "free"
  /\ mutex' = t
  /\ Goto(t, "copy")
  /\ UNCHANGED <<local, line, argv, write, sock, alone>>

Copy(t) ==
  /\ pc[t] = "copy"
  /\ line' = req[t]
  /\ Goto(t, "parse")
  /\ UNCHANGED <<local, mutex, argv, write, sock, alone>>

Parse(t) ==
  /\ pc[t] = "parse"
  /\ argv' = line
  /\ Goto(t, "execute")
  /\ UNCHANGED <<local, mutex, line, write, sock, alone>>

(* The command of argv runs in the calling thread, which holds the mutex.  *)
(* The .init file starts every daemon, and the stdin shell, at most once.  *)
Execute(t) ==
  /\ pc[t] = "execute"
  /\ \/ argv[2] = "none" /\ Goto(t, "unlock") /\ UNCHANGED then
     \/ argv[2] = "print" /\ PrintOut(t, "unlock")
     \/ /\ argv[2] \notin Typed
        /\ pc' = [pc EXCEPT ![t] = "unlock",
                            ![argv[2]] = IF argv[2] = "shell" THEN "prompt" ELSE "banner"]
        /\ UNCHANGED then
  /\ UNCHANGED <<req, back, dest, mutex, line, argv, write, sock, taken, alone>>

MutantUnlock(t) ==
  /\ pc[t] = "unlock"
  /\ mutex' = IF argv[2] = "none" THEN mutex ELSE "free"
  /\ Goto(t, back[t])
  /\ back' = [back EXCEPT ![t] = "off"]
  /\ req' = [req EXCEPT ![t] = <<>>]
  /\ UNCHANGED <<then, dest, taken, line, argv, write, sock, alone>>

Unlock(t) ==
  /\ pc[t] = "unlock"
  /\ mutex' = "free"
  /\ Goto(t, back[t])
  /\ back' = [back EXCEPT ![t] = "off"]
  /\ req' = [req EXCEPT ![t] = <<>>]
  /\ UNCHANGED <<then, dest, taken, line, argv, write, sock, alone>>

-----------------------------------------------------------------------------
(* pp_shell_startup runs the .init file, pp_shell_loop the lines of stdin. *)

StartupLine ==
  /\ pc["main"] = "read"
  /\ \/ /\ taken < Len(InitFile)
        /\ Shell("main", InitFile[taken + 1], "read")
        /\ taken' = taken + 1
     \/ /\ taken = Len(InitFile)
        /\ Goto("main", "end")
        /\ UNCHANGED <<req, back, taken>>
  /\ UNCHANGED <<then, dest, mutex, line, argv, write, sock, alone>>

Prompt ==
  /\ pc["shell"] = "prompt"
  /\ PrintOut("shell", "read")
  /\ UNCHANGED <<req, back, dest, mutex, line, argv, write, sock, taken, alone>>

StdinLine ==
  /\ pc["shell"] = "read"
  /\ \E command \in Typed : Shell("shell", command, "prompt")
  /\ UNCHANGED <<then, dest, mutex, line, argv, write, sock, taken, alone>>

-----------------------------------------------------------------------------
(* A daemon: its loop prints a banner, makes the socket and accepts one    *)
(* client after the other.                                                 *)

Banner(d) ==
  /\ pc[d] = "banner"
  /\ PrintOut(d, "listen")
  /\ UNCHANGED <<req, back, dest, mutex, line, argv, write, sock, taken, alone>>

(* A socket or bind that fails is tried again after a second. *)
Listen(d) ==
  /\ pc[d] = "listen"
  /\ Goto(d, "accept")
  /\ UNCHANGED <<local, mutex, line, argv, write, sock, alone>>

(* accept returns a client, or fails and the daemon makes a new socket. *)
Accept(d) ==
  /\ pc[d] = "accept"
  /\ \/ sock' = [sock EXCEPT ![d] = TRUE] /\ Goto(d, "set")
     \/ Goto(d, "listen") /\ UNCHANGED sock
  /\ UNCHANGED <<local, mutex, line, argv, write, alone>>

SetWrite(d) ==
  /\ pc[d] = "set"
  /\ write' = d
  /\ alone' = [e \in Daemons |-> e = d /\ \A o \in Daemons \ {d} : ~InSession(o)]
  /\ Goto(d, "read")
  /\ UNCHANGED <<local, mutex, line, argv, sock>>

(* telnetd reads line after line, with a prompt written to the socket in   *)
(* between; httpd serves one request, with a command line in it or not.    *)
Request(d) ==
  /\ pc[d] = "read"
  /\ \E command \in Typed : Shell(d, command, IF d = "telnetd" THEN "read" ELSE "reset")
  /\ UNCHANGED <<then, dest, mutex, line, argv, write, sock, taken, alone>>

(* Bugs the runs must catch: the end of a session leaves the function at   *)
(* once and the redirection stays; it is taken back before the last print. *)
MutantEndOfSession(d) ==
  /\ d \in Daemons /\ pc[d] = "read"
  /\ Goto(d, "close") /\ UNCHANGED then
  /\ UNCHANGED <<req, back, dest, mutex, line, argv, write, sock, taken, alone>>

MutantLastPrint(d) ==
  /\ d \in Daemons /\ pc[d] = "read"
  /\ write' = "NULL"
  /\ \/ Goto(d, "reset") /\ UNCHANGED then
     \/ d = "telnetd" /\ PrintOut(d, "reset")
  /\ UNCHANGED <<req, back, dest, mutex, line, argv, sock, taken, alone>>

(* The client is gone or asks for a page without a command; after a minute *)
(* of silence telnetd prints so.                                           *)
EndOfSession(d) ==
  /\ d \in Daemons /\ pc[d] = "read"
  /\ \/ Goto(d, "reset") /\ UNCHANGED then
     \/ d = "telnetd" /\ PrintOut(d, "reset")
  /\ UNCHANGED <<req, back, dest, mutex, line, argv, write, sock, taken, alone>>

ResetWrite(d) ==
  /\ pc[d] = "reset"
  /\ write' = "NULL"
  /\ alone' = [alone EXCEPT ![d] = FALSE]
  /\ Goto(d, "close")
  /\ UNCHANGED <<local, mutex, line, argv, sock>>

(* Writes to a closed socket fail, and so do writes to -1. *)
Close(d) ==
  /\ pc[d] = "close"
  /\ sock' = [sock EXCEPT ![d] = FALSE]
  /\ Goto(d, "accept")
  /\ UNCHANGED <<local, mutex, line, argv, write, alone>>

Step(t) ==
  \/ Load(t) \/ Call(t) \/ Send(t)
  \/ Lock(t) \/ Copy(t) \/ Parse(t) \/ Execute(t) \/ Unlock(t)

DaemonStep(d) ==
  \/ Banner(d) \/ Listen(d) \/ Accept(d) \/ SetWrite(d)
  \/ Request(d) \/ EndOfSession(d) \/ ResetWrite(d) \/ Close(d)

Up == \A t \in Threads : pc[t] # "crashed"

Next ==
  /\ Up
  /\ \/ \E t \in Threads : Step(t)
     \/ StartupLine \/ Prompt \/ StdinLine
     \/ \E d \in Daemons : DaemonStep(d)

Spec == Init /\ [][Next]_vars

(* In the writer of a session: nothing says when the client reads.         *)
ToClient(t) == pc[t] = "send" /\ dest[t] # "NULL"

(* Threads that can run do; a connection, a request or a typed line need   *)
(* never come, and a write to a client never return. The mutex is given to *)
(* any of those that wait for it.                                          *)
Unasked(t) ==
  \/ ~ToClient(t) /\ Step(t)
  \/ t = "main" /\ StartupLine
  \/ t = "shell" /\ Prompt
  \/ t \in Daemons /\ (Banner(t) \/ Listen(t) \/ SetWrite(t) \/ ResetWrite(t) \/ Close(t))

Running == \A t \in Threads : WF_vars(Up /\ Unasked(t))

FairSpec == Spec /\ Running

-----------------------------------------------------------------------------
Lines == {<<>>} \cup (Threads \X Commands)

TypeOK ==
  /\ pc \in [Threads -> {"off", "read", "end", "load", "call", "send", "crashed", "lock", "copy", "parse",
                         "execute", "unlock", "prompt", "banner", "listen", "accept", "set", "reset",
                         "close"}]
  /\ req \in [Threads -> Lines]
  /\ back \in [Threads -> {"off", "read", "prompt", "reset"}]
  /\ then \in [Threads -> {"off", "unlock", "read", "listen", "reset"}]
  /\ dest \in [Threads -> Daemons \cup {"NULL"}]
  /\ mutex \in Threads \cup {"free"}
  /\ line \in Lines /\ argv \in Lines
  /\ write \in Daemons \cup {"NULL"}
  /\ sock \in [Daemons -> BOOLEAN]
  /\ taken \in 0..Len(InitFile)
  /\ alone \in [Daemons -> BOOLEAN]

(* A thread between the lock and the unlock of pp_shell. *)
InShell(t) ==
  \/ pc[t] \in {"copy", "parse", "execute", "unlock"}
  \/ pc[t] \in Printing /\ then[t] = "unlock"

(* The line and argument buffers are shared by every console, yet a thread *)
(* runs the line it was given, and the buffers keep it until it is done.   *)
RunsItsOwnLine ==
  \A t \in Threads :
    /\ InShell(t) /\ pc[t] # "copy" => line = req[t]
    /\ InShell(t) /\ pc[t] \notin {"copy", "parse"} => argv = req[t]

(* The two daemons redirect pp_printf with no lock; still, whatever way    *)
(* their sessions overlapped, output is back on stdout when both are over. *)
OutputReturns == (\A d \in Daemons : ~InSession(d)) => write = "NULL"

(* A session that no other session overlapped gets all that its lines      *)
(* print: nothing goes to stdout, to nobody or to another client.          *)
SoleSessionHearsItself ==
  \A d \in Daemons : pc[d] = "send" /\ InSession(d) /\ alone[d] => Destination(d) = d

(* Lines given to pp_shell are run, whatever their consoles do: no command *)
(* leaves the shell locked for those that wait, unless its console never   *)
(* returns from a write to its client. Which of them is next, or that it is *)
(* ever the turn of a given one, a pthread mutex does not say.             *)
LinesAreRun ==
  (\E t \in Threads : pc[t] = "lock") ~>
    \/ \E t \in Threads : pc[t] = "execute"
    \/ \E t \in Threads : [](mutex = t /\ ToClient(t))
    \/ ~Up
=============================================================================
