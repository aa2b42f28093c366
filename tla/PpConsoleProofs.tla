--------------------------- MODULE PpConsoleProofs ---------------------------
(***************************************************************************)
(* What the mutex of pp_shell gives every console, for every startup file  *)
(* and any number of lines and sessions.                                   *)
(***************************************************************************)
EXTENDS PpConsole, TLAPS

(* Before pp_init runs its first command everything has its type.          *)
LEMMA InitType == Init => TypeOK
BY ConsoleAssumption DEF Init, TypeOK, Threads, Daemons, Lines

(* No step of a thread gives a variable a value of another type.           *)
LEMMA NextType == TypeOK /\ [Next]_vars => TypeOK'
<1> SUFFICES ASSUME TypeOK, [Next]_vars PROVE TypeOK'
  OBVIOUS
<1> USE ConsoleAssumption DEF TypeOK, Threads, Daemons, Lines
<1>1. ASSUME NEW t \in Threads, Load(t)
      PROVE  TypeOK'
  BY <1>1 DEF Load, Goto, local
<1>2. ASSUME NEW t \in Threads, Call(t)
      PROVE  TypeOK'
  BY <1>2 DEF Call, Goto, local
<1>3. ASSUME NEW t \in Threads, Send(t)
      PROVE  TypeOK'
  BY <1>3 DEF Send, Goto, local
<1>4. ASSUME NEW t \in Threads, Lock(t)
      PROVE  TypeOK'
  BY <1>4 DEF Lock, Goto, local
<1>5. ASSUME NEW t \in Threads, Copy(t)
      PROVE  TypeOK'
  BY <1>5 DEF Copy, Goto, local
<1>6. ASSUME NEW t \in Threads, Parse(t)
      PROVE  TypeOK'
  BY <1>6 DEF Parse, Goto, local
<1>7. ASSUME NEW t \in Threads, Execute(t)
      PROVE  TypeOK'
  BY <1>7 DEF Execute, PrintOut, Commands, Goto, local
<1>8. ASSUME NEW t \in Threads, Unlock(t)
      PROVE  TypeOK'
  BY <1>8 DEF Unlock, Goto, local
<1>9. ASSUME StartupLine
      PROVE  TypeOK'
  BY <1>9 DEF StartupLine, Shell, Commands, Goto, local
<1>10. ASSUME Prompt
      PROVE  TypeOK'
  BY <1>10 DEF Prompt, PrintOut, Goto, local
<1>11. ASSUME StdinLine
      PROVE  TypeOK'
  BY <1>11 DEF StdinLine, Shell, Typed, Commands, Goto, local
<1>12. ASSUME NEW d \in Daemons, Banner(d)
      PROVE  TypeOK'
  BY <1>12 DEF Banner, PrintOut, Goto, local
<1>13. ASSUME NEW d \in Daemons, Listen(d)
      PROVE  TypeOK'
  BY <1>13 DEF Listen, Goto, local
<1>14. ASSUME NEW d \in Daemons, Accept(d)
      PROVE  TypeOK'
  <2>1. /\ pc' \in {[pc EXCEPT ![d] = "set"], [pc EXCEPT ![d] = "listen"]}
        /\ sock' \in {[sock EXCEPT ![d] = TRUE], sock}
        /\ UNCHANGED <<req, back, then, dest, taken, mutex, line, argv, write, alone>>
    BY <1>14 DEF Accept, Goto, local
  <2>2. sock' \in [Daemons -> BOOLEAN]
    <3>1. sock \in [Daemons -> BOOLEAN]
      OBVIOUS
    <3>2. [sock EXCEPT ![d] = TRUE] \in [Daemons -> BOOLEAN]
      BY ONLY <3>1
    <3> QED BY ONLY <2>1, <3>1, <3>2
  <2> QED BY <2>1, <2>2
<1>15. ASSUME NEW d \in Daemons, SetWrite(d)
      PROVE  TypeOK'
  BY <1>15 DEF SetWrite, Goto, local
<1>16. ASSUME NEW d \in Daemons, Request(d)
      PROVE  TypeOK'
  BY <1>16 DEF Request, Shell, Typed, Commands, Goto, local
<1>17. ASSUME NEW d \in Daemons, EndOfSession(d)
      PROVE  TypeOK'
  BY <1>17 DEF EndOfSession, PrintOut, Goto, local
<1>18. ASSUME NEW d \in Daemons, ResetWrite(d)
      PROVE  TypeOK'
  BY <1>18 DEF ResetWrite, Goto, local
<1>19. ASSUME NEW d \in Daemons, Close(d)
      PROVE  TypeOK'
  BY <1>19 DEF Close, Goto, local
<1>20. CASE UNCHANGED vars
  BY <1>20 DEF vars, local
<1>21. QED
  BY <1>1, <1>2, <1>3, <1>4, <1>5, <1>6, <1>7, <1>8, <1>9, <1>10, <1>11, <1>12, <1>13, <1>14, <1>15, <1>16, <1>17, <1>18, <1>19, <1>20 DEF Next, Step, DaemonStep

(* Every variable keeps its type: no thread leaves its control graph.      *)
THEOREM TypeCorrect == Spec => []TypeOK
BY InitType, NextType, PTL DEF Spec

-----------------------------------------------------------------------------
(* The thread in pp_shell owns the mutex, so there is at most one.         *)
Exclusive == \A t \in Threads : InShell(t) => mutex = t

IInv == TypeOK /\ Exclusive /\ RunsItsOwnLine

(* Every step keeps the shell to one thread, and that thread to its line:  *)
(* only the owner of the mutex writes pp_shell's shared buffers.           *)
LEMMA NextLines == IInv /\ TypeOK' /\ [Next]_vars => Exclusive' /\ RunsItsOwnLine'
<1> SUFFICES ASSUME TypeOK, Exclusive, RunsItsOwnLine, TypeOK', [Next]_vars
             PROVE  Exclusive' /\ RunsItsOwnLine'
  BY DEF IInv
<1> USE DEF TypeOK, Threads, Daemons, Exclusive, RunsItsOwnLine, InShell, Printing
<1>1. ASSUME NEW t \in Threads, Load(t)
      PROVE  Exclusive' /\ RunsItsOwnLine'
  BY <1>1 DEF Load, Goto, local
<1>2. ASSUME NEW t \in Threads, Call(t)
      PROVE  Exclusive' /\ RunsItsOwnLine'
  BY <1>2 DEF Call, Goto, local
<1>3. ASSUME NEW t \in Threads, Send(t)
      PROVE  Exclusive' /\ RunsItsOwnLine'
  BY <1>3 DEF Send, Goto, local
<1>4. ASSUME NEW t \in Threads, Lock(t)
      PROVE  Exclusive' /\ RunsItsOwnLine'
  BY <1>4 DEF Lock, Goto, local
<1>5. ASSUME NEW t \in Threads, Copy(t)
      PROVE  Exclusive' /\ RunsItsOwnLine'
  BY <1>5 DEF Copy, Goto, local
<1>6. ASSUME NEW t \in Threads, Parse(t)
      PROVE  Exclusive' /\ RunsItsOwnLine'
  BY <1>6 DEF Parse, Goto, local
<1>7. ASSUME NEW t \in Threads, Execute(t)
      PROVE  Exclusive' /\ RunsItsOwnLine'
  BY <1>7 DEF Execute, PrintOut, Goto, local
<1>8. ASSUME NEW t \in Threads, Unlock(t)
      PROVE  Exclusive' /\ RunsItsOwnLine'
  BY <1>8 DEF Unlock, Goto, local
<1>9. ASSUME StartupLine
      PROVE  Exclusive' /\ RunsItsOwnLine'
  BY <1>9 DEF StartupLine, Shell, Goto, local
<1>10. ASSUME Prompt
      PROVE  Exclusive' /\ RunsItsOwnLine'
  BY <1>10 DEF Prompt, PrintOut, Goto, local
<1>11. ASSUME StdinLine
      PROVE  Exclusive' /\ RunsItsOwnLine'
  BY <1>11 DEF StdinLine, Shell, Goto, local
<1>12. ASSUME NEW d \in Daemons, Banner(d)
      PROVE  Exclusive' /\ RunsItsOwnLine'
  BY <1>12 DEF Banner, PrintOut, Goto, local
<1>13. ASSUME NEW d \in Daemons, Listen(d)
      PROVE  Exclusive' /\ RunsItsOwnLine'
  BY <1>13 DEF Listen, Goto, local
<1>14. ASSUME NEW d \in Daemons, Accept(d)
      PROVE  Exclusive' /\ RunsItsOwnLine'
  BY <1>14 DEF Accept, Goto, local
<1>15. ASSUME NEW d \in Daemons, SetWrite(d)
      PROVE  Exclusive' /\ RunsItsOwnLine'
  BY <1>15 DEF SetWrite, Goto, local
<1>16. ASSUME NEW d \in Daemons, Request(d)
      PROVE  Exclusive' /\ RunsItsOwnLine'
  BY <1>16 DEF Request, Shell, Goto, local
<1>17. ASSUME NEW d \in Daemons, EndOfSession(d)
      PROVE  Exclusive' /\ RunsItsOwnLine'
  BY <1>17 DEF EndOfSession, PrintOut, Goto, local
<1>18. ASSUME NEW d \in Daemons, ResetWrite(d)
      PROVE  Exclusive' /\ RunsItsOwnLine'
  BY <1>18 DEF ResetWrite, Goto, local
<1>19. ASSUME NEW d \in Daemons, Close(d)
      PROVE  Exclusive' /\ RunsItsOwnLine'
  BY <1>19 DEF Close, Goto, local
<1>20. CASE UNCHANGED vars
  BY <1>20 DEF vars
<1>21. QED
  BY <1>1, <1>2, <1>3, <1>4, <1>5, <1>6, <1>7, <1>8, <1>9, <1>10, <1>11, <1>12, <1>13, <1>14, <1>15, <1>16, <1>17, <1>18, <1>19, <1>20 DEF Next, Step, DaemonStep

(* The invariant of the mutex and the buffers holds at the start.          *)
LEMMA InitIInv == Init => IInv
<1>1. Init => Exclusive /\ RunsItsOwnLine
  BY DEF Init, Exclusive, RunsItsOwnLine, InShell, Threads, Daemons
<1>2. QED BY <1>1, InitType DEF IInv

(* The invariant of the mutex and the buffers is inductive.                *)
LEMMA NextIInv == IInv /\ [Next]_vars => IInv'
BY NextType, NextLines DEF IInv

(* Whatever the other consoles do, the thread that parses and runs a line  *)
(* has its own line in the shared buffers.                                 *)
THEOREM LinesStayWhole == Spec => []RunsItsOwnLine
<1>1. IInv => RunsItsOwnLine
  BY DEF IInv
<1>2. QED BY <1>1, InitIInv, NextIInv, PTL DEF Spec

-----------------------------------------------------------------------------
(* What keeps a daemon in its session until the reset: the places it comes *)
(* back to from a print and from pp_shell,                                 *)
ComesBack ==
  \A d \in Daemons :
    /\ pc[d] \in Printing => then[d] \in {"unlock", "listen", "reset"}
    /\ pc[d] = "lock" \/ InShell(d) => back[d] \in {"read", "reset"}

(* only the startup file starts threads,                                   *)
OthersTyped ==
  \A t \in Threads \ {"main"} : pc[t] = "lock" \/ InShell(t) => req[t] \in {t} \X Typed

Fetched == pc["main"] \in {"lock", "copy", "parse", "execute"}

MainLine ==
  Fetched => /\ taken \in 1..Len(InitFile)
             /\ req["main"] = <<"main", InitFile[taken]>>

(* and a daemon whose line is still ahead is not running.                  *)
NotYet ==
  \A d \in Daemons, i \in 1..Len(InitFile) :
    InitFile[i] = d /\ (i > taken \/ (i = taken /\ Fetched)) => pc[d] = "off"

Control == ComesBack /\ OthersTyped /\ MainLine /\ NotYet

(* A thread in pp_shell keeps the place it returns to.                     *)
LEMMA NextComesBack == TypeOK /\ TypeOK' /\ ComesBack /\ [Next]_vars => ComesBack'
<1> SUFFICES ASSUME TypeOK, TypeOK', ComesBack, [Next]_vars
             PROVE  ComesBack'
  OBVIOUS
<1> USE DEF TypeOK, Threads, Daemons, ComesBack, InShell, Printing
<1>1. ASSUME NEW t \in Threads, Load(t)
      PROVE  ComesBack'
  BY <1>1 DEF Load, Goto, local
<1>2. ASSUME NEW t \in Threads, Call(t)
      PROVE  ComesBack'
  BY <1>2 DEF Call, Goto, local
<1>3. ASSUME NEW t \in Threads, Send(t)
      PROVE  ComesBack'
  BY <1>3 DEF Send, Goto, local
<1>4. ASSUME NEW t \in Threads, Lock(t)
      PROVE  ComesBack'
  BY <1>4 DEF Lock, Goto, local
<1>5. ASSUME NEW t \in Threads, Copy(t)
      PROVE  ComesBack'
  BY <1>5 DEF Copy, Goto, local
<1>6. ASSUME NEW t \in Threads, Parse(t)
      PROVE  ComesBack'
  BY <1>6 DEF Parse, Goto, local
<1>7. ASSUME NEW t \in Threads, Execute(t)
      PROVE  ComesBack'
  BY <1>7 DEF Execute, PrintOut, Goto, local
<1>8. ASSUME NEW t \in Threads, Unlock(t)
      PROVE  ComesBack'
  BY <1>8 DEF Unlock, Goto, local
<1>9. ASSUME StartupLine
      PROVE  ComesBack'
  BY <1>9 DEF StartupLine, Shell, Goto, local
<1>10. ASSUME Prompt
      PROVE  ComesBack'
  BY <1>10 DEF Prompt, PrintOut, Goto, local
<1>11. ASSUME StdinLine
      PROVE  ComesBack'
  BY <1>11 DEF StdinLine, Shell, Goto, local
<1>12. ASSUME NEW d \in Daemons, Banner(d)
      PROVE  ComesBack'
  BY <1>12 DEF Banner, PrintOut, Goto, local
<1>13. ASSUME NEW d \in Daemons, Listen(d)
      PROVE  ComesBack'
  BY <1>13 DEF Listen, Goto, local
<1>14. ASSUME NEW d \in Daemons, Accept(d)
      PROVE  ComesBack'
  BY <1>14 DEF Accept, Goto, local
<1>15. ASSUME NEW d \in Daemons, SetWrite(d)
      PROVE  ComesBack'
  BY <1>15 DEF SetWrite, Goto, local
<1>16. ASSUME NEW d \in Daemons, Request(d)
      PROVE  ComesBack'
  BY <1>16 DEF Request, Shell, Goto, local
<1>17. ASSUME NEW d \in Daemons, EndOfSession(d)
      PROVE  ComesBack'
  BY <1>17 DEF EndOfSession, PrintOut, Goto, local
<1>18. ASSUME NEW d \in Daemons, ResetWrite(d)
      PROVE  ComesBack'
  BY <1>18 DEF ResetWrite, Goto, local
<1>19. ASSUME NEW d \in Daemons, Close(d)
      PROVE  ComesBack'
  BY <1>19 DEF Close, Goto, local
<1>20. CASE UNCHANGED vars
  BY <1>20 DEF vars
<1>21. QED
  BY <1>1, <1>2, <1>3, <1>4, <1>5, <1>6, <1>7, <1>8, <1>9, <1>10, <1>11, <1>12, <1>13, <1>14, <1>15, <1>16, <1>17, <1>18, <1>19, <1>20 DEF Next, Step, DaemonStep

(* What other threads than main give to pp_shell are lines somebody typed.  *)
LEMMA NextOthersTyped == TypeOK /\ TypeOK' /\ OthersTyped /\ [Next]_vars => OthersTyped'
<1> SUFFICES ASSUME TypeOK, TypeOK', OthersTyped, [Next]_vars
             PROVE  OthersTyped'
  OBVIOUS
<1> USE DEF TypeOK, Threads, Daemons, OthersTyped, InShell, Printing
<1>1. ASSUME NEW t \in Threads, Load(t)
      PROVE  OthersTyped'
  BY <1>1 DEF Load, Goto, local
<1>2. ASSUME NEW t \in Threads, Call(t)
      PROVE  OthersTyped'
  BY <1>2 DEF Call, Goto, local
<1>3. ASSUME NEW t \in Threads, Send(t)
      PROVE  OthersTyped'
  BY <1>3 DEF Send, Goto, local
<1>4. ASSUME NEW t \in Threads, Lock(t)
      PROVE  OthersTyped'
  BY <1>4 DEF Lock, Goto, local
<1>5. ASSUME NEW t \in Threads, Copy(t)
      PROVE  OthersTyped'
  BY <1>5 DEF Copy, Goto, local
<1>6. ASSUME NEW t \in Threads, Parse(t)
      PROVE  OthersTyped'
  BY <1>6 DEF Parse, Goto, local
<1>7. ASSUME NEW t \in Threads, Execute(t)
      PROVE  OthersTyped'
  BY <1>7 DEF Execute, PrintOut, Goto, local
<1>8. ASSUME NEW t \in Threads, Unlock(t)
      PROVE  OthersTyped'
  BY <1>8 DEF Unlock, Goto, local
<1>9. ASSUME StartupLine
      PROVE  OthersTyped'
  BY <1>9 DEF StartupLine, Shell, Goto, local
<1>10. ASSUME Prompt
      PROVE  OthersTyped'
  BY <1>10 DEF Prompt, PrintOut, Goto, local
<1>11. ASSUME StdinLine
      PROVE  OthersTyped'
  BY <1>11 DEF StdinLine, Shell, Goto, local
<1>12. ASSUME NEW d \in Daemons, Banner(d)
      PROVE  OthersTyped'
  BY <1>12 DEF Banner, PrintOut, Goto, local
<1>13. ASSUME NEW d \in Daemons, Listen(d)
      PROVE  OthersTyped'
  BY <1>13 DEF Listen, Goto, local
<1>14. ASSUME NEW d \in Daemons, Accept(d)
      PROVE  OthersTyped'
  BY <1>14 DEF Accept, Goto, local
<1>15. ASSUME NEW d \in Daemons, SetWrite(d)
      PROVE  OthersTyped'
  BY <1>15 DEF SetWrite, Goto, local
<1>16. ASSUME NEW d \in Daemons, Request(d)
      PROVE  OthersTyped'
  BY <1>16 DEF Request, Shell, Goto, local
<1>17. ASSUME NEW d \in Daemons, EndOfSession(d)
      PROVE  OthersTyped'
  BY <1>17 DEF EndOfSession, PrintOut, Goto, local
<1>18. ASSUME NEW d \in Daemons, ResetWrite(d)
      PROVE  OthersTyped'
  BY <1>18 DEF ResetWrite, Goto, local
<1>19. ASSUME NEW d \in Daemons, Close(d)
      PROVE  OthersTyped'
  BY <1>19 DEF Close, Goto, local
<1>20. CASE UNCHANGED vars
  BY <1>20 DEF vars
<1>21. QED
  BY <1>1, <1>2, <1>3, <1>4, <1>5, <1>6, <1>7, <1>8, <1>9, <1>10, <1>11, <1>12, <1>13, <1>14, <1>15, <1>16, <1>17, <1>18, <1>19, <1>20 DEF Next, Step, DaemonStep

(* Main runs the lines of the startup file one by one, before it prompts.  *)
LEMMA NextMainLine == TypeOK /\ TypeOK' /\ MainLine /\ [Next]_vars => MainLine'
<1> SUFFICES ASSUME TypeOK, TypeOK', MainLine, [Next]_vars
             PROVE  MainLine'
  OBVIOUS
<1> USE DEF TypeOK, Threads, Daemons, MainLine, Fetched
<1>1. ASSUME NEW t \in Threads, Load(t)
      PROVE  MainLine'
  BY <1>1 DEF Load, Goto, local
<1>2. ASSUME NEW t \in Threads, Call(t)
      PROVE  MainLine'
  BY <1>2 DEF Call, Goto, local
<1>3. ASSUME NEW t \in Threads, Send(t)
      PROVE  MainLine'
  BY <1>3 DEF Send, Goto, local
<1>4. ASSUME NEW t \in Threads, Lock(t)
      PROVE  MainLine'
  BY <1>4 DEF Lock, Goto, local
<1>5. ASSUME NEW t \in Threads, Copy(t)
      PROVE  MainLine'
  BY <1>5 DEF Copy, Goto, local
<1>6. ASSUME NEW t \in Threads, Parse(t)
      PROVE  MainLine'
  BY <1>6 DEF Parse, Goto, local
<1>7. ASSUME NEW t \in Threads, Execute(t)
      PROVE  MainLine'
  BY <1>7 DEF Execute, PrintOut, Goto, local
<1>8. ASSUME NEW t \in Threads, Unlock(t)
      PROVE  MainLine'
  BY <1>8 DEF Unlock, Goto, local
<1>9. ASSUME StartupLine
      PROVE  MainLine'
  BY <1>9 DEF StartupLine, Shell, Goto, local
<1>10. ASSUME Prompt
      PROVE  MainLine'
  BY <1>10 DEF Prompt, PrintOut, Goto, local
<1>11. ASSUME StdinLine
      PROVE  MainLine'
  BY <1>11 DEF StdinLine, Shell, Goto, local
<1>12. ASSUME NEW d \in Daemons, Banner(d)
      PROVE  MainLine'
  BY <1>12 DEF Banner, PrintOut, Goto, local
<1>13. ASSUME NEW d \in Daemons, Listen(d)
      PROVE  MainLine'
  BY <1>13 DEF Listen, Goto, local
<1>14. ASSUME NEW d \in Daemons, Accept(d)
      PROVE  MainLine'
  BY <1>14 DEF Accept, Goto, local
<1>15. ASSUME NEW d \in Daemons, SetWrite(d)
      PROVE  MainLine'
  BY <1>15 DEF SetWrite, Goto, local
<1>16. ASSUME NEW d \in Daemons, Request(d)
      PROVE  MainLine'
  BY <1>16 DEF Request, Shell, Goto, local
<1>17. ASSUME NEW d \in Daemons, EndOfSession(d)
      PROVE  MainLine'
  BY <1>17 DEF EndOfSession, PrintOut, Goto, local
<1>18. ASSUME NEW d \in Daemons, ResetWrite(d)
      PROVE  MainLine'
  BY <1>18 DEF ResetWrite, Goto, local
<1>19. ASSUME NEW d \in Daemons, Close(d)
      PROVE  MainLine'
  BY <1>19 DEF Close, Goto, local
<1>20. CASE UNCHANGED vars
  BY <1>20 DEF vars
<1>21. QED
  BY <1>1, <1>2, <1>3, <1>4, <1>5, <1>6, <1>7, <1>8, <1>9, <1>10, <1>11, <1>12, <1>13, <1>14, <1>15, <1>16, <1>17, <1>18, <1>19, <1>20 DEF Next, Step, DaemonStep

(* A line that starts a daemon is the main thread's, and starts one that   *)
(* is not running.                                                         *)
LEMMA StartsOnce ==
  IInv /\ Control => \A t \in Threads, d \in Daemons :
                       pc[t] = "execute" /\ argv[2] = d
                         => /\ t = "main" /\ pc[d] = "off"
                            /\ taken \in 1..Len(InitFile)
                            /\ InitFile[taken] = d
<1> SUFFICES ASSUME IInv, Control, NEW t \in Threads, NEW d \in Daemons,
                    pc[t] = "execute", argv[2] = d
             PROVE  /\ t = "main" /\ pc[d] = "off"
                    /\ taken \in 1..Len(InitFile) /\ InitFile[taken] = d
  OBVIOUS
<1>1. argv = req[t]
  BY DEF IInv, RunsItsOwnLine, InShell, Printing
<1>2. t = "main"
  <2> SUFFICES ASSUME t # "main" PROVE FALSE
    OBVIOUS
  <2>1. req[t] \in {t} \X Typed
    BY DEF Control, OthersTyped, InShell, Printing
  <2>2. QED BY <1>1, <2>1 DEF Typed, Daemons
<1>3. taken \in 1..Len(InitFile) /\ InitFile[taken] = d /\ Fetched
  BY <1>1, <1>2 DEF Control, MainLine, Fetched
<1>4. taken \in Nat
  BY DEF IInv, TypeOK, Threads
<1>5. pc[d] = "off"
  BY <1>3, <1>4 DEF Control, NotYet
<1>6. QED BY <1>2, <1>3, <1>5

(* A daemon whose line of the startup file was not run yet is off.         *)
LEMMA NextNotYet == IInv /\ TypeOK' /\ Control /\ [Next]_vars => NotYet'
<1> SUFFICES ASSUME IInv, Control, TypeOK', [Next]_vars
             PROVE  NotYet'
  OBVIOUS
<1>0. TypeOK /\ NotYet /\ MainLine
  BY DEF IInv, Control
<1> USE ConsoleAssumption DEF TypeOK, Threads, Daemons, NotYet, Fetched
<1>1. ASSUME NEW t \in Threads, Load(t)
      PROVE  NotYet'
  BY <1>1, <1>0 DEF Load, Goto, local
<1>2. ASSUME NEW t \in Threads, Call(t)
      PROVE  NotYet'
  BY <1>2, <1>0 DEF Call, Goto, local
<1>3. ASSUME NEW t \in Threads, Send(t)
      PROVE  NotYet'
  BY <1>3, <1>0 DEF Send, Goto, local
<1>4. ASSUME NEW t \in Threads, Lock(t)
      PROVE  NotYet'
  BY <1>4, <1>0 DEF Lock, Goto, local
<1>5. ASSUME NEW t \in Threads, Copy(t)
      PROVE  NotYet'
  BY <1>5, <1>0 DEF Copy, Goto, local
<1>6. ASSUME NEW t \in Threads, Parse(t)
      PROVE  NotYet'
  BY <1>6, <1>0 DEF Parse, Goto, local
<1>7. ASSUME NEW t \in Threads, Execute(t)
      PROVE  NotYet'
  <2>1. SUFFICES ASSUME NEW d \in Daemons, NEW i \in 1..Len(InitFile), InitFile[i] = d,
                        i > taken' \/ (i = taken' /\ Fetched')
                 PROVE  pc'[d] = "off"
    OBVIOUS
  <2>2. taken' = taken /\ d \in Threads /\ "main" \in Threads
    BY <1>7 DEF Execute
  <2>3. CASE argv[2] = d
    <3>1. /\ t = "main" /\ taken \in 1..Len(InitFile)
          /\ InitFile[taken] = d /\ argv[2] \notin Typed
      BY <1>7, <2>3, StartsOnce DEF Execute, Typed
    <3>2. ~Fetched'
      <4>1. pc' = [pc EXCEPT !["main"] = "unlock", ![d] = "banner"]
        BY <1>7, <3>1, <2>3 DEF Execute, Typed
      <4>2. pc'["main"] = "unlock"
        BY <1>0, <2>2, <4>1
      <4>3. QED BY <4>2
    <3>3. i = taken
      <4>1. InitFile[i] = InitFile[taken] /\ InitFile[i] \notin Typed
        BY <2>1, <2>3, <3>1
      <4>2. QED BY ONLY <4>1, <3>1, ConsoleAssumption, i \in 1..Len(InitFile) DEF ConsoleAssumption
    <3>4. QED BY <2>1, <2>2, <3>1, <3>2, <3>3
  <2>4. CASE argv[2] # d
    <3>0. Fetched' => Fetched
      BY <1>0, <1>7, <2>2 DEF Execute, PrintOut, Goto
    <3>1. pc[d] = "off"
      BY <1>0, <2>1, <2>2, <3>0
    <3>2. t # d
      BY <1>7, <3>1 DEF Execute
    <3>3. QED BY <1>0, <1>7, <2>2, <2>4, <3>1, <3>2 DEF Execute, PrintOut, Goto
  <2>5. QED BY <2>3, <2>4
<1>8. ASSUME NEW t \in Threads, Unlock(t)
      PROVE  NotYet'
  BY <1>8, <1>0 DEF Unlock, Goto, local
<1>9. ASSUME StartupLine
      PROVE  NotYet'
  BY <1>9, <1>0 DEF StartupLine, Shell, Goto, local
<1>10. ASSUME Prompt
      PROVE  NotYet'
  BY <1>10, <1>0 DEF Prompt, PrintOut, Goto, local
<1>11. ASSUME StdinLine
      PROVE  NotYet'
  BY <1>11, <1>0 DEF StdinLine, Shell, Goto, local
<1>12. ASSUME NEW d \in Daemons, Banner(d)
      PROVE  NotYet'
  BY <1>12, <1>0 DEF Banner, PrintOut, Goto, local
<1>13. ASSUME NEW d \in Daemons, Listen(d)
      PROVE  NotYet'
  BY <1>13, <1>0 DEF Listen, Goto, local
<1>14. ASSUME NEW d \in Daemons, Accept(d)
      PROVE  NotYet'
  BY <1>14, <1>0 DEF Accept, Goto, local
<1>15. ASSUME NEW d \in Daemons, SetWrite(d)
      PROVE  NotYet'
  BY <1>15, <1>0 DEF SetWrite, Goto, local
<1>16. ASSUME NEW d \in Daemons, Request(d)
      PROVE  NotYet'
  BY <1>16, <1>0 DEF Request, Shell, Goto, local
<1>17. ASSUME NEW d \in Daemons, EndOfSession(d)
      PROVE  NotYet'
  BY <1>17, <1>0 DEF EndOfSession, PrintOut, Goto, local
<1>18. ASSUME NEW d \in Daemons, ResetWrite(d)
      PROVE  NotYet'
  BY <1>18, <1>0 DEF ResetWrite, Goto, local
<1>19. ASSUME NEW d \in Daemons, Close(d)
      PROVE  NotYet'
  BY <1>19, <1>0 DEF Close, Goto, local
<1>20. CASE UNCHANGED vars
  BY <1>20, <1>0 DEF vars
<1>21. QED
  BY <1>1, <1>2, <1>3, <1>4, <1>5, <1>6, <1>7, <1>8, <1>9, <1>10, <1>11, <1>12, <1>13, <1>14, <1>15, <1>16, <1>17, <1>18, <1>19, <1>20 DEF Next, Step, DaemonStep

(* No step leaves pp_write redirected with both sessions over.             *)
LEMMA NextOutput == IInv /\ TypeOK' /\ Control /\ OutputReturns /\ [Next]_vars => OutputReturns'
<1> SUFFICES ASSUME IInv, Control, TypeOK', OutputReturns, [Next]_vars
             PROVE  OutputReturns'
  OBVIOUS
<1>0. TypeOK /\ ComesBack
  BY DEF IInv, Control
<1> USE DEF TypeOK, Threads, Daemons, OutputReturns, InSession, ComesBack, InShell, Printing
<1>1. ASSUME NEW t \in Threads, Load(t)
      PROVE  OutputReturns'
  BY <1>1, <1>0 DEF Load, Goto, local
<1>2. ASSUME NEW t \in Threads, Call(t)
      PROVE  OutputReturns'
  BY <1>2, <1>0 DEF Call, Goto, local
<1>3. ASSUME NEW t \in Threads, Send(t)
      PROVE  OutputReturns'
  BY <1>3, <1>0 DEF Send, Goto, local
<1>4. ASSUME NEW t \in Threads, Lock(t)
      PROVE  OutputReturns'
  BY <1>4, <1>0 DEF Lock, Goto, local
<1>5. ASSUME NEW t \in Threads, Copy(t)
      PROVE  OutputReturns'
  BY <1>5, <1>0 DEF Copy, Goto, local
<1>6. ASSUME NEW t \in Threads, Parse(t)
      PROVE  OutputReturns'
  BY <1>6, <1>0 DEF Parse, Goto, local
<1>7. ASSUME NEW t \in Threads, Execute(t)
      PROVE  OutputReturns'
  BY <1>7, <1>0, StartsOnce DEF Execute, PrintOut, Goto, local
<1>8. ASSUME NEW t \in Threads, Unlock(t)
      PROVE  OutputReturns'
  BY <1>8, <1>0 DEF Unlock, Goto, local
<1>9. ASSUME StartupLine
      PROVE  OutputReturns'
  BY <1>9, <1>0 DEF StartupLine, Shell, Goto, local
<1>10. ASSUME Prompt
      PROVE  OutputReturns'
  BY <1>10, <1>0 DEF Prompt, PrintOut, Goto, local
<1>11. ASSUME StdinLine
      PROVE  OutputReturns'
  BY <1>11, <1>0 DEF StdinLine, Shell, Goto, local
<1>12. ASSUME NEW d \in Daemons, Banner(d)
      PROVE  OutputReturns'
  BY <1>12, <1>0 DEF Banner, PrintOut, Goto, local
<1>13. ASSUME NEW d \in Daemons, Listen(d)
      PROVE  OutputReturns'
  BY <1>13, <1>0 DEF Listen, Goto, local
<1>14. ASSUME NEW d \in Daemons, Accept(d)
      PROVE  OutputReturns'
  BY <1>14, <1>0 DEF Accept, Goto, local
<1>15. ASSUME NEW d \in Daemons, SetWrite(d)
      PROVE  OutputReturns'
  BY <1>15, <1>0 DEF SetWrite, Goto, local
<1>16. ASSUME NEW d \in Daemons, Request(d)
      PROVE  OutputReturns'
  BY <1>16, <1>0 DEF Request, Shell, Goto, local
<1>17. ASSUME NEW d \in Daemons, EndOfSession(d)
      PROVE  OutputReturns'
  BY <1>17, <1>0 DEF EndOfSession, PrintOut, Goto, local
<1>18. ASSUME NEW d \in Daemons, ResetWrite(d)
      PROVE  OutputReturns'
  BY <1>18, <1>0 DEF ResetWrite, Goto, local
<1>19. ASSUME NEW d \in Daemons, Close(d)
      PROVE  OutputReturns'
  BY <1>19, <1>0 DEF Close, Goto, local
<1>20. CASE UNCHANGED vars
  BY <1>20 DEF vars
<1>21. QED
  BY <1>1, <1>2, <1>3, <1>4, <1>5, <1>6, <1>7, <1>8, <1>9, <1>10, <1>11, <1>12, <1>13, <1>14, <1>15, <1>16, <1>17, <1>18, <1>19, <1>20 DEF Next, Step, DaemonStep

(* Two daemons that redirect the output without a lock never leave it      *)
(* redirected when both their sessions are over.                           *)
THEOREM OutputComesBack == Spec => []OutputReturns
<1>1. Init => OutputReturns /\ Control
  BY ConsoleAssumption DEF Init, OutputReturns, Control, ComesBack, OthersTyped, MainLine,
     NotYet, Fetched, InShell, Printing, Threads, Daemons
<1>2. IInv /\ Control /\ [Next]_vars => Control'
  BY NextType, NextComesBack, NextOthersTyped, NextMainLine, NextNotYet DEF IInv, Control
<1>3. IInv /\ Control /\ OutputReturns /\ [Next]_vars => OutputReturns'
  BY NextType, NextOutput DEF IInv
<1>4. QED BY <1>1, <1>2, <1>3, InitIInv, NextIInv, PTL DEF Spec

-----------------------------------------------------------------------------
(* A daemon has a client before it redirects the output and as long as its *)
(* session lasts; and a session that is alone has the output to itself: it *)
(* redirected it last, and what it fetched to print through is its own.    *)
HasClient == \A d \in Daemons : pc[d] = "set" \/ InSession(d) => sock[d]

HasOutput ==
  \A d \in Daemons : alone[d] =>
    /\ InSession(d) /\ write = d
    /\ \A o \in Daemons \ {d} : ~InSession(o)
    /\ pc[d] \in {"call", "send"} => dest[d] = d

(* No step takes the client or the output from a session that is alone.    *)
LEMMA NextSole ==
  IInv /\ TypeOK' /\ Control /\ HasClient /\ HasOutput /\ [Next]_vars
    => HasClient' /\ HasOutput'
<1> SUFFICES ASSUME IInv, Control, TypeOK', HasClient, HasOutput, [Next]_vars
             PROVE  HasClient' /\ HasOutput'
  OBVIOUS
<1>0. TypeOK /\ ComesBack
  BY DEF IInv, Control
<1> USE DEF TypeOK, Threads, Daemons, HasClient, HasOutput, InSession, ComesBack, InShell, Printing
<1>1. ASSUME NEW t \in Threads, Load(t)
      PROVE  HasClient' /\ HasOutput'
  BY <1>1, <1>0 DEF Load, Goto, local
<1>2. ASSUME NEW t \in Threads, Call(t)
      PROVE  HasClient' /\ HasOutput'
  BY <1>2, <1>0 DEF Call, Goto, local
<1>3. ASSUME NEW t \in Threads, Send(t)
      PROVE  HasClient' /\ HasOutput'
  BY <1>3, <1>0 DEF Send, Goto, local
<1>4. ASSUME NEW t \in Threads, Lock(t)
      PROVE  HasClient' /\ HasOutput'
  BY <1>4, <1>0 DEF Lock, Goto, local
<1>5. ASSUME NEW t \in Threads, Copy(t)
      PROVE  HasClient' /\ HasOutput'
  BY <1>5, <1>0 DEF Copy, Goto, local
<1>6. ASSUME NEW t \in Threads, Parse(t)
      PROVE  HasClient' /\ HasOutput'
  BY <1>6, <1>0 DEF Parse, Goto, local
<1>7. ASSUME NEW t \in Threads, Execute(t)
      PROVE  HasClient' /\ HasOutput'
  BY <1>7, <1>0, StartsOnce DEF Execute, PrintOut, Goto, local
<1>8. ASSUME NEW t \in Threads, Unlock(t)
      PROVE  HasClient' /\ HasOutput'
  BY <1>8, <1>0 DEF Unlock, Goto, local
<1>9. ASSUME StartupLine
      PROVE  HasClient' /\ HasOutput'
  BY <1>9, <1>0 DEF StartupLine, Shell, Goto, local
<1>10. ASSUME Prompt
      PROVE  HasClient' /\ HasOutput'
  BY <1>10, <1>0 DEF Prompt, PrintOut, Goto, local
<1>11. ASSUME StdinLine
      PROVE  HasClient' /\ HasOutput'
  BY <1>11, <1>0 DEF StdinLine, Shell, Goto, local
<1>12. ASSUME NEW d \in Daemons, Banner(d)
      PROVE  HasClient' /\ HasOutput'
  BY <1>12, <1>0 DEF Banner, PrintOut, Goto, local
<1>13. ASSUME NEW d \in Daemons, Listen(d)
      PROVE  HasClient' /\ HasOutput'
  BY <1>13, <1>0 DEF Listen, Goto, local
<1>14. ASSUME NEW d \in Daemons, Accept(d)
      PROVE  HasClient' /\ HasOutput'
  BY <1>14, <1>0 DEF Accept, Goto, local
<1>15. ASSUME NEW d \in Daemons, SetWrite(d)
      PROVE  HasClient' /\ HasOutput'
  BY <1>15, <1>0 DEF SetWrite, Goto, local
<1>16. ASSUME NEW d \in Daemons, Request(d)
      PROVE  HasClient' /\ HasOutput'
  BY <1>16, <1>0 DEF Request, Shell, Goto, local
<1>17. ASSUME NEW d \in Daemons, EndOfSession(d)
      PROVE  HasClient' /\ HasOutput'
  BY <1>17, <1>0 DEF EndOfSession, PrintOut, Goto, local
<1>18. ASSUME NEW d \in Daemons, ResetWrite(d)
      PROVE  HasClient' /\ HasOutput'
  BY <1>18, <1>0 DEF ResetWrite, Goto, local
<1>19. ASSUME NEW d \in Daemons, Close(d)
      PROVE  HasClient' /\ HasOutput'
  BY <1>19, <1>0 DEF Close, Goto, local
<1>20. CASE UNCHANGED vars
  BY <1>20 DEF vars
<1>21. QED
  BY <1>1, <1>2, <1>3, <1>4, <1>5, <1>6, <1>7, <1>8, <1>9, <1>10, <1>11, <1>12, <1>13, <1>14, <1>15, <1>16, <1>17, <1>18, <1>19, <1>20 DEF Next, Step, DaemonStep

(* A session that no other one overlapped is heard by its own client: the  *)
(* output was redirected to it and nobody takes it back before the end.    *)
THEOREM SessionHearsItself == Spec => []SoleSessionHearsItself
<1>1. Init => Control /\ HasClient /\ HasOutput
  BY ConsoleAssumption DEF Init, Control, ComesBack, OthersTyped, MainLine, NotYet, Fetched,
     InShell, InSession, Printing, HasClient, HasOutput, Threads, Daemons
<1>2. IInv /\ Control /\ [Next]_vars => Control'
  BY NextType, NextComesBack, NextOthersTyped, NextMainLine, NextNotYet DEF IInv, Control
<1>3. IInv /\ Control /\ HasClient /\ HasOutput /\ [Next]_vars => HasClient' /\ HasOutput'
  BY NextType, NextSole DEF IInv
<1>4. HasClient /\ HasOutput => SoleSessionHearsItself
  BY DEF HasClient, HasOutput, SoleSessionHearsItself, Destination, InSession, Printing, Daemons
<1>5. QED BY <1>1, <1>2, <1>3, <1>4, InitIInv, NextIInv, PTL DEF Spec
===============================================================================
