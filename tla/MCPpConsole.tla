----------------------------- MODULE MCPpConsole -----------------------------
(* The .init file of prj/tutlin starts both daemons, runs two commands and *)
(* starts the stdin shell last; here one command stands for the two.       *)
EXTENDS PpConsole

TutlinInit == <<"httpd", "telnetd", "print", "shell">>
=============================================================================
