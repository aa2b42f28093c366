-------------------------------- MODULE Reason --------------------------------
(* What is proved of reason-2.x side by side: the two users of class Thread,  *)
(* the agent and the server, each with a list of threads of its own, and the  *)
(* buffered stream.                                                           *)
EXTENDS RsHttpAgent

CONSTANTS ServerThreads, ConnectionLimit, MaxConnections,
          Bytes, Room, MaxContent, MaxChunk

VARIABLES serverList, serverAt, read, ConnectionCount, serverSentinel, main, connections,
          limited,
          stream, ret

serverVars == <<serverList, serverAt, read, ConnectionCount, serverSentinel, main,
                connections, limited>>
streamVars == <<stream, ret>>

Server == INSTANCE RsHttpServer
  WITH Workers <- ServerThreads, List <- serverList, at <- serverAt, Sentinel <- serverSentinel

Stream == INSTANCE RsStreamBuffer WITH s <- stream

ASSUME ServerAssumption == Server!ServerAssumption
ASSUME StreamAssumption == Stream!StreamAssumption

(* The type invariants of the three modules, each stated there.              *)
TypesOK == TypeOK /\ Server!TypeOK /\ Stream!TypeOK

(* What both owe to class Thread: nobody who owns a list of threads goes on  *)
(* as if they were over while one of them still runs.                        *)
NobodyIsLeft == GoneIsUnused /\ Server!NoChildrenAtExit

(* The property of RsHttpServer, stated there. *)
OneListener == Server!OneListener

(* The buffered stream is a file with a position: whatever is read, written  *)
(* and sought in any order, every read gets the bytes there are at the        *)
(* position, every write lands there, and nothing written is lost.            *)
File == INSTANCE RandomFile WITH
  content <- Stream!Content, place <- stream.position, answer <- ret
ImplementsFile == File!Spec
===============================================================================
