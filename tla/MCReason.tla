------------------------------- MODULE MCReason -------------------------------
(* What is modelled of reason-2.x in one run: the agent, the server and the  *)
(* stream buffer, the ordered set, two lists, one sorted up and one down,    *)
(* with two entries of either rank, and an index of texts that begin alike,  *)
(* or each with another letter.                                              *)
(* A behaviour is that of one of them, and those that do not run stay in     *)
(* their initial state, where fairness asks nothing of them.                 *)
EXTENDS Reason

CONSTANTS N,
          up, down, Entries,
          Texts, MaxAttached

VARIABLES part,
          tree, taken,
          lists,
          nodes, count, occurrences, attached

setVars == <<tree, taken>>
indexVars == <<nodes, count, occurrences, attached>>

Ordered == INSTANCE RsOrderedSet WITH ret <- taken

RankOf == [e \in Entries |-> (e + 1) \div 2]
OrderOf == [l \in {up, down} |-> IF l = up THEN "ascending" ELSE "descending"]

Linear == INSTANCE RsList
  WITH Lists <- {up, down}, Rank <- RankOf, Order <- OrderOf, t <- lists

Words == INSTANCE RsIndex WITH Keys <- Texts, Count <- count, Occurrences <- occurrences

Attachable == {<<1>>, <<2>>, <<2, 1>>, <<2, 2>>, <<2, 2, 1>>, <<2, 2, 2>>}

ASSUME OrderedSetAssumption == Ordered!OrderedSetAssumption
ASSUME ListAssumption == Linear!ListAssumption
ASSUME IndexAssumption == Words!IndexAssumption

AllInit ==
  /\ Init /\ Server!Init /\ Ordered!Init /\ Stream!Init /\ Linear!Init /\ Words!Init
  /\ part \in {"agent", "server", "set", "stream", "list", "index"}
  /\ part # "stream" => stream.file = <<>>

AllNext ==
  \/ /\ part = "agent" /\ Next
     /\ UNCHANGED <<part, serverVars, setVars, streamVars, lists, indexVars>>
  \/ /\ part = "server" /\ Server!Next
     /\ UNCHANGED <<part, vars, setVars, streamVars, lists, indexVars>>
  \/ /\ part = "set" /\ Ordered!Next
     /\ UNCHANGED <<part, vars, serverVars, streamVars, lists, indexVars>>
  \/ /\ part = "stream" /\ Stream!Next
     /\ UNCHANGED <<part, vars, serverVars, setVars, lists, indexVars>>
  \/ /\ part = "list" /\ Linear!Next
     /\ UNCHANGED <<part, vars, serverVars, setVars, streamVars, indexVars>>
  \/ /\ part = "index" /\ Words!Next
     /\ UNCHANGED <<part, vars, serverVars, setVars, streamVars, lists>>

AllSpec ==
  /\ AllInit /\ [][AllNext]_<<part, vars, serverVars, setVars, streamVars, lists, indexVars>>
  /\ Fairness /\ Server!Fairness

(* The tree is of its type and one that Verify accepts, and its iterators   *)
(* and its pointers to the least and the greatest node agree with it.       *)
TreeIntact ==
  part = "set" => Ordered!TypeOK /\ Ordered!VerifyHolds /\ Ordered!IteratesInOrder
SetSpec == Ordered!SetSpec

(* The properties of RsList and RsIndex, stated there: whatever came before, *)
(* a list acts as the sequence of its entries, and an index finds what was   *)
(* attached.                                                                 *)
ContainersHold ==
  /\ part = "list" => Linear!ActsAsSequences
  /\ part = "index" => Words!FindsWhatWasAttached

===============================================================================
