------------------------------- MODULE MCPpNamed -------------------------------
(* The hash table of the named variables and their listing in one run: a     *)
(* behaviour is that of one of them, and the other stays as it is created.   *)
EXTENDS PpNHash, TLC

CONSTANTS Names, InitialCapacity, MaxRefcount

VARIABLES part, refcount, pc, todo, heap, capacity, listed, dropped

listVars == <<refcount, pc, todo, heap, capacity, listed, dropped>>

List == INSTANCE PpVarList

ASSUME HashParameters == HashAssumption
ASSUME NamesAssumption == List!NamesAssumption
ASSUME CapacityAssumption == List!CapacityAssumption

NamedInit ==
  /\ Init /\ List!Init /\ part \in {"hash", "list"}
  /\ part # "hash" => hashOf = [o \in Objects |-> CHOOSE v \in HashValues : TRUE]

NamedNext ==
  \/ part = "hash" /\ Next /\ UNCHANGED <<part, listVars>>
  \/ part = "list" /\ List!Next /\ UNCHANGED <<part, vars>>

NamedSpec == NamedInit /\ [][NamedNext]_<<part, vars, listVars>>

\* Entries differ by their hash alone, which is part of the state.
Entries == Permutations(Objects)
FiveNames == 1 .. 5

(* The properties of PpVarList, stated there. *)
ListedInOrder == List!ListedInOrder
NothingFreed == List!NothingFreed
===============================================================================
