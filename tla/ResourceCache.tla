--------------------------- MODULE ResourceCache ----------------------------
(***************************************************************************)
(* What engine/lg_hash_mgr.h promises the users of a resource manager: a   *)
(* name that is loaded is obtained by the same reference until it is       *)
(* unloaded, no two loaded things have one reference, and what cannot be   *)
(* loaded is replaced by the default item.                                 *)
(***************************************************************************)
EXTENDS Integers

CONSTANTS
  Names,  \* file names
  Refs    \* the references (hm_item) of loaded items

NullItem    == 0
DefaultItem == 1

VARIABLES
  loaded,  \* the reference of each name, NullItem when it is not loaded
  memory,  \* the references of the items loaded from memory, without a name
  result   \* what the last call returned, NullItem for none

vars == <<loaded, memory, result>>

InUse == memory \cup {loaded[f] : f \in {g \in Names : loaded[g] # NullItem}}

Init ==
  /\ loaded = [f \in Names |-> NullItem]
  /\ memory = {}
  /\ result = NullItem

Obtain(f) ==
  /\ loaded[f] # NullItem
  /\ result' = loaded[f]
  /\ UNCHANGED <<loaded, memory>>

ObtainDefault ==
  /\ result' = DefaultItem
  /\ UNCHANGED <<loaded, memory>>

Load(f, r) ==
  /\ loaded[f] = NullItem
  /\ loaded' = [loaded EXCEPT ![f] = r]
  /\ result' = r
  /\ UNCHANGED memory

LoadMemory(r) ==
  /\ memory' = memory \cup {r}
  /\ result' = r
  /\ UNCHANGED loaded

Unload(r) ==
  /\ loaded' = [f \in Names |-> IF loaded[f] = r THEN NullItem ELSE loaded[f]]
  /\ memory' = memory \ {r}
  /\ result' = NullItem

UnloadItems ==
  /\ loaded' = [f \in Names |-> NullItem] /\ memory' = {}
  /\ result' = NullItem

Next ==
  \/ \E f \in Names : Obtain(f)
  \/ \E r \in Refs \ InUse : LoadMemory(r) \/ \E f \in Names : Load(f, r)
  \/ \E r \in InUse : Unload(r)
  \/ ObtainDefault \/ UnloadItems

Spec == Init /\ [][Next]_vars
=============================================================================
