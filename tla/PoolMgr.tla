------------------------------ MODULE PoolMgr -------------------------------
(***************************************************************************)
(* The hash managers that take their items from an array of as many items  *)
(* as the table has locations, the unused ones on a CLListStack: CLMtrMgr  *)
(* (lg_mtr_mgr.cpp), CLSkinMgr (lg_skin_mgr.cpp), CLMeshMgr and CLSkelMgr  *)
(* (lg_mmgr.cpp).  DoLoad pops an item before it tries to load the file;   *)
(* if it cannot, three of the managers push the item back.                 *)
(***************************************************************************)
EXTENDS HashMgr, Sequences, SequencesExt

CONSTANT ReturnsFailed  \* does DoLoad push the item back (not in CLMtrMgr)

ASSUME PoolMgrAssumption ==
  /\ Items = 0..MaxItems-1
  /\ ReturnsFailed \in BOOLEAN

VARIABLE free  \* m_stkMtr, m_stkSkin, m_stkMeshes, m_stkSkels

poolVars == <<hashVars, free>>

PoolInit ==
  /\ HashInit
  /\ free = [i \in 1..MaxItems |-> MaxItems - i]

\* A slip: the item is not pushed back, as it is not in CLMtrMgr.
PoolLoadLoses(f) ==
  /\ Running
  /\ \/ (LoadThrows(f) \/ LoadObtains(f) \/ LoadHasNoRoom(f)) /\ UNCHANGED free
     \/ free = << >> /\ LoadFails(f) /\ UNCHANGED free
     \/ free # << >> /\ (LoadFails(f) \/ LoadStores(f, Head(free))) /\ free' = Tail(free)

\* Load with DoLoad: the pool may be empty, the file may not load.
PoolLoad(f) ==
  /\ Running
  /\ \/ (LoadThrows(f) \/ LoadObtains(f) \/ LoadHasNoRoom(f)) /\ UNCHANGED free
     \/ free = << >> /\ LoadFails(f) /\ UNCHANGED free
     \/ /\ free # << >>
        /\ \/ LoadFails(f) /\ free' = IF ReturnsFailed THEN free ELSE Tail(free)
           \/ LoadStores(f, Head(free)) /\ free' = Tail(free)

PoolUnload(l) ==
  /\ Running
  /\ UnloadItem(l)
  /\ free' = <<item[l]>> \o free

\* The locations in use, in order: the i-th has i of them up to it.
Occupied ==
  [i \in 1..Cardinality(Used) |->
     CHOOSE l \in Used : Cardinality({m \in Used : m <= l}) = i]

PoolUnloadItems ==
  /\ Running
  /\ DropAll
  /\ free' = Reverse([i \in DOMAIN Occupied |-> item[Occupied[i]]]) \o free

PoolNext ==
  \/ \E f \in Names : PoolLoad(f)
  \/ \E l \in Loc : PoolUnload(l)
  \/ PoolUnloadItems

PoolSpec == PoolInit /\ [][PoolNext]_poolVars

-----------------------------------------------------------------------------
(* Properties.                                                             *)

Held == {item[l] : l \in Named}

\* No item of the pool is in use by two names, or by one while it is free: what
\* one name's users hold is not loaded over.  And where DoLoad pushes it back
\* when the file cannot be loaded, every item is free or some name's; CLMtrMgr's
\* does not, and never has that item again (lg_mtr_mgr.cpp:50-51).
ItemsHaveOneUse ==
  /\ \A i, j \in DOMAIN free : free[i] = free[j] => i = j
  /\ \A l, m \in Named : item[l] = item[m] => l = m
  /\ Held \cap ToSet(free) = {}
  /\ Null \notin Held
  /\ ReturnsFailed => Items \subseteq ToSet(free) \cup Held
=============================================================================
