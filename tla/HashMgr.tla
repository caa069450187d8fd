------------------------------ MODULE HashMgr -------------------------------
(***************************************************************************)
(* CLHashMgr (engine/lg_hash_mgr.h), the base of the texture, effect,      *)
(* material, skin, mesh and skeleton managers: a hash table with open      *)
(* addressing.  Every location counts the items whose hash is that         *)
(* location; a search ends when it has seen that many, not at an empty     *)
(* location, so that Unload may leave holes.  Location 0 is the default    *)
(* item's, to which nothing is hashed.                                     *)
(*                                                                         *)
(* The operators say what a call does to the table; the managers           *)
(* (TextureMgr, PoolMgr) say where the items come from.                    *)
(***************************************************************************)
EXTENDS Integers, FiniteSets, FiniteSetsExt

CONSTANTS
  MaxItems,  \* m_nMaxItems
  Names,     \* names of files
  Hash,      \* LG_HashFilename of each name, % (MaxItems-1) + 1
  Items,     \* what pItem may point to
  Null       \* LG_NULL

ASSUME HashMgrAssumption ==
  /\ MaxItems \in Nat /\ MaxItems >= 2
  /\ Hash \in [Names -> 1..MaxItems-1]
  /\ Null \notin Items

VARIABLES
  code,    \* nHashCode
  count,   \* nHashCount
  name,    \* szName
  item,    \* pItem
  result,  \* what the last call returned
  looped   \* GetItem has thrown "Looped through list": the program ends

tableVars == <<code, count, name, item>>
hashVars  == <<tableVars, result, looped>>

Loc    == 0..MaxItems-1
Home   == Loc \ {0}
Empty  == -1          \* HM_EMPTY_NODE
Memory == -2          \* HM_MEMORY_NODE
NoName == "no name"

NullItem    == 0
DefaultItem == 1

Running == ~looped

HashInit ==
  /\ code = [l \in Loc |-> IF l = 0 THEN 0 ELSE Empty]
  /\ count = [l \in Loc |-> IF l = 0 THEN 1 ELSE 0]
  /\ name = [l \in Loc |-> NoName]
  /\ item = [l \in Loc |-> Null]
  /\ result = NullItem /\ looped = FALSE

-----------------------------------------------------------------------------
\* The k-th location looked at from h on, round the end and over the default.
Probe(h, k) == (h + k) % MaxItems

\* The locations in use, those of the named items, and those whose hash is h.
Used == {l \in Home : code[l] # Empty}
Named == {l \in Home : code[l] \in Home}
Hashed(h) == {l \in Loc : code[l] = h}

Hits(f, k) == LET l == Probe(Hash[f], k) IN code[l] = Hash[f] /\ name[l] = f

Misses(f, k) ==
  {j \in 0..k : LET l == Probe(Hash[f], j) IN code[l] = Hash[f] /\ name[l] # f}

\* The probes at which the search for f can end.  After the last probe it is
\* back where it began, and throws though it may just have seen all it counts.
Ends(f) ==
  {k \in Loc : Hits(f, k) \/ /\ Cardinality(Misses(f, k)) = count[Hash[f]]
                             /\ k < MaxItems - 1}

Loops(f) == count[Hash[f]] # 0 /\ Ends(f) = {}

\* A slip: the search ends at the first empty location.
GetItemStopsAtHole(f) ==
  LET stops == {k \in Ends(f) : \A j \in 0..k : code[Probe(Hash[f], j)] # Empty}
  IN  IF count[Hash[f]] = 0 \/ stops = {} THEN NullItem
      ELSE IF Hits(f, Min(stops)) THEN Probe(Hash[f], Min(stops)) + 1
           ELSE NullItem

\* GetItem, when it does not throw.
GetItem(f) ==
  IF count[Hash[f]] = 0 THEN NullItem
  ELSE IF Hits(f, Min(Ends(f))) THEN Probe(Hash[f], Min(Ends(f))) + 1
       ELSE NullItem

EmptyProbes(f) == {k \in Loc : code[Probe(Hash[f], k)] = Empty}

\* The kinds of Load: the search throws; it finds the item; there is no room;
\* DoLoad is called, which returns an item or null.
LoadThrows(f) ==
  /\ Loops(f)
  /\ looped' = TRUE
  /\ UNCHANGED <<tableVars, result>>

LoadObtains(f) ==
  /\ ~Loops(f) /\ GetItem(f) # NullItem
  /\ result' = GetItem(f)
  /\ UNCHANGED <<tableVars, looped>>

LoadHasNoRoom(f) ==
  /\ ~Loops(f) /\ GetItem(f) = NullItem /\ EmptyProbes(f) = {}
  /\ result' = DefaultItem
  /\ UNCHANGED <<tableVars, looped>>

CallsDoLoad(f) == ~Loops(f) /\ GetItem(f) = NullItem /\ EmptyProbes(f) # {}

LoadFails(f) ==
  /\ CallsDoLoad(f)
  /\ result' = DefaultItem
  /\ UNCHANGED <<tableVars, looped>>

LoadStores(f, new) ==
  LET loc == Probe(Hash[f], Min(EmptyProbes(f)))
  IN  /\ CallsDoLoad(f)
      /\ count' = [count EXCEPT ![Hash[f]] = @ + 1]
      /\ code' = [code EXCEPT ![loc] = Hash[f]]
      /\ name' = [name EXCEPT ![loc] = f]
      /\ item' = [item EXCEPT ![loc] = new]
      /\ result' = loc + 1
      /\ UNCHANGED looped

\* A slip: the count of the location, not of its item's hash, is decremented.
DropOwnCount(l) ==
  /\ count' = [count EXCEPT ![l] = IF code[l] # Memory THEN @ - 1 ELSE @]
  /\ code' = [code EXCEPT ![l] = Empty]
  /\ name' = [name EXCEPT ![l] = NoName]
  /\ item' = [item EXCEPT ![l] = Null]

\* Emptying a location, in Unload and in UnloadItems.
Drop(l) ==
  /\ count' = IF code[l] = Memory THEN count
              ELSE [count EXCEPT ![code[l]] = @ - 1]
  /\ code' = [code EXCEPT ![l] = Empty]
  /\ name' = [name EXCEPT ![l] = NoName]
  /\ item' = [item EXCEPT ![l] = Null]

\* Unload of the item at l; the default item is not unloaded.
UnloadItem(l) ==
  /\ l \in Home /\ code[l] # Empty
  /\ Drop(l)
  /\ result' = NullItem
  /\ UNCHANGED looped

DropAll ==
  /\ count' = [h \in Loc |-> count[h] - Cardinality(Hashed(h) \cap Home)]
  /\ code' = [l \in Loc |-> IF l = 0 THEN code[0] ELSE Empty]
  /\ name' = [l \in Loc |-> IF l \in Home /\ code[l] # Empty THEN NoName ELSE name[l]]
  /\ item' = [l \in Loc |-> IF l \in Home /\ code[l] # Empty THEN Null ELSE item[l]]
  /\ result' = NullItem
  /\ UNCHANGED looped

-----------------------------------------------------------------------------
(* Properties.                                                             *)

\* Type correctness.
HashTypeOK ==
  /\ code \in [Loc -> Loc \cup {Empty, Memory}]
  /\ count \in [Loc -> 0..MaxItems]
  /\ name \in [Loc -> Names \cup {NoName}]
  /\ item \in [Loc -> Items \cup {Null}]
  /\ result \in 0..MaxItems
  /\ looped \in BOOLEAN

\* Every nHashCount is the number of items with that hash, wherever collisions,
\* holes and memory nodes have put them; were it too high a search would throw,
\* were it too low it would miss an item and load it twice.
CountsAreRight ==
  /\ HashTypeOK
  /\ \A h \in Home : count[h] = Cardinality(Hashed(h))
  /\ \A l \in Named : code[l] = Hash[name[l]]

\* What its users see of the table: the reference each name is obtained by, and
\* the references of the items that have no name.
LoadedRefs ==
  [f \in Names |-> IF \E l \in Named : name[l] = f
                   THEN 1 + CHOOSE l \in Named : name[l] = f ELSE NullItem]
MemoryRefs == {l + 1 : l \in {m \in Home : code[m] = Memory}}

\* To its users the table is a cache of the resources by their names.
Cache == INSTANCE ResourceCache
  WITH Refs <- 2..MaxItems, loaded <- LoadedRefs, memory <- MemoryRefs
IsCache == Cache!Spec

\* "If we loop all the way around to the initial node, then it means that the
\* number stored in m_ItemList[*pHash].nHashCount was incorrect": GetItem does
\* not throw while the counts are right.
LoopMeansWrongCount == looped => ~CountsAreRight
=============================================================================
