--------------------------- MODULE ManagerProofs ----------------------------
(***************************************************************************)
(* Proofs about the hash managers: the table of CLHashMgr, whatever takes  *)
(* its items from where, then the textures (TextureMgr) and the managers   *)
(* with a pool of items (PoolMgr, MeshMgr), for every number of items,     *)
(* every set of names and every hash function.                             *)
(***************************************************************************)
EXTENDS TextureMgr, MeshMgr, SequenceLemmas

-----------------------------------------------------------------------------
(* The table.                                                              *)

\* The default item keeps its location, and nothing hashes to it.
DefaultStays ==
  /\ code[0] = 0
  /\ \A l \in Home : code[l] # 0

\* No name is in the table twice.
NamesAreDistinct ==
  \A l, m \in Named : name[l] = name[m] => l = m

\* The inductive invariant of the table: CountsAreRight, and what makes a
\* search find what the counts count.
TableInv ==
  /\ CountsAreRight
  /\ \A l \in Named : name[l] \in Names
  /\ DefaultStays
  /\ NamesAreDistinct

\* The location a probe looks at; a search looks at none twice.
LEMMA ProbeVisits ==
  ASSUME NEW h \in Loc
  PROVE  /\ \A k \in Loc : Probe(h, k) \in Loc
         /\ \A j, k \in Loc : Probe(h, j) = Probe(h, k) => j = k
<1>1. MaxItems \in Nat /\ MaxItems > 0 /\ h \in 0..MaxItems-1
  BY HashMgrAssumption DEF Loc
<1>2. ASSUME NEW k \in Loc
      PROVE  Probe(h, k) = IF h + k < MaxItems THEN h + k ELSE h + k - MaxItems
  <2>1. k \in 0..MaxItems-1  BY DEF Loc
  <2> DEFINE x == h + k
  <2>2. x \in Nat /\ x < 2 * MaxItems  BY <1>1, <2>1
  <2>0. Probe(h, k) = x % MaxItems /\ x = h + k  BY DEF Probe
  <2> HIDE DEF x
  <2>3. CASE x < MaxItems
    <3>1. x % MaxItems = x  BY <1>1, <2>2, <2>3
    <3> QED  BY <3>1, <2>0, <2>3
  <2>4. CASE ~(x < MaxItems)
    <3>1. MaxItems <= x  BY <2>4, <2>2, <1>1
    <3>2. x % MaxItems = x - MaxItems  BY <1>1, <2>2, <3>1
    <3>3. ~(h + k < MaxItems) /\ Probe(h, k) = h + k - MaxItems
      BY <3>2, <2>0, <2>4, <1>1, <2>1, <2>2
    <3> QED  BY <3>3
  <2> QED  BY <2>3, <2>4
<1>3. \A k \in Loc : Probe(h, k) \in Loc
  BY <1>1, <1>2 DEF Loc
<1>4. ASSUME NEW j \in Loc, NEW k \in Loc, Probe(h, j) = Probe(h, k)
      PROVE  j = k
  BY <1>1, <1>2, <1>4 DEF Loc
<1> QED  BY <1>3, <1>4

LEMMA HashOfName ==
  ASSUME NEW f \in Names
  PROVE  Hash[f] \in Home /\ Hash[f] \in Loc
BY HashMgrAssumption DEF Home, Loc

LEMMA LocIsFinite ==
  /\ IsFiniteSet(Loc) /\ Cardinality(Loc) = MaxItems
  /\ \A S \in SUBSET Loc :
       IsFiniteSet(S) /\ Cardinality(S) \in Nat /\ Cardinality(S) <= MaxItems
  /\ Loc \subseteq Nat /\ Home \subseteq Loc /\ 0 \in Loc
<1>1. MaxItems \in Nat /\ MaxItems > 0
  BY HashMgrAssumption
<1>2. IsFiniteSet(Loc) /\ Cardinality(Loc) = MaxItems
  <2>1. IsFiniteSet(0..MaxItems-1) /\ Cardinality(0..MaxItems-1) = MaxItems
    BY FS_Interval, <1>1
  <2> QED  BY <2>1 DEF Loc
<1>3. \A S \in SUBSET Loc :
       IsFiniteSet(S) /\ Cardinality(S) \in Nat /\ Cardinality(S) <= MaxItems
  BY <1>2, FS_Subset, FS_CardinalityType
<1> QED  BY <1>1, <1>2, <1>3 DEF Loc, Home

\* What a named location holds: an item's own hash and name.
LEMMA NamedLocations ==
  ASSUME TableInv, NEW l \in Named
  PROVE  /\ l \in Home /\ l \in Loc
         /\ name[l] \in Names /\ code[l] = Hash[name[l]]
BY LocIsFinite DEF TableInv, CountsAreRight, Named

\* GetItem finds a name when, and where, it is in the table: its count lets no
\* search stop before it, wherever collisions and holes have put it.
LEMMA SearchFinds ==
  ASSUME TableInv, NEW f \in Names, ~Loops(f)
  PROVE  /\ \A l \in Named : name[l] = f => GetItem(f) = l + 1
         /\ GetItem(f) # NullItem =>
              \E l \in Named : name[l] = f /\ GetItem(f) = l + 1
<1> DEFINE h == Hash[f]
           k == Min(Ends(f))
           p == Probe(h, k)
<1>1. h \in Home /\ h \in Loc
  BY HashOfName
<1>2. count[h] = Cardinality(Hashed(h))
  BY <1>1 DEF TableInv, CountsAreRight
<1>3. Hashed(h) \in SUBSET Loc /\ Loc \subseteq Nat
  BY LocIsFinite DEF Hashed
<1>4. ASSUME count[h] # 0
      PROVE  k \in Ends(f) /\ k \in Loc /\ p \in Loc
  <2>1. Ends(f) # {}  BY <1>4 DEF Loops
  <2>2. Ends(f) \in SUBSET Nat  BY <1>3 DEF Ends
  <2>3. k \in Ends(f)  BY <2>1, <2>2, MinIsMember
  <2>4. k \in Loc  BY <2>3 DEF Ends
  <2> QED  BY <2>3, <2>4, <1>1, ProbeVisits
<1>5. ASSUME count[h] # 0, Hits(f, k)
      PROVE  p \in Named /\ name[p] = f /\ GetItem(f) = p + 1
  <2>1. code[p] = h /\ name[p] = f  BY <1>5 DEF Hits
  <2>2. p # 0
    BY <2>1, <1>1 DEF TableInv, DefaultStays, Home
  <2>3. p \in Named  BY <2>1, <2>2, <1>1, <1>4, <1>5 DEF Named, Home
  <2>4. GetItem(f) = p + 1  BY <1>5 DEF GetItem
  <2> QED  BY <2>1, <2>3, <2>4
<1>6. ASSUME NEW l \in Named, name[l] = f
      PROVE  count[h] # 0 /\ Hits(f, k)
  <2>1. l \in Hashed(h)
    BY <1>6, NamedLocations DEF Hashed
  <2>2. IsFiniteSet(Hashed(h)) /\ Cardinality(Hashed(h)) \in Nat
    BY <1>3, LocIsFinite
  <2>3. count[h] # 0
    BY <2>1, <2>2, <1>2, FS_EmptySet
  <2>4. ASSUME ~Hits(f, k) PROVE FALSE
    <3> DEFINE J == Misses(f, k)
               T == Hashed(h) \ {l}
               g == [j \in J |-> Probe(h, j)]
    <3>1. Cardinality(J) = count[h]  BY <2>3, <2>4, <1>4 DEF Ends
    <3>2. J \subseteq Loc
      <4>1. \A i \in Loc : 0..i \subseteq Loc
        BY HashMgrAssumption DEF Loc
      <4> QED  BY <2>3, <1>4, <4>1 DEF Misses
    <3>3. \A j \in J : Probe(h, j) \in T
      <4> SUFFICES ASSUME NEW j \in J PROVE Probe(h, j) \in T
        OBVIOUS
      <4>1. code[Probe(h, j)] = h /\ name[Probe(h, j)] # f  BY DEF Misses
      <4>2. Probe(h, j) \in Loc  BY <3>2, <1>1, ProbeVisits
      <4> QED  BY <4>1, <4>2, <1>6 DEF Hashed
    <3> HIDE DEF J, T
    <3>4. g \in Injection(J, T)
      <4>1. g \in [J -> T]  BY <3>3
      <4>2. \A a, b \in J : g[a] = g[b] => a = b  BY <3>2, <1>1, ProbeVisits
      <4> QED  BY <4>1, <4>2 DEF Injection, IsInjective
    <3>5. IsFiniteSet(T) /\ Cardinality(T) = Cardinality(Hashed(h)) - 1
      BY <2>1, <2>2, FS_RemoveElement DEF T
    <3>6. Cardinality(J) <= Cardinality(T)
      BY <3>4, <3>5, FS_Injection
    <3> QED  BY <3>1, <3>5, <3>6, <2>2, <1>2
  <2> QED  BY <2>3, <2>4
<1>7. ASSUME NEW l \in Named, name[l] = f
      PROVE  GetItem(f) = l + 1
  <2>1. p \in Named /\ name[p] = f /\ GetItem(f) = p + 1
    BY <1>5, <1>6, <1>7
  <2>2. p = l  BY <2>1, <1>7 DEF TableInv, NamesAreDistinct
  <2> QED  BY <2>1, <2>2
<1>8. ASSUME GetItem(f) # NullItem
      PROVE  \E l \in Named : name[l] = f /\ GetItem(f) = l + 1
  <2>1. count[h] # 0 /\ Hits(f, k)  BY <1>8 DEF GetItem
  <2> QED  BY <2>1, <1>5
<1> QED  BY <1>7, <1>8

\* The invariant speaks of the hashes, counts and names alone.
LEMMA TableKept ==
  ASSUME TableInv, UNCHANGED tableVars, result' \in 0..MaxItems, looped' \in BOOLEAN
  PROVE  TableInv'
BY DEF TableInv, tableVars, CountsAreRight, HashTypeOK, DefaultStays,
       NamesAreDistinct, Named, Hashed

\* Where LoadStores puts an item: at a hole, which is never the default's, and
\* under a name that is not in the table.
LEMMA StoresAtHole ==
  ASSUME TableInv, NEW f \in Names, NEW new, LoadStores(f, new)
  PROVE  /\ \A l \in Named : name[l] # f
         /\ \E loc \in Home :
              /\ code[loc] = Empty
              /\ count' = [count EXCEPT ![Hash[f]] = @ + 1]
              /\ code' = [code EXCEPT ![loc] = Hash[f]]
              /\ name' = [name EXCEPT ![loc] = f]
              /\ item' = [item EXCEPT ![loc] = new]
              /\ result' = loc + 1
              /\ Named' = Named \cup {loc} /\ Used' = Used \cup {loc}
              /\ name'[loc] = f /\ code'[loc] = Hash[f]
              /\ \A l \in Named :
                   l # loc /\ name'[l] = name[l] /\ code'[l] = code[l]
<1>1. ASSUME NEW l \in Named PROVE name[l] # f
  <2>1. l + 1 # NullItem
    BY NamedLocations, HashMgrAssumption DEF NullItem, Loc
  <2>2. ~Loops(f) /\ GetItem(f) = NullItem
    BY DEF LoadStores, CallsDoLoad
  <2> QED  BY <2>1, <2>2, SearchFinds
<1> DEFINE loc == Probe(Hash[f], Min(EmptyProbes(f)))
<1>2. loc \in Loc /\ code[loc] = Empty
  <2>1. EmptyProbes(f) \in SUBSET Nat /\ EmptyProbes(f) # {}
    BY LocIsFinite DEF EmptyProbes, LoadStores, CallsDoLoad
  <2>2. Min(EmptyProbes(f)) \in EmptyProbes(f)
    BY <2>1, MinIsMember
  <2> QED  BY <2>2, HashOfName, ProbeVisits DEF EmptyProbes
<1>3. loc \in Home
  BY <1>2 DEF TableInv, DefaultStays, Empty, Home
<1>4. /\ count' = [count EXCEPT ![Hash[f]] = @ + 1]
      /\ code' = [code EXCEPT ![loc] = Hash[f]]
      /\ name' = [name EXCEPT ![loc] = f]
      /\ item' = [item EXCEPT ![loc] = new]
      /\ result' = loc + 1
  BY DEF LoadStores
<1> HIDE DEF loc
<1>5. /\ code \in [Loc -> Loc \cup {Empty, Memory}]
      /\ name \in [Loc -> Names \cup {NoName}]
      /\ Hash[f] \in Home /\ Empty \notin Home
  BY HashOfName, HashMgrAssumption
     DEF TableInv, CountsAreRight, HashTypeOK, Empty, Home, Loc
<1>6. Named' = Named \cup {loc} /\ Used' = Used \cup {loc}
  BY <1>3, <1>4, <1>5 DEF Named, Used, Home
<1>7. name'[loc] = f /\ code'[loc] = Hash[f]
  BY <1>2, <1>4, <1>5
<1>8. \A l \in Named : l # loc /\ name'[l] = name[l] /\ code'[l] = code[l]
  BY <1>2, <1>4, <1>5 DEF Named, Home
<1> QED  BY <1>1, <1>2, <1>3, <1>4, <1>6, <1>7, <1>8

\* A stored item is counted under its hash, and its name is new.
LEMMA TableAfterLoad ==
  ASSUME TableInv, NEW f \in Names, NEW new \in Items, LoadStores(f, new)
  PROVE  TableInv'
<1> DEFINE h == Hash[f]
<1>1. PICK loc \in Home :
        /\ code[loc] = Empty
        /\ count' = [count EXCEPT ![h] = @ + 1]
        /\ code' = [code EXCEPT ![loc] = h]
        /\ name' = [name EXCEPT ![loc] = f]
        /\ item' = [item EXCEPT ![loc] = new]
        /\ result' = loc + 1
        /\ Named' = Named \cup {loc}
        /\ name'[loc] = f /\ code'[loc] = h
        /\ \A l \in Named : name'[l] = name[l] /\ code'[l] = code[l]
  BY StoresAtHole
<1>2. \A l \in Named : name[l] # f
  BY StoresAtHole
<1>3. looped' = looped
  BY DEF LoadStores
<1>4. h \in Home /\ h \in Loc /\ h # 0 /\ loc \in Loc /\ loc # 0 /\ h # Empty
  BY HashOfName, LocIsFinite, HashMgrAssumption DEF Home, Empty, Loc
<1>5. /\ code \in [Loc -> Loc \cup {Empty, Memory}]
      /\ count \in [Loc -> 0..MaxItems]
      /\ name \in [Loc -> Names \cup {NoName}]
      /\ item \in [Loc -> Items \cup {Null}]
      /\ looped \in BOOLEAN
  BY DEF TableInv, CountsAreRight, HashTypeOK
<1>6. /\ \A q \in Home : count[q] = Cardinality(Hashed(q))
      /\ \A q \in Loc : Hashed(q) \in SUBSET Loc
  BY DEF TableInv, CountsAreRight, Hashed
<1>7. /\ Hashed(h)' = Hashed(h) \cup {loc}
      /\ \A q \in Home : q # h => Hashed(q)' = Hashed(q)
  <2>1. ASSUME NEW q \in Home
        PROVE  Hashed(q)' = IF q = h THEN Hashed(q) \cup {loc} ELSE Hashed(q)
    <3>1. code[loc] # q  BY <1>1, HashMgrAssumption DEF Empty, Home, Loc
    <3> QED  BY <3>1, <1>1, <1>4, <1>5 DEF Hashed
  <2> QED  BY <2>1, <1>4
<1>8. /\ Cardinality(Hashed(h)') = Cardinality(Hashed(h)) + 1
      /\ Cardinality(Hashed(h)') \in 0..MaxItems
  <2>1. loc \notin Hashed(h)  BY <1>1, <1>4 DEF Hashed
  <2>2. IsFiniteSet(Hashed(h))  BY <1>4, <1>6, LocIsFinite
  <2>3. Cardinality(Hashed(h) \cup {loc}) = Cardinality(Hashed(h)) + 1
    BY <2>1, <2>2, FS_AddElement
  <2>4. Hashed(h) \cup {loc} \in SUBSET Loc  BY <1>4, <1>6
  <2>5. /\ Cardinality(Hashed(h) \cup {loc}) \in Nat
        /\ Cardinality(Hashed(h) \cup {loc}) <= MaxItems
    BY <2>4, LocIsFinite
  <2> QED  BY <2>3, <2>5, <1>7, HashMgrAssumption
<1>9. ASSUME NEW q \in Home PROVE count'[q] = Cardinality(Hashed(q)')
  BY <1>1, <1>4, <1>5, <1>6, <1>7, <1>8, ZenonT(60) DEF Home
<1>10. HashTypeOK' /\ result' \in 0..MaxItems
  <2>1. count[h] + 1 \in 0..MaxItems
    BY <1>4, <1>6, <1>8
  <2>2. count' \in [Loc -> 0..MaxItems]  BY <2>1, <1>1, <1>4, <1>5
  <2>3. loc + 1 \in 0..MaxItems
    BY <1>4, HashMgrAssumption DEF Loc
  <2> QED  BY <2>2, <2>3, <1>1, <1>3, <1>4, <1>5 DEF HashTypeOK
<1>11. \A l \in Named' : name'[l] \in Names /\ code'[l] = Hash[name'[l]]
  BY <1>1, NamedLocations
<1>12. NamesAreDistinct'
  BY <1>1, <1>2 DEF TableInv, NamesAreDistinct
<1>13. DefaultStays'
  BY <1>1, <1>4, <1>5 DEF TableInv, DefaultStays, Home
<1>14. CountsAreRight'
  BY <1>9, <1>10, <1>11 DEF CountsAreRight
<1> QED  BY <1>11, <1>12, <1>13, <1>14 DEF TableInv

\* An emptied location was counted under its item's hash, unless it had none.
LEMMA TableAfterUnload ==
  ASSUME TableInv, NEW l, UnloadItem(l)
  PROVE  /\ TableInv'
         /\ l \in Home /\ code[l] # Empty
         /\ code' = [code EXCEPT ![l] = Empty]
         /\ name' = [name EXCEPT ![l] = NoName]
         /\ item' = [item EXCEPT ![l] = Null]
         /\ Used' = Used \ {l} /\ Named' = Named \ {l}
<1> DEFINE h == code[l]
<1>1. /\ l \in Home /\ l \in Loc /\ l # 0 /\ h # Empty
      /\ count' = IF h = Memory THEN count ELSE [count EXCEPT ![h] = @ - 1]
      /\ code' = [code EXCEPT ![l] = Empty]
      /\ name' = [name EXCEPT ![l] = NoName]
      /\ item' = [item EXCEPT ![l] = Null]
      /\ result' = NullItem /\ looped' = looped
  BY DEF UnloadItem, Drop, Home
<1>2. /\ code \in [Loc -> Loc \cup {Empty, Memory}]
      /\ count \in [Loc -> 0..MaxItems]
      /\ name \in [Loc -> Names \cup {NoName}]
      /\ item \in [Loc -> Items \cup {Null}]
      /\ looped \in BOOLEAN
  BY DEF TableInv, CountsAreRight, HashTypeOK
<1>3. Empty \notin Loc /\ Memory \notin Loc /\ Empty # Memory
  BY HashMgrAssumption DEF Empty, Memory, Loc
<1>4. h = Memory \/ h \in Home
  BY <1>1, <1>2 DEF TableInv, DefaultStays, Home
<1>5. /\ \A q \in Home : count[q] = Cardinality(Hashed(q))
      /\ \A q \in Loc : Hashed(q) \in SUBSET Loc
  BY DEF TableInv, CountsAreRight, Hashed
<1>6. \A q \in Home : Hashed(q)' = Hashed(q) \ {l}
  BY <1>1, <1>2, <1>3 DEF Hashed, Home
<1>7. \A q \in Home : l \in Hashed(q) <=> q = h
  BY <1>1 DEF Hashed
<1>8. ASSUME NEW q \in Home
      PROVE  /\ count'[q] = Cardinality(Hashed(q)')
             /\ count'[q] \in 0..MaxItems
  <2>1. IsFiniteSet(Hashed(q))  BY <1>5, LocIsFinite DEF Home
  <2>2. Cardinality(Hashed(q) \ {l}) =
          IF q = h THEN Cardinality(Hashed(q)) - 1 ELSE Cardinality(Hashed(q))
    BY <2>1, <1>7, FS_RemoveElement
  <2>3. count'[q] = IF q = h THEN count[q] - 1 ELSE count[q]
    BY <1>1, <1>2, <1>3, <1>4 DEF Home
  <2>4. count'[q] = Cardinality(Hashed(q) \ {l})
    BY <2>2, <2>3, <1>5
  <2>5. Hashed(q) \ {l} \in SUBSET Loc  BY <1>5 DEF Home
  <2>6. /\ Cardinality(Hashed(q) \ {l}) \in Nat
        /\ Cardinality(Hashed(q) \ {l}) <= MaxItems
    BY <2>5, LocIsFinite
  <2> QED  BY <2>4, <2>6, <1>6, HashMgrAssumption
<1>9. count' \in [Loc -> 0..MaxItems]
  <2>1. \A q \in Loc : q \in Home \/ count'[q] = count[q]
    BY <1>1, <1>2, <1>4
  <2>2. count' = [q \in Loc |-> count'[q]]  BY <1>1, <1>2
  <2>3. \A q \in Loc : count'[q] \in 0..MaxItems  BY <2>1, <1>2, <1>8
  <2> QED  BY <2>2, <2>3
<1>10. HashTypeOK'
  <2>1. NullItem \in 0..MaxItems  BY HashMgrAssumption DEF NullItem
  <2> QED  BY <2>1, <1>1, <1>2, <1>9 DEF HashTypeOK
<1>11. Named' = Named \ {l} /\ Used' = Used \ {l}
  BY <1>1, <1>2, <1>3 DEF Named, Used, Home
<1>12. \A m \in Named' : /\ m \in Named /\ m \in Loc /\ m # l
                         /\ name'[m] = name[m] /\ code'[m] = code[m]
  BY <1>1, <1>2, <1>11 DEF Named, Home
<1>13. \A m \in Named' : name'[m] \in Names /\ code'[m] = Hash[name'[m]]
  BY <1>12, NamedLocations
<1>14. NamesAreDistinct'
  BY <1>12 DEF TableInv, NamesAreDistinct
<1>15. DefaultStays'
  BY <1>1, <1>2, <1>3 DEF TableInv, DefaultStays, Home, Empty
<1>16. CountsAreRight'
  BY <1>8, <1>10, <1>13 DEF CountsAreRight
<1> QED  BY <1>1, <1>11, <1>13, <1>14, <1>15, <1>16 DEF TableInv

\* UnloadItems leaves the default item, every other location empty, and every
\* count but the default's zero.
LEMMA TableAfterUnloadItems ==
  ASSUME TableInv, DropAll
  PROVE  /\ TableInv'
         /\ Used' = {} /\ Named' = {}
         /\ \A l \in Home : code'[l] = Empty
<1>1. /\ code' = [l \in Loc |-> IF l = 0 THEN code[0] ELSE Empty]
      /\ count' = [q \in Loc |-> count[q] - Cardinality(Hashed(q) \cap Home)]
      /\ name' = [l \in Loc |-> IF l \in Home /\ code[l] # Empty THEN NoName ELSE name[l]]
      /\ item' = [l \in Loc |-> IF l \in Home /\ code[l] # Empty THEN Null ELSE item[l]]
      /\ result' = NullItem /\ looped' = looped
  BY DEF DropAll
<1>2. /\ code \in [Loc -> Loc \cup {Empty, Memory}]
      /\ count \in [Loc -> 0..MaxItems]
      /\ name \in [Loc -> Names \cup {NoName}]
      /\ item \in [Loc -> Items \cup {Null}]
      /\ looped \in BOOLEAN
      /\ code[0] = 0 /\ \A l \in Home : code[l] # 0
      /\ \A q \in Home : count[q] = Cardinality(Hashed(q))
  BY DEF TableInv, CountsAreRight, HashTypeOK, DefaultStays
<1>3. Empty \notin Loc /\ 0 \in Loc /\ Home = Loc \ {0} /\ Empty # 0 /\ 0 \notin Home
  BY HashMgrAssumption DEF Empty, Loc, Home
<1>4. \A l \in Home : code'[l] = Empty
  BY <1>1, <1>3
<1>5. ASSUME NEW q \in Loc
      PROVE  count'[q] = IF q = 0 THEN count[q] ELSE 0
  <2>1. CASE q = 0
    <3>1. Hashed(q) \cap Home = {}  BY <2>1, <1>2 DEF Hashed
    <3>2. Cardinality({}) = 0  BY FS_EmptySet
    <3>3. count[q] - 0 = count[q]  BY <1>2, HashMgrAssumption
    <3> QED  BY <3>1, <3>2, <3>3, <2>1, <1>1
  <2>2. CASE q # 0
    <3>1. Hashed(q) \cap Home = Hashed(q)  BY <2>2, <1>2, <1>3 DEF Hashed
    <3>2. count'[q] = count[q] - count[q]  BY <3>1, <2>2, <1>1, <1>2, <1>3
    <3> QED  BY <3>2, <2>2, <1>2, HashMgrAssumption
  <2> QED  BY <2>1, <2>2
<1>6. ASSUME NEW q \in Home PROVE count'[q] = Cardinality(Hashed(q)')
  <2>1. Hashed(q)' = {}
    BY <1>1, <1>2, <1>3 DEF Hashed
  <2> QED  BY <2>1, <1>3, <1>5, FS_EmptySet
<1>7. HashTypeOK'
  <2>1. NullItem \in 0..MaxItems /\ 0 \in 0..MaxItems
    BY HashMgrAssumption DEF NullItem
  <2>2. \A q \in Loc : count'[q] \in 0..MaxItems  BY <2>1, <1>2, <1>5
  <2>3. count' = [q \in Loc |-> count'[q]]  BY <1>1
  <2>4. count' \in [Loc -> 0..MaxItems]  BY <2>2, <2>3
  <2>5. code' \in [Loc -> Loc \cup {Empty, Memory}]  BY <1>1, <1>2, <1>3
  <2>6. /\ name' \in [Loc -> Names \cup {NoName}]
        /\ item' \in [Loc -> Items \cup {Null}]
    BY <1>1, <1>2
  <2> QED  BY <2>1, <2>4, <2>5, <2>6, <1>1, <1>2 DEF HashTypeOK
<1>8. Used' = {} /\ Named' = {}
  BY <1>3, <1>4 DEF Used, Named
<1>9. CountsAreRight'
  BY <1>6, <1>7, <1>8 DEF CountsAreRight
<1>10. DefaultStays'
  BY <1>1, <1>2, <1>3 DEF DefaultStays
<1>11. NamesAreDistinct' /\ \A l \in Named' : name'[l] \in Names
  BY <1>8 DEF NamesAreDistinct
<1> QED  BY <1>4, <1>8, <1>9, <1>10, <1>11 DEF TableInv

\* The table at the start: nothing but the default item.
LEMMA TableAtStart ==
  ASSUME HashInit
  PROVE  TableInv /\ Used = {} /\ Named = {}
<1>1. /\ code = [l \in Loc |-> IF l = 0 THEN 0 ELSE Empty]
      /\ count = [l \in Loc |-> IF l = 0 THEN 1 ELSE 0]
      /\ name = [l \in Loc |-> NoName]
      /\ item = [l \in Loc |-> Null]
      /\ result = 0 /\ looped = FALSE
  BY DEF HashInit, NullItem
<1>2. /\ Empty \notin Loc /\ 0 \in Loc /\ Home = Loc \ {0} /\ Empty # 0
      /\ {0, 1} \subseteq 0..MaxItems
  BY HashMgrAssumption DEF Empty, Loc, Home
<1>3. HashTypeOK
  BY <1>1, <1>2 DEF HashTypeOK
<1>4. Used = {} /\ Named = {}
  BY <1>1, <1>2 DEF Used, Named
<1>5. ASSUME NEW q \in Home PROVE count[q] = Cardinality(Hashed(q))
  <2>1. Hashed(q) = {}  BY <1>1, <1>2 DEF Hashed
  <2> QED  BY <2>1, <1>1, <1>2, FS_EmptySet
<1>6. DefaultStays
  BY <1>1, <1>2 DEF DefaultStays
<1> QED  BY <1>3, <1>4, <1>5, <1>6 DEF TableInv, CountsAreRight, NamesAreDistinct

\* The kinds of Load that store nothing.
LEMMA TableAfterSearch ==
  ASSUME TableInv, NEW f \in Names,
         LoadThrows(f) \/ LoadObtains(f) \/ LoadHasNoRoom(f) \/ LoadFails(f)
  PROVE  TableInv' /\ UNCHANGED tableVars
<1>1. /\ UNCHANGED tableVars
      /\ result \in 0..MaxItems /\ looped \in BOOLEAN
      /\ DefaultItem \in 0..MaxItems
  BY HashMgrAssumption DEF LoadThrows, LoadObtains, LoadHasNoRoom, LoadFails,
       TableInv, CountsAreRight, HashTypeOK, DefaultItem
<1>2. CASE LoadObtains(f)
  <2>1. PICK l \in Named : GetItem(f) = l + 1
    BY <1>2, SearchFinds DEF LoadObtains
  <2>2. l + 1 \in 0..MaxItems
    BY NamedLocations, HashMgrAssumption DEF Loc
  <2> QED  BY <2>1, <2>2, <1>1, <1>2, TableKept DEF LoadObtains
<1>3. CASE LoadThrows(f) \/ LoadHasNoRoom(f) \/ LoadFails(f)
  BY <1>1, <1>3, TableKept DEF LoadThrows, LoadHasNoRoom, LoadFails
<1> QED  BY <1>1, <1>2, <1>3

-----------------------------------------------------------------------------
(* The table as a cache.                                                   *)

\* The reference a name is obtained by, when no two locations have one name.
LEMMA ChosenRef ==
  ASSUME NEW N, NEW n, \A l, m \in N : n[l] = n[m] => l = m, NEW f
  PROVE  LET r == IF \E l \in N : n[l] = f THEN 1 + CHOOSE l \in N : n[l] = f
                  ELSE NullItem
         IN  /\ \A l \in N : n[l] = f => r = 1 + l
             /\ (\A l \in N : n[l] # f) => r = NullItem
<1>1. ASSUME NEW l \in N, n[l] = f PROVE (CHOOSE m \in N : n[m] = f) = l
  BY <1>1
<1> QED  BY <1>1

\* The references of the names, before and after a step.
LEMMA RefsOfNames ==
  ASSUME TableInv, TableInv', NEW f \in Names
  PROVE  /\ \A l \in Named : name[l] = f => LoadedRefs[f] = 1 + l
         /\ (\A l \in Named : name[l] # f) => LoadedRefs[f] = NullItem
         /\ \A l \in Named' : name'[l] = f => LoadedRefs'[f] = 1 + l
         /\ (\A l \in Named' : name'[l] # f) => LoadedRefs'[f] = NullItem
<1>1. /\ \A l, m \in Named : name[l] = name[m] => l = m
      /\ \A l, m \in Named' : name'[l] = name'[m] => l = m
  BY DEF TableInv, NamesAreDistinct
<1>2. /\ \A l \in Named : name[l] = f => LoadedRefs[f] = 1 + l
      /\ (\A l \in Named : name[l] # f) => LoadedRefs[f] = NullItem
  BY <1>1, ChosenRef DEF LoadedRefs
<1>3. /\ \A l \in Named' : name'[l] = f => LoadedRefs'[f] = 1 + l
      /\ (\A l \in Named' : name'[l] # f) => LoadedRefs'[f] = NullItem
  BY <1>1, ChosenRef DEF LoadedRefs
<1> QED  BY <1>2, <1>3

\* The references in use are those of the locations in use.
LEMMA RefsInUse ==
  ASSUME TableInv
  PROVE  Cache!InUse = {l + 1 : l \in Used}
<1>1. /\ \A l, m \in Named : name[l] = name[m] => l = m
      /\ \A l \in Named : name[l] \in Names /\ 1 + l = l + 1 /\ l + 1 # 0
  BY NamedLocations, HashMgrAssumption DEF TableInv, NamesAreDistinct, Loc
<1>2. \A f \in Names :
        /\ \A l \in Named : name[l] = f => LoadedRefs[f] = l + 1
        /\ (\A l \in Named : name[l] # f) => LoadedRefs[f] = 0
  BY <1>1, ChosenRef DEF LoadedRefs, NullItem
<1> DEFINE L == {LoadedRefs[f] : f \in {g \in Names : LoadedRefs[g] # 0}}
           N == {l + 1 : l \in Named}
<1>3. L \subseteq N
  <2> SUFFICES ASSUME NEW f \in Names, LoadedRefs[f] # 0 PROVE LoadedRefs[f] \in N
    OBVIOUS
  <2>1. PICK l \in Named : name[l] = f  BY <1>2
  <2> QED  BY <2>1, <1>2
<1>4. N \subseteq L
  <2> SUFFICES ASSUME NEW l \in Named PROVE l + 1 \in L
    OBVIOUS
  <2>1. name[l] \in Names /\ LoadedRefs[name[l]] = l + 1 /\ l + 1 # 0
    BY <1>1, <1>2
  <2> QED  BY <2>1
<1>5. Used = Named \cup {m \in Home : code[m] = Memory}
  <2>1. /\ \A l \in Home : code[l] \in Home \cup {Empty, Memory}
        /\ Empty \notin Home /\ Empty # Memory
    BY HashMgrAssumption DEF TableInv, CountsAreRight, HashTypeOK, DefaultStays,
         Home, Empty, Memory, Loc
  <2> QED  BY <2>1 DEF Used, Named
<1>6. Cache!InUse = MemoryRefs \cup L
  BY DEF Cache!InUse, Cache!NullItem
<1> HIDE DEF L
<1> QED  BY <1>3, <1>4, <1>5, <1>6 DEF MemoryRefs

\* A call that changes nothing but the result.
LEMMA CacheKept ==
  ASSUME UNCHANGED tableVars
  PROVE  LoadedRefs' = LoadedRefs /\ MemoryRefs' = MemoryRefs
BY DEF tableVars, LoadedRefs, MemoryRefs, Named

\* Load obtains what is loaded, or the default item, or the program ends.
LEMMA SearchIsOfCache ==
  ASSUME TableInv, NEW f \in Names,
         LoadThrows(f) \/ LoadObtains(f) \/ LoadHasNoRoom(f) \/ LoadFails(f)
  PROVE  [Cache!Next]_(Cache!vars)
<1>1. LoadedRefs' = LoadedRefs /\ MemoryRefs' = MemoryRefs
  BY TableAfterSearch, CacheKept
<1>2. CASE LoadThrows(f)
  BY <1>1, <1>2 DEF LoadThrows, Cache!vars
<1>3. CASE LoadObtains(f)
  <2>1. PICK l \in Named : name[l] = f /\ GetItem(f) = l + 1
    BY <1>3, SearchFinds DEF LoadObtains
  <2>2. LoadedRefs[f] = 1 + l
    BY <2>1, RefsOfNames, <1>3, TableAfterSearch
  <2>3. 1 + l = l + 1 /\ l + 1 # 0
    BY NamedLocations, HashMgrAssumption DEF Loc
  <2>4. Cache!Obtain(f)
    BY <2>1, <2>2, <2>3, <1>1, <1>3 DEF LoadObtains, Cache!Obtain, Cache!NullItem
  <2> QED  BY <2>4 DEF Cache!Next
<1>4. CASE LoadHasNoRoom(f) \/ LoadFails(f)
  <2>1. Cache!ObtainDefault
    BY <1>1, <1>4 DEF LoadHasNoRoom, LoadFails, Cache!ObtainDefault,
         DefaultItem, Cache!DefaultItem
  <2> QED  BY <2>1 DEF Cache!Next
<1> QED  BY <1>2, <1>3, <1>4

\* Load gives a name that was not loaded a reference that was not in use.
LEMMA StoreIsOfCache ==
  ASSUME TableInv, NEW f \in Names, NEW new \in Items, LoadStores(f, new)
  PROVE  Cache!Next
<1>1. PICK loc \in Home :
        /\ code[loc] = Empty
        /\ code' = [code EXCEPT ![loc] = Hash[f]]
        /\ result' = loc + 1
        /\ Named' = Named \cup {loc}
        /\ name'[loc] = f
        /\ \A l \in Named : l # loc /\ name'[l] = name[l]
  BY StoresAtHole
<1>2. (\A l \in Named : name[l] # f) /\ TableInv'
  BY StoresAtHole, TableAfterLoad
<1>3. loc + 1 \in (2..MaxItems) \ Cache!InUse
  <2>1. loc + 1 \in 2..MaxItems  BY HashMgrAssumption DEF Home, Loc
  <2>2. ASSUME NEW l \in Used PROVE l + 1 # loc + 1
    <3>1. l # loc  BY <1>1, <2>2 DEF Used
    <3> QED  BY <3>1, HashMgrAssumption DEF Used, Home, Loc
  <2> QED  BY <2>1, <2>2, RefsInUse
<1>4. LoadedRefs[f] = NullItem
  BY <1>2, RefsOfNames
<1>5. LoadedRefs' = [LoadedRefs EXCEPT ![f] = loc + 1]
  <2>1. ASSUME NEW g \in Names
        PROVE  LoadedRefs'[g] = IF g = f THEN loc + 1 ELSE LoadedRefs[g]
    <3>1. CASE g = f
      <4>1. LoadedRefs'[g] = 1 + loc  BY <3>1, <1>1, <1>2, RefsOfNames
      <4>2. 1 + loc = loc + 1  BY HashMgrAssumption DEF Home, Loc
      <4> QED  BY <4>1, <4>2, <3>1
    <3>2. CASE g # f /\ \E l \in Named : name[l] = g
      <4>1. PICK l \in Named : name[l] = g  BY <3>2
      <4>2. l \in Named' /\ name'[l] = g  BY <4>1, <1>1
      <4> QED  BY <4>1, <4>2, <3>2, <1>2, RefsOfNames
    <3>3. CASE g # f /\ \A l \in Named : name[l] # g
      <4>1. \A l \in Named' : name'[l] # g  BY <3>3, <1>1
      <4> QED  BY <4>1, <3>3, <1>2, RefsOfNames
    <3> QED  BY <3>1, <3>2, <3>3
  <2>2. /\ LoadedRefs = [g \in Names |-> LoadedRefs[g]]
        /\ LoadedRefs' = [g \in Names |-> LoadedRefs'[g]]
    BY DEF LoadedRefs
  <2> QED  BY <2>1, <2>2
<1>6. MemoryRefs' = MemoryRefs
  <2>1. Hash[f] # Memory /\ Empty # Memory
    BY HashMgrAssumption DEF Memory, Empty
  <2>2. code \in [Loc -> Loc \cup {Empty, Memory}]
    BY DEF TableInv, CountsAreRight, HashTypeOK
  <2> QED  BY <2>1, <2>2, <1>1 DEF MemoryRefs, Home
<1>7. Cache!Load(f, loc + 1)
  BY <1>1, <1>4, <1>5, <1>6 DEF Cache!Load, NullItem, Cache!NullItem
<1> QED  BY <1>3, <1>7 DEF Cache!Next

\* Unload takes one reference out of use.
LEMMA UnloadIsOfCache ==
  ASSUME TableInv, NEW l, UnloadItem(l)
  PROVE  Cache!Next
<1>1. /\ TableInv'
      /\ l \in Home /\ code[l] # Empty
      /\ code' = [code EXCEPT ![l] = Empty]
      /\ name' = [name EXCEPT ![l] = NoName]
      /\ Named' = Named \ {l}
      /\ result' = NullItem
  BY TableAfterUnload DEF UnloadItem
<1>2. l + 1 \in Cache!InUse
  BY <1>1, RefsInUse DEF Used
<1>3. /\ code \in [Loc -> Loc \cup {Empty, Memory}]
      /\ name \in [Loc -> Names \cup {NoName}]
      /\ \A m \in Home : m \in Loc /\ (m + 1 = l + 1 <=> m = l) /\ 1 + m = m + 1
                         /\ m + 1 # 0
  BY <1>1, HashMgrAssumption
     DEF TableInv, CountsAreRight, HashTypeOK, Home, Loc
<1>4. \A m \in Named' : m \in Named /\ m # l /\ name'[m] = name[m]
  BY <1>1, <1>3 DEF Named
<1>5. LoadedRefs' =
        [f \in Names |-> IF LoadedRefs[f] = l + 1 THEN 0 ELSE LoadedRefs[f]]
  <2>1. ASSUME NEW f \in Names
        PROVE  LoadedRefs'[f] = IF LoadedRefs[f] = l + 1 THEN 0 ELSE LoadedRefs[f]
    <3>1. CASE \A m \in Named : name[m] # f
      <4>1. LoadedRefs[f] = 0 /\ LoadedRefs'[f] = 0
        BY <3>1, <1>1, <1>4, RefsOfNames DEF NullItem
      <4> QED  BY <4>1
    <3>2. ASSUME NEW m \in Named, name[m] = f
          PROVE  LoadedRefs'[f] = IF LoadedRefs[f] = l + 1 THEN 0 ELSE LoadedRefs[f]
      <4>1. LoadedRefs[f] = m + 1 /\ m \in Home
        BY <3>2, <1>1, <1>3, RefsOfNames, NamedLocations
      <4>2. CASE m = l
        <5>1. \A n \in Named' : name'[n] # f
          BY <4>2, <3>2, <1>4 DEF TableInv, NamesAreDistinct
        <5>2. LoadedRefs'[f] = 0  BY <5>1, <1>1, RefsOfNames DEF NullItem
        <5> QED  BY <5>2, <4>1, <4>2
      <4>3. CASE m # l
        <5>1. m \in Named' /\ name'[m] = f  BY <4>3, <3>2, <1>1, <1>4
        <5>2. LoadedRefs'[f] = 1 + m  BY <5>1, <1>1, RefsOfNames
        <5> QED  BY <5>2, <4>1, <4>3, <1>3
      <4> QED  BY <4>2, <4>3
    <3> QED  BY <3>1, <3>2
  <2>2. LoadedRefs' = [f \in Names |-> LoadedRefs'[f]]
    BY DEF LoadedRefs
  <2> QED  BY <2>1, <2>2
<1>6. MemoryRefs' = MemoryRefs \ {l + 1}
  <2>1. Empty # Memory  BY DEF Memory, Empty
  <2>2. {m \in Home : code'[m] = Memory} = {m \in Home : code[m] = Memory} \ {l}
    BY <2>1, <1>1, <1>3
  <2> QED  BY <2>2, <1>1, <1>3 DEF MemoryRefs
<1>7. Cache!Unload(l + 1)
  BY <1>1, <1>5, <1>6 DEF Cache!Unload, NullItem, Cache!NullItem
<1> QED  BY <1>2, <1>7 DEF Cache!Next

\* UnloadItems takes every reference out of use.
LEMMA UnloadItemsIsOfCache ==
  ASSUME TableInv, DropAll
  PROVE  Cache!Next
<1>1. /\ TableInv' /\ Named' = {} /\ \A l \in Home : code'[l] = Empty
      /\ result' = NullItem
  BY TableAfterUnloadItems DEF DropAll
<1>2. LoadedRefs' = [f \in Names |-> 0]
  <2>1. \A f \in Names : LoadedRefs'[f] = 0
    BY <1>1, RefsOfNames DEF NullItem
  <2>2. LoadedRefs' = [f \in Names |-> LoadedRefs'[f]]
    BY DEF LoadedRefs
  <2> QED  BY <2>1, <2>2
<1>3. MemoryRefs' = {}
  BY <1>1 DEF MemoryRefs, Empty, Memory
<1>4. Cache!UnloadItems
  BY <1>1, <1>2, <1>3 DEF Cache!UnloadItems, NullItem, Cache!NullItem
<1> QED  BY <1>4 DEF Cache!Next

\* The cache at the start.
LEMMA CacheAtStart ==
  ASSUME HashInit
  PROVE  Cache!Init
<1>1. /\ Named = {} /\ \A l \in Home : code[l] = Empty
      /\ result = NullItem
  BY TableAtStart DEF HashInit, Home
<1>2. LoadedRefs = [f \in Names |-> 0]
  BY <1>1 DEF LoadedRefs, NullItem
<1>3. MemoryRefs = {}
  BY <1>1 DEF MemoryRefs, Empty, Memory
<1> QED  BY <1>1, <1>2, <1>3 DEF Cache!Init, NullItem, Cache!NullItem

-----------------------------------------------------------------------------
(* The textures.                                                           *)

TextureInv ==
  /\ TableInv
  /\ HeldAreAlive
  /\ alive \subseteq Items

\* LoadTextureMem takes a hole for a new texture, or stores nothing.
LEMMA StoresMemory ==
  ASSUME TextureInv, LoadTextureMem
  PROVE  /\ Created \in Items /\ Created \notin alive
         /\ alive' = alive \cup {Created}
         /\ \/ \E loc \in Home :
                 /\ code[loc] = Empty
                 /\ code' = [code EXCEPT ![loc] = Memory]
                 /\ item' = [item EXCEPT ![loc] = Created]
                 /\ name' = [name EXCEPT ![loc] = NoName]
                 /\ result' = loc + 1
            \/ result' = DefaultItem /\ UNCHANGED tableVars
<1> DEFINE holes == {l \in Home : code[l] = Empty}
<1>1. Created \in Items /\ Created \notin alive
  BY DEF LoadTextureMem, Created
<1>2. holes # {} => Min(holes) \in holes
  <2>1. holes \in SUBSET Nat  BY LocIsFinite
  <2> HIDE DEF holes
  <2> QED  BY <2>1, MinIsMember
<1> QED  BY <1>1, <1>2 DEF LoadTextureMem, tableVars

\* An item without a name is not counted.
LEMMA TableAfterLoadMemory ==
  ASSUME TextureInv, LoadTextureMem
  PROVE  TableInv'
<1>1. /\ code \in [Loc -> Loc \cup {Empty, Memory}]
      /\ count \in [Loc -> 0..MaxItems]
      /\ name \in [Loc -> Names \cup {NoName}]
      /\ item \in [Loc -> Items \cup {Null}]
      /\ result \in 0..MaxItems
      /\ looped \in BOOLEAN
      /\ count' = count /\ looped' = looped /\ Created \in Items
      /\ TableInv
  BY StoresMemory
     DEF TextureInv, TableInv, CountsAreRight, HashTypeOK, LoadTextureMem
<1>2. Empty \notin Loc /\ Memory \notin Loc /\ Memory # 0 /\ Home = Loc \ {0}
  BY HashMgrAssumption DEF Empty, Memory, Loc, Home
<1>3. CASE result' = DefaultItem /\ UNCHANGED tableVars
  <2>1. DefaultItem \in 0..MaxItems  BY HashMgrAssumption DEF DefaultItem
  <2> QED  BY <2>1, <1>1, <1>3, TableKept
<1>4. ASSUME NEW loc \in Home,
             code[loc] = Empty,
             code' = [code EXCEPT ![loc] = Memory],
             item' = [item EXCEPT ![loc] = Created],
             name' = [name EXCEPT ![loc] = NoName],
             result' = loc + 1
      PROVE  TableInv'
  <2>1. HashTypeOK'
    <3>1. loc + 1 \in 0..MaxItems  BY HashMgrAssumption DEF Home, Loc
    <3> QED  BY <3>1, <1>1, <1>2, <1>4 DEF HashTypeOK
  <2>2. Named' = Named /\ \A l \in Named : l # loc /\ l \in Loc
    BY <1>1, <1>2, <1>4 DEF Named
  <2>3. \A q \in Home : Hashed(q)' = Hashed(q)
    BY <1>1, <1>2, <1>4 DEF Hashed
  <2>4. \A l \in Named : name'[l] = name[l] /\ code'[l] = code[l]
    BY <2>2, <1>1, <1>4
  <2>5. CountsAreRight'
    BY <2>1, <2>2, <2>3, <2>4, <1>1 DEF TableInv, CountsAreRight
  <2>6. NamesAreDistinct' /\ \A l \in Named' : name'[l] \in Names
    BY <2>2, <2>4, <1>1 DEF TableInv, NamesAreDistinct
  <2>7. DefaultStays'
    BY <1>1, <1>2, <1>4 DEF TableInv, DefaultStays
  <2> QED  BY <2>5, <2>6, <2>7 DEF TableInv
<1> QED  BY <1>3, <1>4, StoresMemory

\* A new texture is stored at a hole: whoever has a location keeps it.
LEMMA TextureStored ==
  ASSUME TextureInv, NEW loc \in Home, NEW c, NEW t,
         t \in Items, t \notin alive, c # Empty,
         code' = [code EXCEPT ![loc] = c],
         item' = [item EXCEPT ![loc] = t],
         code[loc] = Empty,
         alive' = alive \cup {t}
  PROVE  HeldAreAlive' /\ (alive \subseteq Items)'
<1>1. /\ code \in [Loc -> Loc \cup {Empty, Memory}]
      /\ item \in [Loc -> Items \cup {Null}]
      /\ HeldAreAlive /\ alive \subseteq Items
  BY DEF TextureInv, TableInv, CountsAreRight, HashTypeOK
<1>2. Used' = Used \cup {loc} /\ loc \notin Used /\ Used \subseteq Loc /\ loc \in Loc
  BY <1>1 DEF Used, Home
<1>3. (\A l \in Used : item'[l] = item[l] /\ l # loc) /\ item'[loc] = t
  BY <1>1, <1>2
<1>4. \A l \in Used : item[l] \in alive /\ item[l] # t
  BY <1>1 DEF HeldAreAlive
<1>5. \A l, m \in Used' : item'[l] = item'[m] => l = m
  BY <1>1, <1>2, <1>3, <1>4 DEF HeldAreAlive
<1>6. \A l \in Used' : item'[l] \in alive'
  BY <1>2, <1>3, <1>4
<1> QED  BY <1>1, <1>5, <1>6 DEF HeldAreAlive

LEMMA TextureInvHolds == Spec => []TextureInv
<1>1. Init => TextureInv
  BY TableAtStart DEF Init, TextureInv, HeldAreAlive
<1>2. TextureInv /\ [Next]_vars => TextureInv'
  <2> SUFFICES ASSUME TextureInv, [Next]_vars PROVE TextureInv'
    OBVIOUS
  <2>0. /\ TableInv /\ HeldAreAlive /\ alive \subseteq Items
        /\ result \in 0..MaxItems /\ looped \in BOOLEAN
    BY DEF TextureInv, TableInv, CountsAreRight, HashTypeOK
  <2>1. ASSUME UNCHANGED tableVars, UNCHANGED alive, TableInv' PROVE TextureInv'
    BY <2>0, <2>1 DEF TextureInv, HeldAreAlive, Used, tableVars
  <2>2. ASSUME NEW f \in Names, Load(f) PROVE TextureInv'
    <3>1. CASE /\ LoadThrows(f) \/ LoadObtains(f) \/ LoadHasNoRoom(f) \/ LoadFails(f)
               /\ UNCHANGED alive
      BY <3>1, <2>0, <2>1, TableAfterSearch
    <3>2. CASE /\ Items \ alive # {}
               /\ LoadStores(f, Created)
               /\ alive' = alive \cup {Created}
      <4>1. Created \in Items /\ Created \notin alive
        BY <3>2 DEF Created
      <4>2. TableInv'
        BY <4>1, <3>2, <2>0, TableAfterLoad
      <4>3. PICK loc \in Home :
              /\ code[loc] = Empty
              /\ code' = [code EXCEPT ![loc] = Hash[f]]
              /\ item' = [item EXCEPT ![loc] = Created]
        BY <3>2, <2>0, StoresAtHole
      <4>4. Hash[f] # Empty
        BY HashMgrAssumption DEF Empty
      <4>5. HeldAreAlive' /\ (alive \subseteq Items)'
        BY <4>1, <4>3, <4>4, <3>2, TextureStored
      <4> QED  BY <4>2, <4>5 DEF TextureInv
    <3> QED  BY <3>1, <3>2, <2>2 DEF Load
  <2>3. CASE LoadTextureMem
    <3>1. TableInv' /\ Created \in Items /\ Created \notin alive
          /\ alive' = alive \cup {Created}
      BY <2>3, StoresMemory, TableAfterLoadMemory
    <3>2. CASE UNCHANGED tableVars
      BY <3>1, <3>2, <2>0
         DEF TextureInv, HeldAreAlive, Used, tableVars
    <3>3. ASSUME NEW loc \in Home,
                 code[loc] = Empty,
                 code' = [code EXCEPT ![loc] = Memory],
                 item' = [item EXCEPT ![loc] = Created]
          PROVE  TextureInv'
      <4>1. Memory # Empty  BY DEF Memory, Empty
      <4>2. HeldAreAlive' /\ (alive \subseteq Items)'
        BY <4>1, <3>1, <3>3, TextureStored
      <4> QED  BY <4>2, <3>1 DEF TextureInv
    <3> QED  BY <3>2, <3>3, <2>3, StoresMemory
  <2>4. CASE LoadTextureMemFails
    <3>1. DefaultItem \in 0..MaxItems  BY HashMgrAssumption DEF DefaultItem
    <3> QED  BY <3>1, <2>0, <2>1, <2>4, TableKept DEF LoadTextureMemFails
  <2>5. ASSUME NEW l \in Loc, Unload(l) PROVE TextureInv'
    <3>1. UnloadItem(l) /\ alive' = alive \ {item[l]}
      BY <2>5 DEF Unload
    <3>2. /\ TableInv' /\ l \in Home /\ code[l] # Empty
          /\ item' = [item EXCEPT ![l] = Null]
          /\ Used' = Used \ {l}
      BY <3>1, <2>0, TableAfterUnload
    <3>3. /\ l \in Used
          /\ \A m \in Used' : m \in Used /\ m # l /\ item'[m] = item[m]
      BY <3>2, <2>0 DEF Used, Home, TableInv, CountsAreRight, HashTypeOK
    <3>4. HeldAreAlive'
      BY <3>1, <3>3, <2>0 DEF HeldAreAlive
    <3> QED  BY <3>1, <3>2, <3>4, <2>0 DEF TextureInv
  <2>6. CASE UnloadItems
    BY <2>6, <2>0, TableAfterUnloadItems DEF UnloadItems, TextureInv, HeldAreAlive
  <2>7. CASE UNCHANGED vars
    BY <2>7, <2>0, <2>1, TableKept DEF vars, hashVars
  <2> QED  BY <2>2, <2>3, <2>4, <2>5, <2>6, <2>7 DEF Next
<1> QED  BY <1>1, <1>2, PTL DEF Spec

\* The counts of the table of textures are right in every reachable state, so
\* that GetItem (lg_hash_mgr.h) finds a texture wherever it is.
THEOREM TextureCountsAreRight == Spec => []CountsAreRight
<1>1. TextureInv => CountsAreRight
  BY DEF TextureInv, TableInv
<1> QED  BY <1>1, TextureInvHolds, PTL

\* No reference to a location in use draws a released texture (lg_tmgr.cpp).
THEOREM TexturesStayAlive == Spec => []HeldAreAlive
<1>1. TextureInv => HeldAreAlive
  BY DEF TextureInv
<1> QED  BY <1>1, TextureInvHolds, PTL

\* LoadTextureMem gives out a reference that was not in use.
LEMMA LoadMemoryIsOfCache ==
  ASSUME TextureInv, LoadTextureMem
  PROVE  Cache!Next
<1>1. TableInv /\ TableInv'
  BY TableAfterLoadMemory DEF TextureInv
<1>2. CASE result' = DefaultItem /\ UNCHANGED tableVars
  <2>1. Cache!ObtainDefault
    BY <1>2, CacheKept DEF Cache!ObtainDefault, DefaultItem, Cache!DefaultItem
  <2> QED  BY <2>1 DEF Cache!Next
<1>3. ASSUME NEW loc \in Home,
             code[loc] = Empty,
             code' = [code EXCEPT ![loc] = Memory],
             name' = [name EXCEPT ![loc] = NoName],
             result' = loc + 1
      PROVE  Cache!Next
  <2>1. /\ code \in [Loc -> Loc \cup {Empty, Memory}]
        /\ name \in [Loc -> Names \cup {NoName}]
        /\ Empty # Memory /\ Empty \notin Home /\ Memory \notin Home
        /\ loc \in Loc
    BY <1>1, HashMgrAssumption
       DEF TableInv, CountsAreRight, HashTypeOK, Empty, Memory, Home, Loc
  <2>2. Named' = Named /\ \A l \in Named : name'[l] = name[l]
    BY <2>1, <1>3 DEF Named, Home
  <2>3. LoadedRefs' = LoadedRefs
    BY <2>2 DEF LoadedRefs
  <2>4. MemoryRefs' = MemoryRefs \cup {loc + 1}
    <3>1. {m \in Home : code'[m] = Memory}
            = {m \in Home : code[m] = Memory} \cup {loc}
      BY <2>1, <1>3 DEF Home
    <3> QED  BY <3>1 DEF MemoryRefs
  <2>5. loc + 1 \in (2..MaxItems) \ Cache!InUse
    <3>1. loc + 1 \in 2..MaxItems  BY HashMgrAssumption DEF Home, Loc
    <3>2. ASSUME NEW l \in Used PROVE l + 1 # loc + 1
      <4>1. l # loc  BY <1>3 DEF Used
      <4> QED  BY <4>1, HashMgrAssumption DEF Used, Home, Loc
    <3> QED  BY <3>1, <3>2, <1>1, RefsInUse
  <2>6. Cache!LoadMemory(loc + 1)
    BY <2>3, <2>4, <1>3 DEF Cache!LoadMemory
  <2> QED  BY <2>5, <2>6 DEF Cache!Next
<1> QED  BY <1>2, <1>3, StoresMemory

\* CLTMgr implements the cache its users see: a name is obtained by one
\* reference from its Load to its Unload, and no two things share one.
THEOREM TexturesAreCached == Spec => IsCache
<1>1. Init => Cache!Init
  BY CacheAtStart DEF Init
<1>2. TextureInv /\ [Next]_vars => [Cache!Next]_(Cache!vars)
  <2> SUFFICES ASSUME TextureInv, [Next]_vars PROVE [Cache!Next]_(Cache!vars)
    OBVIOUS
  <2>0. TableInv  BY DEF TextureInv
  <2>1. ASSUME NEW f \in Names, Load(f) PROVE [Cache!Next]_(Cache!vars)
    <3>1. CASE LoadThrows(f) \/ LoadObtains(f) \/ LoadHasNoRoom(f) \/ LoadFails(f)
      BY <3>1, <2>0, SearchIsOfCache
    <3>2. CASE Items \ alive # {} /\ LoadStores(f, Created)
      <4>1. Created \in Items  BY <3>2 DEF Created
      <4> QED  BY <4>1, <3>2, <2>0, StoreIsOfCache
    <3> QED  BY <3>1, <3>2, <2>1 DEF Load
  <2>2. CASE LoadTextureMem
    BY <2>2, LoadMemoryIsOfCache
  <2>3. CASE LoadTextureMemFails
    <3>1. Cache!ObtainDefault
      BY <2>3, CacheKept
         DEF LoadTextureMemFails, Cache!ObtainDefault, DefaultItem, Cache!DefaultItem
    <3> QED  BY <3>1 DEF Cache!Next
  <2>4. ASSUME NEW l \in Loc, Unload(l) PROVE Cache!Next
    BY <2>4, <2>0, UnloadIsOfCache DEF Unload
  <2>5. CASE UnloadItems
    BY <2>5, <2>0, UnloadItemsIsOfCache DEF UnloadItems
  <2>6. CASE UNCHANGED vars
    BY <2>6, CacheKept DEF vars, hashVars, Cache!vars
  <2> QED  BY <2>1, <2>2, <2>3, <2>4, <2>5, <2>6 DEF Next
<1> QED  BY <1>1, <1>2, TextureInvHolds, PTL DEF Spec, IsCache, Cache!Spec

-----------------------------------------------------------------------------
(* The managers with a pool of items.                                      *)

\* No item of a pool is without a name.
PoolInv ==
  /\ TableInv
  /\ \A l \in Home : code[l] # Memory
  /\ free \in Seq(Items)
  /\ ItemsHaveOneUse

\* The parts of ItemsHaveOneUse, in terms of the lists of SequenceLemmas.
LEMMA OneUse ==
  ASSUME free \in Seq(Items)
  PROVE  ItemsHaveOneUse <=> /\ IsInjective(free)
                             /\ \A l, m \in Named : item[l] = item[m] => l = m
                             /\ \A l \in Named : item[l] \notin ToSet(free)
                             /\ \A l \in Named : item[l] # Null
                             /\ ReturnsFailed => \A x \in Items :
                                  x \in ToSet(free) \/ \E l \in Named : item[l] = x
<1>1. IsInjective(free) <=> \A i, j \in DOMAIN free : free[i] = free[j] => i = j
  BY DEF IsInjective
<1>2. Held \cap ToSet(free) = {} <=> \A l \in Named : item[l] \notin ToSet(free)
  BY DEF Held
<1>3. Null \notin Held <=> \A l \in Named : item[l] # Null
  BY DEF Held
<1>4. Items \subseteq ToSet(free) \cup Held
        <=> \A x \in Items : x \in ToSet(free) \/ \E l \in Named : item[l] = x
  BY DEF Held
<1> QED  BY <1>1, <1>2, <1>3, <1>4 DEF ItemsHaveOneUse

LEMMA OneUseNext ==
  ASSUME free' \in Seq(Items)
  PROVE  ItemsHaveOneUse' <=> /\ IsInjective(free')
                              /\ \A l, m \in Named' : item'[l] = item'[m] => l = m
                              /\ \A l \in Named' : item'[l] \notin ToSet(free')
                              /\ \A l \in Named' : item'[l] # Null
                              /\ ReturnsFailed => \A x \in Items :
                                   x \in ToSet(free') \/ \E l \in Named' : item'[l] = x
<1>1. IsInjective(free') <=> \A i, j \in DOMAIN free' : free'[i] = free'[j] => i = j
  BY DEF IsInjective
<1>2. (Held \cap ToSet(free) = {})' <=> \A l \in Named' : item'[l] \notin ToSet(free')
  BY DEF Held, ToSet
<1>3. (Null \notin Held)' <=> \A l \in Named' : item'[l] # Null
  BY DEF Held
<1>4. (Items \subseteq ToSet(free) \cup Held)'
        <=> \A x \in Items : x \in ToSet(free') \/ \E l \in Named' : item'[l] = x
  BY DEF Held, ToSet
<1> QED  BY <1>1, <1>2, <1>3, <1>4 DEF ItemsHaveOneUse

\* What PoolInv says of the locations in use.
LEMMA PoolFacts ==
  ASSUME PoolInv
  PROVE  /\ Used = Named /\ Used \subseteq Loc
         /\ \A l \in Used : item[l] \in Items
         /\ free \in Seq(Items) /\ IsInjective(free)
         /\ \A l, m \in Used : item[l] = item[m] => l = m
         /\ \A l \in Used : item[l] \notin ToSet(free)
         /\ ReturnsFailed => \A x \in Items :
              x \in ToSet(free) \/ \E l \in Used : item[l] = x
<1>1. /\ code \in [Loc -> Loc \cup {Empty, Memory}]
      /\ item \in [Loc -> Items \cup {Null}]
      /\ \A l \in Home : code[l] # Memory /\ code[l] # 0
      /\ Empty \notin Loc
  BY HashMgrAssumption
     DEF PoolInv, TableInv, CountsAreRight, HashTypeOK, DefaultStays, Empty, Loc
<1>2. Used = Named /\ Used \subseteq Loc
  BY <1>1 DEF Used, Named, Home
<1>3. /\ free \in Seq(Items) /\ IsInjective(free)
      /\ \A l, m \in Named : item[l] = item[m] => l = m
      /\ \A l \in Named : item[l] \notin ToSet(free)
      /\ \A l \in Named : item[l] # Null
      /\ ReturnsFailed => \A x \in Items :
           x \in ToSet(free) \/ \E l \in Named : item[l] = x
  BY OneUse DEF PoolInv
<1> QED  BY <1>1, <1>2, <1>3

\* The locations in use are each listed once by Occupied.
LEMMA OccupiedListsUsed ==
  ASSUME TableInv
  PROVE  LET n == Cardinality(Used)
         IN  /\ n \in Nat
             /\ \A i \in 1..n : Occupied[i] \in Used
             /\ \A i, j \in 1..n : Occupied[i] = Occupied[j] => i = j
             /\ \A l \in Used : \E i \in 1..n : Occupied[i] = l
<1> DEFINE n == Cardinality(Used)
           Upto(l) == {m \in Used : m <= l}
           rank == [l \in Used |-> Cardinality(Upto(l))]
<1>1. /\ Used \in SUBSET Loc /\ Used \subseteq Nat
      /\ IsFiniteSet(Used) /\ n \in Nat
  <2>1. Used \in SUBSET Loc  BY LocIsFinite DEF Used
  <2> QED  BY <2>1, LocIsFinite
<1>2. \A l \in Used : /\ Upto(l) \in SUBSET Used
                      /\ IsFiniteSet(Upto(l)) /\ Cardinality(Upto(l)) \in Nat
                      /\ Cardinality(Upto(l)) <= n
  BY <1>1, FS_Subset, FS_CardinalityType
<1>3. \A l \in Used : Cardinality(Upto(l)) \in 1..n
  <2> SUFFICES ASSUME NEW l \in Used PROVE Cardinality(Upto(l)) \in 1..n
    OBVIOUS
  <2>1. l \in Upto(l)  BY <1>1
  <2>2. Cardinality(Upto(l)) # 0  BY <2>1, <1>2, FS_EmptySet
  <2> QED  BY <2>2, <1>1, <1>2
<1>4. ASSUME NEW l \in Used, NEW m \in Used, l < m
      PROVE  Cardinality(Upto(l)) # Cardinality(Upto(m))
  <2> DEFINE U == Upto(m)
             V == Upto(l)
  <2>1. m \in U /\ m \notin V /\ V \subseteq U \ {m}
    <3>1. \A q \in Used : q <= l => q <= m /\ q # m
      BY <1>1, <1>4
    <3>2. m <= m /\ ~(m <= l)
      BY <1>1, <1>4
    <3> QED  BY <3>1, <3>2
  <2>2. /\ IsFiniteSet(U) /\ Cardinality(U) \in Nat
        /\ IsFiniteSet(V) /\ Cardinality(V) \in Nat
    BY <1>2
  <2> HIDE DEF U, V
  <2>3. IsFiniteSet(U \ {m}) /\ Cardinality(U \ {m}) = Cardinality(U) - 1
    BY <2>1, <2>2, FS_RemoveElement
  <2>4. Cardinality(V) <= Cardinality(U \ {m})
    BY <2>1, <2>3, FS_Subset
  <2>5. Cardinality(V) # Cardinality(U)
    BY <2>2, <2>3, <2>4
  <2> QED  BY <2>5 DEF U, V
<1>5. \A l, m \in Used : Cardinality(Upto(l)) = Cardinality(Upto(m)) => l = m
  <2> SUFFICES ASSUME NEW l \in Used, NEW m \in Used, l # m
               PROVE  Cardinality(Upto(l)) # Cardinality(Upto(m))
    OBVIOUS
  <2>1. l < m \/ m < l  BY <1>1
  <2>2. CASE l < m  BY <2>2, <1>4
  <2>3. CASE m < l  BY <2>3, <1>4
  <2> QED  BY <2>1, <2>2, <2>3
<1>6. \A i \in 1..n : \E l \in Used : Cardinality(Upto(l)) = i
  <2>1. rank \in Injection(Used, 1..n)
    <3>1. rank \in [Used -> 1..n]  BY <1>3
    <3>2. \A l, m \in Used : rank[l] = rank[m] => l = m  BY <1>5
    <3> QED  BY <3>1, <3>2 DEF Injection, IsInjective
  <2>2. IsFiniteSet(1..n) /\ Cardinality(1..n) = n
    BY <1>1, FS_Interval
  <2> HIDE DEF n, Upto
  <2>3. rank \in Surjection(Used, 1..n)
    <3>1. Cardinality(Used) = Cardinality(1..n)  BY <2>2 DEF n
    <3> HIDE DEF rank
    <3> QED  BY <3>1, <2>1, <2>2, FS_Injection
  <2>4. \A i \in 1..n : \E l \in Used : rank[l] = i
    <3> HIDE DEF rank
    <3> QED  BY <2>3 DEF Surjection
  <2> QED  BY <2>4
<1>7. \A i \in 1..n : Occupied[i] \in Used /\ Cardinality(Upto(Occupied[i])) = i
  <2> SUFFICES ASSUME NEW i \in 1..n
               PROVE  Occupied[i] \in Used /\ Cardinality(Upto(Occupied[i])) = i
    OBVIOUS
  <2>1. Occupied[i] = CHOOSE l \in Used : Cardinality(Upto(l)) = i
    BY DEF Occupied
  <2> HIDE DEF Upto
  <2> QED  BY <2>1, <1>6
<1>8. \A i, j \in 1..n : Occupied[i] = Occupied[j] => i = j
  BY <1>7
<1>9. \A l \in Used : \E i \in 1..n : Occupied[i] = l
  BY <1>3, <1>5, <1>7
<1> QED  BY <1>1, <1>7, <1>8, <1>9

\* The items UnloadItems pushes back are those that were held, each once.
LEMMA PushedBack ==
  ASSUME PoolInv
  PROVE  LET back == Reverse([i \in DOMAIN Occupied |-> item[Occupied[i]]])
         IN  /\ back \in Seq(Items) /\ IsInjective(back)
             /\ ToSet(back) \cap ToSet(free) = {}
             /\ \A l \in Used : item[l] \in ToSet(back)
<1> DEFINE n == Cardinality(Used)
           s == [i \in DOMAIN Occupied |-> item[Occupied[i]]]
<1>1. /\ n \in Nat
      /\ \A i \in 1..n : Occupied[i] \in Used
      /\ \A i, j \in 1..n : Occupied[i] = Occupied[j] => i = j
      /\ \A l \in Used : \E i \in 1..n : Occupied[i] = l
  BY OccupiedListsUsed DEF PoolInv
<1>2. DOMAIN Occupied = 1..n
  BY DEF Occupied
<1>3. /\ \A l \in Used : item[l] \in Items /\ item[l] \notin ToSet(free)
      /\ \A l, m \in Used : item[l] = item[m] => l = m
  BY PoolFacts
<1> HIDE DEF n
<1>4. s \in [1..n -> Items]
  BY <1>1, <1>2, <1>3
<1>5. s \in Seq(Items) /\ Len(s) = n /\ \A i \in 1..n : s[i] = item[Occupied[i]]
  BY <1>1, <1>2, <1>4
<1> HIDE DEF s
<1>6. IsInjective(s)
  <2>1. \A i, j \in 1..n : s[i] = s[j] => i = j
    BY <1>1, <1>3, <1>5
  <2> QED  BY <2>1, <1>5, Positions
<1>7. ToSet(s) \cap ToSet(free) = {} /\ \A l \in Used : item[l] \in ToSet(s)
  <2>1. ToSet(s) = {s[i] : i \in 1..n}  BY <1>5, Positions
  <2> QED  BY <2>1, <1>1, <1>3, <1>5
<1>8. /\ Reverse(s) \in Seq(Items) /\ IsInjective(Reverse(s))
      /\ ToSet(Reverse(s)) = ToSet(s)
  BY <1>5, <1>6, ReverseMembers
<1> QED  BY <1>7, <1>8 DEF s

LEMMA PoolAtStart == PoolInit => PoolInv
<1> SUFFICES ASSUME PoolInit PROVE PoolInv
  OBVIOUS
<1>1. /\ HashInit /\ TableInv /\ Named = {}
      /\ free = [i \in 1..MaxItems |-> MaxItems - i]
      /\ MaxItems \in Nat
  BY TableAtStart, HashMgrAssumption DEF PoolInit
<1>2. free \in [1..MaxItems -> Items]
  <2>1. \A i \in 1..MaxItems : MaxItems - i \in Items
    BY <1>1, PoolMgrAssumption
  <2> QED  BY <2>1, <1>1
<1>3. free \in Seq(Items)  BY <1>1, <1>2
<1>4. IsInjective(free)
  <2>1. Len(free) = MaxItems  BY <1>1, <1>2
  <2>2. \A i, j \in 1..MaxItems : free[i] = free[j] => i = j  BY <1>1
  <2> QED  BY <2>1, <2>2, <1>3, Positions
<1>5. \A l \in Home : code[l] # Memory
  BY <1>1 DEF HashInit, Home, Empty, Memory
<1>6. ToSet(free) = Items
  <2>0. DOMAIN free = 1..MaxItems
    BY <1>2
  <2>1. ToSet(free) = {free[i] : i \in 1..MaxItems}
    BY <2>0 DEF ToSet
  <2>2. \A x \in Items : MaxItems - x \in 1..MaxItems /\ MaxItems - (MaxItems - x) = x
    BY <1>1, PoolMgrAssumption
  <2>3. \A x \in Items : free[MaxItems - x] = x
    BY <1>1, <2>2
  <2> QED  BY <1>2, <2>1, <2>2, <2>3
<1> QED  BY <1>1, <1>3, <1>4, <1>5, <1>6, OneUse DEF PoolInv

LEMMA PoolInvHolds == PoolSpec => []PoolInv
<1>1. PoolInv /\ [PoolNext]_poolVars => PoolInv'
  <2> SUFFICES ASSUME PoolInv, [PoolNext]_poolVars PROVE PoolInv'
    OBVIOUS
  <2>0. /\ TableInv /\ free \in Seq(Items) /\ IsInjective(free)
        /\ \A l \in Home : code[l] # Memory
        /\ \A l \in Named : item[l] \in Items /\ item[l] # Null
        /\ \A l, m \in Named : item[l] = item[m] => l = m
        /\ \A l \in Named : item[l] \notin ToSet(free)
        /\ ReturnsFailed => \A x \in Items :
             x \in ToSet(free) \/ \E l \in Named : item[l] = x
        /\ Used = Named
        /\ code \in [Loc -> Loc \cup {Empty, Memory}]
        /\ item \in [Loc -> Items \cup {Null}]
        /\ result \in 0..MaxItems /\ looped \in BOOLEAN
    BY PoolFacts, HashMgrAssumption
       DEF PoolInv, TableInv, CountsAreRight, HashTypeOK
  <2>1. ASSUME free # << >>
        PROVE  /\ Head(free) \in Items /\ Tail(free) \in Seq(Items)
               /\ IsInjective(Tail(free))
               /\ ToSet(Tail(free)) = ToSet(free) \ {Head(free)}
               /\ Head(free) \in ToSet(free)
    BY <2>0, <2>1, TailMembers
  <2>2. ASSUME UNCHANGED tableVars, TableInv', free' \in Seq(Items),
               IsInjective(free'), ToSet(free') \subseteq ToSet(free),
               ReturnsFailed => free' = free
        PROVE  PoolInv'
    <3>1. /\ Named' = Named /\ item' = item /\ code' = code
      BY <2>2 DEF tableVars, Named
    <3> QED  BY <3>1, <2>0, <2>2, OneUseNext DEF PoolInv
  <2>3. ASSUME NEW f \in Names, PoolLoad(f) PROVE PoolInv'
    <3>1. CASE (LoadThrows(f) \/ LoadObtains(f) \/ LoadHasNoRoom(f)) /\ UNCHANGED free
      BY <3>1, <2>0, <2>2, TableAfterSearch
    <3>2. CASE LoadFails(f) /\ free' = free
      BY <3>2, <2>0, <2>2, TableAfterSearch
    <3>3. CASE free # << >> /\ LoadFails(f) /\ free' = Tail(free) /\ ~ReturnsFailed
      <4>1. ToSet(free') \subseteq ToSet(free)  BY <3>3, <2>1
      <4> QED  BY <4>1, <3>3, <2>0, <2>1, <2>2, TableAfterSearch
    <3>4. CASE free # << >> /\ LoadStores(f, Head(free)) /\ free' = Tail(free)
      <4>1. TableInv'  BY <3>4, <2>0, <2>1, TableAfterLoad
      <4>2. PICK loc \in Home :
              /\ code' = [code EXCEPT ![loc] = Hash[f]]
              /\ item' = [item EXCEPT ![loc] = Head(free)]
              /\ Named' = Named \cup {loc}
              /\ \A l \in Named : l # loc
        BY <3>4, <2>0, StoresAtHole
      <4>3. /\ item'[loc] = Head(free) /\ Named \subseteq Loc
            /\ \A l \in Named : item'[l] = item[l]
        BY <4>2, <2>0 DEF Home, Named
      <4>4. \A l \in Home : code'[l] # Memory
        <5>1. Hash[f] # Memory  BY HashMgrAssumption DEF Memory
        <5> QED  BY <5>1, <4>2, <2>0 DEF Home
      <4>5. \A l, m \in Named' : item'[l] = item'[m] => l = m
        BY <4>2, <4>3, <3>4, <2>0, <2>1
      <4>6. \A l \in Named' : item'[l] \notin ToSet(free') /\ item'[l] # Null
        BY <4>2, <4>3, <3>4, <2>0, <2>1, HashMgrAssumption
      <4>8. ASSUME ReturnsFailed, NEW x \in Items
            PROVE  x \in ToSet(free') \/ \E l \in Named' : item'[l] = x
        <5>1. CASE x = Head(free)
          BY <4>2, <4>3, <5>1
        <5>2. CASE x # Head(free)
          BY <4>2, <4>3, <4>8, <3>4, <2>0, <2>1, <5>2
        <5> QED  BY <5>1, <5>2
      <4>7. ItemsHaveOneUse'  BY <4>5, <4>6, <4>8, <3>4, <2>1, OneUseNext
      <4> QED  BY <4>1, <4>4, <4>7, <3>4, <2>1 DEF PoolInv
    <3> QED  BY <3>1, <3>2, <3>3, <3>4, <2>3 DEF PoolLoad
  <2>4. ASSUME NEW l \in Loc, PoolUnload(l) PROVE PoolInv'
    <3>1. UnloadItem(l) /\ free' = <<item[l]>> \o free
      BY <2>4 DEF PoolUnload
    <3>2. /\ TableInv' /\ l \in Home /\ code[l] # Empty
          /\ code' = [code EXCEPT ![l] = Empty]
          /\ item' = [item EXCEPT ![l] = Null]
          /\ Named' = Named \ {l}
      BY <3>1, <2>0, TableAfterUnload
    <3>3. /\ l \in Named /\ item[l] \in Items /\ item[l] \notin ToSet(free)
          /\ \A m \in Named' : m \in Named /\ m # l /\ item'[m] = item[m]
      BY <3>2, <2>0 DEF Used, Named, Home
    <3>4. /\ free' \in Seq(Items) /\ IsInjective(free')
          /\ ToSet(free') = {item[l]} \cup ToSet(free)
      BY <3>1, <3>3, <2>0, ConsMembers
    <3>5. \A h \in Home : code'[h] # Memory
      BY <3>2, <2>0 DEF Empty, Memory, Home
    <3>6. \A m \in Named' : item'[m] \notin ToSet(free') /\ item'[m] # Null
      BY <3>3, <3>4, <2>0
    <3>7. \A m, q \in Named' : item'[m] = item'[q] => m = q
      BY <3>3, <2>0
    <3>9. ASSUME ReturnsFailed, NEW x \in Items
          PROVE  x \in ToSet(free') \/ \E m \in Named' : item'[m] = x
      <4>1. x \in ToSet(free) \/ \E m \in Named : item[m] = x
        BY <2>0, <3>9
      <4> QED  BY <4>1, <3>2, <3>3, <3>4
    <3>8. ItemsHaveOneUse'  BY <3>4, <3>6, <3>7, <3>9, OneUseNext
    <3> QED  BY <3>2, <3>4, <3>5, <3>8 DEF PoolInv
  <2>5. CASE PoolUnloadItems
    <3> DEFINE back == Reverse([i \in DOMAIN Occupied |-> item[Occupied[i]]])
    <3>1. DropAll /\ free' = back \o free
      BY <2>5 DEF PoolUnloadItems
    <3>2. /\ back \in Seq(Items) /\ IsInjective(back)
          /\ ToSet(back) \cap ToSet(free) = {}
          /\ \A l \in Named : item[l] \in ToSet(back)
      BY <2>0, PushedBack
    <3> HIDE DEF back
    <3>3. /\ free' \in Seq(Items) /\ IsInjective(free')
          /\ ToSet(free') = ToSet(back) \cup ToSet(free)
      BY <3>1, <3>2, <2>0, ConcatMembers
    <3>4. TableInv' /\ Named' = {} /\ \A l \in Home : code'[l] = Empty
      BY <3>1, <2>0, TableAfterUnloadItems
    <3>6. ReturnsFailed => \A x \in Items : x \in ToSet(free')
      BY <2>0, <3>2, <3>3
    <3>5. ItemsHaveOneUse'  BY <3>3, <3>4, <3>6, OneUseNext
    <3> QED  BY <3>3, <3>4, <3>5 DEF PoolInv, Empty, Memory
  <2>6. CASE UNCHANGED poolVars
    BY <2>6, <2>0, <2>2, TableKept DEF poolVars, hashVars
  <2> QED  BY <2>3, <2>4, <2>5, <2>6 DEF PoolNext
<1> QED  BY <1>1, PoolAtStart, PTL DEF PoolSpec

\* No item of a pool is given out twice, or while it is free: what a name's
\* users hold is not loaded over (lg_mtr_mgr.cpp, lg_skin_mgr.cpp, lg_mmgr.cpp).
\* Where DoLoad pushes back the item of a file that does not load, every item is
\* free or some name's; the material manager loses such items (lg_mtr_mgr.cpp:50-51).
THEOREM PoolItemsHaveOneUse == PoolSpec => []ItemsHaveOneUse
<1>1. PoolInv => ItemsHaveOneUse
  BY DEF PoolInv
<1> QED  BY <1>1, PoolInvHolds, PTL

\* The counts are right in the managers with a pool, too.
THEOREM PoolCountsAreRight == PoolSpec => []CountsAreRight
<1>1. PoolInv => CountsAreRight
  BY DEF PoolInv, TableInv
<1> QED  BY <1>1, PoolInvHolds, PTL

\* So are they caches of their items by name.
THEOREM PoolsAreCaches == PoolSpec => IsCache
<1>1. PoolInit => Cache!Init
  BY CacheAtStart DEF PoolInit
<1>2. PoolInv /\ [PoolNext]_poolVars => [Cache!Next]_(Cache!vars)
  <2> SUFFICES ASSUME PoolInv, [PoolNext]_poolVars PROVE [Cache!Next]_(Cache!vars)
    OBVIOUS
  <2>0. TableInv /\ free \in Seq(Items)  BY DEF PoolInv
  <2>1. ASSUME NEW f \in Names, PoolLoad(f) PROVE [Cache!Next]_(Cache!vars)
    <3>1. CASE LoadThrows(f) \/ LoadObtains(f) \/ LoadHasNoRoom(f) \/ LoadFails(f)
      BY <3>1, <2>0, SearchIsOfCache
    <3>2. CASE free # << >> /\ LoadStores(f, Head(free))
      <4>1. Head(free) \in Items  BY <3>2, <2>0, TailMembers
      <4> QED  BY <4>1, <3>2, <2>0, StoreIsOfCache
    <3> QED  BY <3>1, <3>2, <2>1 DEF PoolLoad
  <2>2. ASSUME NEW l \in Loc, PoolUnload(l) PROVE Cache!Next
    BY <2>2, <2>0, UnloadIsOfCache DEF PoolUnload
  <2>3. CASE PoolUnloadItems
    BY <2>3, <2>0, UnloadItemsIsOfCache DEF PoolUnloadItems
  <2>4. CASE UNCHANGED poolVars
    BY <2>4, CacheKept DEF poolVars, hashVars, Cache!vars
  <2> QED  BY <2>1, <2>2, <2>3, <2>4 DEF PoolNext
<1> QED  BY <1>1, <1>2, PoolInvHolds, PTL DEF PoolSpec, IsCache, Cache!Spec

-----------------------------------------------------------------------------
(* The meshes.                                                             *)

\* The mesh managers are managers with a pool.
LEMMA MeshesAreOfAPool == MeshSpec => PoolSpec
<1>1. MeshInit => PoolInit
  BY DEF MeshInit
<1>2. [MeshNext]_meshVars => [PoolNext]_poolVars
  BY DEF MeshNext, LoadMesh, UnloadMesh, UnloadMeshes, PoolNext, meshVars
<1> QED  BY <1>1, <1>2, PTL DEF MeshSpec, PoolSpec

MeshInv ==
  /\ PoolInv
  /\ buffers \in [Items -> Names \cup {NoName}]
  /\ DrawnUnderItsName

\* What LoadMesh leaves in the buffers: those of the mesh it returns, if any,
\* may have become those of the name that was asked for.
LEMMA BuffersAfterLoad ==
  ASSUME NEW f \in Names, NEW nod3d \in BOOLEAN, LoadMesh(f, nod3d)
  PROVE  LET mesh == GetInterface(item', result')
         IN  \/ buffers' = Popped(f)
             \/ ~looped' /\ mesh # Null /\ buffers' = [Popped(f) EXCEPT ![mesh] = f]
<1> DEFINE mesh == GetInterface(item', result')
           P == Popped(f)
           Q == [P EXCEPT ![mesh] = f]
<1>1. \A b : MakeD3DReady(mesh, f, b) \subseteq {b, [b EXCEPT ![mesh] = f]}
  BY DEF MakeD3DReady
<1>2. \A b : mesh = Null => MakeD3DReady(mesh, f, b) = {b}
  BY DEF MakeD3DReady
<1>3. DoLoad(f, nod3d) = {P} \/ DoLoad(f, nod3d) = MakeD3DReady(mesh, f, P)
  BY DEF DoLoad
<1>4. PICK b \in DoLoad(f, nod3d) :
        buffers' \in IF nod3d \/ looped' THEN {b} ELSE MakeD3DReady(mesh, f, b)
  BY DEF LoadMesh
<1>5. looped' => ~CallsDoLoad(f)
  <2> SUFFICES ASSUME looped', CallsDoLoad(f) PROVE FALSE
    OBVIOUS
  <2>1. ~LoadThrows(f)  BY DEF CallsDoLoad, LoadThrows
  <2>2. ~looped  BY DEF LoadMesh, PoolLoad, Running
  <2> QED
    BY <2>1, <2>2
       DEF LoadMesh, PoolLoad, LoadObtains, LoadHasNoRoom, LoadFails, LoadStores
<1>6. CASE looped'
  <2>1. DoLoad(f, nod3d) = {P}  BY <1>5, <1>6 DEF DoLoad
  <2> QED  BY <2>1, <1>4, <1>6
<1> HIDE DEF mesh, P
<1>7. CASE ~looped' /\ mesh = Null
  <2>1. DoLoad(f, nod3d) = {P}  BY <1>2, <1>3, <1>7
  <2>2. b = P  BY <2>1, <1>4
  <2>3. buffers' = P  BY <2>2, <1>2, <1>4, <1>7
  <2> QED  BY <2>3 DEF P
<1>8. CASE ~looped' /\ mesh # Null
  <2>1. [Q EXCEPT ![mesh] = f] = Q
    OBVIOUS
  <2>2. b = P \/ b = Q  BY <1>1, <1>3, <1>4
  <2>3. buffers' = b \/ buffers' = [b EXCEPT ![mesh] = f]
    BY <1>1, <1>4
  <2>4. buffers' = P \/ buffers' = Q  BY <2>1, <2>2, <2>3
  <2> QED  BY <2>4, <1>8 DEF P, mesh
<1> QED  BY <1>6, <1>7, <1>8 DEF P

LEMMA DrawnAfterLoad ==
  ASSUME MeshInv, PoolInv', NEW f \in Names, NEW nod3d \in BOOLEAN,
         LoadMesh(f, nod3d)
  PROVE  /\ buffers' \in [Items -> Names \cup {NoName}]
         /\ DrawnUnderItsName'
<1> DEFINE mesh == GetInterface(item', result')
           P == Popped(f)
<1>1. /\ PoolInv /\ TableInv /\ free \in Seq(Items)
      /\ buffers \in [Items -> Names \cup {NoName}]
      /\ \A m \in Items : buffers[m] # NoName =>
           \E l \in Named : item[l] = m /\ name[l] = buffers[m]
  BY DEF MeshInv, PoolInv, DrawnUnderItsName
<1>2. \/ buffers' = P
      \/ ~looped' /\ mesh # Null /\ buffers' = [P EXCEPT ![mesh] = f]
  BY BuffersAfterLoad
<1>3. P \in [Items -> Names \cup {NoName}]
  BY <1>1 DEF Popped
<1>4. /\ buffers' \in [Items -> Names \cup {NoName}]
      /\ \A m \in Items : buffers'[m] = P[m] \/ buffers'[m] = f
  BY <1>2, <1>3
<1> HIDE DEF mesh, P
\* A load that stores nothing.
<1>5. CASE LoadThrows(f) \/ LoadObtains(f) \/ LoadHasNoRoom(f) \/ LoadFails(f)
  <2>1. Named' = Named /\ item' = item /\ name' = name
    BY <1>1, <1>5, TableAfterSearch DEF tableVars, Named
  <2>2. \A m \in Items : P[m] = buffers[m] \/ P[m] = NoName
    BY <1>1 DEF P, Popped
  <2>3. ASSUME NEW m \in Items, P[m] # NoName
        PROVE  \E l \in Named' : item'[l] = m /\ name'[l] = P[m]
    <3>1. P[m] = buffers[m]  BY <2>2, <2>3
    <3>2. PICK l \in Named : item[l] = m /\ name[l] = buffers[m]
      BY <3>1, <2>3, <1>1
    <3> QED  BY <3>1, <3>2, <2>1
  <2>4. CASE buffers' = P
    BY <2>3, <2>4, <1>4 DEF DrawnUnderItsName
  <2>5. CASE ~looped' /\ mesh # Null /\ buffers' = [P EXCEPT ![mesh] = f]
    <3>1. LoadObtains(f)
      BY <2>5, <1>5
         DEF LoadThrows, LoadHasNoRoom, LoadFails, mesh, GetInterface
    <3>2. PICK l \in Named : name[l] = f /\ GetItem(f) = l + 1
      BY <3>1, <1>1, SearchFinds DEF LoadObtains
    <3>3. (l + 1) - 1 = l /\ l + 1 # 1
      BY <1>1, NamedLocations, HashMgrAssumption DEF Home, Loc
    <3>4. mesh = item[l]
      BY <3>1, <3>2, <3>3, <2>1 DEF LoadObtains, mesh, GetInterface, DefaultItem
    <3>5. \A m \in Items : m # mesh => buffers'[m] = P[m]
      BY <2>5, <1>3
    <3>6. mesh \in Items => buffers'[mesh] = f
      BY <2>5, <1>3
    <3>7. ASSUME NEW m \in Items, buffers'[m] # NoName
          PROVE  \E k \in Named' : item'[k] = m /\ name'[k] = buffers'[m]
      <4>1. CASE m = mesh  BY <4>1, <3>2, <3>4, <3>6, <2>1
      <4>2. CASE m # mesh
        <5>1. buffers'[m] = P[m]  BY <4>2, <3>5
        <5> QED  BY <5>1, <3>7, <2>3
      <4> QED  BY <4>1, <4>2
    <3> QED  BY <3>7, <1>4 DEF DrawnUnderItsName
  <2> QED  BY <2>4, <2>5, <1>2
\* A load that stores the mesh it has popped.
<1>6. CASE free # << >> /\ LoadStores(f, Head(free))
  <2> DEFINE top == Head(free)
  <2>1. top \in Items  BY <1>1, <1>6, TailMembers
  <2>2. PICK loc \in Home :
          /\ item' = [item EXCEPT ![loc] = top]
          /\ result' = loc + 1
          /\ Named' = Named \cup {loc}
          /\ name'[loc] = f
          /\ \A l \in Named : l # loc /\ name'[l] = name[l]
    BY <1>1, <1>6, StoresAtHole
  <2>3. P = [buffers EXCEPT ![top] = NoName]
    BY <1>6 DEF P, Popped, LoadStores
  <2> HIDE DEF top
  <2>4. /\ item'[loc] = top
        /\ \A l \in Named : item'[l] = item[l]
    BY <2>2, <1>1 DEF PoolInv, TableInv, CountsAreRight, HashTypeOK, Home, Named
  <2>5. mesh = top
    <3>1. (loc + 1) - 1 = loc /\ loc + 1 # 1
      BY HashMgrAssumption DEF Home, Loc
    <3> QED  BY <3>1, <2>2, <2>4 DEF mesh, GetInterface, DefaultItem
  <2>6. \A m \in Items : m # top => buffers'[m] = buffers[m]
    BY <2>1, <2>3, <2>5, <1>1, <1>2
  <2>7. buffers'[top] = NoName \/ buffers'[top] = f
    BY <2>1, <2>3, <1>1, <1>4
  <2>8. ASSUME NEW m \in Items, buffers'[m] # NoName
        PROVE  \E l \in Named' : item'[l] = m /\ name'[l] = buffers'[m]
    <3>1. CASE m = top  BY <3>1, <2>2, <2>4, <2>7, <2>8
    <3>2. CASE m # top
      <4>1. PICK l \in Named : item[l] = m /\ name[l] = buffers[m]
        BY <3>2, <2>6, <2>8, <1>1
      <4> QED  BY <4>1, <3>2, <2>2, <2>4, <2>6
    <3> QED  BY <3>1, <3>2
  <2> QED  BY <2>8, <1>4 DEF DrawnUnderItsName
<1> QED  BY <1>4, <1>5, <1>6 DEF LoadMesh, PoolLoad

LEMMA MeshInvHolds == MeshSpec => []MeshInv
<1>1. MeshInit => buffers \in [Items -> Names \cup {NoName}] /\ DrawnUnderItsName
  BY DEF MeshInit, DrawnUnderItsName
<1>2. ASSUME MeshInv, PoolInv', [MeshNext]_meshVars
      PROVE  MeshInv'
  <2>1. /\ PoolInv
        /\ buffers \in [Items -> Names \cup {NoName}]
        /\ \A m \in Items : buffers[m] # NoName =>
             \E l \in Named : item[l] = m /\ name[l] = buffers[m]
    BY <1>2 DEF MeshInv, DrawnUnderItsName
  <2>2. ASSUME NEW f \in Names, NEW nod3d \in BOOLEAN, LoadMesh(f, nod3d)
        PROVE  MeshInv'
    BY <2>2, <1>2, DrawnAfterLoad DEF MeshInv
  <2>3. ASSUME NEW l \in Loc, UnloadMesh(l) PROVE MeshInv'
    <3>1. UnloadItem(l) /\ buffers' = [buffers EXCEPT ![item[l]] = NoName]
      BY <2>3 DEF UnloadMesh, PoolUnload
    <3>2. /\ l \in Used /\ item[l] \in Items
          /\ item' = [item EXCEPT ![l] = Null]
          /\ name' = [name EXCEPT ![l] = NoName]
          /\ Named' = Named \ {l}
      BY <3>1, <2>1, TableAfterUnload, PoolFacts DEF PoolInv, Used
    <3>3. \A k \in Named : k # l =>
            k \in Named' /\ item'[k] = item[k] /\ name'[k] = name[k]
      BY <3>2, <2>1
         DEF PoolInv, TableInv, CountsAreRight, HashTypeOK, Named, Home
    <3>4. buffers' \in [Items -> Names \cup {NoName}]
      BY <3>1, <2>1
    <3>5. ASSUME NEW m \in Items, buffers'[m] # NoName
          PROVE  \E k \in Named' : item'[k] = m /\ name'[k] = buffers'[m]
      <4>1. m # item[l] /\ buffers'[m] = buffers[m]
        BY <3>1, <3>2, <3>5, <2>1
      <4>2. PICK k \in Named : item[k] = m /\ name[k] = buffers[m]
        BY <4>1, <3>5, <2>1
      <4> QED  BY <4>1, <4>2, <3>3
    <3> QED  BY <3>4, <3>5, <1>2 DEF MeshInv, DrawnUnderItsName
  <2>4. CASE UnloadMeshes
    <3>1. buffers' = [m \in Items |-> IF m \in Held THEN NoName ELSE buffers[m]]
      BY <2>4 DEF UnloadMeshes
    <3>2. \A m \in Items : buffers[m] # NoName => m \in Held
      BY <2>1 DEF Held
    <3>3. \A m \in Items : buffers'[m] = NoName
      BY <3>1, <3>2
    <3>4. buffers' \in [Items -> Names \cup {NoName}]
      BY <3>1, <2>1
    <3> QED  BY <3>3, <3>4, <1>2 DEF MeshInv, DrawnUnderItsName
  <2>5. CASE UNCHANGED meshVars
    BY <2>5, <1>2
       DEF meshVars, poolVars, hashVars, tableVars, MeshInv, DrawnUnderItsName, Named
  <2> QED  BY <2>2, <2>3, <2>4, <2>5, <1>2 DEF MeshNext
<1>3. MeshSpec => []PoolInv
  BY MeshesAreOfAPool, PoolInvHolds, PTL
<1>4. MeshInit /\ PoolInv => MeshInv
  BY <1>1 DEF MeshInv
<1> QED  BY <1>2, <1>3, <1>4, PTL DEF MeshSpec

\* A mesh has the vertex and index buffers of the file it is in the table for,
\* or none, and one of the pool holds nothing of Direct3D's (lg_mmgr.cpp).
THEOREM MeshesDrawnUnderTheirNames == MeshSpec => []DrawnUnderItsName
<1>1. MeshInv => DrawnUnderItsName
  BY DEF MeshInv
<1> QED  BY <1>1, MeshInvHolds, PTL

\* No mesh is loaded over another, and where DoLoad gives back what it could not
\* load, every mesh is free or in the table (lg_mmgr.cpp).
THEOREM MeshesHaveOneUse == MeshSpec => []ItemsHaveOneUse
BY MeshesAreOfAPool, PoolItemsHaveOneUse, PTL
=============================================================================
