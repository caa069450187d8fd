-------------------------- MODULE ListStackProofs ---------------------------
(***************************************************************************)
(* For every number of nodes and every set of lists: the links of the      *)
(* CLListStack objects spell out the sequences their callers rely on.      *)
(***************************************************************************)
EXTENDS ListStack, SequenceLemmas

\* A count below the modulus does not wrap.
LEMMA SmallMod ==
  ASSUME NEW a \in Nat, NEW b \in Nat, a < b
  PROVE  a % b = a
OBVIOUS

-----------------------------------------------------------------------------
\* A list whose own fields, whose nodes and whose nodes' links an operation
\* does not touch still spells the same sequence.
LEMMA UntouchedList ==
  ASSUME NEW l \in Lists, Spells(l, contents[l]),
         contents'[l] = contents[l],
         first'[l] = first[l], last'[l] = last[l], count'[l] = count[l],
         \A i \in 1..Len(contents[l]) :
           /\ owner'[contents[l][i]] = owner[contents[l][i]]
           /\ next'[contents[l][i]] = next[contents[l][i]]
           /\ prev'[contents[l][i]] = prev[contents[l][i]]
  PROVE  Spells(l, contents[l])'
<1> DEFINE s == contents[l]
<1>1. first[l] = IF s = << >> THEN Null ELSE s[1]  BY DEF Spells
<1>2. last[l] = IF s = << >> THEN Null ELSE s[Len(s)]  BY DEF Spells
<1>3. \A i \in 1..Len(s) :
        /\ owner[s[i]] = l
        /\ next[s[i]] = IF i = Len(s) THEN Null ELSE s[i+1]
        /\ prev[s[i]] = IF i = 1 THEN Null ELSE s[i-1]
  BY DEF Spells
<1>4. (\A i, j \in 1..Len(s) : s[i] = s[j] => i = j) /\ count[l] = Len(s)
  BY DEF Spells
<1>5. (\A i \in 1..Len(s) :
        /\ owner[s[i]] = l
        /\ next[s[i]] = IF i = Len(s) THEN Null ELSE s[i+1]
        /\ prev[s[i]] = IF i = 1 THEN Null ELSE s[i-1])'
  BY <1>3
<1>6. contents'[l] = s
  OBVIOUS
<1> QED  BY <1>1, <1>2, <1>4, <1>5, <1>6 DEF Spells

\* The loop along m_pNext from m_pFirst visits the nodes of the list and no
\* others.
LEMMA ChainIsContents ==
  ASSUME TypeOK, NEW l \in Lists, Spells(l, contents[l])
  PROVE  Chain(l) = {contents[l][i] : i \in 1..Len(contents[l])}
<1> DEFINE s == contents[l]
           R == {s[i] : i \in 1..Len(s)}
<1>0. s \in Seq(Node) /\ Len(s) \in Nat /\ \A i \in 1..Len(s) : s[i] \in Node
  BY LenProperties, ElementOfSeq DEF TypeOK
<1>1. s = << >> <=> Len(s) = 0
  BY <1>0, EmptySeq
<1>2. /\ first[l] = IF s = << >> THEN Null ELSE s[1]
      /\ \A i \in 1..Len(s) : next[s[i]] = IF i = Len(s) THEN Null ELSE s[i+1]
  BY DEF Spells
<1> HIDE DEF s
<1>3. FollowsLinks(l, R)
  <2>1. first[l] # Null => first[l] \in R
    BY <1>0, <1>1, <1>2
  <2>2. ASSUME NEW i \in 1..Len(s), next[s[i]] # Null  PROVE next[s[i]] \in R
    <3>1. i # Len(s) /\ i+1 \in 1..Len(s)  BY <2>2, <1>0, <1>2
    <3> QED  BY <3>1, <1>2
  <2> QED  BY <2>1, <2>2 DEF FollowsLinks
<1>4. ASSUME NEW S \in SUBSET Node, FollowsLinks(l, S), NEW i \in 1..Len(s)
      PROVE  s[i] \in S
  <2> DEFINE T == {j \in 1..Len(s) : s[j] \notin S}
  <2>1. SUFFICES ASSUME T # {} PROVE FALSE
    OBVIOUS
  <2>2. T \in SUBSET Nat
    BY <1>0
  <2>3. PICK j \in T : \A k \in T : j <= k
    BY <2>1, <2>2, LeastElement
  <2>4. CASE j = 1
    <3>1. first[l] = s[1] /\ s[1] \in Node  BY <2>4, <1>0, <1>1, <1>2
    <3>2. s[1] # Null  BY <3>1, ListStackAssumption DEF Node
    <3> QED  BY <3>1, <3>2, <2>4, <1>4 DEF FollowsLinks
  <2>5. CASE j # 1
    <3>1. j-1 \in 1..Len(s) /\ j-1 \notin T  BY <2>3, <2>5, <1>0
    <3>2. s[j-1] \in S /\ next[s[j-1]] = s[j]  BY <3>1, <1>0, <1>2
    <3>3. s[j] # Null  BY <1>0, ListStackAssumption DEF Node
    <3> QED  BY <3>2, <3>3, <1>4 DEF FollowsLinks
  <2> QED  BY <2>4, <2>5
<1>5. R \in SUBSET Node
  BY <1>0
<1>6. Chain(l) \subseteq R
  BY <1>3, <1>5 DEF Chain
<1>7. R \subseteq Chain(l)
  BY <1>4, <1>5 DEF Chain
<1>8. Chain(l) = R
  BY <1>6, <1>7
<1> QED  BY <1>8 DEF s

-----------------------------------------------------------------------------
\* The inductive invariant.  The type of the links needs the links' meaning:
\* Remove writes through m_pLast->m_pPrev, a node because the list has two.
IInv == TypeOK /\ LinksSpellContents

\* What the invariant says of one list, unfolded.
LEMMA ListFacts ==
  ASSUME IInv, NEW k \in Lists
  PROVE  /\ contents[k] \in Seq(Node)
         /\ Len(contents[k]) \in Nat
         /\ contents[k] = << >> <=> Len(contents[k]) = 0
         /\ \A i \in 1..Len(contents[k]) :
              /\ contents[k][i] \in Node
              /\ contents[k][i] # Null
              /\ owner[contents[k][i]] = k
              /\ next[contents[k][i]] =
                   IF i = Len(contents[k]) THEN Null ELSE contents[k][i+1]
              /\ prev[contents[k][i]] = IF i = 1 THEN Null ELSE contents[k][i-1]
         /\ \A i, j \in 1..Len(contents[k]) :
              contents[k][i] = contents[k][j] => i = j
         /\ count[k] = Len(contents[k])
         /\ contents[k] = << >> => first[k] = Null /\ last[k] = Null
         /\ contents[k] # << >> =>
              /\ first[k] = contents[k][1] /\ first[k] \in Node
              /\ first[k] # Null
              /\ last[k] = contents[k][Len(contents[k])] /\ last[k] \in Node
<1>1. contents[k] \in Seq(Node)
  BY DEF IInv, TypeOK
<1>2. /\ Len(contents[k]) \in Nat
      /\ contents[k] = << >> <=> Len(contents[k]) = 0
      /\ \A i \in 1..Len(contents[k]) : contents[k][i] \in Node
  BY <1>1, LenProperties, ElementOfSeq, EmptySeq
<1>3. \A n \in Node : n # Null
  BY ListStackAssumption DEF Node
<1>4. Spells(k, contents[k])
  BY DEF IInv, LinksSpellContents
<1> QED  BY <1>1, <1>2, <1>3, <1>4 DEF Spells

\* Nodes of different lists are different: they are marked with their list.
LEMMA ListsDisjoint ==
  ASSUME IInv, NEW k \in Lists, NEW l \in Lists, k # l,
         NEW i \in 1..Len(contents[k]), NEW j \in 1..Len(contents[l])
  PROVE  contents[k][i] # contents[l][j]
<1>1. owner[contents[k][i]] = k  BY ListFacts
<1>2. owner[contents[l][j]] = l  BY ListFacts
<1> QED  BY <1>1, <1>2

\* A sequence of distinct nodes is no longer than there are nodes, so m_nCount
\* never comes near wrapping around.
LEMMA DistinctNodesFit ==
  ASSUME NEW s \in Seq(Node), \A i, j \in 1..Len(s) : s[i] = s[j] => i = j
  PROVE  Len(s) <= NumNodes
<1>1. s \in [1..Len(s) -> Node] /\ Len(s) \in Nat
  BY LenProperties
<1>2. IsFiniteSet(1..Len(s)) /\ Cardinality(1..Len(s)) = Len(s)
  <2>1. 1 \in Int /\ Len(s) \in Int  BY <1>1
  <2>2. /\ IsFiniteSet(1..Len(s))
        /\ Cardinality(1..Len(s)) = IF 1 > Len(s) THEN 0 ELSE Len(s)-1+1
    BY <2>1, FS_Interval
  <2> QED  BY <2>2, <1>1
<1>3. IsFiniteSet(Node) /\ Cardinality(Node) = NumNodes
  <2>1. 0 \in Int /\ NumNodes-1 \in Int /\ ~(0 > NumNodes-1)
    BY ListStackAssumption
  <2>2. /\ IsFiniteSet(0..NumNodes-1)
        /\ Cardinality(0..NumNodes-1)
             = IF 0 > NumNodes-1 THEN 0 ELSE NumNodes-1-0+1
    BY <2>1, FS_Interval
  <2> QED  BY <2>1, <2>2, ListStackAssumption DEF Node
<1>4. SUFFICES ASSUME NumNodes < Len(s)  PROVE FALSE
  BY <1>1, ListStackAssumption
<1>5. \E i, j \in 1..Len(s) : i # j /\ s[i] = s[j]
  BY <1>1, <1>2, <1>3, <1>4, FS_PigeonHole
<1> QED  BY <1>5

-----------------------------------------------------------------------------
LEMMA InitEstablishes == Init => IInv
<1> SUFFICES ASSUME Init PROVE IInv
  OBVIOUS
<1>1. << >> \in Seq(Node) /\ Len(<< >>) = 0
  BY EmptySeq
<1>2. TypeOK
  BY <1>1, ListStackAssumption DEF Init, Abs!Init, TypeOK
<1>3. LinksSpellContents
  BY <1>1 DEF Init, Abs!Init, LinksSpellContents, Spells
<1> QED  BY <1>2, <1>3 DEF IInv

LEMMA PushPreserves ==
  ASSUME IInv, NEW l \in Lists, NEW n \in Node, Push(l, n)
  PROVE  IInv'
<1> DEFINE s == contents[l]
           t == <<n>> \o s
<1>1. /\ s \in Seq(Node) /\ Len(s) \in Nat
      /\ s = << >> <=> Len(s) = 0
  BY ListFacts
<1>2. /\ t \in Seq(Node) /\ Len(t) = Len(s) + 1 /\ t # << >> /\ t[1] = n
      /\ \A i \in 2..Len(s)+1 : t[i] = s[i-1]
  BY <1>1, ConsProperties
<1>3. contents' = [contents EXCEPT ![l] = t] /\ contents'[l] = t
  BY DEF Push, Abs!Push, IInv, TypeOK
<1>4. \A k \in Lists : \A i \in 1..Len(contents[k]) : contents[k][i] # n
  <2>1. \A k \in Lists : DOMAIN contents[k] = 1..Len(contents[k])
    BY LenProperties DEF IInv, TypeOK
  <2> QED  BY <2>1 DEF Push, Abs!Push, Abs!Held, Abs!On
<1> HIDE DEF s, t
<1>5. \A i, j \in 1..Len(t) : t[i] = t[j] => i = j
  <2>1. \A i \in 2..Len(t) : i-1 \in 1..Len(s) /\ t[i] = s[i-1] /\ t[i] # n
    BY <1>1, <1>2, <1>4 DEF s
  <2>2. \A i, j \in 1..Len(s) : s[i] = s[j] => i = j
    BY ListFacts DEF s
  <2>3. \A i \in 1..Len(t) : i = 1 \/ i \in 2..Len(t)
    BY <1>1, <1>2
  <2>4. ASSUME NEW i \in 1..Len(t), NEW j \in 1..Len(t), t[i] = t[j]
        PROVE  i = j
    <3>1. CASE i = 1 \/ j = 1
      BY <3>1, <2>1, <2>3, <2>4, <1>2
    <3>2. CASE i # 1 /\ j # 1
      <4>1. i-1 = j-1  BY <3>2, <2>1, <2>2, <2>3, <2>4
      <4> QED  BY <4>1
    <3> QED  BY <3>1, <3>2
  <2> QED  BY <2>4
<1>6. Len(t) <= NumNodes /\ Len(t) % DWord = Len(t)
  <2>1. Len(t) <= NumNodes  BY <1>2, <1>5, DistinctNodesFit
  <2> QED  BY <2>1, <1>1, <1>2, ListStackAssumption
<1>7. TypeOK'
  <2>1. contents' \in [Lists -> Seq(Node)]
    BY <1>2, <1>3 DEF IInv, TypeOK
  <2>2. count' \in [Lists -> 0..DWord-1]
    BY ListStackAssumption DEF Push, PushNode, IInv, TypeOK
  <2> QED  BY <2>1, <2>2 DEF Push, PushNode, IInv, TypeOK
<1>8. Spells(l, contents[l])'
  <2>1. count'[l] = Len(t) /\ first'[l] = t[1]
    <3>1. count[l] = Len(s)  BY ListFacts DEF s
    <3> QED  BY <3>1, <1>1, <1>2, <1>6 DEF Push, PushNode, IInv, TypeOK
  <2>2. last'[l] = t[Len(t)]
    <3>1. CASE s = << >>
      BY <3>1, <1>1, <1>2, ListFacts DEF s, Push, PushNode, IInv, TypeOK
    <3>2. CASE s # << >>
      <4>1. first[l] # Null /\ last[l] = s[Len(s)]
        BY <3>2, ListFacts DEF s
      <4>2. last'[l] = last[l]
        BY <4>1 DEF Push, PushNode
      <4>3. Len(t) \in 2..Len(s)+1 /\ Len(t)-1 = Len(s)
        BY <3>2, <1>1, <1>2
      <4> QED  BY <4>1, <4>2, <4>3, <1>2
    <3> QED  BY <3>1, <3>2
  <2>3. ASSUME NEW i \in 1..Len(t)
        PROVE  /\ owner'[t[i]] = l
               /\ next'[t[i]] = IF i = Len(t) THEN Null ELSE t[i+1]
               /\ prev'[t[i]] = IF i = 1 THEN Null ELSE t[i-1]
    <3>0. t[i] \in Node /\ n \in Node
      BY <1>2, ElementOfSeq
    <3>1. CASE i = 1
      <4>1. first[l] # n
        BY <1>4, <1>1, ListFacts, ListStackAssumption DEF s, Node
      <4>2. owner'[n] = l /\ next'[n] = first[l] /\ prev'[n] = Null
        BY <4>1 DEF Push, PushNode, IInv, TypeOK
      <4>3. first[l] = IF 1 = Len(t) THEN Null ELSE t[2]
        <5>1. CASE s = << >>
          BY <5>1, <1>1, <1>2, ListFacts DEF s
        <5>2. CASE s # << >>
          <6>1. first[l] = s[1] /\ 2 \in 2..Len(s)+1 /\ Len(t) # 1
            BY <5>2, <1>1, <1>2, ListFacts DEF s
          <6> QED  BY <6>1, <1>2
        <5> QED  BY <5>1, <5>2
      <4> QED  BY <3>1, <4>2, <4>3, <1>2
    <3>2. CASE i # 1
      <4>1. i-1 \in 1..Len(s) /\ t[i] = s[i-1] /\ t[i] # n /\ s # << >>
        BY <3>2, <1>1, <1>2, <1>4 DEF s
      <4>2. owner[t[i]] = l /\ next[t[i]] = (IF i-1 = Len(s) THEN Null ELSE s[i])
        <5>1. i-1+1 = i  OBVIOUS
        <5> QED  BY <4>1, <5>1, ListFacts DEF s
      <4>3. owner'[t[i]] = owner[t[i]] /\ next'[t[i]] = next[t[i]]
        BY <4>1, <3>0 DEF Push, PushNode, IInv, TypeOK
      <4>4. next[t[i]] = IF i = Len(t) THEN Null ELSE t[i+1]
        <5>1. CASE i = Len(t)
          BY <5>1, <4>2, <1>1, <1>2
        <5>2. CASE i # Len(t)
          <6>1. i+1 \in 2..Len(s)+1 /\ i-1 # Len(s) /\ (i+1)-1 = i
            BY <5>2, <1>1, <1>2
          <6>2. t[i+1] = s[(i+1)-1]  BY <6>1, <1>2
          <6> QED  BY <6>1, <6>2, <5>2, <4>2
        <5> QED  BY <5>1, <5>2
      <4>5. prev'[t[i]] = t[i-1]
        <5>1. CASE i = 2
          <6>1. t[i] = first[l]  BY <5>1, <4>1, ListFacts DEF s
          <6> QED  BY <6>1, <5>1, <3>0, <1>2 DEF Push, PushNode
        <5>2. CASE i # 2
          <6>1. /\ i-1 # 1 /\ 1 \in 1..Len(s) /\ i-1 \in 2..Len(s)+1
                /\ (i-1)-1 = i-2
            BY <5>2, <3>2, <4>1, <1>1
          <6>2. s[i-1] # s[1] /\ first[l] = s[1]
            BY <6>1, <4>1, ListFacts DEF s
          <6>3. prev'[t[i]] = prev[t[i]]
            BY <6>2, <4>1, <3>0 DEF Push, PushNode
          <6>4. prev[t[i]] = s[(i-1)-1]
            BY <6>1, <4>1, ListFacts DEF s
          <6>5. t[i-1] = s[(i-1)-1]
            BY <6>1, <1>2
          <6> QED  BY <6>3, <6>4, <6>5
        <5> QED  BY <5>1, <5>2
      <4> QED  BY <3>2, <4>2, <4>3, <4>4, <4>5
    <3> QED  BY <3>1, <3>2
  <2> QED  BY SMTT(60), <2>1, <2>2, <2>3, <1>2, <1>3, <1>5 DEF Spells
<1>9. ASSUME NEW k \in Lists, k # l  PROVE Spells(k, contents[k])'
  <2>1. Spells(k, contents[k]) /\ contents'[k] = contents[k]
    BY <1>3, <1>9 DEF IInv, LinksSpellContents, TypeOK
  <2>2. first'[k] = first[k] /\ last'[k] = last[k] /\ count'[k] = count[k]
    BY <1>9 DEF Push, PushNode, IInv, TypeOK
  <2>3. ASSUME NEW i \in 1..Len(contents[k])
        PROVE  /\ owner'[contents[k][i]] = owner[contents[k][i]]
               /\ next'[contents[k][i]] = next[contents[k][i]]
               /\ prev'[contents[k][i]] = prev[contents[k][i]]
    <3>1. contents[k][i] \in Node /\ contents[k][i] # n /\ contents[k][i] # Null
      BY <1>4, ListFacts
    <3>2. contents[k][i] # first[l]
      <4>1. CASE s = << >>
        BY <4>1, <3>1, ListFacts DEF s
      <4>2. CASE s # << >>
        <5>1. 1 \in 1..Len(s) /\ first[l] = s[1]  BY <4>2, <1>1, ListFacts DEF s
        <5> QED  BY <5>1, <1>9, ListsDisjoint DEF s
      <4> QED  BY <4>1, <4>2
    <3> QED  BY <3>1, <3>2 DEF Push, PushNode, IInv, TypeOK
  <2> QED  BY <2>1, <2>2, <2>3, UntouchedList
<1> QED  BY <1>7, <1>8, <1>9 DEF IInv, LinksSpellContents

-----------------------------------------------------------------------------
\* A list none of whose nodes an operation touches: the nodes of list k are
\* marked with k, so it is enough to look at the nodes so marked.
LEMMA UnmarkedList ==
  ASSUME IInv, NEW k \in Lists, contents'[k] = contents[k],
         first'[k] = first[k], last'[k] = last[k], count'[k] = count[k],
         \A m \in Node : owner[m] = k => /\ owner'[m] = owner[m]
                                        /\ next'[m] = next[m]
                                        /\ prev'[m] = prev[m]
  PROVE  Spells(k, contents[k])'
<1>1. Spells(k, contents[k])
  BY DEF IInv, LinksSpellContents
<1>2. \A i \in 1..Len(contents[k]) :
        contents[k][i] \in Node /\ owner[contents[k][i]] = k
  BY ListFacts
<1> QED  BY <1>1, <1>2, UntouchedList

\* The node at place i of list l, unlinked by the branch of Remove that fits
\* its place.
Unlinked(l, i) ==
  \/ i = 1 /\ UnlinkFirst(l)
  \/ i # 1 /\ i = Len(contents[l]) /\ UnlinkLast(l)
  \/ i # 1 /\ i # Len(contents[l]) /\ UnlinkMiddle(contents[l][i])

\* All three branches do the same: the node before the unlinked one gets its
\* next, the node after it its prev, and at an end the list itself does.
LEMMA UnlinkedLinks ==
  ASSUME IInv, NEW l \in Lists, NEW i \in 1..Len(contents[l]), Unlinked(l, i)
  PROVE  /\ next' \in [Node -> Node \cup {Null}]
         /\ prev' \in [Node -> Node \cup {Null}]
         /\ first' = [first EXCEPT ![l] = IF i = 1 THEN next[contents[l][i]]
                                          ELSE @]
         /\ last' = [last EXCEPT ![l] = IF i = Len(contents[l])
                                        THEN prev[contents[l][i]] ELSE @]
         /\ next' = [m \in Node |->
              IF i # 1 /\ m = contents[l][i-1] THEN next[contents[l][i]]
              ELSE next[m]]
         /\ prev' = [m \in Node |->
              IF i # Len(contents[l]) /\ m = contents[l][i+1]
              THEN prev[contents[l][i]] ELSE prev[m]]
<1> DEFINE s == contents[l]
<1>1. /\ Len(s) \in Nat /\ i \in Nat
      /\ s # << >>
      /\ s[i] \in Node /\ s[i] # Null
      /\ next[s[i]] = IF i = Len(s) THEN Null ELSE s[i+1]
      /\ prev[s[i]] = IF i = 1 THEN Null ELSE s[i-1]
      /\ first[l] = s[1] /\ last[l] = s[Len(s)]
  BY ListFacts
<1>2. i # Len(s) => s[i+1] \in Node /\ s[i+1] # Null
  <2> SUFFICES ASSUME i # Len(s) PROVE s[i+1] \in Node /\ s[i+1] # Null
    OBVIOUS
  <2>1. i+1 \in 1..Len(s)  BY <1>1
  <2> QED  BY <2>1, ListFacts
<1>3. i # 1 => s[i-1] \in Node /\ s[i-1] # Null
  <2> SUFFICES ASSUME i # 1 PROVE s[i-1] \in Node /\ s[i-1] # Null
    OBVIOUS
  <2>1. i-1 \in 1..Len(s)  BY <1>1
  <2> QED  BY <2>1, ListFacts
<1>4. /\ next \in [Node -> Node \cup {Null}]
      /\ prev \in [Node -> Node \cup {Null}]
      /\ first \in [Lists -> Node \cup {Null}]
      /\ last \in [Lists -> Node \cup {Null}]
  BY DEF IInv, TypeOK
<1> HIDE DEF s
<1>5. CASE i = 1 /\ UnlinkFirst(l)
  BY <1>1, <1>2, <1>4, <1>5 DEF UnlinkFirst, s
<1>6. CASE i # 1 /\ i = Len(s) /\ UnlinkLast(l)
  BY <1>1, <1>3, <1>4, <1>6 DEF UnlinkLast, s
<1>7. CASE i # 1 /\ i # Len(s) /\ UnlinkMiddle(s[i])
  BY <1>1, <1>2, <1>3, <1>4, <1>7 DEF UnlinkMiddle, s
<1> QED  BY <1>5, <1>6, <1>7 DEF Unlinked, s

\* Unlinking the node at place i preserves the invariant, with t what is left
\* of the list; Pop also resets the node's m_nListStackID, Remove does not.
LEMMA TakingOutPreserves ==
  ASSUME IInv, NEW l \in Lists, NEW i \in 1..Len(contents[l]),
         NEW t \in Seq(Node),
         Len(t) = Len(contents[l]) - 1,
         \A j \in 1..Len(contents[l])-1 :
           t[j] = IF j < i THEN contents[l][j] ELSE contents[l][j+1],
         contents' = [contents EXCEPT ![l] = t],
         Unlinked(l, i), Decrement(l),
         owner' = owner \/ owner' = [owner EXCEPT ![contents[l][i]] = 0]
  PROVE  IInv'
<1> DEFINE s == contents[l]
<1>1. /\ Len(s) \in Nat /\ i \in Nat /\ i \in 1..Len(s) /\ s \in Seq(Node)
      /\ s # << >> /\ count[l] = Len(s)
      /\ first[l] = s[1] /\ last[l] = s[Len(s)]
      /\ \A p \in 1..Len(s) :
           /\ s[p] \in Node /\ s[p] # Null
           /\ owner[s[p]] = l
           /\ next[s[p]] = IF p = Len(s) THEN Null ELSE s[p+1]
           /\ prev[s[p]] = IF p = 1 THEN Null ELSE s[p-1]
      /\ \A p, q \in 1..Len(s) : s[p] = s[q] => p = q
  BY ListFacts
<1>2. /\ first' = [first EXCEPT ![l] = IF i = 1 THEN next[s[i]] ELSE @]
      /\ last' = [last EXCEPT ![l] = IF i = Len(s) THEN prev[s[i]] ELSE @]
      /\ next' = [m \in Node |-> IF i # 1 /\ m = s[i-1] THEN next[s[i]]
                                 ELSE next[m]]
      /\ prev' = [m \in Node |-> IF i # Len(s) /\ m = s[i+1] THEN prev[s[i]]
                                 ELSE prev[m]]
  BY UnlinkedLinks
<1>3. contents'[l] = t
  BY DEF IInv, TypeOK
<1>4. /\ Len(t) \in Nat /\ Len(t) = Len(s) - 1
      /\ \A j \in 1..Len(t) : t[j] = IF j < i THEN s[j] ELSE s[j+1]
      /\ t = << >> <=> Len(t) = 0
  BY <1>1, EmptySeq, LenProperties
<1>5. Len(s) <= NumNodes
  BY <1>1, DistinctNodesFit
<1>6. count' = [count EXCEPT ![l] = Len(t)] /\ Len(t) \in 0..DWord-1
  <2>1. count[l] - 1 = Len(t)
    BY <1>1, <1>4
  <2>2. Len(t) \in 0..DWord-1
    BY <1>1, <1>4, <1>5, ListStackAssumption
  <2>3. Len(t) % DWord = Len(t)
    <3>1. Len(t) \in Nat /\ DWord \in Nat /\ Len(t) < DWord
      BY <2>2, <1>4, ListStackAssumption
    <3> QED  BY <3>1, SmallMod
  <2> QED  BY <2>1, <2>2, <2>3 DEF Decrement
<1>7. TypeOK'
  <2>1. first' \in [Lists -> Node \cup {Null}] /\ last' \in [Lists -> Node \cup {Null}]
    BY <1>1, <1>2 DEF IInv, TypeOK
  <2>2. next' \in [Node -> Node \cup {Null}] /\ prev' \in [Node -> Node \cup {Null}]
    BY <1>1, UnlinkedLinks
  <2>3. owner' \in [Node -> Lists \cup {0}]
    BY DEF IInv, TypeOK
  <2>4. count' \in [Lists -> 0..DWord-1] /\ contents' \in [Lists -> Seq(Node)]
    BY <1>6 DEF IInv, TypeOK
  <2> QED  BY <2>1, <2>2, <2>3, <2>4 DEF TypeOK
<1>8. ASSUME NEW k \in Lists, k # l  PROVE Spells(k, contents[k])'
  <2>1. /\ contents'[k] = contents[k] /\ first'[k] = first[k]
        /\ last'[k] = last[k] /\ count'[k] = count[k]
    BY <1>2, <1>6, <1>8 DEF IInv, TypeOK
  <2>2. i # 1 => owner[s[i-1]] = l
    <3>1. i # 1 => i-1 \in 1..Len(s)  BY <1>1
    <3> QED  BY <3>1, <1>1
  <2>3. i # Len(s) => owner[s[i+1]] = l
    <3>1. i # Len(s) => i+1 \in 1..Len(s)  BY <1>1
    <3> QED  BY <3>1, <1>1
  <2>4. \A m \in Node : owner[m] = k => /\ owner'[m] = owner[m]
                                       /\ next'[m] = next[m]
                                       /\ prev'[m] = prev[m]
    BY <1>1, <1>2, <1>8, <2>2, <2>3 DEF IInv, TypeOK
  <2> QED  BY <2>1, <2>4, UnmarkedList
<1>9. Spells(l, contents[l])'
  <2> HIDE DEF s
  <2>1. first'[l] = IF t = << >> THEN Null ELSE t[1]
    <3>1. first'[l] = IF i = 1 THEN next[s[1]] ELSE s[1]
      BY <1>1, <1>2 DEF IInv, TypeOK
    <3>2. CASE Len(s) = 1
      BY <3>1, <3>2, <1>1, <1>4
    <3>3. CASE Len(s) # 1
      <4>1. t # << >> /\ 1 \in 1..Len(t) /\ 1 \in 1..Len(s)  BY <3>3, <1>1, <1>4
      <4>2. t[1] = IF i = 1 THEN s[1+1] ELSE s[1]  BY <4>1, <1>1, <1>4
      <4>3. next[s[1]] = s[1+1]  BY <4>1, <3>3, <1>1
      <4> QED  BY <4>1, <4>2, <4>3, <3>1
    <3> QED  BY <3>2, <3>3
  <2>2. last'[l] = IF t = << >> THEN Null ELSE t[Len(t)]
    <3>1. last'[l] = IF i = Len(s) THEN prev[s[Len(s)]] ELSE s[Len(s)]
      BY <1>1, <1>2 DEF IInv, TypeOK
    <3>2. CASE Len(s) = 1
      BY <3>1, <3>2, <1>1, <1>4
    <3>3. CASE Len(s) # 1
      <4>1. /\ t # << >> /\ Len(t) \in 1..Len(t) /\ Len(s) \in 1..Len(s)
            /\ Len(t) + 1 = Len(s) /\ Len(s) - 1 = Len(t)
        BY <3>3, <1>1, <1>4
      <4>2. t[Len(t)] = IF Len(t) < i THEN s[Len(t)] ELSE s[Len(s)]
        BY <4>1, <1>4
      <4>3. prev[s[Len(s)]] = s[Len(t)]  BY <4>1, <3>3, <1>1
      <4>4. Len(t) < i <=> i = Len(s)  BY <4>1, <1>1
      <4> QED  BY <4>1, <4>2, <4>3, <4>4, <3>1
    <3> QED  BY <3>2, <3>3
  <2>3. ASSUME NEW j \in 1..Len(t)
        PROVE  /\ owner'[t[j]] = l
               /\ next'[t[j]] = IF j = Len(t) THEN Null ELSE t[j+1]
               /\ prev'[t[j]] = IF j = 1 THEN Null ELSE t[j-1]
    <3> DEFINE p == IF j < i THEN j ELSE j+1
    <3>1. p \in 1..Len(s) /\ p # i /\ p \in Nat /\ t[j] = s[p]
      BY <1>1, <1>4
    <3>2. s[p] # s[i] /\ s[p] \in Node /\ i \in 1..Len(s)
      BY <3>1, <1>1
    <3>3. owner'[t[j]] = l
      BY <3>1, <3>2, <1>1 DEF IInv, TypeOK, s
    <3>4. next'[t[j]] = IF p+1 = i THEN next[s[i]] ELSE next[s[p]]
      <4>1. i # 1 => i-1 \in 1..Len(s)  BY <1>1
      <4>2. (i # 1 /\ s[p] = s[i-1]) <=> p+1 = i
        BY <4>1, <3>1, <1>1
      <4> QED  BY <4>2, <3>1, <3>2, <1>2
    <3>5. prev'[t[j]] = IF p-1 = i THEN prev[s[i]] ELSE prev[s[p]]
      <4>1. i # Len(s) => i+1 \in 1..Len(s)  BY <1>1
      <4>2. (i # Len(s) /\ s[p] = s[i+1]) <=> p-1 = i
        BY <4>1, <3>1, <1>1
      <4> QED  BY <4>2, <3>1, <3>2, <1>2
    <3>6. next'[t[j]] = IF j = Len(t) THEN Null ELSE t[j+1]
      <4>1. j+1 \in 1..Len(t) => t[j+1] = IF j+1 < i THEN s[j+1] ELSE s[j+1+1]
        BY <1>4
      <4>2. next[s[i]] = IF i = Len(s) THEN Null ELSE s[i+1]
        BY <1>1
      <4>3. next[s[p]] = IF p = Len(s) THEN Null ELSE s[p+1]
        BY <3>1, <1>1
      <4> QED  BY <3>4, <4>1, <4>2, <4>3, <1>1, <1>4
    <3>7. prev'[t[j]] = IF j = 1 THEN Null ELSE t[j-1]
      <4>1. j-1 \in 1..Len(t) => t[j-1] = IF j-1 < i THEN s[j-1] ELSE s[j-1+1]
        BY <1>4
      <4>2. prev[s[i]] = IF i = 1 THEN Null ELSE s[i-1]
        BY <1>1
      <4>3. prev[s[p]] = IF p = 1 THEN Null ELSE s[p-1]
        BY <3>1, <1>1
      <4> QED  BY <3>5, <4>1, <4>2, <4>3, <1>1, <1>4
    <3> QED  BY <3>3, <3>6, <3>7
  <2>4. \A j, k \in 1..Len(t) : t[j] = t[k] => j = k
    BY <1>1, <1>4
  <2>5. count'[l] = Len(t)
    BY <1>6 DEF IInv, TypeOK
  <2> QED  BY SMTT(60), <2>1, <2>2, <2>3, <2>4, <2>5, <1>3 DEF Spells
<1> QED  BY <1>7, <1>8, <1>9 DEF IInv, LinksSpellContents

-----------------------------------------------------------------------------
LEMMA PopPreserves ==
  ASSUME IInv, NEW l \in Lists, Pop(l)
  PROVE  IInv'
<1> DEFINE s == contents[l]
<1>1. /\ s \in Seq(Node) /\ Len(s) \in Nat /\ s # << >>
      /\ s = << >> <=> Len(s) = 0
      /\ first[l] = s[1]
  BY ListFacts DEF Pop, Abs!Pop
<1>2. 1 \in 1..Len(s)
  BY <1>1
<1>3. /\ Tail(s) \in Seq(Node)
      /\ Len(Tail(s)) = Len(s) - 1
      /\ \A j \in 1..Len(s)-1 : Tail(s)[j] = s[j+1]
  BY <1>1, HeadTailProperties
<1>4. \A j \in 1..Len(s)-1 : Tail(s)[j] = IF j < 1 THEN s[j] ELSE s[j+1]
  BY <1>1, <1>3
<1>5. contents' = [contents EXCEPT ![l] = Tail(s)]
  BY DEF Pop, Abs!Pop
<1>6. /\ Unlinked(l, 1) /\ Decrement(l)
      /\ owner' = [owner EXCEPT ![s[1]] = 0]
  BY <1>1 DEF Pop, PopNode, Unlinked
<1> QED  BY <1>2, <1>3, <1>4, <1>5, <1>6, TakingOutPreserves

LEMMA RemovePreserves ==
  ASSUME IInv, NEW l \in Lists, NEW i \in 1..NumNodes, RemoveItem(l, i)
  PROVE  IInv'
<1> DEFINE s == contents[l]
           n == s[i]
<1>1. i \in 1..Len(s) /\ s \in Seq(Node) /\ Len(s) \in Nat
  BY LenProperties, ListFacts DEF RemoveItem, Abs!RemoveItem
<1>2. /\ owner[n] = l /\ s # << >>
      /\ first[l] = s[1] /\ last[l] = s[Len(s)]
      /\ \A p, q \in 1..Len(s) : s[p] = s[q] => p = q
  BY <1>1, ListFacts
<1>3. 1 \in 1..Len(s) /\ Len(s) \in 1..Len(s)
  BY <1>1
<1>4. (n = first[l] <=> i = 1) /\ (n = last[l] <=> i = Len(s))
  BY <1>1, <1>2, <1>3
<1>5. Unlinked(l, i) /\ Decrement(l) /\ owner' = owner
  BY <1>2, <1>4 DEF RemoveItem, RemoveNode, Unlinked
<1>6. contents' = [contents EXCEPT ![l] = RemoveAt(s, i)]
  BY DEF RemoveItem, Abs!RemoveItem, Abs!RemoveAt, RemoveAt
<1>7. /\ RemoveAt(s, i) \in Seq(Node)
      /\ Len(RemoveAt(s, i)) = Len(s) - 1
      /\ \A j \in 1..Len(s)-1 :
           RemoveAt(s, i)[j] = IF j < i THEN s[j] ELSE s[j+1]
  BY <1>1, RemoveAtProperties
<1> QED  BY <1>1, <1>5, <1>6, <1>7, TakingOutPreserves

\* The id check of Remove: a node of another list is not unlinked from it.
LEMMA RemoveElsewhereKeeps ==
  ASSUME IInv, NEW l \in Lists, NEW k \in Lists, NEW i \in 1..NumNodes,
         RemoveElsewhere(l, k, i)
  PROVE  UNCHANGED vars
<1>1. i \in 1..Len(contents[k])
  BY LenProperties, ListFacts DEF RemoveElsewhere
<1>2. owner[contents[k][i]] # l
  BY <1>1, ListFacts DEF RemoveElsewhere
<1> QED  BY <1>2 DEF RemoveElsewhere, RemoveNode, links, vars

LEMMA ClearPreserves ==
  ASSUME IInv, NEW l \in Lists, Clear(l)
  PROVE  IInv'
<1>1. << >> \in Seq(Node) /\ Len(<< >>) = 0
  BY EmptySeq
<1>2. contents' = [contents EXCEPT ![l] = << >>] /\ contents'[l] = << >>
  BY DEF Clear, Abs!Clear, IInv, TypeOK
<1>3. \A m \in Node : m \in Chain(l) => owner[m] = l
  <2>1. Chain(l) = {contents[l][i] : i \in 1..Len(contents[l])}
    BY ChainIsContents DEF IInv, LinksSpellContents
  <2> QED  BY <2>1, ListFacts
<1>4. TypeOK'
  BY <1>1, <1>2, ListStackAssumption DEF Clear, ClearList, IInv, TypeOK
<1>5. Spells(l, contents[l])'
  BY <1>1, <1>2 DEF Clear, ClearList, Spells, IInv, TypeOK
<1>6. ASSUME NEW k \in Lists, k # l  PROVE Spells(k, contents[k])'
  <2>1. /\ contents'[k] = contents[k] /\ first'[k] = first[k]
        /\ last'[k] = last[k] /\ count'[k] = count[k]
    BY <1>2, <1>6 DEF Clear, ClearList, IInv, TypeOK
  <2>2. \A m \in Node : owner[m] = k => /\ owner'[m] = owner[m]
                                       /\ next'[m] = next[m]
                                       /\ prev'[m] = prev[m]
    BY <1>3, <1>6 DEF Clear, ClearList
  <2> QED  BY <2>1, <2>2, UnmarkedList
<1> QED  BY <1>4, <1>5, <1>6 DEF IInv, LinksSpellContents

LEMMA InitItemsPreserves ==
  ASSUME IInv, NEW l \in Lists, InitItems(l)
  PROVE  IInv'
<1> DEFINE t == [i \in 1..NumNodes |-> NumNodes - i]
<1>1. /\ t \in Seq(Node) /\ Len(t) = NumNodes /\ t # << >>
      /\ \A i \in 1..NumNodes : t[i] = NumNodes - i
  <2>1. t \in [1..NumNodes -> Node]  BY ListStackAssumption DEF Node
  <2>2. t \in Seq(Node) /\ Len(t) = NumNodes
    BY <2>1, ListStackAssumption, SeqDef, LenProperties
  <2> QED  BY <2>2, ListStackAssumption, EmptySeq
<1>2. /\ contents' = [contents EXCEPT ![l] = t]
      /\ \A k \in Lists \ {l} : contents[k] = << >>
  BY DEF InitItems, Abs!InitItems
<1> HIDE DEF t
<1>3. contents'[l] = t /\ \A k \in Lists \ {l} : contents'[k] = << >>
  BY <1>2 DEF IInv, TypeOK
<1>4. NumNodes % DWord = NumNodes /\ NumNodes \in 0..DWord-1
  BY ListStackAssumption
<1>5. TypeOK'
  <2>1. contents' \in [Lists -> Seq(Node)]
    BY <1>1, <1>2 DEF IInv, TypeOK
  <2>2. next' \in [Node -> Node \cup {Null}] /\ prev' \in [Node -> Node \cup {Null}]
    <3>1. \A n \in Node : n # 0 => n - 1 \in Node
      BY ListStackAssumption DEF Node
    <3>2. \A n \in Node : n # NumNodes - 1 => n + 1 \in Node
      BY ListStackAssumption DEF Node
    <3> QED  BY <3>1, <3>2 DEF InitItems, InitList
  <2>3. owner' \in [Node -> Lists \cup {0}]
    BY DEF InitItems, InitList
  <2>4. /\ first' \in [Lists -> Node \cup {Null}]
        /\ last' \in [Lists -> Node \cup {Null}]
    <3>1. 0 \in Node /\ NumNodes - 1 \in Node
      BY ListStackAssumption DEF Node
    <3> QED  BY <3>1 DEF InitItems, InitList, IInv, TypeOK
  <2>5. count' \in [Lists -> 0..DWord-1]
    BY <1>4 DEF InitItems, InitList, IInv, TypeOK
  <2> QED  BY <2>1, <2>2, <2>3, <2>4, <2>5 DEF TypeOK
<1>6. Spells(l, contents[l])'
  <2>1. /\ count'[l] = Len(t) /\ first'[l] = NumNodes - 1 /\ last'[l] = 0
    BY <1>1, <1>4 DEF InitItems, InitList, IInv, TypeOK
  <2>2. t[1] = NumNodes - 1 /\ t[Len(t)] = 0
    BY <1>1, ListStackAssumption
  <2>3. ASSUME NEW i \in 1..Len(t)
        PROVE  /\ owner'[t[i]] = l
               /\ next'[t[i]] = IF i = Len(t) THEN Null ELSE t[i+1]
               /\ prev'[t[i]] = IF i = 1 THEN Null ELSE t[i-1]
    <3>1. t[i] = NumNodes - i /\ t[i] \in Node
      BY <1>1, ListStackAssumption DEF Node
    <3>2. i # Len(t) => t[i+1] = t[i] - 1
      BY <3>1, <1>1, ListStackAssumption
    <3>3. i # 1 => t[i-1] = t[i] + 1
      BY <3>1, <1>1, ListStackAssumption
    <3>4. (t[i] = 0 <=> i = Len(t)) /\ (t[i] = NumNodes - 1 <=> i = 1)
      BY <3>1, <1>1, ListStackAssumption
    <3> QED  BY <3>1, <3>2, <3>3, <3>4 DEF InitItems, InitList
  <2>4. \A i, j \in 1..Len(t) : t[i] = t[j] => i = j
    BY <1>1, ListStackAssumption
  <2> QED  BY SMTT(60), <2>1, <2>2, <2>3, <2>4, <1>1, <1>3 DEF Spells
<1>7. ASSUME NEW k \in Lists, k # l  PROVE Spells(k, contents[k])'
  <2>1. /\ contents[k] = << >> /\ contents'[k] = << >> /\ Len(<< >>) = 0
    BY <1>2, <1>3, <1>7, EmptySeq
  <2>2. /\ first'[k] = first[k] /\ last'[k] = last[k] /\ count'[k] = count[k]
    BY <1>7 DEF InitItems, InitList, IInv, TypeOK
  <2>3. first[k] = Null /\ last[k] = Null /\ count[k] = 0
    BY <2>1, ListFacts
  <2> QED  BY <2>1, <2>2, <2>3 DEF Spells
<1> QED  BY <1>5, <1>6, <1>7 DEF IInv, LinksSpellContents

LEMMA StutterPreserves ==
  ASSUME IInv, UNCHANGED vars
  PROVE  IInv'
BY DEF IInv, TypeOK, LinksSpellContents, Spells, vars

LEMMA StepPreserves == IInv /\ [Next]_vars => IInv'
<1> SUFFICES ASSUME IInv, [Next]_vars PROVE IInv'
  OBVIOUS
<1>1. ASSUME NEW l \in Lists, NEW n \in Node, Push(l, n)  PROVE IInv'
  BY <1>1, PushPreserves
<1>2. ASSUME NEW l \in Lists, Pop(l)  PROVE IInv'
  BY <1>2, PopPreserves
<1>3. ASSUME NEW l \in Lists, NEW i \in 1..NumNodes, RemoveItem(l, i)  PROVE IInv'
  BY <1>3, RemovePreserves
<1>4. ASSUME NEW l \in Lists, NEW k \in Lists, NEW i \in 1..NumNodes,
             RemoveElsewhere(l, k, i)
      PROVE  IInv'
  BY <1>4, RemoveElsewhereKeeps, StutterPreserves
<1>5. ASSUME NEW l \in Lists, Clear(l)  PROVE IInv'
  BY <1>5, ClearPreserves
<1>6. ASSUME NEW l \in Lists, InitItems(l)  PROVE IInv'
  BY <1>6, InitItemsPreserves
<1>7. CASE UNCHANGED vars
  BY <1>7, StutterPreserves
<1> QED  BY <1>1, <1>2, <1>3, <1>4, <1>5, <1>6, <1>7 DEF Next

\* For every number of nodes and every set of lists, the links stay typed: no
\* branch of Remove writes through a null m_pPrev or m_pNext.
THEOREM TypeCorrect == Spec => []TypeOK
<1>1. IInv => TypeOK
  BY DEF IInv
<1> QED  BY <1>1, InitEstablishes, StepPreserves, PTL DEF Spec

\* For every number of nodes and every set of lists, whatever the order of the
\* calls, the links of each list spell out what its callers put on it and did
\* not take off.
THEOREM LinksAreRight == Spec => []LinksSpellContents
<1>1. IInv => LinksSpellContents
  BY DEF IInv
<1> QED  BY <1>1, InitEstablishes, StepPreserves, PTL DEF Spec

-----------------------------------------------------------------------------
(* The lists, as a loop along the links reads them, are the lists of the     *)
(* header.                                                                   *)

\* Walking a list reads off its contents.
LEMMA WalkIsContents ==
  ASSUME IInv, NEW l \in Lists
  PROVE  Walk(l) = contents[l]
<1> DEFINE s == contents[l]
           n == Len(s)
           Step(at, k) == IF k = 1 THEN first[l]
                          ELSE IF at[k-1] = Null THEN Null ELSE next[at[k-1]]
           w == [k \in 1..NumNodes |-> IF k <= n THEN s[k] ELSE Null]
           at == CHOOSE f : f = [k \in 1..NumNodes |-> Step(f, k)]
<1>1. /\ s \in Seq(Node) /\ n \in Nat /\ NumNodes \in Nat
      /\ s = << >> <=> n = 0
      /\ \A i \in 1..n : /\ s[i] \in Node /\ s[i] # Null
                        /\ next[s[i]] = IF i = n THEN Null ELSE s[i+1]
      /\ \A i, j \in 1..n : s[i] = s[j] => i = j
      /\ first[l] = IF n = 0 THEN Null ELSE s[1]
  BY ListFacts, ListStackAssumption
<1>2. n <= NumNodes
  BY <1>1, DistinctNodesFit
<1>3. Walk(l) = SubSeq(at, 1, Cardinality({k \in 1..NumNodes : at[k] # Null}))
  BY DEF Walk
<1> HIDE DEF s, n
<1>4. ASSUME NEW k \in 1..NumNodes  PROVE w[k] = Step(w, k)
  <2>1. CASE k = 1
    BY <2>1, <1>1
  <2>2. CASE k # 1
    <3>1. k-1 \in 1..NumNodes /\ w[k-1] = IF k-1 <= n THEN s[k-1] ELSE Null
      BY <2>2, <1>1
    <3>2. CASE k-1 <= n
      <4>1. k-1 \in 1..n  BY <3>1, <3>2, <1>1
      <4>2. w[k-1] # Null /\ next[w[k-1]] = IF k-1 = n THEN Null ELSE s[(k-1)+1]
        BY <4>1, <3>1, <3>2, <1>1
      <4>3. w[k] = IF k-1 = n THEN Null ELSE s[k]
        BY <3>2, <1>1
      <4> QED  BY <2>2, <4>2, <4>3
    <3>3. CASE ~(k-1 <= n)
      <4>1. w[k-1] = Null /\ w[k] = Null  BY <3>1, <3>3, <1>1
      <4> QED  BY <4>1, <2>2
    <3> QED  BY <3>2, <3>3
  <2> QED  BY <2>1, <2>2
<1>5. w = [k \in 1..NumNodes |-> Step(w, k)]
  BY <1>4
<1>6. at = [k \in 1..NumNodes |-> Step(at, k)]
  <2> HIDE DEF w
  <2> QED  BY <1>5
<1> HIDE DEF at
<1>7. \A k \in 1..NumNodes : at[k] = w[k]
  <2> DEFINE T == {k \in 1..NumNodes : at[k] # w[k]}
  <2>1. SUFFICES ASSUME T # {} PROVE FALSE
    OBVIOUS
  <2>2. PICK k \in T : \A j \in T : k <= j
    <3>1. T \in SUBSET Nat  BY <1>1
    <3> QED  BY <2>1, <3>1, LeastElement
  <2>3. k \in 1..NumNodes /\ at[k] # w[k]
    BY <2>2
  <2> HIDE DEF w
  <2>4. at[k] = Step(at, k)
    BY <2>3, <1>6
  <2>5. w[k] = Step(w, k)
    BY <2>3, <1>4
  <2>6. k # 1 => at[k-1] = w[k-1]
    <3>1. k # 1 => k-1 \in 1..NumNodes /\ ~(k <= k-1)  BY <2>3, <1>1
    <3> QED  BY <3>1, <2>2
  <2> QED  BY <2>3, <2>4, <2>5, <2>6
<1>8. at = w
  BY <1>6, <1>7
<1>9. Cardinality({k \in 1..NumNodes : at[k] # Null}) = n
  <2>1. {k \in 1..NumNodes : w[k] # Null} = 1..n
    BY <1>1, <1>2
  <2>2. Cardinality(1..n) = n
    <3>1. Cardinality(1..n) = IF 1 > n THEN 0 ELSE n - 1 + 1
      BY <1>1, FS_Interval
    <3> QED  BY <3>1, <1>1
  <2> HIDE DEF w
  <2> QED  BY <2>1, <2>2, <1>8
<1>10. SubSeq(w, 1, n) = s
  <2>1. w \in Seq(Node \cup {Null}) /\ Len(w) = NumNodes
    BY <1>1
  <2>2. SubSeq(w, 1, n) = [i \in 1..n |-> w[i]]
    BY <1>1, <1>2, <2>1
  <2>3. s = [i \in 1..n |-> s[i]]
    BY <1>1 DEF n
  <2> QED  BY <2>2, <2>3, <1>1, <1>2
<1> QED  BY <1>3, <1>8, <1>9, <1>10 DEF s

\* The links written by every call are those of a list the header allows, for
\* every number of nodes and every set of lists.
THEOREM ListsAreImplemented == Spec => ImplementsLists
<1> DEFINE Walks == [l \in Lists |-> Walk(l)]
<1>1. IInv => Walks = contents
  BY WalkIsContents DEF IInv, TypeOK
<1>2. Init /\ Walks = contents => Walked!Init
  BY DEF Init, Abs!Init, Walked!Init
<1>3. ASSUME [Next]_vars, Walks = contents, Walks' = contents'
      PROVE  [Walked!Next]_Walks
  <2>1. ASSUME NEW l \in Lists, NEW n \in Node, Push(l, n)  PROVE Walked!Next
    <3>1. Walked!Push(l, n)
      BY <2>1, <1>3 DEF Push, Abs!Push, Abs!Held, Abs!On, Walked!Push, Walked!Held, Walked!On
    <3> QED  BY <3>1 DEF Walked!Next, Walked!Node, Node
  <2>2. ASSUME NEW l \in Lists, Pop(l)  PROVE Walked!Next
    BY <2>2, <1>3 DEF Pop, Abs!Pop, Walked!Next, Walked!Pop
  <2>3. ASSUME NEW l \in Lists, NEW i \in 1..NumNodes, RemoveItem(l, i)
        PROVE  Walked!Next
    <3>1. i \in DOMAIN contents[l]
          /\ contents' = [contents EXCEPT ![l] = Abs!RemoveAt(contents[l], i)]
      BY <2>3 DEF RemoveItem, Abs!RemoveItem
    <3>2. Abs!RemoveAt(contents[l], i) = Walked!RemoveAt(contents[l], i)
      BY DEF Abs!RemoveAt, Walked!RemoveAt
    <3>3. Walked!RemoveItem(l, i)
      BY <3>1, <3>2, <1>3 DEF Walked!RemoveItem
    <3> QED  BY <3>3 DEF Walked!Next
  <2>4. ASSUME NEW l \in Lists, NEW k \in Lists, NEW i \in 1..NumNodes,
               RemoveElsewhere(l, k, i)
        PROVE  UNCHANGED Walks
    BY <2>4, <1>3 DEF RemoveElsewhere
  <2>5. ASSUME NEW l \in Lists, Clear(l)  PROVE Walked!Next
    BY <2>5, <1>3 DEF Clear, Abs!Clear, Walked!Next, Walked!Clear
  <2>6. ASSUME NEW l \in Lists, InitItems(l)  PROVE Walked!Next
    BY <2>6, <1>3 DEF InitItems, Abs!InitItems, Walked!Next, Walked!InitItems
  <2>7. CASE UNCHANGED vars
    BY <2>7, <1>3 DEF vars
  <2> QED  BY <1>3, <2>1, <2>2, <2>3, <2>4, <2>5, <2>6, <2>7 DEF Next
<1> QED
  <2>1. Init => IInv  BY InitEstablishes
  <2>2. IInv /\ [Next]_vars => IInv'  BY StepPreserves
  <2>3. [Next]_vars /\ Walks = contents /\ (Walks = contents)' => [Walked!Next]_Walks
    BY <1>3
  <2>4. Init => Walked!Init
    BY <1>1, <1>2, <2>1
  <2> HIDE DEF Walks
  <2>5. Spec => []IInv
    BY <2>1, <2>2, PTL DEF Spec
  <2>6. Spec => Walked!Spec
    BY <1>1, <2>3, <2>4, <2>5, PTL DEF Spec, Walked!Spec, Walks
  <2> QED  BY <2>6 DEF ImplementsLists
====
