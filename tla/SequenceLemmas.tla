--------------------------- MODULE SequenceLemmas ---------------------------
(***************************************************************************)
(* What the operations of a list do to the sequence of its members: to     *)
(* their positions, to the set of them, and to their being distinct.       *)
(***************************************************************************)
EXTENDS Integers, Sequences, SequencesExt, SequenceTheorems, WellFoundedInduction,
        FiniteSetTheorems, TLAPS

\* What the front of a list looks like after a push.
LEMMA ConsProperties ==
  ASSUME NEW S, NEW s \in Seq(S), NEW e \in S
  PROVE  /\ <<e>> \o s \in Seq(S)
         /\ Len(<<e>> \o s) = Len(s) + 1
         /\ <<e>> \o s # << >>
         /\ (<<e>> \o s)[1] = e
         /\ \A i \in 2..Len(s)+1 : (<<e>> \o s)[i] = s[i-1]
<1>1. <<e>> \in Seq(S) /\ Len(<<e>>) = 1 /\ <<e>>[1] = e
  OBVIOUS
<1> QED  BY <1>1, ConcatProperties

\* What is left of a list when its i-th node is taken out.
LEMMA RemoveAtProperties ==
  ASSUME NEW S, NEW s \in Seq(S), NEW i \in 1..Len(s)
  PROVE  /\ RemoveAt(s, i) \in Seq(S)
         /\ Len(RemoveAt(s, i)) = Len(s) - 1
         /\ \A j \in 1..Len(s)-1 :
              RemoveAt(s, i)[j] = IF j < i THEN s[j] ELSE s[j+1]
<1> DEFINE f == SubSeq(s, 1, i-1)
           g == SubSeq(s, i+1, Len(s))
<1>0. Len(s) \in Nat /\ \A j \in 1..Len(s) : s[j] \in S
  BY LenProperties, ElementOfSeq
<1>1. f \in Seq(S) /\ Len(f) = i-1 /\ \A j \in 1..i-1 : f[j] = s[j]
  BY <1>0, SubSeqProperties
<1>2. g \in Seq(S) /\ Len(g) = Len(s)-i /\ \A j \in 1..Len(s)-i : g[j] = s[i+j]
  BY <1>0, SubSeqProperties
<1>3. RemoveAt(s, i) = f \o g
  BY DEF RemoveAt
<1> HIDE DEF f, g
<1>4. /\ f \o g \in Seq(S)
      /\ Len(f \o g) = Len(s)-1
      /\ \A j \in 1..Len(s)-1 : (f \o g)[j] = IF j <= i-1 THEN f[j] ELSE g[j-(i-1)]
  <2>1. /\ f \o g \in Seq(S)
        /\ Len(f \o g) = Len(f) + Len(g)
        /\ \A j \in 1..Len(f) + Len(g) :
             (f \o g)[j] = IF j <= Len(f) THEN f[j] ELSE g[j - Len(f)]
    BY <1>1, <1>2, ConcatProperties
  <2> QED  BY <2>1, <1>0, <1>1, <1>2
<1>5. ASSUME NEW j \in 1..Len(s)-1
      PROVE  (f \o g)[j] = IF j < i THEN s[j] ELSE s[j+1]
  <2>1. CASE j < i
    <3>0. j <= i-1  BY <2>1, <1>0
    <3>1. (f \o g)[j] = f[j]  BY <3>0, <1>4
    <3> QED  BY <3>1, <2>1, <1>0, <1>1
  <2>2. CASE ~(j < i)
    <3>1. (f \o g)[j] = g[j-(i-1)]  BY <2>2, <1>0, <1>4
    <3>2. j-(i-1) \in 1..Len(s)-i /\ i + (j-(i-1)) = j+1  BY <2>2, <1>0
    <3>3. g[j-(i-1)] = s[j+1]  BY <3>2, <1>2
    <3> QED  BY <3>1, <3>3, <2>2
  <2> QED  BY <2>1, <2>2
<1> QED  BY <1>3, <1>4, <1>5

-----------------------------------------------------------------------------
\* Positions of a sequence, for the lemmas below.
LEMMA Positions ==
  ASSUME NEW S, NEW s \in Seq(S)
  PROVE  /\ Len(s) \in Nat
         /\ DOMAIN s = 1..Len(s)
         /\ ToSet(s) = {s[i] : i \in 1..Len(s)}
         /\ \A i \in 1..Len(s) : s[i] \in S /\ s[i] \in ToSet(s)
         /\ ToSet(s) \subseteq S
         /\ s = << >> <=> Len(s) = 0
         /\ s = << >> <=> ToSet(s) = {}
         /\ IsInjective(s) <=> \A i, j \in 1..Len(s) : s[i] = s[j] => i = j
<1>1. Len(s) \in Nat /\ DOMAIN s = 1..Len(s)
  BY LenProperties
<1>2. \A i \in 1..Len(s) : s[i] \in S
  BY ElementOfSeq
<1>3. s = << >> <=> Len(s) = 0
  BY EmptySeq, <1>1
<1>4. ToSet(s) = {s[i] : i \in 1..Len(s)}
  BY <1>1 DEF ToSet
<1>5. s = << >> <=> ToSet(s) = {}
  <2>1. Len(s) = 0 => ToSet(s) = {}  BY <1>4
  <2>2. Len(s) # 0 => 1 \in 1..Len(s)  BY <1>1
  <2>3. Len(s) # 0 => s[1] \in ToSet(s)  BY <2>2, <1>4
  <2> QED  BY <2>1, <2>3, <1>3
<1>6. IsInjective(s) <=> \A i, j \in 1..Len(s) : s[i] = s[j] => i = j
  BY <1>1 DEF IsInjective
<1> QED  BY <1>1, <1>2, <1>3, <1>4, <1>5, <1>6

\* The members of two sequences put together; they are distinct when those of
\* each are and the two have none in common.
LEMMA ConcatMembers ==
  ASSUME NEW S, NEW s \in Seq(S), NEW t \in Seq(S)
  PROVE  /\ s \o t \in Seq(S)
         /\ ToSet(s \o t) = ToSet(s) \cup ToSet(t)
         /\ IsInjective(s \o t) <=>
              IsInjective(s) /\ IsInjective(t) /\ ToSet(s) \cap ToSet(t) = {}
<1> DEFINE u == s \o t
           m == Len(s)
           n == Len(t)
<1>1. /\ u \in Seq(S) /\ Len(u) = m + n /\ m \in Nat /\ n \in Nat
      /\ \A i \in 1..m+n : u[i] = IF i <= m THEN s[i] ELSE t[i-m]
  BY ConcatProperties, LenProperties
<1>2. /\ ToSet(u) = {u[i] : i \in 1..m+n}
      /\ IsInjective(u) <=> \A i, j \in 1..m+n : u[i] = u[j] => i = j
  BY <1>1, Positions
<1>3. /\ ToSet(s) = {s[i] : i \in 1..m}
      /\ IsInjective(s) <=> \A i, j \in 1..m : s[i] = s[j] => i = j
      /\ ToSet(t) = {t[i] : i \in 1..n}
      /\ IsInjective(t) <=> \A i, j \in 1..n : t[i] = t[j] => i = j
  BY Positions
<1> HIDE DEF u, m, n
<1>4. \A i \in 1..m : i \in 1..m+n /\ u[i] = s[i]
  BY <1>1
<1>5. \A i \in 1..n : m+i \in 1..m+n /\ u[m+i] = t[i]
  <2> TAKE i \in 1..n
  <2>1. m+i \in 1..m+n /\ ~(m+i <= m) /\ (m+i)-m = i  BY <1>1
  <2> QED  BY <2>1, <1>1
<1>6. \A k \in 1..m+n : k \in 1..m \/ \E i \in 1..n : k = m+i
  <2> TAKE k \in 1..m+n
  <2>1. k \in 1..m \/ k-m \in 1..n  BY <1>1
  <2>2. k = m + (k-m)  BY <1>1
  <2> QED  BY <2>1, <2>2
<1>7. ToSet(u) = ToSet(s) \cup ToSet(t)
  <2>1. ToSet(u) \subseteq ToSet(s) \cup ToSet(t)
    <3> SUFFICES ASSUME NEW k \in 1..m+n PROVE u[k] \in ToSet(s) \cup ToSet(t)
      BY <1>2
    <3> QED  BY <1>3, <1>4, <1>5, <1>6
  <2>2. ToSet(s) \subseteq ToSet(u)  BY <1>2, <1>3, <1>4
  <2>3. ToSet(t) \subseteq ToSet(u)
    <3> SUFFICES ASSUME NEW i \in 1..n PROVE t[i] \in ToSet(u)
      BY <1>3
    <3> QED  BY <1>2, <1>5
  <2> QED  BY <2>1, <2>2, <2>3
<1>8. ASSUME IsInjective(u)
      PROVE  IsInjective(s) /\ IsInjective(t) /\ ToSet(s) \cap ToSet(t) = {}
  <2>1. IsInjective(s)  BY <1>8, <1>2, <1>3, <1>4
  <2>2. ASSUME NEW i \in 1..n, NEW j \in 1..n, t[i] = t[j] PROVE i = j
    <3>1. m+i = m+j  BY <2>2, <1>8, <1>2, <1>5
    <3> QED  BY <3>1, <1>1
  <2>3. ASSUME NEW i \in 1..m, NEW j \in 1..n, s[i] = t[j] PROVE FALSE
    <3>1. i = m+j  BY <2>3, <1>8, <1>2, <1>4, <1>5
    <3> QED  BY <3>1, <1>1
  <2>4. ToSet(s) \cap ToSet(t) = {}  BY <2>3, <1>3
  <2> QED  BY <2>1, <2>2, <2>4, <1>3
<1>9. ASSUME IsInjective(s), IsInjective(t), ToSet(s) \cap ToSet(t) = {}
      PROVE  IsInjective(u)
  <2> SUFFICES ASSUME NEW k \in 1..m+n, NEW l \in 1..m+n, u[k] = u[l] PROVE k = l
    BY <1>2
  <2>1. \A i \in 1..m, j \in 1..n : s[i] # t[j]  BY <1>9, <1>3
  <2>2. CASE k \in 1..m /\ l \in 1..m  BY <2>2, <1>4, <1>9, <1>3
  <2>3. CASE k \in 1..m /\ l \notin 1..m
    <3>1. PICK j \in 1..n : l = m+j  BY <2>3, <1>6
    <3> QED  BY <3>1, <2>3, <2>1, <1>4, <1>5
  <2>4. CASE k \notin 1..m /\ l \in 1..m
    <3>1. PICK j \in 1..n : k = m+j  BY <2>4, <1>6
    <3> QED  BY <3>1, <2>4, <2>1, <1>4, <1>5
  <2>5. CASE k \notin 1..m /\ l \notin 1..m
    <3>1. PICK i \in 1..n : k = m+i  BY <2>5, <1>6
    <3>2. PICK j \in 1..n : l = m+j  BY <2>5, <1>6
    <3>3. t[i] = t[j]  BY <3>1, <3>2, <1>5
    <3> QED  BY <3>1, <3>2, <3>3, <1>9, <1>3
  <2> QED  BY <2>2, <2>3, <2>4, <2>5
<1> QED  BY <1>1, <1>7, <1>8, <1>9 DEF u

\* Push: the members of a list with a new one in front.
LEMMA ConsMembers ==
  ASSUME NEW S, NEW s \in Seq(S), NEW e \in S
  PROVE  /\ <<e>> \o s \in Seq(S)
         /\ ToSet(<<e>> \o s) = {e} \cup ToSet(s)
         /\ IsInjective(<<e>> \o s) <=> IsInjective(s) /\ e \notin ToSet(s)
<1> DEFINE u == <<e>>
<1>1. u \in Seq(S) /\ Len(u) = 1 /\ u[1] = e
  OBVIOUS
<1> HIDE DEF u
<1>2. /\ ToSet(u) = {u[i] : i \in 1..1}
      /\ IsInjective(u) <=> \A i, j \in 1..1 : u[i] = u[j] => i = j
  BY <1>1, Positions
<1>3. ToSet(u) = {e} /\ IsInjective(u)
  BY <1>1, <1>2
<1>4. /\ u \o s \in Seq(S)
      /\ ToSet(u \o s) = ToSet(u) \cup ToSet(s)
      /\ IsInjective(u \o s) <=>
           IsInjective(u) /\ IsInjective(s) /\ ToSet(u) \cap ToSet(s) = {}
  BY <1>1, ConcatMembers
<1>5. ToSet(u) \cap ToSet(s) = {} <=> e \notin ToSet(s)
  BY <1>3
<1> QED  BY <1>3, <1>4, <1>5 DEF u

\* Pop: the first member leaves the list.
LEMMA TailMembers ==
  ASSUME NEW S, NEW s \in Seq(S), s # << >>
  PROVE  /\ Head(s) \in S /\ Tail(s) \in Seq(S)
         /\ Head(s) \in ToSet(s)
         /\ ToSet(s) = {Head(s)} \cup ToSet(Tail(s))
         /\ IsInjective(s) => /\ IsInjective(Tail(s))
                              /\ ToSet(Tail(s)) = ToSet(s) \ {Head(s)}
<1>1. Head(s) \in S /\ Tail(s) \in Seq(S)
  BY HeadTailProperties
<1>2. s = <<Head(s)>> \o Tail(s)
  <2>1. 1 \in 1..Len(s) /\ Len(s) \in Nat
    BY EmptySeq, LenProperties
  <2>2. SubSeq(s, 1, Len(s)) = <<s[1]>> \o SubSeq(s, 2, Len(s))
    BY <2>1, SubSeqRecursiveFirst
  <2>3. SubSeq(s, 1, Len(s)) = s /\ Tail(s) = SubSeq(s, 2, Len(s)) /\ Head(s) = s[1]
    BY SubSeqFull, TailIsSubSeq
  <2> QED  BY <2>2, <2>3
<1>3. /\ ToSet(s) = {Head(s)} \cup ToSet(Tail(s))
      /\ IsInjective(s) <=> IsInjective(Tail(s)) /\ Head(s) \notin ToSet(Tail(s))
  BY <1>1, <1>2, ConsMembers, ZenonT(60)
<1> QED  BY <1>1, <1>3

\* Reverse neither adds nor loses a member.
LEMMA ReverseMembers ==
  ASSUME NEW S, NEW s \in Seq(S)
  PROVE  /\ Reverse(s) \in Seq(S)
         /\ ToSet(Reverse(s)) = ToSet(s)
         /\ IsInjective(s) => IsInjective(Reverse(s))
<1> DEFINE n == Len(s)
           r == Reverse(s)
<1>1. /\ n \in Nat /\ ToSet(s) = {s[i] : i \in 1..n} /\ \A i \in 1..n : s[i] \in S
      /\ IsInjective(s) <=> \A i, j \in 1..n : s[i] = s[j] => i = j
  BY Positions
<1>2. r = [i \in 1..n |-> s[(n - i) + 1]]
  BY DEF Reverse
<1> HIDE DEF n
<1>3. \A i \in 1..n : (n - i) + 1 \in 1..n /\ i = (n - ((n - i) + 1)) + 1
  BY <1>1
<1>4. r \in [1..n -> S]
  BY <1>1, <1>2, <1>3
<1>5. r \in Seq(S) /\ Len(r) = n /\ \A i \in 1..n : r[i] = s[(n - i) + 1]
  BY <1>1, <1>2, <1>4
<1> HIDE DEF r
<1>6. /\ ToSet(r) = {r[i] : i \in 1..n}
      /\ IsInjective(r) <=> \A i, j \in 1..n : r[i] = r[j] => i = j
  BY <1>5, Positions, ZenonT(60)
<1>7. ToSet(r) \subseteq ToSet(s)
  BY <1>1, <1>3, <1>5, <1>6
<1>8. ToSet(s) \subseteq ToSet(r)
  <2> SUFFICES ASSUME NEW i \in 1..n PROVE s[i] \in ToSet(r)
    BY <1>1
  <2>1. r[(n - i) + 1] = s[i]  BY <1>3, <1>5
  <2> QED  BY <2>1, <1>3, <1>6
<1>9. IsInjective(s) => IsInjective(r)
  <2> SUFFICES ASSUME IsInjective(s), NEW i \in 1..n, NEW j \in 1..n, r[i] = r[j]
               PROVE  i = j
    BY <1>6
  <2>1. (n - i) + 1 = (n - j) + 1  BY <1>1, <1>3, <1>5
  <2> QED  BY <2>1, <1>1
<1> QED  BY <1>5, <1>7, <1>8, <1>9 DEF r

\* Remove: one member leaves the list.
LEMMA RemoveAtMembers ==
  ASSUME NEW S, NEW s \in Seq(S), IsInjective(s), NEW k \in 1..Len(s)
  PROVE  /\ RemoveAt(s, k) \in Seq(S)
         /\ ToSet(RemoveAt(s, k)) = ToSet(s) \ {s[k]}
         /\ IsInjective(RemoveAt(s, k))
<1> DEFINE n == Len(s)
           r == RemoveAt(s, k)
<1>1. /\ n \in Nat /\ k \in 1..n /\ ToSet(s) = {s[i] : i \in 1..n}
      /\ \A i, j \in 1..n : s[i] = s[j] => i = j
  BY Positions
<1>2. /\ r \in Seq(S) /\ Len(r) = n - 1
      /\ \A j \in 1..n-1 : r[j] = IF j < k THEN s[j] ELSE s[j+1]
  BY RemoveAtProperties
<1>3. /\ ToSet(r) = {r[i] : i \in 1..n-1}
      /\ IsInjective(r) <=> \A i, j \in 1..n-1 : r[i] = r[j] => i = j
  BY <1>2, Positions
<1> HIDE DEF n, r
<1>4. ASSUME NEW j \in 1..n-1
      PROVE  \E i \in 1..n : i # k /\ r[j] = s[i] /\ i = IF j < k THEN j ELSE j+1
  <2>1. CASE j < k
    <3>1. j \in 1..n /\ j # k  BY <2>1, <1>1
    <3> QED  BY <2>1, <3>1, <1>2
  <2>2. CASE ~(j < k)
    <3>1. j+1 \in 1..n /\ j+1 # k  BY <2>2, <1>1
    <3> QED  BY <2>2, <3>1, <1>2
  <2> QED  BY <2>1, <2>2
<1>5. ToSet(r) \subseteq ToSet(s) \ {s[k]}
  <2> SUFFICES ASSUME NEW j \in 1..n-1 PROVE r[j] \in ToSet(s) \ {s[k]}
    BY <1>3
  <2> QED  BY <1>1, <1>4
<1>6. ToSet(s) \ {s[k]} \subseteq ToSet(r)
  <2> SUFFICES ASSUME NEW i \in 1..n, s[i] # s[k] PROVE s[i] \in ToSet(r)
    BY <1>1
  <2>1. CASE i < k
    <3>1. i \in 1..n-1  BY <2>1, <1>1
    <3>2. r[i] = s[i]  BY <2>1, <3>1, <1>2
    <3> QED  BY <3>1, <3>2, <1>3
  <2>2. CASE ~(i < k)
    <3>1. i # k  OBVIOUS
    <3>2. i-1 \in 1..n-1 /\ ~(i-1 < k) /\ (i-1)+1 = i  BY <2>2, <3>1, <1>1
    <3>3. r[i-1] = s[i]  BY <3>2, <1>2
    <3> QED  BY <3>2, <3>3, <1>3
  <2> QED  BY <2>1, <2>2
<1>7. IsInjective(r)
  <2> SUFFICES ASSUME NEW i \in 1..n-1, NEW j \in 1..n-1, r[i] = r[j] PROVE i = j
    BY <1>3
  <2>1. PICK a \in 1..n : r[i] = s[a] /\ a # k /\ a = IF i < k THEN i ELSE i+1
    BY <1>4
  <2>2. PICK b \in 1..n : r[j] = s[b] /\ b # k /\ b = IF j < k THEN j ELSE j+1
    BY <1>4
  <2>3. a = b  BY <2>1, <2>2, <1>1
  <2> QED  BY <2>1, <2>2, <2>3, <1>1
<1> QED  BY <1>2, <1>5, <1>6, <1>7 DEF r

-----------------------------------------------------------------------------
(* Counting.                                                               *)

\* A non-empty set of natural numbers has a least element.
LEMMA LeastElement ==
  ASSUME NEW T \in SUBSET Nat, T # {}
  PROVE  \E i \in T : \A j \in T : i <= j
<1>1. IsWellFoundedOn(OpToRel(<, Nat), Nat)
  BY NatLessThanWellFounded
<1>2. PICK i \in T : \A j \in T : ~(<<j, i>> \in OpToRel(<, Nat))
  BY <1>1, WFMin
<1>3. \A j \in T : ~(j < i)
  BY <1>2 DEF OpToRel
<1> QED  BY <1>3

\* Min chooses it.
LEMMA MinIsMember ==
  ASSUME NEW T \in SUBSET Nat, T # {}
  PROVE  Min(T) \in T
BY LeastElement DEF Min

\* A one-to-one map onto a set counts it.
LEMMA CountedBy ==
  ASSUME NEW S, NEW T, IsFiniteSet(S), NEW f \in [S -> T],
         \A x, y \in S : f[x] = f[y] => x = y,
         \A t \in T : \E x \in S : f[x] = t
  PROVE  IsFiniteSet(T) /\ Cardinality(T) = Cardinality(S)
<1>1. f \in Bijection(S, T)
  BY DEF Bijection, Injection, Surjection, IsInjective
<1> QED  BY <1>1, FS_Bijection DEF ExistsBijection

\* A sequence of anything is one of its own members.
LEMMA OwnMembers ==
  ASSUME NEW S, NEW s \in Seq(S)
  PROVE  s \in Seq({s[i] : i \in DOMAIN s})
<1>1. DOMAIN s = 1..Len(s) /\ Len(s) \in Nat /\ s \in [1..Len(s) -> S]
  BY LenProperties
<1>2. s \in [1..Len(s) -> {s[i] : i \in DOMAIN s}]
  BY <1>1
<1> QED  BY <1>1, <1>2, SMTT(30)

\* What InsertAt makes of a sequence, in front of its second element.
LEMMA InsertAtSecond ==
  ASSUME NEW S, NEW s \in Seq(S), s # << >>, NEW e \in S
  PROVE  /\ InsertAt(s, 2, e) \in Seq(S) /\ Len(InsertAt(s, 2, e)) = Len(s) + 1
         /\ InsertAt(s, 2, e)[1] = s[1] /\ InsertAt(s, 2, e)[2] = e
         /\ \A i \in 3..Len(s)+1 : InsertAt(s, 2, e)[i] = s[i-1]
<1> DEFINE n == Len(s)
           f == SubSeq(s, 1, 2-1)
           g == SubSeq(s, 2, n)
<1>0. n \in Nat /\ n > 0 /\ \A i \in 1..n : s[i] \in S
  BY LenProperties, EmptySeq, ElementOfSeq
<1>1. f \in Seq(S) /\ Len(f) = 1 /\ f[1] = s[1]
  BY <1>0, SubSeqProperties
<1>2. g \in Seq(S) /\ Len(g) = n - 1 /\ \A j \in 1..n-1 : g[j] = s[j+1]
  <2>1. CASE n = 1
    BY <2>1, <1>0, SubSeqProperties
  <2>2. CASE n # 1
    <3> HIDE DEF n
    <3>1. 2 <= n /\ 2 \in Int /\ n \in Int /\ \A i \in 2..n : s[i] \in S
      BY <2>2, <1>0
    <3>2. /\ g \in Seq(S) /\ Len(g) = n - 2 + 1
          /\ \A j \in 1..n-2+1 : g[j] = s[2+j-1]
      BY <3>1, SubSeqProperties
    <3> HIDE DEF g
    <3>3. n - 2 + 1 = n - 1 /\ \A j \in 1..n-1 : 2+j-1 = j+1
      BY <1>0
    <3> QED  BY <3>2, <3>3
  <2> QED  BY <2>1, <2>2
<1>3. <<e>> \in Seq(S) /\ Len(<<e>>) = 1 /\ <<e>>[1] = e
  OBVIOUS
<1>4. InsertAt(s, 2, e) = f \o <<e>> \o g
  BY DEF InsertAt
<1> HIDE DEF f, g, n
<1>5. /\ f \o <<e>> \in Seq(S) /\ Len(f \o <<e>>) = 2
      /\ (f \o <<e>>)[1] = s[1] /\ (f \o <<e>>)[2] = e
  <2> DEFINE u == <<e>>
  <2>1. u \in Seq(S) /\ Len(u) = 1 /\ u[1] = e
    BY <1>3
  <2> HIDE DEF u
  <2>2. /\ f \o u \in Seq(S) /\ Len(f \o u) = Len(f) + Len(u)
        /\ \A i \in 1..Len(f)+Len(u) : (f \o u)[i] = IF i <= Len(f) THEN f[i] ELSE u[i - Len(f)]
    BY <1>1, <2>1, ConcatProperties
  <2>3. f \o u \in Seq(S) /\ Len(f \o u) = 2 /\ (f \o u)[1] = s[1] /\ (f \o u)[2] = e
    BY ONLY <1>1, <2>1, <2>2
  <2> QED  BY <2>3 DEF u
<1>6. LET r == (f \o <<e>>) \o g
      IN  /\ r \in Seq(S) /\ Len(r) = n + 1
          /\ \A i \in 1..n+1 : r[i] = IF i <= 2 THEN (f \o <<e>>)[i] ELSE g[i-2]
  BY <1>0, <1>2, <1>5, ConcatProperties
<1>7. \A i \in 3..n+1 : g[i-2] = s[i-1]
  BY <1>0, <1>2
<1> DEFINE r == (f \o <<e>>) \o g
<1>8. r \in Seq(S) /\ Len(r) = n + 1
      /\ \A i \in 1..n+1 : r[i] = IF i <= 2 THEN (f \o <<e>>)[i] ELSE g[i-2]
  BY <1>6
<1>9. InsertAt(s, 2, e) = r
  BY <1>4
<1> HIDE DEF r
<1>10. r[1] = s[1] /\ r[2] = e /\ \A i \in 3..n+1 : r[i] = s[i-1]
  <2> DEFINE c == f \o <<e>>
  <2>1. c[1] = s[1] /\ c[2] = e
    BY <1>5
  <2>2. \A i \in 1..n+1 : r[i] = IF i <= 2 THEN c[i] ELSE g[i-2]
    BY <1>8
  <2> HIDE DEF c
  <2> QED  BY ONLY <1>0, <1>7, <2>1, <2>2
<1> QED  BY <1>8, <1>9, <1>10 DEF n

-----------------------------------------------------------------------------
\* A pair is the pair of its parts.
LEMMA PairParts ==
  ASSUME NEW A, NEW B, NEW x \in A \X B
  PROVE  x[1] \in A /\ x[2] \in B /\ x = <<x[1], x[2]>>
OBVIOUS

-----------------------------------------------------------------------------
(* Recursive functions over an interval.                                   *)

\* What holds at 0 and from each number to the next holds up to n.
LEMMA IntervalInduction ==
  ASSUME NEW n \in Nat, NEW S, 0 \in S, \A i \in 1..n : i - 1 \in S => i \in S
  PROVE  0..n \subseteq S
<1> DEFINE B == {i \in 0..n : i \notin S}
<1>1. SUFFICES ASSUME B # {} PROVE FALSE
  OBVIOUS
<1>2. B \in SUBSET Nat
  OBVIOUS
<1>3. PICK i \in B : \A j \in B : i <= j
  <2> HIDE DEF B
  <2> QED  BY <1>1, <1>2, LeastElement
<1>4. i \in 1..n /\ i - 1 \in 0..n
  BY <1>3
<1>5. i - 1 \in S
  BY <1>3, <1>4
<1> QED  BY <1>3, <1>4, <1>5

\* Iterating an operation over an interval defines a function.
Iterates(f, P, w, n, op) ==
  f \in [0..n -> P] /\ \A i \in 0..n : f[i] = IF i = 0 THEN w ELSE op[<<f[i - 1], i>>]

LEMMA Iteration ==
  ASSUME NEW P, NEW w \in P, NEW n \in Nat, NEW op \in [P \X (1..n) -> P]
  PROVE  \E f : Iterates(f, P, w, n, op)
<1> DEFINE Upto(f, k) == \A i \in 0..k : f[i] = IF i = 0 THEN w ELSE op[<<f[i - 1], i>>]
           S == {k \in 0..n : \E f \in [0..k -> P] : Upto(f, k)}
<1>1. 0 \in S
  <2> DEFINE g == [i \in 0..0 |-> w]
  <2>1. g \in [0..0 -> P] /\ \A i \in 0..0 : g[i] = IF i = 0 THEN w ELSE op[<<g[i - 1], i>>]
    OBVIOUS
  <2> HIDE DEF g
  <2>2. \E f \in [0..0 -> P] : Upto(f, 0)
    BY <2>1
  <2> QED  BY <2>2
<1>2. ASSUME NEW k \in 1..n, k - 1 \in S PROVE k \in S
  <2>1. PICK f \in [0..k - 1 -> P] : Upto(f, k - 1)
    BY <1>2
  <2> DEFINE g == [i \in 0..k |-> IF i = k THEN op[<<f[k - 1], k>>] ELSE f[i]]
  <2>2. f[k - 1] \in P /\ <<f[k - 1], k>> \in P \X (1..n)
    OBVIOUS
  <2>3. op[<<f[k - 1], k>>] \in P
    BY <2>2
  <2>4. g \in [0..k -> P]
    BY <2>3
  <2>5. g[k] = op[<<f[k - 1], k>>] /\ \A i \in 0..k - 1 : g[i] = f[i]
    OBVIOUS
  <2> HIDE DEF g
  <2>6. ASSUME NEW i \in 0..k PROVE g[i] = IF i = 0 THEN w ELSE op[<<g[i - 1], i>>]
    <3>1. CASE i = k
      <4>1. i # 0 /\ i - 1 \in 0..k - 1
        BY <3>1
      <4>2. g[i - 1] = f[i - 1]
        BY <2>5, <4>1
      <4> QED  BY <2>5, <3>1, <4>1, <4>2
    <3>2. CASE i # k
      <4>1. i \in 0..k - 1 /\ (i # 0 => i - 1 \in 0..k - 1)
        BY <3>2
      <4>2. g[i] = f[i] /\ (i # 0 => g[i - 1] = f[i - 1])
        BY <2>5, <4>1
      <4>3. f[i] = IF i = 0 THEN w ELSE op[<<f[i - 1], i>>]
        BY <2>1, <4>1
      <4> QED  BY <4>2, <4>3
    <3> QED  BY <3>1, <3>2
  <2> QED  BY <2>4, <2>6
<1>3. 0..n \subseteq S
  <2> HIDE DEF S
  <2> QED  BY <1>1, <1>2, IntervalInduction
<1>4. n \in S
  BY <1>3
<1> QED  BY <1>4 DEF Iterates
=============================================================================
