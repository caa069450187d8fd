----------------------------- MODULE ListStack ------------------------------
(***************************************************************************)
(* CLListStack (engine/lg_list_stack.cpp): an intrusive doubly linked list *)
(* that is also a stack.  The links live in the nodes, and so does         *)
(* m_nListStackID, the id of the list the node was last pushed on.  Every  *)
(* pool of the engine is built from these lists: the world server's        *)
(* entities and commands, the resource managers' items, the partition      *)
(* table's files.  The copy in lf_sys2/lf_list_stack.cpp is the same code  *)
(* but for Init, which does not clear the list first.                      *)
(*                                                                         *)
(* The history variable contents is what a caller that follows the header  *)
(* believes of the lists (AbstractListStack).  It gates the calls by the   *)
(* header's preconditions and never influences the links.                  *)
(***************************************************************************)
EXTENDS Integers, Sequences, FiniteSets

CONSTANTS
  NumNodes,
  Lists,
  Null,      \* LG_NULL
  DWord      \* number of values of a lg_dword (2^32 in the code)

ASSUME ListStackAssumption ==
  /\ NumNodes \in Nat \ {0}
  /\ DWord \in Nat
  /\ DWord > NumNodes
  /\ Null \notin 0..NumNodes-1
  /\ 0 \notin Lists

VARIABLES
  next,      \* m_pNext of each node
  prev,      \* m_pPrev
  owner,     \* m_nListStackID, 0 when the node was popped or never pushed
  first,     \* m_pFirst of each list
  last,      \* m_pLast
  count,     \* m_nCount
  contents   \* history: what the caller knows to be on each list

Abs == INSTANCE AbstractListStack

Node == 0..NumNodes-1

links == <<next, prev, owner, first, last, count>>
vars  == <<next, prev, owner, first, last, count, contents>>

-----------------------------------------------------------------------------
\* The constructor, over a master array no list holds yet.
Init ==
  /\ next  = [n \in Node |-> Null]
  /\ prev  = [n \in Node |-> Null]
  /\ owner = [n \in Node |-> 0]
  /\ first = [l \in Lists |-> Null]
  /\ last  = [l \in Lists |-> Null]
  /\ count = [l \in Lists |-> 0]
  /\ Abs!Init

Decrement(l) == count' = [count EXCEPT ![l] = (@ - 1) % DWord]

PushNode(l, n) ==
  /\ next'  = [next EXCEPT ![n] = first[l]]
  /\ prev'  = [m \in Node |-> IF m = first[l] THEN n
                              ELSE IF m = n THEN Null ELSE prev[m]]
  /\ owner' = [owner EXCEPT ![n] = l]
  /\ last'  = IF first[l] = Null THEN [last EXCEPT ![l] = n] ELSE last
  /\ first' = [first EXCEPT ![l] = n]
  /\ count' = [count EXCEPT ![l] = (@ + 1) % DWord]

\* A slip: the new first node keeps its m_pPrev.
UnlinkFirstKeepsPrev(l) ==
  /\ first' = [first EXCEPT ![l] = next[first[l]]]
  /\ last'  = IF next[first[l]] = Null THEN [last EXCEPT ![l] = Null] ELSE last
  /\ UNCHANGED <<next, prev>>

\* Taking the first node off, in Pop and in Remove.
UnlinkFirst(l) ==
  LET second == next[first[l]]
  IN  /\ first' = [first EXCEPT ![l] = second]
      /\ last'  = IF second = Null THEN [last EXCEPT ![l] = Null] ELSE last
      /\ prev'  = IF second = Null THEN prev ELSE [prev EXCEPT ![second] = Null]
      /\ UNCHANGED next

\* m_pLast->m_pNext is written through the new m_pLast.
UnlinkLast(l) ==
  LET before == prev[last[l]]
  IN  /\ last' = [last EXCEPT ![l] = before]
      /\ next' = [next EXCEPT ![before] = Null]
      /\ UNCHANGED <<prev, first>>

UnlinkMiddle(n) ==
  /\ IF prev[n] # Null /\ next[n] # Null
     THEN /\ next' = [next EXCEPT ![prev[n]] = next[n]]
          /\ prev' = [prev EXCEPT ![next[n]] = prev[n]]
     ELSE UNCHANGED <<next, prev>>
  /\ UNCHANGED <<first, last>>

PopNode(l) ==
  /\ first[l] # Null
  /\ UnlinkFirst(l)
  /\ Decrement(l)
  /\ owner' = [owner EXCEPT ![first[l]] = 0]

\* A slip: no look at m_nListStackID.
RemoveNodeUnchecked(l, n) ==
  /\ \/ n = first[l] /\ UnlinkFirst(l)
     \/ n # first[l] /\ n = last[l] /\ UnlinkLast(l)
     \/ n # first[l] /\ n # last[l] /\ UnlinkMiddle(n)
  /\ Decrement(l)
  /\ UNCHANGED owner

\* Remove.  A node whose m_nListStackID is not this list's is left alone; the
\* others are unlinked by where they stand.  m_nListStackID is never reset.
RemoveNode(l, n) ==
  \/ owner[n] # l /\ UNCHANGED links
  \/ /\ owner[n] = l
     /\ \/ n = first[l] /\ UnlinkFirst(l)
        \/ n # first[l] /\ n = last[l] /\ UnlinkLast(l)
        \/ n # first[l] /\ n # last[l] /\ UnlinkMiddle(n)
     /\ Decrement(l)
     /\ UNCHANGED owner

\* The nodes a loop from m_pFirst along m_pNext visits: the least set that
\* holds the first node and, with a node, its successor.
FollowsLinks(l, S) ==
  /\ first[l] # Null => first[l] \in S
  /\ \A n \in S : next[n] # Null => next[n] \in S

Chain(l) == {n \in Node : \A S \in SUBSET Node : FollowsLinks(l, S) => n \in S}

ClearList(l) ==
  /\ owner' = [n \in Node |-> IF n \in Chain(l) THEN 0 ELSE owner[n]]
  /\ first' = [first EXCEPT ![l] = Null]
  /\ last'  = [last EXCEPT ![l] = Null]
  /\ count' = [count EXCEPT ![l] = 0]
  /\ UNCHANGED <<next, prev>>

\* Clear, then Push of item 0, 1, ..., NumNodes-1.
InitList(l) ==
  /\ next'  = [n \in Node |-> IF n = 0 THEN Null ELSE n - 1]
  /\ prev'  = [n \in Node |-> IF n = NumNodes - 1 THEN Null ELSE n + 1]
  /\ owner' = [n \in Node |-> l]
  /\ first' = [first EXCEPT ![l] = NumNodes - 1]
  /\ last'  = [last EXCEPT ![l] = 0]
  /\ count' = [count EXCEPT ![l] = NumNodes % DWord]

-----------------------------------------------------------------------------
\* The calls a client makes that keeps the preconditions of the header.
Push(l, n)  == Abs!Push(l, n) /\ PushNode(l, n)
Pop(l)      == Abs!Pop(l) /\ PopNode(l)
Clear(l)    == Abs!Clear(l) /\ ClearList(l)
InitItems(l) == Abs!InitItems(l) /\ InitList(l)

\* Remove of the i-th node of list l.
RemoveItem(l, i) ==
  /\ Abs!RemoveItem(l, i)
  /\ RemoveNode(l, contents[l][i])

\* Remove, on list l, of a node that is on another one.
RemoveElsewhere(l, k, i) ==
  /\ k # l
  /\ i \in DOMAIN contents[k]
  /\ RemoveNode(l, contents[k][i])
  /\ UNCHANGED contents

Next ==
  \E l \in Lists :
    \/ \E n \in Node : Push(l, n)
    \/ Pop(l)
    \/ \E i \in 1..NumNodes : RemoveItem(l, i)
    \/ \E k \in Lists, i \in 1..NumNodes : RemoveElsewhere(l, k, i)
    \/ Clear(l)
    \/ InitItems(l)

Spec == Init /\ [][Next]_vars

-----------------------------------------------------------------------------
(* Clients that do not keep track of what they removed.                    *)

\* Remove of a node that is on no list, such as one that was removed before.
RemoveStray(l, n) ==
  /\ ~Abs!Held(n)
  /\ RemoveNode(l, n)
  /\ UNCHANGED contents

CarelessNext == Next \/ \E l \in Lists, n \in Node : RemoveStray(l, n)

CarelessSpec == Init /\ [][CarelessNext]_vars

-----------------------------------------------------------------------------
(* Properties.                                                             *)

\* Type correctness: links are nodes or null, counts fit their lg_dword.
TypeOK ==
  /\ next \in [Node -> Node \cup {Null}]
  /\ prev \in [Node -> Node \cup {Null}]
  /\ owner \in [Node -> Lists \cup {0}]
  /\ first \in [Lists -> Node \cup {Null}]
  /\ last \in [Lists -> Node \cup {Null}]
  /\ count \in [Lists -> 0..DWord-1]
  /\ contents \in [Lists -> Seq(Node)]

\* The links of list l spell out the sequence s: following m_pNext from
\* m_pFirst and m_pPrev from m_pLast meets the nodes of s in order, each once
\* and each marked with the list's id, and m_nCount is their number.
Spells(l, s) ==
  /\ count[l] = Len(s)
  /\ first[l] = IF s = << >> THEN Null ELSE s[1]
  /\ last[l] = IF s = << >> THEN Null ELSE s[Len(s)]
  /\ \A i \in 1..Len(s) :
       /\ owner[s[i]] = l
       /\ next[s[i]] = IF i = Len(s) THEN Null ELSE s[i+1]
       /\ prev[s[i]] = IF i = 1 THEN Null ELSE s[i-1]
  /\ \A i, j \in 1..Len(s) : s[i] = s[j] => i = j

\* Whatever order of Push, Pop, Remove, Clear and Init a client that keeps the
\* preconditions calls them in, the links of every list spell out what the
\* header promises is on it, although Remove leaves stale links and a stale
\* m_nListStackID in the node it takes out.
LinksSpellContents == \A l \in Lists : Spells(l, contents[l])

\* The sequence a loop from m_pFirst along m_pNext sees, at most as many nodes
\* as there are.
Walk(l) ==
  LET at[k \in 1..NumNodes] ==
        IF k = 1 THEN first[l]
        ELSE IF at[k-1] = Null THEN Null ELSE next[at[k-1]]
  IN  SubSeq(at, 1, Cardinality({k \in 1..NumNodes : at[k] # Null}))

Walked == INSTANCE AbstractListStack
            WITH contents <- [l \in Lists |-> Walk(l)]

\* The pointer code implements the lists of the header: read off by walking
\* the links, every call is a step of AbstractListStack on one list, and a
\* Remove on the wrong list is none at all.
ImplementsLists == Walked!Spec

\* "One problem here is that it isn't gauranteed that pNode was actually in
\* pList, ... the id check above should prevent weird removals": m_nCount
\* stays the number of nodes whatever Remove is called with.
CountIsLength == \A l \in Lists : count[l] = Len(contents[l])
=============================================================================
