------------------------- MODULE AbstractListStack -------------------------
(***************************************************************************)
(* What engine/lg_list_stack.h promises of the CLListStack objects that    *)
(* share one master array of nodes: each list is a sequence of distinct    *)
(* nodes, no node is on two lists, Push and Pop work at the front, Remove  *)
(* takes a node out of the list it is on and leaves every other list       *)
(* alone.  The front of the list is contents[l][1].                        *)
(***************************************************************************)
EXTENDS Integers, SequencesExt

CONSTANTS
  NumNodes,  \* number of LSItems in the master array (nCount of Init)
  Lists      \* the CLListStack objects, named by their m_nID

\* A node is its index in the master array, which Init stores in m_nItemID.
Node == 0..NumNodes-1

VARIABLE contents  \* contents[l]: the nodes of l, front first

On(l, n) == \E i \in DOMAIN contents[l] : contents[l][i] = n

Held(n) == \E l \in Lists : On(l, n)

Init == contents = [l \in Lists |-> << >>]

\* "pNode should not be in pList, and it should be removed from any other
\* list that it might be in.  POST: pNode will be added to the beginning."
Push(l, n) ==
  /\ ~Held(n)
  /\ contents' = [contents EXCEPT ![l] = <<n>> \o @]

\* "If there was a node available it is returned and removed from the list."
Pop(l) ==
  /\ contents[l] # << >>
  /\ contents' = [contents EXCEPT ![l] = Tail(@)]

\* "pNode is removed."
RemoveItem(l, i) ==
  /\ i \in DOMAIN contents[l]
  /\ contents' = [contents EXCEPT ![l] = RemoveAt(@, i)]

Clear(l) == contents' = [contents EXCEPT ![l] = << >>]

\* "Puts all the items in the list into this list stack": items 0, 1, ... are
\* pushed in turn, so the last of them is in front.  The master array is new,
\* so none of its nodes is on another list.
InitItems(l) ==
  /\ \A k \in Lists \ {l} : contents[k] = << >>
  /\ contents' = [contents EXCEPT ![l] = [i \in 1..NumNodes |-> NumNodes - i]]

Next ==
  \E l \in Lists :
    \/ \E n \in Node : Push(l, n)
    \/ Pop(l)
    \/ \E i \in 1..NumNodes : RemoveItem(l, i)
    \/ Clear(l)
    \/ InitItems(l)

Spec == Init /\ [][Next]_contents
=============================================================================
