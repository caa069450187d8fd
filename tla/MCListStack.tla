---------------------------- MODULE MCListStack -----------------------------
(* Two lists over one master array of three nodes: enough for a first, a      *)
(* middle and a last node, and for nodes to move between the lists.          *)
EXTENDS ListStack

CONSTANTS la, lb

MCLists == {la, lb}
=============================================================================
