---------------------------- MODULE MCAnimation -----------------------------
(* The player and an entity that walks have their meshes in common; the     *)
(* head of the second has no skeleton.                                      *)
EXTENDS Animation

MCEnts == <<"jack", "blaine">>

MCKind == [jack |-> "jack", blaine |-> "blaine"]

Whole == [mesh |-> <<"body", "head">>, parent |-> <<1, 1>>,
          defSkel |-> <<"stand", "nod">>, skels |-> <<"stand", "walk">>]

MCModel == [jack |-> Whole,
            blaine |-> [Whole EXCEPT !.defSkel = <<"stand", "none">>]]

MCAnims ==
  [stand |-> << [first |-> 1, num |-> 2, loopback |-> TRUE] >>,
   walk  |-> << [first |-> 1, num |-> 3, loopback |-> FALSE] >>,
   nod   |-> << [first |-> 2, num |-> 3, loopback |-> TRUE] >>]
=============================================================================
