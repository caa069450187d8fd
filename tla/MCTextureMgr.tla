---------------------------- MODULE MCTextureMgr ----------------------------
(* Three locations besides the default's and four names, three of which       *)
(* have the same hash: a search wraps round, crosses holes and fills up.      *)
EXTENDS TextureMgr

MCNames == {"a", "b", "c", "d"}
MCHash == [f \in MCNames |-> IF f = "d" THEN 3 ELSE 2]
MCItems == 1..4
=============================================================================
