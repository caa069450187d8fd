----------------------------- MODULE MCMeshMgr ------------------------------
(* Three locations besides the default's; three names, two with one hash.    *)
EXTENDS MeshMgr

MCNames == {"a", "b", "c"}
MCHash == [f \in MCNames |-> IF f = "c" THEN 3 ELSE 2]
MCItems == 0..3
=============================================================================
