----------------------------- MODULE MCMapLoad ------------------------------
(* Two groups, two materials and a light map, in two orders; brushes of one  *)
(* or two faces, lights, and an entity that is neither.                      *)
EXTENDS MapLoad

Decl(k) == [kind |-> k]
MCNewFile ==
  {<<Decl("visgroup"), Decl("material"), Decl("lightmap"), Decl("material"),
     Decl("visgroup")>>}

Face(v, m, l, t) == [visible |-> v, mat |-> m, lm |-> l, tris |-> t]
MCFaces ==
  {Face(TRUE, 4, 3, 1), Face(TRUE, 4, NoLightmap, 2), Face(TRUE, 0, 3, 1), Face(TRUE, 2, NoLightmap, 2),
   Face(FALSE, 2, NoLightmap, 1)}
Brush(g, fs) == [kind |-> "brush", group |-> g, faces |-> fs]
MCObjects ==
  {Brush(g, <<f>>) : g \in {0, 5}, f \in MCFaces}
  \union {Brush(5, <<f, h>>) : f, h \in MCFaces}
  \union {[kind |-> "light", group |-> g] : g \in {0, 5}}
  \union {[kind |-> "entity"]}

MCJunk == {[group |-> 7, visible |-> TRUE]}
=============================================================================
