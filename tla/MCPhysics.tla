------------------------------ MODULE MCPhysics ----------------------------
(* Two bodies, one three times as heavy as the other and higher, in a wide   *)
(* room and a narrow one with a floor and two walls, which the hulls name in *)
(* different orders.  A unit is a 128th of a metre, so that the overbounce   *)
(* of 0.25 metres per second is 8 of them in a step.                         *)
EXTENDS Physics

CONSTANTS light, heavy

MCBody == {light, heavy}
MCMass == (light :> 1) @@ (heavy :> 3)
MCBase == (light :> [lo |-> <<-8, 0, -8>>, hi |-> <<8, 16, 8>>]) @@
          (heavy :> [lo |-> <<-8, 0, -8>>, hi |-> <<8, 24, 8>>])
MCPushes == (light :> {<<16, 0, 0>>, <<0, 24, 0>>}) @@
            (heavy :> {<<0, 0, 0>>, <<-16, 0, 0>>})
MCGravity == <<0, -16, 0>>

Block(lo, hi) == LET b == [lo |-> lo, hi |-> hi] IN [faces |-> AABBToPlanes(b), box |-> b]
Floor     == Block(<<-16, -24, -16>>, <<72, 0, 16>>)
Left      == Block(<<-16, 0, -16>>, <<0, 72, 16>>)
Right     == Block(<<56, 0, -16>>, <<72, 72, 16>>)
NearRight == Block(<<24, 0, -16>>, <<40, 72, 16>>)
MCWorlds == {<<Floor, Left, Right>>, <<Right, Left, Floor>>, <<Left, Floor, NearRight>>}
MCPlaces == {<<8, 0, 0>>, <<40, 8, 0>>}
=============================================================================
