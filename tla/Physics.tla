------------------------------ MODULE Physics ------------------------------
(***************************************************************************)
(* CLPhysLegacy (engine/lp_legacy.cpp), the engine's own physics: the      *)
(* server's Simulate applies the forces to every body, lets the bodies and *)
(* the hulls of the map change the velocities, and then moves the bodies   *)
(* and reports to the server's entities.                                   *)
(*                                                                         *)
(* The server always passes 33 seconds, which Simulate clamps to a quarter *)
(* (lw_server.cpp:644), so a step is a quarter of a second.  A position is *)
(* a whole number of a small unit of length, and a velocity one of the     *)
(* same unit per step; where a collision does not come out in whole units, *)
(* its velocities are rounded down to them, as the code's are to those of  *)
(* a float.  The steps of a thousandth of a second after a pause and a     *)
(* load, drag (always 0), rotation (the bodies the AIs turn have no        *)
(* angular velocity, so their places do not depend on it), sleeping bodies *)
(* (nothing puts one to sleep) and bodies with AI_PHYS_DIRECT_LINEAR (no   *)
(* AI asks for it) are not here.                                           *)
(***************************************************************************)
EXTENDS Boxes, SequencesExt

CONSTANTS
  Body,         \* m_pBodyList, each body named for the entity that takes it
  Mass,         \* the mass in each one's script
  Base,         \* and its box, round the entity's place
  Pushes,       \* what thrust and impulse, over the mass, may add to each one's velocity
  Gravity,      \* what gravity adds, once a level has set it
  Overbounce,   \* what a hull gives back along its plane
  Worlds,       \* the maps: each the sequence of its hulls
  Places,       \* where entities are added
  MaxCalls      \* bound: of the server's calls

Hulls == [faces : Seq(Plane), box : Box]

ASSUME PhysicsAssumption ==
  /\ IsFiniteSet(Body)
  /\ \A b \in Body : Mass[b] \in Nat \ {0} /\ Base[b] \in Box /\ Pushes[b] \subseteq Vector
  /\ Overbounce \in Nat \ {0}
  /\ Gravity \in Vector /\ Places \subseteq Vector
  /\ Worlds \subseteq Seq(Hulls)
  /\ \A world \in Worlds : \A k \in DOMAIN world : world[k] \notin Body
  /\ MaxCalls \in Nat

VARIABLES
  awake,    \* m_AwakeBodies, from the first
  body,     \* m_fMass, m_aabbBase, m_matPos, m_v3Vel, and the boxes of the move
  ent,      \* m_matPos and m_aabbBody of its entity
  hulls,    \* m_pGeoHulls
  gravity,  \* m_v3Grav
  calls,    \* how many calls there were
  met,      \* history: what each body collided with, when the last call was a step
  whole     \* history: every collision of bodies in it came out in whole units

physVars == <<awake, body, ent, hulls, gravity, calls, met, whole>>

Awake == ToSet(awake)

NoBox == [lo |-> Origin, hi |-> Origin]

PhysicsInit ==
  /\ awake = <<>>
  /\ body = [b \in Body |-> [mass |-> 1, base |-> NoBox, pos |-> Origin, vel |-> Origin,
                             pre |-> NoBox, post |-> NoBox, move |-> NoBox]]
  /\ ent = [b \in Body |-> [pos |-> Origin, box |-> NoBox]]
  /\ hulls = <<>>
  /\ gravity = Origin
  /\ calls = 0
  /\ met = <<>>
  /\ whole = TRUE

-----------------------------------------------------------------------------
\* One step of the simulation, on s = [body, met, whole].

SetPreMoveAABB(b) == [b EXCEPT !.pre = MoveBox(b.base, b.pos)]

SetPostMoveAABB(b) ==
  LET post == MoveBox(b.base, Plus(b.pos, b.vel))
  IN  [b EXCEPT !.post = post, !.move = AABBCatenate(b.pre, post)]

ApplyWorldForces(b) == [b EXCEPT !.vel = Plus(@, gravity)]

\* UpdateFromSrv and the first loop of ProcessAwakeBodies.
Push(b, push) ==
  LET forced == ApplyWorldForces(SetPreMoveAABB(b))
  IN  SetPostMoveAABB([forced EXCEPT !.vel = Plus(@, push)])

WithVelocity(b, v) == SetPostMoveAABB([b EXCEPT !.vel = v])

\* A slip: the boxes are swapped, but not the velocity between them.
CollideBackwards(s, i, j) ==
  /\ i # j
  /\ IntersectMoving(s.body[j].pre, s.body[i].pre, Minus(s.body[i].vel, s.body[j].vel))

\* The moves have a chance to meet, and do, seen from body 2.
Collide(s, i, j) ==
  /\ i # j
  /\ AABBIntersect(s.body[i].move, s.body[j].move)
  /\ IntersectMoving(s.body[i].pre, s.body[j].pre, Minus(s.body[i].vel, s.body[j].vel))

\* A slip: body 1 is taken for the still one.
BounceOtherWay(body1, body2) ==
  LET ref == Minus(body1.vel, body2.vel)
      share(m) == [k \in Axis |-> body2.vel[k] + (ref[k] * m) \div (body1.mass + body2.mass)]
  IN  <<WithVelocity(body1, share(body2.mass - body1.mass)),
        WithVelocity(body2, share(2 * body2.mass))>>

\* The elastic collision, seen from body 2.
Bounce(body1, body2) ==
  LET ref == Minus(body1.vel, body2.vel)
      share(m) == [k \in Axis |-> body2.vel[k] + (ref[k] * m) \div (body1.mass + body2.mass)]
  IN  <<WithVelocity(body1, share(body1.mass - body2.mass)),
        WithVelocity(body2, share(2 * body1.mass))>>

\* Its velocities are whole numbers.
ComesOutWhole(body1, body2) ==
  \A k \in Axis :
    (Minus(body1.vel, body2.vel)[k] * (body1.mass - body2.mass)) % (body1.mass + body2.mass) = 0

BodyClsnCheck(s, i, j) ==
  LET bounced == Bounce(s.body[i], s.body[j])
  IN  IF ~Collide(s, i, j) THEN s
      ELSE [body  |-> [s.body EXCEPT ![i] = bounced[1], ![j] = bounced[2]],
            met   |-> [s.met EXCEPT ![i] = @ \cup {j}, ![j] = @ \cup {i}],
            whole |-> s.whole /\ ComesOutWhole(s.body[i], s.body[j])]

\* The box does not get through one of the planes.
Outside(planes, box, vel) ==
  \E k \in DOMAIN planes : PlaneVelType(box, planes[k], vel) = "ONPOS"

\* The last of the planes a box comes to touch on its way into the hull, if it is
\* outside of none of them.
NoPlane == <<>>
LastStruck(planes, box, vel) ==
  LET struck == {k \in DOMAIN planes : PlaneVelType(box, planes[k], vel) = "HITPOS"}
  IN  IF Outside(planes, box, vel) \/ struck = {} THEN NoPlane ELSE planes[Max(struck)]

\* Among the faces, and when the box is neither outside of one nor meets any, the
\* planes of the hull's bounds.
AABBIntersectHull(box, hull, vel) ==
  LET face == LastStruck(hull.faces, box, vel)
  IN  IF Outside(hull.faces, box, vel) \/ face # NoPlane THEN face
      ELSE LastStruck(AABBToPlanes(hull.box), box, vel)

\* The velocity is flattened onto the last plane met, and a little is given back.
HullClsnCheck(s, i, k) ==
  LET b      == s.body[i]
      struck == AABBIntersectHull(b.pre, hulls[k], b.vel)
      along  == Scale(struck.n, Dot(struck.n, b.vel))
  IN  IF ~AABBIntersect(b.move, hulls[k].box) \/ struck = NoPlane THEN s
      ELSE [body  |-> [s.body EXCEPT ![i] =
                         WithVelocity(b, Plus(Minus(b.vel, along), Scale(struck.n, Overbounce)))],
            met   |-> [s.met EXCEPT ![i] = @ \cup {hulls[k]}],
            whole |-> s.whole]

\* A body against all bodies in the list's order, itself too, and against all hulls.
AgainstBodies(s, i) ==
  LET after[k \in 0..Len(awake)] ==
        IF k = 0 THEN s ELSE BodyClsnCheck(after[k - 1], i, awake[k])
  IN  after[Len(awake)]

AgainstHulls(s, i) ==
  LET after[k \in 0..Len(hulls)] ==
        IF k = 0 THEN s ELSE HullClsnCheck(after[k - 1], i, k)
  IN  after[Len(hulls)]

\* A slip: one hull is enough.
AgainstFirstHull(s, i) ==
  LET after[k \in 0..Len(hulls)] ==
        IF k = 0 THEN s
        ELSE IF after[k - 1].met[i] \subseteq Body THEN HullClsnCheck(after[k - 1], i, k)
        ELSE after[k - 1]
  IN  after[Len(hulls)]
FirstHullOnly(s) ==
  LET after[k \in 0..Len(awake)] ==
        IF k = 0 THEN s ELSE AgainstFirstHull(AgainstBodies(after[k - 1], awake[k]), awake[k])
  IN  after[Len(awake)]

\* Every body in the list's order.
CollisionCheck(s) ==
  LET after[k \in 0..Len(awake)] ==
        IF k = 0 THEN s ELSE AgainstHulls(AgainstBodies(after[k - 1], awake[k]), awake[k])
  IN  after[Len(awake)]

\* UpdateToSrv: where the body is, and the box it moved to.
UpdateToSrv(b) == [pos |-> b.pos, box |-> b.post]

\* What the AIs may ask for before a step.
Asked == {push \in [Awake -> UNION {Pushes[b] : b \in Body}] : \A b \in Awake : push[b] \in Pushes[b]}

Move(b) == [b EXCEPT !.pos = Plus(@, b.vel)]

\* The moves of all awake bodies.
AllMove(s) ==
  [s EXCEPT !.body = [b \in Body |-> IF b \in Awake THEN Move(s.body[b]) ELSE s.body[b]]]

\* The velocities of all awake bodies, their collisions, and their moves.
ProcessAwakeBodies(push) ==
  LET pushed == [b \in Body |-> IF b \in Awake THEN Push(body[b], push[b]) ELSE body[b]]
  IN  AllMove(CollisionCheck([body |-> pushed, met |-> [b \in Awake |-> {}], whole |-> TRUE]))

\* What a step leaves.
Simulated(s) ==
  /\ body' = s.body
  /\ ent' = [b \in Body |-> IF b \in Awake THEN UpdateToSrv(s.body[b]) ELSE ent[b]]
  /\ met' = s.met
  /\ whole' = s.whole

\* Simulate, with what they asked for.
Simulate ==
  /\ \E push \in Asked : Simulated(ProcessAwakeBodies(push))
  /\ UNCHANGED <<awake, hulls, gravity>>

-----------------------------------------------------------------------------
\* The other calls of the server.

NoStep == met' = <<>> /\ whole' = TRUE

\* AddBody takes an unused body and gives it the mass and the box of the
\* entity's script; the boxes of the move are those of its former use, and the
\* entity's is still the one of its script.
AddBody(s, b, place) ==
  [awake |-> <<b>> \o s.awake,
   body  |-> [s.body EXCEPT ![b].mass = Mass[b], ![b].base = Base[b],
                            ![b].pos = place, ![b].vel = Origin],
   ent   |-> [s.ent EXCEPT ![b] = [pos |-> place, box |-> Base[b]]]]

\* Several, one after the other.
AddBodies(s, bodies, place) ==
  LET after[k \in 0..Len(bodies)] ==
        IF k = 0 THEN s ELSE AddBody(after[k - 1], bodies[k], place[bodies[k]])
  IN  after[Len(bodies)]

Become(s) == awake' = s.awake /\ body' = s.body /\ ent' = s.ent

AddEntity ==
  /\ \E b \in Body \ Awake, place \in Places :
       Become(AddBody([awake |-> awake, body |-> body, ent |-> ent], b, place))
  /\ NoStep
  /\ UNCHANGED <<hulls, gravity>>

RemoveBody ==
  /\ \E k \in DOMAIN awake : awake' = RemoveAt(awake, k)
  /\ NoStep
  /\ UNCHANGED <<body, ent, hulls, gravity>>

\* SetupWorld with the map that was loaded, or without hulls when none was.
SetupWorld(world) == hulls' = world

SetGravity(g) == gravity' = g

\* The console's LOADMAP: the entities stay where they are.
LoadMap ==
  /\ \E world \in Worlds \cup {<<>>} : SetupWorld(world)
  /\ NoStep
  /\ UNCHANGED <<awake, body, ent, gravity>>

\* A level: its entities replace those that are there, and there is gravity.
LoadLevel ==
  /\ \E world \in Worlds \cup {<<>>}, B \in SUBSET Body : \E places \in [B -> Places] :
       /\ SetupWorld(world)
       /\ Become(AddBodies([awake |-> <<>>, body |-> body, ent |-> ent], SetToSeq(B), places))
  /\ SetGravity(Gravity)
  /\ NoStep

\* Shutdown and Init, when the server starts again.
Restart ==
  /\ awake' = <<>>
  /\ SetupWorld(<<>>)
  /\ SetGravity(Origin)
  /\ NoStep
  /\ UNCHANGED <<body, ent>>

PhysicsNext ==
  /\ calls < MaxCalls
  /\ calls' = calls + 1
  /\ Simulate \/ AddEntity \/ RemoveBody \/ LoadMap \/ LoadLevel \/ Restart

PhysicsSpec == PhysicsInit /\ [][PhysicsNext]_physVars

-----------------------------------------------------------------------------
Stepped == DOMAIN met

Now(b) == MoveBox(body[b].base, body[b].pos)

\* A body less than the overbounce away from a hull comes to a later one that
\* faces it.
Squeezed(b, k) ==
  LET box == body[b].pre
  IN  \E l \in DOMAIN hulls, x \in Axis :
        /\ l > k /\ hulls[l] \in met[b]
        /\ \/ /\ box.lo[x] < hulls[k].box.hi[x] + Overbounce
              /\ hulls[k].box.hi[x] <= box.lo[x] /\ box.hi[x] <= hulls[l].box.lo[x]
           \/ /\ box.hi[x] > hulls[k].box.lo[x] - Overbounce
              /\ hulls[l].box.hi[x] <= box.lo[x] /\ box.hi[x] <= hulls[k].box.lo[x]

\* A body that met no other body in a step, and was not in a hull before it, is
\* not in it afterwards: HullClsnCheck is asked once for each hull, in the map's
\* order, and what it does for one hull does not undo what it did for another -
\* unless a later hull, facing it, bounces the body back into it.
StaysOut ==
  \A b \in Stepped, k \in DOMAIN hulls :
    met[b] \cap Body = {} /\ ~Overlap(body[b].pre, hulls[k].box) /\ ~Squeezed(b, k)
      => ~Overlap(Now(b), hulls[k].box)

\* Two bodies that met nothing but each other in a step, and did not touch before
\* it, do not overlap after it, although CollisionCheck asks BodyClsnCheck for
\* each pair twice.
PairsStayApart ==
  \A i, j \in Stepped :
    i # j /\ met[i] \subseteq {j} /\ met[j] \subseteq {i} /\ ~AABBIntersect(body[i].pre, body[j].pre)
      => ~Overlap(Now(i), Now(j))

\* A quantity of the awake bodies, summed up.
Total(g) ==
  LET sum[k \in 0..Len(awake)] == IF k = 0 THEN 0 ELSE sum[k - 1] + g[awake[k]]
  IN  sum[Len(awake)]

Momentum(v) == [i \in Axis |-> Total([b \in Awake |-> body[b].mass * v[b][i]])]
Energy(v)   == Total([b \in Awake |-> body[b].mass * Dot(v[b], v[b])])

\* A step whose collisions come out whole, and in which no hull was met, keeps
\* the momentum and the energy the forces left: the collisions are elastic,
\* whatever the masses and however many there were.
StepIsElastic ==
  (met' # <<>> /\ whole' /\ \A b \in Awake : met'[b] \subseteq Body) =>
    \E push \in Asked :
      LET forced == [b \in Awake |-> Plus(Plus(body[b].vel, gravity), push[b])]
          left   == [b \in Awake |-> body'[b].vel]
      IN  Momentum(left) = Momentum(forced) /\ Energy(left) = Energy(forced)

\* Asking for each pair twice, and the order of the bodies, give no body a
\* momentum or an energy that another does not lose.
CollisionsAreElastic == [][StepIsElastic]_physVars
=============================================================================
