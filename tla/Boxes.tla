------------------------------- MODULE Boxes -------------------------------
(***************************************************************************)
(* The geometry of the Legacy Physics engine (3rdParty/ML_lib): vectors,   *)
(* axis aligned boxes and planes, and what a box meets on its way.  A      *)
(* component of a vector is a whole number of a unit the caller chooses,   *)
(* and times are never computed: t = n / d is compared by its numerator    *)
(* and its denominator.                                                    *)
(***************************************************************************)
EXTENDS Integers, Sequences, FiniteSetsExt

Axis == 1..3

Vector == [Axis -> Int]
Box    == [lo : Vector, hi : Vector]
Plane  == [n : Vector, d : Int]

Origin == <<0, 0, 0>>

Plus(u, v)  == [i \in Axis |-> u[i] + v[i]]
Minus(u, v) == [i \in Axis |-> u[i] - v[i]]
Scale(v, k) == [i \in Axis |-> v[i] * k]
Dot(u, v)   == u[1] * v[1] + u[2] * v[2] + u[3] * v[3]

Magnitude(k) == IF k < 0 THEN -k ELSE k

-----------------------------------------------------------------------------
\* A box [lo, hi], moved by a vector; the least box round points, and round
\* two boxes.
MoveBox(b, v) == [lo |-> Plus(b.lo, v), hi |-> Plus(b.hi, v)]

AABBFromVec3s(V) == [lo |-> [i \in Axis |-> Min({v[i] : v \in V})],
                     hi |-> [i \in Axis |-> Max({v[i] : v \in V})]]

AABBCatenate(a, b) == AABBFromVec3s({a.lo, a.hi, b.lo, b.hi})

\* Boxes that touch intersect.
AABBIntersect(a, b) == \A i \in Axis : a.lo[i] <= b.hi[i] /\ b.lo[i] <= a.hi[i]

\* The boxes have a point in common that is inside both.
Overlap(a, b) == \A i \in Axis : a.lo[i] < b.hi[i] /\ b.lo[i] < a.hi[i]

-----------------------------------------------------------------------------
\* When m, moving by v, begins and ceases to overlap the still box s along
\* axis i, as a multiple of 1 / Magnitude(v[i]) of the step.
EnterAxis(m, s, v, i) == IF v[i] > 0 THEN s.lo[i] - m.hi[i] ELSE m.lo[i] - s.hi[i]
LeaveAxis(m, s, v, i) == IF v[i] > 0 THEN s.hi[i] - m.lo[i] ELSE m.hi[i] - s.lo[i]

\* ML_AABBIntersectMoving finds a time of collision: the intervals of the
\* axes and the step have an instant in common.
IntersectMoving(m, s, v) ==
  LET moving == {i \in Axis : v[i] # 0}
  IN  /\ \A i \in Axis \ moving : s.lo[i] < m.hi[i] /\ m.lo[i] < s.hi[i]
      /\ \A i \in moving : /\ EnterAxis(m, s, v, i) <= Magnitude(v[i])
                           /\ LeaveAxis(m, s, v, i) >= 0
      /\ \A i, j \in moving :
           EnterAxis(m, s, v, i) * Magnitude(v[j]) <= LeaveAxis(m, s, v, j) * Magnitude(v[i])

-----------------------------------------------------------------------------
\* The corner of the box that lies furthest back along the plane's normal,
\* and the one furthest forward (ML_AABBMinMax).
Backmost(b, n)  == MapThenSumSet(LAMBDA i : n[i] * (IF n[i] > 0 THEN b.lo[i] ELSE b.hi[i]), Axis)
Frontmost(b, n) == MapThenSumSet(LAMBDA i : n[i] * (IF n[i] > 0 THEN b.hi[i] ELSE b.lo[i]), Axis)

\* ML_AABBIntersectPlaneVelType: where the box is, moving by v, relative to
\* the plane p, and whether it comes to touch it from either side.
PlaneVelType(b, p, v) ==
  LET min == Backmost(b, p.n)
      max == Frontmost(b, p.n)
      dot == Dot(v, p.n)
  IN  IF max <= p.d THEN IF dot > 0 /\ max + dot >= p.d THEN "HITNEG" ELSE "ONNEG"
      ELSE IF min >= p.d THEN IF dot < 0 /\ min + dot <= p.d THEN "HITPOS" ELSE "ONPOS"
      ELSE "CUR"

\* The planes of a box, facing outwards: back, right, front, left, top, bottom.
AABBToPlanes(b) ==
  LET face(n) == [n |-> n, d |-> Frontmost(b, n)]
  IN  <<face(<<0, 0, -1>>), face(<<1, 0, 0>>), face(<<0, 0, 1>>),
        face(<<-1, 0, 0>>), face(<<0, 1, 0>>), face(<<0, -1, 0>>)>>
=============================================================================
