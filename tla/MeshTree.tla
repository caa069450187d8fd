------------------------------ MODULE MeshTree ------------------------------
(***************************************************************************)
(* CLMeshTree (lm_sys/lm_mesh_tree.cpp): the meshes of an entity, hung     *)
(* from each other's joints, each with the animation it plays.  A node     *)
(* plays its current clip; for a transition it remembers the clip it comes *)
(* from, and while that lasts the clip it is to go to next.  Meshes and    *)
(* skeletons belong to their managers: all trees that name a mesh have     *)
(* the same one, and with it the one pose its matrices are set up for      *)
(* (CLMeshAnim, lm_mesh_anim.cpp).                                         *)
(*                                                                         *)
(* Times are in ticks.  A pose is kept as the frames it is made of; the    *)
(* matrices and the vertices, which follow from them, are left out.        *)
(***************************************************************************)
EXTENDS Integers, Sequences

CONSTANTS
  NoSkel,   \* a skeleton that did not load: MM_LoadSkel's null pointer
  Anims     \* the animations of each skeleton, [first, num, loopback]

\* An animation within a skeleton, m_pSkel and m_nAnim of a node.
Clip(skel, anim) == [skel |-> skel, anim |-> anim]
NoClip == Clip(NoSkel, 0)

\* Progress through a clip: m_fAnimProgress is a hundred times part / whole.
Part(part, whole) == [part |-> part, whole |-> whole]
Start == Part(0, 1)

\* MeshNode.
Node(cur, speed, elapsed, progress, prev, prevProgress, post, next) ==
  [cur |-> cur,           \* m_pSkel, m_nAnim
   speed |-> speed,       \* m_fAnimSpeed: of the clip, or of the transition
   elapsed |-> elapsed,   \* m_fElapsed
   progress |-> progress, \* m_fAnimProgress
   prev |-> prev,         \* m_pPrevSkel, m_nPrevAnim; NoClip: no transition
   prevProgress |-> prevProgress, \* Start: not read any more
   post |-> post,         \* m_fPostTransSpeed
   next |-> next]         \* m_pNextSkel, m_nNextAnim

\* MeshNode::Load of a node with this default skeleton; second is 1.0f.
NewNode(skel, second) ==
  Node(Clip(skel, 0), second, 0, Start, NoClip, Start, second, NoClip)

InTransition(n) == n.prev.skel # NoSkel
HasNext(n) == n.next.skel # NoSkel

-----------------------------------------------------------------------------
(* CLMeshTree::SetAnimation of one node.                                   *)

\* The clip is the current one: what was to be next is not to be any more.
KeepClip(n, speed) ==
  Node(n.cur, n.speed, n.elapsed, n.progress, n.prev, n.prevProgress, speed,
       NoClip)

\* During a transition the clip waits, and takes the place of one that waits.
QueueClip(n, clip, speed) ==
  Node(n.cur, n.speed, n.elapsed, n.progress, n.prev, n.prevProgress, speed,
       clip)

StartTransition(n, clip, speed, trans) ==
  Node(clip, trans, 0, Start, n.cur, n.progress, speed, n.next)

\* A slip: a clip that waits is forgotten only by one that waits after it.
SetClipKeepsNext(n, clip, speed, trans) ==
  IF clip = n.cur
  THEN Node(n.cur, n.speed, n.elapsed, n.progress, n.prev, n.prevProgress,
            speed, n.next)
  ELSE IF InTransition(n) THEN QueueClip(n, clip, speed)
  ELSE StartTransition(n, clip, speed, trans)

SetClip(n, clip, speed, trans) ==
  IF clip = n.cur THEN KeepClip(n, speed)
  ELSE IF InTransition(n) THEN QueueClip(n, clip, speed)
  ELSE StartTransition(n, clip, speed, trans)

\* What the node plays once its transitions are over.
Goal(n) == IF HasNext(n) THEN n.next ELSE n.cur

-----------------------------------------------------------------------------
(* CLMeshTree::Update of one node.                                         *)

\* A slip: the clip that waited waits on.
TurnKeepsNext(n) ==
  Node(IF HasNext(n) THEN n.next ELSE n.cur,
       IF HasNext(n) THEN n.speed ELSE n.post, 0, Start,
       IF HasNext(n) THEN n.cur ELSE NoClip, Start, n.post, n.next)

\* The clip or the transition is over: the transition to the next clip, with
\* the speed of this one, or the clip from its start with its own speed.
Turn(n) ==
  IF HasNext(n)
  THEN Node(n.next, n.speed, 0, Part(0, n.speed), n.cur, Part(1, 100),
            n.post, NoClip)
  ELSE Node(n.cur, n.post, 0, Part(0, n.post), NoClip, Start, n.post, NoClip)

\* A node without a skeleton is passed over.
UpdateNode(n, dt) ==
  IF n.cur.skel = NoSkel THEN n
  ELSE IF n.elapsed + dt > n.speed THEN Turn(n)
  ELSE Node(n.cur, n.speed, n.elapsed + dt, Part(n.elapsed + dt, n.speed),
            n.prev, n.prevProgress, n.post, n.next)

-----------------------------------------------------------------------------
(* Poses.                                                                  *)

\* CLSkel2::GetAnim: the number is clamped.
GetAnim(clip) ==
  LET anims == Anims[clip.skel]
  IN  anims[IF clip.anim < Len(anims) THEN clip.anim + 1 ELSE Len(anims)]

\* CLSkel2::GetFrameFromTime.  An animation that loops back runs to its last
\* frame and returns; another goes from its last frame to its first.  The
\* product with the number of frames is a millionth short, so that the end
\* of the time is still in the last frame.  No time at all is divided by
\* itself when a transition takes none and no time has passed.
GetFrameFromTime(clip, t) ==
  LET a == GetAnim(clip)
      there == IF 2 * t.part >= t.whole THEN t.whole - t.part ELSE t.part
      num == IF a.loopback THEN 2 * (a.num - 1) * there ELSE a.num * t.part
      frame1 == a.first + (IF num = 0 THEN 0 ELSE (num - 1) \div t.whole)
      frame2 == IF frame1 >= a.first + a.num - 1 THEN a.first ELSE frame1 + 1
  IN  [frame1 |-> frame1, frame2 |-> frame2, t |-> t]

SetupFrame(clip, t) ==
  IF t.whole = 0 THEN [frame1 |-> 0, frame2 |-> 0, t |-> t]
  ELSE GetFrameFromTime(clip, t)

\* What Update sets the mesh of the node up for: SetupFrame, and TransitionTo
\* the first frame of the current clip.
Pose(n) ==
  IF InTransition(n)
  THEN [from |-> SetupFrame(n.prev, n.prevProgress),
        to |-> GetAnim(n.cur).first, done |-> n.progress]
  ELSE [from |-> SetupFrame(n.cur, n.progress), to |-> 0, done |-> Start]
=============================================================================
