---------------------------- MODULE AssetProofs -----------------------------
(***************************************************************************)
(* LastAskedWins for any entities, models, times and interleaving of       *)
(* frames and commands.  What a node will do, its Goal, is set by          *)
(* SetAnimation in each of its three cases and kept by Update, also when   *)
(* the clip that waits becomes the current one; for that a clip may wait   *)
(* only during a transition, which is NodeOK.                              *)
(*                                                                         *)
(* And an archive holds the files that were added to it; and two bodies    *)
(* that collide part, and lose neither momentum nor energy.                *)
(***************************************************************************)
EXTENDS Animation, Archive, Physics, SequenceLemmas

Flag == [change : BOOLEAN, node : {1}, skel : Nat, anim : {0},
         speed : Nat, trans : Nat]

\* A clip waits only for the end of a transition.
NodeOK(n) == HasNext(n) => InTransition(n)

\* The first node of an entity does what was said, at once or next.
Does(e) ==
  /\ Goal(tree[e][1]) = ClipOf(e, said[e])
  /\ tree[e][1].post = said[e].speed

Wanted(e) == Said(e) /\ ClipOf(e, said[e]).skel # NoSkel

\* The inductive invariant: the bit is about what was said last, and what was
\* said and is not in the flags any more is in the tree.
IInv ==
  /\ phase \in {"console", "update", "render"}
  /\ flags \in [Ent -> Flag]
  /\ said \in [Ent -> Flag]
  /\ \A e \in Ent : DOMAIN tree[e] = Nodes(e) /\ NodeOK(tree[e][1])
  /\ \A e \in Ent : Said(e) /\ flags[e].change => flags[e] = said[e]
  /\ \A e \in Ent : Wanted(e) /\ (phase # "update" \/ ~flags[e].change)
                      => Does(e)

-----------------------------------------------------------------------------
(* Lemmas on flags and nodes.                                              *)

LEMMA FlagsAreFlags ==
  ASSUME NEW a \in Nat, NEW b \in Nat, NEW c \in Nat
  PROVE  SetAnim(a, b, c) \in Flag
<1>1. (b * Second) \div 10 \in Nat /\ (c * Second) \div 10 \in Nat
  <2>1. b * Second \in Nat /\ c * Second \in Nat
    BY AnimationAssumption
  <2>2. \A x \in Nat : x \div 10 \in Nat
    OBVIOUS
  <2> QED  BY <2>1, <2>2
<1> QED
  BY <1>1 DEF SetAnim, Flag

LEMMA UnsetIsFlag ==
  ASSUME NEW f \in Flag
  PROVE  Unset(f) \in Flag /\ ~Unset(f).change
  BY DEF Unset, Flag

LEMMA SetClipSetsGoal ==
  ASSUME NEW n, NodeOK(n), NEW clip, NEW speed, NEW trans
  PROVE  LET m == SetClip(n, clip, speed, trans)
         IN  /\ NodeOK(m)
             /\ clip.skel # NoSkel => Goal(m) = clip /\ m.post = speed
<1>1. CASE clip = n.cur
  BY <1>1 DEF SetClip, KeepClip, Node, NoClip, Clip, NodeOK, HasNext, Goal
<1>2. CASE clip # n.cur /\ InTransition(n)
  BY <1>2 DEF SetClip, QueueClip, Node, NodeOK, HasNext, InTransition, Goal
<1>3. CASE clip # n.cur /\ ~InTransition(n)
  <2>1. ~HasNext(n)
    BY <1>3 DEF NodeOK
  <2>2. SetClip(n, clip, speed, trans) = StartTransition(n, clip, speed, trans)
    BY <1>3 DEF SetClip
  <2> QED
    BY <2>1, <2>2 DEF StartTransition, Node, NodeOK, HasNext, Goal
<1> QED
  BY <1>1, <1>2, <1>3

LEMMA UpdateKeepsGoal ==
  ASSUME NEW n, NodeOK(n), NEW dt
  PROVE  LET m == UpdateNode(n, dt)
         IN  NodeOK(m) /\ Goal(m) = Goal(n) /\ m.post = n.post
<1>1. CASE n.cur.skel = NoSkel
  BY <1>1 DEF UpdateNode
<1>2. CASE n.cur.skel # NoSkel /\ n.elapsed + dt > n.speed
  <2>1. UpdateNode(n, dt) = Turn(n)
    BY <1>2 DEF UpdateNode
  <2> QED
    BY <2>1, <1>2
       DEF Turn, Node, NoClip, Clip, NodeOK, HasNext, InTransition, Goal
<1>3. CASE n.cur.skel # NoSkel /\ ~(n.elapsed + dt > n.speed)
  BY <1>3 DEF UpdateNode, Node, NodeOK, HasNext, InTransition, Goal
<1> QED
  BY <1>1, <1>2, <1>3

LEMMA SetAnimationIsFirst ==
  ASSUME NEW e \in Ent, NEW nodes, DOMAIN nodes = Nodes(e),
         NEW f \in Flag
  PROVE  LET new == SetAnimation(e, nodes, f)
         IN  /\ DOMAIN new = Nodes(e)
             /\ ~f.change => new = nodes
             /\ f.change => new[1] = SetClip(nodes[1], ClipOf(e, f), f.speed,
                                             f.trans)
<1>1. 1 \in Nodes(e) /\ f.node = 1
  BY AnimationAssumption DEF Flag
<1> QED
  BY <1>1 DEF SetAnimation

LEMMA NewTreeOK ==
  ASSUME NEW e \in Ent
  PROVE  DOMAIN NewTree(e) = Nodes(e) /\ NodeOK(NewTree(e)[1])
<1> DEFINE fresh == [n \in Nodes(e) |-> NewNode(Model[e].defSkel[n], Second)]
           f == SetAnim(0, 20, 0)
<1>1. f \in Flag
  BY FlagsAreFlags
<1>2. f.change
  BY DEF SetAnim
<1>3. 1 \in Nodes(e)
  BY AnimationAssumption
<1>4. NodeOK(fresh[1])
  BY <1>3 DEF NewNode, Node, NoClip, Clip, NodeOK, HasNext
<1>5. NodeOK(SetClip(fresh[1], ClipOf(e, f), f.speed, f.trans))
  BY <1>4, SetClipSetsGoal
<1>6. /\ DOMAIN NewTree(e) = Nodes(e)
      /\ NewTree(e)[1] = SetClip(fresh[1], ClipOf(e, f), f.speed, f.trans)
  <2>1. DOMAIN fresh = Nodes(e)
    OBVIOUS
  <2>2. NewTree(e) = SetAnimation(e, fresh, f)
    BY DEF NewTree
  <2> HIDE DEF fresh, f
  <2> QED
    BY <1>1, <1>2, <2>1, <2>2, SetAnimationIsFirst
<1> QED
  BY <1>5, <1>6

-----------------------------------------------------------------------------
(* The invariant.                                                          *)

LEMMA InitEstablishes == Init => IInv
<1> SUFFICES ASSUME Init PROVE IInv
  OBVIOUS
<1>1. NoAnim \in Flag /\ ~NoAnim.change
  BY FlagsAreFlags, UnsetIsFlag DEF NoAnim
<1>2. \A e \in Ent : InitFlags(e) \in Flag
  BY <1>1, FlagsAreFlags DEF InitFlags
<1>3. \A e \in Ent : DOMAIN tree[e] = Nodes(e) /\ NodeOK(tree[e][1])
  BY NewTreeOK DEF Init, UpdateEntSrvToCli
<1>4. \A e \in Ent : ~Said(e)
  BY <1>1 DEF Init, Said
<1> QED
  BY <1>1, <1>2, <1>3, <1>4 DEF Init, IInv, Wanted

\* Flags change, and with them what was said; the trees do not.
LEMMA ServerFrameKeeps == IInv /\ ServerFrame => IInv'
<1> SUFFICES ASSUME IInv, ServerFrame PROVE IInv'
  OBVIOUS
<1>1. PICK acting :
        flags' = [e \in Ent |-> PrePhys(e, e \in acting)]
  BY DEF ServerFrame
<1>2. flags' \in [Ent -> Flag]
  <2>1. ASSUME NEW e \in Ent PROVE PrePhys(e, e \in acting) \in Flag
    <3>1. /\ Unset(flags[e]) \in Flag /\ SetAnim(1, 10, 3) \in Flag
          /\ SetAnim(0, 20, 3) \in Flag /\ SetAnim(1, 10, 5) \in Flag
      BY FlagsAreFlags, UnsetIsFlag DEF IInv
    <3> QED
      BY <3>1, Zenon DEF PrePhys, JackAnim, BlaineAnim
  <2> QED
    BY <1>1, <2>1
<1>3. said' \in [Ent -> Flag]
  BY <1>2 DEF ServerFrame, IInv
<1>4. ASSUME NEW e \in Ent
      PROVE  Said(e)' /\ flags'[e].change => flags'[e] = said'[e]
  BY <1>4 DEF ServerFrame
<1>5. ASSUME NEW e \in Ent, Wanted(e)', ~flags'[e].change
      PROVE  Does(e)'
  <2>1. said'[e] = said[e] /\ tree' = tree
    BY <1>5 DEF ServerFrame
  <2>2. Wanted(e)
    BY <1>5, <2>1 DEF Wanted, Said
  <2>3. Does(e)
    BY <2>2 DEF IInv, ServerFrame
  <2> QED
    BY <2>1, <2>3 DEF Does
<1> QED
  BY <1>2, <1>3, <1>4, <1>5 DEF IInv, ServerFrame

LEMMA ClientUpdateKeeps == IInv /\ ClientUpdate => IInv'
<1> SUFFICES ASSUME IInv, ClientUpdate PROVE IInv'
  OBVIOUS
<1> USE DEF IInv, ClientUpdate
<1>1. ASSUME NEW e \in Ent
      PROVE  DOMAIN tree'[e] = Nodes(e) /\ NodeOK(tree'[e][1])
  <2>1. CASE flags[e].change
    BY <2>1, SetAnimationIsFirst, SetClipSetsGoal
  <2>2. CASE ~flags[e].change
    BY <2>2, SetAnimationIsFirst
  <2> QED
    BY <2>1, <2>2
<1>2. ASSUME NEW e \in Ent, Wanted(e)'
      PROVE  Does(e)'
  <2>1. Wanted(e) /\ said' = said
    BY <1>2 DEF Wanted, Said
  <2>2. CASE flags[e].change
    <3>1. flags[e] = said[e]
      BY <2>1, <2>2 DEF Wanted
    <3>2. tree'[e][1] = SetClip(tree[e][1], ClipOf(e, said[e]),
                                said[e].speed, said[e].trans)
      BY <2>2, <3>1, SetAnimationIsFirst
    <3> QED
      BY <2>1, <3>2, SetClipSetsGoal DEF Wanted, Does
  <2>3. CASE ~flags[e].change
    <3>1. tree'[e] = tree[e]
      BY <2>3, SetAnimationIsFirst
    <3> QED
      BY <2>1, <2>3, <3>1 DEF Does
  <2> QED
    BY <2>2, <2>3
<1> QED
  BY <1>1, <1>2 DEF Said

LEMMA ClientRenderKeeps == IInv /\ ClientRender => IInv'
<1> SUFFICES ASSUME IInv, ClientRender PROVE IInv'
  OBVIOUS
<1>1. ASSUME NEW e \in Ent
      PROVE  /\ DOMAIN tree'[e] = Nodes(e)
             /\ tree'[e][1] = UpdateNode(tree[e][1], step)
  <2>1. tree'[e] = UpdateTree(tree[e], step)
    BY DEF ClientRender
  <2> QED
    BY <2>1, AnimationAssumption DEF UpdateTree, IInv
<1>2. ASSUME NEW e \in Ent
      PROVE  /\ NodeOK(tree'[e][1])
             /\ Goal(tree'[e][1]) = Goal(tree[e][1])
             /\ tree'[e][1].post = tree[e][1].post
  BY <1>1, UpdateKeepsGoal DEF IInv
<1>3. flags' = flags /\ said' = said /\ phase = "render" /\ phase' = "console"
  BY DEF ClientRender
<1>4. ASSUME NEW e \in Ent, Wanted(e)'
      PROVE  Does(e)'
  BY <1>2, <1>3, <1>4 DEF IInv, Wanted, Said, Does
<1> QED
  BY <1>1, <1>2, <1>3, <1>4 DEF IInv, Said

LEMMA ReconnectKeeps == IInv /\ Reconnect => IInv'
<1> SUFFICES ASSUME IInv, Reconnect PROVE IInv'
  OBVIOUS
<1>1. NoAnim \in Flag /\ ~NoAnim.change
  BY FlagsAreFlags, UnsetIsFlag DEF NoAnim
<1>2. \A e \in Ent : ~Said(e)'
  BY <1>1 DEF Reconnect, Said
<1>3. \A e \in Ent : DOMAIN tree'[e] = Nodes(e) /\ NodeOK(tree'[e][1])
  BY NewTreeOK DEF Reconnect, UpdateEntSrvToCli
<1> QED
  BY <1>1, <1>2, <1>3 DEF IInv, Reconnect, Wanted

\* Steps that leave flags, trees and what was said as they are.
LEMMA OthersKeep == IInv /\ (SkipServer \/ TogglePause \/ UNCHANGED vars) => IInv'
<1> SUFFICES ASSUME IInv, SkipServer \/ TogglePause \/ UNCHANGED vars
             PROVE  IInv'
  OBVIOUS
<1>1. flags' = flags /\ said' = said /\ tree' = tree
  BY DEF SkipServer, TogglePause, vars
<1>2. phase' = phase \/ (phase = "console" /\ phase' = "update")
  BY DEF SkipServer, TogglePause, vars
<1> QED
  BY <1>1, <1>2 DEF IInv, Said, Wanted, Does

LEMMA NextKeeps == IInv /\ [Next]_vars => IInv'
  BY ServerFrameKeeps, ClientUpdateKeeps, ClientRenderKeeps, ReconnectKeeps,
     OthersKeep DEF Next, Frame

LEMMA InvariantMeansWins == IInv => LastAskedWins
<1>1. ASSUME IInv, NEW e \in Ent
      PROVE  said[e].node = 1
  BY <1>1 DEF IInv, Flag
<1> QED
  BY <1>1 DEF IInv, LastAskedWins, Wanted, Does

\* However an AI changes its mind, between or during transitions, paused or
\* not, the tree of its entity does, or will do next, what the AI said last.
THEOREM LastAskedWinsAlways == Spec => []LastAskedWins
<1>1. Spec => []IInv
  BY InitEstablishes, NextKeeps, PTL DEF Spec
<1> QED
  BY <1>1, InvariantMeansWins, PTL

-----------------------------------------------------------------------------
(* Poses.  Every clip is one of a skeleton of its model, and progress is     *)
(* never past the end of a clip, so the frames are the clip's.               *)

Clips(e) == [skel : Skeletons(e) \cup {NoSkel}, anim : Nat]

Progress == {t \in [part : Nat, whole : Nat] : t.part <= t.whole}

\* Only skeletons that are there are played from or waited for.
NodeTyped(e, n) ==
  /\ n.cur \in Clips(e) /\ n.prev \in Clips(e) /\ n.next \in Clips(e)
  /\ n.speed \in Nat /\ n.elapsed \in Nat /\ n.post \in Nat
  /\ n.progress \in Progress /\ n.prevProgress \in Progress

PosesInv ==
  /\ step \in Nat
  /\ \A e \in Ent : \A n \in Nodes(e) : NodeTyped(e, tree[e][n])

LEMMA NodesAreNumbers ==
  ASSUME NEW e \in Ent
  PROVE  /\ Nodes(e) = 1..Len(Model[e].mesh) /\ Len(Model[e].mesh) \in Nat
         /\ 1 \in Nodes(e)
         /\ \A n \in Nodes(e) : Model[e].parent[n] \in Nodes(e)
         /\ \A n \in Nodes(e) : Model[e].defSkel[n] \in Skeletons(e)
         /\ \A flag \in Flag : ClipOf(e, flag) \in Clips(e)
<1>1. /\ Model[e].mesh \in Seq(Mesh) /\ 1 \in Nodes(e)
      /\ Model[e].parent[1] = 1
      /\ \A n \in Nodes(e) \ {1} : Model[e].parent[n] \in 1..(n - 1)
      /\ Model[e].skels \in Seq(Skeletons(e)) /\ Len(Model[e].skels) > 0
      /\ Model[e].defSkel \in [Nodes(e) -> Skeletons(e)]
  BY AnimationAssumption
<1>2. Nodes(e) = 1..Len(Model[e].mesh) /\ Len(Model[e].mesh) \in Nat
  BY <1>1, LenProperties DEF Nodes
<1>3. \A n \in Nodes(e) : Model[e].parent[n] \in Nodes(e)
  BY <1>1, <1>2
<1>4. ASSUME NEW flag \in Flag PROVE ClipOf(e, flag) \in Clips(e)
  <2> DEFINE skels == Model[e].skels
             l == Len(skels)
  <2>1. /\ l \in Nat \ {0} /\ \A i \in 1..l : skels[i] \in Skeletons(e)
    BY <1>1, LenProperties, ElementOfSeq
  <2>2. flag.skel \in Nat /\ flag.anim = 0
    BY DEF Flag
  <2>3. SkelOf(e, flag.skel) = skels[IF flag.skel < l THEN flag.skel + 1 ELSE l]
    BY DEF SkelOf
  <2> HIDE DEF skels, l
  <2>4. SkelOf(e, flag.skel) \in Skeletons(e)
    BY <2>1, <2>2, <2>3
  <2> QED  BY <2>2, <2>4 DEF ClipOf, Clip, Clips
<1> QED  BY <1>1, <1>2, <1>3, <1>4

LEMMA SetClipTyped ==
  ASSUME NEW e, NEW n, NodeTyped(e, n), NEW clip \in Clips(e),
         NEW speed \in Nat, NEW trans \in Nat
  PROVE  NodeTyped(e, SetClip(n, clip, speed, trans))
<1>1. NoClip \in Clips(e) /\ Start \in Progress /\ 0 \in Nat
  BY DEF NoClip, Clip, Clips, Start, Part, Progress
<1>2. CASE clip = n.cur
  BY <1>1, <1>2 DEF SetClip, KeepClip, Node, NodeTyped
<1>3. CASE clip # n.cur /\ InTransition(n)
  BY <1>1, <1>3 DEF SetClip, QueueClip, Node, NodeTyped
<1>4. CASE clip # n.cur /\ ~InTransition(n)
  BY <1>1, <1>4 DEF SetClip, StartTransition, Node, NodeTyped
<1> QED  BY <1>2, <1>3, <1>4

LEMMA UpdateNodeTyped ==
  ASSUME NEW e, NEW n, NodeTyped(e, n), NEW dt \in Nat
  PROVE  NodeTyped(e, UpdateNode(n, dt))
<1>1. /\ NoClip \in Clips(e) /\ Start \in Progress /\ Part(1, 100) \in Progress
      /\ \A w \in Nat : Part(0, w) \in Progress
  BY DEF NoClip, Clip, Clips, Start, Part, Progress
<1>2. CASE n.cur.skel = NoSkel
  BY <1>2 DEF UpdateNode
<1>3. CASE n.cur.skel # NoSkel /\ n.elapsed + dt > n.speed
  <2>1. UpdateNode(n, dt) = Turn(n)
    BY <1>3 DEF UpdateNode
  <2> QED  BY <1>1, <2>1 DEF Turn, Node, NodeTyped
<1>4. CASE n.cur.skel # NoSkel /\ ~(n.elapsed + dt > n.speed)
  <2>1. n.elapsed + dt \in Nat /\ n.elapsed + dt <= n.speed /\ n.speed \in Nat
    BY <1>4 DEF NodeTyped
  <2>2. Part(n.elapsed + dt, n.speed) \in Progress
    BY <2>1 DEF Part, Progress
  <2> QED  BY <1>4, <2>1, <2>2 DEF UpdateNode, Node, NodeTyped
<1> QED  BY <1>2, <1>3, <1>4

LEMMA NewTreeTyped ==
  ASSUME NEW e \in Ent
  PROVE  \A n \in Nodes(e) : NodeTyped(e, NewTree(e)[n])
<1> DEFINE fresh == [n \in Nodes(e) |-> NewNode(Model[e].defSkel[n], Second)]
           f == SetAnim(0, 20, 0)
<1>1. f \in Flag /\ f.change
  BY FlagsAreFlags DEF SetAnim
<1>2. ASSUME NEW n \in Nodes(e) PROVE NodeTyped(e, fresh[n])
  <2>1. /\ Clip(Model[e].defSkel[n], 0) \in Clips(e) /\ NoClip \in Clips(e)
        /\ Start \in Progress /\ Second \in Nat
    BY NodesAreNumbers, AnimationAssumption
       DEF NoClip, Clip, Clips, Start, Part, Progress
  <2> QED  BY <2>1 DEF NewNode, Node, NodeTyped
<1>3. NodeTyped(e, SetClip(fresh[1], ClipOf(e, f), f.speed, f.trans))
  BY <1>1, <1>2, NodesAreNumbers, SetClipTyped DEF Flag
<1>4. NewTree(e) = [fresh EXCEPT ![f.node] =
                      SetClip(fresh[1], ClipOf(e, f), f.speed, f.trans)]
      /\ f.node = 1
  BY <1>1 DEF NewTree, SetAnimation, SetAnim
<1>5. DOMAIN fresh = Nodes(e)
  OBVIOUS
<1> HIDE DEF fresh, f
<1> QED  BY <1>2, <1>3, <1>4, <1>5

LEMMA DivBelow ==
  ASSUME NEW x \in Nat, NEW w \in Nat \ {0}, NEW k \in Nat, x < k * w
  PROVE  x \div w \in 0..(k - 1)
<1> DEFINE q == x \div w
           r == x % w
<1>1. q \in Nat /\ r \in 0..(w - 1) /\ x = w * q + r
  OBVIOUS
<1>2. w * q < w * k
  BY <1>1
<1> HIDE DEF q
<1>3. q < k
  <2>1. SUFFICES ASSUME k <= q PROVE w * k <= w * q
    BY <1>1, <1>2
  <2>2. PICK d \in Nat : q = k + d
    BY <1>1, <2>1
  <2>3. w * q = w * k + w * d
    BY <1>1, <2>2
  <2> QED  BY <2>2, <2>3
<1> QED  BY <1>1, <1>3 DEF q

\* The frames that are set up are frames of the clip's animation.
LEMMA FramesOfClip ==
  ASSUME NEW e \in Ent, NEW clip \in Clips(e), clip.skel # NoSkel,
         NEW t \in Progress
  PROVE  /\ SetupFrame(clip, t).t = t
         /\ t.whole # 0 => InClip(clip, SetupFrame(clip, t))
<1>1. /\ clip.skel \in Skeletons(e) \ {NoSkel} /\ clip.anim \in Nat
      /\ t.part \in Nat /\ t.whole \in Nat /\ t.part <= t.whole
  BY DEF Clips, Progress
<1> DEFINE anims == Anims[clip.skel]
           a == GetAnim(clip)
           p == t.part
           w == t.whole
           there == IF 2 * p >= w THEN w - p ELSE p
           num == IF a.loopback THEN 2 * (a.num - 1) * there ELSE a.num * p
           frame1 == a.first + (IF num = 0 THEN 0 ELSE (num - 1) \div w)
           frame2 == IF frame1 >= a.first + a.num - 1 THEN a.first ELSE frame1 + 1
<1>2. a \in [first : Nat, num : Nat \ {0}, loopback : BOOLEAN]
  <2>1. /\ anims \in Seq([first : Nat, num : Nat \ {0}, loopback : BOOLEAN])
        /\ Len(anims) > 0
    BY <1>1, SkeletonsAssumption
  <2>2. a = anims[IF clip.anim < Len(anims) THEN clip.anim + 1 ELSE Len(anims)]
    BY DEF GetAnim
  <2> HIDE DEF anims, a
  <2>3. Len(anims) \in Nat
    BY <2>1, LenProperties
  <2>4. (IF clip.anim < Len(anims) THEN clip.anim + 1 ELSE Len(anims)) \in 1..Len(anims)
    BY <1>1, <2>1, <2>3
  <2> QED  BY <2>1, <2>2, <2>4, ElementOfSeq
<1>3. SetupFrame(clip, t) = IF w = 0 THEN [frame1 |-> 0, frame2 |-> 0, t |-> t]
                            ELSE [frame1 |-> frame1, frame2 |-> frame2, t |-> t]
  BY DEF SetupFrame, GetFrameFromTime
<1>4. a.first \in Nat /\ a.num \in Nat \ {0} /\ a.loopback \in BOOLEAN
  BY <1>2
<1>5. ASSUME w # 0 PROVE InClip(clip, SetupFrame(clip, t))
  <2> HIDE DEF a, p, w
  <2>1. p \in Nat /\ w \in Nat \ {0} /\ p <= w
    BY <1>1, <1>5 DEF p, w
  <2>2. there \in Nat /\ 2 * there <= w
    BY <2>1
  <2>3. num \in Nat /\ num <= a.num * w
    <3>1. CASE a.loopback
      <4> DEFINE m == a.num - 1
      <4>1. m \in Nat /\ a.num = m + 1  BY <1>4
      <4>2. num = 2 * m * there  BY <3>1
      <4>3. num = m * (2 * there) /\ num \in Nat
        <5> HIDE DEF m, there, num
        <5> QED  BY <2>2, <4>1, <4>2
      <4>4. PICK d \in Nat : w = 2 * there + d
        <5>1. w - 2 * there \in Nat /\ w = 2 * there + (w - 2 * there)
          BY <2>1, <2>2
        <5> QED  BY <5>1
      <4>5. a.num * w = m * (2 * there) + m * d + w
        <5> HIDE DEF m, there, num
        <5> QED  BY <2>1, <2>2, <4>1, <4>4
      <4>6. m * d \in Nat
        BY <4>1
      <4> HIDE DEF m, there, num
      <4> QED  BY <2>1, <4>3, <4>5, <4>6
    <3>2. CASE ~a.loopback
      <4>1. num = a.num * p  BY <3>2
      <4>2. PICK d \in Nat : w = p + d
        <5>1. w - p \in Nat /\ w = p + (w - p)  BY <2>1
        <5> QED  BY <5>1
      <4> HIDE DEF num
      <4>3. a.num * w = num + a.num * d /\ num \in Nat /\ a.num * d \in Nat
        BY <1>4, <2>1, <4>1, <4>2
      <4> QED  BY <4>3
    <3> QED  BY <3>1, <3>2
  <2> HIDE DEF num
  <2>4. num # 0 => (num - 1) \div w \in 0..(a.num - 1)
    <3>1. SUFFICES ASSUME num # 0 PROVE (num - 1) \div w \in 0..(a.num - 1)
      OBVIOUS
    <3>2. num - 1 \in Nat /\ num - 1 < a.num * w
      BY <2>1, <2>3, <3>1, <1>4
    <3> QED  BY <3>2, <2>1, <1>4, DivBelow
  <2>5. frame1 \in a.first..(a.first + a.num - 1)
    <3>1. CASE num = 0  BY <3>1, <1>4
    <3>2. CASE num # 0
      <4>1. PICK q \in 0..(a.num - 1) : q = (num - 1) \div w
        BY <3>2, <2>4
      <4> QED  BY <4>1, <3>2, <1>4
    <3> QED  BY <3>1, <3>2
  <2> HIDE DEF frame1
  <2>6. frame2 \in a.first..(a.first + a.num - 1)
    BY <2>5, <1>4
  <2> HIDE DEF frame2
  <2> QED  BY <1>3, <1>5, <2>5, <2>6 DEF InClip, a, w
<1> HIDE DEF frame1, frame2
<1> QED  BY <1>3, <1>5

LEMMA PoseFramesInClip ==
  ASSUME NEW e \in Ent, NEW n, NodeTyped(e, n), n.cur.skel # NoSkel,
         Pose(n).from.t.whole # 0
  PROVE  InClip(IF InTransition(n) THEN n.prev ELSE n.cur, Pose(n).from)
<1>1. CASE InTransition(n)
  <2>1. /\ n.prev \in Clips(e) /\ n.prev.skel # NoSkel /\ n.prevProgress \in Progress
        /\ Pose(n).from = SetupFrame(n.prev, n.prevProgress)
    BY <1>1 DEF NodeTyped, InTransition, Pose
  <2> QED  BY <1>1, <2>1, FramesOfClip
<1>2. CASE ~InTransition(n)
  <2>1. /\ n.cur \in Clips(e) /\ n.progress \in Progress
        /\ Pose(n).from = SetupFrame(n.cur, n.progress)
    BY <1>2 DEF NodeTyped, Pose
  <2> QED  BY <1>2, <2>1, FramesOfClip
<1> QED  BY <1>1, <1>2

\* The mesh of a node that only it has is in the pose of this node once the
\* tree is updated, whatever other trees have set it up for before.
LEMMA PoseOfOwn ==
  ASSUME NEW trees, NEW k \in DOMAIN Ents, NEW e \in Ent, Ents[k] = e,
         NEW n \in Nodes(e), trees[e][n].cur.skel # NoSkel,
         \A j \in Nodes(e) \ {n} : Model[e].mesh[j] # Model[e].mesh[n]
  PROVE  PoseAfter(trees, k, Model[e].mesh[n]) = Pose(trees[e][n])
<1> DEFINE m == Model[e].mesh[n]
           users == {i \in 1..k : Setters(Ents[i], trees[Ents[i]], m) # {}}
           last == Ents[Max(users)]
<1>1. k \in Nat \ {0} /\ n \in Nat
  <2>1. DOMAIN Ents = 1..Len(Ents) /\ Len(Ents) \in Nat
    BY AnimationAssumption, LenProperties
  <2> QED  BY <2>1, NodesAreNumbers
<1>2. Setters(e, trees[e], m) = {n}
  BY DEF Setters
<1>3. k \in users /\ \A i \in users : i <= k /\ i \in Nat
  BY <1>1, <1>2
<1>4. PoseAfter(trees, k, m) =
        IF users = {} THEN meshes[m]
        ELSE Pose(trees[last][Max(Setters(last, trees[last], m))])
  BY DEF PoseAfter
<1> HIDE DEF users
<1>5. Max(users) = k
  BY <1>1, <1>3 DEF Max
<1>6. last = e
  BY <1>5
<1> HIDE DEF last, m
<1>7. Max({n}) = n
  BY <1>1 DEF Max
<1>8. PoseAfter(trees, k, m) = Pose(trees[e][n])
  BY <1>2, <1>3, <1>4, <1>6, <1>7
<1> QED  BY <1>8 DEF m

\* Poses are set up from typed nodes only.
LEMMA PosesInvKept == IInv /\ PosesInv /\ [Next]_vars => PosesInv'
<1> SUFFICES ASSUME IInv, PosesInv, [Next]_vars PROVE PosesInv'
  OBVIOUS
<1>1. CASE ServerFrame
  <2>1. step' \in Nat /\ tree' = tree
    BY <1>1, AnimationAssumption DEF ServerFrame
  <2> QED  BY <2>1 DEF PosesInv
<1>2. CASE SkipServer \/ TogglePause \/ UNCHANGED vars
  BY <1>2 DEF SkipServer, TogglePause, vars, PosesInv
<1>3. CASE ClientUpdate
  <2>1. step' = step /\ tree' = [e \in Ent |-> SetAnimation(e, tree[e], flags[e])]
    BY <1>3 DEF ClientUpdate
  <2>2. ASSUME NEW e \in Ent, NEW n \in Nodes(e) PROVE NodeTyped(e, tree'[e][n])
    <3>1. flags[e] \in Flag /\ ClipOf(e, flags[e]) \in Clips(e) /\ DOMAIN tree[e] = Nodes(e)
      BY NodesAreNumbers DEF IInv
    <3>2. NodeTyped(e, tree[e][n])
      BY DEF PosesInv
    <3>3. NodeTyped(e, SetClip(tree[e][n], ClipOf(e, flags[e]), flags[e].speed,
                               flags[e].trans))
      BY <3>1, <3>2, SetClipTyped DEF Flag
    <3> QED  BY <2>1, <3>1, <3>2, <3>3 DEF SetAnimation
  <2> QED  BY <2>1, <2>2 DEF PosesInv
<1>4. CASE ClientRender
  <2>1. step' = step /\ tree' = [e \in Ent |-> UpdateTree(tree[e], step)]
    BY <1>4 DEF ClientRender
  <2>2. ASSUME NEW e \in Ent, NEW n \in Nodes(e) PROVE NodeTyped(e, tree'[e][n])
    <3>1. tree'[e][n] = UpdateNode(tree[e][n], step)
      BY <2>1 DEF UpdateTree, IInv
    <3> QED  BY <3>1, UpdateNodeTyped DEF PosesInv
  <2> QED  BY <2>1, <2>2 DEF PosesInv
<1>5. CASE Reconnect
  <2>1. step' = step /\ tree' = [e \in Ent |-> NewTree(e)]
    BY <1>5 DEF Reconnect, UpdateEntSrvToCli
  <2> QED  BY <2>1, NewTreeTyped DEF PosesInv
<1> QED  BY <1>1, <1>2, <1>3, <1>4, <1>5 DEF Next, Frame

\* What a step of Render draws.
DrawsItsPose ==
  phase = "render" =>
    \A e \in Ent : \A n \in Nodes(e) : Own(e, n)' =>
      LET node == tree'[e][n]
          pose == drawn'[e][n].pose
      IN  /\ pose = Pose(node)
          /\ pose.from.t.whole # 0 =>
               InClip(IF InTransition(node) THEN node.prev ELSE node.cur,
                      pose.from)
          /\ n > 1 /\ Own(e, Model[e].parent[n])' =>
               drawn'[e][n].on = Pose(tree'[e][Model[e].parent[n]])

LEMMA RenderDraws ==
  ASSUME PosesInv', ClientRender
  PROVE  DrawsItsPose
<1> SUFFICES ASSUME NEW e \in Ent, NEW n \in Nodes(e), Own(e, n)'
             PROVE  /\ drawn'[e][n].pose = Pose(tree'[e][n])
                    /\ drawn'[e][n].pose.from.t.whole # 0 =>
                         InClip(IF InTransition(tree'[e][n]) THEN tree'[e][n].prev
                                ELSE tree'[e][n].cur, drawn'[e][n].pose.from)
                    /\ n > 1 /\ Own(e, Model[e].parent[n])' =>
                         drawn'[e][n].on = Pose(tree'[e][Model[e].parent[n]])
  BY DEF DrawsItsPose
<1> DEFINE trees == [f \in Ent |-> UpdateTree(tree[f], step)]
           k == CHOOSE i \in DOMAIN Ents : Ents[i] = e
           u == Model[e].parent[n]
<1>1. tree' = trees /\ drawn' = RenderEnts(trees)
  BY DEF ClientRender
<1> HIDE DEF trees
<1>2. k \in DOMAIN Ents /\ Ents[k] = e
  BY DEF Ent, ToSet
<1>3. drawn'[e] = RenderTree(trees, k)
  BY <1>1 DEF RenderEnts
<1> HIDE DEF k
<1>4. /\ drawn'[e][n].pose = PoseAfter(trees, k, Model[e].mesh[n])
      /\ drawn'[e][n].on = PoseAfter(trees, k, Model[e].mesh[u])
  BY <1>2, <1>3 DEF RenderTree
<1>5. /\ trees[e][n].cur.skel # NoSkel
      /\ \A j \in Nodes(e) \ {n} : Model[e].mesh[j] # Model[e].mesh[n]
  BY <1>1 DEF Own
<1>6. drawn'[e][n].pose = Pose(tree'[e][n])
  BY <1>1, <1>2, <1>4, <1>5, PoseOfOwn
<1>7. NodeTyped(e, tree'[e][n]) /\ tree'[e][n].cur.skel # NoSkel
  BY <1>1, <1>5 DEF PosesInv
<1>8. ASSUME Own(e, u)' PROVE drawn'[e][n].on = Pose(tree'[e][u])
  <2>1. u \in Nodes(e)
    BY NodesAreNumbers
  <2>2. /\ trees[e][u].cur.skel # NoSkel
        /\ \A j \in Nodes(e) \ {u} : Model[e].mesh[j] # Model[e].mesh[u]
    BY <1>1, <1>8 DEF Own
  <2> HIDE DEF u
  <2> QED  BY <1>1, <1>2, <1>4, <2>1, <2>2, PoseOfOwn
<1> QED  BY <1>6, <1>7, <1>8, PoseFramesInClip

\* However many entities have a mesh in common, and whatever transitions,
\* frame lengths and reconnections there were, each is drawn in its own pose
\* and with frames of its own animation.
THEOREM EachDrawnInItsPose == Spec => DrawnInItsPose
<1>1. Init => IInv /\ PosesInv
  BY InitEstablishes, NewTreeTyped DEF Init, PosesInv, UpdateEntSrvToCli
<1>2. IInv /\ PosesInv /\ [Next]_vars => IInv' /\ PosesInv'
  BY NextKeeps, PosesInvKept
<1>3. IInv /\ PosesInv /\ [Next]_vars => [DrawsItsPose]_vars
  <2> SUFFICES ASSUME IInv, PosesInv, [Next]_vars, phase = "render",
                      ~UNCHANGED vars
               PROVE  DrawsItsPose
    BY DEF DrawsItsPose
  <2>1. ClientRender
    BY DEF Next, Frame, ServerFrame, SkipServer, ClientUpdate, TogglePause, Reconnect
  <2> QED  BY <1>2, <2>1, RenderDraws
<1> QED  BY <1>1, <1>2, <1>3, PTL DEF Spec, DrawnInItsPose, DrawsItsPose

-----------------------------------------------------------------------------
(* The names of an archive.                                                *)

NameSet == [of : Names, X : Nat]

-----------------------------------------------------------------------------
(* The cells and the writes.                                               *)

LEMMA NoElements ==
  ASSUME NEW S
  PROVE  << >> \in Seq(S) /\ Len(<< >>) = 0
OBVIOUS

\* A function on the first n numbers is a sequence.
LEMMA FunctionIsSeq ==
  ASSUME NEW S, NEW n \in Nat, NEW s \in [1..n -> S]
  PROVE  s \in Seq(S) /\ Len(s) = n
<1>1. s \in Seq(S)
  BY SeqDef
<1> QED  BY <1>1, LenProperties

LEMMA CellKinds ==
  ASSUME NEW c \in Cell
  PROVE  /\ c[1] = "head" => c[2] \in Nat /\ c[3] \in Nat
         /\ c[1] = "info" => c[2] \in Entries
         /\ c[1] = "old" => c[2] \in Seq(Entries)
<1>1. CASE c \in {"data", "zip"} \X Files \X Nat  BY <1>1
<1>2. CASE c \in {"info"} \X Entries \X {1, 2}  BY <1>2
<1>3. CASE c \in {"head"} \X Nat \X Nat  BY <1>3
<1>4. CASE c \in {"old"} \X Seq(Entries)  BY <1>4
<1>5. CASE c = Zero  BY <1>5 DEF Zero
<1> QED  BY <1>1, <1>2, <1>3, <1>4, <1>5 DEF Cell

\* The cells of a file.
LEMMA FileCells ==
  ASSUME NEW f \in Files
  PROVE  /\ DataCells(f) \in Seq(Cell) /\ Len(DataCells(f)) = Plain[f]
         /\ ZipCells(f) \in Seq(Cell) /\ Len(ZipCells(f)) = Deflated[f]
         /\ Plain[f] \in Nat /\ Plain[f] > 0
         /\ Deflated[f] \in Nat /\ Deflated[f] <= Plain[f]
         /\ \A i \in 1..Plain[f] : DataCells(f)[i] = <<"data", f, i>>
         /\ \A i \in 1..Deflated[f] : ZipCells(f)[i] = <<"zip", f, i>>
<1>1. /\ Plain[f] \in Nat /\ Plain[f] > 0
      /\ Deflated[f] \in Nat /\ Deflated[f] <= Plain[f]
  BY ArchiveAssumption
<1>2. /\ \A i \in 1..Plain[f] : DataCells(f)[i] = <<"data", f, i>>
      /\ \A i \in 1..Deflated[f] : ZipCells(f)[i] = <<"zip", f, i>>
  BY DEF DataCells, ZipCells
<1>3. /\ \A i \in 1..Plain[f] : <<"data", f, i>> \in Cell
      /\ \A i \in 1..Deflated[f] : <<"zip", f, i>> \in Cell
  BY <1>1 DEF Cell
<1>4. DataCells(f) \in Seq(Cell) /\ Len(DataCells(f)) = Plain[f]
  <2> DEFINE s == DataCells(f)
  <2>2. s \in [1..Plain[f] -> Cell]  BY <1>3 DEF DataCells
  <2> HIDE DEF s
  <2>3. s \in Seq(Cell) /\ Len(s) = Plain[f]  BY <1>1, <2>2, FunctionIsSeq
  <2> QED  BY <2>3 DEF s
<1>5. ZipCells(f) \in Seq(Cell) /\ Len(ZipCells(f)) = Deflated[f]
  <2> DEFINE s == ZipCells(f)
  <2>2. s \in [1..Deflated[f] -> Cell]  BY <1>3 DEF ZipCells
  <2> HIDE DEF s
  <2>3. s \in Seq(Cell) /\ Len(s) = Deflated[f]  BY <1>1, <2>2, FunctionIsSeq
  <2> QED  BY <2>3 DEF s
<1> QED  BY <1>1, <1>2, <1>4, <1>5

\* What a write leaves in the file.
LEMMA PutCells ==
  ASSUME NEW d \in Seq(Cell), NEW cells \in Seq(Cell), NEW at \in Nat
  PROVE  /\ Put(d, at, cells) \in Seq(Cell)
         /\ Len(Put(d, at, cells)) =
              IF at + Len(cells) > Len(d) THEN at + Len(cells) ELSE Len(d)
         /\ \A i \in 1..Len(cells) : Put(d, at, cells)[at + i] = cells[i]
         /\ \A i \in 1..Len(d) : i <= at => Put(d, at, cells)[i] = d[i]
<1> DEFINE n == IF at + Len(cells) > Len(d) THEN at + Len(cells) ELSE Len(d)
           p == Put(d, at, cells)
<1>1. /\ Len(d) \in Nat /\ Len(cells) \in Nat
      /\ \A i \in 1..Len(d) : d[i] \in Cell
      /\ \A i \in 1..Len(cells) : cells[i] \in Cell
  BY LenProperties, ElementOfSeq
<1>2. n \in Nat
  BY <1>1
<1>3. p = [i \in 1..n |-> IF i > at /\ i <= at + Len(cells) THEN cells[i - at]
                          ELSE IF i <= Len(d) THEN d[i] ELSE Zero]
  BY DEF Put
<1>4. Zero \in Cell
  BY DEF Cell
<1>5. at + Len(cells) <= n /\ Len(d) <= n /\ n = IF at + Len(cells) > Len(d) THEN at + Len(cells) ELSE Len(d)
  BY <1>1
<1> HIDE DEF p, n
<1>6. \A i \in 1..n : p[i] \in Cell
  <2> TAKE i \in 1..n
  <2>1. CASE i > at /\ i <= at + Len(cells)
    <3>1. i - at \in 1..Len(cells)  BY <2>1, <1>1, <1>2
    <3> QED  BY <3>1, <2>1, <1>1, <1>3
  <2>2. CASE ~(i > at /\ i <= at + Len(cells))
    <3>1. p[i] = IF i <= Len(d) THEN d[i] ELSE Zero  BY <2>2, <1>3
    <3> QED  BY <3>1, <1>1, <1>2, <1>4
  <2> QED  BY <2>1, <2>2
<1>7. p \in Seq(Cell) /\ Len(p) = n
  <2>1. p \in [1..n -> Cell]  BY <1>3, <1>6
  <2> QED  BY <2>1, <1>2, FunctionIsSeq
<1>8. ASSUME NEW i \in 1..Len(cells) PROVE p[at + i] = cells[i]
  <2>1. /\ at + i \in 1..n /\ at + i > at /\ at + i <= at + Len(cells)
        /\ (at + i) - at = i
    BY <1>1, <1>2, <1>5
  <2> QED  BY <2>1, <1>3
<1>9. ASSUME NEW i \in 1..Len(d), i <= at PROVE p[i] = d[i]
  <2>1. i \in 1..n /\ ~(i > at) /\ i <= Len(d)  BY <1>9, <1>1, <1>2, <1>5
  <2> QED  BY <2>1, <1>3
<1> QED  BY <1>5, <1>7, <1>8, <1>9 DEF p

\* A header, or all of the records, cut off where there is no room.
LEMMA InfoCells ==
  ASSUME NEW l \in Seq(Entries), NEW m \in Nat, m <= 2 * Len(l), NEW c,
         c = [k \in 1..m |-> InfoCell(l, k)]
  PROVE  /\ c \in Seq(Cell) /\ Len(c) = m
         /\ \A i \in 1..Len(l) : 2*i <= m =>
              c[2*i - 1] = <<"info", l[i], 1>> /\ c[2*i] = <<"info", l[i], 2>>
<1>1. Len(l) \in Nat /\ \A i \in 1..Len(l) : l[i] \in Entries
  BY LenProperties, ElementOfSeq
<1>2. ASSUME NEW k \in 1..m
      PROVE  (k + 1) \div 2 \in 1..Len(l) /\ 2 - (k % 2) \in {1, 2}
  BY <1>1
<1>3. ASSUME NEW k \in 1..m PROVE c[k] \in Cell
  BY <1>1, <1>2 DEF InfoCell, Cell
<1>4. c \in [1..m -> Cell]
  BY <1>3
<1>5. c \in Seq(Cell) /\ Len(c) = m
  BY <1>4, FunctionIsSeq
<1>6. ASSUME NEW i \in 1..Len(l), 2*i <= m
      PROVE  c[2*i - 1] = <<"info", l[i], 1>> /\ c[2*i] = <<"info", l[i], 2>>
  <2>1. /\ 2*i - 1 \in 1..m /\ 2*i \in 1..m
        /\ ((2*i - 1) + 1) \div 2 = i /\ (2*i + 1) \div 2 = i
        /\ 2 - ((2*i - 1) % 2) = 1 /\ 2 - ((2*i) % 2) = 2
    BY <1>1, <1>6
  <2> QED  BY <2>1 DEF InfoCell
<1> QED  BY <1>5, <1>6

-----------------------------------------------------------------------------
(* Where a file is stored.                                                 *)

Size(e, f) == IF e.type = "zlibcmp" THEN Deflated[f] ELSE Plain[f]
CellOf(e, f, i) == IF e.type = "zlibcmp" THEN <<"zip", f, i>> ELSE <<"data", f, i>>

LEMMA StoredCells ==
  ASSUME NEW d, NEW e, NEW f \in Files
  PROVE  /\ Size(e, f) \in Nat
         /\ Stored(d, e, f) <=>
              /\ Size(e, f) > 0 /\ e.off + Size(e, f) <= Len(d)
              /\ \A i \in 1..Size(e, f) : d[e.off + i] = CellOf(e, f, i)
              /\ e.type = "zlibcmp" \/ e.size = Plain[f]
<1>1. CASE e.type = "zlibcmp"
  <2> DEFINE z == ZipCells(f)
  <2>1. /\ z \in Seq(Cell) /\ Len(z) = Deflated[f] /\ Deflated[f] \in Nat
        /\ \A i \in 1..Deflated[f] : z[i] = <<"zip", f, i>>
    BY FileCells
  <2>2. Stored(d, e, f) <=> /\ z # << >> /\ e.off + Len(z) <= Len(d)
                            /\ \A i \in DOMAIN z : d[e.off + i] = z[i]
    BY <1>1 DEF Stored
  <2> HIDE DEF z
  <2>3. DOMAIN z = 1..Deflated[f] /\ (z # << >> <=> Deflated[f] > 0)
    BY <2>1, Positions
  <2> QED  BY <1>1, <2>1, <2>2, <2>3 DEF Size, CellOf
<1>2. CASE e.type # "zlibcmp"
  <2> DEFINE z == DataCells(f)
  <2>1. /\ z \in Seq(Cell) /\ Len(z) = Plain[f] /\ Plain[f] \in Nat
        /\ \A i \in 1..Plain[f] : z[i] = <<"data", f, i>>
    BY FileCells
  <2>2. Stored(d, e, f) <=> /\ z # << >> /\ e.off + Len(z) <= Len(d)
                            /\ \A i \in DOMAIN z : d[e.off + i] = z[i]
                            /\ e.size = Plain[f]
    BY <1>2 DEF Stored
  <2> HIDE DEF z
  <2>3. DOMAIN z = 1..Plain[f] /\ (z # << >> <=> Plain[f] > 0)
    BY <2>1, Positions
  <2> QED  BY <1>2, <2>1, <2>2, <2>3 DEF Size, CellOf
<1> QED  BY <1>1, <1>2

\* Of two files only one can be where an entry says.
LEMMA StoredIsExtracted ==
  ASSUME NEW d, NEW e, NEW f \in Files, Stored(d, e, f)
  PROVE  ExtractFile(d, e) = f
<1>1. ASSUME NEW g \in Files, Stored(d, e, g) PROVE g = f
  <2>1. 1 \in 1..Size(e, f) /\ 1 \in 1..Size(e, g)
    BY <1>1, StoredCells
  <2>2. CellOf(e, f, 1) = CellOf(e, g, 1)
    BY <1>1, <2>1, StoredCells
  <2> QED  BY <2>2 DEF CellOf
<1>2. (CHOOSE g \in Files : Stored(d, e, g)) = f
  BY <1>1
<1> QED  BY <1>2 DEF ExtractFile

\* A file stays where it is as long as nothing is written over it.
LEMMA StoredStays ==
  ASSUME NEW d, NEW b, NEW e, NEW f \in Files, NEW lim \in Nat, Stored(d, e, f),
         e.off \in Nat, e.off + Size(e, f) <= lim, Len(d) \in Nat, Len(b) \in Nat,
         Len(d) <= Len(b), \A i \in 1..Len(d) : i <= lim => b[i] = d[i]
  PROVE  Stored(b, e, f)
<1> DEFINE n == Size(e, f)
<1>1. /\ n \in Nat /\ n > 0 /\ e.off + n <= Len(d)
      /\ \A i \in 1..n : d[e.off + i] = CellOf(e, f, i)
      /\ e.type = "zlibcmp" \/ e.size = Plain[f]
  BY StoredCells
<1>2. ASSUME NEW i \in 1..n PROVE b[e.off + i] = CellOf(e, f, i)
  <2>1. e.off + i \in 1..Len(d) /\ e.off + i <= lim  BY <1>1
  <2> QED  BY <2>1, <1>1
<1> QED  BY <1>1, <1>2, StoredCells

-----------------------------------------------------------------------------
(* What a list says of a file.                                             *)

\* The entries of l are those of the files w, in this order, with their cells
\* in front of lim; behind them are entries of files that were not written.
Describes(d, l, w, lim) ==
  /\ Len(w) <= Len(l)
  /\ \A i \in 1..Len(w) :
       /\ l[i].name = w[i][1] /\ l[i].cmp # 0
       /\ Stored(d, l[i], w[i][2])
       /\ l[i].off + Size(l[i], w[i][2]) <= lim
  /\ \A i \in Len(w)+1..Len(l) : l[i].cmp = 0
  /\ \A i, j \in 1..Len(l) : l[i].name = l[j].name => i = j

\* The file can be opened, and the files w are found in it.
Whole(d, w) ==
  \/ /\ HasHeader(d) /\ Last(d)[2] = Len(w)
     /\ Describes(d, ReadArcInfo(d), w, Last(d)[3])
     /\ Len(d) <= Last(d)[3] + 2 * Len(w) + 1
  \/ /\ ~HasHeader(d) /\ IsOld(d) /\ Len(OpenOld(d)) = Len(w)
     /\ Describes(d, OpenOld(d), w, Len(d))

Given == Seq(NameSet \X Files)

LEMMA GivenFiles ==
  ASSUME NEW w \in Given
  PROVE  /\ Len(w) \in Nat /\ DOMAIN w = 1..Len(w)
         /\ \A i \in 1..Len(w) : /\ w[i] = <<w[i][1], w[i][2]>>
                                 /\ w[i][1] \in NameSet /\ w[i][2] \in Files
<1>1. Len(w) \in Nat /\ DOMAIN w = 1..Len(w) /\ \A i \in 1..Len(w) : w[i] \in NameSet \X Files
  BY LenProperties, ElementOfSeq DEF Given
<1> QED  BY <1>1

LEMMA ListEntries ==
  ASSUME NEW l \in Seq(Entries)
  PROVE  /\ Len(l) \in Nat /\ DOMAIN l = 1..Len(l)
         /\ \A i \in 1..Len(l) : /\ l[i] \in Entries /\ l[i].off \in Nat
                                 /\ l[i].cmp \in Nat /\ l[i].size \in Nat
<1>1. Len(l) \in Nat /\ DOMAIN l = 1..Len(l) /\ \A i \in 1..Len(l) : l[i] \in Entries
  BY LenProperties, ElementOfSeq
<1>2. \A e \in Entries : e.off \in Nat /\ e.cmp \in Nat /\ e.size \in Nat
  BY DEF Entries
<1> QED  BY <1>1, <1>2

\* A write behind lim leaves what the list says.
LEMMA DescribesStays ==
  ASSUME NEW d, NEW b, NEW l \in Seq(Entries), NEW w \in Given, NEW lim \in Nat, NEW end,
         Describes(d, l, w, lim), Len(d) \in Nat, Len(b) \in Nat, Len(d) <= Len(b),
         \A i \in 1..Len(d) : i <= lim => b[i] = d[i],
         end = lim \/ end = Len(b)
  PROVE  Describes(b, l, w, end)
<1>1. /\ Len(w) \in Nat /\ Len(l) \in Nat /\ Len(w) <= Len(l)
      /\ \A i \in 1..Len(w) : w[i][2] \in Files
      /\ \A i \in 1..Len(l) : l[i] \in Entries /\ l[i].off \in Nat
  BY GivenFiles, ListEntries DEF Describes
<1>2. ASSUME NEW i \in 1..Len(w)
      PROVE  Stored(b, l[i], w[i][2]) /\ l[i].off + Size(l[i], w[i][2]) <= end
  <2>1. /\ i \in 1..Len(l) /\ w[i][2] \in Files /\ l[i].off \in Nat
        /\ Stored(d, l[i], w[i][2]) /\ l[i].off + Size(l[i], w[i][2]) <= lim
    BY <1>1 DEF Describes
  <2>2. Stored(b, l[i], w[i][2])
    BY <2>1, StoredStays
  <2>3. l[i].off + Size(l[i], w[i][2]) <= Len(b)
    BY <2>1, <2>2, StoredCells
  <2> QED  BY <2>1, <2>2, <2>3
<1> QED  BY <1>2 DEF Describes

\* What is whole holds the files that were given.
LEMMA WholeHolds ==
  ASSUME NEW d \in Seq(Cell), NEW w \in Given, Whole(d, w),
         HasHeader(d) => ReadArcInfo(d) \in Seq(Entries) /\ Len(ReadArcInfo(d)) = Last(d)[2],
         IsOld(d) => OpenOld(d) \in Seq(Entries)
  PROVE  Holds(d) = w
<1> DEFINE l == IF HasHeader(d) THEN ReadArcInfo(d) ELSE IF IsOld(d) THEN OpenOld(d) ELSE <<>>
<1>1. /\ l \in Seq(Entries) /\ Len(l) = Len(w)
      /\ \E lim : Describes(d, l, w, lim)
  BY DEF Whole
<1>2. Holds(d) = [i \in DOMAIN l |-> <<l[i].name, ExtractFile(d, l[i])>>]
  BY DEF Holds
<1> HIDE DEF l
<1>3. /\ Len(w) \in Nat /\ DOMAIN w = 1..Len(w) /\ DOMAIN l = 1..Len(w)
      /\ \A i \in 1..Len(w) : w[i] = <<w[i][1], w[i][2]>> /\ w[i][2] \in Files
  BY <1>1, GivenFiles, ListEntries
<1>4. ASSUME NEW i \in 1..Len(w) PROVE <<l[i].name, ExtractFile(d, l[i])>> = w[i]
  <2>1. l[i].name = w[i][1] /\ Stored(d, l[i], w[i][2])
    BY <1>1 DEF Describes
  <2>2. ExtractFile(d, l[i]) = w[i][2]
    BY <2>1, <1>3, StoredIsExtracted
  <2> QED  BY <2>1, <2>2, <1>3
<1>5. Holds(d) = [i \in 1..Len(w) |-> w[i]]
  BY <1>2, <1>3, <1>4
<1>6. w = [i \in 1..Len(w) |-> w[i]]
  <2>1. w \in [1..Len(w) -> NameSet \X Files]
    BY LenProperties DEF Given
  <2> QED  BY <2>1
<1> QED  BY <1>5, <1>6

LEMMA CardUpTo ==
  ASSUME NEW n \in Nat
  PROVE  IsFiniteSet(1..n) /\ Cardinality(1..n) = n
<1>1. /\ IsFiniteSet(1..n)
      /\ Cardinality(1..n) = IF 1 > n THEN 0 ELSE n - 1 + 1
  BY FS_Interval
<1> QED  BY <1>1

\* What is listed is extracted.
LEMMA DescribedExtracts ==
  ASSUME NEW w \in Given, want = w, list \in Seq(Entries), NEW lim, Describes(disk, list, w, lim)
  PROVE  ListedExtracts
<1> DEFINE kept == {i \in DOMAIN list : list[i].cmp # 0}
<1>1. /\ Len(w) \in Nat /\ Len(list) \in Nat /\ DOMAIN list = 1..Len(list)
      /\ \A i \in 1..Len(w) : w[i] = <<w[i][1], w[i][2]>> /\ w[i][2] \in Files
  BY GivenFiles, ListEntries
<1>2. kept = 1..Len(w)
  <2>1. \A i \in 1..Len(list) : i \in 1..Len(w) \/ i \in Len(w)+1..Len(list)
    BY <1>1
  <2>2. \A i \in 1..Len(w) : i \in 1..Len(list)
    BY <1>1 DEF Describes
  <2> QED  BY <2>1, <2>2, <1>1 DEF Describes
<1> HIDE DEF kept
<1>3. Cardinality(1..Len(w)) = Len(w)
  BY <1>1, CardUpTo
<1>4. ASSUME NEW i \in kept
      PROVE  <<list[i].name, ExtractFile(disk, FileRef(list[i].name))>>
               = want[Cardinality(kept \cap 1..i)]
  <2>1. i \in 1..Len(w) /\ i \in 1..Len(list) /\ i \in Nat
    BY <1>1, <1>2, <1>4 DEF Describes
  <2>2. kept \cap 1..i = 1..i
    BY <2>1, <1>1, <1>2
  <2>3. Cardinality(1..i) = i
    BY <2>1, CardUpTo
  <2>4. {j \in DOMAIN list : list[j].name = list[i].name} = {i}
    BY <2>1, <1>1 DEF Describes
  <2>5. FileRef(list[i].name) = list[i]
    <3>1. Min({i}) \in {i}  BY <2>1, MinIsMember
    <3> QED  BY <3>1, <2>4 DEF FileRef
  <2>6. list[i].name = w[i][1] /\ Stored(disk, list[i], w[i][2])
    BY <2>1 DEF Describes
  <2>7. ExtractFile(disk, list[i]) = w[i][2]
    BY <2>6, <2>1, <1>1, StoredIsExtracted
  <2> QED  BY <2>1, <2>2, <2>3, <2>5, <2>6, <2>7, <1>1
<1> QED  BY <1>2, <1>3, <1>4 DEF ListedExtracts, kept

-----------------------------------------------------------------------------
(* The records that are read and saved.                                    *)

\* Reading the records of a file gives entries, whatever is in it.
LEMMA ReadEntries ==
  ASSUME NEW d \in Seq(Cell), HasHeader(d)
  PROVE  /\ ReadArcInfo(d) \in Seq(Entries) /\ Len(ReadArcInfo(d)) = Last(d)[2]
         /\ Last(d)[2] \in Nat /\ Last(d)[3] \in Nat
<1>1. Last(d) \in Cell /\ Last(d)[1] = "head"
  <2>1. d # <<>> /\ Last(d)[1] = "head"  BY DEF HasHeader
  <2>2. Len(d) \in Nat /\ Len(d) # 0  BY <2>1, Positions
  <2>3. Last(d) = d[Len(d)] /\ Len(d) \in 1..Len(d)  BY <2>2 DEF Last
  <2> QED  BY <2>1, <2>3, ElementOfSeq
<1>2. Last(d)[2] \in Nat /\ Last(d)[3] \in Nat
  BY <1>1, CellKinds
<1>3. ASSUME NEW p \in Nat PROVE EntryAt(d, p) \in Entries
  <2>1. Garbage \in Entries
    BY DEF Garbage, Entry, Name, Entries
  <2>2. CASE p + 2 <= Len(d) /\ d[p + 1][1] = "info"
    <3>1. p + 1 \in 1..Len(d)  BY <2>2, LenProperties
    <3>2. d[p + 1] \in Cell  BY <3>1, ElementOfSeq
    <3>3. d[p + 1][2] \in Entries  BY <2>2, <3>2, CellKinds
    <3> QED  BY <2>1, <3>3 DEF EntryAt
  <2>3. CASE ~(p + 2 <= Len(d) /\ d[p + 1][1] = "info")
    BY <2>1, <2>3 DEF EntryAt
  <2> QED  BY <2>2, <2>3
<1> DEFINE n == Last(d)[2]
           off == Last(d)[3]
           r == [i \in 1..n |-> EntryAt(d, off + 2 * (i - 1))]
<1>4. ReadArcInfo(d) = r
  BY DEF ReadArcInfo
<1>5. n \in Nat /\ off \in Nat
  BY <1>2
<1> HIDE DEF n, off
<1>6. \A i \in 1..n : off + 2 * (i - 1) \in Nat
  BY <1>5
<1>7. r \in [1..n -> Entries]
  BY <1>3, <1>6
<1> HIDE DEF r
<1>8. r \in Seq(Entries) /\ Len(r) = n
  BY <1>5, <1>7, FunctionIsSeq
<1> QED  BY <1>2, <1>4, <1>8 DEF n

LEMMA OldEntries ==
  ASSUME NEW d \in Seq(Cell), IsOld(d)
  PROVE  OpenOld(d) \in Seq(Entries)
<1>1. d # <<>> /\ d[1][1] = "old"  BY DEF IsOld
<1>2. 1 \in 1..Len(d)  BY <1>1, Positions
<1>3. d[1] \in Cell  BY <1>2, ElementOfSeq
<1> QED  BY <1>1, <1>3, CellKinds DEF OpenOld

\* What is in the file after Save, wherever the records end.
LEMMA SavedCells ==
  ASSUME NEW d \in Seq(Cell), list \in Seq(Entries), writePos \in Nat
  PROVE  Saved(d) \in Seq(Cell)
<1>1. Len(list) \in Nat /\ Capacity \in Nat
  BY ListEntries, ArchiveAssumption
<1> DEFINE room == Room(2 * Len(list))
           c == [k \in 1..room |-> InfoCell(list, k)]
<1>2. room \in Nat /\ room <= 2 * Len(list)
  BY <1>1 DEF Room
<1>3. SavedInfo(d) = IF room = 0 THEN d ELSE Put(d, writePos, c)
  BY DEF SavedInfo
<1> HIDE DEF room
<1>4. c \in Seq(Cell)
  BY <1>2, InfoCells
<1> HIDE DEF c
<1> DEFINE i == SavedInfo(d)
           h == <<HeadCell(Len(list), writePos)>>
<1>5. i \in Seq(Cell)
  BY <1>3, <1>4, PutCells
<1>6. h \in Seq(Cell)
  <2>1. HeadCell(Len(list), writePos) \in Cell  BY <1>1 DEF HeadCell, Cell
  <2> QED  BY <2>1
<1>7. Saved(d) = Written(i, Len(i), h)
  BY DEF Saved
<1> HIDE DEF i, h
<1>8. Len(i) \in Nat
  BY <1>5, LenProperties
<1>9. Put(i, Len(i), h) \in Seq(Cell)
  BY <1>5, <1>6, <1>8, PutCells
<1> QED  BY <1>5, <1>7, <1>9 DEF Written

\* Save through a handle opened to read writes nothing.
LEMMA SavedUnread ==
  ASSUME NEW d, handle # "readwrite"
  PROVE  Saved(d) = d
<1>1. SavedInfo(d) = d
  BY DEF SavedInfo, Room
<1> QED  BY <1>1 DEF Saved, Written, CanWrite

\* The records of all the files and the header, where they fit.
LEMMA SavedRecords ==
  ASSUME NEW d \in Seq(Cell), list \in Seq(Entries), writePos \in Nat, handle = "readwrite",
         writePos + 2 * Len(list) + 1 <= Capacity, Len(d) <= writePos + 2 * Len(list)
  PROVE  \E i \in Seq(Cell) :
           /\ Len(i) \in Nat /\ Len(i) <= writePos + 2 * Len(list)
           /\ Saved(d) = Put(i, Len(i), <<HeadCell(Len(list), writePos)>>)
           /\ Len(d) <= Len(i)
           /\ \A j \in 1..Len(d) : j <= writePos => i[j] = d[j]
           /\ \A k \in 1..Len(list) :
                /\ writePos + 2*k <= Len(i)
                /\ i[writePos + 2*k - 1] = <<"info", list[k], 1>>
                /\ i[writePos + 2*k] = <<"info", list[k], 2>>
<1>1. Len(list) \in Nat /\ Capacity \in Nat /\ Len(d) \in Nat
  BY ListEntries, ArchiveAssumption, LenProperties
<1>2. Room(2 * Len(list)) = 2 * Len(list)
  BY <1>1 DEF Room
<1> DEFINE c == [k \in 1..2 * Len(list) |-> InfoCell(list, k)]
           i == SavedInfo(d)
           h == <<HeadCell(Len(list), writePos)>>
<1>3. i = IF Len(list) = 0 THEN d ELSE Put(d, writePos, c)
  BY <1>1, <1>2 DEF SavedInfo
<1>4. /\ c \in Seq(Cell) /\ Len(c) = 2 * Len(list)
      /\ \A k \in 1..Len(list) : c[2*k - 1] = <<"info", list[k], 1>> /\ c[2*k] = <<"info", list[k], 2>>
  <2> DEFINE m == 2 * Len(list)
  <2>1. m \in Nat /\ m <= 2 * Len(list) /\ \A k \in 1..Len(list) : 2*k <= m
    BY <1>1
  <2>2. c = [k \in 1..m |-> InfoCell(list, k)]
    OBVIOUS
  <2> HIDE DEF c, m
  <2>3. /\ c \in Seq(Cell) /\ Len(c) = m
        /\ \A k \in 1..Len(list) : 2*k <= m =>
             c[2*k - 1] = <<"info", list[k], 1>> /\ c[2*k] = <<"info", list[k], 2>>
    BY <2>1, <2>2, InfoCells
  <2> QED  BY <2>1, <2>3 DEF m
<1>5. Saved(d) = Written(i, Len(i), h)
  BY DEF Saved
<1> HIDE DEF c, i, h
<1>6. /\ i \in Seq(Cell) /\ Len(i) \in Nat /\ Len(i) <= writePos + 2 * Len(list)
      /\ Len(d) <= Len(i)
      /\ \A j \in 1..Len(d) : j <= writePos => i[j] = d[j]
  <2>1. CASE Len(list) = 0
    BY <2>1, <1>1, <1>3
  <2>2. CASE Len(list) # 0
    <3>1. i = Put(d, writePos, c)  BY <2>2, <1>3
    <3>2. /\ i \in Seq(Cell)
          /\ Len(i) = IF writePos + Len(c) > Len(d) THEN writePos + Len(c) ELSE Len(d)
          /\ \A j \in 1..Len(d) : j <= writePos => i[j] = d[j]
      BY <3>1, <1>4, PutCells
    <3> QED  BY <3>2, <1>1, <1>4
  <2> QED  BY <2>1, <2>2
<1>7. ASSUME NEW k \in 1..Len(list)
      PROVE  /\ writePos + 2*k <= Len(i)
             /\ i[writePos + 2*k - 1] = <<"info", list[k], 1>>
             /\ i[writePos + 2*k] = <<"info", list[k], 2>>
  <2>1. i = Put(d, writePos, c)  BY <1>1, <1>3
  <2>2. /\ Len(i) = IF writePos + Len(c) > Len(d) THEN writePos + Len(c) ELSE Len(d)
        /\ \A j \in 1..Len(c) : i[writePos + j] = c[j]
    BY <2>1, <1>4, PutCells
  <2>3. /\ 2*k - 1 \in 1..Len(c) /\ 2*k \in 1..Len(c)
        /\ writePos + (2*k - 1) = writePos + 2*k - 1
        /\ writePos + 2*k <= Len(i)
    BY <2>2, <1>1, <1>4
  <2>4. i[writePos + (2*k - 1)] = c[2*k - 1] /\ i[writePos + 2*k] = c[2*k]
    BY <2>2, <2>3
  <2> QED  BY <2>3, <2>4, <1>4
<1>8. CanWrite(i, Len(i), h)
  <2>1. Len(h) = 1  BY DEF h
  <2>2. Len(i) + 1 <= Capacity  BY <1>1, <1>6
  <2> QED  BY <2>1, <2>2 DEF CanWrite, Fits
<1>9. Saved(d) = Put(i, Len(i), h)
  BY <1>5, <1>8 DEF Written
<1> QED  BY <1>6, <1>7, <1>9 DEF h

\* What is saved can be opened again, and the list is as it was.
LEMMA SavedWhole ==
  ASSUME NEW d \in Seq(Cell), NEW w \in Given, list \in Seq(Entries), writePos \in Nat,
         handle = "readwrite", writePos + 2 * Len(list) + 1 <= Capacity,
         Len(d) <= writePos + 2 * Len(list), Len(list) = Len(w), Describes(d, list, w, writePos)
  PROVE  /\ Saved(d) \in Seq(Cell)
         /\ Len(Saved(d)) <= writePos + 2 * Len(list) + 1
         /\ Describes(Saved(d), list, w, writePos)
         /\ Whole(Saved(d), w)
<1>1. PICK i \in Seq(Cell) :
           /\ Len(i) \in Nat /\ Len(i) <= writePos + 2 * Len(list)
           /\ Saved(d) = Put(i, Len(i), <<HeadCell(Len(list), writePos)>>)
           /\ Len(d) <= Len(i)
           /\ \A j \in 1..Len(d) : j <= writePos => i[j] = d[j]
           /\ \A k \in 1..Len(list) :
                /\ writePos + 2*k <= Len(i)
                /\ i[writePos + 2*k - 1] = <<"info", list[k], 1>>
                /\ i[writePos + 2*k] = <<"info", list[k], 2>>
  BY SavedRecords
<1>2. /\ Len(list) \in Nat /\ Len(d) \in Nat
      /\ \A k \in 1..Len(list) : list[k] \in Entries
  BY ListEntries, LenProperties
<1> DEFINE head == HeadCell(Len(list), writePos)
           h == <<head>>
           s == Saved(d)
<1>3. head \in Cell /\ head[1] = "head" /\ head[2] = Len(list) /\ head[3] = writePos
  BY <1>2 DEF HeadCell, Cell
<1>4. s = Put(i, Len(i), h)
  BY <1>1
<1> HIDE DEF head, s
<1>5. h \in Seq(Cell) /\ Len(h) = 1 /\ h[1] = head
  BY <1>3
<1> HIDE DEF h
<1>6. /\ s \in Seq(Cell) /\ Len(s) = Len(i) + 1
      /\ s[Len(i) + 1] = head
      /\ \A j \in 1..Len(i) : s[j] = i[j]
  <2>1. /\ s \in Seq(Cell)
        /\ Len(s) = IF Len(i) + Len(h) > Len(i) THEN Len(i) + Len(h) ELSE Len(i)
        /\ \A j \in 1..Len(h) : s[Len(i) + j] = h[j]
        /\ \A j \in 1..Len(i) : j <= Len(i) => s[j] = i[j]
    <3> DEFINE q == Put(i, Len(i), h)
    <3>1. /\ q \in Seq(Cell)
          /\ Len(q) = IF Len(i) + Len(h) > Len(i) THEN Len(i) + Len(h) ELSE Len(i)
          /\ \A j \in 1..Len(h) : q[Len(i) + j] = h[j]
          /\ \A j \in 1..Len(i) : j <= Len(i) => q[j] = i[j]
      <4>1. i \in Seq(Cell) /\ Len(i) \in Nat  BY <1>1
      <4> QED  BY <4>1, <1>5, PutCells
    <3>2. s = q  BY <1>4
    <3> HIDE DEF q
    <3> QED  BY <3>1, <3>2
  <2>2. 1 \in 1..Len(h) /\ \A j \in 1..Len(i) : j <= Len(i)
    BY <1>1, <1>5
  <2> QED  BY <2>1, <2>2, <1>1, <1>5
<1>7. HasHeader(s) /\ Last(s) = head
  <2>1. Len(s) # 0  BY <1>1, <1>6
  <2>2. s # <<>>  BY <2>1, <1>6, Positions
  <2>3. Last(s) = head  BY <1>6 DEF Last
  <2> QED  BY <2>2, <2>3, <1>3 DEF HasHeader
<1>8. Describes(s, list, w, writePos)
  <2>1. /\ Len(s) \in Nat /\ Len(d) <= Len(s)
        /\ \A j \in 1..Len(d) : j <= writePos => s[j] = d[j]
    <3>1. \A j \in 1..Len(d) : j \in 1..Len(i)  BY <1>1, <1>2
    <3> QED  BY <3>1, <1>1, <1>2, <1>6
  <2> QED  BY <2>1, <1>2, DescribesStays
<1>9. ReadArcInfo(s) = list
  <2>1. ReadArcInfo(s) = [k \in 1..Len(list) |-> EntryAt(s, writePos + 2 * (k - 1))]
    BY <1>3, <1>7 DEF ReadArcInfo
  <2>2. ASSUME NEW k \in 1..Len(list) PROVE EntryAt(s, writePos + 2 * (k - 1)) = list[k]
    <3> DEFINE p == writePos + 2 * (k - 1)
    <3>1. /\ p + 1 = writePos + 2*k - 1 /\ p + 2 = writePos + 2*k
          /\ p + 1 \in 1..Len(i) /\ p + 2 \in 1..Len(i) /\ p + 2 <= Len(s)
      <4>1. writePos + 2*k <= Len(i) /\ Len(i) \in Nat /\ Len(s) = Len(i) + 1
        BY <1>1, <1>6
      <4>2. writePos \in Nat /\ k \in Nat /\ k >= 1
        BY <1>2
      <4> QED  BY ONLY <4>1, <4>2
    <3>2. s[p + 1] = <<"info", list[k], 1>> /\ s[p + 2] = <<"info", list[k], 2>>
      BY <3>1, <1>1, <1>6
    <3> HIDE DEF p
    <3> QED  BY <3>1, <3>2 DEF EntryAt, p
  <2>3. list = [k \in 1..Len(list) |-> list[k]]
    <3>1. list \in [1..Len(list) -> Entries]  BY LenProperties
    <3> QED  BY <3>1
  <2> QED  BY <2>1, <2>2, <2>3
<1>10. Len(s) <= writePos + 2 * Len(list) + 1
  BY <1>1, <1>2, <1>6
<1>11. Whole(s, w)
  BY <1>3, <1>7, <1>8, <1>9, <1>10 DEF Whole
<1> QED  BY <1>6, <1>8, <1>10, <1>11 DEF s

\* A name is always found, and no entry has it.
LEMMA NameIsFree ==
  ASSUME NEW n \in Names, list \in Seq(Entries)
  PROVE  NameFor(n) \in NameSet /\ ~Taken(NameFor(n))
<1>1. Len(list) \in Nat /\ DOMAIN list = 1..Len(list)
  BY ListEntries
<1> DEFINE T == {x \in 0..Len(list) : ~Taken(Name(n, x))}
<1>2. T # {}
  <2> SUFFICES ASSUME \A x \in 0..Len(list) : Taken(Name(n, x)) PROVE FALSE
    OBVIOUS
  <2> DEFINE f == [x \in 0..Len(list) |-> CHOOSE i \in 1..Len(list) : list[i].name = Name(n, x)]
  <2>1. \A x \in 0..Len(list) : f[x] \in 1..Len(list) /\ list[f[x]].name = Name(n, x)
    BY <1>1 DEF Taken
  <2>2. f \in [0..Len(list) -> 1..Len(list)]
    BY <2>1
  <2> HIDE DEF f
  <2>3. /\ IsFiniteSet(0..Len(list))
        /\ Cardinality(0..Len(list)) = IF 0 > Len(list) THEN 0 ELSE Len(list) - 0 + 1
    BY <1>1, FS_Interval
  <2>4. IsFiniteSet(1..Len(list)) /\ Cardinality(1..Len(list)) = Len(list)
    BY <1>1, CardUpTo
  <2>5. Cardinality(1..Len(list)) < Cardinality(0..Len(list))
    BY <2>3, <2>4, <1>1
  <2>6. PICK x, y \in 0..Len(list) : x # y /\ f[x] = f[y]
    BY <2>2, <2>3, <2>4, <2>5, FS_PigeonHole
  <2>7. Name(n, x) = Name(n, y)
    BY <2>1, <2>6
  <2> QED  BY <2>6, <2>7 DEF Name
<1>3. T \in SUBSET Nat
  BY <1>1
<1>4. PICK x \in T : \A y \in T : x <= y
  <2> HIDE DEF T
  <2> QED  BY <1>2, <1>3, LeastElement
<1>5. \A y \in 0..(x - 1) : Taken(Name(n, y))
  <2> TAKE y \in 0..(x - 1)
  <2>1. y \in 0..Len(list) /\ ~(x <= y)  BY <1>1
  <2> QED  BY <2>1, <1>4
<1> DEFINE P(z) == ~Taken(Name(n, z)) /\ \A y \in 0..(z - 1) : Taken(Name(n, y))
<1>6. x \in 0..Len(list) /\ P(x)
  BY <1>5
<1>7. NameFor(n) = Name(n, CHOOSE z \in 0..Len(list) : P(z))
  BY DEF NameFor
<1> HIDE DEF P
<1>8. PICK z \in 0..Len(list) : P(z) /\ NameFor(n) = Name(n, z)
  BY <1>6, <1>7
<1>9. ~Taken(Name(n, z))
  BY <1>8 DEF P
<1>10. z \in Nat
  BY <1>1
<1> QED  BY <1>8, <1>9, <1>10 DEF Name, NameSet

-----------------------------------------------------------------------------
(* What a file that is added leaves.                                       *)

LEMMA PutStores ==
  ASSUME NEW d \in Seq(Cell), NEW f \in Files, NEW e, e.off \in Nat,
         \/ e.type = "zlibcmp" /\ Deflated[f] # 0
         \/ e.type = "normal" /\ e.size = Plain[f],
         NEW b, b = Put(d, e.off, IF e.type = "zlibcmp" THEN ZipCells(f) ELSE DataCells(f))
  PROVE  /\ b \in Seq(Cell) /\ Len(b) \in Nat /\ Len(d) <= Len(b)
         /\ Len(b) <= e.off + Size(e, f) \/ Len(b) = Len(d)
         /\ \A i \in 1..Len(d) : i <= e.off => b[i] = d[i]
         /\ Stored(b, e, f)
<1> DEFINE c == IF e.type = "zlibcmp" THEN ZipCells(f) ELSE DataCells(f)
           n == Size(e, f)
           at == e.off
<1>1. /\ c \in Seq(Cell) /\ Len(c) = n /\ n \in Nat /\ n > 0
      /\ \A i \in 1..n : c[i] = CellOf(e, f, i)
  <2>1. CASE e.type = "zlibcmp"
    <3>1. c = ZipCells(f) /\ n = Deflated[f] /\ Deflated[f] # 0
      BY <2>1 DEF Size
    <3> HIDE DEF c, n
    <3> QED  BY <2>1, <3>1, FileCells DEF CellOf
  <2>2. CASE e.type = "normal"
    <3>1. c = DataCells(f) /\ n = Plain[f]
      BY <2>2 DEF Size
    <3> HIDE DEF c, n
    <3> QED  BY <2>2, <3>1, FileCells DEF CellOf
  <2> QED  BY <2>1, <2>2
<1>2. b = Put(d, at, c) /\ at \in Nat
  OBVIOUS
<1> HIDE DEF c, n, at
<1>3. /\ b \in Seq(Cell)
      /\ Len(b) = IF at + Len(c) > Len(d) THEN at + Len(c) ELSE Len(d)
      /\ \A i \in 1..Len(c) : b[at + i] = c[i]
      /\ \A i \in 1..Len(d) : i <= at => b[i] = d[i]
  <2> DEFINE p == Put(d, at, c)
  <2>1. /\ p \in Seq(Cell)
        /\ Len(p) = IF at + Len(c) > Len(d) THEN at + Len(c) ELSE Len(d)
        /\ \A i \in 1..Len(c) : p[at + i] = c[i]
        /\ \A i \in 1..Len(d) : i <= at => p[i] = d[i]
    BY <1>1, <1>2, PutCells
  <2>2. b = p
    BY <1>2
  <2> HIDE DEF p
  <2> QED  BY <2>1, <2>2
<1>4. Len(d) \in Nat /\ Len(b) \in Nat
  BY <1>3, LenProperties
<1>5. /\ Len(d) <= Len(b) /\ at + n <= Len(b)
      /\ Len(b) <= at + n \/ Len(b) = Len(d)
  BY <1>1, <1>2, <1>3, <1>4
<1>6. \A i \in 1..n : b[at + i] = CellOf(e, f, i)
  BY <1>1, <1>3
<1>7. Stored(b, e, f)
  BY <1>1, <1>5, <1>6, StoredCells DEF at, n
<1> QED  BY <1>3, <1>4, <1>5, <1>7 DEF at, n

LEMMA ListAppended ==
  ASSUME NEW d, NEW b, NEW l \in Seq(Entries), NEW w \in Given, NEW lim \in Nat,
         NEW end \in Nat, Describes(d, l, w, lim), Len(l) = Len(w), lim <= end,
         Len(d) \in Nat, Len(b) \in Nat, Len(d) <= Len(b),
         \A i \in 1..Len(d) : i <= lim => b[i] = d[i],
         NEW e \in Entries, NEW name \in NameSet, NEW f \in Files,
         e.name = name, e.cmp # 0, Stored(b, e, f), e.off + Size(e, f) <= end,
         \A i \in 1..Len(l) : l[i].name # name
  PROVE  Describes(b, Append(l, e), Append(w, <<name, f>>), end)
<1> DEFINE m == Append(l, e)
           g == <<name, f>>
           v == Append(w, g)
           n == Len(l)
<1>1. Describes(b, l, w, lim)
  BY DescribesStays
<1>2. /\ n \in Nat /\ Len(w) = n /\ g[1] = name /\ g[2] = f
      /\ \A i \in 1..n : /\ l[i].name = w[i][1] /\ l[i].cmp # 0
                         /\ Stored(b, l[i], w[i][2])
                         /\ l[i].off + Size(l[i], w[i][2]) <= lim
                         /\ l[i].off + Size(l[i], w[i][2]) \in Nat
      /\ \A i, j \in 1..n : l[i].name = l[j].name => i = j
  <2>1. n \in Nat /\ Len(w) = n /\ \A i \in 1..n : l[i].off \in Nat /\ w[i][2] \in Files
    BY ListEntries, GivenFiles
  <2>2. \A i \in 1..n : Size(l[i], w[i][2]) \in Nat
    BY <2>1, StoredCells
  <2> QED  BY <1>1, <2>1, <2>2 DEF Describes
<1> HIDE DEF g
<1>3. g \in NameSet \X Files
  BY DEF g
<1>4. /\ Len(m) = n + 1 /\ m[n+1] = e /\ \A i \in 1..n : m[i] = l[i]
      /\ Len(v) = n + 1 /\ v[n+1] = g /\ \A i \in 1..n : v[i] = w[i]
  BY <1>2, <1>3, AppendProperties DEF Given
<1> HIDE DEF m, v, n
<1>5. \A i \in 1..n+1 : i \in 1..n \/ i = n + 1
  BY <1>2
<1>6. ASSUME NEW i \in 1..n+1
      PROVE  /\ m[i].name = v[i][1] /\ m[i].cmp # 0
             /\ Stored(b, m[i], v[i][2])
             /\ m[i].off + Size(m[i], v[i][2]) <= end
  <2>1. CASE i \in 1..n
    <3>1. m[i] = l[i] /\ v[i] = w[i]  BY <2>1, <1>4
    <3> HIDE DEF Stored
    <3> QED  BY <2>1, <3>1, <1>2
  <2>2. CASE i = n + 1
    <3>1. m[i] = e /\ v[i] = g  BY <2>2, <1>4
    <3> QED  BY <3>1, <1>2
  <2> QED  BY <2>1, <2>2, <1>5
<1>7. ASSUME NEW i \in 1..n+1, NEW j \in 1..n+1, m[i].name = m[j].name PROVE i = j
  <2>1. CASE i \in 1..n /\ j \in 1..n
    BY <2>1, <1>2, <1>4, <1>7
  <2>2. CASE i \in 1..n /\ j = n + 1
    BY <2>2, <1>4, <1>7 DEF n
  <2>3. CASE i = n + 1 /\ j \in 1..n
    BY <2>3, <1>4, <1>7 DEF n
  <2> QED  BY <2>1, <2>2, <2>3, <1>5
<1>8. Len(v) = Len(m) /\ Len(m) = n + 1 /\ \A i \in Len(v)+1..Len(m) : m[i].cmp = 0
  BY <1>2, <1>4
<1>9. Describes(b, m, v, end)
  BY <1>2, <1>6, <1>7, <1>8 DEF Describes
<1> QED  BY <1>9 DEF m, v, g

LEMMA ListGrown ==
  ASSUME NEW d, NEW l \in Seq(Entries), NEW w \in Given, NEW lim, Describes(d, l, w, lim),
         NEW e \in Entries, e.cmp = 0, \A i \in 1..Len(l) : l[i].name # e.name
  PROVE  Describes(d, Append(l, e), w, lim)
<1> DEFINE m == Append(l, e)
           n == Len(l)
<1>1. n \in Nat /\ Len(w) \in Nat /\ Len(w) <= n
  BY ListEntries, GivenFiles DEF Describes
<1>2. Len(m) = n + 1 /\ m[n+1] = e /\ \A i \in 1..n : m[i] = l[i]
  BY AppendProperties
<1> HIDE DEF m
<1>3. ASSUME NEW i \in 1..Len(w)
      PROVE  /\ m[i].name = w[i][1] /\ m[i].cmp # 0
             /\ Stored(d, m[i], w[i][2])
             /\ m[i].off + Size(m[i], w[i][2]) <= lim
  <2>1. i \in 1..n /\ m[i] = l[i]  BY <1>1, <1>2
  <2> QED  BY <2>1 DEF Describes
<1>4. ASSUME NEW i \in Len(w)+1..n+1 PROVE m[i].cmp = 0
  <2>1. CASE i = n + 1  BY <2>1, <1>2
  <2>2. CASE i # n + 1
    <3>1. i \in Len(w)+1..n /\ i \in 1..n  BY <2>2, <1>1
    <3> QED  BY <3>1, <1>2 DEF Describes
  <2> QED  BY <2>1, <2>2
<1>5. ASSUME NEW i \in 1..n+1, NEW j \in 1..n+1, m[i].name = m[j].name PROVE i = j
  <2>1. CASE i \in 1..n /\ j \in 1..n
    BY <2>1, <1>2, <1>5 DEF Describes
  <2>2. CASE i \in 1..n /\ j = n + 1
    BY <2>2, <1>2, <1>5
  <2>3. CASE i = n + 1 /\ j \in 1..n
    BY <2>3, <1>2, <1>5
  <2>4. (i \in 1..n \/ i = n + 1) /\ (j \in 1..n \/ j = n + 1)
    BY <1>1
  <2> QED  BY <2>1, <2>2, <2>3, <2>4
<1>6. Describes(d, m, w, lim)
  BY <1>1, <1>2, <1>3, <1>4, <1>5 DEF Describes
<1> QED  BY <1>6 DEF m

-----------------------------------------------------------------------------
(* The invariant.                                                          *)

\* The object may write over the end of the file.
Edited == handle = "readwrite" /\ bWriteable

LastSaveIsWhole == ~(Edited /\ bHasChanged) => Whole(disk, want)
OpenIsDescribed == bOpen => Describes(disk, list, want, Len(disk))

\* The next file is written behind the last, and Save covers what is left of
\* the records before.
EditsAppend ==
  Edited => /\ Len(list) = Len(want)
            /\ Describes(disk, list, want, writePos)
            /\ Len(disk) <= writePos + 2 * Len(list) + (IF bHasChanged THEN 0 ELSE 1)

Kept == LastSaveIsWhole /\ OpenIsDescribed /\ EditsAppend

ArchiveInv ==
  /\ TypeOK
  /\ want \in Given
  /\ sound \in BOOLEAN
  /\ disk = Null => ~sound /\ ~bOpen
  /\ sound => Kept

LEMMA TypesOfInv ==
  ASSUME ArchiveInv
  PROVE  /\ disk = Null \/ (disk \in Seq(Cell) /\ Len(disk) \in Nat)
         /\ handle \in {"none", "read", "readwrite"} /\ (bOpen <=> handle # "none")
         /\ bOpen \in BOOLEAN /\ bWriteable \in BOOLEAN /\ bHasChanged \in BOOLEAN
         /\ list \in Seq(Entries) /\ Len(list) \in Nat /\ writePos \in Nat
         /\ bHasChanged => bOpen /\ bWriteable
         /\ want \in Given /\ sound \in BOOLEAN
         /\ disk = Null => ~sound /\ ~bOpen
<1>1. /\ disk = Null \/ disk \in Seq(Cell)
      /\ handle \in {"none", "read", "readwrite"} /\ (bOpen <=> handle # "none")
      /\ bOpen \in BOOLEAN /\ bWriteable \in BOOLEAN /\ bHasChanged \in BOOLEAN
      /\ list \in Seq(Entries) /\ writePos \in Nat
      /\ bHasChanged => bOpen /\ bWriteable
  BY DEF ArchiveInv, TypeOK
<1>2. Len(list) \in Nat /\ (disk \in Seq(Cell) => Len(disk) \in Nat)
  BY <1>1, LenProperties
<1> QED  BY <1>1, <1>2 DEF ArchiveInv

\* What the file holds once Save or Close is done with it.
LEMMA ClosedFile ==
  ASSUME ArchiveInv
  PROVE  /\ disk = Null => ClosedDisk = Null
         /\ disk # Null => ClosedDisk \in Seq(Cell)
         /\ sound /\ SaveFits =>
              /\ disk # Null
              /\ Whole(ClosedDisk, want)
              /\ bOpen => Describes(ClosedDisk, list, want, Len(ClosedDisk))
              /\ Edited => /\ Len(list) = Len(want)
                           /\ Describes(ClosedDisk, list, want, writePos)
                           /\ Len(ClosedDisk) <= writePos + 2 * Len(list) + 1
<1>1. /\ disk = Null \/ (disk \in Seq(Cell) /\ Len(disk) \in Nat)
      /\ bOpen \in BOOLEAN /\ bWriteable \in BOOLEAN /\ bHasChanged \in BOOLEAN
      /\ list \in Seq(Entries) /\ Len(list) \in Nat /\ writePos \in Nat
      /\ bHasChanged => bOpen /\ bWriteable
      /\ want \in Given /\ (disk = Null => ~sound /\ ~bOpen)
      /\ sound => Kept
  BY TypesOfInv DEF ArchiveInv
<1>2. CASE ~Saves
  <2>1. ClosedDisk = disk  BY <1>2 DEF ClosedDisk
  <2>2. ~bHasChanged  BY <1>1, <1>2 DEF Saves
  <2> QED  BY <2>1, <2>2, <1>1 DEF Kept, LastSaveIsWhole, OpenIsDescribed, EditsAppend
<1>3. CASE Saves /\ handle # "readwrite"
  <2>1. ClosedDisk = disk  BY <1>3, SavedUnread DEF ClosedDisk
  <2> QED  BY <2>1, <1>1, <1>3 DEF Kept, LastSaveIsWhole, OpenIsDescribed, Edited
<1>4. CASE Saves /\ handle = "readwrite"
  <2>1. ClosedDisk = Saved(disk) /\ bOpen /\ bWriteable /\ bHasChanged /\ Edited
    BY <1>4 DEF ClosedDisk, Saves, Edited
  <2>2. disk \in Seq(Cell)
    BY <1>1, <2>1
  <2>3. ClosedDisk \in Seq(Cell)
    BY <1>1, <2>1, <2>2, SavedCells
  <2>4. ASSUME sound, SaveFits
        PROVE  /\ Whole(ClosedDisk, want)
               /\ Describes(ClosedDisk, list, want, Len(ClosedDisk))
               /\ Len(list) = Len(want)
               /\ Describes(ClosedDisk, list, want, writePos)
               /\ Len(ClosedDisk) <= writePos + 2 * Len(list) + 1
    <3>1. /\ Len(list) = Len(want) /\ Describes(disk, list, want, writePos)
          /\ Len(disk) <= writePos + 2 * Len(list)
      BY <1>1, <2>1, <2>4 DEF Kept, EditsAppend
    <3>2. writePos + 2 * Len(list) + 1 <= Capacity
      BY <1>4, <2>4 DEF SaveFits
    <3> DEFINE s == Saved(disk)
    <3>3. /\ s \in Seq(Cell) /\ Len(s) <= writePos + 2 * Len(list) + 1
          /\ Describes(s, list, want, writePos) /\ Whole(s, want)
      BY <1>1, <1>4, <2>2, <3>1, <3>2, SavedWhole
    <3> HIDE DEF s
    <3>4. Len(s) \in Nat  BY <3>3, LenProperties
    <3>5. Describes(s, list, want, Len(s))
      <4>1. Len(s) <= Len(s) /\ \A i \in 1..Len(s) : i <= writePos => s[i] = s[i]
        BY <3>4
      <4> QED  BY <1>1, <3>3, <3>4, <4>1, DescribesStays
    <3> QED  BY <2>1, <3>1, <3>3, <3>5 DEF s
  <2> QED  BY <2>1, <2>2, <2>3, <2>4, <1>1
<1> QED  BY <1>2, <1>3, <1>4

LEMMA NullIsNoFile == Null \notin Seq(Cell)
BY ArchiveAssumption

LEMMA InvInit ==
  ASSUME ArchiveInit
  PROVE  ArchiveInv
<1>1. /\ disk = Null \/ disk = OldArchive
      /\ handle = "none" /\ bOpen = FALSE /\ bWriteable \in BOOLEAN /\ list = <<>>
      /\ writePos = 0 /\ bHasChanged = FALSE
      /\ want = (IF disk = Null THEN <<>> ELSE OldContents) /\ sound = (disk # Null)
  BY DEF ArchiveInit
<1>2. OldArchive \in Seq(Cell) /\ OldContents \in Given
  BY OldArchiveAssumption DEF Given, NameSet
<1>3. TypeOK
  <2>1. list \in Seq(Entries) /\ writePos \in Nat /\ (disk = Null \/ disk \in Seq(Cell))
    BY <1>1, <1>2, NoElements
  <2> QED  BY <1>1, <2>1 DEF TypeOK
<1>4. want \in Given
  BY <1>1, <1>2, NoElements DEF Given
<1>5. ASSUME disk # Null PROVE Whole(disk, want)
  <2>1. disk = OldArchive /\ want = OldContents
    BY <1>1, <1>5
  <2>2. /\ IsOld(OldArchive) /\ ~HasHeader(OldArchive)
        /\ Len(OpenOld(OldArchive)) = Len(OldContents)
        /\ \A i \in DOMAIN OldContents :
             LET e == OpenOld(OldArchive)[i]
             IN  /\ e.name = OldContents[i][1] /\ e.cmp # 0
                 /\ Stored(OldArchive, e, OldContents[i][2])
                 /\ \A j \in DOMAIN OldContents : OldContents[j][1] = e.name => i = j
    BY OldArchiveAssumption
  <2> DEFINE l == OpenOld(OldArchive)
             v == OldContents
  <2>3. /\ l \in Seq(Entries) /\ Len(l) = Len(v) /\ Len(v) \in Nat /\ DOMAIN v = 1..Len(v)
        /\ \A i \in 1..Len(v) : v[i][2] \in Files
    BY <1>2, <2>2, OldEntries, GivenFiles
  <2>4. \A i \in 1..Len(v) : /\ l[i].name = v[i][1] /\ l[i].cmp # 0
                             /\ Stored(OldArchive, l[i], v[i][2])
                             /\ \A j \in 1..Len(v) : v[j][1] = l[i].name => i = j
    BY <2>2, <2>3
  <2> HIDE DEF l, v
  <2>5. Describes(OldArchive, l, v, Len(OldArchive))
    <3>1. \A i \in 1..Len(v) : l[i].off + Size(l[i], v[i][2]) <= Len(OldArchive)
      BY <2>3, <2>4, StoredCells
    <3>2. \A i, j \in 1..Len(v) : l[i].name = l[j].name => i = j
      BY <2>4
    <3>3. \A i \in Len(v)+1..Len(l) : l[i].cmp = 0
      BY <2>3
    <3>4. Len(v) <= Len(l)
      BY <2>3
    <3> HIDE DEF Stored, Size
    <3> QED  BY <2>3, <2>4, <3>1, <3>2, <3>3, <3>4 DEF Describes
  <2> QED  BY <2>1, <2>2, <2>5 DEF Whole, l, v
<1>6. sound => Kept
  BY <1>1, <1>5 DEF Kept, LastSaveIsWhole, OpenIsDescribed, EditsAppend, Edited
<1> QED  BY <1>1, <1>3, <1>4, <1>6 DEF ArchiveInv

LEMMA InvClose ==
  ASSUME ArchiveInv, CloseArchive
  PROVE  ArchiveInv'
<1>1. /\ disk' = ClosedDisk /\ sound' = (sound /\ SaveFits)
      /\ handle' = "none" /\ bOpen' = FALSE /\ list' = <<>> /\ bHasChanged' = FALSE
      /\ bWriteable' = bWriteable /\ writePos' = writePos /\ want' = want
  BY DEF CloseArchive, Closed
<1>2. /\ disk' = Null \/ disk' \in Seq(Cell)
      /\ sound' => disk' # Null /\ Whole(disk', want')
  BY <1>1, ClosedFile, NullIsNoFile, TypesOfInv
<1>3. TypeOK'
  <2>1. list' \in Seq(Entries) /\ writePos' \in Nat
    BY <1>1, NoElements, TypesOfInv
  <2> QED  BY <1>1, <1>2, <2>1, TypesOfInv DEF TypeOK
<1>4. sound' => Kept'
  BY <1>1, <1>2 DEF Kept, LastSaveIsWhole, OpenIsDescribed, EditsAppend, Edited
<1>5. want' \in Given /\ sound' \in BOOLEAN
  BY <1>1, TypesOfInv DEF SaveFits
<1> QED  BY <1>1, <1>2, <1>3, <1>4, <1>5 DEF ArchiveInv

LEMMA InvSave ==
  ASSUME ArchiveInv, Save
  PROVE  ArchiveInv'
<1>1. /\ disk' = ClosedDisk /\ sound' = (sound /\ SaveFits)
      /\ handle' = handle /\ bOpen' = bOpen /\ list' = list /\ bHasChanged' = FALSE
      /\ bWriteable' = bWriteable /\ writePos' = writePos /\ want' = want /\ bOpen
  BY DEF Save, ClosedDisk, Saves
<1>2. disk # Null
  BY <1>1, TypesOfInv
<1>3. /\ disk' \in Seq(Cell) /\ disk' # Null
      /\ sound' =>
           /\ Whole(disk', want')
           /\ Describes(disk', list', want', Len(disk'))
           /\ Edited => /\ Len(list') = Len(want')
                        /\ Describes(disk', list', want', writePos')
                        /\ Len(disk') <= writePos' + 2 * Len(list') + 1
  BY <1>1, <1>2, ClosedFile, NullIsNoFile
<1>4. TypeOK'
  BY <1>1, <1>3, TypesOfInv DEF TypeOK
<1>5. sound' => Kept'
  BY <1>1, <1>3 DEF Kept, LastSaveIsWhole, OpenIsDescribed, EditsAppend, Edited
<1>6. want' \in Given /\ sound' \in BOOLEAN
  BY <1>1, TypesOfInv DEF SaveFits
<1> QED  BY <1>1, <1>3, <1>4, <1>5, <1>6 DEF ArchiveInv

LEMMA InvCreateNew ==
  ASSUME ArchiveInv, NEW temp \in BOOLEAN, CreateNew(temp)
  PROVE  ArchiveInv'
<1>1. /\ disk' = <<>> /\ bWriteable' = TRUE /\ want' = <<>> /\ sound' = temp
      /\ writePos' = writePos /\ list' = <<>>
      /\ IF temp THEN handle' = "readwrite" /\ bOpen' = TRUE /\ bHasChanged' = TRUE
                 ELSE handle' = "none" /\ bOpen' = FALSE /\ bHasChanged' = FALSE
  BY DEF CreateNew, Closed
<1>2. disk' \in Seq(Cell) /\ disk' # Null /\ Len(disk') = 0
  <2>1. disk' \in Seq(Cell) /\ Len(disk') = 0  BY <1>1, NoElements
  <2> QED  BY <2>1, NullIsNoFile
<1>3. TypeOK'
  <2>1. list' \in Seq(Entries) /\ writePos' \in Nat
    BY <1>1, NoElements, TypesOfInv
  <2> QED  BY <1>1, <1>2, <2>1 DEF TypeOK
<1>4. want' \in Given
  BY <1>1, NoElements DEF Given
<1>5. /\ Len(list') = 0 /\ Len(want') = 0
      /\ \A lim : Describes(disk', list', want', lim)
  BY <1>1 DEF Describes
<1>6. sound' => Kept'
  <2>1. Len(disk') <= writePos' + 2 * Len(list') + 0
    BY <1>1, <1>2, <1>5, TypesOfInv
  <2> QED  BY <1>1, <1>5, <2>1 DEF Kept, LastSaveIsWhole, OpenIsDescribed, EditsAppend, Edited
<1> QED  BY <1>1, <1>2, <1>3, <1>4, <1>6 DEF ArchiveInv

LEMMA InvCrash ==
  ASSUME ArchiveInv, Crash
  PROVE  ArchiveInv'
<1>1. /\ handle' = "none" /\ bOpen' = FALSE /\ list' = <<>> /\ bHasChanged' = FALSE
      /\ sound' = (sound /\ (handle = "readwrite" => ~bHasChanged))
      /\ bWriteable' \in BOOLEAN /\ writePos' = 0 /\ disk' = disk /\ want' = want
  BY DEF Crash, Closed
<1>2. TypeOK'
  <2>1. list' \in Seq(Entries) /\ writePos' \in Nat /\ (disk' = Null \/ disk' \in Seq(Cell))
    BY <1>1, NoElements, TypesOfInv
  <2> QED  BY <1>1, <2>1 DEF TypeOK
<1>3. sound' => Whole(disk', want')
  BY <1>1, TypesOfInv DEF ArchiveInv, Kept, LastSaveIsWhole, Edited
<1>4. sound' => Kept'
  BY <1>1, <1>3 DEF Kept, LastSaveIsWhole, OpenIsDescribed, EditsAppend, Edited
<1>5. want' \in Given /\ sound' \in BOOLEAN /\ (disk' = Null => ~sound' /\ ~bOpen')
  BY <1>1, TypesOfInv
<1> QED  BY <1>2, <1>4, <1>5 DEF ArchiveInv

LEMMA InvOpen ==
  ASSUME ArchiveInv, NEW write \in BOOLEAN, NEW temp \in BOOLEAN, Open(write, temp)
  PROVE  ArchiveInv'
<1> DEFINE d == IF ClosedDisk = Null THEN <<>> ELSE ClosedDisk
<1>1. /\ disk' = d /\ sound' = (sound /\ SaveFits) /\ want' = want /\ bHasChanged' = FALSE
      /\ HasHeader(d) =>
           /\ handle' \in {"read", "readwrite"} /\ bOpen' = TRUE /\ bWriteable' \in BOOLEAN
           /\ list' = ReadArcInfo(d) /\ writePos' = Last(d)[3]
      /\ ~HasHeader(d) => bWriteable' = FALSE /\ writePos' = writePos
      /\ ~HasHeader(d) /\ IsOld(d) =>
           handle' \in {"read", "readwrite"} /\ bOpen' = TRUE /\ list' = OpenOld(d)
      /\ ~HasHeader(d) /\ ~IsOld(d) => handle' = "none" /\ bOpen' = FALSE /\ list' = <<>>
  <2>1. bWriteable \in BOOLEAN  BY TypesOfInv
  <2> QED  BY <2>1 DEF Open, Closed
<1>2. /\ d \in Seq(Cell) /\ d # Null /\ Len(d) \in Nat
      /\ sound /\ SaveFits => Whole(d, want)
  <2>1. CASE disk = Null
    <3>1. ClosedDisk = Null /\ ~sound  BY <2>1, ClosedFile, TypesOfInv
    <3>2. d = <<>>  BY <3>1
    <3> HIDE DEF d
    <3>3. d \in Seq(Cell) /\ Len(d) = 0  BY <3>2, NoElements
    <3>4. d # Null  BY <3>3, NullIsNoFile
    <3>5. Len(d) \in Nat  BY <3>3
    <3> QED  BY <3>1, <3>3, <3>4, <3>5, Zenon
  <2>2. CASE disk # Null
    <3>1. ClosedDisk \in Seq(Cell) /\ (sound /\ SaveFits => Whole(ClosedDisk, want))
      BY <2>2, ClosedFile
    <3>2. ClosedDisk # Null  BY <3>1, NullIsNoFile
    <3>3. d = ClosedDisk  BY <3>2
    <3> HIDE DEF d
    <3> QED  BY <3>1, <3>2, <3>3, LenProperties
  <2> QED  BY <2>1, <2>2
<1> HIDE DEF d
<1>3. HasHeader(d) => /\ ReadArcInfo(d) \in Seq(Entries) /\ Len(ReadArcInfo(d)) = Last(d)[2]
                      /\ Last(d)[3] \in Nat
  BY <1>2, ReadEntries
<1>4. TypeOK'
  <2>1. list' \in Seq(Entries) /\ writePos' \in Nat
    BY <1>1, <1>2, <1>3, NoElements, OldEntries, TypesOfInv
  <2>2. /\ handle' \in {"none", "read", "readwrite"} /\ bOpen' \in BOOLEAN
        /\ bWriteable' \in BOOLEAN /\ (bOpen' <=> handle' # "none")
    BY <1>1
  <2> QED  BY <1>1, <1>2, <2>1, <2>2 DEF TypeOK
<1>5. ASSUME sound' PROVE Kept'
  <2>1. Whole(d, want) /\ want \in Given /\ Len(want) \in Nat
    BY <1>1, <1>2, <1>5, TypesOfInv, GivenFiles
  <2>2. CASE HasHeader(d)
    <3>1. /\ Len(list') = Len(want) /\ list' \in Seq(Entries) /\ writePos' \in Nat
          /\ Describes(d, list', want, writePos')
          /\ Len(d) <= writePos' + 2 * Len(list') + 1
      BY <1>1, <1>3, <2>1, <2>2 DEF Whole
    <3>2. Describes(d, list', want, Len(d))
      <4>1. Len(d) <= Len(d) /\ \A i \in 1..Len(d) : i <= writePos' => d[i] = d[i]
        BY <1>2
      <4> QED  BY <1>2, <2>1, <3>1, <4>1, DescribesStays
    <3> QED  BY <1>1, <2>1, <3>1, <3>2 DEF Kept, LastSaveIsWhole, OpenIsDescribed, EditsAppend
  <2>3. CASE ~HasHeader(d)
    <3>1. IsOld(d) /\ Describes(d, OpenOld(d), want, Len(d))
      BY <2>1, <2>3 DEF Whole
    <3> QED  BY <1>1, <2>1, <2>3, <3>1
             DEF Kept, LastSaveIsWhole, OpenIsDescribed, EditsAppend, Edited
  <2> QED  BY <2>2, <2>3
<1>6. want' \in Given /\ sound' \in BOOLEAN
  BY <1>1, TypesOfInv DEF SaveFits
<1> QED  BY <1>1, <1>2, <1>4, <1>5, <1>6 DEF ArchiveInv

\* The first and the second attempt to write a file that is added.
LEMMA AddedFile ==
  ASSUME ArchiveInv, NEW f \in Files, bOpen, handle = "readwrite", NEW zlib \in BOOLEAN,
         NEW zipped, NEW b, NEW e, NEW pays \in BOOLEAN,
         zipped = IF zlib /\ Deflated[f] # 0 THEN Written(disk, writePos, ZipCells(f)) ELSE disk,
         pays => zlib /\ Deflated[f] # 0 /\ CanWrite(disk, writePos, ZipCells(f)),
         ~pays => CanWrite(disk, writePos, DataCells(f)),
         b = IF pays THEN zipped ELSE Written(zipped, writePos, DataCells(f)),
         e.off = writePos, e.size = Plain[f], e.type = IF pays THEN "zlibcmp" ELSE "normal"
  PROVE  /\ b \in Seq(Cell) /\ Len(b) \in Nat /\ Len(disk) <= Len(b)
         /\ Len(b) <= writePos + Size(e, f) \/ Len(b) = Len(disk)
         /\ \A i \in 1..Len(disk) : i <= writePos => b[i] = disk[i]
         /\ Stored(b, e, f)
<1>1. /\ disk \in Seq(Cell) /\ Len(disk) \in Nat /\ writePos \in Nat
      /\ Plain[f] \in Nat /\ Plain[f] > 0 /\ Deflated[f] \in Nat /\ Deflated[f] <= Plain[f]
      /\ DataCells(f) \in Seq(Cell) /\ Len(DataCells(f)) = Plain[f]
      /\ ZipCells(f) \in Seq(Cell) /\ Len(ZipCells(f)) = Deflated[f]
  BY TypesOfInv, FileCells
<1>2. CASE pays
  <2>1. b = Put(disk, writePos, ZipCells(f))
    BY <1>2 DEF Written
  <2>2. b = Put(disk, e.off, IF e.type = "zlibcmp" THEN ZipCells(f) ELSE DataCells(f))
    BY <1>2, <2>1
  <2>3. e.type = "zlibcmp" /\ Deflated[f] # 0 /\ e.off \in Nat
    BY <1>1, <1>2
  <2>4. /\ b \in Seq(Cell) /\ Len(b) \in Nat /\ Len(disk) <= Len(b)
        /\ Len(b) <= e.off + Size(e, f) \/ Len(b) = Len(disk)
        /\ \A i \in 1..Len(disk) : i <= e.off => b[i] = disk[i]
        /\ Stored(b, e, f)
    BY <1>1, <2>2, <2>3, PutStores
  <2> QED  BY <2>4
<1>3. CASE ~pays
  <2>1. /\ zipped \in Seq(Cell) /\ Len(zipped) \in Nat /\ Len(disk) <= Len(zipped)
        /\ Len(zipped) <= writePos + Plain[f] \/ Len(zipped) = Len(disk)
        /\ \A i \in 1..Len(disk) : i <= writePos => zipped[i] = disk[i]
    <3>1. CASE zipped = disk
      BY <1>1, <3>1
    <3>2. CASE zipped = Put(disk, writePos, ZipCells(f))
      <4>1. /\ zipped \in Seq(Cell)
            /\ Len(zipped) = IF writePos + Deflated[f] > Len(disk) THEN writePos + Deflated[f]
                             ELSE Len(disk)
            /\ \A i \in 1..Len(disk) : i <= writePos => zipped[i] = disk[i]
        BY <1>1, <3>2, PutCells, SMTT(30)
      <4> QED  BY <4>1, <1>1
    <3> QED  BY <3>1, <3>2 DEF Written
  <2>2. CanWrite(zipped, writePos, DataCells(f))
    BY <1>3 DEF CanWrite, Fits
  <2>3. b = Put(zipped, writePos, DataCells(f))
    BY <1>3, <2>2 DEF Written
  <2>4. b = Put(zipped, e.off, IF e.type = "zlibcmp" THEN ZipCells(f) ELSE DataCells(f))
    BY <1>3, <2>3
  <2>5. e.type = "normal" /\ e.size = Plain[f] /\ e.off \in Nat /\ Size(e, f) = Plain[f]
    BY <1>1, <1>3 DEF Size
  <2>6. /\ b \in Seq(Cell) /\ Len(b) \in Nat /\ Len(zipped) <= Len(b)
        /\ Len(b) <= e.off + Size(e, f) \/ Len(b) = Len(zipped)
        /\ \A i \in 1..Len(zipped) : i <= e.off => b[i] = zipped[i]
        /\ Stored(b, e, f)
    BY <2>1, <2>4, <2>5, PutStores
  <2>7. ASSUME NEW i \in 1..Len(disk), i <= writePos PROVE b[i] = disk[i]
    <3>1. i \in 1..Len(zipped)  BY <1>1, <2>1
    <3> QED  BY <2>1, <2>6, <2>7, <3>1
  <2> QED  BY <1>1, <2>1, <2>5, <2>6, <2>7
<1> QED  BY <1>2, <1>3

LEMMA InvAddFile ==
  ASSUME ArchiveInv, NEW f \in Files, NEW n \in Names, NEW zlib \in BOOLEAN,
         AddFile(f, n, zlib)
  PROVE  ArchiveInv'
<1> DEFINE zipped == IF zlib /\ Deflated[f] # 0 THEN Written(disk, writePos, ZipCells(f)) ELSE disk
           pays == zlib /\ Pays(f) /\ CanWrite(disk, writePos, ZipCells(f))
           wrote == pays \/ CanWrite(disk, writePos, DataCells(f))
           size == IF ~wrote THEN 0 ELSE IF pays THEN Deflated[f] ELSE Plain[f]
           b == IF pays THEN zipped ELSE Written(zipped, writePos, DataCells(f))
           name == NameFor(n)
           e == Entry(name, IF pays THEN "zlibcmp" ELSE "normal", writePos, Plain[f], size)
<1>1. /\ bOpen /\ bWriteable
      /\ disk' = b /\ list' = Append(list, e) /\ writePos' = writePos + size
      /\ bHasChanged' = TRUE
      /\ want' = IF wrote THEN Append(want, <<name, f>>) ELSE want
      /\ sound' = (sound /\ (handle = "readwrite" => wrote))
      /\ handle' = handle /\ bOpen' = bOpen /\ bWriteable' = bWriteable
  BY DEF AddFile
<1>2. /\ disk \in Seq(Cell) /\ Len(disk) \in Nat /\ disk # Null
      /\ handle \in {"none", "read", "readwrite"} /\ handle # "none"
      /\ list \in Seq(Entries) /\ Len(list) \in Nat /\ writePos \in Nat
      /\ want \in Given /\ sound \in BOOLEAN
  BY <1>1, TypesOfInv, NullIsNoFile
<1>3. /\ Plain[f] \in Nat /\ Plain[f] > 0 /\ Deflated[f] \in Nat /\ Deflated[f] <= Plain[f]
      /\ DataCells(f) \in Seq(Cell) /\ ZipCells(f) \in Seq(Cell)
  BY FileCells
<1>4. /\ pays \in BOOLEAN /\ wrote \in BOOLEAN
      /\ pays => zlib /\ Deflated[f] # 0 /\ CanWrite(disk, writePos, ZipCells(f))
      /\ ~pays /\ wrote => CanWrite(disk, writePos, DataCells(f))
      /\ wrote => handle = "readwrite"
  BY DEF Pays, CanWrite, Fits
<1>5. /\ size \in Nat /\ size <= Plain[f]
      /\ wrote => size = (IF pays THEN Deflated[f] ELSE Plain[f]) /\ size # 0
      /\ ~wrote => size = 0
  BY <1>3, <1>4
<1>6. name \in NameSet /\ \A i \in 1..Len(list) : list[i].name # name
  <2>1. NameFor(n) \in NameSet /\ ~Taken(NameFor(n))  BY <1>2, NameIsFree
  <2>2. DOMAIN list = 1..Len(list)  BY <1>2, ListEntries
  <2> QED  BY <2>1, <2>2 DEF Taken
<1>7. /\ b = IF pays THEN zipped ELSE Written(zipped, writePos, DataCells(f))
      /\ zipped = IF zlib /\ Deflated[f] # 0 THEN Written(disk, writePos, ZipCells(f)) ELSE disk
      /\ ~wrote => ~pays /\ ~CanWrite(disk, writePos, DataCells(f))
  OBVIOUS
<1> HIDE DEF pays, wrote, size, b, name, zipped
<1>8. /\ e.name = name /\ e.off = writePos /\ e.size = Plain[f] /\ e.cmp = size
      /\ e.type = IF pays THEN "zlibcmp" ELSE "normal"
  BY DEF Entry
<1>9. e \in Entries
  <2>1. name \in [of : Names \cup {Null}, X : Nat]  BY <1>6 DEF NameSet
  <2> QED  BY <2>1, <1>2, <1>3, <1>5 DEF Entry, Entries
<1> HIDE DEF e
<1>10. zipped \in Seq(Cell)
  <2>1. Put(disk, writePos, ZipCells(f)) \in Seq(Cell)  BY <1>2, <1>3, PutCells
  <2> QED  BY <2>1, <1>2, <1>7 DEF Written
<1>11. disk' \in Seq(Cell) /\ disk' # Null
  <2>1. Put(zipped, writePos, DataCells(f)) \in Seq(Cell)  BY <1>2, <1>3, <1>10, PutCells
  <2>2. b \in Seq(Cell)  BY <2>1, <1>7, <1>10 DEF Written
  <2> QED  BY <2>2, <1>1, NullIsNoFile
<1>12. want' \in Given /\ sound' \in BOOLEAN
  <2>1. <<name, f>> \in NameSet \X Files  BY <1>6
  <2>2. Append(want, <<name, f>>) \in Given  BY <2>1, <1>2, AppendProperties DEF Given
  <2> QED  BY <2>2, <1>1, <1>2, <1>4
<1>13. TypeOK'
  <2>1. list' \in Seq(Entries) /\ writePos' \in Nat
    BY <1>1, <1>2, <1>5, <1>9, AppendProperties
  <2> QED  BY <2>1, <1>1, <1>11, TypesOfInv DEF TypeOK
<1>14. ASSUME sound', handle = "readwrite" PROVE Kept'
  <2>1. wrote /\ Edited /\ Edited' /\ sound
    BY <1>1, <1>14 DEF Edited
  <2>2. /\ b \in Seq(Cell) /\ Len(b) \in Nat /\ Len(disk) <= Len(b)
        /\ Len(b) <= writePos + Size(e, f) \/ Len(b) = Len(disk)
        /\ \A i \in 1..Len(disk) : i <= writePos => b[i] = disk[i]
        /\ Stored(b, e, f)
    BY <2>1, <1>1, <1>4, <1>7, <1>8, <1>14, AddedFile
  <2>3. /\ Len(list) = Len(want) /\ Describes(disk, list, want, writePos)
        /\ Len(disk) <= writePos + 2 * Len(list) + 1
    <3>1. /\ Len(list) = Len(want) /\ Describes(disk, list, want, writePos)
          /\ Len(disk) <= writePos + 2 * Len(list) + (IF bHasChanged THEN 0 ELSE 1)
      BY <2>1 DEF ArchiveInv, Kept, EditsAppend
    <3> QED  BY <3>1, <1>2
  <2>4. Size(e, f) = size /\ writePos + size \in Nat
    BY <2>1, <1>2, <1>5, <1>8 DEF Size
  <2>5. /\ writePos <= writePos + size /\ e.off + Size(e, f) <= writePos + size
        /\ writePos + size <= Len(b)
    BY <2>2, <2>4, <1>2, <1>5, <1>8, StoredCells
  <2>6. ASSUME NEW end \in Nat, writePos + size <= end
        PROVE  Describes(b, Append(list, e), Append(want, <<name, f>>), end)
    <3>1. writePos <= end /\ e.off + Size(e, f) <= end
      BY <2>4, <2>5, <2>6, <1>2, <1>5, <1>8
    <3>2. e.cmp # 0
      BY <2>1, <1>5, <1>8
    <3> QED  BY <3>1, <3>2, <2>2, <2>3, <1>2, <1>6, <1>8, <1>9, ListAppended
  <2>7. list' = Append(list, e) /\ want' = Append(want, <<name, f>>) /\ disk' = b
    BY <1>1, <2>1
  <2>8. Describes(disk', list', want', Len(disk')) /\ Describes(disk', list', want', writePos')
    <3> DEFINE l == Append(list, e)
               v == Append(want, <<name, f>>)
               end == writePos + size
    <3>1. end \in Nat /\ end <= end /\ end <= Len(b) /\ Len(b) \in Nat
      BY <2>2, <2>4, <2>5
    <3>2. \A z \in Nat : end <= z => Describes(b, l, v, z)
      BY <2>6
    <3>3. list' = l /\ want' = v /\ disk' = b /\ writePos' = end
      BY <2>7, <1>1
    <3> HIDE DEF l, v, end
    <3>4. Describes(b, l, v, Len(b)) /\ Describes(b, l, v, end)
      BY <3>1, <3>2
    <3> QED  BY <3>3, <3>4
  <2>9. Len(list') = Len(list) + 1 /\ Len(want') = Len(want) + 1
    <3>1. <<name, f>> \in NameSet \X Files  BY <1>6
    <3> QED  BY <3>1, <2>7, <1>2, <1>9, AppendProperties DEF Given
  <2>10. Len(disk') <= writePos' + 2 * Len(list')
    BY <2>2, <2>3, <2>4, <2>7, <2>9, <1>1, <1>2, <1>5
  <2> QED  BY <2>1, <2>3, <2>8, <2>9, <2>10, <1>1
           DEF Kept, LastSaveIsWhole, OpenIsDescribed, EditsAppend
<1>15. ASSUME sound', handle # "readwrite" PROVE Kept'
  <2>1. ~wrote /\ ~pays /\ ~Edited /\ ~Edited' /\ sound
    BY <1>1, <1>4, <1>7, <1>15 DEF Edited
  <2>2. b = disk
    BY <2>1, <1>7, <1>15 DEF Written, CanWrite
  <2>3. want' = want /\ list' = Append(list, e) /\ disk' = disk
    BY <2>1, <2>2, <1>1
  <2>4. Whole(disk, want) /\ Describes(disk, list, want, Len(disk))
    BY <2>1, <1>1 DEF ArchiveInv, Kept, LastSaveIsWhole, OpenIsDescribed
  <2>5. e.cmp = 0 /\ \A i \in 1..Len(list) : list[i].name # e.name
    BY <2>1, <1>5, <1>6, <1>8
  <2>6. Describes(disk, Append(list, e), want, Len(disk))
    BY <2>4, <2>5, <1>2, <1>9, ListGrown
  <2> QED  BY <2>1, <2>3, <2>4, <2>6 DEF Kept, LastSaveIsWhole, OpenIsDescribed, EditsAppend
<1> QED  BY <1>11, <1>12, <1>13, <1>14, <1>15 DEF ArchiveInv

LEMMA InvNext ==
  ASSUME ArchiveInv, [ArchiveNext]_archiveVars
  PROVE  ArchiveInv'
<1>1. CASE CloseArchive  BY <1>1, InvClose
<1>2. CASE Save  BY <1>2, InvSave
<1>3. ASSUME NEW temp \in BOOLEAN, CreateNew(temp) PROVE ArchiveInv'
  BY <1>3, InvCreateNew
<1>4. ASSUME NEW write \in BOOLEAN, NEW temp \in BOOLEAN, Open(write, temp) PROVE ArchiveInv'
  BY <1>4, InvOpen
<1>5. ASSUME NEW f \in Files, NEW n \in Names, NEW zlib \in BOOLEAN, AddFile(f, n, zlib)
      PROVE  ArchiveInv'
  BY <1>5, InvAddFile
<1>6. CASE Crash  BY <1>6, InvCrash
<1>7. CASE UNCHANGED archiveVars
  BY <1>7 DEF archiveVars, ArchiveInv, TypeOK, Kept, LastSaveIsWhole, OpenIsDescribed,
              EditsAppend, Edited
<1> QED  BY <1>1, <1>2, <1>3, <1>4, <1>5, <1>6, <1>7 DEF ArchiveNext

LEMMA ArchiveInvariance == ArchiveSpec => []ArchiveInv
<1>1. ArchiveInit => ArchiveInv
  BY InvInit
<1>2. ArchiveInv /\ [ArchiveNext]_archiveVars => ArchiveInv'
  BY InvNext
<1> QED  BY <1>1, <1>2, PTL DEF ArchiveSpec

\* Whatever is added, saved, closed and opened again, by one process or by
\* several: a file whose last change was saved holds, under their names, just
\* the files that were added to it.
THEOREM ArchiveSavedIsWhole == ArchiveSpec => []SavedIsWhole
<1>1. ArchiveInv => SavedIsWhole
  <2> SUFFICES ASSUME ArchiveInv PROVE SavedIsWhole
    OBVIOUS
  <2>1. TypeOK
    BY DEF ArchiveInv
  <2>2. ASSUME sound, ~bHasChanged \/ handle = "read" PROVE Holds(disk) = want
    <3>1. disk \in Seq(Cell) /\ want \in Given
      BY <2>2, TypesOfInv
    <3>2. Whole(disk, want)
      BY <2>2 DEF ArchiveInv, Kept, LastSaveIsWhole, Edited
    <3> QED  BY <3>1, <3>2, ReadEntries, OldEntries, WholeHolds
  <2> QED  BY <2>1, <2>2 DEF SavedIsWhole
<1> QED  BY <1>1, ArchiveInvariance, PTL

\* Every file that AddFile answered for is extracted by the name it was given,
\* while the archive is open.
THEOREM ArchiveListedExtracts == ArchiveSpec => []ListedExtracts
<1>1. ArchiveInv => ListedExtracts
  <2> SUFFICES ASSUME ArchiveInv, sound, bOpen PROVE ListedExtracts
    BY DEF ListedExtracts
  <2>1. Describes(disk, list, want, Len(disk))
    BY DEF ArchiveInv, Kept, OpenIsDescribed
  <2>2. want \in Given /\ list \in Seq(Entries)
    BY TypesOfInv
  <2> QED  BY <2>1, <2>2, DescribedExtracts
<1> QED  BY <1>1, ArchiveInvariance, PTL

-----------------------------------------------------------------------------
(***************************************************************************)
(* The physics.  A check of two bodies finds every collision to come, and  *)
(* a collision turns the velocity between two bodies round, whatever their *)
(* masses, so that they move as if they came from where they are the other *)
(* way: apart.  What such a check, or one of a hull, does not undo is      *)
(* Keeps; it carries over the loops of CollisionCheck.                     *)
(***************************************************************************)

\* Vectors are calculated with component by component.
LEMMA VectorSums ==
  ASSUME NEW u \in Vector, NEW v \in Vector
  PROVE  /\ Plus(u, v) \in Vector /\ \A i \in Axis : Plus(u, v)[i] = u[i] + v[i]
         /\ Minus(u, v) \in Vector /\ \A i \in Axis : Minus(u, v)[i] = u[i] - v[i]
         /\ Dot(u, v) \in Int
<1>1. \A i \in Axis : u[i] \in Int /\ v[i] \in Int
  BY DEF Vector
<1>2. 1 \in Axis /\ 2 \in Axis /\ 3 \in Axis
  BY DEF Axis
<1>3. \A i \in Axis : u[i] + v[i] \in Int /\ u[i] - v[i] \in Int
  BY <1>1
<1>4. \A i \in Axis : u[i] * v[i] \in Int
  BY <1>1
<1>5. Dot(u, v) \in Int
  <2>1. u[1] * v[1] \in Int /\ u[2] * v[2] \in Int /\ u[3] * v[3] \in Int
    BY <1>2, <1>4
  <2> QED  BY <2>1 DEF Dot
<1> QED  BY <1>3, <1>5 DEF Vector, Plus, Minus

\* A vector by a number.
LEMMA ScaledVector ==
  ASSUME NEW v \in Vector, NEW k \in Int
  PROVE  Scale(v, k) \in Vector
<1>1. \A i \in Axis : v[i] * k \in Int
  BY DEF Vector
<1> QED  BY <1>1 DEF Vector, Scale

\* The origin is a vector.
LEMMA OriginVector == Origin \in Vector
BY DEF Origin, Vector, Axis

\* A box and its corners.
LEMMA BoxCorners ==
  ASSUME NEW b \in Box
  PROVE  b.lo \in Vector /\ b.hi \in Vector /\ \A i \in Axis : b.lo[i] \in Int /\ b.hi[i] \in Int
BY DEF Box, Vector

\* A box is moved corner by corner.
LEMMA MovedBox ==
  ASSUME NEW b \in Box, NEW v \in Vector
  PROVE  /\ MoveBox(b, v) \in Box
         /\ \A i \in Axis : MoveBox(b, v).lo[i] = b.lo[i] + v[i] /\ MoveBox(b, v).hi[i] = b.hi[i] + v[i]
<1>1. b.lo \in Vector /\ b.hi \in Vector
  BY BoxCorners
<1>2. /\ Plus(b.lo, v) \in Vector /\ \A i \in Axis : Plus(b.lo, v)[i] = b.lo[i] + v[i]
      /\ Plus(b.hi, v) \in Vector /\ \A i \in Axis : Plus(b.hi, v)[i] = b.hi[i] + v[i]
  BY <1>1, VectorSums
<1> QED  BY <1>2 DEF MoveBox, Box

\* The least and the greatest of four numbers.
LEMMA FourNumbers ==
  ASSUME NEW a \in Int, NEW b \in Int, NEW c \in Int, NEW d \in Int, NEW S, S = {a, b, c, d}
  PROVE  /\ Min(S) \in Int /\ \A x \in S : Min(S) <= x
         /\ Max(S) \in Int /\ \A x \in S : x <= Max(S)
<1>1. \E x \in S : \A y \in S : x <= y
  OBVIOUS
<1>2. \E x \in S : \A y \in S : y <= x
  OBVIOUS
<1>3. Min(S) \in S /\ \A y \in S : Min(S) <= y
  BY <1>1 DEF Min
<1>4. Max(S) \in S /\ \A y \in S : y <= Max(S)
  BY <1>2 DEF Max
<1> QED  BY <1>3, <1>4

\* The box round two boxes reaches as far as the second.
LEMMA Catenated ==
  ASSUME NEW a \in Box, NEW b \in Box
  PROVE  /\ AABBCatenate(a, b) \in Box
         /\ \A i \in Axis : AABBCatenate(a, b).lo[i] <= b.lo[i] /\ b.hi[i] <= AABBCatenate(a, b).hi[i]
<1> DEFINE V == {a.lo, a.hi, b.lo, b.hi}
           At(i) == {v[i] : v \in V}
<1>1. \A i \in Axis : a.lo[i] \in Int /\ a.hi[i] \in Int /\ b.lo[i] \in Int /\ b.hi[i] \in Int
  BY BoxCorners
<1>2. ASSUME NEW i \in Axis
      PROVE  /\ Min(At(i)) \in Int /\ Min(At(i)) <= b.lo[i]
             /\ Max(At(i)) \in Int /\ b.hi[i] <= Max(At(i))
  <2>1. At(i) = {a.lo[i], a.hi[i], b.lo[i], b.hi[i]}
    OBVIOUS
  <2> HIDE DEF At
  <2>2. /\ Min(At(i)) \in Int /\ \A x \in At(i) : Min(At(i)) <= x
        /\ Max(At(i)) \in Int /\ \A x \in At(i) : x <= Max(At(i))
    BY <1>1, <2>1, FourNumbers
  <2> QED  BY <2>1, <2>2
<1>3. AABBCatenate(a, b) = [lo |-> [i \in Axis |-> Min(At(i))], hi |-> [i \in Axis |-> Max(At(i))]]
  BY DEF AABBCatenate, AABBFromVec3s
<1> HIDE DEF At
<1> QED  BY <1>2, <1>3 DEF Box, Vector

-----------------------------------------------------------------------------
(* Two boxes that move.                                                    *)

\* A product grows with its factors.
LEMMA Products ==
  ASSUME NEW a \in Int, NEW p \in Nat, NEW b \in Int, NEW q \in Nat, a <= p, q <= b
  PROVE  a * q <= b * p
<1>1. a * q <= p * q
  <2>1. p - a \in Nat
    OBVIOUS
  <2>2. (p - a) * q \in Nat
    BY <2>1
  <2>3. (p - a) * q = p * q - a * q
    OBVIOUS
  <2> QED  BY <2>2, <2>3
<1>2. q * p <= b * p
  <2>1. b - q \in Nat
    OBVIOUS
  <2>2. (b - q) * p \in Nat
    BY <2>1
  <2>3. (b - q) * p = b * p - q * p
    OBVIOUS
  <2> QED  BY <2>2, <2>3
<1>3. p * q = q * p
  OBVIOUS
<1>4. a * q \in Int /\ p * q \in Int /\ b * p \in Int
  OBVIOUS
<1> QED  BY <1>1, <1>2, <1>3, <1>4

\* Boxes that overlap after a step, seen from the second, meet on their way: no
\* collision is missed.
LEMMA NoneIsMissed ==
  ASSUME NEW m \in Box, NEW s \in Box, NEW v \in Vector,
         \A i \in Axis : m.lo[i] + v[i] < s.hi[i] /\ s.lo[i] < m.hi[i] + v[i]
  PROVE  IntersectMoving(m, s, v)
<1> DEFINE moving == {i \in Axis : v[i] # 0}
<1>1. \A i \in Axis : /\ m.lo[i] \in Int /\ m.hi[i] \in Int /\ s.lo[i] \in Int /\ s.hi[i] \in Int
                     /\ v[i] \in Int
  BY BoxCorners DEF Vector
<1>2. ASSUME NEW i \in moving
      PROVE  /\ EnterAxis(m, s, v, i) \in Int /\ LeaveAxis(m, s, v, i) \in Int
             /\ Magnitude(v[i]) \in Nat
             /\ EnterAxis(m, s, v, i) <= Magnitude(v[i])
             /\ Magnitude(v[i]) <= LeaveAxis(m, s, v, i) /\ LeaveAxis(m, s, v, i) >= 0
  BY <1>1 DEF EnterAxis, LeaveAxis, Magnitude
<1>3. \A i \in Axis \ moving : s.lo[i] < m.hi[i] /\ m.lo[i] < s.hi[i]
  BY <1>1
<1>4. ASSUME NEW i \in moving, NEW j \in moving
      PROVE  EnterAxis(m, s, v, i) * Magnitude(v[j]) <= LeaveAxis(m, s, v, j) * Magnitude(v[i])
  BY <1>2, <1>4, Products
<1> QED  BY <1>2, <1>3, <1>4 DEF IntersectMoving

\* Boxes that do not touch and meet come closer along an axis that keeps them
\* apart; they part when they move the other way.
LEMMA TheyPart ==
  ASSUME NEW m \in Box, NEW s \in Box, NEW v \in Vector,
         ~AABBIntersect(m, s), IntersectMoving(m, s, v)
  PROVE  \E i \in Axis : m.lo[i] - v[i] >= s.hi[i] \/ s.lo[i] >= m.hi[i] - v[i]
<1>1. PICK i \in Axis : m.lo[i] > s.hi[i] \/ s.lo[i] > m.hi[i]
  <2>1. \A i \in Axis : m.lo[i] \in Int /\ m.hi[i] \in Int /\ s.lo[i] \in Int /\ s.hi[i] \in Int
    BY BoxCorners
  <2> QED  BY <2>1 DEF AABBIntersect
<1>2. m.lo[i] \in Int /\ m.hi[i] \in Int /\ s.lo[i] \in Int /\ s.hi[i] \in Int /\ v[i] \in Int
  BY BoxCorners DEF Vector
<1>3. v[i] = 0 => s.lo[i] < m.hi[i] /\ m.lo[i] < s.hi[i]
  BY DEF IntersectMoving
<1>4. v[i] # 0 => EnterAxis(m, s, v, i) <= Magnitude(v[i]) /\ LeaveAxis(m, s, v, i) >= 0
  BY DEF IntersectMoving
<1>5. CASE v[i] > 0
  <2>1. s.hi[i] - m.lo[i] >= 0
    BY <1>2, <1>4, <1>5 DEF LeaveAxis
  <2> QED  BY <1>1, <1>2, <1>5, <2>1
<1>6. CASE v[i] < 0
  <2>1. m.hi[i] - s.lo[i] >= 0
    BY <1>2, <1>4, <1>6 DEF LeaveAxis
  <2> QED  BY <1>1, <1>2, <1>6, <2>1
<1>7. v[i] # 0
  BY <1>1, <1>2, <1>3
<1> QED  BY <1>2, <1>5, <1>6, <1>7

-----------------------------------------------------------------------------
(* Bodies in a step.                                                       *)

Bodies == [mass : Nat \ {0}, base : Box, pos : Vector, vel : Vector, pre : Box, post : Box, move : Box]

\* A body whose boxes are those of the move it is about to make.
Placed(b) == b \in Bodies /\ b.pre = MoveBox(b.base, b.pos)
Poised(b) ==
  /\ Placed(b)
  /\ b.post = MoveBox(b.base, Plus(b.pos, b.vel))
  /\ b.move = AABBCatenate(b.pre, b.post)

\* SetPostMoveAABB completes the boxes of a move.
LEMMA PostMove ==
  ASSUME NEW b, Placed(b)
  PROVE  /\ Poised(SetPostMoveAABB(b))
         /\ SetPostMoveAABB(b).pos = b.pos /\ SetPostMoveAABB(b).vel = b.vel
         /\ SetPostMoveAABB(b).pre = b.pre
         /\ SetPostMoveAABB(b).mass = b.mass /\ SetPostMoveAABB(b).base = b.base
<1> DEFINE post == MoveBox(b.base, Plus(b.pos, b.vel))
           move == AABBCatenate(b.pre, post)
           c == [b EXCEPT !.post = post, !.move = move]
<1>1. b \in Bodies /\ b.pos \in Vector /\ b.vel \in Vector /\ b.pre \in Box /\ b.base \in Box
  BY DEF Placed, Bodies
<1>2. post \in Box
  <2>1. Plus(b.pos, b.vel) \in Vector
    BY <1>1, VectorSums
  <2> QED  BY <1>1, <2>1, MovedBox
<1>3. move \in Box
  <2> HIDE DEF post
  <2> QED  BY <1>1, <1>2, Catenated
<1>4. SetPostMoveAABB(b) = c
  BY DEF SetPostMoveAABB
<1>5. b.pre = MoveBox(b.base, b.pos) /\ post = MoveBox(b.base, Plus(b.pos, b.vel)) /\ move = AABBCatenate(b.pre, post)
  BY DEF Placed
<1> HIDE DEF post, move
<1>6. /\ c \in Bodies /\ c.pos = b.pos /\ c.vel = b.vel /\ c.pre = b.pre
      /\ c.post = post /\ c.move = move /\ c.mass = b.mass /\ c.base = b.base
  BY <1>1, <1>2, <1>3 DEF Bodies
<1> QED  BY <1>4, <1>5, <1>6 DEF Poised, Placed

\* A collision gives a body another velocity, and leaves where it comes from.
LEMMA NewVelocity ==
  ASSUME NEW b, Placed(b), NEW v \in Vector
  PROVE  /\ Poised(WithVelocity(b, v)) /\ WithVelocity(b, v).pos = b.pos
         /\ WithVelocity(b, v).vel = v /\ WithVelocity(b, v).pre = b.pre
         /\ WithVelocity(b, v).mass = b.mass /\ WithVelocity(b, v).base = b.base
<1> DEFINE c == [b EXCEPT !.vel = v]
<1>1. /\ Placed(c) /\ c.pos = b.pos /\ c.vel = v /\ c.pre = b.pre
      /\ c.mass = b.mass /\ c.base = b.base
  BY DEF Placed, Bodies
<1>2. WithVelocity(b, v) = SetPostMoveAABB(c)
  BY DEF WithVelocity
<1> HIDE DEF c
<1> QED  BY <1>1, <1>2, PostMove

\* A push sets the boxes anew.
LEMMA PushedBody ==
  ASSUME NEW b \in Bodies, NEW push \in Vector, gravity \in Vector
  PROVE  /\ Poised(Push(b, push)) /\ Push(b, push).pos = b.pos
         /\ Push(b, push).vel = Plus(Plus(b.vel, gravity), push)
         /\ Push(b, push).mass = b.mass
<1> DEFINE pre == MoveBox(b.base, b.pos)
           v == Plus(Plus(b.vel, gravity), push)
           c == [[[b EXCEPT !.pre = pre] EXCEPT !.vel = Plus(@, gravity)] EXCEPT !.vel = Plus(@, push)]
<1>1. b.pos \in Vector /\ b.vel \in Vector /\ b.base \in Box
  BY DEF Bodies
<1>2. pre \in Box
  BY <1>1, MovedBox
<1>3. v \in Vector
  BY <1>1, VectorSums
<1>4. Push(b, push) = SetPostMoveAABB(c)
  BY DEF Push, ApplyWorldForces, SetPreMoveAABB
<1>5. pre = MoveBox(b.base, b.pos) /\ v = Plus(Plus(b.vel, gravity), push)
  OBVIOUS
<1> HIDE DEF pre
<1>6. c.pos = b.pos /\ c.pre = pre /\ c.vel = v /\ c.mass = b.mass /\ c.base = b.base
  BY DEF Bodies
<1>7. c \in Bodies
  <2>1. c = [b EXCEPT !.pre = pre, !.vel = v]
    BY DEF Bodies
  <2> HIDE DEF c, v
  <2> QED  BY <1>2, <1>3, <2>1 DEF Bodies
<1> HIDE DEF c, v
<1>8. Placed(c)
  BY <1>5, <1>6, <1>7 DEF Placed
<1> QED  BY <1>4, <1>5, <1>6, <1>8, PostMove

\* The box a body moves to is the one it comes from, moved by its velocity, and
\* inside that of its move.
LEMMA MovedBody ==
  ASSUME NEW b, Poised(b)
  PROVE  /\ b \in Bodies /\ Placed(b) /\ b.pre \in Box /\ b.post \in Box /\ b.move \in Box /\ b.vel \in Vector
         /\ \A i \in Axis : /\ b.post.lo[i] = b.pre.lo[i] + b.vel[i]
                           /\ b.post.hi[i] = b.pre.hi[i] + b.vel[i]
                           /\ b.move.lo[i] <= b.post.lo[i] /\ b.post.hi[i] <= b.move.hi[i]
<1>1. b \in Bodies /\ b.base \in Box /\ b.pos \in Vector /\ b.vel \in Vector /\ b.pre \in Box /\ b.post \in Box /\ b.move \in Box
  BY DEF Poised, Placed, Bodies
<1>2. /\ b.pre = MoveBox(b.base, b.pos) /\ b.post = MoveBox(b.base, Plus(b.pos, b.vel))
      /\ b.move = AABBCatenate(b.pre, b.post)
  BY DEF Poised, Placed
<1>3. /\ Plus(b.pos, b.vel) \in Vector
      /\ \A i \in Axis : Plus(b.pos, b.vel)[i] = b.pos[i] + b.vel[i]
  BY <1>1, VectorSums
<1>4. ASSUME NEW i \in Axis
      PROVE  b.post.lo[i] = b.pre.lo[i] + b.vel[i] /\ b.post.hi[i] = b.pre.hi[i] + b.vel[i]
  <2>0. ASSUME NEW u \in Vector
        PROVE  /\ MoveBox(b.base, u).lo[i] = b.base.lo[i] + u[i]
               /\ MoveBox(b.base, u).hi[i] = b.base.hi[i] + u[i]
    BY <1>1, MovedBox
  <2>1. /\ b.pre.lo[i] = b.base.lo[i] + b.pos[i] /\ b.pre.hi[i] = b.base.hi[i] + b.pos[i]
    BY <1>1, <1>2, <2>0
  <2>2. /\ b.post.lo[i] = b.base.lo[i] + Plus(b.pos, b.vel)[i]
        /\ b.post.hi[i] = b.base.hi[i] + Plus(b.pos, b.vel)[i]
    BY <1>2, <1>3, <2>0
  <2>3. b.pos[i] \in Int /\ b.vel[i] \in Int /\ b.base.lo[i] \in Int /\ b.base.hi[i] \in Int
    BY <1>1, <1>3, BoxCorners DEF Vector
  <2> QED  BY <1>3, <2>1, <2>2, <2>3
<1>5. \A i \in Axis : b.move.lo[i] <= b.post.lo[i] /\ b.post.hi[i] <= b.move.hi[i]
  BY <1>1, <1>2, Catenated
<1> QED  BY <1>1, <1>4, <1>5 DEF Poised

-----------------------------------------------------------------------------
(* Two bodies.                                                             *)

\* It does not matter which of two boxes is named first.
LEMMA OverlapBothWays ==
  ASSUME NEW a, NEW b
  PROVE  (Overlap(a, b) <=> Overlap(b, a)) /\ (AABBIntersect(a, b) <=> AABBIntersect(b, a))
BY DEF Overlap, AABBIntersect

\* Two bodies for which no collision is found do not overlap after the step.
LEMMA UncollidedApart ==
  ASSUME NEW s, NEW i, NEW j, Poised(s.body[i]), Poised(s.body[j]), i # j, ~Collide(s, i, j)
  PROVE  ~Overlap(s.body[i].post, s.body[j].post)
<1> DEFINE a == s.body[i]
           b == s.body[j]
           v == Minus(a.vel, b.vel)
<1>1. /\ a.pre \in Box /\ a.post \in Box /\ a.move \in Box /\ a.vel \in Vector
      /\ \A k \in Axis : /\ a.post.lo[k] = a.pre.lo[k] + a.vel[k]
                        /\ a.post.hi[k] = a.pre.hi[k] + a.vel[k]
                        /\ a.move.lo[k] <= a.post.lo[k] /\ a.post.hi[k] <= a.move.hi[k]
  BY MovedBody
<1>2. /\ b.pre \in Box /\ b.post \in Box /\ b.move \in Box /\ b.vel \in Vector
      /\ \A k \in Axis : /\ b.post.lo[k] = b.pre.lo[k] + b.vel[k]
                        /\ b.post.hi[k] = b.pre.hi[k] + b.vel[k]
                        /\ b.move.lo[k] <= b.post.lo[k] /\ b.post.hi[k] <= b.move.hi[k]
  BY MovedBody
<1>3. ~AABBIntersect(a.move, b.move) \/ ~IntersectMoving(a.pre, b.pre, v)
  BY DEF Collide
<1> HIDE DEF a, b
<1>4. v \in Vector /\ \A k \in Axis : v[k] = a.vel[k] - b.vel[k]
  BY <1>1, <1>2, VectorSums
<1> HIDE DEF v
<1>5. \A k \in Axis : /\ a.pre.lo[k] \in Int /\ a.pre.hi[k] \in Int /\ a.post.lo[k] \in Int /\ a.post.hi[k] \in Int
                     /\ a.move.lo[k] \in Int /\ a.move.hi[k] \in Int /\ a.vel[k] \in Int
                     /\ b.pre.lo[k] \in Int /\ b.pre.hi[k] \in Int /\ b.post.lo[k] \in Int /\ b.post.hi[k] \in Int
                     /\ b.move.lo[k] \in Int /\ b.move.hi[k] \in Int /\ b.vel[k] \in Int
  <2>1. \A x \in Box, k \in Axis : x.lo[k] \in Int /\ x.hi[k] \in Int
    BY BoxCorners
  <2> QED  BY <1>1, <1>2, <2>1 DEF Vector
<1>6. ASSUME Overlap(a.post, b.post) PROVE FALSE
  <2>1. \A k \in Axis : a.post.lo[k] < b.post.hi[k] /\ b.post.lo[k] < a.post.hi[k]
    BY <1>6 DEF Overlap
  <2>2. AABBIntersect(a.move, b.move)
    <3> SUFFICES ASSUME NEW k \in Axis
                 PROVE  a.move.lo[k] <= b.move.hi[k] /\ b.move.lo[k] <= a.move.hi[k]
      BY DEF AABBIntersect
    <3> QED  BY <1>1, <1>2, <1>5, <2>1
  <2>3. \A k \in Axis : a.pre.lo[k] + v[k] < b.pre.hi[k] /\ b.pre.lo[k] < a.pre.hi[k] + v[k]
    BY <1>1, <1>2, <1>4, <1>5, <2>1
  <2>4. IntersectMoving(a.pre, b.pre, v)
    BY <1>1, <1>2, <1>4, <2>3, NoneIsMissed
  <2> QED  BY <1>3, <2>2, <2>4
<1> QED  BY <1>6 DEF a, b

\* Two bodies that did not touch, and whose velocity to each other a collision turns
\* round, do not overlap after the step.
LEMMA CollidedApart ==
  ASSUME NEW s, NEW i, NEW j, Poised(s.body[i]), Poised(s.body[j]), Collide(s, i, j),
         ~AABBIntersect(s.body[i].pre, s.body[j].pre),
         NEW c, NEW d, Poised(c), Poised(d), c.pre = s.body[i].pre, d.pre = s.body[j].pre,
         \A k \in Axis : c.vel[k] - d.vel[k] = s.body[j].vel[k] - s.body[i].vel[k]
  PROVE  ~Overlap(c.post, d.post)
<1> DEFINE a == s.body[i]
           b == s.body[j]
           v == Minus(a.vel, b.vel)
<1>1. /\ c.pre \in Box /\ c.post \in Box /\ c.vel \in Vector
      /\ \A k \in Axis : c.post.lo[k] = c.pre.lo[k] + c.vel[k] /\ c.post.hi[k] = c.pre.hi[k] + c.vel[k]
  BY MovedBody
<1>2. /\ d.pre \in Box /\ d.post \in Box /\ d.vel \in Vector
      /\ \A k \in Axis : d.post.lo[k] = d.pre.lo[k] + d.vel[k] /\ d.post.hi[k] = d.pre.hi[k] + d.vel[k]
  BY MovedBody
<1>3. IntersectMoving(c.pre, d.pre, v) /\ ~AABBIntersect(c.pre, d.pre)
  BY DEF Collide
<1>4. a.vel \in Vector /\ b.vel \in Vector /\ \A k \in Axis : c.vel[k] - d.vel[k] = b.vel[k] - a.vel[k]
  BY MovedBody
<1> HIDE DEF a, b
<1>5. v \in Vector /\ \A k \in Axis : v[k] = d.vel[k] - c.vel[k]
  <2>1. v \in Vector /\ \A k \in Axis : v[k] = a.vel[k] - b.vel[k]
    BY <1>4, VectorSums
  <2>2. \A k \in Axis : /\ a.vel[k] \in Int /\ b.vel[k] \in Int
                       /\ c.vel[k] \in Int /\ d.vel[k] \in Int
    BY <1>1, <1>2, <1>4 DEF Vector
  <2> QED  BY <1>4, <2>1, <2>2
<1> HIDE DEF v
<1>6. PICK k \in Axis : c.pre.lo[k] - v[k] >= d.pre.hi[k] \/ d.pre.lo[k] >= c.pre.hi[k] - v[k]
  BY <1>1, <1>2, <1>3, <1>5, TheyPart
<1>7. /\ c.pre.lo[k] \in Int /\ c.pre.hi[k] \in Int /\ d.pre.lo[k] \in Int /\ d.pre.hi[k] \in Int
      /\ c.vel[k] \in Int /\ d.vel[k] \in Int
  BY <1>1, <1>2, BoxCorners DEF Vector
<1>8. ~(c.post.lo[k] < d.post.hi[k] /\ d.post.lo[k] < c.post.hi[k])
  BY <1>1, <1>2, <1>5, <1>6, <1>7
<1> QED  BY <1>8 DEF Overlap

\* Whole multiples of the divisor pass through a division.
LEMMA Division ==
  ASSUME NEW x \in Int, NEW r \in Int, NEW m \in Nat \ {0}
  PROVE  /\ x \div m \in Int /\ (x + r * m) \div m = (x \div m) + r
         /\ x % m = 0 => (x \div m) * m = x
<1> DEFINE q == x \div m
           p == (x + r * m) \div m
<1>1. m \in Nat /\ m > 0 /\ x + r * m \in Int
  OBVIOUS
<1>2. q \in Int /\ q * m <= x /\ x < q * m + m
  BY <1>1
<1>3. p \in Int /\ p * m <= x + r * m /\ x + r * m < p * m + m
  BY <1>1
<1>4. x % m = 0 => q * m = x
  BY <1>1
<1> HIDE DEF p, q
<1>5. (p - q - r) * m = p * m - q * m - r * m
  BY <1>1, <1>2, <1>3
<1> DEFINE e == p - q - r
<1>6. e \in Int /\ e * m < m /\ -m < e * m
  BY <1>1, <1>2, <1>3, <1>5
<1> HIDE DEF e
<1>7. e = 0
  <2>1. e >= 1 => e * m >= m
    <3> SUFFICES ASSUME e >= 1 PROVE (e - 1) * m + m = e * m /\ (e - 1) * m >= 0
      BY <1>1, <1>6
    <3>1. e - 1 \in Nat
      BY <1>6
    <3>2. (e - 1) * m \in Nat
      BY <1>1, <3>1
    <3> QED  BY <1>1, <1>6, <3>2
  <2>2. e <= -1 => e * m <= -m
    <3> SUFFICES ASSUME e <= -1 PROVE (-e - 1) * m + m = -(e * m) /\ (-e - 1) * m >= 0
      BY <1>1, <1>6
    <3>1. -e - 1 \in Nat
      BY <1>6
    <3>2. (-e - 1) * m \in Nat
      BY <1>1, <3>1
    <3> QED  BY <1>1, <1>6, <3>2
  <2> QED  BY <1>1, <1>6, <2>1, <2>2
<1>8. p = q + r
  BY <1>2, <1>3, <1>7 DEF e
<1> QED  BY <1>2, <1>4, <1>8 DEF p, q

\* An elastic collision along an axis: m1 and m2 move at v1 and v2 before it, and q
\* is the part of the velocity between them that the first one keeps.
Turns(m1, m2, v1, v2, q, w1, w2) ==
  /\ q * (m1 + m2) = (v1 - v2) * (m1 - m2)
  /\ w1 = v2 + q /\ w2 = v2 + q + (v1 - v2)

\* The momentum and the energy along an axis are the same before and after it.
KeptAlong(m1, m2, v1, v2, w1, w2) ==
  /\ m1 * w1 + m2 * w2 = m1 * v1 + m2 * v2
  /\ m1 * (w1 * w1) + m2 * (w2 * w2) = m1 * (v1 * v1) + m2 * (v2 * v2)

\* They are in an elastic collision.
LEMMA Elastic ==
  ASSUME NEW m1 \in Int, NEW m2 \in Int, NEW v1 \in Int, NEW v2 \in Int, NEW q \in Int,
         NEW w1 \in Int, NEW w2 \in Int, Turns(m1, m2, v1, v2, q, w1, w2)
  PROVE  KeptAlong(m1, m2, v1, v2, w1, w2)
<1> DEFINE r == v1 - v2
<1>1. /\ r \in Int /\ v1 = v2 + r /\ w1 = v2 + q /\ w2 = v2 + q + r
      /\ q * (m1 + m2) = r * (m1 - m2)
  BY DEF Turns
<1> HIDE DEF r
<1>2. m1 * q + m2 * q = m1 * r - m2 * r
  BY <1>1
<1>3. m1 * w1 + m2 * w2 = m1 * v1 + m2 * v2
  BY <1>1, <1>2
<1>4. (m1 * q + m2 * q) * q = (m1 * r - m2 * r) * q /\ (m1 * q + m2 * q) * v2 = (m1 * r - m2 * r) * v2
      /\ (m1 * q + m2 * q) * r = (m1 * r - m2 * r) * r
  BY <1>2
<1>5. m1 * (w1 * w1) + m2 * (w2 * w2) = m1 * (v1 * v1) + m2 * (v2 * v2)
  BY <1>1, <1>4
<1> QED  BY <1>3, <1>5 DEF KeptAlong

\* A collision turns the velocity between two bodies round; when it comes out whole,
\* they have the momentum and the energy they had.
LEMMA Shared ==
  ASSUME NEW a, NEW b, Placed(a), Placed(b)
  PROVE  \E v, w \in Vector :
           /\ Bounce(a, b) = <<WithVelocity(a, v), WithVelocity(b, w)>>
           /\ \A k \in Axis : v[k] - w[k] = b.vel[k] - a.vel[k]
           /\ ComesOutWhole(a, b) =>
                \A k \in Axis : KeptAlong(a.mass, b.mass, a.vel[k], b.vel[k], v[k], w[k])
<1> DEFINE ref == Minus(a.vel, b.vel)
           m == a.mass + b.mass
           share(n) == [k \in Axis |-> b.vel[k] + (ref[k] * n) \div m]
           q(k) == (ref[k] * (a.mass - b.mass)) \div m
           v == share(a.mass - b.mass)
           w == share(2 * a.mass)
<1>1. /\ a.vel \in Vector /\ b.vel \in Vector
      /\ a.mass \in Nat /\ b.mass \in Nat /\ m \in Nat \ {0}
  BY DEF Placed, Bodies
<1>2. ref \in Vector /\ \A k \in Axis : ref[k] = a.vel[k] - b.vel[k]
  BY <1>1, VectorSums
<1>3. \A k \in Axis : ref[k] \in Int /\ a.vel[k] \in Int /\ b.vel[k] \in Int
  BY <1>1, <1>2 DEF Vector
<1>4. ComesOutWhole(a, b) <=> \A k \in Axis : (ref[k] * (a.mass - b.mass)) % m = 0
  BY DEF ComesOutWhole
<1>5. Bounce(a, b) = <<WithVelocity(a, v), WithVelocity(b, w)>>
  BY DEF Bounce
<1> HIDE DEF ref
<1>6. ASSUME NEW k \in Axis
      PROVE  /\ q(k) \in Int /\ v[k] = b.vel[k] + q(k) /\ w[k] = b.vel[k] + q(k) + (a.vel[k] - b.vel[k])
             /\ ComesOutWhole(a, b) => q(k) * m = (a.vel[k] - b.vel[k]) * (a.mass - b.mass)
  <2> DEFINE x == ref[k] * (a.mass - b.mass)
  <2>1. x \in Int /\ ref[k] \in Int /\ ref[k] = a.vel[k] - b.vel[k]
    BY <1>1, <1>2, <1>3
  <2>2. ref[k] * (2 * a.mass) = x + ref[k] * m
    BY <1>1, <2>1
  <2>3. v[k] = b.vel[k] + x \div m /\ w[k] = b.vel[k] + (x + ref[k] * m) \div m /\ q(k) = x \div m
    BY <2>2
  <2>4. ComesOutWhole(a, b) => x % m = 0
    BY <1>4
  <2>5. x = (a.vel[k] - b.vel[k]) * (a.mass - b.mass)
    BY <2>1
  <2> HIDE DEF x, m, q, v, w
  <2>6. /\ x \div m \in Int /\ (x + ref[k] * m) \div m = (x \div m) + ref[k]
        /\ x % m = 0 => (x \div m) * m = x
    BY <1>1, <2>1, Division
  <2>7. w[k] = b.vel[k] + (q(k) + ref[k])
    BY <2>3, <2>6
  <2>8. w[k] = b.vel[k] + q(k) + (a.vel[k] - b.vel[k])
    BY <1>3, <2>1, <2>3, <2>6, <2>7
  <2> QED  BY <2>3, <2>4, <2>5, <2>6, <2>8
<1>7. /\ v = [k \in Axis |-> v[k]] /\ w = [k \in Axis |-> w[k]]
  OBVIOUS
<1>8. m = a.mass + b.mass
  OBVIOUS
<1> HIDE DEF m, q, v, w
<1>9. \A k \in Axis : v[k] \in Int /\ w[k] \in Int
  BY <1>3, <1>6
<1>10. v \in Vector /\ w \in Vector
  BY <1>7, <1>9 DEF Vector
<1>11. \A k \in Axis : v[k] - w[k] = b.vel[k] - a.vel[k]
  BY <1>3, <1>6
<1>12. ASSUME ComesOutWhole(a, b), NEW k \in Axis
       PROVE  KeptAlong(a.mass, b.mass, a.vel[k], b.vel[k], v[k], w[k])
  <2>1. q(k) * (a.mass + b.mass) = (a.vel[k] - b.vel[k]) * (a.mass - b.mass)
    BY <1>6, <1>8, <1>12
  <2>2. /\ a.mass \in Int /\ b.mass \in Int /\ a.vel[k] \in Int /\ b.vel[k] \in Int /\ q(k) \in Int
        /\ v[k] \in Int /\ w[k] \in Int
    BY <1>1, <1>3, <1>6, <1>9
  <2>3. v[k] = b.vel[k] + q(k) /\ w[k] = b.vel[k] + q(k) + (a.vel[k] - b.vel[k])
    BY <1>6
  <2>4. Turns(a.mass, b.mass, a.vel[k], b.vel[k], q(k), v[k], w[k])
    BY <2>1, <2>3 DEF Turns
  <2> QED  BY <2>2, <2>4, Elastic
<1> QED  BY <1>5, <1>10, <1>11, <1>12

-----------------------------------------------------------------------------
(* Sums over the awake bodies.                                             *)

\* The awake bodies, each once.
Listed == awake \in Seq(Body) /\ \A p, q \in DOMAIN awake : awake[p] = awake[q] => p = q

\* The awake bodies are those at the places of the list.
LEMMA ListedBodies ==
  ASSUME Listed
  PROVE  /\ Len(awake) \in Nat /\ DOMAIN awake = 1..Len(awake)
         /\ \A k \in 1..Len(awake) : awake[k] \in Awake
         /\ \A b \in Awake : b \in Body /\ \E k \in 1..Len(awake) : awake[k] = b
<1>1. Len(awake) \in Nat /\ DOMAIN awake = 1..Len(awake)
  BY LenProperties DEF Listed
<1>2. \A k \in 1..Len(awake) : awake[k] \in Body
  BY <1>1, ElementOfSeq DEF Listed
<1>3. Awake = {awake[k] : k \in 1..Len(awake)}
  BY <1>1 DEF Awake, ToSet
<1> QED  BY <1>1, <1>2, <1>3

\* A sum is made up body by body.
SumsUp(f, g) ==
  /\ f[0] = 0 /\ f[Len(awake)] = Total(g)
  /\ \A k \in 0..Len(awake) : f[k] \in Int
  /\ \A k \in 1..Len(awake) : f[k] = f[k - 1] + g[awake[k]]

\* Total is such a sum.
LEMMA Summing ==
  ASSUME Listed, NEW g \in [Awake -> Int]
  PROVE  \E f : SumsUp(f, g)
<1> DEFINE n == Len(awake)
           P == Int
           turn(t, k) == t + g[awake[k]]
           op == [x \in P \X (1..n) |-> turn(x[1], x[2])]
           Follows(f) == f = [k \in 0..n |-> IF k = 0 THEN 0 ELSE turn(f[k - 1], k)]
<1>1. n \in Nat /\ \A k \in 1..n : g[awake[k]] \in Int
  BY ListedBodies
<1>2. \A t \in P, k \in 1..n : turn(t, k) \in P
  BY <1>1
<1> HIDE DEF n
<1>3. op \in [P \X (1..n) -> P] /\ \A t \in P, k \in 1..n : op[<<t, k>>] = turn(t, k)
  BY <1>2
<1>4. 0 \in P
  OBVIOUS
<1> HIDE DEF op, P
<1>5. PICK f : Iterates(f, P, 0, n, op)
  <2> HIDE DEF Follows
  <2> QED  BY <1>1, <1>3, <1>4, Iteration
<1> HIDE DEF turn
<1>6. ASSUME NEW k \in 0..n PROVE f[k] = IF k = 0 THEN 0 ELSE turn(f[k - 1], k)
  <2>1. CASE k = 0
    BY <1>5, <2>1 DEF Iterates
  <2>2. CASE k # 0
    <3>1. k \in 1..n /\ k - 1 \in 0..n
      BY <1>1, <2>2
    <3>2. f[k] = op[<<f[k - 1], k>>] /\ f[k - 1] \in P
      BY <1>5, <2>2, <3>1 DEF Iterates
    <3> QED  BY <1>3, <2>2, <3>1, <3>2
  <2> QED  BY <2>1, <2>2
<1>7. Follows(f)
  <2>1. f = [k \in 0..n |-> f[k]]
    BY <1>5 DEF Iterates
  <2> QED  BY <1>6, <2>1
<1> DEFINE m == CHOOSE f_1 : Follows(f_1)
<1>8. Total(g) = m[n]
  BY DEF Total, n, turn
<1>9. Follows(m)
  <2> HIDE DEF Follows
  <2> QED  BY ONLY <1>7
<1> HIDE DEF m
<1>10. \A k \in 0..n : m[k] = IF k = 0 THEN 0 ELSE turn(m[k - 1], k)
  BY <1>9, Zenon
<1> HIDE DEF Follows
<1>11. m[0] = 0 /\ \A k \in 1..n : m[k] = turn(m[k - 1], k)
  <2>1. 0 \in 0..n /\ \A k \in 1..n : k \in 0..n /\ k # 0
    BY <1>1
  <2> QED  BY <1>10, <2>1
<1> DEFINE S == {k \in 0..n : m[k] \in Int}
<1>12. 0 \in S
  BY <1>1, <1>11
<1>13. ASSUME NEW k \in 1..n, k - 1 \in S PROVE k \in S
  <2>1. m[k - 1] \in Int /\ m[k] = turn(m[k - 1], k)
    BY <1>11, <1>13
  <2> QED  BY <1>1, <2>1 DEF turn
<1>14. 0..n \subseteq S
  <2> HIDE DEF S
  <2> QED  BY <1>1, <1>12, <1>13, IntervalInduction
<1> QED  BY <1>8, <1>11, <1>14 DEF SumsUp, n, turn

\* Two sums are equal when they differ in the terms of two bodies, and these come
\* to the same.
LEMMA ExchangedSums ==
  ASSUME Listed, NEW g \in [Awake -> Int], NEW h \in [Awake -> Int],
         NEW i \in Awake, NEW j \in Awake, i # j, h[i] + h[j] = g[i] + g[j],
         \A b \in Awake \ {i, j} : h[b] = g[b]
  PROVE  Total(h) = Total(g)
<1> DEFINE n == Len(awake)
<1>1. n \in Nat /\ \A k \in 1..n : awake[k] \in Awake
  BY ListedBodies
<1>2. PICK p \in 1..n : awake[p] = i
  BY ListedBodies
<1>3. PICK q \in 1..n : awake[q] = j
  BY ListedBodies
<1>4. \A k \in 1..n : (awake[k] = i <=> k = p) /\ (awake[k] = j <=> k = q)
  BY <1>2, <1>3, ListedBodies DEF Listed
<1>5. PICK f : SumsUp(f, g)
  BY Summing
<1>6. PICK e : SumsUp(e, h)
  BY Summing
<1>7. g[i] \in Int /\ g[j] \in Int /\ h[i] \in Int /\ h[j] \in Int /\ p # q
  BY <1>2, <1>3
<1> DEFINE Over(k) == (IF p <= k THEN h[i] - g[i] ELSE 0) + (IF q <= k THEN h[j] - g[j] ELSE 0)
           S == {k \in 0..n : e[k] = f[k] + Over(k)}
<1>8. f[0] = 0 /\ e[0] = 0 /\ \A k \in 0..n : f[k] \in Int /\ e[k] \in Int
  BY <1>5, <1>6 DEF SumsUp
<1>9. \A k \in 1..n : f[k] = f[k - 1] + g[awake[k]] /\ e[k] = e[k - 1] + h[awake[k]]
  BY <1>5, <1>6 DEF SumsUp
<1> HIDE DEF n
<1>10. 0 \in S
  <2>1. Over(0) = 0
    BY <1>2, <1>3
  <2> HIDE DEF Over
  <2> QED  BY <1>1, <1>8, <2>1
<1>11. ASSUME NEW k \in 1..n, k - 1 \in S PROVE k \in S
  <2>1. e[k - 1] = f[k - 1] + Over(k - 1)
    BY <1>11
  <2>2. k - 1 \in 0..n /\ k \in 0..n /\ k \in Int
    BY <1>1
  <2>3. g[awake[k]] \in Int /\ h[awake[k]] \in Int
    BY <1>1
  <2>4. h[awake[k]] = g[awake[k]] + (IF k = p THEN h[i] - g[i] ELSE 0) + (IF k = q THEN h[j] - g[j] ELSE 0)
    <3>1. CASE k = p
      BY <1>2, <1>7, <3>1
    <3>2. CASE k = q
      BY <1>3, <1>7, <3>2
    <3>3. CASE k # p /\ k # q
      <4>1. awake[k] \in Awake \ {i, j}
        BY <1>1, <1>4, <3>3
      <4> QED  BY <2>3, <3>3, <4>1
    <3> QED  BY <3>1, <3>2, <3>3
  <2>5. Over(k) = Over(k - 1) + (IF k = p THEN h[i] - g[i] ELSE 0) + (IF k = q THEN h[j] - g[j] ELSE 0)
    BY <1>2, <1>3, <1>7, <2>2
  <2>6. Over(k) \in Int /\ Over(k - 1) \in Int
    BY <1>7
  <2>7. e[k] = f[k] + Over(k)
    <3> HIDE DEF Over
    <3>1. f[k] \in Int /\ f[k - 1] \in Int
      BY <1>8, <2>2
    <3> QED  BY <1>7, <1>9, <2>1, <2>3, <2>4, <2>5, <2>6, <3>1
  <2> QED  BY <2>2, <2>7
<1>12. n \in S
  <2>1. 0..n \subseteq S
    <3> HIDE DEF S
    <3> QED  BY <1>1, <1>10, <1>11, IntervalInduction
  <2> QED  BY <1>1, <2>1
<1>13. Over(n) = 0
  BY <1>1, <1>2, <1>3, <1>7
<1>14. e[n] = f[n]
  <2> HIDE DEF Over
  <2> QED  BY <1>1, <1>8, <1>12, <1>13
<1> QED  BY <1>5, <1>6, <1>14 DEF SumsUp, n

-----------------------------------------------------------------------------
(* What the checks of a step do.                                           *)

\* The bodies are listed once each, and the hulls are hulls.
Setting ==
  /\ Listed /\ gravity \in Vector
  /\ hulls \in Seq(Hulls) /\ \A k \in DOMAIN hulls : hulls[k] \notin Body

Sims ==
  {s \in [body : [Body -> Bodies], met : [Awake -> SUBSET (Body \cup ToSet(hulls))],
         whole : BOOLEAN] :
     \A b \in Awake : Poised(s.body[b]) /\ s.body[b].mass = body[b].mass}

Velocities(s) == [b \in Awake |-> s.body[b].vel]

\* Whether two bodies met nobody else, and whether they end apart.
Alone(s, i, j) == s.met[i] \subseteq {j} /\ s.met[j] \subseteq {i}
Parted(s, i, j) ==
  ~AABBIntersect(s.body[i].pre, s.body[j].pre) => ~Overlap(s.body[i].post, s.body[j].post)

\* No hull was met, and the collisions came out whole.
InTheOpen(s) == s.whole /\ \A b \in Awake : s.met[b] \subseteq Body

\* What no check undoes: where the bodies come from, whom they met, that two that
\* meet nobody else end apart, and, in the open, momentum and energy.
Keeps(s, t) ==
  /\ \A b \in Awake : /\ t.body[b].pos = s.body[b].pos /\ t.body[b].pre = s.body[b].pre
                      /\ s.met[b] \subseteq t.met[b]
  /\ t.whole => s.whole
  /\ \A i, j \in Awake : i # j /\ Alone(t, i, j) /\ Parted(s, i, j) => Parted(t, i, j)
  /\ InTheOpen(t) => /\ Momentum(Velocities(t)) = Momentum(Velocities(s))
                     /\ Energy(Velocities(t)) = Energy(Velocities(s))

\* Nothing is undone when nothing happens,
LEMMA KeepsAll ==
  ASSUME NEW s PROVE Keeps(s, s)
BY DEF Keeps

\* nor by two checks that undo nothing.
LEMMA KeepsOn ==
  ASSUME NEW s, NEW t, NEW u, Keeps(s, t), Keeps(t, u) PROVE Keeps(s, u)
<1>1. ASSUME NEW b \in Awake
      PROVE  /\ u.body[b].pos = s.body[b].pos /\ u.body[b].pre = s.body[b].pre
             /\ s.met[b] \subseteq u.met[b] /\ t.met[b] \subseteq u.met[b]
  BY DEF Keeps
<1>2. ASSUME NEW i \in Awake, NEW j \in Awake, i # j, Alone(u, i, j), Parted(s, i, j) PROVE Parted(u, i, j)
  <2>1. Alone(t, i, j)
    BY <1>1, <1>2 DEF Alone
  <2>2. Parted(t, i, j)
    BY <1>2, <2>1 DEF Keeps
  <2> QED  BY <1>2, <2>2 DEF Keeps
<1>3. ASSUME InTheOpen(u)
      PROVE  /\ Momentum(Velocities(u)) = Momentum(Velocities(s))
             /\ Energy(Velocities(u)) = Energy(Velocities(s))
  <2>1. InTheOpen(t)
    BY <1>1, <1>3 DEF InTheOpen, Keeps
  <2> QED  BY <1>3, <2>1 DEF Keeps
<1>4. u.whole => s.whole
  BY DEF Keeps
<1> QED  BY <1>1, <1>2, <1>3, <1>4 DEF Keeps

\* What is known of an awake body during a step.
LEMMA SimParts ==
  ASSUME Setting, NEW s \in Sims, NEW b \in Awake
  PROVE  /\ b \in Body /\ s.body[b] \in Bodies /\ Poised(s.body[b]) /\ Placed(s.body[b])
         /\ s.body[b].vel \in Vector /\ s.body[b].mass = body[b].mass /\ body[b].mass \in Nat
<1>1. b \in Body
  BY ListedBodies DEF Setting
<1>2. s.body[b] \in Bodies
  BY <1>1 DEF Sims
<1> QED  BY <1>1, <1>2 DEF Sims, Poised, Bodies

\* The terms of momentum and energy are numbers.
LEMMA Terms ==
  ASSUME Setting, NEW s \in Sims
  PROVE  LET v == Velocities(s) IN
         /\ \A k \in Axis : [b \in Awake |-> body[b].mass * v[b][k]] \in [Awake -> Int]
         /\ [b \in Awake |-> body[b].mass * Dot(v[b], v[b])] \in [Awake -> Int]
<1> DEFINE v == Velocities(s)
<1>1. ASSUME NEW b \in Awake PROVE v[b] \in Vector /\ body[b].mass \in Int
  BY SimParts DEF Velocities
<1> HIDE DEF v
<1>2. ASSUME NEW b \in Awake, NEW k \in Axis PROVE body[b].mass * v[b][k] \in Int
  <2>1. v[b][k] \in Int /\ body[b].mass \in Int
    BY <1>1 DEF Vector
  <2> QED  BY ONLY <2>1
<1>3. ASSUME NEW b \in Awake PROVE body[b].mass * Dot(v[b], v[b]) \in Int
  <2>1. Dot(v[b], v[b]) \in Int /\ body[b].mass \in Int
    BY <1>1, VectorSums
  <2> QED  BY ONLY <2>1
<1> QED  BY <1>2, <1>3 DEF v

\* The energy of two bodies is the same along each axis, and altogether.
SameEnergy(m1, m2, v1, v2, w1, w2) ==
  \A k \in Axis : m1 * (w1[k] * w1[k]) + m2 * (w2[k] * w2[k]) =
                  m1 * (v1[k] * v1[k]) + m2 * (v2[k] * v2[k])
SameTotal(m1, m2, v1, v2, w1, w2) ==
  m1 * Dot(w1, w1) + m2 * Dot(w2, w2) = m1 * Dot(v1, v1) + m2 * Dot(v2, v2)

\* What two bodies keep along each axis they keep altogether.
LEMMA SumOfAxes ==
  ASSUME NEW m1 \in Int, NEW m2 \in Int,
         NEW v1 \in Vector, NEW v2 \in Vector, NEW w1 \in Vector, NEW w2 \in Vector,
         SameEnergy(m1, m2, v1, v2, w1, w2)
  PROVE  SameTotal(m1, m2, v1, v2, w1, w2)
<1>1. 1 \in Axis /\ 2 \in Axis /\ 3 \in Axis
  BY DEF Axis
<1>2. ASSUME NEW v \in Vector, NEW m \in Int
      PROVE  m * Dot(v, v) = m * (v[1] * v[1]) + m * (v[2] * v[2]) + m * (v[3] * v[3])
  <2> DEFINE x == v[1] * v[1]
             y == v[2] * v[2]
             z == v[3] * v[3]
  <2>1. v[1] \in Int /\ v[2] \in Int /\ v[3] \in Int
    BY <1>1 DEF Vector
  <2>2. x \in Int /\ y \in Int /\ z \in Int
    BY <2>1
  <2>3. Dot(v, v) = x + y + z
    BY DEF Dot
  <2> HIDE DEF x, y, z
  <2>4. m * (x + y + z) = m * x + m * y + m * z
    BY <2>2
  <2> QED  BY <2>3, <2>4 DEF x, y, z
<1>3. ASSUME NEW v \in Vector, NEW m \in Int, NEW k \in Axis PROVE m * (v[k] * v[k]) \in Int
  <2>1. v[k] \in Int
    BY DEF Vector
  <2>2. v[k] * v[k] \in Int
    BY <2>1
  <2> QED  BY <2>2
<1> DEFINE P(m, v, k) == m * (v[k] * v[k])
<1>4. /\ m1 * Dot(w1, w1) = P(m1, w1, 1) + P(m1, w1, 2) + P(m1, w1, 3)
      /\ m2 * Dot(w2, w2) = P(m2, w2, 1) + P(m2, w2, 2) + P(m2, w2, 3)
      /\ m1 * Dot(v1, v1) = P(m1, v1, 1) + P(m1, v1, 2) + P(m1, v1, 3)
      /\ m2 * Dot(v2, v2) = P(m2, v2, 1) + P(m2, v2, 2) + P(m2, v2, 3)
  BY <1>2
<1>5. \A k \in Axis : /\ P(m1, w1, k) \in Int /\ P(m2, w2, k) \in Int
                      /\ P(m1, v1, k) \in Int /\ P(m2, v2, k) \in Int
                      /\ P(m1, w1, k) + P(m2, w2, k) = P(m1, v1, k) + P(m2, v2, k)
  BY <1>3 DEF SameEnergy
<1> DEFINE w1w1 == m1 * Dot(w1, w1)
           w2w2 == m2 * Dot(w2, w2)
           v1v1 == m1 * Dot(v1, v1)
           v2v2 == m2 * Dot(v2, v2)
<1> HIDE DEF P, w1w1, w2w2, v1v1, v2v2
<1>6. /\ w1w1 = P(m1, w1, 1) + P(m1, w1, 2) + P(m1, w1, 3)
      /\ w2w2 = P(m2, w2, 1) + P(m2, w2, 2) + P(m2, w2, 3)
      /\ v1v1 = P(m1, v1, 1) + P(m1, v1, 2) + P(m1, v1, 3)
      /\ v2v2 = P(m2, v2, 1) + P(m2, v2, 2) + P(m2, v2, 3)
  BY <1>4 DEF w1w1, w2w2, v1v1, v2v2
<1>7. w1w1 + w2w2 = v1v1 + v2v2
  BY <1>1, <1>5, <1>6
<1> QED  BY <1>7 DEF SameTotal, w1w1, w2w2, v1v1, v2v2

\* A collision that comes out whole loses nothing.
LEMMA NothingLost ==
  ASSUME Setting, NEW s \in Sims, NEW t \in Sims, NEW i \in Awake, NEW j \in Awake, i # j,
         \A k \in Axis : KeptAlong(s.body[i].mass, s.body[j].mass, s.body[i].vel[k], s.body[j].vel[k],
                               t.body[i].vel[k], t.body[j].vel[k]),
         \A b \in Awake \ {i, j} : t.body[b].vel = s.body[b].vel
  PROVE  /\ Momentum(Velocities(t)) = Momentum(Velocities(s))
         /\ Energy(Velocities(t)) = Energy(Velocities(s))
<1> DEFINE v == Velocities(s)
           w == Velocities(t)
           mi == body[i].mass
           mj == body[j].mass
<1>1. /\ \A b \in Awake \ {i, j} : w[b] = v[b]
      /\ v[i] = s.body[i].vel /\ v[j] = s.body[j].vel /\ w[i] = t.body[i].vel /\ w[j] = t.body[j].vel
  BY DEF Velocities
<1>2. /\ mi \in Int /\ mj \in Int /\ s.body[i].mass = mi /\ s.body[j].mass = mj
      /\ v[i] \in Vector /\ v[j] \in Vector /\ w[i] \in Vector /\ w[j] \in Vector
  BY <1>1, SimParts
<1>3. Listed
  BY DEF Setting
<1>4. ASSUME NEW k \in Axis
      PROVE  Total([b \in Awake |-> body[b].mass * w[b][k]]) = Total([b \in Awake |-> body[b].mass * v[b][k]])
  <2> DEFINE g == [b \in Awake |-> body[b].mass * v[b][k]]
             h == [b \in Awake |-> body[b].mass * w[b][k]]
  <2>1. g \in [Awake -> Int] /\ h \in [Awake -> Int]
    BY Terms
  <2>2. h[i] + h[j] = g[i] + g[j] /\ \A b \in Awake \ {i, j} : h[b] = g[b]
    <3>1. mi * w[i][k] + mj * w[j][k] = mi * v[i][k] + mj * v[j][k]
      BY <1>1, <1>2 DEF KeptAlong
    <3> HIDE DEF v, w
    <3> QED  BY <1>1, <3>1
  <2> HIDE DEF g, h
  <2>3. Total(h) = Total(g)
    BY <1>3, <2>1, <2>2, ExchangedSums
  <2> QED  BY <2>3 DEF g, h
<1>5. Total([b \in Awake |-> body[b].mass * Dot(w[b], w[b])]) = Total([b \in Awake |-> body[b].mass * Dot(v[b], v[b])])
  <2> DEFINE g == [b \in Awake |-> body[b].mass * Dot(v[b], v[b])]
             h == [b \in Awake |-> body[b].mass * Dot(w[b], w[b])]
  <2>1. g \in [Awake -> Int] /\ h \in [Awake -> Int]
    BY Terms
  <2>2. h[i] + h[j] = g[i] + g[j] /\ \A b \in Awake \ {i, j} : h[b] = g[b]
    <3>1. SameEnergy(mi, mj, v[i], v[j], w[i], w[j])
      BY <1>1, <1>2 DEF KeptAlong, SameEnergy
    <3> HIDE DEF v, w, mi, mj
    <3>2. SameTotal(mi, mj, v[i], v[j], w[i], w[j])
      BY <1>2, <3>1, SumOfAxes
    <3> QED  BY <1>1, <3>2 DEF SameTotal, mi, mj
  <2> HIDE DEF g, h
  <2>3. Total(h) = Total(g)
    BY <1>3, <2>1, <2>2, ExchangedSums
  <2> QED  BY <2>3 DEF g, h
<1> HIDE DEF v, w
<1>6. Momentum(w) = Momentum(v)
  BY <1>4 DEF Momentum
<1>7. Energy(w) = Energy(v)
  BY <1>5 DEF Energy
<1> QED  BY <1>6, <1>7 DEF v, w

\* What a collision makes of the two bodies.
LEMMA BodiesCollide ==
  ASSUME Setting, NEW s \in Sims, NEW i \in Awake, NEW j \in Awake, Collide(s, i, j),
         NEW t, t = BodyClsnCheck(s, i, j)
  PROVE  /\ i # j /\ t \in Sims /\ (t.whole => s.whole)
         /\ \A k \in Axis :
              t.body[i].vel[k] - t.body[j].vel[k] = s.body[j].vel[k] - s.body[i].vel[k]
         /\ t.met[i] = s.met[i] \cup {j} /\ t.met[j] = s.met[j] \cup {i}
         /\ \A b \in Body \ {i, j} : t.body[b] = s.body[b]
         /\ \A b \in Awake \ {i, j} : t.met[b] = s.met[b]
         /\ \A b \in Awake : t.body[b].pos = s.body[b].pos /\ t.body[b].pre = s.body[b].pre
         /\ t.whole => /\ Momentum(Velocities(t)) = Momentum(Velocities(s))
                       /\ Energy(Velocities(t)) = Energy(Velocities(s))
<1>1. /\ i \in Body /\ Placed(s.body[i]) /\ s.body[i].vel \in Vector
      /\ j \in Body /\ Placed(s.body[j]) /\ s.body[j].vel \in Vector
  BY SimParts
<1>2. i # j
  BY DEF Collide
<1>3. PICK v \in Vector, w \in Vector :
        LET a == s.body[i]
            b == s.body[j]
        IN  /\ Bounce(a, b) = <<WithVelocity(a, v), WithVelocity(b, w)>>
            /\ \A k \in Axis : v[k] - w[k] = b.vel[k] - a.vel[k]
            /\ ComesOutWhole(a, b) =>
                 \A k \in Axis : KeptAlong(a.mass, b.mass, a.vel[k], b.vel[k], v[k], w[k])
  BY <1>1, Shared
<1> DEFINE c == WithVelocity(s.body[i], v)
           d == WithVelocity(s.body[j], w)
           B == [s.body EXCEPT ![i] = c, ![j] = d]
           M == [s.met EXCEPT ![i] = @ \cup {j}, ![j] = @ \cup {i}]
           W == s.whole /\ ComesOutWhole(s.body[i], s.body[j])
<1>4. Bounce(s.body[i], s.body[j]) = <<c, d>>
  BY <1>3
<1>5. t = [body |-> B, met |-> M, whole |-> W]
  <2> DEFINE bounced == Bounce(s.body[i], s.body[j])
  <2>1. bounced[1] = c /\ bounced[2] = d
    BY <1>4
  <2> HIDE DEF bounced, W
  <2>2. BodyClsnCheck(s, i, j) =
          [body |-> [s.body EXCEPT ![i] = bounced[1], ![j] = bounced[2]], met |-> M, whole |-> W]
    BY DEF BodyClsnCheck, bounced, W
  <2> QED  BY <2>1, <2>2
<1>6. /\ Poised(c) /\ c.pos = s.body[i].pos /\ c.vel = v /\ c.pre = s.body[i].pre /\ c.mass = s.body[i].mass
      /\ Poised(d) /\ d.pos = s.body[j].pos /\ d.vel = w /\ d.pre = s.body[j].pre /\ d.mass = s.body[j].mass
  BY <1>1, NewVelocity
<1>7. c \in Bodies /\ d \in Bodies
  BY <1>6 DEF Poised, Placed
<1> HIDE DEF c, d
<1>8. s.body \in [Body -> Bodies] /\ s.met \in [Awake -> SUBSET (Body \cup ToSet(hulls))]
      /\ \A b \in Awake : Poised(s.body[b]) /\ s.body[b].mass = body[b].mass
  BY DEF Sims
<1>9. /\ B \in [Body -> Bodies] /\ B[i] = c /\ B[j] = d
      /\ \A b \in Body \ {i, j} : B[b] = s.body[b]
  BY <1>1, <1>2, <1>7, <1>8
<1>10. /\ M \in [Awake -> SUBSET (Body \cup ToSet(hulls))]
       /\ M[i] = s.met[i] \cup {j} /\ M[j] = s.met[j] \cup {i}
       /\ \A b \in Awake \ {i, j} : M[b] = s.met[b]
  BY <1>1, <1>2, <1>8
<1>a. W \in BOOLEAN /\ (W => s.whole /\ ComesOutWhole(s.body[i], s.body[j]))
  OBVIOUS
<1> HIDE DEF B, M, W
<1>11. /\ t.body = B /\ t.met = M /\ t.whole = W
       /\ t \in [body : [Body -> Bodies], met : [Awake -> SUBSET (Body \cup ToSet(hulls))], whole : BOOLEAN]
  BY <1>5, <1>9, <1>10, <1>a
<1>12. \A b \in Awake : b \in Body
  BY SimParts
<1>13. \A b \in Awake : Poised(t.body[b]) /\ t.body[b].mass = body[b].mass
  BY <1>6, <1>8, <1>9, <1>11, <1>12
<1>14. t \in Sims
  BY <1>11, <1>13 DEF Sims
<1>15. \A b \in Awake : t.body[b].pos = s.body[b].pos /\ t.body[b].pre = s.body[b].pre
  BY <1>6, <1>9, <1>11, <1>12
<1>16. t.body[i].vel = v /\ t.body[j].vel = w /\ \A b \in Awake \ {i, j} : t.body[b].vel = s.body[b].vel
  BY <1>6, <1>9, <1>11, <1>12
<1>17. ASSUME t.whole
       PROVE  /\ Momentum(Velocities(t)) = Momentum(Velocities(s))
              /\ Energy(Velocities(t)) = Energy(Velocities(s))
  <2>1. ComesOutWhole(s.body[i], s.body[j])
    BY <1>11, <1>17, <1>a
  <2> QED  BY <1>2, <1>3, <1>14, <1>16, <2>1, NothingLost
<1>18. \A k \in Axis : t.body[i].vel[k] - t.body[j].vel[k] = s.body[j].vel[k] - s.body[i].vel[k]
  BY <1>3, <1>16
<1>19. t.whole => s.whole
  BY <1>11, <1>a
<1> QED  BY <1>2, <1>9, <1>10, <1>11, <1>14, <1>15, <1>17, <1>18, <1>19

\* A check of two bodies: it leaves them apart, in either order, and keeps what is
\* kept of the others.
LEMMA BodyChecked ==
  ASSUME Setting, NEW s \in Sims, NEW i \in Awake, NEW j \in Awake,
         NEW t, t = BodyClsnCheck(s, i, j)
  PROVE  /\ t \in Sims /\ Keeps(s, t)
         /\ i # j => Parted(t, i, j) /\ Parted(t, j, i)
<1>1. CASE ~Collide(s, i, j)
  <2>1. t = s
    BY <1>1 DEF BodyClsnCheck
  <2>2. i # j => ~Overlap(s.body[i].post, s.body[j].post)
    BY <1>1, SimParts, UncollidedApart
  <2> QED  BY <2>1, <2>2, KeepsAll, OverlapBothWays DEF Parted
<1>2. CASE Collide(s, i, j)
  <2>1. /\ i # j /\ t \in Sims /\ (t.whole => s.whole)
        /\ \A k \in Axis :
             t.body[i].vel[k] - t.body[j].vel[k] = s.body[j].vel[k] - s.body[i].vel[k]
        /\ t.met[i] = s.met[i] \cup {j} /\ t.met[j] = s.met[j] \cup {i}
        /\ \A b \in Body \ {i, j} : t.body[b] = s.body[b]
        /\ \A b \in Awake \ {i, j} : t.met[b] = s.met[b]
        /\ \A b \in Awake : t.body[b].pos = s.body[b].pos /\ t.body[b].pre = s.body[b].pre
    BY <1>2, BodiesCollide
  <2>2. \A b \in Awake : b \in Body /\ Poised(t.body[b]) /\ Poised(s.body[b])
    BY <2>1, SimParts
  <2>3. ~AABBIntersect(s.body[i].pre, s.body[j].pre) => ~Overlap(t.body[i].post, t.body[j].post)
    BY <1>2, <2>1, <2>2, CollidedApart
  <2>4. Parted(t, i, j) /\ Parted(t, j, i)
    BY <2>1, <2>3, OverlapBothWays DEF Parted
  <2>5. ASSUME NEW a \in Awake, NEW b \in Awake, a # b, Alone(t, a, b), Parted(s, a, b) PROVE Parted(t, a, b)
    <3>1. a \in {i, j} <=> b \in {i, j}
      BY <2>1, <2>5 DEF Alone
    <3>2. CASE a \in {i, j}
      BY <2>4, <2>5, <3>1, <3>2
    <3>3. CASE a \notin {i, j}
      BY <2>1, <2>2, <2>5, <3>1, <3>3 DEF Parted
    <3> QED  BY <3>2, <3>3
  <2>6. InTheOpen(t) => /\ Momentum(Velocities(t)) = Momentum(Velocities(s))
                        /\ Energy(Velocities(t)) = Energy(Velocities(s))
    BY <1>2, BodiesCollide DEF InTheOpen
  <2>7. \A b \in Awake : s.met[b] \subseteq t.met[b]
    BY <2>1
  <2> QED  BY <2>1, <2>4, <2>5, <2>6, <2>7 DEF Keeps
<1> QED  BY <1>1, <1>2

\* The last of some places is one of them.
LEMMA LastPlace ==
  ASSUME NEW n \in Nat, NEW T \in SUBSET (1..n), T # {}
  PROVE  Max(T) \in T
<1> DEFINE D == {n - k : k \in T}
<1>1. D \in SUBSET Nat /\ D # {}
  <2>1. \A k \in T : n - k \in Nat
    OBVIOUS
  <2>2. PICK k \in T : TRUE
    OBVIOUS
  <2>3. n - k \in D
    OBVIOUS
  <2> QED  BY <2>1, <2>3
<1>2. PICK d \in D : \A e \in D : d <= e
  <2> HIDE DEF D
  <2> QED  BY <1>1, LeastElement
<1>3. PICK k \in T : d = n - k
  <2>1. d \in D
    BY <1>2
  <2> QED  BY <2>1
<1>4. ASSUME NEW j \in T PROVE k >= j
  <2>1. n - j \in D
    OBVIOUS
  <2>2. n - k <= n - j
    <3> HIDE DEF D
    <3> QED  BY <1>2, <1>3, <2>1
  <2> QED  BY <2>2
<1> QED  BY <1>4 DEF Max

\* What is struck is a plane.
LEMMA StruckPlane ==
  ASSUME NEW planes, NEW n \in Nat, DOMAIN planes = 1..n,
         \A k \in 1..n : planes[k].n \in Vector,
         NEW box, NEW vel, LastStruck(planes, box, vel) # NoPlane
  PROVE  LastStruck(planes, box, vel).n \in Vector
<1> DEFINE T == {k \in DOMAIN planes : PlaneVelType(box, planes[k], vel) = "HITPOS"}
<1>1. T \in SUBSET (1..n)
  OBVIOUS
<1>2. T # {} /\ LastStruck(planes, box, vel) = planes[Max(T)]
  BY DEF LastStruck
<1> HIDE DEF T
<1>3. Max(T) \in 1..n
  BY <1>1, <1>2, LastPlace
<1> QED  BY <1>2, <1>3

\* What HullClsnCheck finds in a hull is a plane.
LEMMA HullPlane ==
  ASSUME NEW box, NEW hull \in Hulls, NEW vel, AABBIntersectHull(box, hull, vel) # NoPlane
  PROVE  AABBIntersectHull(box, hull, vel).n \in Vector
<1> DEFINE face   == LastStruck(hull.faces, box, vel)
           bounds == AABBToPlanes(hull.box)
<1>1. CASE AABBIntersectHull(box, hull, vel) = face
  <2>1. hull.faces \in Seq(Plane)
    BY DEF Hulls
  <2>2. Len(hull.faces) \in Nat /\ DOMAIN hull.faces = 1..Len(hull.faces)
        /\ \A k \in 1..Len(hull.faces) : hull.faces[k] \in Plane
    BY <2>1, LenProperties, ElementOfSeq
  <2>3. \A k \in 1..Len(hull.faces) : hull.faces[k].n \in Vector
    BY <2>2 DEF Plane
  <2>4. face.n \in Vector
    BY <1>1, <2>2, <2>3, StruckPlane
  <2> QED  BY <1>1, <2>4
<1>2. CASE AABBIntersectHull(box, hull, vel) = LastStruck(bounds, box, vel)
  <2>1. DOMAIN bounds = 1..6
    BY DEF AABBToPlanes
  <2>2. \A k \in 1..6 : bounds[k].n \in Vector
    <3>1. /\ <<0, 0, -1>> \in Vector /\ <<1, 0, 0>> \in Vector /\ <<0, 0, 1>> \in Vector
          /\ <<-1, 0, 0>> \in Vector /\ <<0, 1, 0>> \in Vector /\ <<0, -1, 0>> \in Vector
      BY DEF Vector, Axis
    <3>2. /\ bounds[1].n = <<0, 0, -1>> /\ bounds[2].n = <<1, 0, 0>> /\ bounds[3].n = <<0, 0, 1>>
          /\ bounds[4].n = <<-1, 0, 0>> /\ bounds[5].n = <<0, 1, 0>> /\ bounds[6].n = <<0, -1, 0>>
      BY DEF AABBToPlanes
    <3>3. \A k \in 1..6 : k = 1 \/ k = 2 \/ k = 3 \/ k = 4 \/ k = 5 \/ k = 6
      OBVIOUS
    <3> HIDE DEF bounds
    <3> QED  BY <3>1, <3>2, <3>3, Zenon
  <2> HIDE DEF bounds
  <2>3. LastStruck(bounds, box, vel).n \in Vector
    BY <1>2, <2>1, <2>2, StruckPlane
  <2> QED  BY <1>2, <2>3
<1> QED  BY <1>1, <1>2 DEF AABBIntersectHull

\* A check of a hull gives the body another velocity, and marks it.
LEMMA HullChecked ==
  ASSUME Setting, NEW s \in Sims, NEW i \in Awake, NEW k \in 1..Len(hulls),
         NEW t, t = HullClsnCheck(s, i, k)
  PROVE  t \in Sims /\ Keeps(s, t)
<1> DEFINE b == s.body[i]
           struck == AABBIntersectHull(b.pre, hulls[k], b.vel)
           along == Scale(struck.n, Dot(struck.n, b.vel))
           v == Plus(Minus(b.vel, along), Scale(struck.n, Overbounce))
           c == WithVelocity(b, v)
           B == [s.body EXCEPT ![i] = c]
           M == [s.met EXCEPT ![i] = @ \cup {hulls[k]}]
<1>1. i \in Body /\ Placed(b) /\ b.vel \in Vector
  BY SimParts
<1>2. hulls[k] \in Hulls /\ hulls[k] \notin Body /\ hulls[k] \in ToSet(hulls)
  <2>1. hulls \in Seq(Hulls) /\ DOMAIN hulls = 1..Len(hulls)
    BY LenProperties DEF Setting
  <2> QED  BY <2>1, ElementOfSeq DEF Setting, ToSet
<1>3. CASE t = s
  BY <1>3, KeepsAll
<1>4. CASE t # s
  <2>1. struck # NoPlane /\ t = [body |-> B, met |-> M, whole |-> s.whole]
    BY <1>4 DEF HullClsnCheck
  <2>2. struck.n \in Vector
    BY <1>2, <2>1, HullPlane
  <2>3. v \in Vector
    <3> DEFINE n == struck.n
    <3>1. n \in Vector /\ along = Scale(n, Dot(n, b.vel)) /\ v = Plus(Minus(b.vel, along), Scale(n, Overbounce))
      BY <2>2
    <3> HIDE DEF n, struck, along, v
    <3>2. Dot(n, b.vel) \in Int /\ Overbounce \in Int
      BY <1>1, <3>1, VectorSums, PhysicsAssumption
    <3>3. along \in Vector /\ Scale(n, Overbounce) \in Vector
      BY <3>1, <3>2, ScaledVector
    <3>4. Minus(b.vel, along) \in Vector
      BY <1>1, <3>3, VectorSums
    <3> QED  BY <3>1, <3>3, <3>4, VectorSums
  <2> HIDE DEF v, along, struck
  <2>4. Poised(c) /\ c.pos = b.pos /\ c.pre = b.pre /\ c.mass = b.mass
    BY <1>1, <2>3, NewVelocity
  <2>5. c \in Bodies
    BY <2>4 DEF Poised, Placed
  <2> HIDE DEF c
  <2>6. s.body \in [Body -> Bodies] /\ s.met \in [Awake -> SUBSET (Body \cup ToSet(hulls))]
        /\ \A a \in Awake : a \in Body /\ Poised(s.body[a]) /\ s.body[a].mass = body[a].mass
        /\ s.whole \in BOOLEAN
    BY SimParts DEF Sims
  <2>7. B \in [Body -> Bodies] /\ B[i] = c /\ \A a \in Body \ {i} : B[a] = s.body[a]
    BY <1>1, <2>5, <2>6
  <2>8. /\ M \in [Awake -> SUBSET (Body \cup ToSet(hulls))]
        /\ M[i] = s.met[i] \cup {hulls[k]} /\ \A a \in Awake \ {i} : M[a] = s.met[a]
    BY <1>2, <2>6
  <2>9. t.body = B /\ t.met = M /\ t.whole = s.whole
    BY <2>1
  <2>10. t \in [body : [Body -> Bodies], met : [Awake -> SUBSET (Body \cup ToSet(hulls))], whole : BOOLEAN]
    BY <2>1, <2>6, <2>7, <2>8
  <2> HIDE DEF B, M
  <2>11. \A a \in Awake : Poised(t.body[a]) /\ t.body[a].mass = body[a].mass
    BY <2>4, <2>6, <2>7, <2>9
  <2>12. t \in Sims
    BY <2>10, <2>11 DEF Sims
  <2>13. \A a \in Awake : t.body[a].pos = s.body[a].pos /\ t.body[a].pre = s.body[a].pre /\ s.met[a] \subseteq t.met[a]
    BY <2>4, <2>6, <2>7, <2>8, <2>9
  <2>14. ASSUME NEW a \in Awake, NEW d \in Awake, Alone(t, a, d), Parted(s, a, d) PROVE Parted(t, a, d)
    <3>1. hulls[k] \in t.met[i] /\ a \in Body /\ d \in Body
      BY <2>6, <2>8, <2>9
    <3>2. t.met[a] \subseteq {d} /\ t.met[d] \subseteq {a}
      BY <2>14 DEF Alone
    <3>3. a # i /\ d # i
      BY <1>2, <3>1, <3>2
    <3>4. t.body[a] = s.body[a] /\ t.body[d] = s.body[d]
      BY <2>7, <2>9, <3>1, <3>3
    <3> QED  BY <2>14, <3>4 DEF Parted
  <2>15. ~InTheOpen(t)
    BY <1>2, <2>8, <2>9 DEF InTheOpen
  <2> QED  BY <2>9, <2>12, <2>13, <2>14, <2>15 DEF Keeps
<1> QED  BY <1>3, <1>4

\* Two bodies that met nobody else are apart, whichever is named first.
Done(s, i, j) == Alone(s, i, j) => Parted(s, i, j) /\ Parted(s, j, i)

\* And they stay apart whatever is checked after them.
LEMMA DoneStays ==
  ASSUME NEW s, NEW t, Keeps(s, t), NEW i \in Awake, NEW j \in Awake, i # j, Done(s, i, j)
  PROVE  Done(t, i, j)
<1> SUFFICES ASSUME Alone(t, i, j) PROVE Parted(t, i, j) /\ Parted(t, j, i)
  BY DEF Done
<1>1. Alone(s, i, j) /\ Alone(t, j, i)
  BY DEF Alone, Keeps
<1> QED  BY <1>1 DEF Keeps, Done

\* A body is checked against all others.
LEMMA AllBodiesChecked ==
  ASSUME Setting, NEW s \in Sims, NEW i \in Awake
  PROVE  /\ AgainstBodies(s, i) \in Sims /\ Keeps(s, AgainstBodies(s, i))
         /\ \A j \in Awake \ {i} : Done(AgainstBodies(s, i), i, j)
<1> DEFINE n == Len(awake)
           P == Sims
           turn(t, k) == BodyClsnCheck(t, i, awake[k])
           op == [x \in P \X (1..n) |-> turn(x[1], x[2])]
           Follows(f) == f = [k \in 0..n |-> IF k = 0 THEN s ELSE turn(f[k - 1], k)]
<1>1. n \in Nat
  BY ListedBodies DEF Setting
<1>2. ASSUME NEW t \in P, NEW k \in 1..n PROVE turn(t, k) \in P
  BY <1>1, ListedBodies, BodyChecked DEF Setting
<1> HIDE DEF n, P, turn
<1>3. op \in [P \X (1..n) -> P] /\ \A t \in P, k \in 1..n : op[<<t, k>>] = turn(t, k)
  BY <1>2
<1>4. s \in P
  BY DEF P
<1> HIDE DEF op
<1>5. PICK g : Iterates(g, P, s, n, op)
  <2> HIDE DEF Follows
  <2> QED  BY <1>1, <1>3, <1>4, Iteration
<1>6. ASSUME NEW k \in 0..n PROVE g[k] = IF k = 0 THEN s ELSE turn(g[k - 1], k)
  <2>1. CASE k = 0
    BY <1>5, <2>1 DEF Iterates
  <2>2. CASE k # 0
    <3>1. k \in 1..n /\ k - 1 \in 0..n
      BY <1>1, <2>2
    <3>2. g[k] = op[<<g[k - 1], k>>] /\ g[k - 1] \in P
      BY <1>5, <2>2, <3>1 DEF Iterates
    <3> QED  BY <1>3, <2>2, <3>1, <3>2
  <2> QED  BY <2>1, <2>2
<1>7. Follows(g)
  <2>1. g = [k \in 0..n |-> g[k]]
    BY <1>5 DEF Iterates
  <2> QED  BY <1>6, <2>1
<1> DEFINE m == CHOOSE f : Follows(f)
<1>8. AgainstBodies(s, i) = m[n]
  BY DEF AgainstBodies, n, turn
<1>9. Follows(m)
  <2> HIDE DEF Follows
  <2> QED  BY ONLY <1>7
<1> HIDE DEF m
<1>10. \A k \in 0..n : m[k] = IF k = 0 THEN s ELSE turn(m[k - 1], k)
  BY <1>9, Zenon
<1> HIDE DEF Follows
<1>11. m[0] = s /\ \A k \in 1..n : m[k] = turn(m[k - 1], k)
  <2>1. 0 \in 0..n /\ \A k \in 1..n : k \in 0..n /\ k # 0
    BY <1>1
  <2> QED  BY <1>10, <2>1
<1> DEFINE S == {k \in 0..n : /\ m[k] \in Sims /\ Keeps(s, m[k])
                            /\ \A l \in 1..k : awake[l] # i => Done(m[k], i, awake[l])}
<1>12. 0 \in S
  <2>1. m[0] \in Sims /\ Keeps(s, m[0])
    BY <1>11, KeepsAll
  <2> QED  BY <1>1, <2>1
<1>13. ASSUME NEW k \in 1..n, k - 1 \in S PROVE k \in S
  <2>1. /\ m[k - 1] \in Sims /\ Keeps(s, m[k - 1])
        /\ \A l \in 1..k - 1 : awake[l] # i => Done(m[k - 1], i, awake[l])
    BY <1>13
  <2>2. \A l \in 1..n : awake[l] \in Awake
    BY ListedBodies DEF Setting, n
  <2>3. m[k] = BodyClsnCheck(m[k - 1], i, awake[k])
    BY <1>11 DEF turn
  <2>4. /\ m[k] \in Sims /\ Keeps(m[k - 1], m[k])
        /\ i # awake[k] => Parted(m[k], i, awake[k]) /\ Parted(m[k], awake[k], i)
    BY <2>1, <2>2, <2>3, BodyChecked
  <2>5. Keeps(s, m[k])
    BY <2>1, <2>4, KeepsOn
  <2>6. ASSUME NEW l \in 1..k, awake[l] # i PROVE Done(m[k], i, awake[l])
    <3>1. CASE l = k
      BY <2>4, <2>6, <3>1 DEF Done
    <3>2. CASE l # k
      <4>1. l \in 1..k - 1 /\ l \in 1..n
        BY <1>1, <3>2
      <4>2. awake[l] \in Awake /\ Done(m[k - 1], i, awake[l])
        BY <2>1, <2>2, <2>6, <4>1
      <4> QED  BY <2>4, <2>6, <4>2, DoneStays
    <3> QED  BY <3>1, <3>2
  <2> QED  BY <1>1, <2>4, <2>5, <2>6
<1>14. 0..n \subseteq S
  <2> HIDE DEF S
  <2> QED  BY <1>1, <1>12, <1>13, IntervalInduction
<1>15. n \in S
  BY <1>1, <1>14
<1>16. ASSUME NEW j \in Awake \ {i} PROVE Done(m[n], i, j)
  <2>1. PICK l \in 1..n : awake[l] = j
    BY ListedBodies DEF Setting, n
  <2> QED  BY <1>15, <2>1
<1> QED  BY <1>8, <1>15, <1>16

\* And against all hulls.
LEMMA AllHullsChecked ==
  ASSUME Setting, NEW s \in Sims, NEW i \in Awake
  PROVE  AgainstHulls(s, i) \in Sims /\ Keeps(s, AgainstHulls(s, i))
<1> DEFINE n == Len(hulls)
           P == Sims
           turn(t, k) == HullClsnCheck(t, i, k)
           op == [x \in P \X (1..n) |-> turn(x[1], x[2])]
           Follows(f) == f = [k \in 0..n |-> IF k = 0 THEN s ELSE turn(f[k - 1], k)]
<1>1. n \in Nat
  BY LenProperties DEF Setting
<1>2. ASSUME NEW t \in P, NEW k \in 1..n PROVE turn(t, k) \in P
  BY HullChecked
<1> HIDE DEF n, P, turn
<1>3. op \in [P \X (1..n) -> P] /\ \A t \in P, k \in 1..n : op[<<t, k>>] = turn(t, k)
  BY <1>2
<1>4. s \in P
  BY DEF P
<1> HIDE DEF op
<1>5. PICK g : Iterates(g, P, s, n, op)
  <2> HIDE DEF Follows
  <2> QED  BY <1>1, <1>3, <1>4, Iteration
<1>6. ASSUME NEW k \in 0..n PROVE g[k] = IF k = 0 THEN s ELSE turn(g[k - 1], k)
  <2>1. CASE k = 0
    BY <1>5, <2>1 DEF Iterates
  <2>2. CASE k # 0
    <3>1. k \in 1..n /\ k - 1 \in 0..n
      BY <1>1, <2>2
    <3>2. g[k] = op[<<g[k - 1], k>>] /\ g[k - 1] \in P
      BY <1>5, <2>2, <3>1 DEF Iterates
    <3> QED  BY <1>3, <2>2, <3>1, <3>2
  <2> QED  BY <2>1, <2>2
<1>7. Follows(g)
  <2>1. g = [k \in 0..n |-> g[k]]
    BY <1>5 DEF Iterates
  <2> QED  BY <1>6, <2>1
<1> DEFINE m == CHOOSE f : Follows(f)
<1>8. AgainstHulls(s, i) = m[n]
  BY DEF AgainstHulls, n, turn
<1>9. Follows(m)
  <2> HIDE DEF Follows
  <2> QED  BY ONLY <1>7
<1> HIDE DEF m
<1>10. \A k \in 0..n : m[k] = IF k = 0 THEN s ELSE turn(m[k - 1], k)
  BY <1>9, Zenon
<1> HIDE DEF Follows
<1>11. m[0] = s /\ \A k \in 1..n : m[k] = turn(m[k - 1], k)
  <2>1. 0 \in 0..n /\ \A k \in 1..n : k \in 0..n /\ k # 0
    BY <1>1
  <2> QED  BY <1>10, <2>1
<1> DEFINE S == {k \in 0..n : m[k] \in Sims /\ Keeps(s, m[k])}
<1>12. 0 \in S
  <2>1. m[0] \in Sims /\ Keeps(s, m[0])
    BY <1>11, KeepsAll
  <2> QED  BY <1>1, <2>1
<1>13. ASSUME NEW k \in 1..n, k - 1 \in S PROVE k \in S
  <2>1. m[k - 1] \in Sims /\ Keeps(s, m[k - 1])
    BY <1>13
  <2>2. m[k] = HullClsnCheck(m[k - 1], i, k)
    BY <1>11 DEF turn
  <2>3. m[k] \in Sims /\ Keeps(m[k - 1], m[k])
    BY <2>1, <2>2, HullChecked DEF n
  <2>4. Keeps(s, m[k])
    BY <2>1, <2>3, KeepsOn
  <2> QED  BY <1>1, <2>3, <2>4
<1>14. 0..n \subseteq S
  <2> HIDE DEF S
  <2> QED  BY <1>1, <1>12, <1>13, IntervalInduction
<1>15. n \in S
  BY <1>1, <1>14
<1> QED  BY <1>8, <1>15

\* The turn of one body.
LEMMA BodysTurn ==
  ASSUME Setting, NEW s \in Sims, NEW i \in Awake,
         NEW t, t = AgainstHulls(AgainstBodies(s, i), i)
  PROVE  t \in Sims /\ Keeps(s, t) /\ \A j \in Awake \ {i} : Done(t, i, j)
<1> DEFINE u == AgainstBodies(s, i)
<1>1. u \in Sims /\ Keeps(s, u) /\ \A j \in Awake \ {i} : Done(u, i, j)
  BY AllBodiesChecked
<1> HIDE DEF u
<1>2. t = AgainstHulls(u, i)
  BY DEF u
<1>3. t \in Sims /\ Keeps(u, t)
  BY <1>1, <1>2, AllHullsChecked
<1>4. Keeps(s, t)
  BY <1>1, <1>3, KeepsOn
<1> QED  BY <1>1, <1>3, <1>4, DoneStays

\* All checks of a step.
LEMMA AllChecked ==
  ASSUME Setting, NEW s \in Sims
  PROVE  /\ CollisionCheck(s) \in Sims /\ Keeps(s, CollisionCheck(s))
         /\ \A i, j \in Awake : i # j => Done(CollisionCheck(s), i, j)
<1> DEFINE n == Len(awake)
           P == Sims
           turn(t, k) == AgainstHulls(AgainstBodies(t, awake[k]), awake[k])
           op == [x \in P \X (1..n) |-> turn(x[1], x[2])]
           Follows(f) == f = [k \in 0..n |-> IF k = 0 THEN s ELSE turn(f[k - 1], k)]
<1>1. n \in Nat
  BY ListedBodies DEF Setting
<1>2. ASSUME NEW t \in P, NEW k \in 1..n PROVE turn(t, k) \in P
  BY <1>1, ListedBodies, BodysTurn DEF Setting
<1> HIDE DEF n, P, turn
<1>3. op \in [P \X (1..n) -> P] /\ \A t \in P, k \in 1..n : op[<<t, k>>] = turn(t, k)
  BY <1>2
<1>4. s \in P
  BY DEF P
<1> HIDE DEF op
<1>5. PICK g : Iterates(g, P, s, n, op)
  <2> HIDE DEF Follows
  <2> QED  BY <1>1, <1>3, <1>4, Iteration
<1>6. ASSUME NEW k \in 0..n PROVE g[k] = IF k = 0 THEN s ELSE turn(g[k - 1], k)
  <2>1. CASE k = 0
    BY <1>5, <2>1 DEF Iterates
  <2>2. CASE k # 0
    <3>1. k \in 1..n /\ k - 1 \in 0..n
      BY <1>1, <2>2
    <3>2. g[k] = op[<<g[k - 1], k>>] /\ g[k - 1] \in P
      BY <1>5, <2>2, <3>1 DEF Iterates
    <3> QED  BY <1>3, <2>2, <3>1, <3>2
  <2> QED  BY <2>1, <2>2
<1>7. Follows(g)
  <2>1. g = [k \in 0..n |-> g[k]]
    BY <1>5 DEF Iterates
  <2> QED  BY <1>6, <2>1
<1> DEFINE m == CHOOSE f : Follows(f)
<1>8. CollisionCheck(s) = m[n]
  BY DEF CollisionCheck, n, turn
<1>9. Follows(m)
  <2> HIDE DEF Follows
  <2> QED  BY ONLY <1>7
<1> HIDE DEF m
<1>10. \A k \in 0..n : m[k] = IF k = 0 THEN s ELSE turn(m[k - 1], k)
  BY <1>9, Zenon
<1> HIDE DEF Follows
<1>11. m[0] = s /\ \A k \in 1..n : m[k] = turn(m[k - 1], k)
  <2>1. 0 \in 0..n /\ \A k \in 1..n : k \in 0..n /\ k # 0
    BY <1>1
  <2> QED  BY <1>10, <2>1
<1> DEFINE S == {k \in 0..n : /\ m[k] \in Sims /\ Keeps(s, m[k])
                            /\ \A l \in 1..k : \A j \in Awake \ {awake[l]} : Done(m[k], awake[l], j)}
<1>12. 0 \in S
  <2>1. m[0] \in Sims /\ Keeps(s, m[0])
    BY <1>11, KeepsAll
  <2> QED  BY <1>1, <2>1
<1>13. ASSUME NEW k \in 1..n, k - 1 \in S PROVE k \in S
  <2>1. /\ m[k - 1] \in Sims /\ Keeps(s, m[k - 1])
        /\ \A l \in 1..k - 1 : \A j \in Awake \ {awake[l]} : Done(m[k - 1], awake[l], j)
    BY <1>13
  <2>2. \A l \in 1..n : awake[l] \in Awake
    BY ListedBodies DEF Setting, n
  <2>3. m[k] = AgainstHulls(AgainstBodies(m[k - 1], awake[k]), awake[k])
    BY <1>11 DEF turn
  <2>4. m[k] \in Sims /\ Keeps(m[k - 1], m[k]) /\ \A j \in Awake \ {awake[k]} : Done(m[k], awake[k], j)
    BY <2>1, <2>2, <2>3, BodysTurn
  <2>5. Keeps(s, m[k])
    BY <2>1, <2>4, KeepsOn
  <2>6. ASSUME NEW l \in 1..k, NEW j \in Awake \ {awake[l]} PROVE Done(m[k], awake[l], j)
    <3>1. CASE l = k
      BY <2>4, <2>6, <3>1
    <3>2. CASE l # k
      <4>1. l \in 1..k - 1 /\ l \in 1..n
        BY <1>1, <3>2
      <4>2. awake[l] \in Awake /\ Done(m[k - 1], awake[l], j)
        BY <2>1, <2>2, <4>1
      <4> QED  BY <2>4, <4>2, DoneStays
    <3> QED  BY <3>1, <3>2
  <2> QED  BY <1>1, <2>4, <2>5, <2>6
<1>14. 0..n \subseteq S
  <2> HIDE DEF S
  <2> QED  BY <1>1, <1>12, <1>13, IntervalInduction
<1>15. n \in S
  BY <1>1, <1>14
<1>16. ASSUME NEW i \in Awake, NEW j \in Awake, i # j PROVE Done(m[n], i, j)
  <2>1. PICK l \in 1..n : awake[l] = i
    BY ListedBodies DEF Setting, n
  <2> QED  BY <1>15, <1>16, <2>1
<1> QED  BY <1>8, <1>15, <1>16

-----------------------------------------------------------------------------
(* The steps.                                                              *)

\* What the bodies are after a step, and what it made of their velocities.
LEMMA StepTaken ==
  ASSUME Setting, body \in [Body -> Bodies], NEW push \in Asked,
         NEW t, t = ProcessAwakeBodies(push)
  PROVE  /\ t.body \in [Body -> Bodies] /\ DOMAIN t.met = Awake /\ t.whole \in BOOLEAN
         /\ \A i, j \in Awake :
              /\ i # j /\ t.met[i] \subseteq {j} /\ t.met[j] \subseteq {i}
              /\ ~AABBIntersect(t.body[i].pre, t.body[j].pre)
              => ~Overlap(MoveBox(t.body[i].base, t.body[i].pos), MoveBox(t.body[j].base, t.body[j].pos))
         /\ (t.whole /\ \A b \in Awake : t.met[b] \subseteq Body) =>
              LET forced == [b \in Awake |-> Plus(Plus(body[b].vel, gravity), push[b])]
                  left   == [b \in Awake |-> t.body[b].vel]
              IN  Momentum(left) = Momentum(forced) /\ Energy(left) = Energy(forced)
<1> DEFINE pushed == [b \in Body |-> IF b \in Awake THEN Push(body[b], push[b]) ELSE body[b]]
           none == [b \in Awake |-> {}]
           s == [body |-> pushed, met |-> none, whole |-> TRUE]
           c == CollisionCheck(s)
           moved(b) == [c.body[b] EXCEPT !.pos = Plus(@, c.body[b].vel)]
           after == [b \in Body |-> IF b \in Awake THEN moved(b) ELSE c.body[b]]
<1>1. \A b \in Awake : b \in Body
  BY ListedBodies DEF Setting
<1>2. \A b \in Awake : push[b] \in Vector
  BY <1>1, PhysicsAssumption DEF Asked
<1>3. gravity \in Vector
  BY DEF Setting
<1>4. ASSUME NEW b \in Awake
      PROVE  /\ pushed[b] \in Bodies /\ Poised(pushed[b]) /\ pushed[b].mass = body[b].mass
             /\ pushed[b].vel = Plus(Plus(body[b].vel, gravity), push[b])
  <2>1. pushed[b] = Push(body[b], push[b]) /\ body[b] \in Bodies
    BY <1>1
  <2>2. /\ Poised(Push(body[b], push[b])) /\ Push(body[b], push[b]).mass = body[b].mass
        /\ Push(body[b], push[b]).vel = Plus(Plus(body[b].vel, gravity), push[b])
    BY <1>2, <1>3, <2>1, PushedBody
  <2> QED  BY <2>1, <2>2, MovedBody
<1>5. pushed \in [Body -> Bodies]
  BY <1>4
<1>6. none \in [Awake -> SUBSET (Body \cup ToSet(hulls))]
  OBVIOUS
<1>b. /\ c \in Sims /\ Keeps(s, c) /\ \A i, j \in Awake : i # j => Done(c, i, j)
  <2> HIDE DEF pushed, none
  <2>1. s \in Sims
    BY <1>4, <1>5, <1>6 DEF Sims
  <2> HIDE DEF s
  <2> QED  BY <2>1, AllChecked
<1>7. t.body = after /\ t.met = c.met /\ t.whole = c.whole
  <2>1. t = [c EXCEPT !.body = after]
    BY DEF ProcessAwakeBodies, AllMove, Move
  <2> HIDE DEF c, after
  <2> QED  BY <1>b, <2>1 DEF Sims
<1> HIDE DEF pushed, none
<1>9. c \in Sims /\ Keeps(s, c) /\ \A i, j \in Awake : i # j => Done(c, i, j)
  BY <1>b
<1>10. s.body = pushed
  OBVIOUS
<1> HIDE DEF s, c
<1>11. c.body \in [Body -> Bodies] /\ c.met \in [Awake -> SUBSET (Body \cup ToSet(hulls))]
  BY <1>9 DEF Sims
<1>12. ASSUME NEW b \in Awake
       PROVE  /\ moved(b) \in Bodies /\ moved(b).pre = c.body[b].pre /\ moved(b).vel = c.body[b].vel
              /\ MoveBox(moved(b).base, moved(b).pos) = c.body[b].post
  <2>1. c.body[b] \in Bodies /\ Poised(c.body[b]) /\ c.body[b].vel \in Vector
    BY <1>9, SimParts
  <2>2. c.body[b].pos \in Vector /\ Plus(c.body[b].pos, c.body[b].vel) \in Vector
    BY <2>1, VectorSums DEF Bodies
  <2>3. c.body[b].post = MoveBox(c.body[b].base, Plus(c.body[b].pos, c.body[b].vel))
    BY <2>1 DEF Poised
  <2>4. /\ moved(b) \in Bodies /\ moved(b).pre = c.body[b].pre /\ moved(b).vel = c.body[b].vel
        /\ moved(b).pos = Plus(c.body[b].pos, c.body[b].vel) /\ moved(b).base = c.body[b].base
    BY <2>1, <2>2 DEF Bodies
  <2> QED  BY <2>3, <2>4
<1>13. /\ after \in [Body -> Bodies]
       /\ \A b \in Awake : /\ after[b].pre = c.body[b].pre /\ after[b].vel = c.body[b].vel
                           /\ MoveBox(after[b].base, after[b].pos) = c.body[b].post
  <2> HIDE DEF moved
  <2> QED  BY <1>1, <1>11, <1>12
<1> HIDE DEF after
<1>14. ASSUME NEW i \in Awake, NEW j \in Awake,
              i # j, t.met[i] \subseteq {j}, t.met[j] \subseteq {i},
              ~AABBIntersect(t.body[i].pre, t.body[j].pre)
       PROVE  ~Overlap(MoveBox(t.body[i].base, t.body[i].pos), MoveBox(t.body[j].base, t.body[j].pos))
  <2>1. Done(c, i, j) /\ Alone(c, i, j)
    BY <1>7, <1>9, <1>14 DEF Alone
  <2>2. ~AABBIntersect(c.body[i].pre, c.body[j].pre)
    BY <1>7, <1>13, <1>14
  <2>3. ~Overlap(c.body[i].post, c.body[j].post)
    BY <2>1, <2>2 DEF Done, Parted
  <2> QED  BY <1>7, <1>13, <2>3
<1>15. ASSUME t.whole, \A b \in Awake : t.met[b] \subseteq Body
       PROVE  LET forced == [b \in Awake |-> Plus(Plus(body[b].vel, gravity), push[b])]
                  left   == [b \in Awake |-> t.body[b].vel]
              IN  Momentum(left) = Momentum(forced) /\ Energy(left) = Energy(forced)
  <2>1. InTheOpen(c)
    BY <1>7, <1>15 DEF InTheOpen
  <2>2. /\ Momentum(Velocities(c)) = Momentum(Velocities(s))
        /\ Energy(Velocities(c)) = Energy(Velocities(s))
    BY <1>9, <2>1 DEF Keeps
  <2>3. Velocities(s) = [b \in Awake |-> Plus(Plus(body[b].vel, gravity), push[b])]
    BY <1>4, <1>10 DEF Velocities
  <2>4. Velocities(c) = [b \in Awake |-> t.body[b].vel]
    BY <1>7, <1>13 DEF Velocities
  <2> QED  BY <2>2, <2>3, <2>4
<1>16. DOMAIN t.met = Awake
  BY <1>7, <1>11
<1>17. t.whole \in BOOLEAN
  BY <1>7, <1>9 DEF Sims
<1> QED  BY <1>7, <1>13, <1>14, <1>15, <1>16, <1>17

-----------------------------------------------------------------------------
(* The calls of the server.                                                *)

Entities == [pos : Vector, box : Box]

\* What every call keeps.
PhysicsInv ==
  /\ Setting
  /\ body \in [Body -> Bodies] /\ ent \in [Body -> Entities]
  /\ PairsStayApart

\* A sequence of nothing is one of anything, and names nobody twice.
LEMMA NobodyListed ==
  <<>> \in Seq(Body) /\ IsInjective(<<>>) /\ ToSet(<<>>) = {} /\ DOMAIN <<>> = {}
BY DEF IsInjective, ToSet

\* AddBody puts a body at its place and in front of the list.
LEMMA BodyAdded ==
  ASSUME NEW s \in [awake : Seq(Body), body : [Body -> Bodies], ent : [Body -> Entities]],
         NEW b \in Body, NEW place \in Vector, NEW t, t = AddBody(s, b, place)
  PROVE  /\ t \in [awake : Seq(Body), body : [Body -> Bodies], ent : [Body -> Entities]]
         /\ ToSet(t.awake) = {b} \cup ToSet(s.awake)
         /\ IsInjective(s.awake) /\ b \notin ToSet(s.awake) => IsInjective(t.awake)
<1> DEFINE A == <<b>> \o s.awake
           B == [s.body EXCEPT ![b].mass = Mass[b], ![b].base = Base[b],
                               ![b].pos = place, ![b].vel = Origin]
           E == [s.ent EXCEPT ![b] = [pos |-> place, box |-> Base[b]]]
<1>1. t = [awake |-> A, body |-> B, ent |-> E]
  BY DEF AddBody
<1>2. /\ A \in Seq(Body) /\ ToSet(A) = {b} \cup ToSet(s.awake)
      /\ IsInjective(s.awake) /\ b \notin ToSet(s.awake) => IsInjective(A)
  BY ConsMembers
<1>3. B \in [Body -> Bodies]
  <2> DEFINE c == [s.body[b] EXCEPT !.mass = Mass[b], !.base = Base[b], !.pos = place, !.vel = Origin]
  <2>1. s.body \in [Body -> Bodies] /\ s.body[b] \in Bodies
    OBVIOUS
  <2>2. c \in Bodies
    BY <2>1, OriginVector, PhysicsAssumption DEF Bodies
  <2>3. B = [s.body EXCEPT ![b] = c]
    BY <2>1 DEF Bodies
  <2> HIDE DEF c, B
  <2> QED  BY <2>1, <2>2, <2>3
<1>4. E \in [Body -> Entities]
  BY PhysicsAssumption DEF Entities
<1> HIDE DEF A, B, E
<1> QED  BY <1>1, <1>2, <1>3, <1>4

\* The sequence of a set of bodies names each of them once.
LEMMA SetInSequence ==
  ASSUME NEW B \in SUBSET Body
  PROVE  LET n == Cardinality(B)
         IN  /\ n \in Nat /\ Len(SetToSeq(B)) = n /\ SetToSeq(B) \in [1..n -> B]
             /\ \A i, j \in 1..n : SetToSeq(B)[i] = SetToSeq(B)[j] => i = j
<1> DEFINE c == Cardinality(B)
           q == CHOOSE f \in [1..c -> B] : IsInjective(f)
<1>1. IsFiniteSet(B)
  BY PhysicsAssumption, FS_Subset
<1>2. c \in Nat /\ ExistsBijection(1..c, B)
  BY <1>1, FS_CardinalityType
<1>3. \E f \in [1..c -> B] : IsInjective(f)
  BY <1>2 DEF ExistsBijection, Bijection, Injection
<1>4. q \in [1..c -> B] /\ IsInjective(q)
  BY <1>3
<1>5. SetToSeq(B) = q
  BY DEF SetToSeq
<1> HIDE DEF q, c
<1>6. Len(q) = c /\ DOMAIN q = 1..c
  BY <1>2, <1>4
<1>7. \A i, j \in 1..c : q[i] = q[j] => i = j
  BY <1>4, <1>6 DEF IsInjective
<1> QED  BY <1>2, <1>4, <1>5, <1>6, <1>7 DEF c

\* A level's entities are listed once each.
LEMMA BodiesAdded ==
  ASSUME body \in [Body -> Bodies], ent \in [Body -> Entities],
         NEW B \in SUBSET Body, NEW places \in [B -> Places], NEW s,
         s = [awake |-> <<>>, body |-> body, ent |-> ent],
         NEW t, t = AddBodies(s, SetToSeq(B), places)
  PROVE  /\ t \in [awake : Seq(Body), body : [Body -> Bodies], ent : [Body -> Entities]]
         /\ IsInjective(t.awake)
<1> DEFINE q == SetToSeq(B)
<1>a. /\ Len(q) \in Nat /\ q \in [1..Len(q) -> B]
      /\ \A i, j \in 1..Len(q) : q[i] = q[j] => i = j
  BY SetInSequence
<1> HIDE DEF q
<1>b. t = AddBodies(s, q, places)
  BY DEF q
<1> DEFINE n == Len(q)
           P == [awake : Seq(Body), body : [Body -> Bodies], ent : [Body -> Entities]]
           turn(u, k) == AddBody(u, q[k], places[q[k]])
           op == [x \in P \X (1..n) |-> turn(x[1], x[2])]
           Follows(f) == f = [k \in 0..n |-> IF k = 0 THEN s ELSE turn(f[k - 1], k)]
<1>1. n \in Nat
  BY <1>a
<1>c. \A k \in 1..n : q[k] \in B /\ q[k] \in Body /\ places[q[k]] \in Vector
  BY <1>a, PhysicsAssumption
<1>2. ASSUME NEW u \in P, NEW k \in 1..n PROVE turn(u, k) \in P
  BY <1>1, <1>c, BodyAdded DEF n
<1> HIDE DEF n, P, turn
<1>3. op \in [P \X (1..n) -> P] /\ \A u \in P, k \in 1..n : op[<<u, k>>] = turn(u, k)
  BY <1>2
<1>4. s \in P
  BY NobodyListed DEF P
<1> HIDE DEF op
<1>5. PICK g : Iterates(g, P, s, n, op)
  <2> HIDE DEF Follows
  <2> QED  BY <1>1, <1>3, <1>4, Iteration
<1>6. ASSUME NEW k \in 0..n PROVE g[k] = IF k = 0 THEN s ELSE turn(g[k - 1], k)
  <2>1. CASE k = 0
    BY <1>5, <2>1 DEF Iterates
  <2>2. CASE k # 0
    <3>1. k \in 1..n /\ k - 1 \in 0..n
      BY <1>1, <2>2
    <3>2. g[k] = op[<<g[k - 1], k>>] /\ g[k - 1] \in P
      BY <1>5, <2>2, <3>1 DEF Iterates
    <3> QED  BY <1>3, <2>2, <3>1, <3>2
  <2> QED  BY <2>1, <2>2
<1>7. Follows(g)
  <2>1. g = [k \in 0..n |-> g[k]]
    BY <1>5 DEF Iterates
  <2> QED  BY <1>6, <2>1
<1> DEFINE m == CHOOSE f : Follows(f)
<1>8. AddBodies(s, q, places) = m[n]
  BY DEF AddBodies, n, turn
<1>9. Follows(m)
  <2> HIDE DEF Follows
  <2> QED  BY ONLY <1>7
<1> HIDE DEF m
<1>10. \A k \in 0..n : m[k] = IF k = 0 THEN s ELSE turn(m[k - 1], k)
  BY <1>9, Zenon
<1> HIDE DEF Follows
<1>11. m[0] = s /\ \A k \in 1..n : m[k] = turn(m[k - 1], k)
  <2>1. 0 \in 0..n /\ \A k \in 1..n : k \in 0..n /\ k # 0
    BY <1>1
  <2> QED  BY <1>10, <2>1
<1> DEFINE S == {k \in 0..n : /\ m[k] \in P /\ IsInjective(m[k].awake)
                            /\ ToSet(m[k].awake) \subseteq {q[l] : l \in 1..k}}
<1>12. 0 \in S
  BY <1>1, <1>4, <1>11, NobodyListed
<1>13. ASSUME NEW k \in 1..n, k - 1 \in S PROVE k \in S
  <2>1. /\ m[k - 1] \in P /\ IsInjective(m[k - 1].awake)
        /\ ToSet(m[k - 1].awake) \subseteq {q[l] : l \in 1..k - 1}
    BY <1>13
  <2>2. m[k] = AddBody(m[k - 1], q[k], places[q[k]])
    BY <1>11 DEF turn
  <2>3. /\ m[k] \in P /\ ToSet(m[k].awake) = {q[k]} \cup ToSet(m[k - 1].awake)
        /\ q[k] \notin ToSet(m[k - 1].awake) => IsInjective(m[k].awake)
    BY <1>c, <2>1, <2>2, BodyAdded DEF P
  <2>4. \A l \in 1..k - 1 : l \in 1..n /\ l # k
    BY <1>1
  <2>5. q[k] \notin ToSet(m[k - 1].awake)
    BY <1>a, <2>1, <2>4 DEF n
  <2>6. k \in 1..k /\ \A l \in 1..k - 1 : l \in 1..k
    BY <1>1
  <2>7. ToSet(m[k].awake) \subseteq {q[l] : l \in 1..k}
    BY <2>1, <2>3, <2>6
  <2> QED  BY <1>1, <2>3, <2>5, <2>7
<1>14. 0..n \subseteq S
  <2> HIDE DEF S
  <2> QED  BY <1>1, <1>12, <1>13, IntervalInduction
<1> HIDE DEF S
<1>15. n \in S
  BY <1>1, <1>14
<1> QED  BY <1>b, <1>8, <1>15 DEF P, S

\* A list without one of its bodies.
LEMMA BodyRemoved ==
  ASSUME Listed, NEW k \in DOMAIN awake
  PROVE  RemoveAt(awake, k) \in Seq(Body) /\ IsInjective(RemoveAt(awake, k))
<1>1. awake \in Seq(Body) /\ k \in 1..Len(awake) /\ IsInjective(awake)
  BY ListedBodies DEF Listed, IsInjective
<1> QED  BY <1>1, RemoveAtMembers

\* Nobody has met anybody before the first call.
LEMMA PhysicsStarts == PhysicsInit => PhysicsInv
<1> SUFFICES ASSUME PhysicsInit PROVE PhysicsInv
  OBVIOUS
<1>1. NoBox \in Box
  BY OriginVector DEF NoBox, Box
<1>2. Setting
  <2>1. hulls \in Seq(Hulls) /\ DOMAIN hulls = {}
    BY DEF PhysicsInit
  <2> QED  BY <2>1, NobodyListed, OriginVector DEF PhysicsInit, Setting, Listed
<1>3. body \in [Body -> Bodies] /\ ent \in [Body -> Entities]
  BY <1>1, OriginVector DEF PhysicsInit, Bodies, Entities
<1>4. PairsStayApart
  <2>1. Stepped = {}
    BY DEF PhysicsInit, Stepped
  <2> QED  BY <2>1 DEF PairsStayApart
<1> QED  BY <1>2, <1>3, <1>4 DEF PhysicsInv

\* Every call keeps the invariant, and a step the momentum and the energy.
LEMMA PhysicsSteps == PhysicsInv /\ [PhysicsNext]_physVars => PhysicsInv' /\ [StepIsElastic]_physVars
<1> SUFFICES ASSUME PhysicsInv, [PhysicsNext]_physVars PROVE PhysicsInv' /\ [StepIsElastic]_physVars
  OBVIOUS
<1>1. /\ Setting /\ body \in [Body -> Bodies] /\ ent \in [Body -> Entities]
      /\ awake \in Seq(Body) /\ IsInjective(awake) /\ gravity \in Vector
      /\ hulls \in Seq(Hulls) /\ \A k \in DOMAIN hulls : hulls[k] \notin Body
  BY DEF PhysicsInv, Setting, Listed, IsInjective
<1>2. ASSUME met' = <<>> PROVE PairsStayApart' /\ StepIsElastic
  <2>1. Stepped' = {}
    BY <1>2 DEF Stepped
  <2> QED  BY <1>2, <2>1 DEF PairsStayApart, StepIsElastic
<1>3. ASSUME NEW A, awake' = A, A \in Seq(Body), IsInjective(A), gravity' \in Vector,
             hulls' \in Seq(Hulls), \A k \in DOMAIN hulls' : hulls'[k] \notin Body
      PROVE  Setting'
  BY <1>3 DEF Setting, Listed, IsInjective
<1>4. CASE Simulate
  <2>1. awake' = awake /\ hulls' = hulls /\ gravity' = gravity
    BY <1>4 DEF Simulate
  <2>2. PICK push \in Asked :
          LET s == ProcessAwakeBodies(push)
          IN  /\ body' = s.body
              /\ ent' = [b \in Body |-> IF b \in Awake THEN UpdateToSrv(s.body[b]) ELSE ent[b]]
              /\ met' = s.met /\ whole' = s.whole
    BY <1>4 DEF Simulate, Simulated
  <2> DEFINE t == ProcessAwakeBodies(push)
             forced == [b \in Awake |-> Plus(Plus(body[b].vel, gravity), push[b])]
             left   == [b \in Awake |-> t.body[b].vel]
  <2>3. /\ t.body \in [Body -> Bodies] /\ DOMAIN t.met = Awake
        /\ \A i, j \in Awake :
              /\ i # j /\ t.met[i] \subseteq {j} /\ t.met[j] \subseteq {i}
              /\ ~AABBIntersect(t.body[i].pre, t.body[j].pre)
              => ~Overlap(MoveBox(t.body[i].base, t.body[i].pos), MoveBox(t.body[j].base, t.body[j].pos))
        /\ (t.whole /\ \A b \in Awake : t.met[b] \subseteq Body) =>
             Momentum(left) = Momentum(forced) /\ Energy(left) = Energy(forced)
    BY <1>1, StepTaken
  <2> HIDE DEF t
  <2>4. /\ body' = t.body /\ met' = t.met /\ whole' = t.whole
        /\ ent' = [b \in Body |-> IF b \in Awake THEN UpdateToSrv(t.body[b]) ELSE ent[b]]
    BY <2>2 DEF t
  <2>5. ent' \in [Body -> Entities]
    <3>1. \A b \in Body : UpdateToSrv(t.body[b]) \in Entities
      BY <2>3 DEF UpdateToSrv, Entities, Bodies
    <3> QED  BY <1>1, <2>4, <3>1
  <2>6. Setting'
    BY <1>1, <1>3, <2>1
  <2>7. PairsStayApart'
    BY <2>3, <2>4 DEF PairsStayApart, Stepped, Now
  <2>8. StepIsElastic
    <3>1. left = [b \in Awake |-> body'[b].vel]
      BY <2>4
    <3> HIDE DEF left
    <3>2. SUFFICES ASSUME whole', \A b \in Awake : met'[b] \subseteq Body
                   PROVE  Momentum(left) = Momentum(forced) /\ Energy(left) = Energy(forced)
      BY <3>1 DEF StepIsElastic
    <3> QED  BY <2>3, <2>4, <3>2
  <2> QED  BY <2>3, <2>4, <2>5, <2>6, <2>7, <2>8 DEF PhysicsInv
<1>5. CASE AddEntity
  <2>1. met' = <<>> /\ hulls' = hulls /\ gravity' = gravity
    BY <1>5 DEF AddEntity, NoStep
  <2> DEFINE s == [awake |-> awake, body |-> body, ent |-> ent]
  <2>2. PICK b \in Body \ Awake, place \in Places : Become(AddBody(s, b, place))
    BY <1>5 DEF AddEntity, NoStep
  <2>3. s \in [awake : Seq(Body), body : [Body -> Bodies], ent : [Body -> Entities]] /\ s.awake = awake
    BY <1>1
  <2> HIDE DEF s
  <2>4. place \in Vector /\ b \notin ToSet(s.awake)
    BY <2>2, <2>3, PhysicsAssumption DEF Awake
  <2> DEFINE t == AddBody(s, b, place)
  <2>5. /\ t \in [awake : Seq(Body), body : [Body -> Bodies], ent : [Body -> Entities]]
        /\ IsInjective(t.awake)
    BY <1>1, <2>3, <2>4, BodyAdded
  <2> HIDE DEF t
  <2>6. awake' = t.awake /\ body' = t.body /\ ent' = t.ent
    BY <2>2 DEF Become, t
  <2>7. Setting'
    BY <1>1, <1>3, <2>1, <2>5, <2>6
  <2> QED  BY <1>2, <2>1, <2>5, <2>6, <2>7 DEF PhysicsInv
<1>6. CASE RemoveBody
  <2>1. /\ met' = <<>> /\ hulls' = hulls /\ gravity' = gravity /\ body' = body /\ ent' = ent
        /\ \E k \in DOMAIN awake : awake' = RemoveAt(awake, k)
    BY <1>6 DEF RemoveBody, NoStep
  <2>2. awake' \in Seq(Body) /\ IsInjective(awake')
    BY <1>1, <2>1, BodyRemoved DEF Setting
  <2>3. Setting'
    BY <1>1, <1>3, <2>1, <2>2
  <2> QED  BY <1>1, <1>2, <2>1, <2>3 DEF PhysicsInv
<1>7. ASSUME NEW world \in Worlds \cup {<<>>}
      PROVE  world \in Seq(Hulls) /\ \A k \in DOMAIN world : world[k] \notin Body
  <2>1. CASE world \in Worlds
    BY <2>1, PhysicsAssumption
  <2>2. CASE world = <<>>
    <3>1. world \in Seq(Hulls) /\ DOMAIN world = {}
      BY <2>2
    <3> QED  BY <3>1
  <2> QED  BY <2>1, <2>2
<1>8. CASE LoadMap
  <2>1. met' = <<>> /\ awake' = awake /\ gravity' = gravity /\ body' = body /\ ent' = ent
    BY <1>8 DEF LoadMap, NoStep
  <2>2. PICK world \in Worlds \cup {<<>>} : hulls' = world
    BY <1>8 DEF LoadMap, SetupWorld
  <2>3. Setting'
    BY <1>1, <1>3, <1>7, <2>1, <2>2
  <2> QED  BY <1>1, <1>2, <2>1, <2>3 DEF PhysicsInv
<1>9. CASE LoadLevel
  <2> DEFINE s == [awake |-> <<>>, body |-> body, ent |-> ent]
  <2>1. met' = <<>> /\ gravity' = Gravity
    BY <1>9 DEF LoadLevel, NoStep, SetGravity
  <2>2. PICK world \in Worlds \cup {<<>>}, B \in SUBSET Body : \E places \in [B -> Places] :
          hulls' = world /\ Become(AddBodies(s, SetToSeq(B), places))
    BY <1>9 DEF LoadLevel, SetupWorld
  <2>3. PICK places \in [B -> Places] : hulls' = world /\ Become(AddBodies(s, SetToSeq(B), places))
    BY <2>2
  <2> DEFINE t == AddBodies(s, SetToSeq(B), places)
  <2>4. /\ t \in [awake : Seq(Body), body : [Body -> Bodies], ent : [Body -> Entities]]
        /\ IsInjective(t.awake)
    BY <1>1, BodiesAdded
  <2> HIDE DEF t
  <2>5. awake' = t.awake /\ body' = t.body /\ ent' = t.ent
    BY <2>3 DEF Become, t
  <2>6. Setting'
    BY <1>3, <1>7, <2>1, <2>3, <2>4, <2>5, PhysicsAssumption
  <2> QED  BY <1>2, <2>1, <2>4, <2>5, <2>6 DEF PhysicsInv
<1>10. CASE Restart
  <2>1. met' = <<>> /\ awake' = <<>> /\ hulls' = <<>> /\ gravity' = Origin /\ body' = body /\ ent' = ent
    BY <1>10 DEF Restart, NoStep, SetupWorld, SetGravity
  <2>2. Setting'
    BY <1>3, <1>7, <2>1, NobodyListed, OriginVector
  <2> QED  BY <1>1, <1>2, <2>1, <2>2 DEF PhysicsInv
<1>11. CASE UNCHANGED physVars
  <2>1. PhysicsInv'
    BY <1>11 DEF physVars, PhysicsInv, Setting, Listed, PairsStayApart, Stepped, Now
  <2> QED  BY <1>11, <2>1
<1> QED  BY <1>4, <1>5, <1>6, <1>8, <1>9, <1>10, <1>11 DEF PhysicsNext

\* Every server's Simulate, AddBody, RemoveBody, SetupWorld and restart keeps it.
LEMMA PhysicsInvariance == PhysicsSpec => []PhysicsInv
<1>1. PhysicsInv /\ [PhysicsNext]_physVars => PhysicsInv'
  BY PhysicsSteps
<1> QED  BY <1>1, PhysicsStarts, PTL DEF PhysicsSpec

\* Whatever the bodies, their masses, boxes and pushes, the list's order and the maps:
\* two bodies that met nothing but each other in a step, and did not touch before it,
\* do not overlap after it.  BodyClsnCheck misses no collision, and its second check of the pair
\* does not undo the first.
THEOREM PhysicsPairsStayApart == PhysicsSpec => []PairsStayApart
<1>1. PhysicsInv => PairsStayApart
  BY DEF PhysicsInv
<1> QED  BY <1>1, PhysicsInvariance, PTL

\* However many bodies collide, of whatever masses, and how often each: a step that
\* meets no hull, and whose collisions come out in whole units, has the momentum and
\* the energy that the forces left.
THEOREM PhysicsCollisionsAreElastic == PhysicsSpec => CollisionsAreElastic
<1>1. PhysicsInv /\ [PhysicsNext]_physVars => [StepIsElastic]_physVars
  BY PhysicsSteps
<1> QED  BY <1>1, PhysicsInvariance, PTL DEF PhysicsSpec, CollisionsAreElastic
=============================================================================
