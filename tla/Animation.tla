----------------------------- MODULE Animation ------------------------------
(***************************************************************************)
(* How an entity comes to move its limbs.  In the server's frame its AI    *)
(* (game/lw_ai_test.cpp) may write into m_nAnimFlags1 which animation it   *)
(* wants, with a bit that says so and that the next frame of the server    *)
(* clears.  In the client's frame (engine/lw_client.cpp) Update hands the  *)
(* flags of each entity to its mesh tree, and Render lets each tree go on  *)
(* by the time of the server's timer and draws it.  A client that connects *)
(* makes new trees; PAUSE keeps the server, with its flags and its timer,  *)
(* as it is, while the client goes on, by the last step of the timer.      *)
(*                                                                         *)
(* The entities, once the level is loaded, are those of Kind: what becomes *)
(* of them otherwise is in World, and so are refused connections.          *)
(***************************************************************************)
EXTENDS MeshTree, SequencesExt

CONSTANTS
  Ents,      \* the entities, in the order of m_EntsAll
  Kind,      \* whose AI each has: "jack", "blaine" or "default"
  Model,     \* what LX_LoadMeshTree reads for each:
             \* [mesh, parent, defSkel: by node, skels: by number]
  Second,    \* ticks in a second, 51.1 in LWAI_SetAnim
  MaxStep    \* bound: the longest frame, in ticks

Ent == ToSet(Ents)
Nodes(e) == DOMAIN Model[e].mesh
Mesh == UNION {ToSet(Model[e].mesh) : e \in Ent}
Skeletons(e) == ToSet(Model[e].skels) \cup ToSet(Model[e].defSkel)

ASSUME AnimationAssumption ==
  /\ Second \in Nat \ {0}
  /\ MaxStep \in Nat
  /\ Ents \in Seq(Ent)
  /\ \A e \in Ent :
       /\ Kind[e] \in {"jack", "blaine", "default"}
       /\ Model[e].mesh \in Seq(Mesh) /\ 1 \in Nodes(e)
       /\ Model[e].parent[1] = 1
       /\ \A n \in Nodes(e) \ {1} : Model[e].parent[n] \in 1..(n - 1)
       /\ Model[e].skels \in Seq(Skeletons(e)) /\ Len(Model[e].skels) > 0
       /\ Model[e].defSkel \in [Nodes(e) -> Skeletons(e)]

\* A skeleton that loaded has an animation, and each animation a frame.
ASSUME SkeletonsAssumption ==
  \A e \in Ent : \A skel \in Skeletons(e) \ {NoSkel} :
    /\ Anims[skel] \in Seq([first : Nat, num : Nat \ {0}, loopback : BOOLEAN])
    /\ Len(Anims[skel]) > 0

VARIABLES
  flags,     \* m_nAnimFlags1
  mode,      \* nMode of a Jack's data is 1
  step,      \* m_fElapsed of the server's timer
  paused,    \* LSRV_FLAG_PAUSED
  tree,      \* m_MeshTree of each entity's raster info: its nodes
  meshes,    \* the pose each mesh is set up for
  drawn,     \* what Render drew of each entity, by node
  phase,     \* where in the game's frame the main loop is
  said       \* history: what the AI last asked for since the client connected

vars == <<flags, mode, step, paused, tree, meshes, drawn, phase, said>>

-----------------------------------------------------------------------------
(* The flags.                                                              *)

\* LWAI_SetAnim, with speed and transition time in tenths of a second, cut
\* down to whole ticks.  Every AI animates the first node.
SetAnim(skel, speed, trans) ==
  [change |-> TRUE, node |-> 1, skel |-> skel, anim |-> 0,
   speed |-> (speed * Second) \div 10, trans |-> (trans * Second) \div 10]

\* LG_UnsetFlag(flag, LWAI_ANIM_CHANGE).
Unset(flag) ==
  [change |-> FALSE, node |-> flag.node, skel |-> flag.skel,
   anim |-> flag.anim, speed |-> flag.speed, trans |-> flag.trans]

\* The flags of an entity that never moved.
NoAnim == Unset(SetAnim(0, 0, 0))

\* The clip that the flags of an entity mean: numbers are clamped.
SkelOf(e, skel) ==
  LET skels == Model[e].skels
  IN  skels[IF skel < Len(skels) THEN skel + 1 ELSE Len(skels)]
ClipOf(e, flag) == Clip(SkelOf(e, flag.skel), flag.anim)

\* Init of the AI.
InitFlags(e) == IF Kind[e] = "jack" THEN SetAnim(0, 10, 0) ELSE NoAnim

-----------------------------------------------------------------------------
(* The client's trees.                                                     *)

\* CLMeshTree::SetAnimation(flags).
SetAnimation(e, nodes, flag) ==
  IF ~flag.change THEN nodes
  ELSE [nodes EXCEPT ![flag.node] =
          SetClip(@, ClipOf(e, flag), flag.speed, flag.trans)]

\* CreateRasterInfo: Load, and the first animation of the tree.
NewTree(e) ==
  SetAnimation(e, [n \in Nodes(e) |-> NewNode(Model[e].defSkel[n], Second)],
               SetAnim(0, 20, 0))

\* UpdateEntSrvToCli, for all entities: what the client copies of the server's
\* it copies again in every frame; the trees it makes only here.
UpdateEntSrvToCli == [e \in Ent |-> NewTree(e)]

\* CLMeshTree::Update: every node; those with a skeleton set up their meshes,
\* in the order of their numbers.
UpdateTree(nodes, dt) == [n \in DOMAIN nodes |-> UpdateNode(nodes[n], dt)]

Setters(e, nodes, m) ==
  {n \in Nodes(e) : Model[e].mesh[n] = m /\ nodes[n].cur.skel # NoSkel}

\* The pose of mesh m once the first k trees were updated.
PoseAfter(trees, k, m) ==
  LET users == {i \in 1..k : Setters(Ents[i], trees[Ents[i]], m) # {}}
      last == Ents[Max(users)]
  IN  IF users = {} THEN meshes[m]
      ELSE Pose(trees[last][Max(Setters(last, trees[last], m))])

\* CLMeshTree::Render, of the tree updated last: each node with the pose of
\* its mesh, at a joint of its parent's mesh.
RenderTree(trees, k) ==
  LET model == Model[Ents[k]]
  IN  [n \in Nodes(Ents[k]) |->
         [pose |-> PoseAfter(trees, k, model.mesh[n]),
          on |-> PoseAfter(trees, k, model.mesh[model.parent[n]])]]

-----------------------------------------------------------------------------
(* The server.                                                             *)

\* CLWAIJack::PrePhys: the animation changes with whether it is moved.
JackAnim(e, moves) ==
  IF mode[e] = moves THEN Unset(flags[e])
  ELSE IF moves THEN SetAnim(1, 10, 3) ELSE SetAnim(0, 20, 3)

\* CLWAIBlaine::PrePhys: every five seconds it turns and walks on.
BlaineAnim(e, turns) ==
  IF turns THEN SetAnim(1, 10, 5) ELSE Unset(flags[e])

PrePhys(e, acts) ==
  IF Kind[e] = "jack" THEN JackAnim(e, acts)
  ELSE IF Kind[e] = "blaine" THEN BlaineAnim(e, acts)
  ELSE Unset(flags[e])

\* ProcessServer, with the entities in acting moved or turning.
ServerFrame ==
  /\ phase = "console" /\ ~paused
  /\ step' \in 0..MaxStep
  /\ \E acting \in SUBSET {e \in Ent : Kind[e] # "default"} :
       /\ flags' = [e \in Ent |-> PrePhys(e, e \in acting)]
       /\ mode' = [e \in Ent |-> Kind[e] = "jack" /\ e \in acting]
  /\ said' = [e \in Ent |-> IF flags'[e].change THEN flags'[e] ELSE said[e]]
  /\ phase' = "update"
  /\ UNCHANGED <<paused, tree, meshes, drawn>>

SkipServer ==
  /\ phase = "console" /\ paused
  /\ phase' = "update"
  /\ UNCHANGED <<flags, mode, step, paused, tree, meshes, drawn, said>>

-----------------------------------------------------------------------------
(* The client.                                                             *)

ClientUpdate ==
  /\ phase = "update" /\ phase' = "render"
  /\ tree' = [e \in Ent |-> SetAnimation(e, tree[e], flags[e])]
  /\ drawn' = [e \in Ent |-> << >>]
  /\ UNCHANGED <<flags, mode, step, paused, meshes, said>>

\* A slip: all trees are updated before the first is rendered.
RenderUpdated(trees) ==
  [e \in Ent |->
     LET model == Model[e]
     IN  [n \in Nodes(e) |->
            [pose |-> PoseAfter(trees, Len(Ents), model.mesh[n]),
             on |-> PoseAfter(trees, Len(Ents), model.mesh[model.parent[n]])]]]

\* The loop of Render: each tree is updated and rendered before the next.
RenderEnts(trees) ==
  [e \in Ent |-> RenderTree(trees, CHOOSE k \in DOMAIN Ents : Ents[k] = e)]

ClientRender ==
  /\ phase = "render" /\ phase' = "console"
  /\ LET trees == [e \in Ent |-> UpdateTree(tree[e], step)]
     IN  /\ tree' = trees
         /\ meshes' = [m \in Mesh |-> PoseAfter(trees, Len(Ents), m)]
         /\ drawn' = RenderEnts(trees)
  /\ UNCHANGED <<flags, mode, step, paused, said>>

-----------------------------------------------------------------------------
(* Commands, between two frames.                                           *)

\* TogglePause; Resume updates the timer twice, so that no time has passed.
TogglePause ==
  /\ phase = "console"
  /\ paused' = ~paused
  /\ step' = IF paused THEN 0 ELSE step
  /\ UNCHANGED <<flags, mode, tree, meshes, drawn, phase, said>>

\* CONNECT while connected: Disconnect, and the entities once more.
Reconnect ==
  /\ phase = "console"
  /\ tree' = UpdateEntSrvToCli
  /\ drawn' = [e \in Ent |-> << >>]
  /\ said' = [e \in Ent |-> NoAnim]
  /\ UNCHANGED <<flags, mode, step, paused, meshes, phase>>

-----------------------------------------------------------------------------
\* The matrices of a mesh that was never set up.
NoPose == [from |-> Start, to |-> 0, done |-> Start]

Init ==
  /\ flags = [e \in Ent |-> InitFlags(e)]
  /\ mode = [e \in Ent |-> FALSE]
  /\ step = 0 /\ paused = FALSE
  /\ tree = UpdateEntSrvToCli
  /\ meshes = [m \in Mesh |-> NoPose]
  /\ drawn = [e \in Ent |-> << >>]
  /\ phase = "console"
  /\ said = [e \in Ent |-> NoAnim]

Frame == ServerFrame \/ SkipServer \/ ClientUpdate \/ ClientRender

Next == Frame \/ TogglePause \/ Reconnect

Spec == Init /\ [][Next]_vars

\* The main loop goes on, whatever is typed, and time goes on while the server
\* is not paused.  Frame and ServerFrame are enabled where these parts of them
\* are.
FrameGoesOn ==
  \/ phase = "console" /\ phase' = "update"
  \/ phase = "update" /\ phase' = "render"
  \/ phase = "render" /\ phase' = "console"

TimeGoesOn ==
  phase = "console" /\ ~paused /\ phase' = "update" /\ step' \in 1..MaxStep

FairSpec == Spec /\ WF_phase(FrameGoesOn) /\ SF_phase(TimeGoesOn)

-----------------------------------------------------------------------------
(* Properties.                                                             *)

\* The AI has said since the client connected what an entity is to do.
Said(e) == said[e].change

\* Whatever an entity was doing, in a transition or with a clip waiting, and
\* however often the flags of a paused server are handed on again: at the end
\* of a frame its tree does what its AI said last, or will once the transition
\* is over, and at the speed the AI said.
LastAskedWins ==
  phase \in {"render", "console"} =>
    \A e \in Ent : Said(e) /\ ClipOf(e, said[e]).skel # NoSkel =>
      LET n == tree[e][said[e].node]
      IN  Goal(n) = ClipOf(e, said[e]) /\ n.post = said[e].speed

\* The frames of a pose that is set up belong to the clip.
InClip(clip, frames) ==
  LET a == GetAnim(clip)
  IN  /\ frames.frame1 \in a.first..(a.first + a.num - 1)
      /\ frames.frame2 \in a.first..(a.first + a.num - 1)

\* A mesh that only this node of the tree has, in a skeleton's pose.
Own(e, n) ==
  /\ tree[e][n].cur.skel # NoSkel
  /\ \A k \in Nodes(e) \ {n} : Model[e].mesh[k] # Model[e].mesh[n]

\* Entities have their meshes in common, but each is drawn in the pose of its
\* own animation, its limbs at the joints of that pose too, and in frames that
\* are the animation's.  Two nodes of a tree are not to have one mesh, and a
\* node without a skeleton is drawn as its mesh was left.
DrawnInItsPose ==
  [][phase = "render" =>
       \A e \in Ent : \A n \in Nodes(e) : Own(e, n)' =>
         LET node == tree'[e][n]
             pose == drawn'[e][n].pose
         IN  /\ pose = Pose(node)
             /\ pose.from.t.whole # 0 =>
                  InClip(IF InTransition(node) THEN node.prev ELSE node.cur,
                         pose.from)
             /\ n > 1 /\ Own(e, Model[e].parent[n])' =>
                  drawn'[e][n].on = Pose(tree'[e][Model[e].parent[n]])]_vars

\* The skeletons of the node that is animated are all there.
Complete(e) == NoSkel \notin ToSet(Model[e].skels) \cup {Model[e].defSkel[1]}

\* The entity shows what its AI said last.
Shown(e) ==
  LET n == tree[e][said[e].node]
  IN  n.cur = ClipOf(e, said[e]) /\ ~InTransition(n)

\* What an AI says and does not change is done: the transition ends, the one
\* that waits takes its turn and ends as well, unless the server is paused or
\* a skeleton is missing, which stops the node for good.
AnimationsArrive ==
  \A e \in Ent : Complete(e) =>
    \/ []<>(~Said(e) \/ paused \/ Shown(e))
    \/ []<><<said'[e] # said[e]>>_vars
=============================================================================
