------------------------------ MODULE MeshMgr -------------------------------
(***************************************************************************)
(* The meshes of CLMMgr and CLMeshMgr (engine/lg_mmgr.cpp) and of CLMeshLG *)
(* (lm_sys/lm_mesh_lg.cpp).  A mesh of the pool has vertex and index       *)
(* buffers of its own; with MM_NOD3D a mesh is loaded without them, until  *)
(* it is asked for without the flag.  The other flags are not looked at.   *)
(***************************************************************************)
EXTENDS PoolMgr

VARIABLE buffers  \* the name whose data is in m_pVB and m_pIB of each mesh

meshVars == <<poolVars, buffers>>

MeshInit ==
  /\ PoolInit
  /\ buffers = [m \in Items |-> NoName]

\* The meshes after Load has unloaded what was in the one DoLoad popped.
Popped(f) ==
  IF CallsDoLoad(f) /\ free # << >>
  THEN [buffers EXCEPT ![Head(free)] = NoName] ELSE buffers

\* GetInterface, of the table's items: there is no default mesh.
GetInterface(items, ref) == IF ref = DefaultItem THEN Null ELSE items[ref - 1]

\* MakeD3DReady makes no buffers for a mesh that has some, and leaves the mesh as
\* it was when they cannot be made.
MakeD3DReady(mesh, f, b) ==
  IF mesh = Null \/ b[mesh] # NoName THEN {b} ELSE {b, [b EXCEPT ![mesh] = f]}

\* DoLoad, of which PoolLoad chooses whether the file loads.
DoLoad(f, nod3d) ==
  IF nod3d \/ ~CallsDoLoad(f) THEN {Popped(f)}
  ELSE MakeD3DReady(GetInterface(item', result'), f, Popped(f))

\* LoadMesh asks for the buffers again, and when the mesh was in the table.
LoadMesh(f, nod3d) ==
  /\ PoolLoad(f)
  /\ \E b \in DoLoad(f, nod3d) :
       buffers' \in IF nod3d \/ looped' THEN {b}
                    ELSE MakeD3DReady(GetInterface(item', result'), f, b)

\* A slip: the buffers are not released.
UnloadMeshKeepsBuffers(l) ==
  /\ PoolUnload(l)
  /\ UNCHANGED buffers

\* Unload of the mesh at l.
UnloadMesh(l) ==
  /\ PoolUnload(l)
  /\ buffers' = [buffers EXCEPT ![item[l]] = NoName]

UnloadMeshes ==
  /\ PoolUnloadItems
  /\ buffers' = [m \in Items |-> IF m \in Held THEN NoName ELSE buffers[m]]

MeshNext ==
  \/ \E f \in Names, nod3d \in BOOLEAN : LoadMesh(f, nod3d)
  \/ \E l \in Loc : UnloadMesh(l)
  \/ UnloadMeshes

MeshSpec == MeshInit /\ [][MeshNext]_meshVars

-----------------------------------------------------------------------------
(* Properties.                                                             *)

\* Only meshes of the table have buffers, and each has those of the file it is
\* in the table for: nothing is drawn under another's name, and a mesh that
\* goes back to the pool holds nothing of Direct3D's.
DrawnUnderItsName ==
  \A m \in Items :
    buffers[m] # NoName => \E l \in Named : item[l] = m /\ name[l] = buffers[m]
=============================================================================
