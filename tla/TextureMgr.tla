----------------------------- MODULE TextureMgr -----------------------------
(***************************************************************************)
(* CLTMgr (engine/lg_tmgr.cpp): the hash manager of the textures.  DoLoad  *)
(* has Direct3D create a texture, DoDestroy releases it.  Textures made    *)
(* from memory (lightmaps) have no name to hash and go to the first empty  *)
(* location, among the others.                                             *)
(***************************************************************************)
EXTENDS HashMgr

VARIABLE alive  \* the textures Direct3D has created and not released

vars == <<hashVars, alive>>

\* The default texture may be missing, and is in the table at location 0.
Init ==
  /\ HashInit
  /\ alive = {}

Created == CHOOSE t \in Items : t \notin alive

\* Load with DoLoad, which creates the texture or finds no valid file.
Load(f) ==
  /\ Running
  /\ \/ (LoadThrows(f) \/ LoadObtains(f) \/ LoadHasNoRoom(f) \/ LoadFails(f))
          /\ UNCHANGED alive
     \/ /\ Items \ alive # {}
        /\ LoadStores(f, Created)
        /\ alive' = alive \cup {Created}

\* Direct3D does not create the texture.
LoadTextureMemFails ==
  /\ Running
  /\ result' = DefaultItem
  /\ UNCHANGED <<tableVars, looped, alive>>

\* A slip: a location is taken without a look whether it is empty.
LoadTextureMemAnywhere ==
  /\ Running
  /\ Items \ alive # {}
  /\ code' = [code EXCEPT ![1] = Memory]
  /\ item' = [item EXCEPT ![1] = Created]
  /\ name' = [name EXCEPT ![1] = NoName]
  /\ result' = 2
  /\ alive' = alive \cup {Created}
  /\ UNCHANGED <<count, looped>>

\* LoadTextureMem.  When there is no room the new texture is not released.
LoadTextureMem ==
  /\ Running
  /\ Items \ alive # {}
  /\ LET holes == {l \in Home : code[l] = Empty}
     IN  \/ /\ holes # {}
            /\ code' = [code EXCEPT ![Min(holes)] = Memory]
            /\ item' = [item EXCEPT ![Min(holes)] = Created]
            /\ name' = [name EXCEPT ![Min(holes)] = NoName]
            /\ result' = Min(holes) + 1
         \/ /\ holes = {}
            /\ result' = DefaultItem
            /\ UNCHANGED <<code, item, name>>
  /\ alive' = alive \cup {Created}
  /\ UNCHANGED <<count, looped>>

\* A slip: the texture is released and its location is not emptied.
UnloadKeepsLocation(l) ==
  /\ Running
  /\ l \in Home /\ code[l] # Empty
  /\ alive' = alive \ {item[l]}
  /\ result' = NullItem
  /\ UNCHANGED <<tableVars, looped>>

Unload(l) ==
  /\ Running
  /\ UnloadItem(l)
  /\ alive' = alive \ {item[l]}

UnloadItems ==
  /\ Running
  /\ DropAll
  /\ alive' = alive \ {item[l] : l \in Home}

Next ==
  \/ \E f \in Names : Load(f)
  \/ LoadTextureMem \/ LoadTextureMemFails
  \/ \E l \in Loc : Unload(l)
  \/ UnloadItems

Spec == Init /\ [][Next]_vars

-----------------------------------------------------------------------------
(* Properties.                                                             *)

\* Every location in use has a texture of its own that has not been released:
\* a reference that was given out draws what was loaded, until it is unloaded.
HeldAreAlive ==
  /\ \A l \in Used : item[l] \in alive
  /\ \A l, m \in Used : item[l] = item[m] => l = m
=============================================================================
