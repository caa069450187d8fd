------------------------------ MODULE MapLoad -------------------------------
(***************************************************************************)
(* A map on its way to the screen: LOADMAP (engine/lg_cmd.cpp) has the     *)
(* server's CLMap compile the editor's file to temp.lw and read that back  *)
(* (engine/lw_map.cpp), the physics engine copies the hulls                *)
(* (engine/lp_legacy.cpp), and the client, which connects again, loads the *)
(* textures and copies the vertexes to video memory (CLMapD3D).  What it   *)
(* draws is put together from the three copies.                            *)
(*                                                                         *)
(* The editor and the disk are external: the file may be absent or of      *)
(* another version, and temp.lw may not be writable.                       *)
(***************************************************************************)
EXTENDS WSFile

CONSTANTS
  Objects,      \* what the editor may add to a file
  NewFile,      \* what a file of the editor starts with
  MaxObjects,   \* bound: objects of a file
  MaxFaces,     \* bound: faces of a file
  Junk          \* what uninitialised faces and blocks hold

None == [loaded |-> FALSE]

ASSUME MapAssumption ==
  \A ws \in NewFile : \A k \in {"visgroup", "material"} : Kind(ws, k) # << >>

VARIABLES
  file,      \* the editor's file
  temp,      \* /dbase/maps/temp.lw, None when there is none
  running,   \* the server runs
  map,       \* the server's m_Map, None unless loaded
  hulls,     \* the physics engine's m_pGeoHulls and m_pGeoPlaneList
  drawn,     \* the client's m_Map
  step       \* how far LOADMAP has come

vars == <<file, temp, running, map, hulls, drawn, step>>

NoHulls == [hulls |-> << >>, planes |-> << >>]
NotSet == [set |-> FALSE, valid |-> FALSE, textures |-> << >>, lms |-> << >>,
           verts |-> << >>]

\* The client's map, with the textures and light maps loaded and, when valid,
\* the vertexes copied.
Set(textures, lms, valid, verts) ==
  [set |-> TRUE, valid |-> valid, textures |-> textures, lms |-> lms,
   verts |-> verts]

Init ==
  /\ file \in NewFile /\ temp = None
  /\ running = TRUE /\ map = None /\ hulls = NoHulls
  /\ drawn = NotSet /\ step = "idle"

-----------------------------------------------------------------------------
(* The editor adds an object to the file.                                  *)

Edit(o) ==
  /\ step = "idle" /\ Len(file) < MaxObjects
  /\ Counts(Append(file, o)).faces <= MaxFaces
  /\ file' = Append(file, o)
  /\ UNCHANGED <<temp, running, map, hulls, drawn, step>>

-----------------------------------------------------------------------------
(* LOADMAP.                                                                *)

\* CLWorldSrv::LoadMap; CLMap::Load unloads the map there is.  A file that
\* does not open, or is not a map, is the end of it.
LoadMap(opens) ==
  /\ step = "idle"
  /\ IF ~running THEN map' = map /\ step' = "connect"
     ELSE /\ map' = None
          /\ step' = IF opens THEN "save" ELSE "setup"
  /\ UNCHANGED <<file, temp, running, hulls, drawn>>

\* LoadFromWS.  Whether the world could be saved is not looked at.
SaveWorld(writes, junk) ==
  /\ step = "save" /\ step' = "read"
  /\ temp' = IF writes
             THEN [loaded |-> TRUE, of |-> file, lw |-> LegacyWorld(file, junk)]
             ELSE temp
  /\ UNCHANGED <<file, running, map, hulls, drawn>>

\* LoadReal.
LoadReal ==
  /\ step = "read" /\ step' = "setup"
  /\ map' = temp
  /\ UNCHANGED <<file, temp, running, hulls, drawn>>

\* The physics engine's SetupWorld.
HullsOf(m) ==
  IF ~m.loaded THEN NoHulls
  ELSE [hulls |-> [b \in DOMAIN m.lw.blocks |->
                     [first |-> m.lw.blocks[b].first,
                      count |-> m.lw.blocks[b].count]],
        planes |-> m.lw.planes]

SetupWorld ==
  /\ step = "setup" /\ step' = "connect"
  /\ hulls' = HullsOf(map)
  /\ UNCHANGED <<file, temp, running, map, drawn>>

\* Validate.  A buffer of no size cannot be created.
Validated(textures, lms, created) ==
  IF created /\ map.loaded /\ map.lw.verts # << >>
  THEN Set(textures, lms, TRUE, map.lw.verts)
  ELSE Set(textures, lms, FALSE, << >>)

\* CLMapD3D::Init, when the client connects: it is disconnected first.
MapInit(created) ==
  IF map.loaded THEN Validated(map.lw.materials, map.lw.lms, created)
  ELSE Set(<< >>, << >>, FALSE, << >>)

\* A slip: a client that is connected keeps the map it has.
ConnectLocalKeepsMap(created) ==
  /\ step = "connect" /\ step' = "idle"
  /\ drawn' = IF ~running THEN NotSet
              ELSE IF drawn.set THEN drawn ELSE MapInit(created)
  /\ UNCHANGED <<file, temp, running, map, hulls>>

ConnectLocal(created) ==
  /\ step = "connect" /\ step' = "idle"
  /\ drawn' = IF running THEN MapInit(created) ELSE NotSet
  /\ UNCHANGED <<file, temp, running, map, hulls>>

-----------------------------------------------------------------------------
(* Other commands.                                                         *)

\* CONNECT.
Connect ==
  /\ step = "idle" /\ step' = "connect"
  /\ UNCHANGED <<file, temp, running, map, hulls, drawn>>

\* DISCONNECT.
Disconnect ==
  /\ step = "idle" /\ drawn.set
  /\ drawn' = NotSet
  /\ UNCHANGED <<file, temp, running, map, hulls, step>>

\* The video is reset: the client's Invalidate and Validate.
Reset(created) ==
  /\ step = "idle" /\ drawn.set
  /\ drawn' = Validated(drawn.textures, drawn.lms, created)
  /\ UNCHANGED <<file, temp, running, map, hulls, step>>

\* SHUTDOWN_SRV; with a client connected the next frame fails (see World).
Shutdown ==
  /\ step = "idle" /\ running /\ ~drawn.set
  /\ running' = FALSE /\ map' = None /\ hulls' = NoHulls
  /\ UNCHANGED <<file, temp, drawn, step>>

\* INIT_SRV.
InitServer ==
  /\ step = "idle" /\ ~running
  /\ running' = TRUE /\ hulls' = NoHulls
  /\ UNCHANGED <<file, temp, map, drawn, step>>

Next ==
  \/ \E o \in Objects : Edit(o)
  \/ \E opens \in BOOLEAN : LoadMap(opens)
  \/ \E writes \in BOOLEAN, junk \in Junk : SaveWorld(writes, junk)
  \/ LoadReal
  \/ SetupWorld
  \/ \E created \in BOOLEAN : ConnectLocal(created) \/ Reset(created)
  \/ Connect
  \/ Disconnect
  \/ Shutdown
  \/ InitServer

Spec == Init /\ [][Next]_vars

-----------------------------------------------------------------------------
(* What the engine makes of the map.                                       *)

\* Render: the triangles of the segments of each region, with the material
\* and light map each is drawn with.
Slots ==
  IF ~drawn.valid \/ ~map.loaded THEN {}
  ELSE UNION {UNION {{<<r, s, t>> : t \in 1..map.lw.segs[s].tris} :
                     s \in (map.lw.regions[r].firstSeg + 1)..
                           (map.lw.regions[r].firstSeg
                              + map.lw.regions[r].segs)} :
              r \in DOMAIN map.lw.regions}

Draw(slot) ==
  LET seg == map.lw.segs[slot[2]]
  IN  [region |-> slot[1], tri |-> drawn.verts[seg.first + slot[3]],
       mat |-> drawn.textures[seg.mat + 1],
       lm |-> IF seg.lm = NoLightmap THEN 0 ELSE drawn.lms[seg.lm + 1]]

\* The planes a hull is bounded by.
HullPlanes(h) ==
  ToSet(SubSeq(hulls.planes, hulls.hulls[h].first + 1,
               hulls.hulls[h].first + hulls.hulls[h].count))

\* CheckRegions: the regions in whose bounds a triangle lies.
CheckRegions(tri) ==
  {r \in DOMAIN map.lw.regions : tri \in map.lw.regions[r].bounds}

\* The part of s a region lists, from its first and count.
Listed(s, first, count) == SubSeq(s, first + 1, first + count)

-----------------------------------------------------------------------------
(* What the editor's file says.                                            *)

RefOr1st(ref, refs) == IF ref = 0 THEN refs[1] ELSE ref
RegionOf(ws, ref) ==
  IndexOf(RefOr1st(ref, Kind(ws, "visgroup")), Kind(ws, "visgroup")) + 1

Authored(ws) ==
  UNION {UNION {{[region |-> RegionOf(ws, ws[n].group), tri |-> <<n, i, k>>,
                  mat |-> RefOr1st(ws[n].faces[i].mat, Kind(ws, "material")),
                  lm |-> IF ws[n].faces[i].lm = NoLightmap THEN 0
                         ELSE ws[n].faces[i].lm] :
                 k \in 1..ws[n].faces[i].tris} :
                i \in {j \in DOMAIN ws[n].faces : ws[n].faces[j].visible}} :
         n \in ToSet(Kind(ws, "brush"))}

-----------------------------------------------------------------------------
(* Properties.                                                             *)

\* Every visible triangle of the file is drawn once, in the region of its
\* visibility group, with its own material and light map, and lies in the
\* bounds of that region.
DrawnAsAuthored ==
  drawn.valid /\ map.loaded =>
    /\ {Draw(s) : s \in Slots} = Authored(map.of)
    /\ Cardinality(Slots) = Cardinality(Authored(map.of))
    /\ \A a \in Authored(map.of) : a.region \in CheckRegions(a.tri)

\* Every brush of the file, hidden or not, is one hull with its own planes.
HullsAreBrushes ==
  map.loaded =>
    LET planes(n) == {<<n, i>> : i \in DOMAIN map.of[n].faces}
        brushes == Kind(map.of, "brush")
    IN  /\ Len(hulls.hulls) = Len(brushes)
        /\ {HullPlanes(h) : h \in DOMAIN hulls.hulls}
             = {planes(n) : n \in ToSet(brushes)}

\* The blocks and the lights a region lists are those of its group.
RegionsListTheirOwn ==
  map.loaded =>
    \A r \in DOMAIN map.lw.regions :
      LET reg == map.lw.regions[r]
          own(k) == {n \in ToSet(Kind(map.of, k)) :
                       RegionOf(map.of, map.of[n].group) = r}
      IN  /\ {b.brush : b \in ToSet(Listed(map.lw.blocks, reg.firstBlock,
                                           reg.blocks))} = own("brush")
          /\ {l.light : l \in ToSet(Listed(map.lw.lights, reg.firstLight,
                                           reg.lights))} = own("light")

\* Between frames the physics engine has the hulls, and the client the
\* vertexes and textures, of the map the server has; without a map there are
\* none.  No copy of the last map is left behind, whichever step failed.
CopiesAgree ==
  step = "idle" =>
    /\ hulls = HullsOf(map)
    /\ drawn.valid => /\ map.loaded
                      /\ drawn.verts = map.lw.verts
                      /\ drawn.textures = map.lw.materials
                      /\ drawn.lms = map.lw.lms

\* What is drawn, collided with and lit is the map as its author made it, when
\* all its brushes are read: those after the last visible face are not (the
\* test in GetObjects).  None of it is of another map.
MapIsAsAuthored ==
  /\ CopiesAgree
  /\ step = "idle" /\ map.loaded /\ AllRead(map.of) =>
       DrawnAsAuthored /\ HullsAreBrushes /\ RegionsListTheirOwn

\* "No matter what the previous map will no longer be loaded" (LoadMap's
\* comment): the world that is read is that of the file that was asked for.
\* It is not so when temp.lw cannot be written: the last one is read again.
PreviousMapIsGone ==
  [][step = "read" /\ map'.loaded => map'.of = file]_vars
=============================================================================
