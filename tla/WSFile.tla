------------------------------- MODULE WSFile -------------------------------
(***************************************************************************)
(* The compiler of 3D World Studio maps, CWSFile (ws_sys/ws_file.cpp): the *)
(* objects of the editor's file are counted, read, sorted by visibility    *)
(* group, material and light map, and saved as a Legacy World.             *)
(*                                                                         *)
(* A file is the sequence of its objects; an object refers to another by   *)
(* its place in the file, 0 for none.  Triangles stand for their vertexes  *)
(* and planes for the faces they lie in; a triangle is <<b, i, k>>, the    *)
(* k-th of face i of the brush that is object b.  Names, colours, texture  *)
(* coordinates, the order of the vertexes in a triangle and the scale are  *)
(* left out.                                                               *)
(***************************************************************************)
EXTENDS Integers, SequencesExt, FiniteSetsExt

NoLightmap == -1    \* 0xFFFFFFFF

\* The objects of a kind, in the order of the file.
Kind(ws, k) == SelectSeq([n \in 1..Len(ws) |-> n], LAMBDA n : ws[n].kind = k)

\* The index a reference becomes: that of the object it names.  A reference
\* that names none stays as it is and is taken for an index later on.
IndexOf(ref, refs) ==
  IF Contains(refs, ref) THEN (CHOOSE i \in DOMAIN refs : refs[i] = ref) - 1
  ELSE ref

SumOf(s) == FoldLeft(LAMBDA x, y : x + y, 0, s)

\* The triangles of a face, and those of the faces in fs.
Fan(f) == [k \in 1..f.tris |-> <<f.brush, f.face, k>>]
Fans(fs) == FlattenSeq([i \in DOMAIN fs |-> Fan(fs[i])])

-----------------------------------------------------------------------------
(* GetCounts and GetObjects.                                               *)

\* The faces of the brush that is object n.
FacesOf(ws, n) ==
  [i \in DOMAIN ws[n].faces |->
     [brush |-> n, face |-> i, visible |-> ws[n].faces[i].visible,
      tris |-> ws[n].faces[i].tris, mat |-> ws[n].faces[i].mat,
      lm |-> ws[n].faces[i].lm, group |-> ws[n].group]]

Visible(fs) == SelectSeq(fs, LAMBDA f : f.visible)

\* m_nFaceCount, m_nVisibleFaceCount and m_nVertexCount (in triangles).
Counts(ws) ==
  LET fs == FlattenSeq([b \in DOMAIN Kind(ws, "brush") |->
                          FacesOf(ws, Kind(ws, "brush")[b])])
      seen == Visible(fs)
  IN  [faces |-> Len(fs), visible |-> Len(seen),
       tris |-> SumOf([i \in DOMAIN seen |-> seen[i].tris])]

\* The brushes that are read: once all the visible vertexes have been, the
\* brushes that are left are skipped.
BrushesRead(ws) ==
  SelectSeq(Kind(ws, "brush"),
            LAMBDA n : \E m \in n..Len(ws) :
                         /\ ws[m].kind = "brush"
                         /\ Visible(FacesOf(ws, m)) # << >>)

AllRead(ws) == BrushesRead(ws) = Kind(ws, "brush")

\* What the memory of a face or block that is not read holds: what the last
\* map left there.
JunkFace(g, seen) ==
  [brush |-> 0, face |-> 0, visible |-> seen, tris |-> 1, mat |-> 0,
   lm |-> NoLightmap, group |-> g, first |-> 0]
JunkBlock(g) == [brush |-> 0, first |-> 0, count |-> 0, group |-> g]

\* m_pRasterFaces, each with the first of its triangles in m_pVertexes, and
\* its references made indexes (ModifyRefsAndVertexOrder).
RasterFaces(ws, junk) ==
  LET read == FlattenSeq([b \in DOMAIN BrushesRead(ws) |->
                            FacesOf(ws, BrushesRead(ws)[b])])
      before(i) == SumOf([j \in 1..(i - 1) |->
                            IF read[j].visible THEN read[j].tris ELSE 0])
  IN  [i \in 1..Counts(ws).faces |->
         IF i > Len(read) THEN JunkFace(junk.group, junk.visible)
         ELSE [read[i] EXCEPT !.mat = IndexOf(@, Kind(ws, "material")),
                              !.lm = IndexOf(@, Kind(ws, "lightmap")),
                              !.group = IndexOf(@, Kind(ws, "visgroup"))]
              @@ [first |-> before(i)]]

\* m_pVertexes.
Vertexes(ws) ==
  Fans(Visible(FlattenSeq([b \in DOMAIN BrushesRead(ws) |->
                             FacesOf(ws, BrushesRead(ws)[b])])))

\* m_pGeoFaces: the planes of all faces, hidden ones too.
GeoFaces(ws) ==
  FlattenSeq([b \in DOMAIN BrushesRead(ws) |->
                LET n == BrushesRead(ws)[b]
                IN  [i \in DOMAIN ws[n].faces |-> <<n, i>>]])

\* m_pGeoBlocks.
GeoBlocks(ws, junk) ==
  LET read == BrushesRead(ws)
      size(b) == Len(ws[read[b]].faces)
  IN  [b \in DOMAIN Kind(ws, "brush") |->
         IF b > Len(read) THEN JunkBlock(junk.group)
         ELSE [brush |-> read[b],
               first |-> SumOf([c \in 1..(b - 1) |-> size(c)]),
               count |-> size(b),
               group |-> IndexOf(ws[read[b]].group, Kind(ws, "visgroup"))]]

\* m_pLights.
Lights(ws) ==
  LET ls == Kind(ws, "light")
  IN  [l \in DOMAIN ls |->
         [light |-> ls[l],
          group |-> IndexOf(ws[ls[l]].group, Kind(ws, "visgroup"))]]

-----------------------------------------------------------------------------
(* SortAndCompactGeoObjects and SortAndCompactEntitys.                     *)

OfGroup(s, g) == SelectSeq(s, LAMBDA x : x.group = g)
InOrder(s, G) == FlattenSeq([g \in 1..G |-> OfGroup(s, g - 1)])

\* The items sorted by group in place; those of no group are overwritten.
ByGroup(s, G) ==
  InOrder(s, G) \o SubSeq(s, Len(InOrder(s, G)) + 1, Len(s))

\* The first item of group g and their number.  The loop ends when all items
\* are sorted: the groups it does not come to keep 0.
FirstOf(s, g) ==
  LET before(h) == Len(InOrder(s, h))
  IN  IF g <= 1 \/ before(g - 1) < Len(s) THEN before(g) ELSE 0
CountOf(s, g) == Len(OfGroup(s, g))

-----------------------------------------------------------------------------
(* SortAndCompactRasterObjects.                                            *)

\* The light maps of a material in the order of the passes, none last.
Passes(ws) ==
  [l \in 1..Len(Kind(ws, "lightmap")) |-> l - 1] \o <<NoLightmap>>

\* A slip: the faces with no light map have no pass of their own.
FacesOfGroupLit(ws, fs, g) ==
  FlattenSeq([m \in 1..Max({1, Len(Kind(ws, "material"))}) |->
    FlattenSeq([p \in DOMAIN Kind(ws, "lightmap") |->
      SelectSeq(fs, LAMBDA f : /\ f.visible /\ f.group = g
                               /\ f.mat = m - 1 /\ f.lm = p - 1)])])

\* The faces of group g: by material, by light map, as they were.
FacesOfGroup(ws, fs, g) ==
  FlattenSeq([m \in 1..Max({1, Len(Kind(ws, "material"))}) |->
    FlattenSeq([p \in DOMAIN Passes(ws) |->
      SelectSeq(fs, LAMBDA f : /\ f.visible /\ f.group = g
                               /\ f.mat = m - 1 /\ f.lm = Passes(ws)[p])])])

\* At most m_nVisibleFaceCount faces are kept; their groups follow each other.
SortedFaces(ws, fs) ==
  LET all == FlattenSeq([g \in 1..Len(Kind(ws, "visgroup")) |->
                           FacesOfGroup(ws, fs, g - 1)])
  IN  SubSeq(all, 1, Min({Len(all), Counts(ws).visible}))

\* The vertexes follow the faces.
SortedVertexes(fs, verts) ==
  FlattenSeq([i \in DOMAIN fs |->
                SubSeq(verts, fs[i].first + 1, fs[i].first + fs[i].tris)])

\* The segments of group g: neighbours of one material and light map are one.
Segments(fs, g) ==
  LET mine == {i \in DOMAIN fs : fs[i].group = g}
      starts(i) == \/ i - 1 \notin mine
                   \/ fs[i - 1].mat # fs[i].mat \/ fs[i - 1].lm # fs[i].lm
      heads == SetToSortSeq({i \in mine : starts(i)}, LAMBDA i, j : i < j)
      last(h) == IF h = Len(heads) THEN Max(mine) ELSE heads[h + 1] - 1
  IN  [h \in DOMAIN heads |->
         [first |-> SumOf([j \in 1..(heads[h] - 1) |-> fs[j].tris]),
          tris |-> SumOf([j \in 1..(last(h) - heads[h] + 1) |->
                            fs[heads[h] + j - 1].tris]),
          mat |-> fs[heads[h]].mat, lm |-> fs[heads[h]].lm]]

-----------------------------------------------------------------------------
(* Load and SaveAsLW: the Legacy World a map becomes.                      *)

Region(segs, verts, blocks, lights, g) ==
  LET first == SumOf([h \in 1..g |-> Len(segs[h])])
      own == segs[g + 1]
      tris == SumOf([j \in DOMAIN own |-> own[j].tris])
  IN  [firstSeg |-> first, segs |-> Len(own),
       firstBlock |-> FirstOf(blocks, g), blocks |-> CountOf(blocks, g),
       firstLight |-> FirstOf(lights, g), lights |-> CountOf(lights, g),
       bounds |-> IF own = << >> THEN {}
                  ELSE ToSet(SubSeq(verts, own[1].first + 1,
                                    own[1].first + tris))]

LegacyWorld(ws, junk) ==
  LET G == Len(Kind(ws, "visgroup"))
      faces == SortedFaces(ws, RasterFaces(ws, junk))
      verts == SortedVertexes(faces, Vertexes(ws))
      segs == [g \in 1..G |-> Segments(faces, g - 1)]
      blocks == GeoBlocks(ws, junk)
      lights == Lights(ws)
  IN  [verts |-> verts \o SubSeq(Vertexes(ws), Len(verts) + 1,
                                 Len(Vertexes(ws))),
       materials |-> Kind(ws, "material"), lms |-> Kind(ws, "lightmap"),
       segs |-> FlattenSeq(segs),
       regions |-> [g \in 1..G |-> Region(segs, verts, blocks, lights, g - 1)],
       blocks |-> ByGroup(blocks, G), planes |-> GeoFaces(ws),
       lights |-> ByGroup(lights, G)]
=============================================================================
