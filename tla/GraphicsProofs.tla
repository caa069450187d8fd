--------------------------- MODULE GraphicsProofs ---------------------------
(* Proofs about MapLoad and VideoReset: what the client draws is the         *)
(* server's map, and the screen comes back after the device was away.        *)
EXTENDS MapLoad, VideoReset, SequenceLemmas

-----------------------------------------------------------------------------
(* MapLoad.  What the compiler makes of a file is not looked into: the       *)
(* argument is about who copies which map when.                              *)

Steps == {"idle", "save", "read", "setup", "connect"}

\* The client's map is valid only when it is set.
IsMapD3D(d) == d.valid => d.set

\* What the client has of the map m; it keeps the textures when it is invalid,
\* and a later Validate relies on that.
Shows(d, m) ==
  /\ d.set /\ m.loaded => d.textures = m.lw.materials /\ d.lms = m.lw.lms
  /\ d.valid => m.loaded /\ d.verts = m.lw.verts

\* The hulls are those of the map from SetupWorld on, the client's part from
\* ConnectLocal on; a server that does not run has no map, and LOADMAP goes on
\* with it at once.
MapInv ==
  /\ step \in Steps
  /\ IsMapD3D(drawn)
  /\ step \in {"idle", "connect"} => hulls = HullsOf(map)
  /\ step = "idle" => Shows(drawn, map)
  /\ step \in {"save", "read", "setup"} => running
  /\ ~running => map = None

LEMMA NoneHasNoHulls == HullsOf(None) = NoHulls
  BY DEF HullsOf, None

LEMMA NotSetIsMapD3D == IsMapD3D(NotSet) /\ ~NotSet.valid /\ ~NotSet.set
  BY DEF IsMapD3D, NotSet

\* Validate gives the client the vertexes of the map, or leaves it invalid.
LEMMA ValidatedShows ==
  ASSUME NEW textures, NEW lms, NEW created \in BOOLEAN,
         map.loaded => textures = map.lw.materials /\ lms = map.lw.lms
  PROVE  /\ IsMapD3D(Validated(textures, lms, created))
         /\ Shows(Validated(textures, lms, created), map)
  BY DEF IsMapD3D, Validated, Set, Shows

LEMMA MapInitShows ==
  ASSUME NEW created \in BOOLEAN
  PROVE  IsMapD3D(MapInit(created)) /\ Shows(MapInit(created), map)
<1>1. CASE map.loaded
  BY <1>1, ValidatedShows DEF MapInit
<1>2. CASE ~map.loaded
  BY <1>2 DEF MapInit, Set, IsMapD3D, Shows
<1> QED
  BY <1>1, <1>2

LEMMA MapInitially == Init => MapInv
  BY NoneHasNoHulls, NotSetIsMapD3D DEF Init, MapInv, Steps, Shows

LEMMA MapStep == MapInv /\ [Next]_vars => MapInv'
<1> SUFFICES ASSUME MapInv, [Next]_vars PROVE MapInv'
  OBVIOUS
<1>1. ASSUME NEW o \in Objects, Edit(o) PROVE MapInv'
  BY <1>1 DEF MapInv, Edit, Shows, HullsOf
<1>2. ASSUME NEW opens \in BOOLEAN, LoadMap(opens) PROVE MapInv'
  <2>1. CASE running
    BY <1>2, <2>1 DEF MapInv, LoadMap, Steps
  <2>2. CASE ~running
    BY <1>2, <2>2 DEF MapInv, LoadMap, Steps, HullsOf
  <2> QED
    BY <2>1, <2>2
<1>3. ASSUME NEW writes \in BOOLEAN, NEW junk \in Junk, SaveWorld(writes, junk)
      PROVE MapInv'
  BY <1>3 DEF MapInv, SaveWorld, Steps
<1>4. CASE LoadReal
  BY <1>4 DEF MapInv, LoadReal, Steps
<1>5. CASE SetupWorld
  BY <1>5 DEF MapInv, SetupWorld, Steps, HullsOf
<1>6. ASSUME NEW created \in BOOLEAN, ConnectLocal(created) PROVE MapInv'
  <2>1. IsMapD3D(drawn') /\ Shows(drawn', map)
    BY <1>6, MapInitShows, NotSetIsMapD3D DEF ConnectLocal, Shows
  <2>2. UNCHANGED <<map, hulls, running>> /\ step = "connect" /\ step' = "idle"
    BY <1>6 DEF ConnectLocal
  <2> QED
    BY <2>1, <2>2 DEF MapInv, Steps, Shows, HullsOf
<1>7. ASSUME NEW created \in BOOLEAN, Reset(created) PROVE MapInv'
  <2>1. drawn.set /\ step = "idle" /\ step' = "idle" /\ UNCHANGED <<map, hulls, running>>
    BY <1>7 DEF Reset
  <2>2. IsMapD3D(drawn') /\ Shows(drawn', map)
    BY <1>7, <2>1, ValidatedShows DEF Reset, MapInv, Shows
  <2> QED
    BY <2>1, <2>2 DEF MapInv, Steps, Shows, HullsOf
<1>8. CASE Connect
  BY <1>8 DEF MapInv, Connect, Steps, HullsOf
<1>9. CASE Disconnect
  BY <1>9, NotSetIsMapD3D DEF MapInv, Disconnect, Shows, HullsOf
<1>10. CASE Shutdown
  BY <1>10, NoneHasNoHulls DEF MapInv, Shutdown, Shows, IsMapD3D
<1>11. CASE InitServer
  BY <1>11, NoneHasNoHulls DEF MapInv, InitServer, Shows
<1>12. CASE UNCHANGED vars
  BY <1>12 DEF MapInv, vars, Shows, HullsOf
<1> QED
  BY <1>1, <1>2, <1>3, <1>4, <1>5, <1>6, <1>7, <1>8, <1>9, <1>10, <1>11, <1>12
     DEF Next

\* Whatever loads, saves, connections and resets fail, in whatever order the
\* commands come, the physics engine and the client have the server's map.
THEOREM CopiesAgreeAlways == Spec => []CopiesAgree
<1>1. MapInv => CopiesAgree
  BY DEF MapInv, CopiesAgree, Shows, IsMapD3D
<1> QED
  BY MapInitially, MapStep, <1>1, PTL DEF Spec

-----------------------------------------------------------------------------
(* VideoReset: the parameters of the device.                               *)

LEMMA LevelsAreSmall ==
  /\ DWord \in Nat /\ DWord > 1
  /\ \A f \in Formats : Levels[f] \in Nat /\ Levels[f] < DWord - 1
<1>1. /\ DWord \in Nat /\ Levels \in [Formats -> Nat] /\ Desktop \in Formats
      /\ \A f \in Formats : Levels[f] < DWord - 1
  BY VideoModeAssumption
<1> QED  BY <1>1

\* Below no level at all is the greatest dword.
LEMMA Minus1Of ==
  ASSUME NEW n \in Nat, n < DWord - 1
  PROVE  /\ Minus1(n) = IF n = 0 THEN DWord - 1 ELSE n - 1
         /\ Minus1(n) \in 0..DWord - 1
<1>1. DWord \in Nat /\ DWord > 1
  BY LevelsAreSmall
<1> DEFINE x == n + DWord - 1
<1>2. x \in Nat /\ x < 2 * DWord /\ x = n + DWord - 1  BY <1>1
<1>3. Minus1(n) = x % DWord  BY DEF Minus1
<1> HIDE DEF x
<1>4. CASE n = 0
  <2>1. x < DWord /\ x = DWord - 1  BY <1>1, <1>2, <1>4
  <2>2. x % DWord = x  BY <1>1, <1>2, <2>1
  <2> QED  BY <1>1, <1>3, <1>4, <2>1, <2>2
<1>5. CASE n # 0
  <2>1. DWord <= x /\ x - DWord = n - 1 /\ n - 1 \in 0..DWord - 1
    BY <1>1, <1>2, <1>5
  <2>2. x % DWord = x - DWord  BY <1>1, <1>2, <2>1
  <2> QED  BY <1>3, <1>5, <2>1, <2>2
<1> QED  BY <1>4, <1>5

\* The fields of settings, and the formats they ask for.
LEMMA SettingFields ==
  ASSUME NEW c \in Settings
  PROVE  /\ c.size \in Sizes /\ c.windowed \in BOOLEAN /\ c.fsaa \in 0..3
         /\ c.discard \in BOOLEAN /\ c.lockable \in BOOLEAN
         /\ Depth(c) \in {32, 16, 15}
         /\ Requested(c) \in Formats /\ FormatFor(c) \in Formats
         /\ SizeFor(FormatFor(c), c.size) \in Sizes
         /\ Multisamples(c) \in BOOLEAN
<1>1. /\ c.size \in Sizes /\ c.windowed \in BOOLEAN /\ c.fsaa \in 0..3
      /\ c.discard \in BOOLEAN /\ c.lockable \in BOOLEAN
  BY DEF Settings
<1>2. Depth(c) \in {32, 16, 15}
  BY DEF Depth
<1>3. Requested(c) \in Formats
  BY VideoModeAssumption DEF Requested, FormatOf, Formats
<1>4. FormatFor(c) \in Formats
  BY <1>3 DEF FormatFor, Formats
<1>5. SizeFor(FormatFor(c), c.size) \in Sizes
  BY <1>1, VideoModeAssumption DEF SizeFor
<1>6. Multisamples(c) \in BOOLEAN
  BY <1>1 DEF Multisamples
<1> QED  BY <1>1, <1>2, <1>3, <1>4, <1>5, <1>6

\* The quality is one of the levels of the format that was asked for, or that
\* of a dword when it has none.
LEMMA QualityOf ==
  ASSUME NEW c \in Settings, Multisamples(c)
  PROVE  LET q == Quality(Requested(c), c.fsaa)
         IN  /\ q \in 0..DWord - 1
             /\ \/ q < Levels[Requested(c)]
                \/ q = DWord - 1
<1> DEFINE L == Levels[Requested(c)]
           k == c.fsaa - 1
<1>1. Requested(c) \in Formats /\ c.fsaa \in 0..3 /\ c.fsaa > 0
  BY SettingFields DEF Multisamples
<1>2. L \in Nat /\ L < DWord - 1 /\ DWord \in Nat /\ k \in Nat
  BY <1>1, LevelsAreSmall
<1>3. Quality(Requested(c), c.fsaa) = IF k >= L THEN Minus1(L) ELSE k
  BY DEF Quality
<1> HIDE DEF L, k
<1>4. CASE k >= L
  <2>1. Quality(Requested(c), c.fsaa) = Minus1(L)  BY <1>3, <1>4
  <2>2. /\ Minus1(L) \in 0..DWord - 1
        /\ Minus1(L) = IF L = 0 THEN DWord - 1 ELSE L - 1
    BY <1>2, Minus1Of
  <2>3. Minus1(L) < L \/ Minus1(L) = DWord - 1  BY <1>2, <2>2
  <2> QED  BY <2>1, <2>2, <2>3 DEF L
<1>5. CASE ~(k >= L)
  <2>1. Quality(Requested(c), c.fsaa) = k  BY <1>3, <1>5
  <2>2. k < L /\ k \in 0..DWord - 1  BY <1>2, <1>5
  <2> QED  BY <2>1, <2>2 DEF L
<1> QED  BY <1>4, <1>5

\* What SetPPFromCVars makes of any settings has its types, and what the
\* adapter does not take of it is one of the three things taken for granted.
LEMMA ParametersOf ==
  ASSUME NEW c \in Settings
  PROVE  LET p == PPFromCVars(c)
         IN  /\ p \in [format : Formats, size : Sizes, windowed : BOOLEAN,
                       samples : BOOLEAN, quality : 0..DWord - 1]
             /\ ~Accepts(p) =>
                  \/ ~p.windowed /\ <<p.format, VGA>> \notin Modes
                  \/ p.samples /\ p.quality = DWord - 1
                  \/ p.samples /\ \E f \in Formats : ModesOf(f) = {} /\ Levels[f] > 0
             /\ Corrected(c) \in Settings
<1> DEFINE p == PPFromCVars(c)
           F == FormatFor(c)
           R == Requested(c)
           q == Quality(R, c.fsaa)
           z == IF c.windowed \/ GivesUp(c) THEN c.size ELSE SizeFor(F, c.size)
           s == Multisamples(c)
<1>1. /\ c.size \in Sizes /\ c.windowed \in BOOLEAN
      /\ Depth(c) \in {32, 16, 15}
      /\ R \in Formats /\ F \in Formats
      /\ SizeFor(F, c.size) \in Sizes /\ s \in BOOLEAN
  BY SettingFields
<1>2. s => q \in 0..DWord - 1 /\ (q < Levels[R] \/ q = DWord - 1)
  BY QualityOf
<1>3. F = R \/ ModesOf(R) = {}
  BY DEF FormatFor
<1>4. ~c.windowed /\ <<F, z>> \notin Modes => <<F, VGA>> \notin Modes
  BY DEF SizeFor, ModesOf, GivesUp
<1>5. p = [format |-> F, size |-> z, windowed |-> c.windowed, samples |-> s,
           quality |-> IF s THEN q ELSE 0]
  BY DEF PPFromCVars
<1>6. Corrected(c) \in Settings
  <2> DEFINE fell == ~c.windowed /\ ModesOf(R) = {}
             d == IF fell THEN 16 ELSE Depth(c)
             y == IF ~c.windowed /\ ~GivesUp(c) THEN SizeFor(F, c.size) ELSE c.size
  <2>1. Corrected(c) = [[c EXCEPT !.depth = d] EXCEPT !.size = y]
    BY DEF Corrected, Settings
  <2>2. d \in {32, 16, 15, 8} /\ y \in Sizes
    BY <1>1
  <2> HIDE DEF d, y
  <2> QED  BY <2>1, <2>2 DEF Settings
<1> HIDE DEF F, R, q, s
<1>7. z \in Sizes
  BY <1>1
<1> HIDE DEF z
<1>8. 0 \in 0..DWord - 1
  BY LevelsAreSmall
<1>9. p \in [format : Formats, size : Sizes, windowed : BOOLEAN,
             samples : BOOLEAN, quality : 0..DWord - 1]
  BY <1>1, <1>2, <1>5, <1>7, <1>8
<1>10. ASSUME ~Accepts(p)
       PROVE  \/ ~p.windowed /\ <<p.format, VGA>> \notin Modes
              \/ p.samples /\ p.quality = DWord - 1
              \/ p.samples /\ \E f \in Formats : ModesOf(f) = {} /\ Levels[f] > 0
  <2>1. /\ p.format = F /\ p.size = z /\ p.windowed = c.windowed /\ p.samples = s
        /\ s => p.quality = q
    BY <1>5
  <2>2. CASE ~c.windowed /\ <<F, z>> \notin Modes
    BY <2>1, <2>2, <1>4
  <2>3. CASE s /\ ~(q < Levels[F])
    <3>1. CASE q = DWord - 1  BY <3>1, <2>1, <2>3
    <3>2. CASE q # DWord - 1
      <4>1. q < Levels[R] /\ q \in Nat /\ Levels[R] \in Nat
        BY <3>2, <2>3, <1>1, <1>2, LevelsAreSmall
      <4>2. F # R  BY <4>1, <2>3
      <4>3. ModesOf(R) = {} /\ Levels[R] > 0  BY <4>1, <4>2, <1>3
      <4> QED  BY <4>3, <2>1, <2>3, <1>1
    <3> QED  BY <3>1, <3>2
  <2> QED  BY <2>1, <2>2, <2>3, <1>10 DEF Accepts
<1> HIDE DEF p
<1> QED  BY <1>6, <1>9, <1>10 DEF p

\* CreateDevice ends with a vertex processing the adapter may be asked for.
LEMMA VertexProcKnown ==
  ASSUME NEW p, NEW v
  PROVE  VertexProc(p, v) \in ToSet(VertexProcs)
<1>1. ToSet(VertexProcs) = {"hardware", "mixed", "software"}
  <2>1. DOMAIN VertexProcs = 1..3
    BY DEF VertexProcs
  <2>2. ToSet(VertexProcs) = {VertexProcs[i] : i \in 1..3}
    BY <2>1 DEF ToSet
  <2> QED  BY <2>2 DEF VertexProcs
<1>2. ASSUME Created(p, v) # {} PROVE Min(Created(p, v)) \in 1..3
  <2>1. Created(p, v) \in SUBSET Nat  BY DEF Created, Tried
  <2>2. Min(Created(p, v)) \in Created(p, v)  BY <2>1, <1>2, MinIsMember
  <2> QED  BY <2>2 DEF Created, Tried
<1>3. \A i \in 1..3 : VertexProcs[i] \in {"hardware", "mixed", "software"}
  BY DEF VertexProcs
<1> QED  BY <1>1, <1>2, <1>3 DEF VertexProc

-----------------------------------------------------------------------------
(* The device and what is on it.                                           *)

Starting == {"video", "windows", "console", "connect"}
Drawing2D == {"windows_2d", "console_2d"}
Playing == {"connect", "commands", "world", "windows_2d", "draw_console", "console_2d"}

\* Every parameters used are those of some settings.
ParametersChosen ==
  pp = NoPP \/ \E c \in Settings : pp = PPFromCVars(c)

\* The chosen filter is on the device, or saved while images are drawn.
FilterKept ==
  /\ phase \in (Playing \cup {"windows", "console"}) \ Drawing2D => sampler = filter
  /\ phase \in Drawing2D => saved = filter

\* A font is there only with a background, which a reset can bring back; and
\* both are there unless something could not be made or the device is away.
ConsoleWhole ==
  /\ phase \in {"video", "windows", "console"} => font = "null"
  /\ font # "null" => background \in {"buffer", "blank", "lost"}
  /\ phase \in Playing /\ ~failed => font # "null"
  /\ phase \in Playing /\ ~failed /\ device = "ok" =>
       background = "buffer" /\ font = "valid"

\* A map's buffer is one Invalidate would release, unless it was not locked.
MapWhole ==
  /\ mapValid => mapBuffer
  /\ ~failed => ~BufferInvalidated /\ orphans = 0
  /\ phase \in Starting => ~mapBuffer /\ orphans = 0 /\ mapD3D = "null"
  /\ phase \in Playing /\ ~failed /\ device = "ok" => (mapD3D = "loaded" => mapValid)

VideoInv ==
  TypeOK /\ ParametersChosen /\ FilterKept /\ ConsoleWhole /\ MapWhole

\* The invariant has the properties the runs check.
LEMMA VideoInvShows ==
  ASSUME VideoInv
  PROVE  InvalidateReleases /\ ScreenComesBack /\ AdapterAccepts
<1>1. InvalidateReleases
  <2>1. ~HasVB(ImageInvalidated(background))
    BY DEF HasVB, ImageInvalidated
  <2>2. ~failed => Blockers \subseteq {"windows"}
    <3> SUFFICES ASSUME ~failed PROVE Blockers \subseteq {"windows"}
      OBVIOUS
    <3>1. ~BufferInvalidated /\ ~(orphans > 0)  BY DEF VideoInv, MapWhole
    <3> QED  BY <3>1, <2>1 DEF Blockers
  <2> QED  BY <2>2 DEF InvalidateReleases, VideoInv
<1>2. ScreenComesBack
  BY DEF ScreenComesBack, VideoInv, FilterKept, ConsoleWhole, MapWhole, Playing, Drawing2D
<1>3. AdapterAccepts
  BY ParametersOf DEF AdapterAccepts, VideoInv, ParametersChosen
<1> QED  BY <1>1, <1>2, <1>3

LEMMA CappedStays ==
  ASSUME NEW n \in Nat
  PROVE  Capped(n) \in 0..MaxOrphans
BY VideoResetAssumption DEF Capped

LEMMA LiveCounted ==
  ASSUME NEW f
  PROVE  Cardinality(Live(f)) \in Nat
<1>1. Live(f) \in SUBSET Effects  BY DEF Live
<1>2. IsFiniteSet(Effects)  BY VideoResetAssumption
<1> QED  BY <1>1, <1>2, FS_Subset, FS_CardinalityType

\* SetFilterMode knows four filters.
LEMMA FilterModes ==
  ASSUME NEW f
  PROVE  FilterMode(f) \in 1..4 /\ FilterMode(f) \in 0..4
BY DEF FilterMode

\* LV_Restart, between two frames.
LEMMA RestartKeeps ==
  ASSUME VideoInv, Restart, phase = "commands", phase' = "commands",
         UNCHANGED <<saved, windows>>
  PROVE  VideoInv'
<1>0. TypeOK /\ ParametersChosen /\ FilterKept /\ ConsoleWhole /\ MapWhole
  BY DEF VideoInv
<1>1. CASE /\ font = "null" /\ fault' = "null_font"
           /\ UNCHANGED <<deviceVars, sampler, conVars, mapVars, fxVars, failed>>
  BY <1>0, <1>1
     DEF VideoInv, TypeOK, ParametersChosen, FilterKept, ConsoleWhole, MapWhole,
         BufferInvalidated, deviceVars, conVars, mapVars, fxVars, Starting,
         Drawing2D, Playing
<1>2. ASSUME NEW again \in SUBSET Effects, font # "null",
             cv' = Corrected(cv), pp' = PPFromCVars(cv),
             UNCHANGED <<conDevice, mapD3D, vp>>
      PROVE  /\ cv' \in Settings /\ ParametersChosen'
             /\ pp' \in [format : Formats, size : Sizes, windowed : BOOLEAN,
                         samples : BOOLEAN, quality : 0..DWord - 1]
             /\ vp' \in ToSet(VertexProcs) /\ conDevice' \in BOOLEAN
             /\ mapD3D' \in {"null", "empty", "loaded"}
             /\ FxInvalidated(fx, again) \in [Effects -> {"absent", "null", "live", "released"}]
             /\ ImageInvalidated(background) = "lost"
             /\ FontInvalidated(font) = "lost"
  <2>1. cv \in Settings /\ vp \in ToSet(VertexProcs) /\ conDevice \in BOOLEAN
        /\ mapD3D \in {"null", "empty", "loaded"} /\ font \in {"null", "valid", "lost"}
    BY <1>0 DEF TypeOK
  <2>2. background \in {"buffer", "blank", "lost"}
    BY <1>0, <1>2 DEF ConsoleWhole
  <2>3. FxInvalidated(fx, again) \in [Effects -> {"absent", "null", "live", "released"}]
    BY DEF FxInvalidated, FxReloaded
  <2>4. ImageInvalidated(background) = "lost" /\ FontInvalidated(font) = "lost"
    BY <2>1, <2>2, <1>2 DEF ImageInvalidated, FontInvalidated
  <2>5. cv' \in Settings /\ ParametersChosen'
        /\ pp' \in [format : Formats, size : Sizes, windowed : BOOLEAN,
                    samples : BOOLEAN, quality : 0..DWord - 1]
    BY <2>1, <1>2, ParametersOf DEF ParametersChosen
  <2> QED  BY <2>1, <2>3, <2>4, <2>5, <1>2
\* The device is there again.
<1>3. ASSUME NEW again \in SUBSET Effects, NEW loads \in SUBSET Effects,
             NEW image \in Outcomes, NEW outcome \in Outcomes,
             font # "null",
             cv' = Corrected(cv), pp' = PPFromCVars(cv),
             UNCHANGED <<conDevice, mapD3D, vp>>,
             Blockers = {}, device' = "ok",
             ValidateGraphics(FxInvalidated(fx, again), loads, image, outcome)
      PROVE  VideoInv'
  <2> DEFINE f == FxInvalidated(fx, again)
  <2>1. ConsoleValidated(image) /\ SetStates
        /\ fx' = FxReloaded(f, loads)
        /\ fxOrphans' = Capped(fxOrphans + Cardinality(Live(fx)) + Cardinality(Live(f)))
        /\ failed' = (image # "locked" \/ (mapD3D = "loaded" /\ outcome # "locked"))
    BY <1>3 DEF ValidateGraphics
  <2>2. /\ background' \in {"lost", "buffer", "blank"}
        /\ image = "locked" => background' = "buffer"
        /\ font' = "valid"
    BY <1>2, <1>3, <2>1
       DEF ConsoleValidated, ImageValidated, FontValidated, Outcomes
  <2>3. ConsoleWhole' /\ background' \in Images /\ font' \in {"null", "valid", "lost"}
        /\ failed' \in BOOLEAN
    BY <2>1, <2>2 DEF ConsoleWhole, Images
  <2>4. /\ filter' \in 1..4 /\ sampler' \in 0..4 /\ FilterKept'
        /\ saved' \in 0..4 /\ windows' \in [Window -> Images]
    BY <1>0, <2>1, FilterModes DEF SetStates, FilterKept, TypeOK, Drawing2D
  <2>5. fxOrphans' \in 0..MaxOrphans
    <3>1. fxOrphans \in Nat  BY <1>0, VideoResetAssumption DEF TypeOK
    <3>2. Cardinality(Live(fx)) \in Nat /\ Cardinality(Live(f)) \in Nat
      BY LiveCounted
    <3> HIDE DEF f
    <3>3. fxOrphans + Cardinality(Live(fx)) + Cardinality(Live(f)) \in Nat
      BY <3>1, <3>2
    <3> QED  BY <3>3, <2>1, CappedStays
  <2>6. fx' \in [Effects -> {"absent", "null", "live", "released"}]
    BY <2>1 DEF FxReloaded
  <2>7. ~BufferInvalidated /\ orphans = 0
    BY <1>0, <1>3, VideoResetAssumption DEF Blockers, TypeOK
  <2>8. /\ mapBuffer' \in BOOLEAN /\ mapValid' \in BOOLEAN
        /\ orphans' = orphans
        /\ mapValid' => mapBuffer'
        /\ mapBuffer' /\ ~failed' => mapValid'
        /\ mapD3D' = "loaded" /\ ~failed' => mapValid'
    <3>1. CASE mapD3D = "null"
      <4>1. mapBuffer' = FALSE /\ mapValid' = FALSE /\ orphans' = orphans
        BY <3>1, <1>3, <2>7 DEF ValidateGraphics
      <4> QED  BY <4>1, <3>1, <1>3
    <3>2. CASE mapD3D # "null"
      <4>1. MapValidated(mapD3D, BufferInvalidated, outcome)
        BY <3>2, <1>3 DEF ValidateGraphics
      <4>2. /\ mapValid' = (mapD3D = "loaded" /\ outcome # "not_created"
                            /\ outcome = "locked")
            /\ mapBuffer' = (mapD3D = "loaded" /\ outcome # "not_created")
            /\ orphans' = orphans
        BY <4>1, <2>7 DEF MapValidated
      <4> QED  BY <4>2, <1>3, <2>1 DEF Outcomes
    <3> QED  BY <3>1, <3>2
  <2>9. MapWhole' /\ orphans' \in 0..MaxOrphans
    <3>1. ~failed' => ~(BufferInvalidated)' /\ orphans' = 0
      BY <2>7, <2>8 DEF BufferInvalidated
    <3>2. orphans' \in 0..MaxOrphans
      BY <2>7, <2>8, VideoResetAssumption
    <3>3. phase' \notin Starting
      BY DEF Starting
    <3> QED  BY <2>8, <3>1, <3>2, <3>3 DEF MapWhole
  <2>10. TypeOK'
    BY <1>2, <1>3, <2>3, <2>4, <2>5, <2>6, <2>8, <2>9 DEF TypeOK
  <2> QED  BY <1>2, <1>3, <2>3, <2>4, <2>9, <2>10 DEF VideoInv
\* It is not: everything stays as Invalidate has left it.
<1>4. ASSUME NEW again \in SUBSET Effects, font # "null",
             cv' = Corrected(cv), pp' = PPFromCVars(cv),
             UNCHANGED <<conDevice, mapD3D, vp>>,
             device' = IF device = "ok" THEN "notreset" ELSE device,
             StaysInvalidated(FxInvalidated(fx, again))
      PROVE  VideoInv'
  <2>1. /\ background' = "lost" /\ font' = "lost"
        /\ fx' = FxInvalidated(fx, again)
        /\ fxOrphans' = Capped(fxOrphans + Cardinality(Live(fx)))
        /\ mapBuffer' = BufferInvalidated /\ mapValid' = FALSE
        /\ UNCHANGED <<orphans, failed, fault, filter, sampler>>
    BY <1>2, <1>4 DEF StaysInvalidated, ConsoleInvalidated
  <2>2. fxOrphans' \in 0..MaxOrphans
    <3>1. fxOrphans \in Nat  BY <1>0, VideoResetAssumption DEF TypeOK
    <3>2. fxOrphans + Cardinality(Live(fx)) \in Nat  BY <3>1, LiveCounted
    <3> QED  BY <3>2, <2>1, CappedStays
  <2>3. device' # "ok" /\ device' \in {"none", "ok", "lost", "notreset", "broken"}
    BY <1>0, <1>4 DEF TypeOK
  <2>4. ConsoleWhole' /\ background' \in Images /\ font' \in {"null", "valid", "lost"}
    BY <2>1, <2>3 DEF ConsoleWhole, Images
  <2>5. MapWhole' /\ mapBuffer' \in BOOLEAN
    BY <1>0, <2>1, <2>3 DEF MapWhole, BufferInvalidated, Starting, TypeOK
  <2>6. FilterKept'
    BY <1>0, <2>1 DEF FilterKept, Drawing2D, Playing
  <2>7. TypeOK'
    BY <1>0, <1>2, <1>4, <2>1, <2>2, <2>3, <2>4, <2>5 DEF TypeOK
  <2> QED  BY <1>2, <1>4, <2>4, <2>5, <2>6, <2>7 DEF VideoInv
<1> QED  BY <1>1, <1>3, <1>4 DEF Restart

\* A step of a frame, or of a command, that leaves the device and what is on it.
LEMMA QuietVideoStep ==
  ASSUME VideoInv, phase \in Playing \ Starting, phase' \in Playing \ Starting,
         UNCHANGED <<device, cv, vp, pp, conVars, windows, mapVars, fxVars, failed>>,
         filter' \in 1..4, sampler' \in 0..4, saved' \in 0..4, FilterKept'
  PROVE  VideoInv'
<1>1. TypeOK /\ ParametersChosen /\ ConsoleWhole /\ MapWhole
  BY DEF VideoInv
<1>2. TypeOK'  BY <1>1 DEF TypeOK, conVars, mapVars, fxVars
<1>3. ParametersChosen'  BY <1>1 DEF ParametersChosen
<1>4. ConsoleWhole'  BY <1>1 DEF ConsoleWhole, conVars, Playing, Starting
<1>5. MapWhole'  BY <1>1 DEF MapWhole, mapVars, BufferInvalidated
<1> QED  BY <1>2, <1>3, <1>4, <1>5 DEF VideoInv

\* The steps of LG_GameInit.
LEMMA InitVideoKeeps ==
  ASSUME VideoInv, InitVideo
  PROVE  VideoInv'
<1>1. TypeOK /\ ParametersChosen /\ FilterKept /\ ConsoleWhole /\ MapWhole
  BY DEF VideoInv
<1>2. /\ phase = "video" /\ phase' \in {"shutdown", "windows"}
      /\ UNCHANGED <<saved, conVars, windows, mapVars, fxVars, failed, fault>>
      /\ cv' = Corrected(cv)
      /\ vp' = vp \/ vp' = VertexProc(PPFromCVars(cv), vp)
      /\ \/ phase' = "shutdown" /\ UNCHANGED <<device, pp, filter, sampler>>
         \/ phase' = "windows" /\ DeviceCreated
  BY DEF InitVideo
<1>3. cv \in Settings /\ vp' \in ToSet(VertexProcs)
  BY <1>1, <1>2, VertexProcKnown DEF TypeOK
<1>4. /\ cv' \in Settings /\ ParametersChosen'
      /\ device' \in {"none", "ok", "lost", "notreset", "broken"}
      /\ pp' \in [format : Formats, size : Sizes, windowed : BOOLEAN,
                  samples : BOOLEAN, quality : 0..DWord - 1]
      /\ filter' \in 1..4 /\ sampler' \in 0..4
  <2>1. cv' \in Settings  BY <1>2, <1>3, ParametersOf
  <2>2. CASE UNCHANGED <<device, pp, filter, sampler>>
    BY <2>1, <2>2, <1>1 DEF TypeOK, ParametersChosen
  <2>3. CASE DeviceCreated
    BY <2>1, <2>3, <1>3, ParametersOf, FilterModes
       DEF DeviceCreated, SetStates, ParametersChosen
  <2> QED  BY <2>2, <2>3, <1>2
<1>5. FilterKept'
  BY <1>1, <1>2 DEF FilterKept, DeviceCreated, SetStates, Playing, Drawing2D
<1>6. ConsoleWhole' /\ MapWhole'
  BY <1>1, <1>2
     DEF ConsoleWhole, MapWhole, conVars, mapVars, BufferInvalidated, Playing, Starting
<1>7. TypeOK'
  BY <1>1, <1>2, <1>3, <1>4 DEF TypeOK, conVars, mapVars, fxVars
<1> QED  BY <1>4, <1>5, <1>6, <1>7 DEF VideoInv

LEMMA InitWindowsKeeps ==
  ASSUME VideoInv, InitWindows
  PROVE  VideoInv'
<1>1. TypeOK /\ ParametersChosen /\ FilterKept /\ ConsoleWhole /\ MapWhole
  BY DEF VideoInv
<1>2. PICK outcome \in [Window -> Outcomes] : WindowsCreated(outcome)
  BY DEF InitWindows
<1>3. phase = "windows" /\ phase' = "console"
      /\ UNCHANGED <<deviceVars, sampler, saved, conVars, mapVars, fxVars, fault>>
  BY DEF InitWindows
<1>4. windows' \in [Window -> Images] /\ failed' \in BOOLEAN
  <2>1. \A o \in Outcomes : CreateFromFile(o) \in Images
    BY DEF CreateFromFile, ImageValidated, Images, Outcomes
  <2>2. \A w \in Window : outcome[w] \in Outcomes  OBVIOUS
  <2> QED  BY <2>1, <2>2, <1>2 DEF WindowsCreated
<1>5. ~mapBuffer' /\ orphans' = 0 /\ mapD3D' = "null" /\ ~mapValid'
  BY <1>1, <1>3 DEF MapWhole, mapVars, Starting
<1>6. MapWhole'  BY <1>5 DEF MapWhole, BufferInvalidated
<1>7. FilterKept' /\ ConsoleWhole' /\ ParametersChosen'
  BY <1>1, <1>3
     DEF FilterKept, ConsoleWhole, ParametersChosen, conVars, deviceVars, Playing, Drawing2D
<1>8. TypeOK'
  BY <1>1, <1>3, <1>4 DEF TypeOK, deviceVars, conVars, mapVars, fxVars
<1> QED  BY <1>6, <1>7, <1>8 DEF VideoInv

LEMMA CreateConsoleKeeps ==
  ASSUME VideoInv, CreateConsole
  PROVE  VideoInv'
<1>1. TypeOK /\ ParametersChosen /\ FilterKept /\ ConsoleWhole /\ MapWhole
  BY DEF VideoInv
<1>2. /\ phase = "console" /\ phase' = "connect" /\ ConsoleCreated
      /\ UNCHANGED <<deviceVars, sampler, saved, windows, mapVars, fxVars, fault>>
  BY DEF CreateConsole
<1>3. \/ /\ background' = "buffer" /\ conDevice' = TRUE
         /\ \E made \in BOOLEAN : font' = FontCreated(made) /\ failed' = (failed \/ ~made)
      \/ background' # "buffer" /\ failed' = TRUE /\ UNCHANGED <<conDevice, font>>
  BY <1>2 DEF ConsoleCreated
<1>4. background' \in Images
  <2>1. \A o \in Outcomes : CreateFromColor(o) \in Images
    BY DEF CreateFromColor, Images, Outcomes
  <2> QED  BY <2>1, <1>2 DEF ConsoleCreated, Images
<1>5. /\ font' \in {"null", "valid", "lost"} /\ conDevice' \in BOOLEAN
      /\ failed' \in BOOLEAN
      /\ font' # "null" => font' = "valid" \/ font' = font
      /\ ~failed' => background' = "buffer" /\ font' = "valid" /\ ~failed
  BY <1>1, <1>3 DEF TypeOK, FontCreated
<1>6. font' # "null" => background' \in {"buffer", "blank", "lost"}
  <2>1. font = "null"
    BY <1>1, <1>2 DEF ConsoleWhole
  <2> QED  BY <2>1, <1>3
<1>7. ConsoleWhole'
  BY <1>2, <1>5, <1>6 DEF ConsoleWhole
<1>8. MapWhole'
  BY <1>1, <1>2, <1>5 DEF MapWhole, mapVars, BufferInvalidated, Starting
<1>9. FilterKept' /\ ParametersChosen'
  BY <1>1, <1>2 DEF FilterKept, ParametersChosen, deviceVars, Playing, Drawing2D
<1>10. TypeOK'
  BY <1>1, <1>2, <1>4, <1>5 DEF TypeOK, deviceVars, mapVars, fxVars
<1> QED  BY <1>7, <1>8, <1>9, <1>10 DEF VideoInv

\* The client's map: its buffer is given up before there is another.
LEMMA ConnectClientKeeps ==
  ASSUME VideoInv, ConnectClient
  PROVE  VideoInv'
<1>1. TypeOK /\ ParametersChosen /\ FilterKept /\ ConsoleWhole /\ MapWhole
  BY DEF VideoInv
<1>2. /\ phase \in {"connect", "commands"} /\ phase' = "commands"
      /\ UNCHANGED <<deviceVars, sampler, saved, conVars, windows, fxVars, fault>>
  BY DEF ConnectClient
<1>3. PICK m \in {"null", "empty", "loaded"}, o \in Outcomes : SetMap(m, o)
  BY DEF ConnectClient
<1>4. failed' \in BOOLEAN /\ mapD3D' = m /\ (~failed' => ~failed)
      /\ (m = "loaded" /\ ~failed' => o = "locked")
  BY <1>3 DEF SetMap
<1>5. orphans \in 0..MaxOrphans /\ MaxOrphans \in Nat
  BY <1>1, VideoResetAssumption DEF TypeOK
<1>6. /\ mapBuffer' \in BOOLEAN /\ mapValid' \in BOOLEAN
      /\ orphans' \in 0..MaxOrphans
      /\ mapValid' => mapBuffer'
      /\ ~failed' => ~(BufferInvalidated)' /\ orphans' = 0
      /\ m = "loaded" /\ ~failed' => mapValid'
  <2>1. CASE m = "loaded"
    <3>1. /\ mapValid' = (o # "not_created" /\ o = "locked")
          /\ mapBuffer' = (o # "not_created")
          /\ orphans' = IF BufferInvalidated THEN Capped(orphans + 1) ELSE orphans
      BY <1>3, <2>1 DEF SetMap, MapValidated
    <3>2. orphans' \in 0..MaxOrphans
      <4>1. orphans + 1 \in Nat  BY <1>5
      <4> QED  BY <4>1, <3>1, <1>5, CappedStays
    <3>3. ~failed' => orphans' = 0 /\ mapValid'
      BY <3>1, <2>1, <1>1, <1>4 DEF MapWhole
    <3> QED  BY <3>1, <3>2, <3>3 DEF BufferInvalidated
  <2>2. CASE m # "loaded"
    <3>1. mapValid' = FALSE /\ mapBuffer' = BufferInvalidated /\ orphans' = orphans
      BY <1>3, <2>2 DEF SetMap
    <3>2. mapBuffer' \in BOOLEAN
      BY <3>1, <1>1 DEF BufferInvalidated, TypeOK
    <3> QED  BY <3>1, <3>2, <2>2, <1>1, <1>4, <1>5 DEF MapWhole, BufferInvalidated
  <2> QED  BY <2>1, <2>2
<1>7. MapWhole'
  BY <1>2, <1>4, <1>6 DEF MapWhole, Starting
<1>8. ConsoleWhole'
  BY <1>1, <1>2, <1>4 DEF ConsoleWhole, conVars, deviceVars, Playing
<1>9. FilterKept' /\ ParametersChosen'
  BY <1>1, <1>2 DEF FilterKept, ParametersChosen, deviceVars, Playing, Drawing2D
<1>10. TypeOK'
  BY <1>1, <1>2, <1>4, <1>6 DEF TypeOK, deviceVars, conVars, fxVars
<1> QED  BY <1>7, <1>8, <1>9, <1>10 DEF VideoInv

LEMMA GameShutdownKeeps ==
  ASSUME VideoInv, GameShutdown
  PROVE  VideoInv'
<1>1. TypeOK /\ ParametersChosen /\ FilterKept /\ ConsoleWhole /\ MapWhole
  BY DEF VideoInv
<1>2. /\ phase' = "shutdown" /\ device' = "none"
      /\ conDevice' = FALSE /\ background' = "none" /\ font' = "null"
      /\ mapD3D' = "null" /\ mapBuffer' = BufferInvalidated /\ mapValid' = FALSE
      /\ fx' = [e \in Effects |-> "absent"]
      /\ UNCHANGED <<cv, vp, filter, pp, sampler, saved, windows, orphans,
                     fxOrphans, failed, fault>>
  BY DEF GameShutdown, Goes, VideoShutdown, ConsoleDeleted, ImageDeleted, FontDeleted
<1>3. TypeOK'
  BY <1>1, <1>2 DEF TypeOK, Images, BufferInvalidated
<1>4. MapWhole'
  BY <1>1, <1>2 DEF MapWhole, BufferInvalidated, Starting, Playing
<1>5. FilterKept' /\ ParametersChosen' /\ ConsoleWhole'
  BY <1>1, <1>2
     DEF FilterKept, ParametersChosen, ConsoleWhole, Playing, Drawing2D
<1> QED  BY <1>3, <1>4, <1>5 DEF VideoInv

LEMMA VideoInvHolds == VideoSpec => []VideoInv
<1>1. VideoInit => VideoInv
  <2> SUFFICES ASSUME VideoInit PROVE VideoInv
    OBVIOUS
  <2>1. pp \in [format : Formats, size : Sizes, windowed : BOOLEAN,
                samples : BOOLEAN, quality : 0..DWord - 1] /\ pp = NoPP
    BY VideoModeAssumption, LevelsAreSmall DEF VideoInit, NoPP
  <2>2. /\ cv \in Settings /\ fx \in [Effects -> {"absent", "null", "live", "released"}]
        /\ windows \in [Window -> Images] /\ vp \in ToSet(VertexProcs)
    BY VideoResetAssumption DEF VideoInit, Images
  <2>4. 0 \in 0..MaxOrphans
    BY VideoResetAssumption
  <2>5. /\ device \in {"none", "ok", "lost", "notreset", "broken"}
        /\ filter \in 1..4 /\ sampler \in 0..4 /\ saved \in 0..4
        /\ background \in Images /\ font \in {"null", "valid", "lost"}
        /\ mapD3D \in {"null", "empty", "loaded"}
        /\ orphans \in 0..MaxOrphans /\ fxOrphans \in 0..MaxOrphans
    BY <2>4 DEF VideoInit, Images
  <2>7. /\ conDevice \in BOOLEAN /\ mapBuffer \in BOOLEAN /\ mapValid \in BOOLEAN
        /\ failed \in BOOLEAN
    BY DEF VideoInit
  <2>6. TypeOK
    BY <2>1, <2>2, <2>5, <2>7 DEF TypeOK
  <2>3. FilterKept /\ ConsoleWhole /\ MapWhole
    BY DEF VideoInit, FilterKept, ConsoleWhole, MapWhole, BufferInvalidated,
           Playing, Drawing2D
  <2> QED  BY <2>1, <2>3, <2>6 DEF VideoInv, ParametersChosen
<1>2. VideoInv /\ [VideoNext]_videoVars => VideoInv'
  <2> SUFFICES ASSUME VideoInv, [VideoNext]_videoVars PROVE VideoInv'
    OBVIOUS
  <2>0. /\ TypeOK /\ ParametersChosen /\ FilterKept /\ ConsoleWhole /\ MapWhole
        /\ filter \in 1..4 /\ sampler \in 0..4 /\ saved \in 0..4 /\ 0 \in 0..4
    BY DEF VideoInv, TypeOK
  <2>1. CASE InitVideo  BY <2>1, InitVideoKeeps
  <2>2. CASE InitWindows  BY <2>2, InitWindowsKeeps
  <2>3. CASE CreateConsole  BY <2>3, CreateConsoleKeeps
  <2>4. CASE ConnectClient  BY <2>4, ConnectClientKeeps
  <2>5. ASSUME NEW e \in Effects, LoadEffect(e) PROVE VideoInv'
    BY <2>5, <2>0
       DEF LoadEffect, VideoInv, TypeOK, ParametersChosen, FilterKept, ConsoleWhole,
           MapWhole, BufferInvalidated, deviceVars, conVars, mapVars
  <2>6. CASE VRestartCommand
    BY <2>6, RestartKeeps DEF VRestartCommand
  <2>7. CASE SetModeCommand
    <3>1. cv' \in Settings  BY <2>7, VideoResetAssumption DEF SetModeCommand
    <3> QED
      BY <3>1, <2>7, <2>0
         DEF SetModeCommand, VideoInv, TypeOK, ParametersChosen, FilterKept,
             ConsoleWhole, MapWhole, BufferInvalidated, conVars, mapVars, fxVars
  <2>8. CASE SetFilterCommand
    <3>1. /\ phase = "commands" /\ phase' = "commands"
          /\ filter' \in 1..4 /\ sampler' \in 0..4 /\ sampler' = filter'
          /\ UNCHANGED <<device, cv, vp, pp, saved, conVars, windows, mapVars,
                         fxVars, failed>>
      BY <2>8, FilterModes DEF SetFilterCommand
    <3>2. FilterKept'  BY <3>1 DEF FilterKept, Drawing2D
    <3> QED  BY <3>1, <3>2, <2>0, QuietVideoStep DEF Playing, Starting
  <2>9. CASE ValidateDevice
    BY <2>9, RestartKeeps DEF ValidateDevice, Goes
  <2>10. CASE DrawWorld
    <3>1. /\ phase = "commands" /\ phase' = "world"
          /\ UNCHANGED <<device, cv, vp, pp, filter, sampler, saved, conVars, windows,
                         mapVars, fxVars, failed>>
      BY <2>10 DEF DrawWorld, Goes, deviceVars
    <3>2. FilterKept'  BY <3>1, <2>0 DEF FilterKept, Drawing2D, Playing
    <3> QED  BY <3>1, <3>2, <2>0, QuietVideoStep DEF Playing, Starting
  <2>11. CASE StartWindows
    <3>1. /\ phase = "world" /\ phase' = "windows_2d"
          /\ saved' = sampler /\ sampler' = 0
          /\ UNCHANGED <<device, cv, vp, pp, filter, conVars, windows, mapVars,
                         fxVars, failed>>
      BY <2>11 DEF StartWindows, Goes, deviceVars, StartDrawing
    <3>2. FilterKept'  BY <3>1, <2>0 DEF FilterKept, Drawing2D, Playing
    <3> QED  BY <3>1, <3>2, <2>0, QuietVideoStep DEF Playing, Starting
  <2>12. CASE StopWindows
    <3>1. /\ phase = "windows_2d" /\ phase' = "draw_console"
          /\ saved' = saved /\ sampler' = saved
          /\ UNCHANGED <<device, cv, vp, pp, filter, conVars, windows, mapVars,
                         fxVars, failed>>
      BY <2>12 DEF StopWindows, Goes, deviceVars, StopDrawing
    <3>2. FilterKept'  BY <3>1, <2>0 DEF FilterKept, Drawing2D, Playing
    <3> QED  BY <3>1, <3>2, <2>0, QuietVideoStep DEF Playing, Starting
  <2>13. CASE WriteMessages
    <3>1. /\ phase = "draw_console" /\ phase' = "commands"
          /\ UNCHANGED <<device, cv, vp, pp, filter, sampler, saved, conVars, windows,
                         mapVars, fxVars, failed>>
      BY <2>13 DEF WriteMessages, deviceVars
    <3>2. FilterKept'  BY <3>1, <2>0 DEF FilterKept, Drawing2D, Playing
    <3> QED  BY <3>1, <3>2, <2>0, QuietVideoStep DEF Playing, Starting
  <2>14. CASE StartConsole
    <3>1. /\ phase = "draw_console" /\ phase' = "console_2d"
          /\ saved' = sampler /\ sampler' = 0
          /\ UNCHANGED <<device, cv, vp, pp, filter, conVars, windows, mapVars,
                         fxVars, failed>>
      BY <2>14 DEF StartConsole, Goes, deviceVars, StartDrawing
    <3>2. FilterKept'  BY <3>1, <2>0 DEF FilterKept, Drawing2D, Playing
    <3> QED  BY <3>1, <3>2, <2>0, QuietVideoStep DEF Playing, Starting
  <2>15. CASE StopConsole
    <3>1. /\ phase = "console_2d" /\ phase' = "commands"
          /\ saved' = saved /\ sampler' = saved
          /\ UNCHANGED <<device, cv, vp, pp, filter, conVars, windows, mapVars,
                         fxVars, failed>>
      BY <2>15 DEF StopConsole, Goes, deviceVars, StopDrawing
    <3>2. FilterKept'  BY <3>1, <2>0 DEF FilterKept, Drawing2D, Playing
    <3> QED  BY <3>1, <3>2, <2>0, QuietVideoStep DEF Playing, Starting
  <2>16. CASE Device
    <3>1. device' \in {"lost", "broken", "notreset"}
      BY <2>16 DEF Device
    <3> QED
      BY <3>1, <2>16, <2>0
         DEF Device, VideoInv, TypeOK, ParametersChosen, FilterKept, ConsoleWhole,
             MapWhole, BufferInvalidated, conVars, mapVars, fxVars
  <2>17. CASE GameShutdown  BY <2>17, GameShutdownKeeps
  <2>18. CASE UNCHANGED videoVars
    BY <2>18, <2>0
       DEF videoVars, deviceVars, conVars, mapVars, fxVars, VideoInv, TypeOK,
           ParametersChosen, FilterKept, ConsoleWhole, MapWhole, BufferInvalidated
  <2> QED
    BY <2>1, <2>2, <2>3, <2>4, <2>5, <2>6, <2>7, <2>8, <2>9, <2>10, <2>11, <2>12,
       <2>13, <2>14, <2>15, <2>16, <2>17, <2>18 DEF VideoNext
<1> QED  BY <1>1, <1>2, PTL DEF VideoSpec

\* Unless something could not be made, LV_InvalidateGraphics leaves nothing in
\* the way of a Reset but the windows' images, which it does not look at.
THEOREM NothingElseBlocks == VideoSpec => []InvalidateReleases
<1>1. VideoInv => InvalidateReleases
  BY VideoInvShows
<1> QED  BY <1>1, VideoInvHolds, PTL

\* The console, the map and the filter are there whenever the device is.
THEOREM ScreenAlwaysComesBack == VideoSpec => []ScreenComesBack
<1>1. VideoInv => ScreenComesBack
  BY VideoInvShows
<1> QED  BY <1>1, VideoInvHolds, PTL

\* Every adapter takes the parameters, but for what is taken for granted of it.
THEOREM AdaptersAccept == VideoSpec => []AdapterAccepts
<1>1. VideoInv => AdapterAccepts
  BY VideoInvShows
<1> QED  BY <1>1, VideoInvHolds, PTL
=============================================================================
