----------------------------- MODULE VideoReset -----------------------------
(***************************************************************************)
(* The graphics of the game over a Direct3D device that Windows may take   *)
(* away at any time: CLVideo (engine/lv_sys.cpp), the validation of the    *)
(* device (lg_video.cpp), the graphical console with its background and    *)
(* font (lv_con.cpp, lv_img2d.cpp, lv_font.cpp), the two windows of the    *)
(* window manager (wnd_sys), the map of the client (lw_map.cpp) and the    *)
(* effect manager (lg_fxmgr.cpp).                                          *)
(*                                                                         *)
(* A lost device must be Reset, and Reset fails while a resource in        *)
(* POOL_DEFAULT is alive.  So everything is invalidated before and         *)
(* validated after.  Creating a buffer may fail, and so may locking it     *)
(* once it is there.                                                       *)
(***************************************************************************)
EXTENDS VideoMode

CONSTANTS
  Chosen,       \* the settings a user chooses
  Filters,      \* the values of v_TextureFilter a user sets
  Effects,      \* the effects the game loads
  MaxOrphans    \* bound: buffers, or effects, nobody points to any more

ASSUME VideoResetAssumption ==
  /\ Chosen \subseteq Settings
  /\ IsFiniteSet(Effects) /\ MaxOrphans \in Nat

VARIABLES
  device,       \* what TestCooperativeLevel says of s_pDevice, "none" for null
  cv, vp,       \* the console variables, v_VertexProc apart
  filter,       \* v_TextureFilter
  pp,           \* the present parameters last used
  sampler,      \* the filter set on the device, 0 while images are drawn
  saved,        \* dwOldMagFilter and the like
  conDevice,    \* CLVCon::m_pDevice is not null
  background,   \* CLVCon::m_Background, an image
  font,         \* CLVCon::m_lpFont: "null", "valid" or "lost"
  windows,      \* the images of CManager's windows
  mapD3D,       \* CLMapD3D::m_pMap and m_pDevice: "null", "empty" or "loaded"
  mapBuffer,    \* m_pVB is not null
  mapValid,     \* m_bIsValid
  orphans,      \* map buffers whose pointer was overwritten
  fx,           \* the effects: "absent", "null", "live" or "released"
  fxOrphans,    \* effects loaded over live ones
  failed,       \* history: a resource could not be created or locked
  fault,        \* what went wrong, if anything
  phase         \* where the main loop is

deviceVars == <<device, cv, vp, filter, pp>>
conVars == <<conDevice, background, font>>
mapVars == <<mapD3D, mapBuffer, mapValid, orphans>>
fxVars == <<fx, fxOrphans>>
videoVars == <<deviceVars, sampler, saved, conVars, windows, mapVars, fxVars,
               failed, fault, phase>>

NoPP == [format |-> Desktop, size |-> VGA, windowed |-> TRUE,
         samples |-> FALSE, quality |-> 0]
Capped(n) == IF n > MaxOrphans THEN MaxOrphans ELSE n

\* What becomes of a new vertex buffer.
Outcomes == {"locked", "not_locked", "not_created"}

Window == 1..2

-----------------------------------------------------------------------------
VideoInit ==
  /\ device = "none" /\ cv \in Chosen /\ vp \in ToSet(VertexProcs)
  /\ filter = 3 /\ pp = NoPP /\ sampler = 1 /\ saved = 1
  /\ conDevice = FALSE /\ background = "none" /\ font = "null"
  /\ windows = [w \in Window |-> "none"]
  /\ mapD3D = "null" /\ mapBuffer = FALSE /\ mapValid = FALSE /\ orphans = 0
  /\ fx = [e \in Effects |-> "absent"] /\ fxOrphans = 0
  /\ failed = FALSE /\ fault = "none" /\ phase = "video"

-----------------------------------------------------------------------------
\* CLImg2D.  An image with a device is "lost" without its buffer; with it, it is
\* a "buffer", or "blank" when that was not filled; an "orphan" has a blank one
\* and no device.
Images == {"none", "lost", "buffer", "blank", "orphan"}
HasVB(image) == image \in {"buffer", "blank", "orphan"}

\* There is always a texture, if only the default one.  A buffer that cannot be
\* locked is kept.
ImageValidated(image, outcome) ==
  IF image # "lost" \/ outcome = "not_created" THEN image
  ELSE IF outcome = "locked" THEN "buffer" ELSE "blank"

ImageInvalidated(image) ==
  CASE image \in {"buffer", "blank"} -> "lost" [] image = "orphan" -> "none" [] OTHER -> image

\* An image that cannot be validated lets its device go, not its buffer.
CreateFromFile(outcome) ==
  LET image == ImageValidated("lost", outcome)
  IN  CASE image = "lost" -> "none" [] image = "blank" -> "orphan" [] OTHER -> image

CreateFromColor(outcome) ==
  CASE outcome = "not_created" -> "none" [] outcome = "not_locked" -> "orphan" [] OTHER -> "buffer"

\* CLImg2D::Render: an image without a buffer is not drawn; one with it is drawn
\* by its device, whether it has one or not.
RenderFault(image) ==
  IF HasVB(image) /\ image = "orphan" THEN "null_image_device" ELSE "none"

ImageDeleted == "none"

\* CLFontD3D.  That there may be no surface to draw on only makes it slower.
FontCreated(made) == IF made THEN "valid" ELSE "null"
FontValidated(f) == IF f = "lost" THEN "valid" ELSE f
FontInvalidated(f) == IF f = "valid" THEN "lost" ELSE f
FontDeleted == "null"

SetStates ==
  /\ filter' = FilterMode(filter)
  /\ sampler' = FilterMode(filter)

-----------------------------------------------------------------------------
(* LG_GameInit.                                                            *)

\* The device is there: its parameters are kept and its states are set.
DeviceCreated ==
  /\ device' = "ok"
  /\ pp' = PPFromCVars(cv)
  /\ SetStates

\* CLVideo::Init.
InitVideo ==
  /\ phase = "video"
  /\ cv' = Corrected(cv)
  /\ vp' = IF GivesUp(cv) THEN vp ELSE VertexProc(PPFromCVars(cv), vp)
  /\ IF GivesUp(cv) \/ Created(PPFromCVars(cv), vp) = {}
     THEN phase' = "shutdown" /\ UNCHANGED <<device, pp, filter, sampler>>
     ELSE phase' = "windows" /\ DeviceCreated
  /\ UNCHANGED <<saved, conVars, windows, mapVars, fxVars, failed, fault>>

\* CManager::Init: both windows.
WindowsCreated(outcome) ==
  /\ windows' = [w \in Window |-> CreateFromFile(outcome[w])]
  /\ failed' = \E w \in Window : outcome[w] # "locked"

\* The managers and the windows, once there is video.
InitWindows ==
  /\ phase = "windows" /\ phase' = "console"
  /\ \E outcome \in [Window -> Outcomes] : WindowsCreated(outcome)
  /\ UNCHANGED <<deviceVars, sampler, saved, conVars, mapVars, fxVars, fault>>

\* CLVCon::Create: a background from a file or else from a colour, then the
\* font; without a background it fails, without a font it does not.
ConsoleCreated ==
  /\ \E file, colour \in Outcomes :
       background' = IF CreateFromFile(file) = "buffer" THEN "buffer" ELSE CreateFromColor(colour)
  /\ \/ /\ background' = "buffer"
        /\ conDevice' = TRUE
        /\ \E made \in BOOLEAN : font' = FontCreated(made) /\ failed' = (failed \/ ~made)
     \/ /\ background' # "buffer" /\ failed' = TRUE
        /\ UNCHANGED <<conDevice, font>>

\* The game goes on when the console cannot be created.
CreateConsole ==
  /\ phase = "console" /\ phase' = "connect"
  /\ ConsoleCreated
  /\ UNCHANGED <<deviceVars, sampler, saved, windows, mapVars, fxVars, fault>>

-----------------------------------------------------------------------------
(* The map of the client.                                                  *)

\* CLMapD3D::Validate of a map with these fields: no buffer can be made for
\* an empty one.
MapValidated(m, buffer, outcome) ==
  LET made == m = "loaded" /\ outcome # "not_created"
  IN  /\ mapValid' = (made /\ outcome = "locked")
      /\ mapBuffer' = made
      /\ orphans' = IF buffer THEN Capped(orphans + 1) ELSE orphans

\* A slip: the buffer is forgotten, not released.
BufferForgotten == mapBuffer
\* Is there a buffer after CLMapD3D::Invalidate, which does nothing unless the
\* map is valid.
BufferInvalidated == mapBuffer /\ ~mapValid

\* ConnectLocal: the map is given up, and set again when the server runs.
\* Nothing is validated while the server has no map.
SetMap(m, outcome) ==
  /\ mapD3D' = m
  /\ IF m = "loaded" THEN MapValidated(m, BufferInvalidated, outcome)
     ELSE mapValid' = FALSE /\ mapBuffer' = BufferInvalidated /\ UNCHANGED orphans
  /\ failed' = (failed \/ (m = "loaded" /\ outcome # "locked"))

\* LoadMap and CONNECT, or DISCONNECT.
ConnectClient ==
  /\ phase \in {"connect", "commands"} /\ phase' = "commands" /\ fault = "none"
  /\ \E m \in {"null", "empty", "loaded"}, o \in Outcomes : SetMap(m, o)
  /\ UNCHANGED <<deviceVars, sampler, saved, conVars, windows, fxVars, fault>>

-----------------------------------------------------------------------------
(* The effect manager.                                                     *)

\* CLHashMgr::Load with CLFxMgr's DoLoad; an effect that does not load is not
\* kept.
LoadEffect(e) ==
  /\ phase = "commands" /\ fault = "none" /\ fx[e] = "absent"
  /\ fx' = [fx EXCEPT ![e] = "live"]
  /\ UNCHANGED <<deviceVars, sampler, saved, conVars, windows, mapVars, fxOrphans,
                 failed, fault, phase>>

\* CLFxMgr::Validate loads every effect again; a pointer it overwrites is lost.
Live(f) == {e \in Effects : f[e] = "live"}
FxReloaded(f, loads) ==
  [e \in Effects |-> IF f[e] = "absent" THEN "absent"
                     ELSE IF e \in loads THEN "live" ELSE "null"]

\* CLMgrs::InvalidateMgrs calls Validate; nothing calls CLFxMgr::Invalidate.
FxInvalidated(f, loads) == FxReloaded(f, loads)

-----------------------------------------------------------------------------
(* LV_Restart.                                                             *)

\* What is in POOL_DEFAULT once everything was invalidated.
Blockers ==
  (IF \E w \in Window : HasVB(windows[w]) THEN {"windows"} ELSE {}) \cup
  (IF HasVB(ImageInvalidated(background)) THEN {"background"} ELSE {}) \cup
  (IF BufferInvalidated THEN {"map"} ELSE {}) \cup
  (IF orphans > 0 THEN {"orphans"} ELSE {})

\* CLVCon::Validate, after its Invalidate.
ConsoleInvalidated ==
  /\ background' = ImageInvalidated(background)
  /\ font' = FontInvalidated(font)

ConsoleValidated(outcome) ==
  /\ background' = ImageValidated(ImageInvalidated(background), outcome)
  /\ font' = FontValidated(FontInvalidated(font))

\* LV_ValidateGraphics: the console, the effects, the map of the client, which
\* is used without a look at whether there is one, and the states.
ValidateGraphics(f, loads, image, outcome) ==
  /\ ConsoleValidated(image)
  /\ fx' = FxReloaded(f, loads)
  /\ fxOrphans' = Capped(fxOrphans + Cardinality(Live(fx)) + Cardinality(Live(f)))
  /\ IF mapD3D = "null"
     THEN /\ fault' = "null_map_device"
          /\ mapBuffer' = BufferInvalidated /\ mapValid' = FALSE
          /\ UNCHANGED orphans
     ELSE MapValidated(mapD3D, BufferInvalidated, outcome) /\ UNCHANGED fault
  /\ failed' = (image # "locked" \/ (mapD3D = "loaded" /\ outcome # "locked"))
  /\ SetStates

\* After a Reset that failed everything stays invalidated.
StaysInvalidated(f) ==
  /\ ConsoleInvalidated
  /\ fx' = f
  /\ fxOrphans' = Capped(fxOrphans + Cardinality(Live(fx)))
  /\ mapBuffer' = BufferInvalidated /\ mapValid' = FALSE
  /\ UNCHANGED <<orphans, failed, fault, filter, sampler>>

\* LV_Restart.  Reset may fail, and must while something is in its way or the
\* device cannot be reset yet.
Restart ==
  \/ /\ font = "null"
     /\ fault' = "null_font"
     /\ UNCHANGED <<deviceVars, sampler, conVars, mapVars, fxVars, failed>>
  \/ \E again, loads \in SUBSET Effects :
       /\ font # "null"
       /\ cv' = Corrected(cv) /\ pp' = PPFromCVars(cv)
       /\ UNCHANGED <<conDevice, mapD3D, vp>>
       /\ \/ /\ device \in {"ok", "notreset"} /\ Blockers = {} /\ Accepts(pp')
             /\ device' = "ok"
             /\ \E image, outcome \in Outcomes :
                  ValidateGraphics(FxInvalidated(fx, again), loads, image, outcome)
          \/ /\ device' = IF device = "ok" THEN "notreset" ELSE device
             /\ StaysInvalidated(FxInvalidated(fx, again))

-----------------------------------------------------------------------------
(* Commands, between two frames.                                           *)

VRestartCommand ==
  /\ phase = "commands" /\ fault = "none"
  /\ Restart
  /\ UNCHANGED <<saved, windows, phase>>

\* SET of the variables of the mode, which the next restart looks at.
SetModeCommand ==
  /\ phase = "commands" /\ fault = "none"
  /\ cv' \in Chosen
  /\ UNCHANGED <<device, vp, filter, pp, sampler, saved, conVars, windows, mapVars,
                 fxVars, failed, fault, phase>>

\* SET v_TextureFilter: the variable is CVAR_UPDATE, so SetStates is called.
SetFilterCommand ==
  /\ phase = "commands" /\ fault = "none"
  /\ \E f \in Filters : filter' = FilterMode(f) /\ sampler' = FilterMode(f)
  /\ UNCHANGED <<device, cv, vp, pp, saved, conVars, windows, mapVars, fxVars,
                 failed, fault, phase>>

-----------------------------------------------------------------------------
(* A frame: LG_RenderGraphics.                                             *)

Goes(from, to) == phase = from /\ phase' = to /\ fault = "none"

\* LV_ValidateDevice: there is nothing to do about a device that is lost, and
\* its answer that the game should shut down is not looked at.
ValidateDevice ==
  /\ Goes("commands", "commands")
  /\ device = "notreset"
  /\ Restart
  /\ UNCHANGED <<saved, windows>>

DrawWorld ==
  /\ Goes("commands", "world")
  /\ device = "ok"
  /\ UNCHANGED <<deviceVars, sampler, saved, conVars, windows, mapVars, fxVars,
                 failed, fault>>

\* StartStopDrawing, to start and to stop.
StartDrawing == saved' = sampler /\ sampler' = 0
\* A slip: the filter is not set back.
StopDrawingKeepsFilter == UNCHANGED <<sampler, saved>>
StopDrawing == sampler' = saved /\ UNCHANGED saved

\* CWindow::Render of both windows.
StartWindows ==
  /\ Goes("world", "windows_2d")
  /\ StartDrawing
  /\ fault' = IF \E w \in Window : RenderFault(windows[w]) # "none"
              THEN "null_image_device" ELSE "none"
  /\ UNCHANGED <<deviceVars, conVars, windows, mapVars, fxVars, failed>>

StopWindows ==
  /\ Goes("windows_2d", "draw_console")
  /\ StopDrawing
  /\ UNCHANGED <<deviceVars, conVars, windows, mapVars, fxVars, failed, fault>>

\* CLVCon::Render writes its messages with the font, there or not.
WriteMessages ==
  /\ phase = "draw_console" /\ fault = "none"
  /\ fault' = IF font = "null" THEN "null_font" ELSE "none"
  /\ phase' = "commands"
  /\ UNCHANGED <<deviceVars, sampler, saved, conVars, windows, mapVars, fxVars, failed>>

\* And, when the console is active, draws its background.
StartConsole ==
  /\ Goes("draw_console", "console_2d")
  /\ font # "null" /\ conDevice
  /\ StartDrawing
  /\ UNCHANGED <<deviceVars, conVars, windows, mapVars, fxVars, failed, fault>>

StopConsole ==
  /\ Goes("console_2d", "commands")
  /\ StopDrawing
  /\ UNCHANGED <<deviceVars, conVars, windows, mapVars, fxVars, failed, fault>>

-----------------------------------------------------------------------------
\* Windows takes the device away and gives it back to be reset; or it fails
\* for good.
Device ==
  /\ \/ device = "ok" /\ device' \in {"lost", "broken"}
     \/ device = "lost" /\ device' = "notreset"
  /\ UNCHANGED <<cv, vp, filter, pp, sampler, saved, conVars, windows, mapVars,
                 fxVars, failed, fault, phase>>

\* CLVCon::Delete.
ConsoleDeleted == conDevice' = FALSE /\ background' = ImageDeleted /\ font' = FontDeleted

\* CLVideo::Shutdown releases the device, whatever is alive on it.
VideoShutdown == device' = "none"

\* LG_GameShutdown.
GameShutdown ==
  /\ Goes("commands", "shutdown")
  /\ VideoShutdown
  /\ ConsoleDeleted
  /\ mapD3D' = "null" /\ mapBuffer' = BufferInvalidated /\ mapValid' = FALSE
  /\ fx' = [e \in Effects |-> "absent"]
  /\ UNCHANGED <<cv, vp, filter, pp, sampler, saved, windows, orphans, fxOrphans,
                 failed, fault>>

-----------------------------------------------------------------------------
VideoNext ==
  \/ InitVideo \/ InitWindows \/ CreateConsole \/ ConnectClient
  \/ \E e \in Effects : LoadEffect(e)
  \/ VRestartCommand \/ SetModeCommand \/ SetFilterCommand
  \/ ValidateDevice \/ DrawWorld
  \/ StartWindows \/ StopWindows \/ WriteMessages \/ StartConsole \/ StopConsole
  \/ Device \/ GameShutdown

VideoSpec == VideoInit /\ [][VideoNext]_videoVars

-----------------------------------------------------------------------------
(* Properties.                                                             *)

TypeOK ==
  /\ device \in {"none", "ok", "lost", "notreset", "broken"}
  /\ cv \in Settings /\ vp \in ToSet(VertexProcs) /\ filter \in 1..4
  /\ pp \in [format : Formats, size : Sizes, windowed : BOOLEAN,
             samples : BOOLEAN, quality : 0..DWord - 1]
  /\ sampler \in 0..4 /\ saved \in 0..4
  /\ conDevice \in BOOLEAN /\ background \in Images
  /\ font \in {"null", "valid", "lost"}
  /\ windows \in [Window -> Images]
  /\ mapD3D \in {"null", "empty", "loaded"}
  /\ mapBuffer \in BOOLEAN /\ mapValid \in BOOLEAN /\ orphans \in 0..MaxOrphans
  /\ fx \in [Effects -> {"absent", "null", "live", "released"}]
  /\ fxOrphans \in 0..MaxOrphans
  /\ failed \in BOOLEAN

\* "All POOL_DEFAULT Direct3D items should be released before calling
\* Restart": what LV_InvalidateGraphics invalidates is released, whatever was
\* created, lost or replaced since, as long as each buffer and font was made and
\* locked; the windows, which it does not know of, are left.
InvalidateReleases ==
  /\ TypeOK
  /\ ~failed => Blockers \subseteq {"windows"}

\* The same without an exception: it is what Reset needs.
ResetIsReady == device # "none" => Blockers = {}

\* Unless something could not be created, all that was on the screen before
\* the device was lost is there again when it is not: the console's background
\* and font, the map, and the chosen texture filter for the world, which the
\* two-dimensional drawing and the Reset change.
ScreenComesBack ==
  device = "ok" /\ phase \in {"commands", "world"} /\ fault = "none" =>
    /\ sampler = filter
    /\ ~failed => /\ background = "buffer" /\ font = "valid"
                  /\ mapD3D = "loaded" => mapValid
    /\ mapValid => mapBuffer

\* The parameters are ones the adapter takes, however wrong the variables are,
\* unless it lacks what is taken for granted: 640x480, modes of the depth asked
\* for, and FSAA levels for the format.
AdapterAccepts ==
  pp # NoPP /\ ~Accepts(pp) =>
    \/ ~pp.windowed /\ <<pp.format, VGA>> \notin Modes
    \/ pp.samples /\ pp.quality = DWord - 1
    \/ pp.samples /\ \E f \in Formats : ModesOf(f) = {} /\ Levels[f] > 0
=============================================================================
