----------------------------- MODULE VideoMode ------------------------------
(***************************************************************************)
(* The choice of a video mode (engine/lv_sys.cpp): the present parameters  *)
(* CLVideo makes of the console variables when it creates or resets the    *)
(* device, and the console variables it corrects on the way.               *)
(*                                                                         *)
(* Of the variables only the ones that decide whether the adapter takes    *)
(* the parameters are here.  The adapter is known by the display modes it  *)
(* lists and by its multisample quality levels, none for a format that     *)
(* does not allow FSAA.                                                    *)
(***************************************************************************)
EXTENDS Naturals, SequencesExt

CONSTANTS
  Sizes,        \* values of v_Width and v_Height
  VGA,          \* 640x480
  Modes,        \* format and size of the full-screen modes
  Levels,       \* quality levels of each format
  Desktop,      \* the format of the desktop
  Processing,   \* the vertex processing the adapter can do
  DWord         \* 2^32, or less to keep the numbers small

Formats == {"X8R8G8B8", "R5G6B5", "X1R5G5B5"}
VertexProcs == <<"hardware", "mixed", "software">>

ASSUME VideoModeAssumption ==
  /\ VGA \in Sizes /\ Modes \subseteq Formats \X Sizes
  /\ Levels \in [Formats -> Nat] /\ Desktop \in Formats
  /\ Processing \subseteq ToSet(VertexProcs)
  /\ DWord \in Nat /\ \A f \in Formats : Levels[f] < DWord - 1

Settings == [depth : {32, 16, 15, 8}, size : Sizes, windowed : BOOLEAN,
             fsaa : 0..3, discard : BOOLEAN, lockable : BOOLEAN]

-----------------------------------------------------------------------------
\* A depth that is none of the three becomes 16.
Depth(cv) == IF cv.depth \in {32, 16, 15} THEN cv.depth ELSE 16
FormatOf(depth) ==
  CASE depth = 32 -> "X8R8G8B8" [] depth = 15 -> "X1R5G5B5" [] OTHER -> "R5G6B5"

\* A window has the format of the desktop.
Requested(cv) == IF cv.windowed THEN Desktop ELSE FormatOf(Depth(cv))

ModesOf(format) == {m \in Modes : m[1] = format}

\* CheckDeviceMultiSampleType's answer is not kept; a format without FSAA has
\* no levels, and the greatest quality below none is that of a dword.
Minus1(levels) == (levels + DWord - 1) % DWord

\* A slip: the quality may be the number of levels.
QualityUpToLevels(format, fsaa) ==
  IF fsaa - 1 > Levels[format] THEN Minus1(Levels[format]) ELSE fsaa - 1
Quality(format, fsaa) ==
  IF fsaa - 1 >= Levels[format] THEN Minus1(Levels[format]) ELSE fsaa - 1

\* FSAA needs the swap effect DISCARD and a back buffer that is not locked.
Multisamples(cv) == cv.fsaa > 0 /\ cv.discard /\ ~cv.lockable

\* A slip: the mode of the right size in another format will do.
SizeOfAnyFormat(format, size) == IF \E m \in Modes : m[2] = size THEN size ELSE VGA
\* The size when the adapter lists it, and 640x480, listed or not.
SizeFor(format, size) == IF <<format, size>> \in ModesOf(format) THEN size ELSE VGA

\* SetPPFromCVars gives up when the adapter lists no mode of the format it
\* was asked for and none of R5G6B5.
FormatFor(cv) ==
  IF cv.windowed \/ ModesOf(Requested(cv)) # {} THEN Requested(cv) ELSE "R5G6B5"
GivesUp(cv) == ~cv.windowed /\ ModesOf(FormatFor(cv)) = {}

\* The quality is chosen for the format asked for, which may change after.
PPFromCVars(cv) ==
  [format |-> FormatFor(cv),
   size |-> IF cv.windowed \/ GivesUp(cv) THEN cv.size ELSE SizeFor(FormatFor(cv), cv.size),
   windowed |-> cv.windowed,
   samples |-> Multisamples(cv),
   quality |-> IF Multisamples(cv) THEN Quality(Requested(cv), cv.fsaa) ELSE 0]

\* The variables as SetPPFromCVars leaves them.
Corrected(cv) ==
  LET fell == ~cv.windowed /\ ModesOf(Requested(cv)) = {}
      sized == ~cv.windowed /\ ~GivesUp(cv)
  IN  [cv EXCEPT !.depth = IF fell THEN 16 ELSE Depth(cv),
                 !.size = IF sized THEN SizeFor(FormatFor(cv), @) ELSE @]

\* Does the adapter take the parameters?
Accepts(pp) ==
  /\ pp.windowed \/ <<pp.format, pp.size>> \in Modes
  /\ pp.samples => pp.quality < Levels[pp.format]

-----------------------------------------------------------------------------
\* CreateDevice is tried with the vertex processing of the variable and then
\* with each lesser one; the last one tried is kept.
Tried(vp) == {i \in 1..3 : vp \in {"hardware", VertexProcs[i]} \/ i = 3}
Created(pp, vp) ==
  {i \in Tried(vp) : Accepts(pp) /\ VertexProcs[i] \in Processing}
VertexProc(pp, vp) ==
  IF Created(pp, vp) = {} THEN "software" ELSE VertexProcs[Min(Created(pp, vp))]

\* SetFilterMode: 1 to 4 are point, bilinear, trilinear and anisotropic
\* filtering; anything else is corrected to point.
FilterMode(filter) == IF filter \in 1..4 THEN filter ELSE 1
=============================================================================
