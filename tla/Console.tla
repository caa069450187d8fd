------------------------------ MODULE Console -------------------------------
(***************************************************************************)
(* The console of the game (lc_sys2) with its commands (engine/lg_cmd.cpp) *)
(* and the settings of the game: console variables, registered and loaded  *)
(* from config.cfg and autoexec.cfg when the game starts (lg_cvars.cpp,    *)
(* lg_sys_init.cpp), and saved to config.cfg when it ends.                 *)
(*                                                                         *)
(* A command line is the sequence of its arguments, the name of the        *)
(* command, of a variable or a file being a string and a value a text.     *)
(* What is printed is left out.                                            *)
(* Everything runs on one thread, so a command is one operator from a      *)
(* console to a console, the record `w' of the VARIABLES it may change.    *)
(* The process may be killed between any two commands, and between any two *)
(* writes to a file.                                                       *)
(***************************************************************************)
EXTENDS FiniteSets, CvarList

CONSTANTS
  Registered,   \* [name, value, flags] of LG_RegisterCVars, in order
  Autoexec,     \* the commands in autoexec.cfg
  FoundFirst,   \* what may be in the .cfg files at first: lines that set a variable
  Room          \* characters of a value LC_MAX_LINE_LEN leaves after set "name" "

Files == {"config.cfg", "user.cfg"}
IsSequence(c) == c \in Seq(Range(c))

\* A command that sets a variable names a text.
IsCommand(args) == args[1] = "set" => IsSequence(args[3])

\* No variable is registered twice, and the three the engine reads here are.
\* The files hold what LGC_SaveCFG writes, and autoexec.cfg writes no file.
ASSUME ConsoleAssumption ==
  /\ IsFiniteSet(Slots) /\ Slots \subseteq Nat
  /\ MaxLen \in Nat \ {0} /\ Room \in Nat
  /\ Number(<<"POINT">>) \in 1..4
  /\ IsSequence(Autoexec)
  /\ \A i \in DOMAIN Autoexec : IsCommand(Autoexec[i]) /\ Autoexec[i][1] # "savecfg"
  /\ \A d \in FoundFirst : DOMAIN d = Files /\ \A f \in Files :
       IsSequence(d[f]) /\ \A i \in DOMAIN d[f] : IsCommand(d[f][i]) /\ d[f][i][1] = "set"
  /\ IsSequence(Registered)
  /\ \A r \in Range(Registered) : r.name \in DOMAIN SlotOf /\ IsSequence(r.value)
  /\ \A r \in Range(Registered) : r.name = "v_TextureFilter" => "ROM" \notin r.flags
  /\ \A i, j \in DOMAIN Registered : Registered[i].name = Registered[j].name => i = j
  /\ \A name \in {"v_TextureFilter", "v_DebugWireframe"} :
       \E r \in Range(Registered) : r.name = name /\ "UPDATE" \in r.flags
  /\ \E r \in Range(Registered) : r.name = "lg_ShouldQuit"

VARIABLES
  phase,        \* "off", "config" when LG_GameInit has loaded the settings,
                \* or "running"
  table,        \* g_pCvars
  disk,         \* the .cfg files
  gpu,          \* the sampler filter and fill mode of the device
  kept          \* history: the texts each variable may come back with

consoleVars == <<phase, table, disk, gpu, kept>>

Names == {Registered[i].name : i \in DOMAIN Registered}
FlagsOf(name) == (CHOOSE r \in Range(Registered) : r.name = name).flags
Default(name) == Cut((CHOOSE r \in Range(Registered) : r.name = name).value)
NoDevice == [filter |-> 0, wire |-> FALSE]
Value(name) == Get(table, name).value

-----------------------------------------------------------------------------
(* Files.                                                                  *)

\* LGC_LoadCFG cuts a line at //, in quotes or not, and SendCommand takes no
\* more of it than LC_MAX_LINE_LEN.  A value is written between quotes as it is,
\* so that L_strtokA ends it at a blank that one of its own quotes lays bare.
Comments(text) ==
  {i \in 1..Len(text) - 1 : text[i] = "/" /\ text[i + 1] = "/"}
Blanks == {" ", "\t"}
QuotesBefore(text, i) == {j \in 1..i - 1 : text[j] = "\""}
Bare(text) ==
  {i \in 1..Len(text) : text[i] \in Blanks /\ Cardinality(QuotesBefore(text, i)) % 2 = 1}

\* SendCommand drops the quote an argument ends with, which is one of the value's own
\* when the one LGC_SaveCFG wrote was not reached.
ReadUpTo(text) ==
  Min({Room, Len(text)} \cup {i - 1 : i \in Comments(text) \cup Bare(text)})
Unclosed(text) == ReadUpTo(text) < Len(text) \/ ReadUpTo(text) = Room
ReadBack(text) ==
  LET read == SubSeq(text, 1, ReadUpTo(text))
  IN  IF Unclosed(text) /\ read # <<>> /\ Last(read) = "\"" THEN Front(read) ELSE read

\* The text a file that is loaded leaves a variable with: the last line counts.
LinesOf(contents, name) == {i \in DOMAIN contents : contents[i][2] = name}
Says(contents, name) ==
  IF "ROM" \in FlagsOf(name) \/ LinesOf(contents, name) = {} THEN Default(name)
  ELSE Cut(ReadBack(contents[Max(LinesOf(contents, name))][3]))

\* The lines LGC_SaveCFG writes.
Saves(cvar, all) == all \/ "SAVE" \in cvar.flags
Written(t, all) ==
  LET cvar == Listing(t)
      upto[i \in 0..Len(cvar)] ==
        IF i = 0 THEN << >>
        ELSE IF Saves(cvar[i], all)
             THEN Append(upto[i - 1], <<"set", cvar[i].name, cvar[i].value>>)
             ELSE upto[i - 1]
  IN  upto[Len(cvar)]

Opened(contents, append) == IF append THEN contents ELSE << >>

\* LGC_SaveCFG: the file is made anew or appended to, or cannot be opened.
SaveCFG(w, file, append, all) ==
  [w EXCEPT !.disk[file] = Opened(@, append) \o Written(w.table, all)]

\* Of a line that was being written nothing that means anything is there, or
\* its value is missing, or only its end.
Torn(line) == {<<>>, <<<<line[1], line[2], <<>>>>>>, <<line>>}
\* The contents a file is left with when the process is killed in SaveCFG.
CutShort(w, file, append, all) ==
  LET old == Opened(w.disk[file], append)
      new == Written(w.table, all)
  IN  {old} \cup UNION {{old \o SubSeq(new, 1, k - 1) \o torn : torn \in Torn(new[k])}
                          : k \in DOMAIN new}

-----------------------------------------------------------------------------
(* Commands.                                                               *)

\* CLVideo::SetStates; a filter that is none of the four becomes POINT.
FilterCorrected(t) ==
  IF Number(Get(t, "v_TextureFilter").value) \in 1..4 THEN t
  ELSE Replaced(t, Set(Get(t, "v_TextureFilter"), <<"POINT">>))
StatesOf(t) ==
  [filter |-> Number(Get(t, "v_TextureFilter").value),
   wire   |-> Number(Get(t, "v_DebugWireframe").value) # 0]
\* A slip: the sampler gets the filter as it was before it was corrected.
SetStatesUncorrected(w) ==
  [w EXCEPT !.table = FilterCorrected(@), !.gpu = StatesOf(w.table)]
SetStates(w) ==
  [w EXCEPT !.table = FilterCorrected(@), !.gpu = StatesOf(FilterCorrected(w.table))]

\* LGC_CvarUpdate, without a device while the settings are loaded.
CvarUpdate(w, name) ==
  IF phase = "running" /\ name \in {"v_TextureFilter", "v_DebugWireframe"}
  THEN SetStates(w) ELSE w

\* LGC_Set sends the command CVARUPDATE when the variable has CVAR_UPDATE.
SetCommand(w, name, text) ==
  IF ~Has(w.table, name) THEN w
  ELSE LET v == [w EXCEPT !.table = Replaced(@, Set(Get(@, name), text))]
       IN  IF "UPDATE" \in Get(v.table, name).flags THEN CvarUpdate(v, name) ELSE v

\* A command that loads no file, by CConsole::SendCommand and LCG_ConCommand.
Sent(w, args) ==
  CASE args[1] = "set"     -> SetCommand(w, args[2], args[3])
    [] args[1] = "quit"    ->
         [w EXCEPT !.table = Replaced(@, Set(Get(@, "lg_ShouldQuit"), <<"1">>))]
    [] args[1] = "savecfg" -> SaveCFG(w, args[2], "APPEND" \in Range(args), "ALL" \in Range(args))
    [] OTHER -> w

\* LGC_LoadCFG.
Line(args) == IF args[1] = "set" THEN <<"set", args[2], ReadBack(args[3])>> ELSE args
LoadCFG(w, contents) ==
  LET after[i \in 0..Len(contents)] ==
        IF i = 0 THEN w ELSE Sent(after[i - 1], Line(contents[i]))
  IN  after[Len(contents)]

SendCommand(w, args) ==
  IF args[1] = "loadcfg" THEN LoadCFG(w, w.disk[args[2]]) ELSE Sent(w, args)

-----------------------------------------------------------------------------
(* What the settings are meant to do.                                      *)

\* The variables that do not come back as they were registered.
Kept(t, all) == {n \in Names : Saves(Get(t, n), all) /\ "ROM" \notin Get(t, n).flags}

\* After a SaveCFG to config.cfg that was completed, and one that was not.
KeptAfter(t, append, all) ==
  [n \in Names |-> IF n \in Kept(t, all) THEN {ReadBack(Get(t, n).value)}
                   ELSE IF append THEN kept[n] ELSE {Default(n)}]
KeptAfterCrash(t, append, all) ==
  [n \in Names |->
     (IF append THEN kept[n] ELSE {Default(n)}) \cup
     (IF n \in Kept(t, all) THEN {ReadBack(Get(t, n).value), <<>>} ELSE {})]

KeptAfterCommand(args) ==
  IF args[1] = "savecfg" /\ args[2] = "config.cfg"
  THEN KeptAfter(table, "APPEND" \in Range(args), "ALL" \in Range(args)) ELSE kept

-----------------------------------------------------------------------------
(* The life of the game.                                                   *)

Console == [table |-> table, disk |-> disk, gpu |-> gpu]
Becomes(w) == table' = w.table /\ disk' = w.disk /\ gpu' = w.gpu
Off == phase' = "off" /\ table' = EmptyTable /\ gpu' = NoDevice

ConsoleInit ==
  /\ phase = "off" /\ table = EmptyTable
  /\ disk \in FoundFirst
  /\ kept = [n \in Names |-> {Says(disk["config.cfg"], n)}]
  /\ gpu = NoDevice

RegisterCVars ==
  LET after[i \in 0..Len(Registered)] ==
        IF i = 0 THEN EmptyTable
        ELSE Register(after[i - 1], Registered[i].name, Registered[i].value,
                      Registered[i].flags)
  IN  after[Len(Registered)]

\* LG_GameInit up to the video: the variables are registered, then config.cfg
\* and autoexec.cfg loaded.
GameInit ==
  /\ phase = "off" /\ phase' = "config"
  /\ LET w == [Console EXCEPT !.table = RegisterCVars]
     IN  Becomes(LoadCFG(SendCommand(w, <<"loadcfg", "config.cfg">>), Autoexec))
  /\ UNCHANGED kept

\* CLVideo::Init sets the states; without video the console is shut down and
\* nothing is saved.
InitVideo ==
  /\ phase = "config"
  /\ \/ phase' = "running" /\ Becomes(SetStates(Console))
     \/ Off /\ UNCHANGED disk
  /\ UNCHANGED kept

\* A command is typed.
TypeCommand(args) ==
  /\ phase = "running"
  /\ Becomes(SendCommand(Console, args))
  /\ kept' = KeptAfterCommand(args)
  /\ UNCHANGED phase

ShouldQuit == Number(Value("lg_ShouldQuit")) # 0

\* The end of LG_GameShutdown.
GameShutdown ==
  /\ Off
  /\ \/ /\ disk' = SaveCFG(Console, "config.cfg", FALSE, FALSE).disk
        /\ kept' = KeptAfter(table, FALSE, FALSE)
     \/ UNCHANGED <<disk, kept>>     \* the file could not be opened
     \/ /\ \E contents \in CutShort(Console, "config.cfg", FALSE, FALSE) :
             disk' = [disk EXCEPT !["config.cfg"] = contents]
        /\ kept' = KeptAfterCrash(table, FALSE, FALSE)

\* The process is killed, while it does nothing or while it runs a SAVECFG.
Killed == phase # "off" /\ Off /\ UNCHANGED <<disk, kept>>
KilledInCommand(args) ==
  LET append == "APPEND" \in Range(args)
      all    == "ALL" \in Range(args)
  IN  /\ phase = "running" /\ args[1] = "savecfg"
      /\ Off
      /\ \E contents \in CutShort(Console, args[2], append, all) :
           disk' = [disk EXCEPT ![args[2]] = contents]
      /\ kept' = IF args[2] = "config.cfg" THEN KeptAfterCrash(table, append, all) ELSE kept

-----------------------------------------------------------------------------
(* Properties.                                                             *)

ConsoleTypeOK ==
  /\ phase \in {"off", "config", "running"}
  /\ \A s \in Slots : \A i \in DOMAIN table[s] :
       /\ table[s][i].name \in Names /\ SlotOf[table[s][i].name] = s
       /\ \A j \in DOMAIN table[s] : table[s][i].name = table[s][j].name => i = j
  /\ gpu.filter \in 0..4 /\ gpu.wire \in BOOLEAN

SetByAutoexec(name) ==
  \E i \in DOMAIN Autoexec : \/ Autoexec[i][1] = "set" /\ Autoexec[i][2] = name
                             \/ Autoexec[i][1] = "quit" /\ name = "lg_ShouldQuit"

\* "Any cvars that will be saved will be written to config.cfg"
\* (lg_sys_init.cpp:93-94): when the settings have been loaded each variable
\* has the text it had when config.cfg was last written, cut at a comment sign,
\* at a blank that a quote in it lays bare, and at the length of a line; one that
\* was not saved has its default.  After a save that was killed halfway a variable
\* may also have its default, or no text at all if it was killed between a name
\* and its value.
ConfigComesBack ==
  /\ ConsoleTypeOK
  /\ phase = "config" =>
       \A n \in Names : Has(table, n) /\ (SetByAutoexec(n) \/ Value(n) \in kept[n])

\* The sampler and render states are what the variables say, whatever set
\* them: config.cfg before there is a device, a SET, a file loaded later, or
\* SetStates itself when it corrects a filter.
StatesFollowCvars ==
  phase = "running" =>
    /\ gpu.filter = Number(Value("v_TextureFilter"))
    /\ gpu.wire = (Number(Value("v_DebugWireframe")) # 0)
=============================================================================
