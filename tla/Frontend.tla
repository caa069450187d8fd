------------------------------ MODULE Frontend ------------------------------
(***************************************************************************)
(* The program as its user sees it: the window loop (engine/win_sys.cpp)   *)
(* that turns between messages and the game loop (lg_sys.cpp), the input   *)
(* class that polls the devices (li_sys.cpp), the graphical console that   *)
(* slides in over the game (lv_con.cpp), and behind it the console.        *)
(*                                                                         *)
(* A key reaches the program twice, by DirectInput's immediate state and   *)
(* by a WM_CHAR message, and which of the two is seen first is up to       *)
(* Windows.  Keys a user holds repeat.  Another program may take the       *)
(* focus; DirectInput then refuses its state.                              *)
(***************************************************************************)
EXTENDS Integers, Console

CONSTANTS
  Keys,         \* keys of the keyboard
  ConKey,       \* the console key
  Buttons,      \* buttons of the mouse
  Typed,        \* the command lines a user types
  MaxTyped,     \* bound: commands typed
  MaxRuns,      \* bound: starts of the program, the last of which is not watched
                \* further than to the end of its settings being loaded
  MaxMessages,  \* bound: messages waiting
  Slides,       \* how far the console may slide in one frame
  Half          \* half the height of the screen

VARIABLES
  held,         \* the keys and buttons that are down
  focus,        \* our window has the focus
  messages,     \* the message queue
  bActiveApp,   \* WindowLoop's
  pc,           \* WindowLoop is at "peek", or about to run a "frame"
  kbData,       \* m_kbData: the keys it says are down
  mouseState,   \* m_mouseState: likewise the buttons
  commands,     \* the commands that are m_bActive, by the key of each
  bActive, bDeactivating, position,  \* CLVCon
  typed, runs   \* history: commands typed, runs of the program

windowVars == <<held, focus, messages, bActiveApp, pc>>
inputVars == <<kbData, mouseState, commands>>
vconVars == <<bActive, bDeactivating, position>>
vars == <<consoleVars, windowVars, inputVars, vconVars, typed, runs>>

ASSUME FrontendAssumption ==
  /\ ConKey \in Keys /\ Keys \cap Buttons = {}
  /\ Slides \subseteq Nat /\ Half \in Nat
  /\ \A args \in Typed : IsCommand(args) /\ (args[1] = "loadcfg" => args[2] \in Files)

-----------------------------------------------------------------------------
(* The graphical console.                                                  *)

\* Toggle: a console that is told to come in is active at once.
Toggle ==
  /\ bDeactivating' = ~bDeactivating
  /\ bActive' = (bActive \/ bDeactivating)

\* UpdatePos of a console with these flags: it stays active until it is out
\* of sight, and for one frame more.
UpdatePos(active, deactivating, slide) ==
  \/ ~active /\ bActive' = FALSE /\ UNCHANGED position
  \/ active /\ deactivating /\ position <= 0 /\ bActive' = FALSE /\ position' = 0
  \/ active /\ deactivating /\ position > 0 /\ bActive' = TRUE /\ position' = position - slide
  \/ /\ active /\ ~deactivating /\ bActive' = TRUE
     /\ position' = IF position + slide > Half THEN Half ELSE position + slide

-----------------------------------------------------------------------------
(* CLInput.                                                                *)

\* LI_InitKB and LI_InitMouse set both devices up for the foreground: Acquire
\* gets them only while the window has the focus, exclusive or not.
KeyboardAcquired == focus
MouseAcquired == focus

\* GetDeviceState, which leaves the data alone when it fails.
Polled(data, keys, acquired) == IF acquired THEN held \cap keys ELSE data

\* UpdateCommands makes commands of the data.
CommandsOf(kb, mouse) == (kb \cup mouse) \ {ConKey}

\* A slip: the data are not cleared when the console is opened.
ClearedNot(kb) == kb
\* LI_Update clears the data when the console key is down, after the commands
\* were updated.
Cleared(kb) == IF ConKey \in kb THEN {} ELSE kb

\* LI_Update, of the keyboard only while the console is not active.
Update ==
  LET kb    == IF bActive THEN kbData ELSE Polled(kbData, Keys, KeyboardAcquired)
      mouse == Polled(mouseState, Buttons, MouseAcquired)
  IN  /\ commands' = CommandsOf(kb, mouse)
      /\ kbData' = Cleared(kb)
      /\ mouseState' = IF ConKey \in kb THEN {} ELSE mouse

ConsoleKeyDown == ~bActive /\ ConKey \in Polled(kbData, Keys, KeyboardAcquired)

-----------------------------------------------------------------------------
(* The window loop.                                                        *)

\* Everything but the disk is as when the program starts.
Fresh ==
  /\ held' = {} /\ focus' = TRUE /\ messages' = << >> /\ bActiveApp' = TRUE /\ pc' = "peek"
  /\ kbData' = {} /\ mouseState' = {} /\ commands' = {}
  /\ bActive' = FALSE /\ bDeactivating' = TRUE /\ position' = 0
  /\ UNCHANGED <<typed, runs>>

Init ==
  /\ ConsoleInit
  /\ held = {} /\ focus = TRUE /\ messages = << >> /\ bActiveApp = TRUE /\ pc = "peek"
  /\ kbData = {} /\ mouseState = {} /\ commands = {}
  /\ bActive = FALSE /\ bDeactivating = TRUE /\ position = 0
  /\ typed = 0 /\ runs = 0

\* WinMain and LG_GameInit, CLVCon::Create among it.
Start ==
  /\ runs < MaxRuns /\ runs' = runs + 1
  /\ GameInit
  /\ UNCHANGED <<windowVars, inputVars, vconVars, typed>>

StartVideo ==
  /\ runs < MaxRuns
  /\ InitVideo
  /\ UNCHANGED <<windowVars, inputVars, vconVars, typed, runs>>

\* PeekMessage finds nothing: the game loop is run if the program is active.
Peek ==
  /\ phase = "running" /\ pc = "peek" /\ messages = << >> /\ bActiveApp
  /\ pc' = "frame"
  /\ UNCHANGED <<consoleVars, held, focus, messages, bActiveApp, inputVars, vconVars,
                 typed, runs>>

\* MainWindowProc: WM_USER_ACTIVEAPP, or WM_CHAR, which CLVCon::OnCharA takes
\* when it is active.
Dispatch ==
  /\ phase = "running" /\ pc = "peek" /\ messages # << >>
  /\ messages' = Tail(messages)
  /\ IF Head(messages) \in {"activate", "deactivate"}
     THEN bActiveApp' = (Head(messages) = "activate") /\ UNCHANGED <<bActive, bDeactivating>>
     ELSE /\ UNCHANGED bActiveApp
          /\ IF bActive /\ Head(messages) = ConKey THEN Toggle
             ELSE UNCHANGED <<bActive, bDeactivating>>
  /\ UNCHANGED <<consoleVars, held, focus, pc, inputVars, position, typed, runs>>

\* A command line is typed, its characters and a carriage return, by OnCharA
\* and LC_OnChar.
TypeLine(args) ==
  /\ typed < MaxTyped /\ focus /\ bActive
  /\ pc = "peek" /\ messages = << >> /\ held = {}
  /\ \/ TypeCommand(args) /\ typed' = typed + 1 /\ UNCHANGED <<windowVars, inputVars, vconVars, runs>>
     \/ KilledInCommand(args) /\ Fresh

\* LG_GameLoop and LG_ProcessGame: the input, the console when graphics are
\* drawn, and the end of the game when a command asked for it.
Frame ==
  /\ phase = "running" /\ pc = "frame"
  /\ IF ShouldQuit
     THEN GameShutdown /\ Fresh
     ELSE /\ pc' = "peek"
          /\ Update
          /\ bDeactivating' = (bDeactivating # ConsoleKeyDown)
          /\ \/ \E slide \in Slides :
                  UpdatePos(bActive \/ (ConsoleKeyDown /\ bDeactivating), bDeactivating', slide)
             \/ /\ bActive' = (bActive \/ (ConsoleKeyDown /\ bDeactivating))
                /\ UNCHANGED position     \* nothing is drawn
          /\ UNCHANGED <<consoleVars, held, focus, messages, bActiveApp, typed, runs>>

Crash ==
  /\ Killed /\ Fresh

-----------------------------------------------------------------------------
(* The user.                                                               *)

Room4(n) == Len(messages) + n <= MaxMessages
User == UNCHANGED <<consoleVars, bActiveApp, pc, inputVars, vconVars, typed, runs>>

\* A key or a button goes down; keys that are held repeat.
Press(k) ==
  /\ phase = "running" /\ focus
  /\ held' = held \cup {k}
  /\ messages' = IF k \in Keys THEN Append(messages, k) ELSE messages
  /\ k \in Keys => Room4(1)
  /\ UNCHANGED focus /\ User

Release(k) ==
  /\ phase = "running" /\ k \in held
  /\ held' = held \ {k}
  /\ UNCHANGED <<focus, messages>> /\ User

\* Another program comes to the front, or ours comes back.
SwitchFocus ==
  /\ phase = "running" /\ Room4(1)
  /\ focus' = ~focus
  /\ messages' = Append(messages, IF focus THEN "deactivate" ELSE "activate")
  /\ UNCHANGED held /\ User

Next ==
  \/ Start \/ StartVideo \/ Peek \/ Dispatch \/ Frame \/ Crash
  \/ \E args \in Typed : TypeLine(args)
  \/ \E k \in Keys \cup Buttons : Press(k) \/ Release(k)
  \/ SwitchFocus

Spec == Init /\ [][Next]_vars

-----------------------------------------------------------------------------
(* Properties.                                                             *)

TypeOK ==
  /\ held \subseteq Keys \cup Buttons /\ kbData \subseteq Keys
  /\ mouseState \subseteq Buttons /\ commands \subseteq Keys \cup Buttons
  /\ bActive \in BOOLEAN /\ bDeactivating \in BOOLEAN
  /\ position \in Int /\ position <= Half

\* While the console is active the input class has no key left of the game's,
\* and one that is not active is on its way out, so that the next console key
\* brings it in.
KeysAreAway == (bActive => kbData = {}) /\ (~bActive => bDeactivating)

\* "If the console is active we'll let windows handle keyboard input to the
\* console" (lg_sys.cpp:63-65): in a frame that starts with the console active
\* no key is a command of the game, whatever was held when it came in, and the
\* focus moving to and fro.
ConsoleOwnsKeys == [][Frame /\ bActive => commands' \cap Keys = {}]_vars
=============================================================================
