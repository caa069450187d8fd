------------------------------- MODULE World --------------------------------
(***************************************************************************)
(* The game: the world server, the world client connected to it in the     *)
(* same process (engine/lw_client.cpp), and the main loop that drives both *)
(* (engine/lg_sys.cpp, lg_sys_init.cpp).  LG_GameInit starts the server,   *)
(* loads a level and connects the client; after that every frame runs      *)
(* ProcessServer, then Update and Render of the client; between frames the *)
(* console may run a command on either (engine/lg_cmd.cpp).                *)
(*                                                                         *)
(* The client draws the entities in view, which it copies from the server  *)
(* when it connects and from which it takes the ones it is told were       *)
(* destroyed.  It reads and writes the server's memory directly.           *)
(***************************************************************************)
EXTENDS WorldServer

CONSTANT Commands   \* the console commands that are typed

ConsoleCommands ==
  {"PAUSE", "INIT_SRV", "SHUTDOWN_SRV", "CONNECT", "DISCONNECT", "QUIT"}

ASSUME CommandsAssumption == Commands \subseteq ConsoleCommands

VARIABLES
  conn,      \* m_nConnectType is CLNT_CONNECT_LOCAL
  entList,   \* m_pEntList is not null
  view,      \* m_EntsAll; these entities have raster info
  pcEnt,     \* m_nPCEnt, NoEnt for the (lg_dword)-1 of a failed AddEntity
  idOnSrv,   \* m_nIDOnSrv
  connGen,   \* history: gen of the server the client connected to
  quit,      \* l_ShouldQuit
  phase      \* where the main loop is

cliVars == <<conn, entList, view, pcEnt, idOnSrv, connGen>>
vars == <<srvVars, cliVars, quit, phase>>

-----------------------------------------------------------------------------
Init ==
  /\ SrvInit
  /\ conn = FALSE /\ entList = FALSE /\ view = {}
  /\ pcEnt = NoEnt /\ idOnSrv = 0 /\ connGen = 0
  /\ quit = FALSE /\ phase = "init_server"

\* The rest of the server's state when only its fault changes.
Faulting(f) ==
  /\ fault' = f
  /\ UNCHANGED <<running, paused, entVars, cmdVars, slotVars, killList,
                 at, todo, frame, gen, lost>>

-----------------------------------------------------------------------------
(* The client.                                                             *)

Disconnect ==
  /\ conn' = FALSE /\ entList' = FALSE /\ view' = {}
  /\ UNCHANGED <<pcEnt, idOnSrv, connGen>>

\* ConnectLocal: the client disconnects, which the server is not told, and
\* asks for a connection.  When it is refused the client disconnects again
\* but goes on to copy the entities into the list it has just deleted.
ConnectLocal ==
  \/ /\ ~running
     /\ Disconnect
     /\ UNCHANGED srvVars
  \/ /\ running /\ Refuses
     /\ conn' = (Live = {}) /\ entList' = FALSE /\ view' = {}
     /\ Faulting(IF Live = {} THEN fault ELSE "null_client_ents")
     /\ UNCHANGED <<pcEnt, idOnSrv, connGen>>
  \/ \E slot \in Slot, loads \in CanLoad("jack") :
       /\ running
       /\ AcceptLocalConnect(slot, loads)
       /\ conn' = TRUE /\ entList' = TRUE
       /\ view' = Live'
       /\ pcEnt' = AddedEnt(loads) /\ idOnSrv' = slot
       /\ connGen' = gen

\* The list Receive empties.
MyCmds == queue[refs[idOnSrv]]

\* Client's RemoveEnt, called with the entity of each command.
ClntRemoveEnt(e) ==
  /\ view' = view \ {e}
  /\ UNCHANGED <<conn, entList, pcEnt, idOnSrv, connGen>>

\* Update reads and writes the server's entities and the player's entity;
\* Render draws from the player's raster info.  What goes wrong, if anything.
UpdateFault ==
  IF ~conn THEN "none"
  ELSE IF ~running THEN "null_server_ents"
  ELSE IF ~entList THEN "null_client_ents"
  ELSE IF pcEnt = NoEnt THEN "no_player"
  ELSE IF pcEnt \notin view THEN "player_not_drawn"
  ELSE "none"

-----------------------------------------------------------------------------
(* LG_GameInit.                                                            *)

BootServer ==
  /\ phase = "init_server" /\ phase' = "load_level"
  /\ InitServer
  /\ UNCHANGED <<cliVars, quit>>

\* The level script loads or does not.
BootLevel ==
  /\ phase = "load_level" /\ frame = "idle"
  /\ \/ LoadLevel /\ phase' = "loading"
     \/ phase' = "connect" /\ UNCHANGED srvVars
  /\ UNCHANGED <<cliVars, quit>>

BootActors ==
  /\ phase = "loading"
  /\ \/ LoadActor /\ phase' = phase
     \/ LevelLoaded /\ phase' = "connect"
  /\ UNCHANGED <<cliVars, quit>>

BootConnect ==
  /\ phase = "connect" /\ phase' = "console"
  /\ ConnectLocal
  /\ UNCHANGED quit

-----------------------------------------------------------------------------
(* Console commands, between two frames.                                   *)

Typed(c) == c \in Commands /\ phase = "console" /\ fault = "none"

PauseCommand ==
  /\ Typed("PAUSE")
  /\ TogglePause
  /\ UNCHANGED <<cliVars, quit, phase>>

InitCommand ==
  /\ Typed("INIT_SRV")
  /\ InitServer
  /\ UNCHANGED <<cliVars, quit, phase>>

ShutdownCommand ==
  /\ Typed("SHUTDOWN_SRV")
  /\ Shutdown
  /\ UNCHANGED <<cliVars, quit, phase>>

\* CONNECT, and LOADMAP, which connects again once the map is loaded.
ConnectCommand ==
  /\ Typed("CONNECT")
  /\ ConnectLocal
  /\ UNCHANGED <<quit, phase>>

DisconnectCommand ==
  /\ Typed("DISCONNECT")
  /\ Disconnect
  /\ UNCHANGED <<srvVars, quit, phase>>

\* QUIT sets l_ShouldQuit, which LG_GameLoop looks at after the next frame.
QuitCommand ==
  /\ Typed("QUIT")
  /\ quit' = TRUE
  /\ UNCHANGED <<srvVars, cliVars, phase>>

-----------------------------------------------------------------------------
(* A frame: LG_ProcessGame.                                                *)

\* ProcessServer returns at once when the server is paused or does not run.
SkipServer ==
  /\ phase = "console" /\ fault = "none"
  /\ ~running \/ paused
  /\ phase' = "update"
  /\ UNCHANGED <<srvVars, cliVars, quit>>

RunServer ==
  /\ phase = "console" /\ phase' = "server"
  /\ StartFrame
  /\ UNCHANGED <<cliVars, quit>>

RunAIs ==
  /\ phase = "server"
  /\ (\E expires \in BOOLEAN : RunAI(expires)) \/ Simulate
  /\ UNCHANGED <<cliVars, quit, phase>>

RunKillList ==
  /\ phase = "server"
  /\ Kill
  /\ UNCHANGED <<cliVars, quit, phase>>

RunBroadcast ==
  /\ phase = "server" /\ phase' = "update"
  /\ Broadcast
  /\ UNCHANGED <<cliVars, quit>>

\* A round of the loop of Receive.
Receive ==
  /\ phase = "update" /\ fault = "none"
  /\ conn /\ MyCmds # << >>
  /\ IF entList \/ Freed(Head(MyCmds))
     THEN /\ TakeCommand(refs[idOnSrv])
          /\ IF Freed(Head(MyCmds)) THEN UNCHANGED cliVars
             ELSE ClntRemoveEnt(Head(MyCmds).ent)
     ELSE Faulting("null_client_ents") /\ UNCHANGED cliVars
  /\ UNCHANGED <<quit, phase>>

\* A slip: Update runs without Receive having emptied the list.
UpdateWithoutReceive ==
  /\ phase = "update" /\ fault = "none"
  /\ Faulting(UpdateFault)
  /\ phase' = IF quit THEN "quit" ELSE "console"
  /\ UNCHANGED <<cliVars, quit>>

\* The rest of Update, and Render.
UpdateAndRender ==
  /\ phase = "update" /\ fault = "none"
  /\ ~conn \/ MyCmds = << >>
  /\ Faulting(UpdateFault)
  /\ phase' = IF quit THEN "quit" ELSE "console"
  /\ UNCHANGED <<cliVars, quit>>

\* LG_GameShutdown.
GameShutdown ==
  /\ phase = "quit" /\ fault = "none"
  /\ Disconnect
  /\ IF running THEN Shutdown ELSE UNCHANGED srvVars
  /\ phase' = "off"
  /\ UNCHANGED quit

-----------------------------------------------------------------------------
Boot == BootServer \/ BootLevel \/ BootActors \/ BootConnect

Console ==
  \/ PauseCommand \/ InitCommand \/ ShutdownCommand
  \/ ConnectCommand \/ DisconnectCommand \/ QuitCommand

Frame ==
  \/ SkipServer \/ RunServer \/ RunAIs \/ RunKillList \/ RunBroadcast
  \/ Receive \/ UpdateAndRender \/ GameShutdown

Next == Boot \/ Console \/ Frame

Spec == Init /\ [][Next]_vars

\* The main loop goes on to the next frame whatever is typed between frames.
FairSpec == Spec /\ WF_vars(Boot) /\ WF_vars(Frame)

-----------------------------------------------------------------------------
(* Properties.                                                             *)

\* The client is connected to the server that runs now.
Attached == conn /\ running /\ connGen = gen

\* Type correctness of the client's state.
TypeOK ==
  /\ conn \in BOOLEAN /\ entList \in BOOLEAN
  /\ view \subseteq Ent
  /\ pcEnt \in Ent \cup {NoEnt}
  /\ idOnSrv \in Slot
  /\ connGen \in 0..MaxInits
  /\ phase \in {"init_server", "load_level", "loading", "connect", "console",
                "server", "update", "quit", "off"}
  /\ quit \in BOOLEAN

\* A client that stays connected to the server it connected to draws every
\* entity of the world, and an entity that has left the world only while the
\* command that says so is on its way or was lost for want of a command; the
\* commands on their way to it never name an entity that is in the world,
\* although the ids of destroyed entities are used again at once.
ViewLagsWorld ==
  /\ TypeOK
  /\ Attached /\ entList /\ fault = "none" =>
    /\ Live \subseteq view
    /\ view \ Live \subseteq Pending(idOnSrv) \cup lost[idOnSrv]
    /\ Pending(idOnSrv) \cap Live = {}

\* RemoveEnt of the client deletes the raster info of the entity of a command
\* and takes it out of m_EntsAll without looking whether it is there: each
\* command on its way names an entity the client draws, and no entity twice.
DestroysAreOfDrawn ==
  Attached /\ entList /\ fault = "none" =>
    LET cmds == allCmds \o queue[idOnSrv]
        coming == {i \in DOMAIN cmds : cmds[i].gen = gen}
    IN  \A i \in coming :
          /\ cmds[i].ent \in view
          /\ \A j \in coming : cmds[i].ent = cmds[j].ent => i = j

\* Update and Render use the entity of the player without a check: it is never
\* destroyed on the client, even by commands for an earlier owner of its id or
\* of its slot.
PlayerIsDrawn == fault # "player_not_drawn"

\* The client's view is a copy of the world that only lags behind it.
Replicated == INSTANCE Replica WITH live <- Live
ViewIsReplica == Replicated!Spec

\* An entity whose destruction is on its way to the client leaves its view,
\* unless the command is lost or the client or the server goes away first,
\* also while the server is paused.
DestroysArrive ==
  \A e \in Ent, s \in Slot :
    LET Mine == Attached /\ idOnSrv = s
    IN  (Mine /\ e \in Pending(s))
          ~> (~Mine \/ e \notin view \/ e \in lost[s] \/ fault # "none")

\* "This is broadcast to all clients before the server shuts down. After this
\* message has been broadcast, the client should assume that it should
\* disconnect."
ClientLeavesStoppedServer == phase = "update" /\ ~running => ~conn

\* "The client is connected to the server, and ready for updating. If a
\* connection could not be esablished then an error message is printed."
RefusalIsHandled == fault # "null_client_ents"
=============================================================================
