---------------------------- MODULE WorldServer -----------------------------
(***************************************************************************)
(* CLWorldSrv (engine/lw_server.cpp): the entities of the game world, the  *)
(* clients' slots and the commands that tell the clients what happened.    *)
(*                                                                         *)
(* An entity is its index in m_pEntList (its UEID) and is on one of three  *)
(* lists.  ProcessServer runs the AI of the intelligent entities, collects *)
(* the ones that ask to be deleted in m_nEntKillList, removes them, each   *)
(* with a destroy command taken from a fixed pool, and broadcasts the      *)
(* commands to the slots of the connected clients.                         *)
(*                                                                         *)
(* A list is the sequence of its members, front first: that the links of   *)
(* CLListStack spell such a sequence is shown in ListStack.  The engine is *)
(* single-threaded; a step is a call, or a round of one of the loops of    *)
(* LoadLevel and ProcessServer, during which frame is not "idle".          *)
(***************************************************************************)
EXTENDS Integers, Sequences, SequencesExt

CONSTANTS
  MaxEnts,      \* srv_MaxEntities
  MaxClients,   \* LSRV_MAX_CLIENTS
  MaxCmds,      \* LSRV_MAX_CMDS
  KillListSize, \* m_nEntKillListSize
  Level,        \* the actors of the level script, by the AI of their script
  Broken,       \* the AIs whose scripts LX_LoadObject may fail to load
  MaxInits      \* bound: how often Init is called

AIs == {"jack", "blaine", "default"}

ASSUME WorldServerAssumption ==
  /\ MaxEnts \in Nat \ {0}
  /\ MaxClients \in Nat \ {0}
  /\ MaxCmds \in Nat
  /\ KillListSize \in Nat
  /\ Level \in Seq(AIs)
  /\ Broken \subseteq AIs
  /\ MaxInits \in Nat

VARIABLES
  running, paused, \* m_nFlags
  blank, int, inert, \* m_EntsBlank, m_EntsInt, m_EntsInert
  flag,       \* m_nFlags1 of each entity
  brain,      \* m_pAI of each entity
  bodies,     \* the entities that have a body in m_pPhys
  unused,     \* number of commands in m_UnusedCmds
  allCmds,    \* m_AllClients.m_CmdList
  queue,      \* m_Clients[slot].m_CmdList
  refs,       \* m_nClntRefs
  numClnts,   \* m_nNumClnts
  killList,   \* m_nEntKillList, m_nEntKillCount of it
  at,         \* where on m_EntsInt the loop over the AIs is, 0 when not in it
  todo,       \* actors LoadLevel has yet to add
  frame,      \* the loop the server is in
  fault,      \* the undefined behaviour the program ran into, after which
              \* nothing is said of it
  gen,        \* history: how often Init ran; the master arrays of an earlier
              \* generation have been deleted
  lost        \* history: destroyed entities each slot was sent no command for

entVars == <<blank, int, inert, flag, brain, bodies>>
cmdVars == <<unused, allCmds, queue>>
slotVars == <<refs, numClnts>>
srvVars == <<running, paused, entVars, cmdVars, slotVars, killList, at, todo, frame,
             fault, gen, lost>>

Ent   == 0..MaxEnts-1
NoEnt == -1
Slot  == 0..MaxClients-1

\* A destroy command, in the memory block of the server's n-th Init.
Cmd == [ent : Ent, gen : 1..MaxInits]

Live == ToSet(int) \cup ToSet(inert)
Connected == {refs[i] : i \in 0..numClnts-1}
Pending(slot) ==
  {c.ent : c \in {d \in ToSet(allCmds) \cup ToSet(queue[slot]) : d.gen = gen}}

\* AI_PHYS_INT of the AI's PhysFlags.
Class(ai) == IF ai \in {"jack", "blaine"} THEN "int" ELSE "inert"

CanLoad(ai) == IF ai \in Broken THEN BOOLEAN ELSE {TRUE}

Without(s, e) == RemoveAt(s, CHOOSE i \in DOMAIN s : s[i] = e)

-----------------------------------------------------------------------------
SrvInit ==
  /\ running = FALSE /\ paused = FALSE
  /\ blank = << >> /\ int = << >> /\ inert = << >>
  /\ flag = [e \in Ent |-> "blank"]
  /\ brain = [e \in Ent |-> "default"]
  /\ bodies = {}
  /\ unused = 0 /\ allCmds = << >> /\ queue = [s \in Slot |-> << >>]
  /\ refs = [i \in Slot |-> 0] /\ numClnts = 0
  /\ killList = << >> /\ at = 0 /\ todo = << >> /\ frame = "idle"
  /\ fault = "none"
  /\ gen = 0 /\ lost = [s \in Slot |-> {}]

Idle == frame = "idle" /\ fault = "none"

\* InitEnts: all entities are blank.
InitEnts ==
  /\ blank' = [i \in 1..MaxEnts |-> MaxEnts - i]
  /\ int' = << >> /\ inert' = << >>
  /\ flag' = [e \in Ent |-> "blank"]

DestroyEnts == blank' = << >> /\ int' = << >> /\ inert' = << >>

\* Init.  A running server is shut down first; m_UnusedCmds still links the
\* commands Shutdown deleted and its Init walks them to clear their list ids,
\* which does no harm, or any.  The clients are forgotten, their lists kept.
InitServer ==
  /\ Idle /\ gen < MaxInits
  /\ running' = TRUE /\ paused' = FALSE
  /\ InitEnts
  /\ bodies' = {}
  /\ unused' = MaxCmds
  /\ numClnts' = 0
  /\ killList' = << >>
  /\ fault' \in {"none"} \cup (IF gen > 0 /\ unused > 0 THEN {"freed_pool"} ELSE {})
  /\ gen' = gen + 1
  /\ lost' = [s \in Slot |-> {}]
  /\ UNCHANGED <<brain, allCmds, queue, refs, at, todo, frame>>

\* Shutdown.  The entities, the physics engine and the commands are deleted.
Shutdown ==
  /\ Idle
  /\ running
  /\ running' = FALSE /\ paused' = FALSE
  /\ DestroyEnts
  /\ bodies' = {}
  /\ UNCHANGED <<flag, brain, cmdVars, slotVars, killList, at, todo, frame, fault,
                 gen, lost>>

\* TogglePause, with Pause and Resume; Resume simulates with m_pPhys, which is
\* null while the server does not run.
TogglePause ==
  /\ Idle
  /\ paused' = ~paused
  /\ fault' = IF paused /\ ~running THEN "null_physics" ELSE fault
  /\ UNCHANGED <<running, entVars, cmdVars, slotVars, killList, at, todo, frame, gen,
                 lost>>

-----------------------------------------------------------------------------
\* A slip: ids counted from one.
AddedEntOneBased(loads) ==
  IF running /\ blank # << >> /\ loads THEN Head(blank) + 1 ELSE NoEnt

\* AddEntity of a script with the given AI; the script loads or not.
AddedEnt(loads) == IF running /\ blank # << >> /\ loads THEN Head(blank) ELSE NoEnt

AddEntity(ai, loads) ==
  \/ /\ ~running \/ blank = << >>
     /\ UNCHANGED entVars
  \/ /\ running /\ blank # << >> /\ ~loads
     /\ blank' = Tail(blank)
     /\ UNCHANGED <<int, inert, flag, brain, bodies>>
  \/ /\ running /\ blank # << >> /\ loads
     /\ blank' = Tail(blank)
     /\ flag' = [flag EXCEPT ![Head(blank)] = Class(ai)]
     /\ brain' = [brain EXCEPT ![Head(blank)] = ai]
     /\ bodies' = bodies \cup {Head(blank)}
     /\ \/ Class(ai) = "int"   /\ int' = <<Head(blank)>> \o int /\ UNCHANGED inert
        \/ Class(ai) = "inert" /\ inert' = <<Head(blank)>> \o inert /\ UNCHANGED int

\* ClearEnts pops the entities of both lists and pushes them on m_EntsBlank.
ClearEnts ==
  /\ blank' = Reverse(inert) \o Reverse(int) \o blank
  /\ int' = << >> /\ inert' = << >>
  /\ bodies' = {}

\* LoadLevel: ClearEnts, then AddEntity for each actor of the level.
LoadLevel ==
  /\ Idle /\ running
  /\ ClearEnts
  /\ todo' = Level /\ frame' = "load"
  /\ UNCHANGED <<running, paused, flag, brain, cmdVars, slotVars, killList, at,
                 fault, gen, lost>>

LoadActor ==
  /\ frame = "load" /\ todo # << >>
  /\ \E loads \in CanLoad(Head(todo)) : AddEntity(Head(todo), loads)
  /\ todo' = Tail(todo)
  /\ UNCHANGED <<running, paused, cmdVars, slotVars, killList, at, frame, fault, gen,
                 lost>>

LevelLoaded ==
  /\ frame = "load" /\ todo = << >>
  /\ frame' = "idle"
  /\ UNCHANGED <<running, paused, entVars, cmdVars, slotVars, killList, at, todo,
                 fault, gen, lost>>

-----------------------------------------------------------------------------
\* AcceptLocalConnect: the first slot no connected client has, and an entity
\* for the player.  The slot's command list is used as it was left.
\* Slips: a slot is free although a client has it; the last client is not
\* looked at.
FreeSlotsAll == Slot
FreeSlotsButLast == Slot \ {refs[i] : i \in 0..numClnts-2}

FreeSlots == Slot \ Connected

Refuses == numClnts >= MaxClients

AcceptLocalConnect(slot, loads) ==
  /\ Idle
  /\ ~Refuses
  /\ slot \in FreeSlots /\ \A s \in FreeSlots : slot <= s
  /\ refs' = [refs EXCEPT ![numClnts] = slot]
  /\ numClnts' = numClnts + 1
  /\ lost' = [lost EXCEPT ![slot] = {}]
  /\ AddEntity("jack", loads)
  /\ UNCHANGED <<running, paused, cmdVars, killList, at, todo, frame, fault, gen>>

-----------------------------------------------------------------------------
\* ProcessServer.
StartFrame ==
  /\ Idle /\ running /\ ~paused
  /\ frame' = "think" /\ at' = 1
  /\ UNCHANGED <<running, paused, entVars, cmdVars, slotVars, killList, todo, fault,
                 gen, lost>>

\* A round of the loop over m_EntsInt: the entity's AI runs and may queue
\* AI_FUNC_DELETE, which only Blaine's does.  m_nEntKillList is written past
\* its end when too many do.
RunAI(expires) ==
  /\ frame = "think" /\ fault = "none" /\ at <= Len(int)
  /\ expires => brain[int[at]] = "blaine"
  /\ killList' = IF expires THEN <<int[at]>> \o killList ELSE killList
  /\ fault' = IF Len(killList') > KillListSize THEN "kill_list_overrun" ELSE fault
  /\ at' = at + 1
  /\ UNCHANGED <<running, paused, entVars, cmdVars, slotVars, todo, frame, gen, lost>>

\* The physics engine moves the bodies.
Simulate ==
  /\ frame = "think" /\ fault = "none" /\ at > Len(int)
  /\ frame' = "kill" /\ at' = 0
  /\ UNCHANGED <<running, paused, entVars, cmdVars, slotVars, killList, todo, fault,
                 gen, lost>>

\* RemoveEnt.
\* A slip: the entity is left on its list.
UnlistNot(e) == UNCHANGED <<int, inert>>

Unlist(e) ==
  \/ flag[e] = "int" /\ int' = Without(int, e) /\ UNCHANGED inert
  \/ flag[e] # "int" /\ inert' = Without(inert, e) /\ UNCHANGED int

\* Slips: the pool is not asked whether it is empty; the command is not pushed.
SendDestroyUnchecked(e) ==
  /\ unused' = unused - 1
  /\ allCmds' = <<[ent |-> e, gen |-> gen]>> \o allCmds
  /\ UNCHANGED <<queue, lost>>

SendDestroyForgotten(e) ==
  /\ unused' = IF unused > 0 THEN unused - 1 ELSE 0
  /\ UNCHANGED <<allCmds, queue, lost>>

SendDestroy(e) ==
  \/ /\ unused = 0
     /\ lost' = [s \in Slot |-> IF s \in Connected THEN lost[s] \cup {e} ELSE lost[s]]
     /\ UNCHANGED cmdVars
  \/ /\ unused > 0
     /\ unused' = unused - 1
     /\ allCmds' = <<[ent |-> e, gen |-> gen]>> \o allCmds
     /\ UNCHANGED <<queue, lost>>

RemoveEnt(e) ==
  /\ Unlist(e)
  /\ bodies' = bodies \ {e}
  /\ flag' = [flag EXCEPT ![e] = "blank"]
  /\ blank' = <<e>> \o blank
  /\ SendDestroy(e)
  /\ UNCHANGED brain

\* A slip: m_nEntKillCount is not decremented.
KillKeepsEntry ==
  /\ frame = "kill" /\ fault = "none" /\ killList # << >>
  /\ RemoveEnt(Head(killList))
  /\ UNCHANGED <<running, paused, slotVars, killList, at, todo, frame, fault, gen>>

\* The loop over the kill list takes its entries from the end, here the front.
Kill ==
  /\ frame = "kill" /\ fault = "none" /\ killList # << >>
  /\ RemoveEnt(Head(killList))
  /\ killList' = Tail(killList)
  /\ UNCHANGED <<running, paused, slotVars, at, todo, frame, fault, gen>>

\* How many commands the i-th client gets of the k commands for all: the
\* clients are served in turn and each copy takes a command from the pool.
Copies(i, k) ==
  LET left == unused - i * k
  IN  IF left <= 0 THEN 0 ELSE IF left < k THEN left ELSE k

Broadcast ==
  LET k == Len(allCmds)
      IndexOf(s) == CHOOSE i \in 0..numClnts-1 : refs[i] = s
      Sent(s) == SubSeq(allCmds, 1, Copies(IndexOf(s), k))
      Missed(s) == SubSeq(allCmds, Len(Sent(s)) + 1, k)
  IN  /\ frame = "kill" /\ fault = "none" /\ killList = << >>
      /\ queue' = [s \in Slot |-> IF s \in Connected THEN Reverse(Sent(s)) \o queue[s]
                                  ELSE queue[s]]
      /\ lost' = [s \in Slot |-> IF s \in Connected
                                 THEN lost[s] \cup {c.ent : c \in ToSet(Missed(s))}
                                 ELSE lost[s]]
      /\ allCmds' = << >>
      /\ unused' = k + IF unused < numClnts * k THEN 0 ELSE unused - numClnts * k
      /\ frame' = "idle"
      /\ UNCHANGED <<running, paused, entVars, slotVars, killList, at, todo, fault, gen>>

\* Slips: the command is not given back; it is left on the list.
TakeCommandKeepsIt(slot) ==
  /\ Idle /\ queue[slot] # << >>
  /\ queue' = [queue EXCEPT ![slot] = Tail(@)]
  /\ UNCHANGED <<running, paused, entVars, unused, allCmds, slotVars, killList, at, todo,
                 frame, fault, gen, lost>>

TakeCommandPeeks(slot) ==
  /\ Idle /\ queue[slot] # << >>
  /\ UNCHANGED srvVars

\* The client of a slot pops a command of its list and gives it back to the
\* pool; one of an earlier generation has been deleted.
Freed(c) == ~running \/ c.gen # gen

TakeCommand(slot) ==
  /\ Idle /\ queue[slot] # << >>
  /\ queue' = [queue EXCEPT ![slot] = Tail(@)]
  /\ \/ Freed(Head(queue[slot])) /\ fault' = "freed_command" /\ UNCHANGED unused
     \/ ~Freed(Head(queue[slot])) /\ unused' = unused + 1 /\ UNCHANGED fault
  /\ UNCHANGED <<running, paused, entVars, allCmds, slotVars, killList, at, todo, frame,
                 gen, lost>>

-----------------------------------------------------------------------------
SrvNext ==
  \/ InitServer \/ Shutdown \/ TogglePause
  \/ LoadLevel \/ LoadActor \/ LevelLoaded
  \/ \E slot \in Slot : \/ \E loads \in CanLoad("jack") : AcceptLocalConnect(slot, loads)
                        \/ TakeCommand(slot)
  \/ StartFrame \/ (\E expires \in BOOLEAN : RunAI(expires)) \/ Simulate
  \/ Kill \/ Broadcast

SrvSpec == SrvInit /\ [][SrvNext]_srvVars

-----------------------------------------------------------------------------
(* Properties.                                                             *)

Faults == {"none", "freed_pool", "freed_command", "null_physics",
           "kill_list_overrun",
           \* and those of the client, in World
           "null_server_ents", "null_client_ents", "no_player",
           "player_not_drawn"}

\* Type correctness of the server's own state.
SrvTypeOK ==
  /\ running \in BOOLEAN /\ paused \in BOOLEAN
  /\ blank \in Seq(Ent) /\ int \in Seq(Ent) /\ inert \in Seq(Ent)
  /\ flag \in [Ent -> {"blank", "int", "inert"}]
  /\ brain \in [Ent -> AIs]
  /\ bodies \subseteq Ent
  /\ unused \in Nat
  /\ allCmds \in Seq(Cmd) /\ queue \in [Slot -> Seq(Cmd)]
  /\ refs \in [Slot -> Slot] /\ numClnts \in 0..MaxClients
  /\ killList \in Seq(Ent) /\ at \in Nat /\ todo \in Seq(AIs)
  /\ frame \in {"idle", "load", "think", "kill"}
  /\ fault \in Faults
  /\ gen \in 0..MaxInits
  /\ lost \in [Slot -> SUBSET Ent]

\* However entities are added, killed, cleared and their ids used again, an
\* entity is on at most one of the three lists and once; RemoveEnt finds it
\* on the list its m_nFlags1 says; and the physics engine has a body for the
\* entities in the world and for no other, so Simulate never moves a blank
\* entity and none is left without a body.
EntityLists ==
  /\ IsInjective(blank \o int \o inert)
  /\ \A e \in ToSet(int) : flag[e] = "int"
  /\ \A e \in ToSet(inert) : flag[e] = "inert"
  /\ bodies = Live

\* The entries of the kill list are different entities that are still in the
\* world, also while the loop that fills it goes on: no round of the kill loop
\* removes an entity twice, or one that ClearEnts or an earlier round has put
\* on m_EntsBlank.
KillListIsLive ==
  /\ IsInjective(killList)
  /\ ToSet(killList) \subseteq ToSet(int)
  /\ frame \in {"idle", "load"} => killList = << >>

\* Where the commands of the present pool are on the lists of the slots.
Queued ==
  UNION {{<<s, i>> : i \in {j \in DOMAIN queue[s] : queue[s][j].gen = gen}} : s \in Slot}

\* No command of the pool is lost or in two places: while the server runs, each
\* of the MaxCmds commands of its memory block is unused, waiting to be
\* broadcast, or on the list of one slot; and none waits between frames.
CommandsConserved ==
  /\ running => unused + Len(allCmds) + Cardinality(Queued) = MaxCmds
  /\ frame # "kill" => allCmds = << >>

\* A client indexes m_nClntRefs with its id on the server, which is its slot:
\* the slots of the connected clients are handed out in order, each once.
RefsAreSlots == \A i \in 0..numClnts-1 : refs[i] = i
=============================================================================
