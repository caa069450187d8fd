# A TLA+ model of the Legacy 3D engine

Legacy 3D is a single-process Windows game engine: a main loop runs a world
server, a world client that draws what the server simulates, resource managers,
a console, sound, input, a video device and a file system.  It starts no threads;
only the audio device, the disk and Windows work beside it.  What is hard to get
right is the *order* of things: which object outlives which, what a list still
links after its nodes have been deleted, what a client believes of a server that
has changed, what must be released before a device is reset, which of two mounted
files a name means, what happens when a fixed-size pool is empty.  This directory
models those parts, checks them with TLC and proves some of them with TLAPS.  All
paths below are under `src/Source/`.

## 1. Inventory

| component | state | operations | interacts with |
|---|---|---|---|
| `CLListStack` (engine/lg_list_stack.cpp, copy in lf_sys2) | links and list id *in the nodes*; first, last, count in the list | Push, Pop, Remove, Clear, Init | every pool of the engine is made of them |
| `CLWorldSrv` (engine/lw_server.cpp) | flags running/paused; entity array and three entity lists; kill list of ten; pool of 1024 commands; eight client slots | Init, Shutdown, TogglePause, LoadLevel, LoadMap, AddEntity, RemoveEnt, ProcessServer, AcceptLocalConnect, Broadcast | AI library (asks for deletion), physics (one body per entity), client (commands, shared memory) |
| `CLWorldClnt` (engine/lw_client.cpp) | connection type, entity array, list of drawn entities with raster info, player's entity, id on the server | ConnectLocal, Disconnect, Receive, Update, Render | reads and writes the server's entities and command lists directly |
| physics (engine/lp_legacy.cpp, ML_lib) | awake bodies, hulls of the map, gravity | AddBody, RemoveBody, SetupWorld, Simulate | the server's entities, written back after each step |
| AI library (game/lw_ai_*.cpp) | data of each entity | Init, PrePhys, PostPhys | writes forces, animation flags and functions into the server's entities |
| meshes and animation (lm_sys) | a tree of nodes per entity: current clip, transition, waiting clip; the pose in each mesh | SetAnimation, Update, Render | client hands on the flags of the entities; meshes belong to a manager |
| map (engine/lw_map.cpp, ws_sys/ws_file.cpp) | the editor's file, temp.lw, the server's map, the engine's hulls, the client's vertex buffer | compile, load, Validate, Invalidate, Render | server, client, physics, device |
| game loop, console commands (engine/lg_sys.cpp, lg_sys_init.cpp, lg_cmd.cpp) | l_ShouldQuit, game state | boot, one frame, commands typed between frames, shutdown | calls all of the above |
| console and cvars (lc_sys2, lg_cvars.cpp) | definitions, cvars and commands in hash tables; .cfg files | SET, SAVECFG, LOADCFG, update notices | everything configurable |
| window loop, input, graphical console (win_sys.cpp, li_sys.cpp, lv_con.cpp) | message queue, keys the device reports, active commands, position of the console | WindowLoop, LI_Update, ToggleActive, UpdatePos, OnChar | client sends the commands to the player's entity |
| video (lv_sys.cpp, lg_video.cpp, lv_img2d.cpp, lv_font.cpp, wnd_sys, lg_fxmgr.cpp) | device and its parameters; what lives in device memory | InitVideo, LV_ValidateDevice, Restart, Validate/Invalidate of everything | fonts, images, console, map, managers |
| `CLHashMgr` (engine/lg_hash_mgr.h) | open-addressing table; each location holds an item and the *count of items hashed to it* | GetItem, Load, Unload, UnloadItems | base of the six managers |
| texture, material, skin, mesh, skeleton managers | the table, and a pool of items on a list stack | DoLoad, DoDestroy, LoadTextureMem | materials load textures and effects |
| sound (ls_stream.cpp, ls_sys.cpp) | open file, two buffers, playing/paused/looping | Load, Play, Stop, Pause, Update, Music_* | the audio device consumes buffers concurrently |
| file system (lf_sys2/lf_fs2.cpp, lf_file.cpp) | partition table (hash table of mounted files), pool of unused files, open files | Mount, MountLPK, OpenFile, CloseFile, Read, Write, Seek, UnMountAll | every loader |
| archives (lf_sys2/lf_lpk.cpp) | the file, its list of files, where data ends | Open, CreateNew, AddFile, Save, Close, ExtractFile | mounted by the file system |
| XML loaders, sound decoders, LMEdit, lf_pak | data read once | - | - |

Hard behaviours, by kind (PROJECT.json lists each one at its line):

- *stale state*: entity ids are used again at once; client slots and command
  lists outlive the server's arrays; Remove leaves links in the node; CloseFile
  looks a name up again; drawing in two dimensions saves and sets back a filter
  that a reset and a command change too; keys held when the console opens;
- *partial failure and crash*: a slot or a pooled item is taken before the step
  that may fail; a map's file is not written and the last one is read; AddFile
  writes over the archive's table of contents, which Save writes again; a process
  is killed between the name and the value of a variable;
- *limits*: commands, slots, entities, kill list, table locations, mounted files;
- *protocol*: PAUSE, SHUTDOWN_SRV, INIT_SRV in any order with a client attached;
- *ordering*: mounts over each other; hulls asked one after the other; settings
  corrected one after the other; an animation asked for during a transition;
- *liveness*: a destroyed entity must leave the client's view, a stream must be
  heard to its end, a transition must end.

What makes each component correct: the links of a list spell its contents; an
entity is on exactly the list its flag says and has a body exactly while it is
in the world; the client's view only lags behind the world; commands are
conserved; hulls keep bodies out; a tree does what was asked of it last; the map
drawn is the one made; a hash table finds what it holds and counts right; a
pooled item has one use; a resource handed out is alive; what is in device memory
is released before a reset and back after it; settings come back; a name leads to
the file the mounts say; a saved archive is whole.

## 2. Modules

| module | models | state ↔ code |
|---|---|---|
| `AbstractListStack` | what lg_list_stack.h promises: sequences | `contents[l]` |
| `ListStack` | lg_list_stack.cpp | `next`, `prev`, `owner` (m_nListStackID), `first`, `last`, `count` |
| `SequenceLemmas` | lemmas on sequences as lists without repetition (Cons, RemoveAt, Tail, Reverse, InsertAt, concatenation), on pairs, minima and counting, on what holds along an interval, and on functions defined by iteration | - |
| `WorldServer` | lw_server.cpp | `running`, `paused` (m_nFlags), `blank`/`int`/`inert` (m_EntsBlank/Int/Inert as sequences), `flag` (m_nFlags1), `brain` (m_pAI), `bodies` (m_pPhys), `unused`, `allCmds`, `queue` (command lists), `refs`, `numClnts`, `killList`, `at` (the loop cursor over m_EntsInt) |
| `Replica` | what server and client promise together: a copy that lags | `live`, `view` |
| `World` | EXTENDS `WorldServer` with lw_client.cpp, the boot, the frame and the console commands | `conn`, `entList`, `view` (m_EntsAll), `pcEnt`, `idOnSrv`, `quit`, `phase` |
| `Boxes` | ML_lib: boxes, planes, and what a moving box meets | - |
| `Physics` | EXTENDS `Boxes` with lp_legacy.cpp and the server's calls of it | `awake` (m_AwakeBodies), `body`, `ent` (what the server sees), `hulls` (m_pGeoHulls), `gravity` |
| `MeshTree` | lm_mesh_tree.cpp, lm_mesh_anim.cpp: a node's clip, transition and waiting clip | - |
| `Animation` | EXTENDS `MeshTree` with the AIs' requests, the server's flags and the client's frame | `flags` (m_nAnimFlags1), `step` (the timer), `tree` (m_MeshTree), `meshes` (whose pose a mesh has), `drawn` |
| `WSFile` | ws_file.cpp: from the editor's objects to a Legacy World | - |
| `MapLoad` | EXTENDS `WSFile` with lw_map.cpp, LOADMAP and the copies | `file`, `temp` (temp.lw), `map` (the server's m_Map), `hulls`, `drawn` (CLMapD3D), `step` |
| `ResourceCache` | what a resource manager promises its users | `loaded`, `memory` |
| `HashMgr` | lg_hash_mgr.h | `code`, `count`, `name`, `item` per location |
| `TextureMgr` | EXTENDS `HashMgr` with lg_tmgr.cpp | `alive`: textures Direct3D holds |
| `PoolMgr` | EXTENDS `HashMgr` with the pools of lg_mtr_mgr.cpp, lg_skin_mgr.cpp, lg_mmgr.cpp | `free` |
| `MeshMgr` | EXTENDS `PoolMgr` with lg_mmgr.cpp's flags and lm_mesh_lg.cpp's buffers | `buffers`: whose data a mesh's m_pVB and m_pIB hold |
| `SndStream` | ls_stream.cpp with its OpenAL source | `open`, `playing`, `paused`, `loop` (the flags), `pos` (m_cSndFile), `data` (m_Buffers), `queue`/`proc`/`src` (the source), `pc`/`todo` (where Update is) |
| `PartitionTable` | CPartitionTable of lf_fs2.cpp with the free list CLfListStack makes of it, links included | a record: chains, `file` by slot, first/next of m_UnusedFiles |
| `FileSystem` | EXTENDS `PartitionTable` with CLFileSystem and CLFile | `table` (m_PrtTable), `bBaseMounted`, `disk` (the OS files' sizes), `fileOf` (the CLFile of each handle) |
| `Archive` | lf_lpk.cpp over a disk that fills up | `disk`, `handle` (m_File), `list` (m_pFileList), `writePos`, `bHasChanged`, `bWriteable` |
| `CvarList` | the three hash tables of lc_sys2 | - |
| `Console` | EXTENDS `CvarList` with the commands and the .cfg files | `table` (g_pCvars), `disk` (the .cfg files), `gpu` (the states of the device) |
| `Frontend` | EXTENDS `Console` with win_sys.cpp, lg_sys.cpp, li_sys.cpp, lv_con.cpp | `held`, `focus`, `messages` (Windows), `kbData`, `mouseState`, `commands` (input), `bActive`, `bDeactivating`, `position` (console) |
| `VideoMode` | lv_sys.cpp: the present parameters made of the variables | - |
| `VideoReset` | EXTENDS `VideoMode` with the life of the device and of what lives on it | `device`, `cv`, `pp`, `sampler`, `saved`, `background`, `font`, `windows`, `map`, `mapBuffer`, `mapValid`, the effects |
| `ListStackProofs`, `FrontendProofs` | theorems about the module of that name (`FrontendProofs` about `Console` too) | - |
| `WorldProofs` | theorems about `WorldServer` and `World` | - |
| `GraphicsProofs` | theorems about `MapLoad` and `VideoReset` | - |
| `AssetProofs` | theorems about `Animation`, `Archive` and `Physics` | - |
| `FileProofs` | theorems about `FileSystem` with its `PartitionTable`, and about `SndStream` | - |
| `ManagerProofs` | theorems about `HashMgr` and the managers on it | - |

`MC*.tla` instantiate these for TLC.  Operators called "a slip" are plausible
bugs, used only to see that each property can fail.

How they compose: `World` is server and client in one state machine; `Animation`
and `MapLoad` each follow one thing through server, client and, for maps, physics,
with the rest of the world reduced to what that thing needs; `Frontend` is window
loop, input, graphical console and console together; `VideoReset` is everything
that shares the device; `FileSystem` mounts what `Archive` saves, of which it keeps
the listing.  The abstract specifications are `AbstractListStack`, `Replica` and
`ResourceCache`; `ListStack`, `World` and `HashMgr` implement them.

**Granularity.**  The engine is single-threaded, so a step is one call, except
that the loops of LoadLevel and ProcessServer are one step per round, that the
console may act between any two frames, as Windows' message pump does, and that
CLSndStream::Update is cut wherever the audio device can make a difference: before
it counts the played buffers, before each round, before it looks at the source.
Saving a .cfg file is cut between its writes, where the process may be killed, and
a video step where the device may be lost.

**External code.**  OpenAL, Direct3D, DirectInput, the operating system, zlib and the
loaders of file formats are not modelled for themselves: a texture is created or
not, a file loads or not, deflate shrinks a file or does not, Reset fails while
something in POOL_DEFAULT is alive, and an OpenAL source does what its specification
says of alSourcePlay, alSourceStop, queueing and processed buffers.

**Undefined behaviour.**  `fault` records the first access through a null or
deleted pointer or past an array; from then on nothing else happens.  Init after
Shutdown walks deleted list nodes: whether that does harm is a nondeterministic
choice.  Junk is a constant of `MapLoad`: what uninitialised faces hold.

**History variables** (`contents`, `gen`, `lost`, `connGen`, `said`, `met`, `whole`,
`kept`, `want`, `sound`, `failed`, `crossed` and the counters) never guard the code's own
steps, except that the counters cap how often callers call and that `contents`
restricts the callers of `ListStack` to the header's preconditions.  In `SndStream`
`expect`, `inOrder`, `underrun` and `replayed` record what a listener noticed.

## 3. What the runs check

Twelve runs, each of one group of components; every property has a slip of the
code that breaks it.

### Lists
`list_stack`: two lists, three nodes (first, middle, last; nodes move between
lists).  `LinksSpellContents` is the invariant every other module relies on when
it writes a list as a sequence, and `ImplementsLists` is refinement of
`AbstractListStack` by the sequence read off the links.

### World
`world`: up to six entities, three slots, three commands, a kill list of two, at most
two Inits, one actor that does not load, and every console command between any two
frames.  That is enough for an id to be used again, for the pool to run dry, for two
entities to expire in one frame and for a client to come back.  Of the server:
`EntityLists`, `KillListIsLive`, `CommandsConserved`, `RefsAreSlots`.  Of server and
client: `ViewLagsWorld` (the client draws all that lives, and of the dead only those
whose command is on its way or lost; no command on its way names a living entity),
`DestroysAreOfDrawn`, `PlayerIsDrawn`, and `ViewIsReplica`: the pair implements
`Replica`.  `DestroysArrive` holds under `WF(Boot) /\ WF(Frame)`; the code justifies
that fairness because LG_GameLoop is called again and again by the message loop and
a frame takes no input to run.  Console commands are not fair.

### Physics
`physics`: a light body and a higher one three times as heavy, pushed by their AIs in a
wide room of a floor and two walls, named in two orders, and in one whose walls are half a
body's width further apart than the body, with gravity, and up to five calls of the server:
AddEntity, RemoveEnt, LOADMAP, LoadLevel, Init and steps.  `StaysOut`: what is done for one
hull does not undo what was done for another, unless the body is squeezed between the two
(below); in the narrow room it is.  `PairsStayApart`: bodies that did not touch do not
end in each other, although each pair is asked for twice.  `CollisionsAreElastic`: momentum
and energy of a step are those the forces left, whatever the masses and however many
collided.  The server passes 33 seconds to each step, which Simulate clamps to a quarter of
a second (lw_server.cpp:644), so positions are whole numbers of a small length (in the run a
128th of a metre) and velocities of the same length in a quarter of a second.  A collision of
unequal masses need not come out whole; its velocities are then rounded down, as the code's
are to a float, and `whole` remembers it: `CollisionsAreElastic` is about steps without such
a rounding, which the run reaches besides those with one.  Five calls are enough to load a
map, add two bodies and take two steps, the second from the velocities the first has left.

### Animation
`animation`: a Jack and a Blaine that share two meshes and their skeletons, one node
without a skeleton, a second of four ticks and frames of none to two.  `LastAskedWins`:
however requests fall into transitions and pauses, the tree does, or is about to do,
what the AI said last.  `DrawnInItsPose`: a mesh that all entities of a kind have in
common is set up anew for each before it is drawn.  `AnimationsArrive` needs that the
main loop goes on (weak fairness of the phase) and that time passes again and again
while the server is not paused (strong fairness of a frame that takes time: frames of
no time may come between).  The three clips have two and three frames, looping back
or not, so that each way of GetFrameFromTime is taken.

### Maps
`map`: files of up to eight objects and three faces: two groups, two materials, a light
map, brushes of one or two faces with and without a group, light map or visibility,
lights and other entities in any order; the editor's file may be absent, temp.lw may
not be writable, and the device may refuse or not lock the vertex buffer.
`MapIsAsAuthored`: what is drawn, lit and collided with is what the author made, once
per face and in the right region, for maps all of whose brushes are read.
`CopiesAgree`: server, client and physics have the same map between frames, whichever
step failed.  Eight objects leave room for two brushes and a light behind the five
declarations; three faces for one brush of one region and one of another.

### Resource managers
`textures`: four locations, four names of which three collide, textures from
memory.  Searches wrap, cross holes and fill up.  `CountsAreRight`, `HeldAreAlive`,
`IsCache` (refinement of `ResourceCache`, which also says that a loaded name is found
and not loaded twice).  `meshes`: four locations, three names of which two collide,
loads with and without MM_NOD3D, failing loads: `ItemsHaveOneUse` and
`DrawnUnderItsName`.  Unload and UnloadItems are what CLHashMgr offers its users; the
engine itself calls UnloadItems from destructors and from UnloadMeshes, and Unload not
at all, so the hole-crossing part of `textures` is about the class and not about a use
of it in the game.  `PoolMgr`'s constant `ReturnsFailed` tells the managers that give an
item back when its file does not load from the material manager, which does not: only of
the former does `ItemsHaveOneUse` say that every item is free or some name's.

### Sound streams
`streams`: buffers of two units and files of one, four and five: shorter than a
buffer, ending with one, ending inside one.  Load, Play with and without looping,
Stop, Pause and Close in any order, and the device stepping at any moment, inside
Update too.  `QueueFollowsFile` is the consistency of the double buffer,
`HeardInOrder` what it means for the listener: nothing skipped and nothing twice,
unless Update restarts a source with a played buffer on its queue, and that only
after an underrun.  `KeepsPlaying` and `HeardToTheEnd` hold under
`WF(Update) /\ WF(Device)`: LG_GameLoop calls CLSndMgr::Update in every frame and the
device plays in real time; nobody is obliged to press anything.  `HeardToTheEnd` has
`replayed` among its outcomes because fairness does not say that frames come faster
than buffers run out: a frame that always takes longer than a buffer replays for ever.

### Files and archives
`files`: the base with a directory inside it, a second directory mounted over the
first, two archives that share a name with each other and one with the disk, eight
slots (room for all but one of the names), two hash chains, up to four mounts, one
UnMountAll, two files opened.  `TableIsSound`, `NamesResolve` (the precedence
of directories, archives and created files that lf_fs2.h:52-57 promises), `SizesAgree`,
`FileInsideOSFile`.  The three that depend on the table claim nothing after it handed
out a slot twice, which happens after UnMountAll (below).  `archive`: an archive with up
to four files added and four openings, in files the compressor shrinks enough, not
enough and not at all, one of them of version 1.01, over a disk of 18 cells that fills up, and
a process that stops between any two calls.  `SavedIsWhole`, `ListedExtracts`.

### Console, input, settings
`frontend`: two starts of the program, two typed commands out of eleven, one game key
and the console key, a mouse button, another program that takes the focus, a queue of
one message, a console that slides half a screen in two frames, values of four characters
of which a line takes three, with a comment sign or quotes in them.  The key "grave" stands for the one with the accent.  `ConfigComesBack`,
`StatesFollowCvars`, `ConsoleOwnsKeys`.  Two starts show a save and a load of what was
saved; a third would repeat the second.

### Video
`video`: a device lost, or lost and ready to be reset, at any point; five settings,
right and wrong in each way the code corrects; buffers that cannot be made, or made and not
locked; one effect; both windows, the console and the map.  `InvalidateReleases`,
`ScreenComesBack`, `AdapterAccepts`.  The windows are excepted from the first: see below.

### Where the code and its comments disagree
The models reproduce these.  They are not properties of the runs above, which say what
does hold; where a property has an exception for one, it says so.

Lists, world:
- Remove does not reset m_nListStackID (lg_list_stack.cpp:98), so the check the comment
  at 128-130 speaks of does not recognise a second Remove of a node.
- SHUTDOWN_SRV with a connected client: the client reads command lists whose nodes are
  gone (lw_client.cpp:100; lw_net.h:17-20 says a client is told).
- A client that was refused goes on connecting after Disconnect (lw_client.cpp:362
  against 331-334).
- More than ten entities that expire in one frame write past m_nEntKillList
  (`fault = "kill_list_overrun"`, lw_server.cpp:554).
- PAUSE while the server does not run leads the next PAUSE to simulate with a null
  physics engine (`"null_physics"`, lw_server.cpp:535).
- INIT_SRV after SHUTDOWN_SRV walks the nodes of the deleted command pool, which the
  lists still link (`"freed_pool"`, `"freed_command"`, lw_server.cpp:252).
- A client whose player could not be added is accepted all the same and has no
  entity (`"no_player"`), and an entity whose script does not load is on no list
  any more (`LoadActor`; lw_server.cpp:452).
- A destroy command for which there is no node is dropped, and the client draws the
  entity on (`lost`; lw_server.cpp:511).

Physics:
- HullClsnCheck of one body is asked once for each hull, in their order.  A body within the
  overbounce of a hull (it moves away from it, so PlaneVelType says ONPOS, lp_legacy.cpp:274-281)
  that reaches a later one facing it is flattened and bounced back into the first (207-222),
  which is not asked again (36-39).  This is what `StaysOut` leaves out (`Squeezed`).
- HullClsnCheck of one body is not asked again after BodyClsnCheck of the next has changed
  its velocity: a body that is landed on can be pushed through the floor.  Hence
  `StaysOut` is about bodies that met no body.
- A body inside a hull is not held by it at all.
- Bodies that touch and part are found to collide at time 0 (ML_aabb.c:419), each of the two
  times they are asked for; the second collision undoes the first or, when the hulls or a
  third body came between, does worse, and they may pass into each other.  Hence
  `PairsStayApart` is about bodies that did not touch.  Bodies that overlap ignore each other.
- A body on the floor climbs by the overbounce in each frame in which gravity hits it,
  and can be caught at the seam of two hulls, depending on their order.
- LOADMAP without a level leaves gravity at 0 and the bodies where they were.

Animation:
- A client that connects again shows the default animation until the AI changes its
  mind: the bit that says the animation changed was cleared long ago (lw_client.cpp:420
  says "All client relative data is copied").  What the AI's Init asks for is never
  seen unless the server is paused.
- A transition to a skeleton that did not load stops the node; a waiting one is forgotten.
- While the server is paused the client goes on animating by the last elapsed time.
- GetJointAttachTransform returns a null pointer for an invalid node, where the comment
  says identity (lm_mesh_tree.cpp:80-82).  A transition of time 0 divides 0 by 0.

Maps:
- SaveAsLW's result is ignored (lw_map.cpp:387), so LOADMAP of a map that cannot be
  compiled loads the last one again, against LoadMap's comment (lw_server.cpp:722-726).
  `MCMapLoadStale.cfg`, which is not among the runs, checks `PreviousMapIsGone` and shows it.
- Brushes behind the last visible vertex are counted, not read, and saved
  uninitialised; an invisible clip brush there is lost (ws_file.cpp:832).
- An empty region has bounds of one stale vertex (ws_file.cpp:510), and the map's bounds
  miss the first vertex of each group but the first.
- References that name nothing keep the number in the file; 0 becomes index 0.
- A brush entity that repeats its classname is counted again.  CheckRegions is never called.

Resource managers:
- GetItem tests for having come round before it tests whether it has seen all items, so
  the last location of a round throws although the counts are right (lg_hash_mgr.h:220
  against 216-219).
- CLMtrMgr::DoLoad takes an item and does not give it back when the file does not load
  (lg_mtr_mgr.cpp:50 against lg_hash_mgr.h:271-272).
- CLTMgr::LoadTextureMem creates a texture and, when the table is full, forgets it
  (lg_tmgr.cpp:118).
- CLMMgr::UnloadMeshes takes meshes marked MM_RETAIN as well, and an item found in the
  table keeps the flags of its first load (lg_mmgr.cpp:95, lg_hash_mgr.h:283).

Sound:
- A stream that does not loop and is shorter than two buffers is never heard; one
  paused in its last buffers is not resumed by Play; Play after its natural end
  queues buffers that are still queued (ls_stream.cpp:185); and Update of an empty looping
  stream does not end (ls_stream.cpp:142).  The engine itself only plays looping music.

Files, archives:
- CLfListStack::Init (lf_list_stack.cpp:137) lacks the Clear() of the engine's copy
  (lg_list_stack.cpp:142), and CPartitionTable::Clear (lf_fs2.cpp:1034) calls it for a
  stack that is not empty: after UnMountAll the free list is a cycle, and slots are
  handed out twice.
- CloseFile writes the size into the entry its name has by then.
- AddFile that returns 0 has listed the file; Save returns TRUE whatever was written;
  Open for writing creates an empty file; CreateNew truncates the old file before it is
  sure of its temporary file; m_nMainFileWritePos is left over from the last archive; a
  stop between AddFile and Save loses the table of contents.

Console, input:
- A value with `//` is cut at it when config.cfg is loaded (lg_cmd.cpp:431-444).  A value is
  written between quotes with its own quotes as they are (lg_cmd.cpp:484-488), so L_strtokA
  ends it at a blank behind an odd number of them (common.c:357-389): SET srv_Name x"a b" is
  read back as x"a.  Of an argument that does not end in the quote that was written,
  because the line was too long or cut, SendCommand drops a quote of its own
  (lc_sys2_ANSI.cpp:230-233).  `ReadBack` models all of these, and `ConfigComesBack` is about
  the text that is left; a kill between two writes leaves a line that sets a variable to
  nothing.
- SAVECFG with ALL may store lg_ShouldQuit, and the program ends when it has loaded it.
- The commands of MOVEDOWN are made with the identifier of MOVEUP (li_sys.cpp:87-90).
  LI_ResetStates is never called.  A video failure at boot ends without saving.

Video:
- "All POOL_DEFAULT Direct3D items should be released before calling Restart"
  (lv_sys.cpp:107-108), but CWindow::Create (wnd_window.cpp:23) makes an image with a
  vertex buffer in POOL_DEFAULT for each of CManager's windows and nothing releases it:
  every Reset fails.  `INVARIANT ResetIsReady` in `MCVideoReset.cfg` shows it.
- InvalidateMgrs calls Validate for the effects, so they are loaded over and leaked;
  CLFxMgr::Invalidate has no caller, and the default effect is not loaded again (lg_fxmgr.cpp:70).
- A buffer of the map that could not be locked is never released (lw_map.cpp:546).
- A reset after DISCONNECT validates a map whose device is null (`fault`).
- FSAA is settled before the format may fall back to another; the quality of a format without
  levels is 0 - 1.

### Bounds
`MaxInits` bounds the number of server generations; two show a restart, and a
third behaves as the second.  `MaxEnts`, `MaxClients`, `MaxCmds`, `KillListSize`,
`MaxItems`, `NumNodes`, `MaxSlots`, `MaxLen` and `Room` are the code's own constants
made small, each so small that the limit is reached and so large that there is
life below it.  `MaxCalls`, `MaxMounts`, `MaxClears`, `MaxOpens`, `MaxAdds`, `MaxTyped`,
`MaxRuns`, `MaxMessages`, `MaxObjects`, `MaxFaces`, `MaxStep`, `MaxOrphans` and
`Capacity` bound what surrounds the code; the sections above say what fits into them.
In `streams` the lengths of the files are the only bound: one more buffer in a file adds
another round of the same refill.  CHECK_DEADLOCK is off where the program really
ends, after QUIT, after a fault or after an uncaught exception of the hash manager, and
where a bound is used up.

## 4. What is proved

All theorems hold for every value of the constants that the named assumptions allow:
`ListStackAssumption`, `WorldServerAssumption`, `CommandsAssumption`,
`PartitionTableAssumption`, `DiskAssumption`, `OnePathAssumption`, `ArchivesAssumption`,
`ClientsAssumption`, `PhysicsAssumption`, `ArchiveAssumption`, `OldArchiveAssumption`, `SndStreamAssumption`,
`AnimationAssumption`, `SkeletonsAssumption`, `MapAssumption`, `VideoModeAssumption`,
`VideoResetAssumption`, `HashMgrAssumption`, `PoolMgrAssumption`, `ConsoleAssumption`,
`FrontendAssumption`. Constants are free in them, so they cover the code's own limits
(1024 commands, eight slots, a kill list of ten, tables and pools of hundreds, any hash
function, any number of entities, skeletons, variables and keys), which TLC cannot.

**`ListStackProofs`** proves `Spec => []TypeOK`, `Spec => []LinksSpellContents` and the
refinement `Spec => ImplementsLists`.  The inductive invariant is the conjunction of the
first two.  Neither is inductive alone: that Push and Remove write links only to nodes
of the array rests on what the links mean, and a count is a number of the type only
because it is the length of a list without repetition over finitely many nodes (a
pigeonhole argument by well-founded descent).  Each operation has a lemma; a lemma
`UntouchedList` serves the lists an operation does not name, which are disjoint from the
one it does because a node's id says whose it is.  For the refinement, the walk along
m_pNext is the contents: the recursive function that walks is handled by exhibiting the
function and by the least place where another would differ from it.

**`WorldProofs`**, on the server alone: `SrvSpec => []P` for `SrvTypeOK`, `EntityLists`,
`KillListIsLive`, `RefsAreSlots` and `CommandsConserved`.  The conjunction of the first
four is not inductive: RunAI puts the entity at the loop's cursor on the kill list, and
that it is not there already needs `KilledAreBehind` (all entries stand before the cursor in
m_EntsInt; the loop adds none and removes none).  `HasStarted` says that a command always
carries a generation, as its type demands: nothing broadcasts before the first Init.  The
lists are handled by `Members`, which turns "the concatenation is injective" into
statements on each list and each pair.  `CommandsConserved` counts: a step that takes a
command from the pool, puts one on a slot's list or takes one off maps the commands before
one to one onto those after, so `PoolIsWhole` is kept however many slots there are.

On server and client: `Spec => []P` for `ViewLagsWorld`, `DestroysAreOfDrawn`,
`PlayerIsDrawn`, the server's invariants again, and `Spec => ViewIsReplica`.  None of them is
inductive, nor are they together.  `WorldInv` adds `Connection` (connGen is never ahead of the
server's generation, and a client of this generation sits in a slot below numClnts) and
`Draws`, of which `Follows` is the heart: what is drawn and does not live has its command
under way, on the pool's list or on the client's own slot, or is known to be lost; what
has a command under way does not live and is drawn; no two commands of this generation
name the same entity (`Apart`); and the player's entity is a Jack that lives, and no AI
kills a Jack.  An id is used again only when a client is accepted, which makes its view
anew and finds no command of this generation in its slot; that is what lets the client
delete without looking.  The refinement maps each step to a step of `Replica` or to a stutter.

**`FileProofs`**, on the file system: `FSSpec => []P` for `TableIsSound`, `NamesResolve`,
`SizesAgree` and `FileInsideOSFile`, for any disk, archives, hash, number of slots, mount
calls and clients.  None of the four is inductive.  `FSInv`, the invariant of
`FileSystemInvariant`, has eight parts:

- `Types`: among them that an entry of the table is that of a directory, of a file of
  the disk or of a file in an archive, with the flags of its kind, and (until a writer was
  closed under another file's name) that bytes that lie in an archive as they are lie inside it;
- `CallsOK`: the base is mounted before anything else;
- `Whole`: until the table hands out a slot twice it has the shape that mounting relies
  on (`Shaped`): slots are handed out from the last down, a chain leads only from a slot to
  a lower one of the same hash, each slot in use is reached once, no two have one name.
  A chain therefore ends, and a look-up finds a name exactly if a slot has it;
- `HandlesOK`, `Shares`, `ArchivesStay`: a handle that writes owns a file of the disk,
  under its own name; nobody else has that file open; and so an archive keeps its size;
- `SizesOK`: the entry of a plain file nobody writes has the file's size.  It rests on
  the handles (the size is set when a writer is closed) and they on it (a file is
  opened with the size the table has);
- `NamesLead`: while there is room, a name leads to the file the calls so far say.
  Names of directories too, which `NamesResolve` does not speak of: CreateNew makes a file
  where the name of its directory leads.

After UnMountAll the table may hand out a slot twice and lose all this; `torn` remembers
that it did, and the parts on the table say no more than its types, while those on the
handles still hold (a handle copies what it needs).  A mount of a whole directory
is a recursive function over the list of its files.  The proofs exhibit that function
(`Iteration`) and go along it (`IntervalInduction`): mounting one file changes
what its own name leads to and nothing else, and the files of one call have names
of their own (`OnePathAssumption`), so the order in which the system lists them is irrelevant.
An archive may list a name twice; whichever entry remains, the name leads to that archive.

On the streamed sound: `Spec => []P` for `StreamTypeOK`, `QueueFollowsFile` and
`HeardInOrder`.  The invariant adds to them where the listener is (`Listener`: the
next part to be heard is the first buffer not played, which begins where the
last one heard ended), that the buffers follow each other (`Chain`) also in a stream
that has ended, that a source stops under a playing stream only by running out of
buffers (`Stopped`), and what the calls find of each other's flags (`Protocol`).
Positions are compared modulo the length of the file by the relation `Same`, so a
looping file needs no case of its own; `FilledFollows` is the one lemma that does the
arithmetic of UpdateBuffer.

**`AssetProofs`**, on the archive: `ArchiveSpec => []SavedIsWhole` and `ArchiveSpec => []ListedExtracts`, for any
files, names, sizes, threshold and room on the disk.  Neither is inductive: a file is
written over the old records because Save will write them anew, so what the list in memory
says matters even when only the file is looked at.  `ArchiveInv` says of each list, in memory
or read back, that its entries name the files that were given in their order, that no two
have one name, and that the cells of each file are in front of where the records begin
(`Describes`); that while the object may write, every entry is such a file, the next one
is written behind the last, and Save covers what is left of the records before, so that the header
comes last (`EditsAppend`); and that the file is whole otherwise (`LastSaveIsWhole`).  The lemmas
say what a write leaves of the cells before it (`PutCells`, `DescribesStays`), that the list
that is saved is the one that is read back (`SavedWhole`), and that a free name is always
found (`NameIsFree`, by the pigeonhole principle).

On the animation: `Spec => []LastAskedWins` and the action property
`Spec => DrawnInItsPose`.  The invariant of the first adds that a clip waits only during a
transition (`NodeOK`), that the change bit, while it is set, is about what was said last,
and that whoever said something that is not in the flags any more has it in the tree
(`Does`), in each phase of the frame.  SetAnimation's three cases and Update, with the
clip that takes its turn, have a lemma each about a node's `Goal`.  The second needs that the
frames a node interpolates are frames of its clip (`PosesInv`), through every transition;
then each mesh, when the entity is drawn, holds the pose this entity's tree gave it, though
another entity may have used the mesh an instant before.

On the physics: `PhysicsSpec => []PairsStayApart` and `PhysicsSpec => CollisionsAreElastic`,
for any bodies, masses, boxes, places, pushes, order of the awake bodies and maps.  A
collision turns the velocity between two bodies round (`Shared`), however it is rounded, so
two that did not touch and would have met part (`TheyPart`).  If it comes out whole, the two
keep their momentum and energy along each axis (`Elastic`, the algebra of the mass law), hence
altogether (`SumOfAxes`), and so do all awake bodies (`ExchangedSums`).  No collision is missed:
IntersectMoving finds every two boxes that overlap after the step (`NoneIsMissed`, which
multiplies the times of contact out, axis by axis).  What a check of two bodies, or of a body
and a hull, does not undo is `Keeps`: that two bodies that meet nobody else end apart, and, where
no hull is met and all comes out whole, the sums.  `Iteration` and `IntervalInduction` carry it
over the loops of CollisionCheck, which are recursive functions.  The invariant `PhysicsInv` says
besides that each body is awake once, that masses are positive and hulls are hulls.

**`GraphicsProofs`**, on maps: `Spec => []CopiesAgree`.  The invariant `MapInv` says step by
step of LOADMAP which of the copies are up to date (`Shows`): the hulls from SetupWorld on,
the client's from ConnectLocal on, and that an invalid client's map keeps textures that a
later Validate relies on.  What the compiler makes of a file is not looked into.

On video: `VideoSpec => []P` for `InvalidateReleases`, `ScreenComesBack` and `AdapterAccepts`.
`VideoInv` has four parts beside the types: the present parameters are what `VideoMode`
makes of some settings (`ParametersChosen`; a lemma shows that the adapter accepts what it
makes, apart from the cases the property names); the chosen filter is on the device, or
saved while images are drawn (`FilterKept`); a font is there only with a background
(`ConsoleWhole`), and a map's buffer is one that Invalidate would release (`MapWhole`),
both unless something could not be made.

**`ManagerProofs`**, on the table of CLHashMgr: the invariant `TableInv` joins to
`CountsAreRight` that every item in the table has a name, that location 0 keeps the default,
and that no name is there twice.  A search looks at no location twice (`ProbeVisits`) and,
because the counts are right, does not stop before it has seen all items of its hash;
so a name that is there is found, and one that is loaded is not there yet.  On it rest
`CountsAreRight`, `HeldAreAlive` and `IsCache` for textures (`TextureInv`), `CountsAreRight`,
`ItemsHaveOneUse` and `IsCache` for the managers with a pool, both for those that give an item
back when its file does not load and for the one that does not (`PoolInv`), and
`ItemsHaveOneUse` and `DrawnUnderItsName` for meshes (`MeshInv`).  The two refinements go
call by call: what a call returns is what the abstract cache may return.

**`FrontendProofs`** proves `Spec => ConsoleOwnsKeys`, an action property, from the
invariant `TypeOK /\ KeysAreAway`: while the console is active the input class has no key
left, and a console that is not active is on its way out.  Of the console behind
it only the flags matter.

It also proves `Spec => []StatesFollowCvars`.  `SettingsInv` says that the table is a hash table
with each entry in its slot and one entry for a name (`IsTable`), that the two variables the
device follows are there with UPDATE (`Watches`), and that the device's states are theirs.
Insertion and replacement in a chain leave all other names alone (`InsertedTable`,
`ReplacedTable`, `Agree`), hence so does SET; SetStates makes the device obey
(`Obeys`); and a file, whatever its lines, is loaded line by line by a recursive function
of which the lemmas show that each line keeps `Obeys`.  A file that a kill cut short is
just another file.

And it proves `Spec => []ConfigComesBack`.  `ConfigInv` says that the table has the registered
variables with their flags, those that are ROM with their defaults (`Registers`), that the
files hold lines of SET (`Lines`), and that what config.cfg says of each variable, the text
of its last line as it is read (`Says`), is one it may come back with (`Remembers`).  Three
arguments meet in it.
- Of saving: the places a loop over GetFirst and GetNext stands at are in order of slot and
  chain (`Before`), and before its m-th it has been at the m - 1 entries below that
  (`WellAt`, `PlacesVisited`), so that it has been at all of them once when it finds nowhere to
  go (`ListingIsWhole`).  With `WrittenSettings` a save writes a line for each
  variable it should, and none for another.
- Of a file to which lines were added: it says what it did before or one of the texts of
  the new lines, certainly one of these if there is one (`SaysExtended`).  A save that was cut
  short adds some of its lines and a torn one (`CutLines`, `CutShortSays`).
- Of loading: each variable has the text of its last line so far, or its default
  (`LoadSays`); the lines of autoexec.cfg change only what they set (`LoadSettled`).

## 5. What is only model-checked

- Liveness (`DestroysArrive`, `KeepsPlaying`, `HeardToTheEnd`, `AnimationsArrive`),
  which is out of the prover's reach.
- `StaysOut` of `Physics`: a theorem for all maps would have to argue about every chain of
  hulls that flatten a velocity one after the other.
- `MapIsAsAuthored`: it compares what the loops of the compiler and of the loader make of a
  file with a reference, by induction over data of which each step (compiling a brush,
  copying a face) would have to be related to the reference first.

## 6. Assumptions

- srv_MaxEntities does not change while a server runs.
- File names given to a manager contain a separator: LG_HashFilename reads the
  byte before a name that has none, so the hash of such a name depends on memory.
- Managers have at least two items (`HashMgrAssumption`); with one, the hash
  is taken modulo zero.
- A `lg_dword` counter (`DWord` in `ListStack`) exceeds the number of nodes.
- `World` leaves maps out, `Physics` knows one by its hulls; how maps come to be is in
  `MapLoad`.  What an AI pushes in `Physics` is one of a few impulses.
- A sound file is not empty (`SndStreamAssumption`): UpdateBuffer of a looping stream
  would not end.
- The engine is built with L3D_WITH_OPENAL_AUDIO; without it CLSndStream does nothing.
- Bodies are finitely many, have a mass that is a whole number of some unit, and none is a
  hull of a map (`PhysicsAssumption`).  The rounding of floating point is modelled only as
  far as collisions go, and there as rounding down to a unit of length.
- The editor's file has a visibility group and a material (`MapAssumption`): with no
  group the compiler writes outside its array.
- Each tree has a first node and a skeleton (`AnimationAssumption`): LX_LoadMeshTree
  leaves counts uninitialised when attributes are missing.  A skeleton that loaded has an
  animation, and each animation a frame (`SkeletonsAssumption`; lm_skel2.cpp:221-231 clamps
  to the last of them).
- No variable is registered twice, and those the engine reads are registered, the two of
  the device with UPDATE, the filter not ROM, and POINT one of the filters
  (`ConsoleAssumption`, after lg_cvars.cpp:103-158).  The .cfg files hold at first what
  LGC_SaveCFG writes, lines of SET, and autoexec.cfg has no SAVECFG in it: one there would
  save before the settings are complete.  What LOADCFG is asked for is one of the engine's
  .cfg files (`FrontendAssumption`); a file that is not there is an empty one.
- The adapter knows the desktop's format and the smallest mode's size, and the number of its
  quality levels fits a dword (`VideoModeAssumption`); settings are chosen among those
  the code tells apart (`VideoResetAssumption`).
- An archive of version 1.01 is well-formed: its records are at the front, one for each of its
  files, no two of one name (`OldArchiveAssumption`).
- The base is mounted first, and mounts use the flags the engine uses (lf_fs2.h).
- An OS directory is seen under one mounted path (`OnePathAssumption`): LG_InitGame mounts each
  of its directories once (lg_sys_init.cpp:63-81).
- What a mounted archive lists is inside it (`ArchivesAssumption`), which is what `SavedIsWhole`
  says of an archive the program saved.
- Clients open files, not directories; whoever has a file made anew means to write to
  it, and nobody writes to an archive; no pointer or size reaches the end of a dword
  (`ClientsAssumption`).

## 7. Not modelled

- Of the world: AddEntity of a template, which has no caller (lw_server.cpp:456).
- Of the physics: the steps of a thousandth of a second (Resume, LoadLevel), drag, which is
  always 0, rotation, sleeping, AI_PHYS_DIRECT_LINEAR, hulls other than boxes, and the
  wrappers of Newton and PhysX, which are other programs.
- Of the animation: the matrices and vertices; frames in which the device is lost.
- Of the maps: names, colours, the scale, winding, tangents, a temp.lw written in part, a
  light-map flag without a light map, and ws_file's reading of chunks.
- Of the files: one OS directory under two mount paths, requests that wrap a dword, the name of an archive
  overwritten while it is mounted, files of size 0 in archives, the order of files and
  subdirectories within one mount.
- Of the console and input: the lines that were printed, scrolling, the caret, the mouse
  axes; PAGEUP and Render disagree on how far there is to scroll (lv_con.cpp:402).
- Of the video: adapter, back buffers, vertical sync and depth buffer, which are copied
  from their variables; drawing itself; CLFontL, which is switched off (lv_con.cpp:121).
- XML loaders, sound decoders, the loading and saving of mesh files: data in, record out.
- LMEdit and lf_pak are separate tools; common and the rest of ML_lib are string helpers
  and vector arithmetic.
