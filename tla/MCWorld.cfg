SPECIFICATION FairSpec
CONSTANTS
  MaxEnts = 6
  MaxClients = 3
  MaxCmds = 3
  KillListSize = 2
  Level <- MCLevel
  Broken = {"blaine"}
  MaxInits = 2
  Commands <- AllCommands
INVARIANT EntityLists
INVARIANT KillListIsLive
INVARIANT CommandsConserved
INVARIANT RefsAreSlots
INVARIANT ViewLagsWorld
INVARIANT DestroysAreOfDrawn
INVARIANT PlayerIsDrawn
PROPERTIES ViewIsReplica DestroysArrive
CHECK_DEADLOCK FALSE
