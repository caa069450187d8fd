----------------------------- MODULE WorldProofs -----------------------------
(***************************************************************************)
(* For every number of entities, slots and commands, for every level and   *)
(* for every set of console commands: the server's lists of entities, its  *)
(* kill list, its slots and its pool of commands stay consistent; and what *)
(* the client draws follows the world of the server it is connected to.    *)
(***************************************************************************)
EXTENDS World, SequenceLemmas

(***************************************************************************)
(* The server: its entities.                                               *)
(***************************************************************************)

\* While the AIs run, the kill list holds only entities the loop has been at:
\* the one it comes to next is therefore not yet there.
KilledAreBehind ==
  frame = "think" =>
    /\ at \in 1..Len(int)+1
    /\ \A e \in ToSet(killList) : \E j \in 1..at-1 : int[j] = e

\* A server that was never started does nothing: a command has a generation.
HasStarted == gen = 0 => ~running /\ frame = "idle"

\* Inductive together with HasStarted.
IInv == SrvTypeOK /\ EntityLists /\ KillListIsLive /\ KilledAreBehind /\ RefsAreSlots

-----------------------------------------------------------------------------
(* The entity lists by their members.                                      *)

Members(b, i, n) ==
  /\ b \in Seq(Ent) /\ i \in Seq(Ent) /\ n \in Seq(Ent)
  /\ IsInjective(b) /\ IsInjective(i) /\ IsInjective(n)
  /\ ToSet(b) \cap ToSet(i) = {}
  /\ ToSet(b) \cap ToSet(n) = {}
  /\ ToSet(i) \cap ToSet(n) = {}

LEMMA MembersOfLists ==
  ASSUME NEW b \in Seq(Ent), NEW i \in Seq(Ent), NEW n \in Seq(Ent)
  PROVE  IsInjective(b \o i \o n) <=> Members(b, i, n)
<1>1. /\ b \o i \in Seq(Ent)
      /\ ToSet(b \o i) = ToSet(b) \cup ToSet(i)
      /\ IsInjective(b \o i) <=>
           IsInjective(b) /\ IsInjective(i) /\ ToSet(b) \cap ToSet(i) = {}
  BY ConcatMembers
<1>2. IsInjective(b \o i \o n) <=>
        IsInjective(b \o i) /\ IsInjective(n) /\ ToSet(b \o i) \cap ToSet(n) = {}
  BY <1>1, ConcatMembers
<1> QED  BY <1>1, <1>2 DEF Members

\* What EntityLists says, of each list.
LEMMA ListsByMembers ==
  ASSUME SrvTypeOK
  PROVE  EntityLists <=> /\ Members(blank, int, inert)
                         /\ \A e \in ToSet(int) : flag[e] = "int"
                         /\ \A e \in ToSet(inert) : flag[e] = "inert"
                         /\ bodies = ToSet(int) \cup ToSet(inert)
BY MembersOfLists DEF EntityLists, SrvTypeOK, Live

-----------------------------------------------------------------------------
\* A step that keeps the entities and the kill list, and does not begin or end
\* the loop over the AIs, keeps what is said of them.
LEMMA EntitiesKept ==
  ASSUME IInv, UNCHANGED entVars, UNCHANGED killList,
         frame' = frame \/ (frame' \in {"idle", "load"} /\ killList = << >>),
         frame = "think" => at' = at
  PROVE  EntityLists' /\ KillListIsLive' /\ KilledAreBehind'
<1>1. EntityLists'
  BY DEF IInv, EntityLists, Live, entVars
<1>2. KillListIsLive'
  BY DEF IInv, KillListIsLive, entVars
<1>3. KilledAreBehind'
  BY DEF IInv, KilledAreBehind, entVars
<1> QED  BY <1>1, <1>2, <1>3

-----------------------------------------------------------------------------
LEMMA InitEstablishes == SrvInit => IInv
<1> SUFFICES ASSUME SrvInit PROVE IInv
  OBVIOUS
<1>0. \A S : << >> \in Seq(S) /\ ToSet(<< >>) = {} /\ IsInjective(<< >>)
  BY EmptySeq, Positions DEF ToSet, IsInjective
<1>1. SrvTypeOK
  <2>1. refs \in [Slot -> Slot] /\ numClnts \in 0..MaxClients /\ gen \in 0..MaxInits
    BY WorldServerAssumption DEF SrvInit, Slot
  <2>2. brain \in [Ent -> AIs] /\ flag \in [Ent -> {"blank", "int", "inert"}]
    BY DEF SrvInit, AIs
  <2>3. lost \in [Slot -> SUBSET Ent] /\ queue \in [Slot -> Seq(Cmd)]
    BY <1>0 DEF SrvInit
  <2> QED  BY <1>0, <2>1, <2>2, <2>3 DEF SrvInit, SrvTypeOK, Faults
<1>2. EntityLists
  BY <1>0, <1>1, ListsByMembers DEF SrvInit, Members
<1>3. KillListIsLive
  BY <1>0 DEF SrvInit, KillListIsLive
<1>4. KilledAreBehind
  BY DEF SrvInit, KilledAreBehind
<1>5. RefsAreSlots
  BY DEF SrvInit, RefsAreSlots
<1> QED  BY <1>1, <1>2, <1>3, <1>4, <1>5 DEF IInv

LEMMA InitServerPreserves ==
  ASSUME IInv, InitServer
  PROVE  IInv'
<1> DEFINE all == [i \in 1..MaxEnts |-> MaxEnts - i]
<1>0. << >> \in Seq(Ent) /\ ToSet(<< >>) = {} /\ IsInjective(<< >>)
  BY EmptySeq DEF ToSet, IsInjective
<1>1. all \in Seq(Ent) /\ IsInjective(all)
  <2>1. MaxEnts \in Nat /\ \A i \in 1..MaxEnts : MaxEnts - i \in Ent
    BY WorldServerAssumption DEF Ent
  <2>2. all \in [1..MaxEnts -> Ent] /\ \A i \in 1..MaxEnts : all[i] = MaxEnts - i
    BY <2>1
  <2> HIDE DEF all
  <2>3. all \in Seq(Ent) /\ Len(all) = MaxEnts
    BY <2>1, <2>2
  <2>4. \A i, j \in 1..MaxEnts : all[i] = all[j] => i = j
    BY <2>1, <2>2
  <2> QED  BY <2>3, <2>4, Positions
<1>2. SrvTypeOK'
  <2>1. fault' \in Faults
    BY DEF InitServer, InitEnts, Faults
  <2>2. gen' \in 0..MaxInits /\ numClnts' \in 0..MaxClients /\ unused' \in Nat
    BY WorldServerAssumption DEF InitServer, InitEnts, IInv, SrvTypeOK
  <2>3. flag' \in [Ent -> {"blank", "int", "inert"}] /\ lost' \in [Slot -> SUBSET Ent]
    BY DEF InitServer, InitEnts
  <2> HIDE DEF all
  <2> QED  BY <1>0, <1>1, <2>1, <2>2, <2>3 DEF InitServer, InitEnts, IInv, SrvTypeOK, all
<1>3. EntityLists'
  <2>1. blank' = all /\ int' = << >> /\ inert' = << >> /\ bodies' = {}
    BY DEF InitServer, InitEnts
  <2>2. Members(all, << >>, << >>)
    BY <1>0, <1>1 DEF Members
  <2> HIDE DEF all
  <2>3. IsInjective(all \o << >> \o << >>)
    BY <2>2, <1>0, <1>1, MembersOfLists
  <2> QED  BY <2>1, <2>3, <1>0 DEF EntityLists, Live
<1>4. KillListIsLive'
  BY <1>0 DEF InitServer, InitEnts, KillListIsLive
<1>5. KilledAreBehind'
  BY DEF InitServer, InitEnts, Idle, KilledAreBehind
<1>6. RefsAreSlots'
  BY DEF InitServer, RefsAreSlots
<1> QED  BY <1>2, <1>3, <1>4, <1>5, <1>6 DEF IInv

LEMMA ShutdownPreserves ==
  ASSUME IInv, Shutdown
  PROVE  IInv'
<1>0. << >> \in Seq(Ent) /\ ToSet(<< >>) = {} /\ IsInjective(<< >>)
  BY EmptySeq DEF ToSet, IsInjective
<1>1. SrvTypeOK'
  BY <1>0 DEF Shutdown, DestroyEnts, IInv, SrvTypeOK, cmdVars, slotVars, Cmd
<1>2. EntityLists'
  <2>1. IsInjective(<< >> \o << >> \o << >>)
    BY <1>0, MembersOfLists DEF Members
  <2> QED  BY <2>1, <1>0 DEF Shutdown, DestroyEnts, EntityLists, Live
<1>3. killList = << >>
  BY DEF IInv, KillListIsLive, Shutdown, DestroyEnts, Idle
<1>4. KillListIsLive' /\ KilledAreBehind'
  BY <1>0, <1>3 DEF Shutdown, DestroyEnts, Idle, KillListIsLive, KilledAreBehind
<1>5. RefsAreSlots'
  BY DEF Shutdown, slotVars, IInv, RefsAreSlots
<1> QED  BY <1>1, <1>2, <1>4, <1>5 DEF IInv

LEMMA TogglePausePreserves ==
  ASSUME IInv, TogglePause
  PROVE  IInv'
<1>1. SrvTypeOK'
  <2>1. fault' \in Faults /\ paused' \in BOOLEAN
    BY DEF TogglePause, IInv, SrvTypeOK, Faults
  <2> QED  BY <2>1 DEF TogglePause, IInv, SrvTypeOK, entVars, cmdVars, slotVars
<1>2. EntityLists' /\ KillListIsLive' /\ KilledAreBehind'
  <2>1. UNCHANGED entVars /\ UNCHANGED killList /\ frame' = frame /\ at' = at
    BY DEF TogglePause
  <2> QED  BY <2>1, EntitiesKept
<1>3. RefsAreSlots'
  BY DEF TogglePause, slotVars, IInv, RefsAreSlots
<1> QED  BY <1>1, <1>2, <1>3 DEF IInv

-----------------------------------------------------------------------------
\* The types of what AddEntity and RemoveEnt change.
EntTypeOK ==
  /\ blank \in Seq(Ent) /\ int \in Seq(Ent) /\ inert \in Seq(Ent)
  /\ flag \in [Ent -> {"blank", "int", "inert"}]
  /\ brain \in [Ent -> AIs]
  /\ bodies \subseteq Ent

\* AddEntity moves the first blank entity to the list of its class, or loses it.
LEMMA AddEntityKeeps ==
  ASSUME SrvTypeOK, EntityLists, NEW ai \in AIs, NEW loads \in BOOLEAN,
         AddEntity(ai, loads)
  PROVE  EntTypeOK' /\ EntityLists'
<1>1. /\ Members(blank, int, inert)
      /\ \A e \in ToSet(int) : flag[e] = "int"
      /\ \A e \in ToSet(inert) : flag[e] = "inert"
      /\ bodies = ToSet(int) \cup ToSet(inert)
  BY ListsByMembers
<1>2. CASE UNCHANGED entVars
  BY <1>2 DEF SrvTypeOK, EntityLists, EntTypeOK, Live, entVars
<1>3. CASE blank # << >> /\ blank' = Tail(blank)
           /\ UNCHANGED <<int, inert, flag, brain, bodies>>
  <2>1. /\ Tail(blank) \in Seq(Ent) /\ IsInjective(Tail(blank))
        /\ ToSet(Tail(blank)) \subseteq ToSet(blank)
    BY <1>1, <1>3, TailMembers DEF Members
  <2>2. Members(blank', int', inert')
    BY <2>1, <1>1, <1>3 DEF Members
  <2>3. IsInjective(blank' \o int' \o inert')
    BY <2>2, MembersOfLists DEF Members
  <2>4. EntityLists'
    BY <2>3, <1>1, <1>3 DEF EntityLists, Live
  <2>5. EntTypeOK'
    BY <2>1, <1>3 DEF SrvTypeOK, EntTypeOK
  <2> QED  BY <2>4, <2>5
<1>4. ASSUME running, blank # << >>,
             blank' = Tail(blank),
             flag' = [flag EXCEPT ![Head(blank)] = Class(ai)],
             brain' = [brain EXCEPT ![Head(blank)] = ai],
             bodies' = bodies \cup {Head(blank)},
             \/ Class(ai) = "int"   /\ int' = <<Head(blank)>> \o int /\ UNCHANGED inert
             \/ Class(ai) = "inert" /\ inert' = <<Head(blank)>> \o inert /\ UNCHANGED int
      PROVE  EntTypeOK' /\ EntityLists'
  <2> DEFINE e == Head(blank)
  <2>1. /\ e \in Ent /\ Tail(blank) \in Seq(Ent) /\ IsInjective(Tail(blank))
        /\ e \in ToSet(blank) /\ ToSet(Tail(blank)) = ToSet(blank) \ {e}
    BY <1>1, <1>4, TailMembers DEF Members
  <2>2. e \notin ToSet(int) /\ e \notin ToSet(inert)
    BY <2>1, <1>1 DEF Members
  <2> HIDE DEF e
  <2>3. /\ <<e>> \o int \in Seq(Ent)
        /\ ToSet(<<e>> \o int) = {e} \cup ToSet(int)
        /\ IsInjective(<<e>> \o int)
    BY <1>1, <2>1, <2>2, ConsMembers DEF Members
  <2>4. /\ <<e>> \o inert \in Seq(Ent)
        /\ ToSet(<<e>> \o inert) = {e} \cup ToSet(inert)
        /\ IsInjective(<<e>> \o inert)
    BY <1>1, <2>1, <2>2, ConsMembers DEF Members
  <2>5. /\ Class(ai) \in {"int", "inert"}
        /\ flag' = [flag EXCEPT ![e] = Class(ai)]
        /\ \A d \in Ent : flag'[d] = IF d = e THEN Class(ai) ELSE flag[d]
    BY <1>4, <2>1 DEF SrvTypeOK, Class, e
  <2>6. ToSet(int) \subseteq Ent /\ ToSet(inert) \subseteq Ent
    BY Positions DEF SrvTypeOK
  <2>7. EntTypeOK'
    <3>1. blank' \in Seq(Ent) /\ int' \in Seq(Ent) /\ inert' \in Seq(Ent)
      BY <1>4, <2>1, <2>3, <2>4 DEF SrvTypeOK, e
    <3>2. flag' \in [Ent -> {"blank", "int", "inert"}] /\ brain' \in [Ent -> AIs]
      BY <1>4, <2>5 DEF SrvTypeOK
    <3>3. bodies' \subseteq Ent
      BY <1>4, <2>1 DEF SrvTypeOK, e
    <3> QED  BY <3>1, <3>2, <3>3 DEF EntTypeOK
  <2>8. CASE Class(ai) = "int" /\ int' = <<e>> \o int /\ UNCHANGED inert
    <3>1. Members(blank', int', inert')
      BY <2>8, <1>1, <1>4, <2>1, <2>2, <2>3 DEF Members, e
    <3>2. IsInjective(blank' \o int' \o inert')
      BY <3>1, MembersOfLists DEF Members
    <3>3. \A d \in ToSet(int') : flag'[d] = "int"
      BY <2>8, <1>1, <2>1, <2>3, <2>5, <2>6
    <3>4. \A d \in ToSet(inert') : flag'[d] = "inert"
      BY <2>8, <1>1, <2>2, <2>5, <2>6
    <3>5. bodies' = ToSet(int') \cup ToSet(inert')
      BY <2>8, <1>1, <1>4, <2>3 DEF e
    <3> QED  BY <2>7, <3>2, <3>3, <3>4, <3>5 DEF EntityLists, Live
  <2>9. CASE Class(ai) = "inert" /\ inert' = <<e>> \o inert /\ UNCHANGED int
    <3>1. Members(blank', int', inert')
      BY <2>9, <1>1, <1>4, <2>1, <2>2, <2>4 DEF Members, e
    <3>2. IsInjective(blank' \o int' \o inert')
      BY <3>1, MembersOfLists DEF Members
    <3>3. \A d \in ToSet(int') : flag'[d] = "int"
      BY <2>9, <1>1, <2>2, <2>5, <2>6
    <3>4. \A d \in ToSet(inert') : flag'[d] = "inert"
      BY <2>9, <1>1, <2>1, <2>4, <2>5, <2>6
    <3>5. bodies' = ToSet(int') \cup ToSet(inert')
      BY <2>9, <1>1, <1>4, <2>4 DEF e
    <3> QED  BY <2>7, <3>2, <3>3, <3>4, <3>5 DEF EntityLists, Live
  <2> QED  BY <1>4, <2>8, <2>9 DEF e
<1> QED  BY <1>2, <1>3, <1>4 DEF AddEntity

LEMMA LoadLevelPreserves ==
  ASSUME IInv, LoadLevel
  PROVE  IInv'
<1> DEFINE b == Reverse(inert) \o Reverse(int) \o blank
<1>0. << >> \in Seq(Ent) /\ ToSet(<< >>) = {} /\ IsInjective(<< >>)
  BY EmptySeq DEF ToSet, IsInjective
<1>1. Members(blank, int, inert)
  BY ListsByMembers DEF IInv
<1>2. b \in Seq(Ent) /\ IsInjective(b)
  <2>1. /\ Reverse(int) \in Seq(Ent) /\ ToSet(Reverse(int)) = ToSet(int)
        /\ IsInjective(Reverse(int))
    BY <1>1, ReverseMembers DEF Members
  <2>2. /\ Reverse(inert) \in Seq(Ent) /\ ToSet(Reverse(inert)) = ToSet(inert)
        /\ IsInjective(Reverse(inert))
    BY <1>1, ReverseMembers DEF Members
  <2>3. Members(Reverse(inert), Reverse(int), blank)
    BY <1>1, <2>1, <2>2 DEF Members
  <2>4. IsInjective(b)
    BY <2>3, MembersOfLists DEF Members
  <2>5. Reverse(inert) \o Reverse(int) \in Seq(Ent)
    BY <2>1, <2>2, ConcatMembers
  <2>6. b \in Seq(Ent)
    BY <2>5, <1>1, ConcatMembers DEF Members
  <2> QED  BY <2>4, <2>6
<1>3. /\ blank' = b /\ int' = << >> /\ inert' = << >> /\ bodies' = {}
      /\ killList = << >> /\ killList' = << >> /\ frame' = "load"
  BY DEF LoadLevel, ClearEnts, Idle, IInv, KillListIsLive
<1> HIDE DEF b
<1>4. SrvTypeOK'
  <2>1. todo' \in Seq(AIs)
    BY WorldServerAssumption DEF LoadLevel
  <2> QED  BY <1>0, <1>2, <1>3, <2>1
           DEF LoadLevel, ClearEnts, IInv, SrvTypeOK, cmdVars, slotVars
<1>5. EntityLists'
  <2>1. Members(b, << >>, << >>)
    BY <1>0, <1>2 DEF Members
  <2>2. IsInjective(b \o << >> \o << >>)
    BY <2>1, <1>0, <1>2, MembersOfLists
  <2> QED  BY <1>0, <1>3, <2>2 DEF EntityLists, Live
<1>6. KillListIsLive' /\ KilledAreBehind'
  BY <1>0, <1>3 DEF KillListIsLive, KilledAreBehind
<1>7. RefsAreSlots'
  BY DEF LoadLevel, slotVars, IInv, RefsAreSlots
<1> QED  BY <1>4, <1>5, <1>6, <1>7 DEF IInv

LEMMA LoadActorPreserves ==
  ASSUME IInv, LoadActor
  PROVE  IInv'
<1>1. PICK loads \in CanLoad(Head(todo)) : AddEntity(Head(todo), loads)
  BY DEF LoadActor
<1>2. Head(todo) \in AIs /\ Tail(todo) \in Seq(AIs) /\ loads \in BOOLEAN
  BY <1>1, HeadTailProperties DEF LoadActor, IInv, SrvTypeOK, CanLoad
<1>3. EntTypeOK' /\ EntityLists'
  BY <1>1, <1>2, AddEntityKeeps DEF IInv
<1>4. SrvTypeOK'
  BY <1>2, <1>3 DEF LoadActor, IInv, SrvTypeOK, EntTypeOK, cmdVars, slotVars
<1>5. killList = << >> /\ killList' = << >> /\ frame' = "load"
  BY DEF LoadActor, IInv, KillListIsLive
<1>6. KillListIsLive' /\ KilledAreBehind'
  BY <1>5, EmptySeq DEF KillListIsLive, KilledAreBehind, ToSet, IsInjective
<1>7. RefsAreSlots'
  BY DEF LoadActor, slotVars, IInv, RefsAreSlots
<1> QED  BY <1>3, <1>4, <1>6, <1>7 DEF IInv

LEMMA LevelLoadedPreserves ==
  ASSUME IInv, LevelLoaded
  PROVE  IInv'
<1>1. SrvTypeOK'
  BY DEF LevelLoaded, IInv, SrvTypeOK, entVars, cmdVars, slotVars
<1>2. EntityLists' /\ KillListIsLive' /\ KilledAreBehind'
  <2>1. UNCHANGED entVars /\ UNCHANGED killList /\ frame' = "idle" /\ at' = at
        /\ killList = << >>
    BY DEF LevelLoaded, IInv, KillListIsLive
  <2> QED  BY <2>1, EntitiesKept
<1>3. RefsAreSlots'
  BY DEF LevelLoaded, slotVars, IInv, RefsAreSlots
<1> QED  BY <1>1, <1>2, <1>3 DEF IInv

\* The first slot no client has is the one after those of the clients there are.
LEMMA NextSlot ==
  ASSUME SrvTypeOK, RefsAreSlots, ~Refuses,
         NEW slot \in FreeSlots, \A s \in FreeSlots : slot <= s
  PROVE  slot = numClnts /\ slot \in Slot
<1>1. numClnts \in 0..MaxClients /\ MaxClients \in Nat /\ numClnts < MaxClients
  BY WorldServerAssumption DEF SrvTypeOK, Refuses
<1>2. Connected = 0..numClnts-1
  BY <1>1 DEF Connected, RefsAreSlots
<1>3. numClnts \in FreeSlots
  BY <1>1, <1>2 DEF FreeSlots, Slot
<1>4. slot \in Slot /\ slot \notin 0..numClnts-1 /\ slot <= numClnts
  BY <1>2, <1>3 DEF FreeSlots
<1> QED  BY <1>1, <1>4 DEF Slot

LEMMA AcceptLocalConnectPreserves ==
  ASSUME IInv, NEW slot \in Slot, NEW loads \in CanLoad("jack"),
         AcceptLocalConnect(slot, loads)
  PROVE  IInv'
<1>1. slot = numClnts /\ numClnts \in 0..MaxClients /\ numClnts < MaxClients
      /\ MaxClients \in Nat
  BY NextSlot, WorldServerAssumption
  DEF AcceptLocalConnect, Refuses, IInv, SrvTypeOK
<1>2. "jack" \in AIs /\ loads \in BOOLEAN
  BY DEF AIs, CanLoad
<1>3. EntTypeOK' /\ EntityLists'
  BY <1>2, AddEntityKeeps DEF AcceptLocalConnect, IInv
<1>4. SrvTypeOK'
  <2>1. refs' \in [Slot -> Slot] /\ lost' \in [Slot -> SUBSET Ent]
    BY <1>1 DEF AcceptLocalConnect, IInv, SrvTypeOK
  <2>2. numClnts' \in 0..MaxClients
    BY <1>1 DEF AcceptLocalConnect
  <2> QED  BY <1>3, <2>1, <2>2 DEF AcceptLocalConnect, IInv, SrvTypeOK, EntTypeOK, cmdVars
<1>5. /\ killList = << >> /\ killList' = << >> /\ frame' = "idle"
  BY DEF AcceptLocalConnect, Idle, IInv, KillListIsLive
<1>6. KillListIsLive' /\ KilledAreBehind'
  BY <1>5, EmptySeq DEF KillListIsLive, KilledAreBehind, ToSet, IsInjective
<1>7. RefsAreSlots'
  <2>1. \A i \in Slot : refs'[i] = IF i = numClnts THEN slot ELSE refs[i]
    BY DEF AcceptLocalConnect, IInv, SrvTypeOK
  <2>2. \A i \in 0..numClnts'-1 : i \in Slot /\ (i = numClnts \/ i \in 0..numClnts-1)
    BY <1>1 DEF AcceptLocalConnect, Slot
  <2> QED  BY <1>1, <2>1, <2>2 DEF IInv, RefsAreSlots
<1> QED  BY <1>3, <1>4, <1>6, <1>7 DEF IInv

LEMMA StartFramePreserves ==
  ASSUME IInv, StartFrame
  PROVE  IInv'
<1>1. SrvTypeOK'
  BY DEF StartFrame, IInv, SrvTypeOK, entVars, cmdVars, slotVars
<1>2. killList = << >> /\ killList' = << >> /\ UNCHANGED entVars
  BY DEF StartFrame, Idle, IInv, KillListIsLive
<1>3. EntityLists'
  BY <1>2 DEF IInv, EntityLists, Live, entVars
<1>4. KillListIsLive'
  BY <1>2 DEF IInv, KillListIsLive, entVars
<1>5. KilledAreBehind'
  <2>1. at' = 1 /\ int' = int /\ Len(int) \in Nat
    BY LenProperties DEF StartFrame, entVars, IInv, SrvTypeOK
  <2>2. ToSet(killList') = {}
    BY <1>2 DEF ToSet
  <2> QED  BY <2>1, <2>2 DEF KilledAreBehind
<1>6. RefsAreSlots'
  BY DEF StartFrame, slotVars, IInv, RefsAreSlots
<1> QED  BY <1>1, <1>3, <1>4, <1>5, <1>6 DEF IInv

\* The entity whose AI runs is not yet on the kill list, because the list is
\* behind the loop and m_EntsInt has no entity twice.
LEMMA RunAIPreserves ==
  ASSUME IInv, NEW expires \in BOOLEAN, RunAI(expires)
  PROVE  IInv'
<1> DEFINE e == int[at]
<1>1. /\ int \in Seq(Ent) /\ Len(int) \in Nat /\ at \in 1..Len(int) /\ frame = "think"
      /\ e \in Ent /\ e \in ToSet(int)
      /\ \A i, j \in 1..Len(int) : int[i] = int[j] => i = j
  <2>1. int \in Seq(Ent) /\ IsInjective(int)
    BY ListsByMembers DEF IInv, Members
  <2>2. Len(int) \in Nat
    BY <2>1, LenProperties
  <2>3. at \in 1..Len(int) /\ frame = "think"
    BY <2>2 DEF RunAI, IInv, KilledAreBehind
  <2> QED  BY <2>1, <2>2, <2>3, Positions
<1>2. at' = at + 1 /\ frame' = "think" /\ UNCHANGED <<blank, int, inert, flag, brain, bodies>>
  BY <1>1 DEF RunAI, entVars
<1>3. /\ killList \in Seq(Ent) /\ IsInjective(killList)
      /\ ToSet(killList) \subseteq ToSet(int)
      /\ \A d \in ToSet(killList) : \E j \in 1..at-1 : int[j] = d
  BY <1>1 DEF IInv, SrvTypeOK, KillListIsLive, KilledAreBehind
<1>4. e \notin ToSet(killList)
  <2>1. ASSUME NEW j \in 1..at-1 PROVE int[j] # e
    <3>1. j \in 1..Len(int) /\ j # at  BY <1>1
    <3> QED  BY <3>1, <1>1
  <2> QED  BY <2>1, <1>3
<1> HIDE DEF e
<1>5. /\ killList' \in Seq(Ent) /\ IsInjective(killList')
      /\ ToSet(killList') \subseteq ToSet(killList) \cup {e}
  <2>1. CASE expires
    <3>1. killList' = <<e>> \o killList  BY <2>1 DEF RunAI, e
    <3> QED  BY <3>1, <1>1, <1>3, <1>4, ConsMembers
  <2>2. CASE ~expires
    <3>1. killList' = killList  BY <2>2 DEF RunAI
    <3> QED  BY <3>1, <1>3
  <2> QED  BY <2>1, <2>2
<1>6. SrvTypeOK'
  <2>1. fault' \in Faults /\ at' \in Nat
    BY <1>1, <1>2 DEF RunAI, IInv, SrvTypeOK, Faults
  <2> QED  BY <1>2, <1>5, <2>1 DEF RunAI, IInv, SrvTypeOK, cmdVars, slotVars
<1>7. EntityLists'
  BY <1>2 DEF IInv, EntityLists, Live
<1>8. KillListIsLive'
  BY <1>1, <1>2, <1>3, <1>5 DEF KillListIsLive
<1>9. KilledAreBehind'
  <2>1. at' \in 1..Len(int)+1 /\ at \in 1..at'-1 /\ \A j \in 1..at-1 : j \in 1..at'-1
    BY <1>1, <1>2
  <2>2. \A d \in ToSet(killList') : \E j \in 1..at'-1 : int[j] = d
    BY <1>3, <1>5, <2>1 DEF e
  <2> QED  BY <1>2, <2>1, <2>2 DEF KilledAreBehind
<1>10. RefsAreSlots'
  BY DEF RunAI, slotVars, IInv, RefsAreSlots
<1> QED  BY <1>6, <1>7, <1>8, <1>9, <1>10 DEF IInv

LEMMA SimulatePreserves ==
  ASSUME IInv, Simulate
  PROVE  IInv'
<1>1. SrvTypeOK'
  BY DEF Simulate, IInv, SrvTypeOK, entVars, cmdVars, slotVars
<1>2. EntityLists'
  BY DEF Simulate, IInv, EntityLists, Live, entVars
<1>3. KillListIsLive' /\ KilledAreBehind'
  BY DEF Simulate, IInv, KillListIsLive, KilledAreBehind, entVars
<1>4. RefsAreSlots'
  BY DEF Simulate, slotVars, IInv, RefsAreSlots
<1> QED  BY <1>1, <1>2, <1>3, <1>4 DEF IInv

\* RemoveEnt finds the entity on m_EntsInt, as its flags say, and puts it on
\* m_EntsBlank; the entries left on the kill list are not touched.
LEMMA KillPreserves ==
  ASSUME IInv, HasStarted, Kill
  PROVE  IInv'
<1> DEFINE e == Head(killList)
<1>1. /\ e \in Ent /\ e \in ToSet(killList) /\ e \in ToSet(int)
      /\ Tail(killList) \in Seq(Ent) /\ IsInjective(Tail(killList))
      /\ ToSet(Tail(killList)) = ToSet(killList) \ {e}
      /\ ToSet(killList) \subseteq ToSet(int)
  BY TailMembers DEF Kill, IInv, SrvTypeOK, KillListIsLive
<1>2. /\ Members(blank, int, inert)
      /\ \A d \in ToSet(int) : flag[d] = "int"
      /\ \A d \in ToSet(inert) : flag[d] = "inert"
      /\ bodies = ToSet(int) \cup ToSet(inert)
  BY ListsByMembers DEF IInv
<1>3. flag[e] = "int" /\ e \notin ToSet(inert) /\ e \notin ToSet(blank)
  BY <1>1, <1>2 DEF Members
<1>4. /\ RemoveEnt(e) /\ killList' = Tail(killList) /\ frame' = "kill"
      /\ UNCHANGED <<running, paused, slotVars, at, todo, fault, gen>>
  BY DEF Kill
<1> HIDE DEF e
<1>5. /\ int' = Without(int, e) /\ inert' = inert /\ blank' = <<e>> \o blank
      /\ bodies' = bodies \ {e} /\ flag' = [flag EXCEPT ![e] = "blank"]
      /\ brain' = brain /\ SendDestroy(e)
  BY <1>3, <1>4 DEF RemoveEnt, Unlist
<1>6. /\ int' \in Seq(Ent) /\ IsInjective(int') /\ ToSet(int') = ToSet(int) \ {e}
  <2> DEFINE k == CHOOSE i \in DOMAIN int : int[i] = e
  <2>1. int \in Seq(Ent) /\ IsInjective(int)
    BY <1>2 DEF Members
  <2>2. DOMAIN int = 1..Len(int) /\ \E i \in 1..Len(int) : int[i] = e
    BY <2>1, <1>1, Positions
  <2>3. k \in 1..Len(int) /\ int[k] = e
    BY <2>2
  <2>4. int' = RemoveAt(int, k)
    BY <1>5 DEF Without
  <2> HIDE DEF k
  <2> QED  BY <2>1, <2>3, <2>4, RemoveAtMembers
<1>7. /\ blank' \in Seq(Ent) /\ IsInjective(blank') /\ ToSet(blank') = {e} \cup ToSet(blank)
  BY <1>1, <1>2, <1>3, <1>5, ConsMembers DEF Members
<1>8. SrvTypeOK'
  <2>1. [ent |-> e, gen |-> gen] \in Cmd
    <3>1. gen \in 1..MaxInits
      BY WorldServerAssumption DEF HasStarted, Kill, IInv, SrvTypeOK
    <3> QED  BY <1>1, <3>1 DEF Cmd
  <2>2. unused' \in Nat
    BY <1>5 DEF SendDestroy, cmdVars, IInv, SrvTypeOK
  <2>3. lost' \in [Slot -> SUBSET Ent]
    <3>1. lost \in [Slot -> SUBSET Ent]
      BY DEF IInv, SrvTypeOK
    <3>2. CASE unused = 0
      <4>1. lost' = [s \in Slot |-> IF s \in Connected THEN lost[s] \cup {e} ELSE lost[s]]
        BY <1>5, <3>2 DEF SendDestroy
      <4>2. \A s \in Slot : lost[s] \cup {e} \in SUBSET Ent
        BY <1>1, <3>1
      <4> QED  BY <3>1, <4>1, <4>2
    <3>3. CASE unused # 0
      BY <3>1, <3>3, <1>5 DEF SendDestroy
    <3> QED  BY <3>2, <3>3
  <2>4. allCmds' \in Seq(Cmd)
    <3>1. allCmds \in Seq(Cmd)
      BY DEF IInv, SrvTypeOK
    <3>2. <<[ent |-> e, gen |-> gen]>> \o allCmds \in Seq(Cmd)
      BY <2>1, <3>1, ConsMembers
    <3> QED  BY <1>5, <3>1, <3>2 DEF SendDestroy, cmdVars
  <2>5. queue' = queue
    BY <1>5 DEF SendDestroy, cmdVars
  <2>6. flag' \in [Ent -> {"blank", "int", "inert"}] /\ bodies' \subseteq Ent
    BY <1>5 DEF IInv, SrvTypeOK
  <2>7. inert' \in Seq(Ent)
    BY <1>2, <1>5 DEF Members
  <2> QED  BY <1>1, <1>4, <1>5, <1>6, <1>7, <2>2, <2>3, <2>4, <2>5, <2>6, <2>7
           DEF IInv, SrvTypeOK, slotVars
<1>9. EntityLists'
  <2>1. Members(blank', int', inert')
    BY <1>2, <1>3, <1>5, <1>6, <1>7 DEF Members
  <2>2. IsInjective(blank' \o int' \o inert')
    BY <2>1, MembersOfLists DEF Members
  <2>3. ToSet(int) \subseteq Ent /\ ToSet(inert) \subseteq Ent
    BY <1>2, Positions DEF Members
  <2>4. \A d \in Ent : d # e => flag'[d] = flag[d]
    BY <1>5 DEF IInv, SrvTypeOK
  <2>5. /\ \A d \in ToSet(int') : flag'[d] = "int"
        /\ \A d \in ToSet(inert') : flag'[d] = "inert"
    BY <1>2, <1>3, <1>5, <1>6, <2>3, <2>4
  <2>6. bodies' = ToSet(int') \cup ToSet(inert')
    BY <1>2, <1>3, <1>5, <1>6
  <2> QED  BY <2>2, <2>5, <2>6 DEF EntityLists, Live
<1>10. KillListIsLive'
  BY <1>1, <1>4, <1>6 DEF KillListIsLive
<1>11. KilledAreBehind' /\ RefsAreSlots'
  BY <1>4 DEF KilledAreBehind, RefsAreSlots, IInv, slotVars
<1> QED  BY <1>8, <1>9, <1>10, <1>11 DEF IInv

\* A client gets no more copies than there are commands.
LEMMA CopiesBound ==
  ASSUME unused \in Nat, NEW i \in Nat, NEW k \in Nat
  PROVE  Copies(i, k) \in 0..k
<1>1. i * k \in Nat
  OBVIOUS
<1> DEFINE left == unused - i * k
<1>2. left \in Int
  BY <1>1
<1> HIDE DEF left
<1> QED  BY <1>2 DEF Copies, left

LEMMA BroadcastPreserves ==
  ASSUME IInv, Broadcast
  PROVE  IInv'
<1> DEFINE k == Len(allCmds)
           IndexOf(s) == CHOOSE i \in 0..numClnts-1 : refs[i] = s
           Sent(s) == SubSeq(allCmds, 1, Copies(IndexOf(s), k))
           Missed(s) == SubSeq(allCmds, Len(Sent(s)) + 1, k)
<1>1. /\ allCmds \in Seq(Cmd) /\ k \in Nat /\ \A j \in 1..k : allCmds[j] \in Cmd
      /\ numClnts \in Nat /\ unused \in Nat
      /\ queue \in [Slot -> Seq(Cmd)] /\ lost \in [Slot -> SUBSET Ent]
  BY LenProperties, ElementOfSeq, WorldServerAssumption DEF IInv, SrvTypeOK
<1>2. ASSUME NEW s \in Connected
      PROVE  Sent(s) \in Seq(Cmd) /\ Missed(s) \in Seq(Cmd)
  <2>1. IndexOf(s) \in Nat
    <3>1. \E i \in 0..numClnts-1 : refs[i] = s  BY <1>2 DEF Connected
    <3>2. IndexOf(s) \in 0..numClnts-1  BY <3>1
    <3> HIDE DEF IndexOf
    <3> QED  BY <3>2, <1>1
  <2> HIDE DEF IndexOf
  <2>2. Copies(IndexOf(s), k) \in 0..k
    BY <1>1, <2>1, CopiesBound
  <2>3. \A j \in 1..Copies(IndexOf(s), k) : allCmds[j] \in Cmd
    BY <1>1, <2>2
  <2>4. Sent(s) \in Seq(Cmd)
    BY <2>2, <2>3, SubSeqProperties
  <2> HIDE DEF Sent
  <2>5. Len(Sent(s)) + 1 \in Nat /\ Len(Sent(s)) + 1 >= 1
    BY <2>4, LenProperties
  <2>6. \A j \in Len(Sent(s)) + 1..k : allCmds[j] \in Cmd
    BY <1>1, <2>5
  <2>7. Missed(s) \in Seq(Cmd)
    BY <1>1, <2>5, <2>6, SubSeqProperties
  <2> QED  BY <2>4, <2>7
<1>3. /\ frame = "kill" /\ frame' = "idle" /\ killList = << >> /\ killList' = killList
      /\ queue' = [s \in Slot |-> IF s \in Connected THEN Reverse(Sent(s)) \o queue[s]
                                  ELSE queue[s]]
      /\ lost' = [s \in Slot |-> IF s \in Connected
                                 THEN lost[s] \cup {c.ent : c \in ToSet(Missed(s))}
                                 ELSE lost[s]]
      /\ allCmds' = << >>
      /\ unused' = k + IF unused < numClnts * k THEN 0 ELSE unused - numClnts * k
      /\ UNCHANGED entVars
  BY DEF Broadcast
<1> HIDE DEF k, Sent, Missed
<1>4. SrvTypeOK'
  <2>1. queue' \in [Slot -> Seq(Cmd)]
    <3>1. ASSUME NEW s \in Slot, s \in Connected
          PROVE  Reverse(Sent(s)) \o queue[s] \in Seq(Cmd)
      <4>1. Reverse(Sent(s)) \in Seq(Cmd) /\ queue[s] \in Seq(Cmd)
        BY <1>1, <1>2, <3>1, ReverseMembers
      <4> QED  BY <4>1, ConcatMembers
    <3> QED  BY <1>1, <1>3, <3>1
  <2>2. lost' \in [Slot -> SUBSET Ent]
    <3>1. ASSUME NEW s \in Slot, s \in Connected
          PROVE  {c.ent : c \in ToSet(Missed(s))} \in SUBSET Ent
      <4>1. ToSet(Missed(s)) \subseteq Cmd
        BY <1>2, <3>1, Positions
      <4> QED  BY <4>1 DEF Cmd
    <3>2. \A s \in Slot : lost[s] \in SUBSET Ent
      BY <1>1
    <3> QED  BY <1>3, <3>1, <3>2
  <2>3. unused' \in Nat
    <3> DEFINE all == numClnts * k
    <3>1. all \in Nat  BY <1>1
    <3>2. unused' = k + IF unused < all THEN 0 ELSE unused - all  BY <1>3
    <3> HIDE DEF all
    <3> QED  BY <1>1, <3>1, <3>2
  <2>4. allCmds' \in Seq(Cmd)
    BY <1>3, EmptySeq
  <2> QED  BY <1>3, <2>1, <2>2, <2>3, <2>4
           DEF Broadcast, IInv, SrvTypeOK, entVars, slotVars
<1>5. EntityLists' /\ KillListIsLive' /\ KilledAreBehind'
  BY <1>3, EntitiesKept
<1>6. RefsAreSlots'
  BY DEF Broadcast, slotVars, IInv, RefsAreSlots
<1> QED  BY <1>4, <1>5, <1>6 DEF IInv

LEMMA TakeCommandPreserves ==
  ASSUME IInv, NEW slot \in Slot, TakeCommand(slot)
  PROVE  IInv'
<1>1. SrvTypeOK'
  <2>1. Tail(queue[slot]) \in Seq(Cmd)
    BY HeadTailProperties DEF TakeCommand, IInv, SrvTypeOK
  <2>2. queue' \in [Slot -> Seq(Cmd)]
    BY <2>1 DEF TakeCommand, IInv, SrvTypeOK
  <2>3. unused' \in Nat /\ fault' \in Faults
    BY DEF TakeCommand, IInv, SrvTypeOK, Faults
  <2> QED  BY <2>2, <2>3 DEF TakeCommand, IInv, SrvTypeOK, entVars, slotVars
<1>2. EntityLists' /\ KillListIsLive' /\ KilledAreBehind'
  <2>1. UNCHANGED entVars /\ UNCHANGED killList /\ frame' = frame /\ at' = at
    BY DEF TakeCommand
  <2> QED  BY <2>1, EntitiesKept
<1>3. RefsAreSlots'
  BY DEF TakeCommand, slotVars, IInv, RefsAreSlots
<1> QED  BY <1>1, <1>2, <1>3 DEF IInv

-----------------------------------------------------------------------------
LEMMA HasStartedPreserved ==
  ASSUME IInv, HasStarted, [SrvNext]_srvVars
  PROVE  HasStarted'
<1>1. gen \in Nat
  BY DEF IInv, SrvTypeOK
<1>2. CASE InitServer
  BY <1>1, <1>2 DEF InitServer, HasStarted
<1>3. CASE Shutdown \/ TogglePause
  BY <1>3 DEF Shutdown, TogglePause, HasStarted
<1>4. CASE LoadLevel \/ LoadActor \/ LevelLoaded
  BY <1>4 DEF LoadLevel, LoadActor, LevelLoaded, HasStarted
<1>5. CASE \E slot \in Slot, loads \in CanLoad("jack") : AcceptLocalConnect(slot, loads)
  BY <1>5 DEF AcceptLocalConnect, HasStarted
<1>6. CASE \E slot \in Slot : TakeCommand(slot)
  BY <1>6 DEF TakeCommand, HasStarted
<1>7. CASE StartFrame \/ (\E expires \in BOOLEAN : RunAI(expires)) \/ Simulate
  BY <1>7 DEF StartFrame, RunAI, Simulate, HasStarted
<1>8. CASE Kill \/ Broadcast
  BY <1>8 DEF Kill, Broadcast, HasStarted
<1>9. CASE UNCHANGED srvVars
  BY <1>9 DEF srvVars, HasStarted
<1> QED  BY <1>2, <1>3, <1>4, <1>5, <1>6, <1>7, <1>8, <1>9 DEF SrvNext

LEMMA StepPreserves ==
  ASSUME IInv, HasStarted, [SrvNext]_srvVars
  PROVE  IInv'
<1>1. CASE InitServer  BY <1>1, InitServerPreserves
<1>2. CASE Shutdown  BY <1>2, ShutdownPreserves
<1>3. CASE TogglePause  BY <1>3, TogglePausePreserves
<1>4. CASE LoadLevel  BY <1>4, LoadLevelPreserves
<1>5. CASE LoadActor  BY <1>5, LoadActorPreserves
<1>6. CASE LevelLoaded  BY <1>6, LevelLoadedPreserves
<1>7. CASE \E slot \in Slot, loads \in CanLoad("jack") : AcceptLocalConnect(slot, loads)
  BY <1>7, AcceptLocalConnectPreserves
<1>8. CASE \E slot \in Slot : TakeCommand(slot)  BY <1>8, TakeCommandPreserves
<1>9. CASE StartFrame  BY <1>9, StartFramePreserves
<1>10. CASE \E expires \in BOOLEAN : RunAI(expires)  BY <1>10, RunAIPreserves
<1>11. CASE Simulate  BY <1>11, SimulatePreserves
<1>12. CASE Kill  BY <1>12, KillPreserves
<1>13. CASE Broadcast  BY <1>13, BroadcastPreserves
<1>14. CASE UNCHANGED srvVars
  <2>1. SrvTypeOK'
    BY <1>14 DEF srvVars, IInv, SrvTypeOK, entVars, cmdVars, slotVars
  <2>2. EntityLists' /\ KillListIsLive' /\ KilledAreBehind'
    BY <1>14, EntitiesKept DEF srvVars
  <2>3. RefsAreSlots'
    BY <1>14 DEF srvVars, slotVars, IInv, RefsAreSlots
  <2> QED  BY <2>1, <2>2, <2>3 DEF IInv
<1> QED  BY <1>1, <1>2, <1>3, <1>4, <1>5, <1>6, <1>7, <1>8, <1>9, <1>10, <1>11,
            <1>12, <1>13, <1>14 DEF SrvNext

(***************************************************************************)
(* The server: its commands.                                               *)
(***************************************************************************)

\* A command is of the generation of the server that sent it: those that wait
\* to be broadcast of the present one, those on the lists of the slots of none
\* to come, and those of slots not yet handed out of an earlier one.
CommandsAreDated ==
  /\ frame # "kill" => allCmds = << >>
  /\ \A c \in ToSet(allCmds) : c.gen = gen
  /\ \A s \in Slot : \A c \in ToSet(queue[s]) :
       c.gen <= gen /\ (s >= numClnts => c.gen # gen)

\* Only the AI of Blaine asks to be deleted.
KilledAreBlaines == \A e \in ToSet(killList) : brain[e] = "blaine"

\* Each command of the pool is in one place.
PoolIsWhole ==
  /\ IsFiniteSet(Queued)
  /\ running => unused + Len(allCmds) + Cardinality(Queued) = MaxCmds

SInv == IInv /\ HasStarted /\ CommandsAreDated /\ KilledAreBlaines /\ PoolIsWhole

-----------------------------------------------------------------------------
LEMMA CommandTypes ==
  ASSUME SrvTypeOK
  PROVE  /\ gen \in Nat /\ numClnts \in Nat
         /\ ToSet(allCmds) \subseteq Cmd
         /\ \A s \in Slot : queue[s] \in Seq(Cmd) /\ ToSet(queue[s]) \subseteq Cmd
         /\ \A c \in Cmd : c.gen \in Nat /\ c.ent \in Ent
<1>1. gen \in Nat /\ numClnts \in Nat
  BY WorldServerAssumption DEF SrvTypeOK
<1>2. allCmds \in Seq(Cmd) /\ \A s \in Slot : queue[s] \in Seq(Cmd)
  BY DEF SrvTypeOK
<1>3. \A t \in Seq(Cmd) : ToSet(t) \subseteq Cmd
  BY Positions
<1>4. \A c \in Cmd : c.gen \in Nat /\ c.ent \in Ent
  BY WorldServerAssumption DEF Cmd
<1> QED  BY <1>1, <1>2, <1>3, <1>4

\* What the broadcast sends a slot: the newest n commands, and which of the
\* destroyed entities the slot is not told of.
LEMMA BroadcastSends ==
  ASSUME SrvTypeOK, RefsAreSlots, Broadcast, NEW s \in Slot
  PROVE  /\ s \notin Connected => queue'[s] = queue[s] /\ lost'[s] = lost[s]
         /\ s \in Connected =>
              \E n \in 0..Len(allCmds) :
                /\ s < numClnts /\ n = Copies(s, Len(allCmds))
                /\ SubSeq(allCmds, 1, n) \in Seq(Cmd) /\ Len(SubSeq(allCmds, 1, n)) = n
                /\ \A i \in 1..n : SubSeq(allCmds, 1, n)[i] = allCmds[i]
                /\ queue'[s] = Reverse(SubSeq(allCmds, 1, n)) \o queue[s]
                /\ lost'[s] = lost[s] \cup {allCmds[i].ent : i \in n+1..Len(allCmds)}
<1> DEFINE k == Len(allCmds)
           IndexOf(t) == CHOOSE i \in 0..numClnts-1 : refs[i] = t
           Sent(t) == SubSeq(allCmds, 1, Copies(IndexOf(t), k))
           Missed(t) == SubSeq(allCmds, Len(Sent(t)) + 1, k)
<1>1. /\ allCmds \in Seq(Cmd) /\ k \in Nat /\ \A j \in 1..k : allCmds[j] \in Cmd
      /\ numClnts \in Nat /\ unused \in Nat
      /\ queue \in [Slot -> Seq(Cmd)] /\ lost \in [Slot -> SUBSET Ent]
  BY LenProperties, ElementOfSeq, WorldServerAssumption DEF SrvTypeOK
<1>2. /\ queue' = [t \in Slot |-> IF t \in Connected THEN Reverse(Sent(t)) \o queue[t]
                                  ELSE queue[t]]
      /\ lost' = [t \in Slot |-> IF t \in Connected
                                 THEN lost[t] \cup {c.ent : c \in ToSet(Missed(t))}
                                 ELSE lost[t]]
  BY DEF Broadcast
<1>3. CASE s \notin Connected
  BY <1>2, <1>3
<1>4. CASE s \in Connected
  <2> DEFINE n == Copies(IndexOf(s), k)
  <2>0. n \in 0..k /\ s < numClnts /\ n = Copies(s, k)
    <3>1. \E i \in 0..numClnts-1 : refs[i] = s  BY <1>4 DEF Connected
    <3>2. IndexOf(s) \in 0..numClnts-1 /\ refs[IndexOf(s)] = s  BY <3>1
    <3> HIDE DEF IndexOf
    <3>3. IndexOf(s) \in Nat /\ IndexOf(s) = s /\ s < numClnts
      BY <3>2, <1>1 DEF RefsAreSlots
    <3> QED  BY <1>1, <3>3, CopiesBound
  <2>1. n \in 0..k  BY <2>0
  <2>2. /\ queue'[s] = Reverse(Sent(s)) \o queue[s]
        /\ lost'[s] = lost[s] \cup {c.ent : c \in ToSet(Missed(s))}
    BY <1>2, <1>4
  <2>3. Sent(s) = SubSeq(allCmds, 1, n)
    OBVIOUS
  <2> HIDE DEF n
  <2> DEFINE u == SubSeq(allCmds, 1, n)
  <2>4. u \in Seq(Cmd) /\ Len(u) = n /\ \A i \in 1..n : u[i] = allCmds[i]
    <3>1. \A j \in 1..n : allCmds[j] \in Cmd  BY <1>1, <2>1
    <3> QED  BY <1>1, <2>1, <3>1, SubSeqProperties
  <2> DEFINE m == SubSeq(allCmds, n + 1, k)
  <2>5. m = Missed(s)
    BY <2>3, <2>4
  <2>6. {c.ent : c \in ToSet(m)} = {allCmds[i].ent : i \in n+1..k}
    <3>1. \A j \in n+1..k : allCmds[j] \in Cmd  BY <1>1, <2>1
    <3>2. m \in Seq(Cmd) /\ Len(m) = k - n /\ \A i \in 1..k-n : m[i] = allCmds[n + i]
      <4>1. n + 1 \in 1..k+1 /\ k \in Nat  BY <1>1, <2>1
      <4>2. /\ m \in Seq(Cmd)
            /\ Len(m) = IF n + 1 <= k THEN k - (n + 1) + 1 ELSE 0
            /\ \A i \in 1..k - (n + 1) + 1 : m[i] = allCmds[n + 1 + i - 1]
        BY <1>1, <3>1, <4>1, SubSeqProperties
      <4> QED  BY <4>2, <2>1, <1>1
    <3> HIDE DEF m
    <3>3. ToSet(m) = {m[i] : i \in 1..k-n}
      BY <3>2, Positions
    <3>4. {m[i] : i \in 1..k-n} = {allCmds[i] : i \in n+1..k}
      <4>1. ASSUME NEW i \in 1..k-n PROVE \E j \in n+1..k : m[i] = allCmds[j]
        BY <3>2, <2>1, <1>1
      <4>2. ASSUME NEW j \in n+1..k PROVE \E i \in 1..k-n : m[i] = allCmds[j]
        <5>1. j - n \in 1..k-n /\ n + (j - n) = j  BY <2>1, <1>1
        <5> QED  BY <3>2, <5>1
      <4> QED  BY <4>1, <4>2
    <3>5. ToSet(m) = {allCmds[i] : i \in n+1..k}
      BY <3>3, <3>4
    <3> HIDE DEF k
    <3> QED  BY <3>5
  <2> HIDE DEF u, m
  <2>7. queue'[s] = Reverse(u) \o queue[s]
    BY <2>2, <2>3 DEF u
  <2>8. lost'[s] = lost[s] \cup {allCmds[i].ent : i \in n+1..k}
    BY <2>2, <2>5, <2>6
  <2> HIDE DEF k
  <2> QED  BY <1>4, <2>0, <2>4, <2>7, <2>8 DEF u, k
<1> QED  BY <1>3, <1>4

LEMMA DatedStep ==
  ASSUME IInv, HasStarted, CommandsAreDated, [SrvNext]_srvVars
  PROVE  CommandsAreDated'
<1>0. /\ gen \in Nat /\ numClnts \in Nat
      /\ allCmds \in Seq(Cmd) /\ ToSet(allCmds) \subseteq Cmd
      /\ \A s \in Slot : queue[s] \in Seq(Cmd) /\ ToSet(queue[s]) \subseteq Cmd
      /\ \A c \in Cmd : c.gen \in Nat /\ c.ent \in Ent
      /\ queue \in [Slot -> Seq(Cmd)]
  BY CommandTypes DEF IInv, SrvTypeOK
<1>1. CASE InitServer
  <2>1. UNCHANGED <<allCmds, queue, frame>> /\ gen' = gen + 1 /\ allCmds = << >>
    BY <1>1 DEF InitServer, Idle, CommandsAreDated
  <2>2. \A s \in Slot : \A c \in ToSet(queue[s]) : c.gen <= gen
    BY DEF CommandsAreDated
  <2>3. \A s \in Slot : \A c \in ToSet(queue[s]) : c.gen <= gen' /\ c.gen # gen'
    BY <2>1, <2>2, <1>0
  <2>4. \A c \in ToSet(allCmds') : c.gen = gen'
    BY <2>1, EmptySeq DEF ToSet
  <2> QED  BY <2>1, <2>3, <2>4 DEF CommandsAreDated
<1>2. CASE \/ Shutdown \/ TogglePause \/ LoadLevel \/ LoadActor \/ LevelLoaded
           \/ StartFrame \/ (\E expires \in BOOLEAN : RunAI(expires)) \/ Simulate
  <2>1. UNCHANGED <<allCmds, queue, gen, numClnts>> /\ frame # "kill"
    BY <1>2 DEF Shutdown, TogglePause, LoadLevel, LoadActor, LevelLoaded, StartFrame,
                RunAI, Simulate, Idle, cmdVars, slotVars
  <2> QED  BY <2>1 DEF CommandsAreDated
<1>3. CASE \E slot \in Slot, loads \in CanLoad("jack") : AcceptLocalConnect(slot, loads)
  <2>1. UNCHANGED <<allCmds, queue, gen>> /\ frame # "kill" /\ numClnts' = numClnts + 1
    BY <1>3 DEF AcceptLocalConnect, Idle, cmdVars
  <2>2. \A s \in Slot : s >= numClnts' => s >= numClnts
    BY <2>1, <1>0, WorldServerAssumption DEF Slot
  <2> QED  BY <2>1, <2>2 DEF CommandsAreDated
<1>4. CASE Kill
  <2>1. UNCHANGED <<queue, gen, numClnts>> /\ frame = "kill" /\ frame' = "kill"
    BY <1>4 DEF Kill, RemoveEnt, SendDestroy, cmdVars, slotVars
  <2>2. \/ allCmds' = allCmds
        \/ allCmds' = <<[ent |-> Head(killList), gen |-> gen]>> \o allCmds
    BY <1>4 DEF Kill, RemoveEnt, SendDestroy, cmdVars
  <2>3. [ent |-> Head(killList), gen |-> gen] \in Cmd
    <3>1. Head(killList) \in Ent
      BY <1>4, TailMembers DEF Kill, IInv, SrvTypeOK
    <3>2. gen \in 1..MaxInits
      BY <1>4, WorldServerAssumption DEF HasStarted, Kill, IInv, SrvTypeOK
    <3> QED  BY <3>1, <3>2 DEF Cmd
  <2>4. \A c \in ToSet(allCmds') : c.gen = gen
    <3>1. \A c \in ToSet(allCmds) : c.gen = gen
      BY DEF CommandsAreDated
    <3>2. CASE allCmds' = allCmds
      BY <3>1, <3>2
    <3>3. CASE allCmds' = <<[ent |-> Head(killList), gen |-> gen]>> \o allCmds
      <4>1. ToSet(allCmds') = {[ent |-> Head(killList), gen |-> gen]} \cup ToSet(allCmds)
        BY <2>3, <3>3, <1>0, ConsMembers
      <4> QED  BY <3>1, <4>1
    <3> QED  BY <2>2, <3>2, <3>3
  <2> QED  BY <2>1, <2>4 DEF CommandsAreDated
<1>5. CASE Broadcast
  <2>1. allCmds' = << >> /\ UNCHANGED <<gen, numClnts, refs>>
    BY <1>5 DEF Broadcast, slotVars
  <2>2. \A c \in ToSet(allCmds') : c.gen = gen
    BY <2>1, EmptySeq DEF ToSet
  <2>3. ASSUME NEW s \in Slot, NEW c \in ToSet(queue'[s])
        PROVE  c.gen <= gen /\ (s >= numClnts => c.gen # gen)
    <3>1. CASE s \notin Connected
      BY <3>1, <1>5, BroadcastSends DEF CommandsAreDated, IInv
    <3>2. CASE s \in Connected
      <4>1. PICK n \in 0..Len(allCmds) :
              /\ SubSeq(allCmds, 1, n) \in Seq(Cmd) /\ Len(SubSeq(allCmds, 1, n)) = n
              /\ \A i \in 1..n : SubSeq(allCmds, 1, n)[i] = allCmds[i]
              /\ queue'[s] = Reverse(SubSeq(allCmds, 1, n)) \o queue[s]
        BY <3>2, <1>5, BroadcastSends DEF IInv
      <4> DEFINE u == SubSeq(allCmds, 1, n)
      <4>u. u \in Seq(Cmd) /\ Len(u) = n /\ \A i \in 1..n : u[i] = allCmds[i]
        BY <4>1
      <4> HIDE DEF u
      <4>2. ToSet(u) \subseteq ToSet(allCmds)
        BY <4>u, <1>0, Positions
      <4>3. Reverse(u) \in Seq(Cmd) /\ ToSet(Reverse(u)) = ToSet(u)
        BY <4>1, ReverseMembers DEF u
      <4>4. ToSet(queue'[s]) = ToSet(u) \cup ToSet(queue[s])
        BY <4>1, <4>3, <1>0, ConcatMembers DEF u
      <4>5. s < numClnts
        <5>1. PICK i \in 0..numClnts-1 : refs[i] = s
          BY <3>2 DEF Connected
        <5>2. refs[i] = i
          BY <5>1 DEF IInv, RefsAreSlots
        <5> QED  BY <5>1, <5>2, <1>0
      <4>6. c.gen <= gen
        BY <4>2, <4>4, <1>0 DEF CommandsAreDated
      <4> QED  BY <4>5, <4>6, <1>0, WorldServerAssumption DEF Slot
    <3> QED  BY <3>1, <3>2
  <2> QED  BY <2>1, <2>2, <2>3 DEF CommandsAreDated
<1>6. CASE \E slot \in Slot : TakeCommand(slot)
  <2>1. PICK slot \in Slot : TakeCommand(slot)
    BY <1>6
  <2>2. UNCHANGED <<allCmds, gen, numClnts, frame>>
        /\ queue' = [queue EXCEPT ![slot] = Tail(@)] /\ queue[slot] # << >>
    BY <2>1 DEF TakeCommand, slotVars
  <2>3. \A s \in Slot : ToSet(queue'[s]) \subseteq ToSet(queue[s])
    BY <2>2, <1>0, TailMembers
  <2> QED  BY <2>2, <2>3 DEF CommandsAreDated
<1>7. CASE UNCHANGED srvVars
  BY <1>7 DEF srvVars, cmdVars, slotVars, CommandsAreDated
<1> QED  BY <1>1, <1>2, <1>3, <1>4, <1>5, <1>6, <1>7 DEF SrvNext

LEMMA BlainesStep ==
  ASSUME IInv, KilledAreBlaines, [SrvNext]_srvVars
  PROVE  KilledAreBlaines'
<1>0. ToSet(<< >>) = {}
  BY EmptySeq DEF ToSet
<1>1. CASE InitServer
  BY <1>0, <1>1 DEF InitServer, KilledAreBlaines
<1>2. CASE Shutdown \/ TogglePause \/ LoadLevel \/ LevelLoaded \/ StartFrame \/ Simulate
  BY <1>2 DEF Shutdown, TogglePause, LoadLevel, LevelLoaded, StartFrame, Simulate,
              KilledAreBlaines, entVars
<1>3. CASE LoadActor \/ \E slot \in Slot, loads \in CanLoad("jack") :
                          AcceptLocalConnect(slot, loads)
  <2>1. killList' = << >>
    BY <1>3 DEF LoadActor, AcceptLocalConnect, Idle, IInv, KillListIsLive
  <2> QED  BY <1>0, <2>1 DEF KilledAreBlaines
<1>4. ASSUME NEW expires \in BOOLEAN, RunAI(expires)
      PROVE  KilledAreBlaines'
  <2>1. brain' = brain /\ expires => brain[int[at]] = "blaine"
    BY <1>4 DEF RunAI, entVars
  <2>2. CASE ~expires
    BY <1>4, <2>2 DEF RunAI, entVars, KilledAreBlaines
  <2>3. CASE expires
    <3>1. int[at] \in Ent /\ killList \in Seq(Ent)
      <4>1. frame = "think" /\ at \in 1..Len(int)
        BY <1>4 DEF RunAI, IInv, KilledAreBehind, SrvTypeOK
      <4> QED  BY <4>1, Positions DEF IInv, SrvTypeOK
    <3>2. killList' = <<int[at]>> \o killList
      BY <1>4, <2>3 DEF RunAI
    <3>3. ToSet(killList') = {int[at]} \cup ToSet(killList)
      BY <3>1, <3>2, ConsMembers
    <3> QED  BY <1>4, <2>3, <3>3 DEF RunAI, entVars, KilledAreBlaines
  <2> QED  BY <2>2, <2>3
<1>5. CASE Kill
  <2>1. killList \in Seq(Ent) /\ killList # << >> /\ killList' = Tail(killList)
        /\ brain' = brain
    BY <1>5 DEF Kill, RemoveEnt, IInv, SrvTypeOK
  <2>2. ToSet(killList') \subseteq ToSet(killList)
    BY <2>1, TailMembers
  <2> QED  BY <2>1, <2>2 DEF KilledAreBlaines
<1>6. CASE Broadcast \/ \E slot \in Slot : TakeCommand(slot)
  BY <1>6 DEF Broadcast, TakeCommand, entVars, KilledAreBlaines
<1>7. CASE UNCHANGED srvVars
  BY <1>7 DEF srvVars, entVars, KilledAreBlaines
<1> QED  BY <1>1, <1>2, <1>3, <1>4, <1>5, <1>6, <1>7 DEF SrvNext

-----------------------------------------------------------------------------
\* Where the commands of generation g are on the lists q.
Of(q, g) ==
  UNION {{<<s, i>> : i \in {j \in DOMAIN q[s] : q[s][j].gen = g}} : s \in Slot}

LEMMA OfMembers ==
  ASSUME NEW q \in [Slot -> Seq(Cmd)], NEW g
  PROVE  /\ \A s, i : <<s, i>> \in Of(q, g) <=>
                        s \in Slot /\ i \in 1..Len(q[s]) /\ q[s][i].gen = g
         /\ \A p \in Of(q, g) : p = <<p[1], p[2]>>
         /\ \A s \in Slot : Len(q[s]) \in Nat
<1>1. \A s \in Slot : DOMAIN q[s] = 1..Len(q[s]) /\ Len(q[s]) \in Nat
  BY LenProperties
<1> QED  BY <1>1 DEF Of

\* The i-th slot gets its copies out of what those before it left.
Given(c, k) == {p \in (0..c-1) \X (1..k) : p[2] <= Copies(p[1], k)}

LEMMA GivenCount ==
  ASSUME unused \in Nat, NEW k \in Nat
  PROVE  \A c \in Nat : /\ IsFiniteSet(Given(c, k))
                        /\ Cardinality(Given(c, k)) =
                             IF unused < c * k THEN unused ELSE c * k
<1> DEFINE Counts(c) == /\ IsFiniteSet(Given(c, k))
                        /\ Cardinality(Given(c, k)) =
                             IF unused < c * k THEN unused ELSE c * k
           Wrong == {c \in Nat : ~Counts(c)}
<1>1. Counts(0)
  <2>1. Given(0, k) = {}  BY DEF Given
  <2> QED  BY <2>1, FS_EmptySet
<1>2. ASSUME NEW c \in Nat, Counts(c)
      PROVE  Counts(c + 1)
  <2> DEFINE m == Copies(c, k)
             new == {c} \X (1..m)
  <2>1. m \in 0..k
    BY CopiesBound
  <2>2. IsFiniteSet(new) /\ Cardinality(new) = m
    <3>1. IsFiniteSet(1..m) /\ Cardinality(1..m) = m
      BY <2>1, FS_Interval
    <3>2. IsFiniteSet({c}) /\ Cardinality({c}) = 1
      BY FS_Singleton
    <3> HIDE DEF m
    <3> QED  BY <2>1, <3>1, <3>2, FS_Product
  <2>3. Given(c + 1, k) = Given(c, k) \cup new
    <3>1. 0..(c + 1)-1 = (0..c-1) \cup {c}
      OBVIOUS
    <3>2. new = {p \in {c} \X (1..k) : p[2] <= Copies(p[1], k)}
      BY <2>1
    <3> QED  BY <3>1, <3>2 DEF Given
  <2>4. Given(c, k) \cap new = {}
    BY DEF Given
  <2>5. /\ IsFiniteSet(Given(c + 1, k))
        /\ Cardinality(Given(c + 1, k)) = Cardinality(Given(c, k)) + m
    <3>1. Cardinality({}) = 0  BY FS_EmptySet
    <3> HIDE DEF new, m
    <3> DEFINE old == Given(c, k)
    <3>3. IsFiniteSet(old) /\ old \cap new = {}
      BY <1>2, <2>4
    <3> HIDE DEF old
    <3>4. /\ IsFiniteSet(old \cup new)
          /\ Cardinality(old \cup new) = Cardinality(old) + Cardinality(new) - Cardinality({})
      BY <2>2, <3>3, FS_Union
    <3>5. Cardinality(old) \in Nat /\ m \in Nat
      BY <2>1, <3>3, FS_CardinalityType
    <3>6. Cardinality(old \cup new) = Cardinality(old) + m
      BY <2>2, <3>1, <3>4, <3>5
    <3>7. Given(c + 1, k) = old \cup new
      BY <2>3 DEF old
    <3> QED  BY <3>4, <3>6, <3>7 DEF old
  <2>6. (c + 1) * k = c * k + k /\ c * k \in Nat
    OBVIOUS
  <2> DEFINE ck == c * k
  <2>7. m = IF unused - ck <= 0 THEN 0 ELSE IF unused - ck < k THEN unused - ck ELSE k
    BY DEF Copies
  <2>8. Cardinality(Given(c, k)) = IF unused < ck THEN unused ELSE ck
    BY <1>2
  <2> HIDE DEF ck, m
  <2>9. ck \in Nat /\ (c + 1) * k = ck + k  BY <2>6 DEF ck
  <2>10. Cardinality(Given(c + 1, k)) =
           IF unused < ck + k THEN unused ELSE ck + k
    BY <2>5, <2>7, <2>8, <2>9
  <2> QED  BY <2>5, <2>9, <2>10
<1> HIDE DEF Counts
<1>3. Wrong = {}
  <2> SUFFICES ASSUME Wrong # {} PROVE FALSE
    OBVIOUS
  <2>1. PICK c \in Wrong : \A d \in Wrong : c <= d
    BY LeastElement
  <2>2. c \in Nat /\ c # 0
    BY <2>1, <1>1
  <2>3. c - 1 \in Nat /\ c - 1 \notin Wrong /\ c = (c - 1) + 1
    BY <2>1, <2>2
  <2>4. Counts((c - 1) + 1)
    BY <2>3, <1>2
  <2> QED  BY <2>1, <2>3, <2>4
<1> QED  BY <1>3 DEF Counts

LEMMA TakePool ==
  ASSUME IInv, PoolIsWhole, NEW slot \in Slot, TakeCommand(slot)
  PROVE  PoolIsWhole'
<1> DEFINE Q == Of(queue, gen)
           R == Of(queue', gen)
           X == Q \ {<<slot, 1>>}
           f == [p \in X |-> IF p[1] = slot THEN <<slot, p[2] - 1>> ELSE p]
<1>1. /\ queue \in [Slot -> Seq(Cmd)] /\ unused \in Nat /\ allCmds \in Seq(Cmd)
      /\ queue[slot] # << >> /\ queue' = [queue EXCEPT ![slot] = Tail(@)]
      /\ UNCHANGED <<allCmds, gen, running>>
  BY DEF TakeCommand, IInv, SrvTypeOK
<1>2. Queued = Q /\ Queued' = R
  BY <1>1 DEF Queued, Of
<1>3. /\ queue'[slot] = Tail(queue[slot]) /\ \A s \in Slot \ {slot} : queue'[s] = queue[s]
      /\ queue' \in [Slot -> Seq(Cmd)]
      /\ Len(queue'[slot]) = Len(queue[slot]) - 1
      /\ \A i \in 1..Len(queue[slot])-1 : queue'[slot][i] = queue[slot][i+1]
      /\ Len(queue[slot]) \in Nat /\ Len(queue[slot]) # 0 /\ Head(queue[slot]) = queue[slot][1]
  <2>1. queue'[slot] = Tail(queue[slot]) /\ queue[slot] \in Seq(Cmd)
    BY <1>1
  <2>2. /\ Tail(queue[slot]) \in Seq(Cmd)
        /\ Len(Tail(queue[slot])) = Len(queue[slot]) - 1
        /\ \A i \in 1..Len(queue[slot])-1 : Tail(queue[slot])[i] = queue[slot][i+1]
    BY <1>1, <2>1, HeadTailProperties
  <2>3. Len(queue[slot]) \in Nat /\ Len(queue[slot]) # 0
        /\ Head(queue[slot]) = queue[slot][1]
    BY <1>1, <2>1, Positions
  <2> QED  BY <1>1, <2>1, <2>2, <2>3
<1>4. /\ \A s, i : <<s, i>> \in Q <=> s \in Slot /\ i \in 1..Len(queue[s]) /\ queue[s][i].gen = gen
      /\ \A p \in Q : p = <<p[1], p[2]>>
      /\ \A s, i : <<s, i>> \in R <=> s \in Slot /\ i \in 1..Len(queue'[s]) /\ queue'[s][i].gen = gen
      /\ \A p \in R : p = <<p[1], p[2]>>
      /\ \A s \in Slot : Len(queue[s]) \in Nat
  BY <1>1, <1>3, OfMembers
<1> HIDE DEF Q, R
<1>5. \A s, i : <<s, i>> \in X <=> <<s, i>> \in Q /\ ~(s = slot /\ i = 1)
  OBVIOUS
<1>6. \A i : <<slot, i>> \in X => i - 1 \in 1..Len(queue[slot])-1 /\ <<slot, i-1>> \in R /\ i = (i-1)+1
  BY <1>3, <1>4, <1>5
<1>7. \A s, i : <<s, i>> \in X /\ s # slot => <<s, i>> \in R
  BY <1>3, <1>4, <1>5
<1>8. \A p \in X : p = <<p[1], p[2]>>
  BY <1>4
<1> HIDE DEF X
<1>9. f \in [X -> R]
  BY <1>6, <1>7, <1>8
<1>10. ASSUME NEW x \in X, NEW y \in X, f[x] = f[y]
       PROVE  x = y
  <2>1. /\ x = <<x[1], x[2]>> /\ y = <<y[1], y[2]>>
        /\ f[x] = IF x[1] = slot THEN <<slot, x[2] - 1>> ELSE x
        /\ f[y] = IF y[1] = slot THEN <<slot, y[2] - 1>> ELSE y
    BY <1>8
  <2> HIDE DEF f
  <2>2. CASE x[1] = slot /\ y[1] = slot
    <3>1. x[2] - 1 = y[2] - 1  BY <2>1, <2>2, <1>10
    <3>2. x[2] = (x[2]-1) + 1 /\ y[2] = (y[2]-1) + 1  BY <2>1, <2>2, <1>6
    <3> QED  BY <2>1, <2>2, <3>1, <3>2
  <2>3. CASE x[1] = slot /\ y[1] # slot
    <3>1. <<slot, x[2] - 1>> = <<y[1], y[2]>>  BY <1>10, <2>1, <2>3
    <3> QED  BY <2>3, <3>1
  <2>4. CASE x[1] # slot /\ y[1] = slot
    <3>1. <<x[1], x[2]>> = <<slot, y[2] - 1>>  BY <1>10, <2>1, <2>4
    <3> QED  BY <2>4, <3>1
  <2>5. CASE x[1] # slot /\ y[1] # slot
    BY <1>10, <2>1, <2>5
  <2> QED  BY <2>2, <2>3, <2>4, <2>5
<1>11. ASSUME NEW t \in R PROVE \E x \in X : f[x] = t
  <2>1. t = <<t[1], t[2]>> /\ t[1] \in Slot /\ t[2] \in 1..Len(queue'[t[1]])
        /\ queue'[t[1]][t[2]].gen = gen
    BY <1>4
  <2>2. CASE t[1] = slot
    <3>1. t[2] \in 1..Len(queue[slot])-1  BY <1>3, <2>1, <2>2
    <3>2. t[2]+1 \in 1..Len(queue[slot]) /\ queue[slot][t[2]+1].gen = gen /\ t[2]+1 # 1
          /\ (t[2]+1)-1 = t[2]
      BY <1>3, <2>1, <2>2, <3>1
    <3>3. <<slot, t[2]+1>> \in X  BY <1>4, <1>5, <3>2
    <3>4. f[<<slot, t[2]+1>>] = <<slot, t[2]>>  BY <3>2, <3>3
    <3> QED  BY <2>1, <2>2, <3>3, <3>4
  <2>3. CASE t[1] # slot
    <3>1. t \in X  BY <1>3, <1>4, <1>5, <2>1, <2>3
    <3>2. f[t] = t  BY <2>3, <3>1
    <3> QED  BY <3>1, <3>2
  <2> QED  BY <2>2, <2>3
<1> HIDE DEF f
<1>12. IsFiniteSet(Q) /\ (running => unused + Len(allCmds) + Cardinality(Q) = MaxCmds)
  BY <1>2 DEF PoolIsWhole
<1>13. /\ IsFiniteSet(X)
       /\ Cardinality(X) = IF <<slot, 1>> \in Q THEN Cardinality(Q) - 1 ELSE Cardinality(Q)
  BY <1>12, FS_RemoveElement DEF X
<1>14. IsFiniteSet(R) /\ Cardinality(R) = Cardinality(X)
  BY <1>9, <1>10, <1>11, <1>13, CountedBy
<1>15. <<slot, 1>> \in Q <=> Head(queue[slot]).gen = gen
  BY <1>3, <1>4
<1>16. running => unused' + Len(allCmds) + Cardinality(R) = MaxCmds
  <2> SUFFICES ASSUME running PROVE unused' + Len(allCmds) + Cardinality(R) = MaxCmds
    OBVIOUS
  <2>1. /\ Head(queue[slot]).gen = gen => unused' = unused + 1
        /\ Head(queue[slot]).gen # gen => unused' = unused
    BY DEF TakeCommand, Freed
  <2>2. Cardinality(Q) \in Nat /\ Len(allCmds) \in Nat
    BY <1>1, <1>12, FS_CardinalityType, LenProperties
  <2> QED  BY <1>1, <1>12, <1>13, <1>14, <1>15, <2>1, <2>2
<1> QED  BY <1>1, <1>2, <1>14, <1>16 DEF PoolIsWhole

\* The broadcast puts the copies of each slot in front of its list.
LEMMA BroadcastLists ==
  ASSUME IInv, CommandsAreDated, Broadcast, NEW s \in Slot,
         NEW w, w = IF s < numClnts THEN Copies(s, Len(allCmds)) ELSE 0
  PROVE  /\ w \in 0..Len(allCmds)
         /\ Len(queue'[s]) = w + Len(queue[s])
         /\ \A i \in 1..w : queue'[s][i].gen = gen
         /\ \A i \in 1..Len(queue[s]) : queue'[s][w + i] = queue[s][i]
<1>0. /\ queue[s] \in Seq(Cmd) /\ allCmds \in Seq(Cmd) /\ numClnts \in Nat
      /\ Len(queue[s]) \in Nat /\ Len(allCmds) \in Nat /\ s \in Nat
  <2>1. queue[s] \in Seq(Cmd) /\ allCmds \in Seq(Cmd) /\ numClnts \in 0..MaxClients
    BY DEF IInv, SrvTypeOK
  <2>2. s \in Nat /\ numClnts \in Nat
    BY <2>1, WorldServerAssumption DEF Slot
  <2> QED  BY <2>1, <2>2, Positions
<1>1. CASE s \notin Connected
  <2>1. ~(s < numClnts)
    <3> SUFFICES ASSUME s < numClnts PROVE FALSE
      OBVIOUS
    <3>1. s \in 0..numClnts-1 /\ refs[s] = s
      BY <1>0 DEF IInv, RefsAreSlots
    <3> QED  BY <1>1, <3>1 DEF Connected
  <2>2. w = 0 /\ queue'[s] = queue[s]
    BY <1>1, <2>1, BroadcastSends DEF IInv
  <2> QED  BY <1>0, <2>2
<1>2. CASE s \in Connected
  <2>1. PICK n \in 0..Len(allCmds) :
          /\ s < numClnts /\ n = Copies(s, Len(allCmds))
          /\ SubSeq(allCmds, 1, n) \in Seq(Cmd) /\ Len(SubSeq(allCmds, 1, n)) = n
          /\ \A i \in 1..n : SubSeq(allCmds, 1, n)[i] = allCmds[i]
          /\ queue'[s] = Reverse(SubSeq(allCmds, 1, n)) \o queue[s]
    BY <1>2, BroadcastSends DEF IInv
  <2>2. w = n
    BY <2>1
  <2> DEFINE u == SubSeq(allCmds, 1, n)
             r == Reverse(u)
  <2>3. u \in Seq(Cmd) /\ Len(u) = n /\ (\A i \in 1..n : u[i] = allCmds[i])
        /\ queue'[s] = r \o queue[s]
    BY <2>1
  <2> HIDE DEF u
  <2>4. ToSet(u) \subseteq ToSet(allCmds)
    <3>1. ToSet(u) = {u[i] : i \in 1..n}  BY <2>3, Positions
    <3>2. \A i \in 1..n : i \in 1..Len(allCmds) /\ allCmds[i] \in ToSet(allCmds)
      BY <1>0, Positions
    <3> QED  BY <2>3, <3>1, <3>2
  <2>5. r \in Seq(Cmd) /\ r = [i \in 1..n |-> u[(n - i) + 1]] /\ ToSet(r) = ToSet(u)
    BY <2>3, ReverseMembers DEF Reverse
  <2> HIDE DEF r
  <2>6. Len(r) = n
    BY <2>5, <1>0
  <2>7. \A i \in 1..n : r[i].gen = gen
    <3>1. \A i \in 1..n : r[i] \in ToSet(r)  BY <2>5, <2>6, Positions
    <3> QED  BY <2>4, <2>5, <3>1 DEF CommandsAreDated
  <2>8. /\ Len(r \o queue[s]) = n + Len(queue[s])
        /\ \A i \in 1..n + Len(queue[s]) :
             (r \o queue[s])[i] = IF i <= n THEN r[i] ELSE queue[s][i - n]
    BY <1>0, <2>5, <2>6, ConcatProperties
  <2>9. ASSUME NEW i \in 1..Len(queue[s]) PROVE (r \o queue[s])[n + i] = queue[s][i]
    <3>1. n + i \in 1..n + Len(queue[s]) /\ ~(n + i <= n) /\ (n + i) - n = i
      BY <1>0
    <3> QED  BY <2>8, <3>1
  <2>10. ASSUME NEW i \in 1..n PROVE (r \o queue[s])[i] = r[i]
    <3>1. i \in 1..n + Len(queue[s]) /\ i <= n  BY <1>0
    <3> QED  BY <2>8, <3>1
  <2> QED  BY <2>2, <2>3, <2>7, <2>8, <2>9, <2>10
<1> QED  BY <1>1, <1>2

LEMMA BroadcastPool ==
  ASSUME IInv, CommandsAreDated, PoolIsWhole, Broadcast
  PROVE  PoolIsWhole'
<1> DEFINE k == Len(allCmds)
           W(s) == IF s < numClnts THEN Copies(s, k) ELSE 0
           Q == Of(queue, gen)
           R == Of(queue', gen)
           G == Given(numClnts, k)
           T == R \ G
           f == [p \in Q |-> <<p[1], W(p[1]) + p[2]>>]
<1>1. /\ queue \in [Slot -> Seq(Cmd)] /\ queue' \in [Slot -> Seq(Cmd)]
      /\ unused \in Nat /\ allCmds \in Seq(Cmd) /\ k \in Nat /\ gen' = gen
      /\ numClnts \in Nat /\ numClnts <= MaxClients /\ MaxClients \in Nat
  <2>1. queue' \in [Slot -> Seq(Cmd)]
    BY BroadcastPreserves DEF IInv, SrvTypeOK
  <2>2. Len(allCmds) \in Nat
    BY Positions DEF IInv, SrvTypeOK
  <2>3. /\ queue \in [Slot -> Seq(Cmd)] /\ unused \in Nat /\ allCmds \in Seq(Cmd)
        /\ numClnts \in 0..MaxClients
    BY DEF IInv, SrvTypeOK
  <2>4. gen' = gen
    BY DEF Broadcast
  <2>5. MaxClients \in Nat
    BY WorldServerAssumption
  <2> QED  BY <2>1, <2>2, <2>3, <2>4, <2>5
<1>2. Queued = Q /\ Queued' = R
  BY <1>1 DEF Queued, Of
<1>3. \A s \in Slot : /\ W(s) \in 0..k
                      /\ Len(queue'[s]) = W(s) + Len(queue[s])
                      /\ \A i \in 1..W(s) : queue'[s][i].gen = gen
                      /\ \A i \in 1..Len(queue[s]) : queue'[s][W(s) + i] = queue[s][i]
  BY BroadcastLists
<1>4. /\ \A s, i : <<s, i>> \in Q <=> s \in Slot /\ i \in 1..Len(queue[s]) /\ queue[s][i].gen = gen
      /\ \A p \in Q : p = <<p[1], p[2]>>
      /\ \A s, i : <<s, i>> \in R <=> s \in Slot /\ i \in 1..Len(queue'[s]) /\ queue'[s][i].gen = gen
      /\ \A p \in R : p = <<p[1], p[2]>>
      /\ \A s \in Slot : Len(queue[s]) \in Nat
  BY <1>1, OfMembers
<1>5. /\ \A s, i : <<s, i>> \in G <=> s \in Slot /\ i \in 1..W(s)
      /\ \A p \in G : p = <<p[1], p[2]>>
  <2>1. \A s : s \in 0..numClnts-1 <=> s \in Slot /\ s < numClnts
    BY <1>1 DEF Slot
  <2>2. \A s, i : <<s, i>> \in G <=>
                    s \in 0..numClnts-1 /\ i \in 1..k /\ i <= Copies(s, k)
    BY DEF Given
  <2>3. \A s \in Slot : s < numClnts => Copies(s, k) \in 0..k
    BY <1>3
  <2>4. ASSUME NEW s, NEW i PROVE <<s, i>> \in G <=> s \in Slot /\ i \in 1..W(s)
    <3>1. CASE s \in Slot /\ s < numClnts
      <4>1. Copies(s, k) \in 0..k /\ W(s) = Copies(s, k)  BY <2>3, <3>1
      <4>2. i \in 1..k /\ i <= Copies(s, k) <=> i \in 1..Copies(s, k)
        BY <1>1, <4>1
      <4> QED  BY <2>1, <2>2, <3>1, <4>1, <4>2
    <3>2. CASE ~(s \in Slot /\ s < numClnts)
      <4>1. W(s) = 0 \/ s \notin Slot  BY <3>2
      <4> QED  BY <2>1, <2>2, <3>2, <4>1
    <3> QED  BY <3>1, <3>2
  <2>5. \A p \in G : p = <<p[1], p[2]>>
    BY DEF Given
  <2> QED  BY <2>4, <2>5
<1> HIDE DEF k, W, Q, R, G
<1>6. G \subseteq R
  <2>1. ASSUME NEW s \in Slot, NEW i \in 1..W(s) PROVE <<s, i>> \in R
    <3>1. i \in 1..Len(queue'[s]) /\ queue'[s][i].gen = gen
      BY <1>1, <1>3, <1>4
    <3> QED  BY <1>4, <3>1
  <2> QED  BY <1>5, <2>1
<1>7. \A s, i : <<s, i>> \in T <=> <<s, i>> \in R /\ ~(i \in 1..W(s))
  BY <1>4, <1>5
<1>8. ASSUME NEW s, NEW i
      PROVE  <<s, i>> \in Q <=> i \in Nat /\ i >= 1 /\ <<s, W(s) + i>> \in T
  <2>1. CASE s \in Slot
    <3>1. W(s) \in Nat /\ Len(queue[s]) \in Nat  BY <1>1, <1>3, <1>4, <2>1
    <3>2. ASSUME <<s, i>> \in Q PROVE i \in Nat /\ i >= 1 /\ <<s, W(s) + i>> \in T
      <4>1. i \in 1..Len(queue[s]) /\ queue[s][i].gen = gen  BY <1>4, <3>2
      <4>2. W(s) + i \in 1..Len(queue'[s]) /\ ~(W(s) + i \in 1..W(s))
        BY <1>3, <2>1, <3>1, <4>1
      <4>3. queue'[s][W(s) + i].gen = gen  BY <1>3, <2>1, <4>1
      <4> QED  BY <1>4, <1>7, <2>1, <4>1, <4>2, <4>3
    <3>3. ASSUME i \in Nat, i >= 1, <<s, W(s) + i>> \in T PROVE <<s, i>> \in Q
      <4>1. W(s) + i \in 1..Len(queue'[s]) /\ queue'[s][W(s) + i].gen = gen
        BY <1>4, <1>7, <3>3
      <4>2. i \in 1..Len(queue[s])
        BY <1>3, <2>1, <3>1, <3>3, <4>1
      <4> QED  BY <1>3, <1>4, <2>1, <4>1, <4>2
    <3> QED  BY <3>2, <3>3
  <2>2. CASE s \notin Slot
    BY <1>4, <1>7, <2>2
  <2> QED  BY <2>1, <2>2
<1>9. \A p \in T : p = <<p[1], p[2]>> /\ p \in R
  BY <1>4
<1> HIDE DEF T
<1>10. f \in [Q -> T]
  <2>1. ASSUME NEW p \in Q PROVE <<p[1], W(p[1]) + p[2]>> \in T
    <3>1. <<p[1], p[2]>> \in Q  BY <1>4
    <3> QED  BY <1>8, <3>1
  <2> QED  BY <2>1
<1>11. ASSUME NEW x \in Q, NEW y \in Q, f[x] = f[y]
       PROVE  x = y
  <2>1. x = <<x[1], x[2]>> /\ y = <<y[1], y[2]>>
    BY <1>4
  <2>2. <<x[1], W(x[1]) + x[2]>> = <<y[1], W(y[1]) + y[2]>>
    BY <1>11
  <2>3. x[1] = y[1] /\ W(x[1]) + x[2] = W(x[1]) + y[2]
    BY <2>2
  <2>4. /\ x[1] \in Slot /\ x[2] \in 1..Len(queue[x[1]])
        /\ y[1] \in Slot /\ y[2] \in 1..Len(queue[y[1]])
    BY <1>4, <2>1
  <2>5. W(x[1]) \in Nat /\ Len(queue[x[1]]) \in Nat /\ Len(queue[y[1]]) \in Nat
    BY <1>1, <1>3, <1>4, <2>4, SMTT(30)
  <2>6. x[2] = y[2]
    BY <2>3, <2>4, <2>5
  <2> QED  BY <2>1, <2>3, <2>6
<1>12. ASSUME NEW t \in T PROVE \E x \in Q : f[x] = t
  <2>1. /\ t = <<t[1], t[2]>> /\ t[1] \in Slot /\ t[2] \in 1..Len(queue'[t[1]])
        /\ ~(t[2] \in 1..W(t[1]))
    BY <1>4, <1>7, <1>9
  <2>2. W(t[1]) \in Nat /\ Len(queue'[t[1]]) \in Nat
    <3>1. queue'[t[1]] \in Seq(Cmd)  BY <1>1, <2>1
    <3> QED  BY <1>1, <1>3, <2>1, <3>1, LenProperties
  <2>3. t[2] - W(t[1]) \in Nat /\ t[2] - W(t[1]) >= 1 /\ W(t[1]) + (t[2] - W(t[1])) = t[2]
    BY <2>1, <2>2
  <2>4. <<t[1], t[2] - W(t[1])>> \in Q
    BY <1>8, <2>1, <2>3
  <2>5. f[<<t[1], t[2] - W(t[1])>>] = <<t[1], W(t[1]) + (t[2] - W(t[1]))>>
    BY <2>4
  <2> QED  BY <2>1, <2>3, <2>4, <2>5
<1> HIDE DEF f
<1>13. IsFiniteSet(Q) /\ (running => unused + k + Cardinality(Q) = MaxCmds)
  BY <1>2 DEF PoolIsWhole, k
<1>14. IsFiniteSet(T) /\ Cardinality(T) = Cardinality(Q)
  BY <1>10, <1>11, <1>12, <1>13, CountedBy
<1>15. /\ IsFiniteSet(G)
       /\ Cardinality(G) = IF unused < numClnts * k THEN unused ELSE numClnts * k
  BY <1>1, GivenCount DEF G
<1>16. IsFiniteSet(R) /\ Cardinality(R) = Cardinality(T) + Cardinality(G)
  <2>1. R = T \cup G /\ T \cap G = {}
    BY <1>6 DEF T
  <2>2. Cardinality({}) = 0
    BY FS_EmptySet
  <2>3. /\ IsFiniteSet(T \cup G)
        /\ Cardinality(T \cup G) = Cardinality(T) + Cardinality(G) - Cardinality(T \cap G)
    BY <1>14, <1>15, FS_Union
  <2>4. Cardinality(T) \in Nat /\ Cardinality(G) \in Nat
    BY <1>14, <1>15, FS_CardinalityType
  <2>5. Cardinality(T \cup G) = Cardinality(T) + Cardinality(G)
    <3>1. Cardinality(T \cap G) = 0  BY <2>1, <2>2
    <3> QED  BY <2>3, <2>4, <3>1
  <2> QED  BY <2>1, <2>3, <2>5
<1>17. running' = running /\ Len(allCmds') = 0
       /\ unused' = k + IF unused < numClnts * k THEN 0 ELSE unused - numClnts * k
  BY DEF Broadcast, k
<1>18. running => unused' + Len(allCmds') + Cardinality(R) = MaxCmds
  <2> DEFINE all == numClnts * k
  <2>1. all \in Nat  BY <1>1
  <2>2. Cardinality(G) = IF unused < all THEN unused ELSE all  BY <1>15
  <2>3. unused' = k + IF unused < all THEN 0 ELSE unused - all  BY <1>17
  <2> HIDE DEF all
  <2>4. Cardinality(Q) \in Nat  BY <1>13, FS_CardinalityType
  <2>5. running' = running /\ Len(allCmds') = 0  BY <1>17
  <2>6. Cardinality(R) = Cardinality(Q) + IF unused < all THEN unused ELSE all
    BY <1>14, <1>16, <2>2
  <2>7. unused' + Cardinality(R) = unused + k + Cardinality(Q)
    BY <1>1, <2>1, <2>3, <2>4, <2>6
  <2>8. unused' \in Nat  BY <1>1, <2>1, <2>3
  <2>9. Cardinality(R) \in Nat  BY <1>16, FS_CardinalityType
  <2>10. unused' + Len(allCmds') + Cardinality(R) = unused' + Cardinality(R)
    BY <2>5, <2>8, <2>9
  <2> QED  BY <1>13, <2>7, <2>10
<1> QED  BY <1>2, <1>16, <1>17, <1>18 DEF PoolIsWhole

LEMMA PoolStep ==
  ASSUME IInv, HasStarted, CommandsAreDated, PoolIsWhole, [SrvNext]_srvVars
  PROVE  PoolIsWhole'
<1>0. /\ queue \in [Slot -> Seq(Cmd)] /\ gen \in Nat /\ allCmds \in Seq(Cmd)
      /\ Len(allCmds) \in Nat /\ unused \in Nat
  BY CommandTypes, Positions DEF IInv, SrvTypeOK
<1>1. CASE InitServer
  <2>1. /\ queue' = queue /\ gen' = gen + 1 /\ unused' = MaxCmds /\ allCmds' = << >>
    BY <1>1 DEF InitServer, Idle, CommandsAreDated
  <2>2. \A s \in Slot : \A j \in DOMAIN queue[s] : queue[s][j].gen # gen'
    <3>1. ASSUME NEW s \in Slot, NEW j \in DOMAIN queue[s]
          PROVE  queue[s][j].gen # gen'
      <4>1. queue[s] \in Seq(Cmd)  BY <1>0
      <4>2. queue[s][j] \in ToSet(queue[s]) /\ queue[s][j] \in Cmd
        BY <4>1, Positions
      <4>3. queue[s][j].gen <= gen /\ queue[s][j].gen \in Nat
        BY <4>2, CommandTypes DEF CommandsAreDated, IInv
      <4> QED  BY <1>0, <2>1, <4>3
    <3> QED  BY <3>1
  <2>3. Queued' = {}
    BY <2>1, <2>2 DEF Queued
  <2>4. Len(allCmds') = 0 /\ MaxCmds \in Nat
    BY <2>1, WorldServerAssumption
  <2> QED  BY <2>1, <2>3, <2>4, FS_EmptySet DEF PoolIsWhole
<1>2. CASE Shutdown
  <2>1. Queued' = Queued /\ ~running'
    BY <1>2 DEF Shutdown, cmdVars, Queued
  <2> QED  BY <2>1 DEF PoolIsWhole
<1>3. CASE \/ TogglePause \/ LoadLevel \/ LoadActor \/ LevelLoaded
           \/ StartFrame \/ (\E expires \in BOOLEAN : RunAI(expires)) \/ Simulate
           \/ (\E slot \in Slot, loads \in CanLoad("jack") : AcceptLocalConnect(slot, loads))
           \/ UNCHANGED srvVars
  <2>1. UNCHANGED <<allCmds, queue, unused, gen, running>>
    BY <1>3 DEF TogglePause, LoadLevel, LoadActor, LevelLoaded, StartFrame, RunAI, Simulate,
                AcceptLocalConnect, cmdVars, srvVars
  <2>2. Queued' = Queued
    BY <2>1 DEF Queued
  <2> QED  BY <2>1, <2>2 DEF PoolIsWhole
<1>4. CASE Kill
  <2>1. UNCHANGED <<queue, gen, running>>
    BY <1>4 DEF Kill, RemoveEnt, SendDestroy, cmdVars
  <2>2. Queued' = Queued
    BY <2>1 DEF Queued
  <2>3. \/ UNCHANGED <<unused, allCmds>>
        \/ /\ unused > 0 /\ unused' = unused - 1
           /\ allCmds' = <<[ent |-> Head(killList), gen |-> gen]>> \o allCmds
    BY <1>4 DEF Kill, RemoveEnt, SendDestroy, cmdVars
  <2>4. unused' + Len(allCmds') = unused + Len(allCmds)
    <3>1. CASE UNCHANGED <<unused, allCmds>>
      BY <3>1
    <3>2. CASE unused' = unused - 1
               /\ allCmds' = <<[ent |-> Head(killList), gen |-> gen]>> \o allCmds
      <4>1. [ent |-> Head(killList), gen |-> gen] \in Cmd
        <5>1. Head(killList) \in Ent
          BY <1>4, TailMembers DEF Kill, IInv, SrvTypeOK
        <5>2. gen \in 1..MaxInits
          BY <1>4, WorldServerAssumption DEF HasStarted, Kill, IInv, SrvTypeOK
        <5> QED  BY <5>1, <5>2 DEF Cmd
      <4>2. Len(allCmds') = Len(allCmds) + 1
        BY <1>0, <3>2, <4>1, ConsProperties
      <4> QED  BY <1>0, <3>2, <4>2
    <3> QED  BY <2>3, <3>1, <3>2
  <2> QED  BY <2>1, <2>2, <2>4 DEF PoolIsWhole
<1>5. CASE Broadcast
  BY <1>5, BroadcastPool
<1>6. CASE \E slot \in Slot : TakeCommand(slot)
  BY <1>6, TakePool
<1> QED  BY <1>1, <1>2, <1>3, <1>4, <1>5, <1>6 DEF SrvNext

LEMMA PoolInit == SrvInit => PoolIsWhole
<1> SUFFICES ASSUME SrvInit PROVE PoolIsWhole
  OBVIOUS
<1>1. Queued = {}
  BY DEF SrvInit, Queued
<1> QED  BY <1>1, FS_EmptySet DEF SrvInit, PoolIsWhole

-----------------------------------------------------------------------------
LEMMA ServerInit == SrvInit => SInv
<1> SUFFICES ASSUME SrvInit PROVE SInv
  OBVIOUS
<1>1. IInv /\ HasStarted
  BY InitEstablishes DEF SrvInit, HasStarted
<1>2. CommandsAreDated /\ KilledAreBlaines
  BY EmptySeq DEF SrvInit, CommandsAreDated, KilledAreBlaines, ToSet
<1> QED  BY <1>1, <1>2, PoolInit DEF SInv

LEMMA ServerStep ==
  ASSUME SInv, [SrvNext]_srvVars
  PROVE  SInv'
BY StepPreserves, HasStartedPreserved, DatedStep, BlainesStep, PoolStep DEF SInv

LEMMA ServerInvariance == SrvSpec => []SInv
<1>1. SInv /\ [SrvNext]_srvVars => SInv'
  BY ServerStep
<1> QED  BY <1>1, ServerInit, PTL DEF SrvSpec

\* The server's state has its types, however it is started, stopped, paused,
\* loaded, connected to and run.
THEOREM SrvTypeCorrect == SrvSpec => []SrvTypeOK
<1>1. SInv => SrvTypeOK  BY DEF SInv, IInv
<1> QED  BY <1>1, ServerInvariance, PTL

\* AddEntity, ClearEnts and RemoveEnt keep every entity on at most one list, the
\* one its flags say, with a body exactly while it is in the world.
THEOREM EntitiesStayListed == SrvSpec => []EntityLists
<1>1. SInv => EntityLists  BY DEF SInv, IInv
<1> QED  BY <1>1, ServerInvariance, PTL

\* ProcessServer removes no entity twice and none that has left the world.
THEOREM KillsAreLive == SrvSpec => []KillListIsLive
<1>1. SInv => KillListIsLive  BY DEF SInv, IInv
<1> QED  BY <1>1, ServerInvariance, PTL

\* AcceptLocalConnect hands the slots out in order, so that m_nClntRefs may be
\* indexed by slot, as the client does.
THEOREM SlotsAreRefs == SrvSpec => []RefsAreSlots
<1>1. SInv => RefsAreSlots  BY DEF SInv, IInv
<1> QED  BY <1>1, ServerInvariance, PTL

\* Sending, broadcasting and taking the destroy commands loses none of the pool
\* and has none in two places, whatever copies the pool is too small for.
THEOREM CommandsStayInThePool == SrvSpec => []CommandsConserved
<1>1. SInv => CommandsConserved
  BY DEF SInv, PoolIsWhole, CommandsAreDated, CommandsConserved
<1> QED  BY <1>1, ServerInvariance, PTL

(***************************************************************************)
(* The client.                                                             *)
(***************************************************************************)

\* No two commands of the server of generation g are for the same entity, be
\* they on a, where all are of that generation, or on q.
Apart(a, q, g) ==
  /\ \A i, j \in 1..Len(a) : a[i].ent = a[j].ent => i = j
  /\ \A i, j \in 1..Len(q) :
       q[i].gen = g /\ q[j].gen = g /\ q[i].ent = q[j].ent => i = j
  /\ \A i \in 1..Len(a), j \in 1..Len(q) : q[j].gen = g => a[i].ent # q[j].ent

\* What is true of a client that is connected to the server that runs.
Follows ==
  /\ Live \subseteq view
  /\ view \ Live \subseteq Pending(idOnSrv) \cup lost[idOnSrv]
  /\ Pending(idOnSrv) \cap Live = {}
  /\ Pending(idOnSrv) \subseteq view
  /\ Apart(allCmds, queue[idOnSrv], gen)
  /\ pcEnt # NoEnt => pcEnt \in Live /\ brain[pcEnt] = "jack"

Drawing == Attached /\ entList /\ fault = "none"

Booting == phase \in {"init_server", "load_level", "loading", "connect"}

\* The client is connected to the present server or to an earlier one; none is
\* in the second case.
Connection ==
  /\ connGen <= gen
  /\ connGen # gen => numClnts = 0
  /\ connGen = gen /\ gen > 0 => idOnSrv < numClnts
  /\ Booting => ~conn /\ view = {}

\* Also while the server is away, the client keeps drawing the player's entity.
PlayerInView ==
  /\ PlayerIsDrawn
  /\ conn /\ entList /\ fault = "none" => pcEnt \in view \cup {NoEnt}

\* The inductive invariant of the game.
Draws == PlayerInView /\ (Drawing => Follows)
WorldInv == SInv /\ TypeOK /\ Connection /\ Draws

-----------------------------------------------------------------------------
LEMMA ApartPush ==
  ASSUME NEW a \in Seq(Cmd), NEW q \in Seq(Cmd), NEW g, Apart(a, q, g), NEW c \in Cmd,
         \A d \in ToSet(a) : d.ent # c.ent,
         \A d \in ToSet(q) : d.gen = g => d.ent # c.ent
  PROVE  Apart(<<c>> \o a, q, g)
<1> DEFINE b == <<c>> \o a
<1>1. /\ b \in Seq(Cmd) /\ Len(b) = Len(a) + 1 /\ b[1] = c
      /\ \A i \in 2..Len(a)+1 : b[i] = a[i-1]
  BY ConsProperties
<1>2. /\ Len(a) \in Nat /\ \A i \in 1..Len(a) : a[i].ent # c.ent
      /\ Len(q) \in Nat /\ \A i \in 1..Len(q) : q[i].gen = g => q[i].ent # c.ent
  BY Positions
<1> HIDE DEF b
<1>3. \A i \in 1..Len(b) : i = 1 \/ (i \in 2..Len(a)+1 /\ i-1 \in 1..Len(a) /\ i = (i-1)+1)
  BY <1>1, <1>2
<1>4. ASSUME NEW i \in 1..Len(b), NEW j \in 1..Len(b), b[i].ent = b[j].ent
      PROVE  i = j
  <2>1. CASE i = 1 /\ j = 1  BY <2>1
  <2>2. CASE i = 1 /\ j # 1  BY <2>2, <1>1, <1>2, <1>3, <1>4
  <2>3. CASE i # 1 /\ j = 1  BY <2>3, <1>1, <1>2, <1>3, <1>4
  <2>4. CASE i # 1 /\ j # 1
    <3>1. /\ i-1 \in 1..Len(a) /\ j-1 \in 1..Len(a) /\ b[i] = a[i-1] /\ b[j] = a[j-1]
          /\ i = (i-1)+1 /\ j = (j-1)+1
      BY <2>4, <1>1, <1>3
    <3>2. i-1 = j-1  BY <3>1, <1>4 DEF Apart
    <3> QED  BY <3>1, <3>2
  <2> QED  BY <2>1, <2>2, <2>3, <2>4
<1>5. ASSUME NEW i \in 1..Len(b), NEW j \in 1..Len(q), q[j].gen = g
      PROVE  b[i].ent # q[j].ent
  <2>1. CASE i = 1  BY <2>1, <1>1, <1>2, <1>5
  <2>2. CASE i # 1
    <3>1. i-1 \in 1..Len(a) /\ b[i] = a[i-1]  BY <2>2, <1>1, <1>3
    <3> QED  BY <3>1, <1>5 DEF Apart
  <2> QED  BY <2>1, <2>2
<1> QED  BY <1>4, <1>5 DEF Apart, b

LEMMA ApartPop ==
  ASSUME NEW a \in Seq(Cmd), NEW q \in Seq(Cmd), NEW g, Apart(a, q, g), q # << >>
  PROVE  /\ Apart(a, Tail(q), g)
         /\ Head(q).gen = g =>
              /\ \A d \in ToSet(a) : d.ent # Head(q).ent
              /\ \A d \in ToSet(Tail(q)) : d.gen = g => d.ent # Head(q).ent
<1> DEFINE t == Tail(q)
<1>1. /\ t \in Seq(Cmd) /\ Len(t) = Len(q) - 1 /\ Head(q) = q[1]
      /\ \A i \in 1..Len(t) : t[i] = q[i+1]
  BY HeadTailProperties
<1>2. Len(q) \in Nat /\ Len(q) # 0 /\ Len(a) \in Nat
  BY Positions
<1>3. /\ ToSet(a) = {a[i] : i \in 1..Len(a)}
      /\ ToSet(t) = {t[i] : i \in 1..Len(t)}
  BY <1>1, Positions
<1> HIDE DEF t
<1>4. \A i \in 1..Len(t) : i+1 \in 1..Len(q) /\ i+1 # 1
  BY <1>1, <1>2
<1>5. 1 \in 1..Len(q)
  BY <1>2
<1>6. ASSUME NEW i \in 1..Len(t), NEW j \in 1..Len(t),
             t[i].gen = g, t[j].gen = g, t[i].ent = t[j].ent
      PROVE  i = j
  <2>1. i+1 = j+1  BY <1>1, <1>4, <1>6, SMTT(30) DEF Apart
  <2> QED  BY <2>1, <1>1, <1>2
<1>7. Apart(a, t, g)
  BY <1>1, <1>4, <1>6 DEF Apart
<1>8. ASSUME Head(q).gen = g
      PROVE  /\ \A d \in ToSet(a) : d.ent # Head(q).ent
             /\ \A d \in ToSet(t) : d.gen = g => d.ent # Head(q).ent
  <2>1. \A i \in 1..Len(a) : a[i].ent # Head(q).ent
    BY <1>1, <1>5, <1>8 DEF Apart
  <2>2. \A i \in 1..Len(t) : t[i].gen = g => t[i].ent # Head(q).ent
    BY <1>1, <1>4, <1>5, <1>8 DEF Apart
  <2> QED  BY <2>1, <2>2, <1>3
<1> QED  BY <1>7, <1>8 DEF t

LEMMA ApartSend ==
  ASSUME NEW a \in Seq(Cmd), NEW q \in Seq(Cmd), NEW g, Apart(a, q, g),
         NEW u \in Seq(Cmd), Len(u) <= Len(a), \A i \in 1..Len(u) : u[i] = a[i]
  PROVE  Apart(<< >>, Reverse(u) \o q, g)
<1> DEFINE n == Len(u)
           r == Reverse(u)
           p == r \o q
<1>1. n \in Nat /\ Len(a) \in Nat /\ Len(q) \in Nat /\ \A i \in 1..n : i \in 1..Len(a)
  BY Positions
<1>2. r \in Seq(Cmd) /\ r = [i \in 1..n |-> u[(n - i) + 1]]
  BY ReverseMembers DEF Reverse
<1>3. Len(r) = n
  BY <1>1, <1>2
<1>4. /\ p \in Seq(Cmd) /\ Len(p) = n + Len(q)
      /\ \A i \in 1..n + Len(q) : p[i] = IF i <= n THEN r[i] ELSE q[i - n]
  BY <1>2, <1>3, ConcatProperties
<1> HIDE DEF n, r, p
<1>5. \A i \in 1..Len(p) : i \in 1..n \/ (i - n \in 1..Len(q) /\ ~(i <= n))
  BY <1>1, <1>4
<1>6. \A i \in 1..n : (n - i) + 1 \in 1..n /\ i = (n - ((n - i) + 1)) + 1
  BY <1>1
<1>7. \A i \in 1..n : i \in 1..Len(p) /\ p[i] = a[(n - i) + 1] /\ (n - i) + 1 \in 1..Len(a)
  <2> TAKE i \in 1..n
  <2>1. p[i] = r[i] /\ i \in 1..Len(p)  BY <1>1, <1>4
  <2>2. r[i] = u[(n - i) + 1]  BY <1>2
  <2>3. u[(n - i) + 1] = a[(n - i) + 1]  BY <1>6 DEF n
  <2> QED  BY <2>1, <2>2, <2>3, <1>1, <1>6
<1>8. \A i \in 1..Len(p) : i \notin 1..n => p[i] = q[i - n] /\ i - n \in 1..Len(q)
  BY <1>4, <1>5
<1>9. ASSUME NEW i \in 1..Len(p), NEW j \in 1..Len(p),
             p[i].gen = g, p[j].gen = g, p[i].ent = p[j].ent
      PROVE  i = j
  <2>1. CASE i \in 1..n /\ j \in 1..n
    <3>1. (n - i) + 1 = (n - j) + 1  BY <2>1, <1>7, <1>9 DEF Apart
    <3> QED  BY <3>1, <2>1, <1>1
  <2>2. CASE i \in 1..n /\ j \notin 1..n  BY <2>2, <1>7, <1>8, <1>9 DEF Apart
  <2>3. CASE i \notin 1..n /\ j \in 1..n
    <3>1. p[i] = q[i - n] /\ i - n \in 1..Len(q)  BY <2>3, <1>8
    <3>2. p[j] = a[(n - j) + 1] /\ (n - j) + 1 \in 1..Len(a)  BY <2>3, <1>7
    <3> QED  BY <3>1, <3>2, <1>9 DEF Apart
  <2>4. CASE i \notin 1..n /\ j \notin 1..n
    <3>1. i - n = j - n  BY <2>4, <1>8, <1>9 DEF Apart
    <3> QED  BY <3>1, <1>1, <1>4
  <2> QED  BY <2>1, <2>2, <2>3, <2>4
<1>10. \A i \in 1..Len(<< >>) : FALSE
  OBVIOUS
<1> QED  BY <1>9, <1>10 DEF Apart, p, r

-----------------------------------------------------------------------------
\* DestroysAreOfDrawn, of the two lists.
LEMMA DrawnByLists ==
  ASSUME SrvTypeOK, TypeOK, CommandsAreDated, Drawing => Follows
  PROVE  DestroysAreOfDrawn
<1> SUFFICES ASSUME Drawing PROVE DestroysAreOfDrawn
  BY DEF DestroysAreOfDrawn, Drawing
<1> DEFINE a == allCmds
           q == queue[idOnSrv]
           m == Len(a)
           cmds == a \o q
<1>0. a \in Seq(Cmd) /\ q \in Seq(Cmd) /\ Follows
  BY DEF SrvTypeOK, TypeOK
<1>1. /\ cmds \in Seq(Cmd) /\ Len(cmds) = m + Len(q)
      /\ \A i \in 1..m + Len(q) : cmds[i] = IF i <= m THEN a[i] ELSE q[i - m]
  BY <1>0, ConcatProperties
<1>2. /\ DOMAIN cmds = 1..m + Len(q) /\ m \in Nat /\ Len(q) \in Nat
      /\ \A i \in 1..m : a[i] \in ToSet(a)
      /\ \A i \in 1..Len(q) : q[i] \in ToSet(q)
  BY <1>0, <1>1, Positions
<1>3. /\ \A i, j \in 1..m : a[i].ent = a[j].ent => i = j
      /\ \A i, j \in 1..Len(q) :
           q[i].gen = gen /\ q[j].gen = gen /\ q[i].ent = q[j].ent => i = j
      /\ \A i \in 1..m, j \in 1..Len(q) : q[j].gen = gen => a[i].ent # q[j].ent
  BY <1>0 DEF Follows, Apart
<1>4. \A c \in ToSet(a) \cup ToSet(q) : c.gen = gen => c.ent \in view
  BY <1>0 DEF Follows, Pending
<1> HIDE DEF a, q, m, cmds
<1>5. \A i \in DOMAIN cmds : \/ i \in 1..m /\ cmds[i] = a[i]
                             \/ i - m \in 1..Len(q) /\ i \notin 1..m /\ cmds[i] = q[i - m]
  BY <1>1, <1>2
<1>6. ASSUME NEW i \in DOMAIN cmds, cmds[i].gen = gen
      PROVE  cmds[i].ent \in view
  BY <1>2, <1>4, <1>5, <1>6
<1>7. ASSUME NEW i \in DOMAIN cmds, cmds[i].gen = gen,
             NEW j \in DOMAIN cmds, cmds[j].gen = gen, cmds[i].ent = cmds[j].ent
      PROVE  i = j
  <2>1. CASE i \in 1..m /\ j \in 1..m  BY <2>1, <1>3, <1>5, <1>7
  <2>2. CASE i \in 1..m /\ j \notin 1..m  BY <2>2, <1>3, <1>5, <1>7
  <2>3. CASE i \notin 1..m /\ j \in 1..m  BY <2>3, <1>3, <1>5, <1>7
  <2>4. CASE i \notin 1..m /\ j \notin 1..m
    <3>1. i - m = j - m  BY <2>4, <1>3, <1>5, <1>7
    <3> QED  BY <3>1, <1>2
  <2> QED  BY <2>1, <2>2, <2>3, <2>4
<1>8. \A i \in {k \in DOMAIN cmds : cmds[k].gen = gen} :
        /\ cmds[i].ent \in view
        /\ \A j \in {k \in DOMAIN cmds : cmds[k].gen = gen} :
             cmds[i].ent = cmds[j].ent => i = j
  BY <1>6, <1>7
<1>9. cmds = allCmds \o queue[idOnSrv]
  BY DEF cmds, a, q
<1> QED  BY <1>8, <1>9 DEF DestroysAreOfDrawn

-----------------------------------------------------------------------------
\* Every step of the game is one of the server, or leaves it alone but for the
\* undefined behaviour it may run into.
LEMMA ServerOrFault ==
  ASSUME SInv, TypeOK, [Next]_vars
  PROVE  SInv' /\ (fault' = "none" => fault = "none")
<1>0. IInv /\ SrvTypeOK /\ fault \in Faults
  BY DEF SInv, IInv, SrvTypeOK
<1>1. ASSUME [SrvNext]_srvVars
      PROVE  SInv' /\ (fault' = "none" => fault = "none")
  <2>1. fault' = "none" => fault = "none"
    BY <1>1 DEF SrvNext, InitServer, Shutdown, TogglePause, LoadLevel, LoadActor, LevelLoaded,
       AcceptLocalConnect, TakeCommand, StartFrame, RunAI, Simulate, Kill, Broadcast, Idle,
       srvVars
  <2> QED  BY <1>1, <2>1, ServerStep
<1>2. ASSUME NEW f \in Faults, Faulting(f), f = "none" => fault = "none"
      PROVE  SInv' /\ (fault' = "none" => fault = "none")
  <2>1. SrvTypeOK'
    BY <1>0, <1>2 DEF Faulting, SrvTypeOK, entVars, cmdVars, slotVars
  <2>2. EntityLists' /\ KillListIsLive' /\ KilledAreBehind'
    <3>1. UNCHANGED entVars /\ UNCHANGED killList /\ frame' = frame /\ at' = at
      BY <1>2 DEF Faulting
    <3> QED  BY <3>1, <1>0, EntitiesKept
  <2>3. RefsAreSlots'
    BY <1>0, <1>2 DEF Faulting, IInv, RefsAreSlots, slotVars
  <2>4. HasStarted' /\ CommandsAreDated' /\ KilledAreBlaines'
    BY <1>2 DEF Faulting, SInv, HasStarted, CommandsAreDated, KilledAreBlaines, entVars,
       cmdVars, slotVars
  <2>5. PoolIsWhole'
    BY <1>2 DEF Faulting, SInv, PoolIsWhole, Queued, cmdVars
  <2> QED  BY <1>2, <2>1, <2>2, <2>3, <2>4, <2>5 DEF SInv, IInv, Faulting
<1>3. CASE ConnectLocal
  <2>1. CASE UNCHANGED srvVars  BY <2>1, <1>1
  <2>2. CASE Faulting(IF Live = {} THEN fault ELSE "null_client_ents")
    <3>1. "null_client_ents" \in Faults  BY DEF Faults
    <3> QED  BY <2>2, <3>1, <1>0, <1>2
  <2>3. CASE \E slot \in Slot, loads \in CanLoad("jack") : AcceptLocalConnect(slot, loads)
    <3>1. SrvNext  BY <2>3 DEF SrvNext
    <3> QED  BY <3>1, <1>1
  <2> QED  BY <1>3, <2>1, <2>2, <2>3 DEF ConnectLocal
<1>4. CASE Receive
  <2>1. CASE TakeCommand(refs[idOnSrv])
    <3>1. refs[idOnSrv] \in Slot  BY <1>0 DEF SrvTypeOK, TypeOK
    <3>2. SrvNext  BY <2>1, <3>1 DEF SrvNext
    <3> QED  BY <3>2, <1>1
  <2>2. CASE Faulting("null_client_ents")
    <3>1. "null_client_ents" \in Faults  BY DEF Faults
    <3> QED  BY <2>2, <3>1, <1>0, <1>2
  <2> QED  BY <1>4, <2>1, <2>2 DEF Receive
<1>5. CASE UpdateAndRender
  <2>1. UpdateFault \in Faults  BY DEF UpdateFault, Faults
  <2> QED  BY <1>5, <2>1, <1>2 DEF UpdateAndRender
<1>6. CASE BootServer \/ BootLevel \/ BootActors \/ PauseCommand \/ InitCommand
           \/ ShutdownCommand \/ DisconnectCommand \/ QuitCommand
  <2>1. [SrvNext]_srvVars
    BY <1>6 DEF BootServer, BootLevel, BootActors, PauseCommand, InitCommand,
       ShutdownCommand, DisconnectCommand, QuitCommand, SrvNext
  <2> QED  BY <2>1, <1>1
<1>7. CASE SkipServer \/ RunServer \/ RunAIs \/ RunKillList \/ RunBroadcast \/ GameShutdown
           \/ UNCHANGED vars
  <2>1. [SrvNext]_srvVars
    BY <1>7 DEF SkipServer, RunServer, RunAIs, RunKillList, RunBroadcast, GameShutdown,
       vars, SrvNext
  <2> QED  BY <2>1, <1>1
<1> QED
  BY <1>3, <1>4, <1>5, <1>6, <1>7 DEF Next, Boot, Console, Frame, BootConnect, ConnectCommand

-----------------------------------------------------------------------------
\* What Follows is about.
drawVars == <<running, int, inert, brain, allCmds, queue, lost, gen, conn, entList, view,
              pcEnt, idOnSrv, connGen>>

LEMMA WorldTypes ==
  ASSUME SrvTypeOK, TypeOK
  PROVE  /\ Live \subseteq Ent /\ idOnSrv \in Slot
         /\ gen \in Nat /\ numClnts \in Nat /\ connGen \in Nat
         /\ allCmds \in Seq(Cmd) /\ queue \in [Slot -> Seq(Cmd)]
         /\ lost \in [Slot -> SUBSET Ent]
<1>1. ToSet(int) \subseteq Ent /\ ToSet(inert) \subseteq Ent
  BY Positions DEF SrvTypeOK
<1> QED  BY <1>1, CommandTypes, WorldServerAssumption, SMTT(30) DEF SrvTypeOK, TypeOK, Live

\* A slot with an attached client is its own reference; the server has started.
LEMMA AttachedSlot ==
  ASSUME SInv, TypeOK, Connection, Attached
  PROVE  /\ gen > 0 /\ idOnSrv \in Connected /\ idOnSrv < numClnts
         /\ refs[idOnSrv] = idOnSrv
<1>1. gen \in Nat /\ numClnts \in Nat /\ idOnSrv \in Slot
  BY WorldTypes DEF SInv, IInv
<1>2. gen > 0
  BY <1>1 DEF SInv, HasStarted, Attached
<1>3. idOnSrv < numClnts
  BY <1>2 DEF Connection, Attached
<1>4. idOnSrv \in 0..numClnts-1
  BY <1>1, <1>3, WorldServerAssumption DEF Slot
<1>5. refs[idOnSrv] = idOnSrv
  BY <1>4 DEF SInv, IInv, RefsAreSlots
<1> QED  BY <1>2, <1>3, <1>4, <1>5 DEF Connected

\* A command that has not been freed reaches a client of the present server.
LEMMA UnfreedIsMine ==
  ASSUME SInv, TypeOK, Connection, conn, MyCmds # << >>, ~Freed(Head(MyCmds))
  PROVE  /\ Attached /\ MyCmds = queue[idOnSrv] /\ refs[idOnSrv] = idOnSrv
         /\ Head(MyCmds) \in Cmd /\ Head(MyCmds).gen = gen
<1>1. idOnSrv \in Slot /\ refs[idOnSrv] \in Slot /\ gen \in Nat /\ connGen \in Nat
      /\ queue \in [Slot -> Seq(Cmd)]
  BY WorldTypes DEF SInv, IInv, SrvTypeOK
<1>2. /\ MyCmds \in Seq(Cmd) /\ Head(MyCmds) \in Cmd
      /\ Head(MyCmds) \in ToSet(queue[refs[idOnSrv]])
  BY <1>1, TailMembers DEF MyCmds
<1>3. running /\ Head(MyCmds).gen = gen
  BY DEF Freed
<1>4. connGen = gen
  <2> SUFFICES ASSUME connGen # gen PROVE FALSE
    OBVIOUS
  <2>1. numClnts = 0  BY DEF Connection
  <2>2. refs[idOnSrv] >= numClnts  BY <1>1, <2>1, WorldServerAssumption DEF Slot
  <2> QED  BY <1>1, <1>2, <1>3, <2>2 DEF SInv, CommandsAreDated
<1>5. Attached
  BY <1>3, <1>4 DEF Attached
<1> QED  BY <1>2, <1>3, <1>5, AttachedSlot DEF MyCmds

-----------------------------------------------------------------------------
LEMMA TypeStep ==
  ASSUME SInv, TypeOK, [Next]_vars, SInv'
  PROVE  TypeOK'
<1>0. /\ gen \in 0..MaxInits /\ gen \in Nat /\ Live \subseteq Ent /\ Live' \subseteq Ent
      /\ blank \in Seq(Ent)
  <2>1. ToSet(int') \subseteq Ent /\ ToSet(inert') \subseteq Ent
    BY Positions DEF SInv, IInv, SrvTypeOK
  <2> QED  BY <2>1, WorldTypes DEF SInv, IInv, SrvTypeOK, Live
<1>1. ASSUME ConnectLocal, phase' \in {"console"}, UNCHANGED quit
      PROVE  TypeOK'
  <2>1. CASE Disconnect
    BY <2>1, <1>1 DEF Disconnect, TypeOK
  <2>2. CASE conn' = (Live = {}) /\ entList' = FALSE /\ view' = {}
             /\ UNCHANGED <<pcEnt, idOnSrv, connGen>>
    BY <2>2, <1>1 DEF TypeOK
  <2>3. ASSUME NEW slot \in Slot, NEW loads \in CanLoad("jack"), conn' = TRUE,
               entList' = TRUE, view' = Live', pcEnt' = AddedEnt(loads), idOnSrv' = slot,
               connGen' = gen
        PROVE  TypeOK'
    <3>1. AddedEnt(loads) \in Ent \cup {NoEnt}
      BY <1>0, TailMembers DEF AddedEnt
    <3> QED  BY <2>3, <3>1, <1>0, <1>1 DEF TypeOK
  <2> QED  BY <1>1, <2>1, <2>2, <2>3 DEF ConnectLocal
<1>2. CASE BootConnect \/ ConnectCommand
  BY <1>1, <1>2 DEF BootConnect, ConnectCommand, Typed
<1>3. CASE Receive
  BY <1>3 DEF Receive, ClntRemoveEnt, cliVars, TypeOK
<1>4. CASE BootServer \/ BootLevel \/ BootActors \/ PauseCommand \/ InitCommand
           \/ ShutdownCommand \/ DisconnectCommand \/ QuitCommand
  BY <1>4 DEF BootServer, BootLevel, BootActors, PauseCommand, InitCommand,
     ShutdownCommand, DisconnectCommand, QuitCommand, cliVars, Disconnect, TypeOK
<1>5. CASE SkipServer \/ RunServer \/ RunAIs \/ RunKillList \/ RunBroadcast
           \/ GameShutdown \/ UpdateAndRender \/ UNCHANGED vars
  BY <1>5 DEF SkipServer, RunServer, RunAIs, RunKillList, RunBroadcast, GameShutdown,
     UpdateAndRender, vars, cliVars, Disconnect, TypeOK
<1> QED
  BY <1>2, <1>3, <1>4, <1>5 DEF Next, Boot, Console, Frame

LEMMA ConnectionStep ==
  ASSUME SInv, TypeOK, Connection, [Next]_vars
  PROVE  Connection'
<1>0. gen \in Nat /\ numClnts \in Nat /\ connGen \in Nat
  BY WorldTypes DEF SInv, IInv
<1> DEFINE Kept == UNCHANGED <<gen, numClnts, idOnSrv, connGen>>
<1>1. ASSUME Kept, ~Booting' \/ (conn' = conn /\ view' = view /\ Booting)
      PROVE  Connection'
  BY <1>1 DEF Connection
<1>2. ASSUME ConnectLocal, ~Booting'
      PROVE  Connection'
  <2>1. CASE Disconnect /\ UNCHANGED srvVars
    BY <1>1, <1>2, <2>1 DEF Disconnect, srvVars, slotVars
  <2>2. CASE Faulting(IF Live = {} THEN fault ELSE "null_client_ents")
             /\ UNCHANGED <<pcEnt, idOnSrv, connGen>>
    BY <1>1, <1>2, <2>2 DEF Faulting, slotVars
  <2>3. ASSUME NEW slot \in Slot, NEW loads \in CanLoad("jack"),
               AcceptLocalConnect(slot, loads), idOnSrv' = slot, connGen' = gen
        PROVE  Connection'
    <3>1. gen' = gen /\ numClnts' = numClnts + 1
      BY <2>3 DEF AcceptLocalConnect
    <3>2. slot = numClnts
      BY <2>3, NextSlot DEF AcceptLocalConnect, SInv, IInv
    <3> QED  BY <1>0, <1>2, <2>3, <3>1, <3>2 DEF Connection
  <2> QED  BY <1>2, <2>1, <2>2, <2>3 DEF ConnectLocal
<1>3. ASSUME InitServer, UNCHANGED <<idOnSrv, connGen, conn, view>>,
             ~Booting' \/ Booting
      PROVE  Connection'
  <2>1. gen' = gen + 1 /\ numClnts' = 0
    BY <1>3 DEF InitServer
  <2> QED  BY <1>0, <1>3, <2>1 DEF Connection
<1>4. CASE BootServer \/ InitCommand
  BY <1>3, <1>4 DEF BootServer, InitCommand, Booting, cliVars, Typed
<1>5. CASE BootConnect \/ ConnectCommand
  BY <1>2, <1>5 DEF BootConnect, ConnectCommand, Booting, Typed
<1>6. CASE BootLevel \/ BootActors
  BY <1>1, <1>6 DEF BootLevel, BootActors, LoadLevel, LoadActor, LevelLoaded, Booting,
     cliVars, srvVars, slotVars
<1>7. CASE PauseCommand \/ ShutdownCommand \/ DisconnectCommand \/ QuitCommand
  <2>1. Kept /\ ~Booting'
    BY <1>7 DEF PauseCommand, ShutdownCommand, DisconnectCommand, QuitCommand, TogglePause,
       Shutdown, Disconnect, Typed, Booting, cliVars, srvVars, slotVars
  <2> QED  BY <1>1, <2>1
<1>8. CASE SkipServer \/ RunServer \/ RunAIs \/ RunKillList \/ RunBroadcast
  <2>1. Kept /\ ~Booting'
    BY <1>8 DEF SkipServer, RunServer, StartFrame, RunAIs, RunAI, Simulate, RunKillList,
       Kill, RunBroadcast, Broadcast, Booting, cliVars, srvVars, slotVars
  <2> QED  BY <1>1, <2>1
<1>9. CASE Receive
  <2>1. ~Booting'  BY <1>9 DEF Receive, Booting
  <2>2. CASE TakeCommand(refs[idOnSrv])
    <3>1. Kept  BY <1>9, <2>2 DEF Receive, TakeCommand, ClntRemoveEnt, cliVars, slotVars
    <3> QED  BY <1>1, <2>1, <3>1
  <2>3. CASE Faulting("null_client_ents") /\ UNCHANGED cliVars
    <3>1. Kept  BY <2>3 DEF Faulting, cliVars, slotVars
    <3> QED  BY <1>1, <2>1, <3>1
  <2> QED  BY <1>9, <2>2, <2>3 DEF Receive
<1>10. CASE UpdateAndRender \/ GameShutdown
  <2>1. Kept /\ ~Booting'
    BY <1>10 DEF UpdateAndRender, GameShutdown, Faulting, Shutdown, Disconnect, Booting,
       cliVars, srvVars, slotVars
  <2> QED  BY <1>1, <2>1
<1>11. CASE UNCHANGED vars
  BY <1>11 DEF vars, cliVars, srvVars, slotVars, Connection, Booting
<1> QED
  BY <1>4, <1>5, <1>6, <1>7, <1>8, <1>9, <1>10, <1>11 DEF Next, Boot, Console, Frame

-----------------------------------------------------------------------------
LEMMA DrawsKept ==
  ASSUME Draws, UNCHANGED drawVars, fault' = "none" => fault = "none",
         fault' # "player_not_drawn"
  PROVE  Draws'
<1>1. PlayerInView'
  BY DEF Draws, PlayerInView, PlayerIsDrawn, drawVars
<1>2. Drawing' => Drawing
  BY DEF Drawing, Attached, drawVars
<1>3. Live' = Live /\ Pending(idOnSrv)' = Pending(idOnSrv)
  BY DEF Live, Pending, drawVars
<1>4. Drawing' => Follows'
  BY <1>2, <1>3 DEF Draws, Follows, drawVars
<1> QED  BY <1>1, <1>4 DEF Draws

LEMMA DrawsWhenAway ==
  ASSUME PlayerInView, fault' = "none" => fault = "none", fault' # "player_not_drawn",
         \/ UNCHANGED <<conn, entList, view, pcEnt>>
         \/ ~conn' \/ ~entList',
         ~Attached' \/ ~entList'
  PROVE  Draws'
BY DEF Draws, PlayerInView, PlayerIsDrawn, Drawing

\* No step of the server reports that the client draws no player.
LEMMA NotDrawnIsTheClients ==
  ASSUME fault # "player_not_drawn", [SrvNext]_srvVars
  PROVE  fault' # "player_not_drawn"
BY DEF SrvNext, InitServer, Shutdown, TogglePause, LoadLevel, LoadActor, LevelLoaded,
       AcceptLocalConnect, TakeCommand, StartFrame, RunAI, Simulate, Kill, Broadcast,
       srvVars

-----------------------------------------------------------------------------
LEMMA DrawsAccept ==
  ASSUME SInv, TypeOK, SInv', TypeOK', Draws,
         NEW slot \in Slot, NEW loads \in CanLoad("jack"),
         running, AcceptLocalConnect(slot, loads),
         conn', entList', view' = Live', pcEnt' = AddedEnt(loads), idOnSrv' = slot,
         connGen' = gen
  PROVE  Draws'
<1>1. /\ slot = numClnts /\ allCmds = << >> /\ blank \in Seq(Ent)
      /\ queue \in [Slot -> Seq(Cmd)] /\ brain \in [Ent -> AIs]
  BY NextSlot DEF AcceptLocalConnect, SInv, IInv, SrvTypeOK, CommandsAreDated, Idle
<1>2. UNCHANGED <<allCmds, queue, gen, fault>> /\ lost'[slot] = {}
  BY DEF AcceptLocalConnect, cmdVars, SInv, IInv, SrvTypeOK
<1>3. \A c \in ToSet(queue[slot]) : c.gen # gen
  BY <1>1, WorldServerAssumption DEF SInv, CommandsAreDated, Slot
<1>4. Pending(idOnSrv)' = {}
  <2>1. ToSet(<< >>) = {}  BY DEF ToSet
  <2> QED  BY <1>1, <1>2, <1>3, <2>1 DEF Pending
<1>5. Apart(allCmds, queue[idOnSrv], gen)'
  <2>1. /\ \A i \in 1..Len(<< >>) : FALSE
        /\ \A i \in 1..Len(queue[slot]) : queue[slot][i].gen # gen
    BY <1>1, <1>3, Positions
  <2> QED  BY <1>1, <1>2, <2>1 DEF Apart
<1>6. pcEnt' # NoEnt => pcEnt' \in Live' /\ brain'[pcEnt'] = "jack"
  <2> SUFFICES ASSUME pcEnt' # NoEnt
               PROVE  pcEnt' \in Live' /\ brain'[pcEnt'] = "jack"
    OBVIOUS
  <2>1. blank # << >> /\ loads /\ pcEnt' = Head(blank) /\ Head(blank) \in Ent
    BY <1>1, TailMembers DEF AddedEnt
  <2>2. AddEntity("jack", loads)
    BY DEF AcceptLocalConnect
  <2>3. /\ brain' = [brain EXCEPT ![Head(blank)] = "jack"]
        /\ int' = <<Head(blank)>> \o int
    BY <2>1, <2>2 DEF AddEntity, Class
  <2>4. Head(blank) \in ToSet(int')
    BY <2>1, <2>3, ConsMembers, SMTT(30) DEF SInv, IInv, SrvTypeOK
  <2> QED  BY <1>1, <2>1, <2>3, <2>4 DEF Live
<1>7. Follows'
  BY <1>4, <1>5, <1>6 DEF Follows
<1>8. PlayerInView'
  BY <1>2, <1>6 DEF Draws, PlayerInView, PlayerIsDrawn
<1> QED  BY <1>7, <1>8 DEF Draws

LEMMA DrawsConnect ==
  ASSUME SInv, TypeOK, SInv', TypeOK', Draws, ConnectLocal,
         fault' = "none" => fault = "none"
  PROVE  Draws'
<1>0. fault # "player_not_drawn" /\ PlayerInView
  BY DEF Draws, PlayerInView, PlayerIsDrawn
<1>1. CASE Disconnect /\ UNCHANGED srvVars
  <2>1. fault' # "player_not_drawn" /\ ~conn' /\ ~Attached'
    BY <1>0, <1>1 DEF srvVars, Disconnect, Attached
  <2> QED  BY <1>0, <2>1, DrawsWhenAway
<1>2. CASE ~entList' /\ Faulting(IF Live = {} THEN fault ELSE "null_client_ents")
  <2>1. fault' # "player_not_drawn"
    BY <1>0, <1>2 DEF Faulting
  <2> QED  BY <1>0, <1>2, <2>1, DrawsWhenAway
<1>3. CASE \E slot \in Slot, loads \in CanLoad("jack") :
             /\ running /\ AcceptLocalConnect(slot, loads)
             /\ conn' /\ entList' /\ view' = Live' /\ pcEnt' = AddedEnt(loads)
             /\ idOnSrv' = slot /\ connGen' = gen
  BY <1>3, DrawsAccept
<1> QED  BY <1>1, <1>2, <1>3 DEF ConnectLocal

-----------------------------------------------------------------------------
\* What RemoveEnt does to the world.
LEMMA KillRemoves ==
  ASSUME SInv, Kill
  PROVE  /\ Head(killList) \in Live /\ Head(killList) \in Ent
         /\ Live' = Live \ {Head(killList)}
         /\ brain' = brain /\ brain[Head(killList)] = "blaine"
<1> DEFINE e == Head(killList)
<1>1. /\ Members(blank, int, inert) /\ killList \in Seq(Ent) /\ killList # << >>
      /\ \A d \in ToSet(int) : flag[d] = "int"
  BY ListsByMembers DEF SInv, IInv, SrvTypeOK, Kill
<1>2. e \in Ent /\ e \in ToSet(killList) /\ e \in ToSet(int)
  BY <1>1, TailMembers DEF SInv, IInv, KillListIsLive
<1>3. int' = Without(int, e) /\ inert' = inert /\ brain' = brain
  BY <1>1, <1>2 DEF Kill, RemoveEnt, Unlist
<1> HIDE DEF e
<1>4. ToSet(int') = ToSet(int) \ {e}
  <2> DEFINE k == CHOOSE i \in DOMAIN int : int[i] = e
  <2>1. \E i \in DOMAIN int : int[i] = e
    BY <1>1, <1>2, Positions DEF Members
  <2>2. k \in 1..Len(int) /\ int[k] = e
    BY <1>1, <2>1, Positions DEF Members
  <2>3. int' = RemoveAt(int, k)
    BY <1>3 DEF Without
  <2> HIDE DEF k
  <2> QED  BY <1>1, <2>2, <2>3, RemoveAtMembers DEF Members
<1>5. Live' = Live \ {e}
  BY <1>1, <1>2, <1>3, <1>4 DEF Live, Members
<1> QED  BY <1>2, <1>3, <1>5 DEF Live, SInv, KilledAreBlaines, e

LEMMA DrawsKill ==
  ASSUME SInv, TypeOK, Connection, Draws, Kill, UNCHANGED cliVars
  PROVE  Draws'
<1> DEFINE e == Head(killList)
           c == [ent |-> e, gen |-> gen]
<1>1. /\ e \in Live /\ e \in Ent /\ Live' = Live \ {e}
      /\ brain' = brain /\ brain[e] = "blaine"
  BY KillRemoves
<1>2. UNCHANGED <<running, gen, fault, conn, entList, view, pcEnt, idOnSrv, connGen>>
  BY DEF Kill, cliVars
<1>3. PlayerInView' /\ (Drawing' => Drawing)
  BY <1>2 DEF Draws, PlayerInView, PlayerIsDrawn, Drawing, Attached
<1> SUFFICES ASSUME Drawing PROVE Follows'
  BY <1>3 DEF Draws
<1>4. /\ Follows /\ idOnSrv \in Connected /\ idOnSrv \in Slot
      /\ lost \in [Slot -> SUBSET Ent] /\ gen \in Nat
      /\ allCmds \in Seq(Cmd) /\ queue \in [Slot -> Seq(Cmd)]
  BY AttachedSlot, WorldTypes DEF Draws, Drawing, SInv, IInv
<1>5. e \notin Pending(idOnSrv) /\ e \in view
  BY <1>1, <1>4 DEF Follows
<1>6. pcEnt' # NoEnt => pcEnt' \in Live' /\ brain'[pcEnt'] = "jack"
  BY <1>1, <1>2, <1>4 DEF Follows
<1>7. SendDestroy(e)
  BY DEF Kill, RemoveEnt
<1> HIDE DEF e
<1>8. CASE UNCHANGED cmdVars /\ lost'[idOnSrv] = lost[idOnSrv] \cup {e}
  <2>1. Pending(idOnSrv)' = Pending(idOnSrv)
    BY <1>2, <1>8 DEF Pending, cmdVars
  <2>2. Apart(allCmds, queue[idOnSrv], gen)'
    BY <1>2, <1>4, <1>8 DEF Follows, cmdVars
  <2> QED  BY <1>1, <1>2, <1>4, <1>5, <1>6, <1>8, <2>1, <2>2 DEF Follows
<1>9. CASE allCmds' = <<c>> \o allCmds /\ UNCHANGED <<queue, lost>>
  <2>1. c \in Cmd /\ c.ent = e /\ c.gen = gen
    <3>1. gen > 0  BY AttachedSlot DEF Drawing
    <3>2. gen \in 1..MaxInits
      BY <3>1, WorldServerAssumption DEF SInv, IInv, SrvTypeOK
    <3> QED  BY <1>1, <3>2 DEF Cmd
  <2> HIDE DEF c
  <2>2. ToSet(allCmds') = {c} \cup ToSet(allCmds)
    BY <1>4, <1>9, <2>1, ConsMembers
  <2>3. Pending(idOnSrv)' = {e} \cup Pending(idOnSrv)
    BY <1>2, <1>9, <2>1, <2>2 DEF Pending
  <2>4. /\ \A d \in ToSet(allCmds) : d.ent # e
        /\ \A d \in ToSet(queue[idOnSrv]) : d.gen = gen => d.ent # e
    BY <1>5 DEF Pending, SInv, CommandsAreDated
  <2>5. Apart(allCmds', queue[idOnSrv], gen)
    BY <1>4, <1>9, <2>1, <2>4, ApartPush DEF Follows
  <2>6. Apart(allCmds, queue[idOnSrv], gen)'
    BY <1>2, <1>9, <2>5
  <2> QED  BY <1>1, <1>2, <1>4, <1>5, <1>6, <1>9, <2>3, <2>6 DEF Follows
<1>10. \/ UNCHANGED cmdVars /\ lost'[idOnSrv] = lost[idOnSrv] \cup {e}
       \/ allCmds' = <<c>> \o allCmds /\ UNCHANGED <<queue, lost>>
  BY <1>4, <1>7 DEF SendDestroy
<1> QED  BY <1>8, <1>9, <1>10

LEMMA DrawsBroadcast ==
  ASSUME SInv, TypeOK, Connection, Draws, Broadcast, UNCHANGED cliVars
  PROVE  Draws'
<1>1. UNCHANGED <<running, gen, fault, conn, entList, view, pcEnt, idOnSrv, connGen,
                  int, inert, brain>>
  BY DEF Broadcast, cliVars, entVars
<1>2. PlayerInView' /\ (Drawing' => Drawing)
  BY <1>1 DEF Draws, PlayerInView, PlayerIsDrawn, Drawing, Attached
<1> SUFFICES ASSUME Drawing PROVE Follows'
  BY <1>2 DEF Draws
<1>3. /\ Follows /\ idOnSrv \in Connected /\ idOnSrv \in Slot /\ SrvTypeOK /\ RefsAreSlots
      /\ allCmds \in Seq(Cmd) /\ queue \in [Slot -> Seq(Cmd)]
  BY AttachedSlot, WorldTypes DEF Draws, Drawing, SInv, IInv
<1> DEFINE a == allCmds
           q == queue[idOnSrv]
           k == Len(allCmds)
<1>4. PICK n \in 0..k :
        /\ SubSeq(a, 1, n) \in Seq(Cmd) /\ Len(SubSeq(a, 1, n)) = n
        /\ \A i \in 1..n : SubSeq(a, 1, n)[i] = a[i]
        /\ queue'[idOnSrv] = Reverse(SubSeq(a, 1, n)) \o q
        /\ lost'[idOnSrv] = lost[idOnSrv] \cup {a[i].ent : i \in n+1..k}
  BY <1>3, BroadcastSends
<1> DEFINE u == SubSeq(a, 1, n)
<1>5. u \in Seq(Cmd) /\ Len(u) = n /\ \A i \in 1..n : u[i] = a[i]
  BY <1>4
<1>6. queue'[idOnSrv] = Reverse(u) \o q
  BY <1>4
<1>7. allCmds' = << >>
  BY DEF Broadcast
<1> HIDE DEF u
<1>8. k \in Nat /\ n <= k /\ n \in Nat /\ q \in Seq(Cmd)
  BY <1>3, Positions
<1>9. Apart(allCmds, queue[idOnSrv], gen)'
  <2>1. Apart(<< >>, Reverse(u) \o q, gen)
    BY <1>3, <1>5, <1>8, ApartSend DEF Follows
  <2> QED  BY <1>1, <1>6, <1>7, <2>1
<1>10. ToSet(u) = {a[i] : i \in 1..n} /\ ToSet(a) = {a[i] : i \in 1..k}
  <2>1. ToSet(u) = {u[i] : i \in 1..n}  BY <1>5, Positions
  <2>2. ToSet(a) = {a[i] : i \in 1..k}  BY <1>3, Positions
  <2> QED  BY <2>1, <2>2, <1>5
<1>11. ToSet(queue'[idOnSrv]) = ToSet(u) \cup ToSet(q)
  BY <1>5, <1>6, <1>8, ReverseMembers, ConcatMembers
<1>12. ToSet(allCmds') = {}
  BY <1>7 DEF ToSet
<1>13. \A i \in 1..k : a[i].gen = gen
  BY <1>10 DEF SInv, CommandsAreDated
<1> HIDE DEF a, q, k
<1>14. Pending(idOnSrv)' = {c.ent : c \in {d \in ToSet(u) \cup ToSet(q) : d.gen = gen}}
  BY <1>1, <1>11, <1>12 DEF Pending
<1>15. Pending(idOnSrv) = {c.ent : c \in {d \in ToSet(a) \cup ToSet(q) : d.gen = gen}}
  BY DEF Pending, a, q
<1>16. \A i \in 1..n : i \in 1..k
  BY <1>8
<1>17. Pending(idOnSrv)' \subseteq Pending(idOnSrv)
  BY <1>10, <1>14, <1>15, <1>16
<1>18. Pending(idOnSrv) \subseteq Pending(idOnSrv)' \cup {a[i].ent : i \in n+1..k}
  <2> SUFFICES ASSUME NEW c \in ToSet(a) \cup ToSet(q), c.gen = gen
               PROVE  c.ent \in Pending(idOnSrv)' \cup {a[i].ent : i \in n+1..k}
    BY <1>15
  <2>1. CASE c \in ToSet(q)  BY <1>14, <2>1
  <2>2. CASE c \in ToSet(a)
    <3>1. PICK i \in 1..k : c = a[i]  BY <1>10, <2>2
    <3>2. i \in 1..n \/ i \in n+1..k  BY <1>8
    <3> QED  BY <1>10, <1>14, <3>1, <3>2
  <2> QED  BY <2>1, <2>2
<1>19. Live' = Live /\ lost'[idOnSrv] = lost[idOnSrv] \cup {a[i].ent : i \in n+1..k}
  BY <1>1, <1>4 DEF Live, a, k
<1> QED  BY <1>1, <1>3, <1>9, <1>17, <1>18, <1>19 DEF Follows

-----------------------------------------------------------------------------
\* A command the client takes: its entity has left the world, is drawn, and is
\* not the player's.
LEMMA TakenIsGone ==
  ASSUME SInv, TypeOK, Connection, Draws, Receive, entList, ~Freed(Head(MyCmds))
  PROVE  /\ Drawing /\ MyCmds = queue[idOnSrv] /\ refs[idOnSrv] = idOnSrv
         /\ queue[idOnSrv] \in Seq(Cmd) /\ queue[idOnSrv] # << >>
         /\ Head(MyCmds) \in Cmd /\ Head(MyCmds).gen = gen
         /\ Head(MyCmds).ent \in view \ Live
         /\ Head(MyCmds).ent \in Ent
         /\ Head(MyCmds).ent # pcEnt
<1> DEFINE c == Head(MyCmds)
<1>1. /\ Attached /\ MyCmds = queue[idOnSrv] /\ refs[idOnSrv] = idOnSrv
      /\ c \in Cmd /\ c.gen = gen /\ MyCmds # << >>
  BY UnfreedIsMine DEF Receive
<1>2. Drawing /\ Follows /\ idOnSrv \in Slot /\ queue[idOnSrv] \in Seq(Cmd)
  BY <1>1, WorldTypes DEF Receive, Drawing, Draws, SInv, IInv
<1>3. c \in ToSet(queue[idOnSrv])
  BY <1>1, <1>2, TailMembers
<1> HIDE DEF c
<1>4. c.ent \in Pending(idOnSrv) /\ c.ent \in Ent
  BY <1>1, <1>3 DEF Pending, Cmd
<1>5. c.ent \in view \ Live /\ c.ent # pcEnt
  BY <1>2, <1>4, WorldServerAssumption DEF Follows, Ent, NoEnt
<1> QED  BY <1>1, <1>2, <1>4, <1>5 DEF c

LEMMA DrawsReceive ==
  ASSUME SInv, TypeOK, Connection, Draws, Receive
  PROVE  Draws'
<1>0. fault = "none" /\ PlayerInView /\ MyCmds # << >>
  BY DEF Receive, Draws
<1>1. CASE Faulting("null_client_ents") /\ UNCHANGED cliVars /\ ~entList
  <2>1. fault' # "none" /\ fault' # "player_not_drawn" /\ ~entList'
    BY <1>1 DEF Faulting, cliVars
  <2> QED  BY <1>0, <2>1, DrawsWhenAway
<1>2. CASE TakeCommand(refs[idOnSrv]) /\ Freed(Head(MyCmds))
  <2>1. fault' = "freed_command"
    BY <1>2 DEF TakeCommand, MyCmds
  <2> QED  BY <2>1 DEF Draws, PlayerInView, PlayerIsDrawn, Drawing
<1>3. CASE TakeCommand(refs[idOnSrv]) /\ ~Freed(Head(MyCmds)) /\ entList
           /\ ClntRemoveEnt(Head(MyCmds).ent)
  <2> DEFINE c == Head(MyCmds)
             q == queue[idOnSrv]
  <2>1. /\ Drawing /\ refs[idOnSrv] = idOnSrv /\ MyCmds = q
        /\ q \in Seq(Cmd) /\ q # << >> /\ c = Head(q) /\ c.gen = gen
        /\ c.ent \in view \ Live /\ c.ent # pcEnt
    BY <1>3, TakenIsGone
  <2>2. /\ UNCHANGED <<running, gen, fault, conn, entList, pcEnt, idOnSrv, connGen,
                       int, inert, brain, allCmds, lost>>
        /\ queue' = [queue EXCEPT ![idOnSrv] = Tail(@)]
        /\ view' = view \ {c.ent}
    BY <1>3, <2>1 DEF TakeCommand, ClntRemoveEnt, entVars, MyCmds
  <2>3. queue'[idOnSrv] = Tail(q)
    BY <2>2, WorldTypes DEF SInv, IInv
  <2>4. Follows /\ allCmds \in Seq(Cmd)
    BY <2>1, WorldTypes DEF Draws, SInv, IInv
  <2>5. PlayerInView'
    BY <1>0, <2>1, <2>2 DEF PlayerInView, PlayerIsDrawn
  <2>6. ToSet(q) = {c} \cup ToSet(Tail(q))
    BY <2>1, TailMembers
  <2>7. /\ Apart(allCmds, Tail(q), gen)
        /\ \A d \in ToSet(allCmds) : d.ent # c.ent
        /\ \A d \in ToSet(Tail(q)) : d.gen = gen => d.ent # c.ent
    BY <2>1, <2>4, ApartPop DEF Follows
  <2>8. Apart(allCmds, queue[idOnSrv], gen)'
    BY <2>2, <2>3, <2>7
  <2> HIDE DEF c, q
  <2>9. Pending(idOnSrv)' = Pending(idOnSrv) \ {c.ent}
    <3>1. Pending(idOnSrv)' =
            {b.ent : b \in {d \in ToSet(allCmds) \cup ToSet(Tail(q)) : d.gen = gen}}
      BY <2>2, <2>3 DEF Pending
    <3>2. Pending(idOnSrv) =
            {b.ent : b \in {d \in ToSet(allCmds) \cup {c} \cup ToSet(Tail(q)) : d.gen = gen}}
      BY <2>6 DEF Pending, q
    <3> QED  BY <2>1, <2>7, <3>1, <3>2
  <2>10. Live' = Live
    BY <2>2 DEF Live
  <2>11. Follows'
    BY <2>1, <2>2, <2>4, <2>8, <2>9, <2>10 DEF Follows
  <2> QED  BY <2>5, <2>11 DEF Draws
<1> QED  BY <1>1, <1>2, <1>3 DEF Receive

LEMMA DrawsUpdate ==
  ASSUME Draws, UpdateAndRender
  PROVE  Draws'
<1>1. UNCHANGED drawVars /\ fault = "none" /\ fault' = UpdateFault
  BY DEF UpdateAndRender, Faulting, drawVars, entVars, cmdVars, cliVars
<1>2. fault' # "player_not_drawn"
  BY <1>1 DEF UpdateFault, Draws, PlayerInView
<1> QED  BY <1>1, <1>2, DrawsKept

LEMMA DrawsStep ==
  ASSUME SInv, TypeOK, Connection, Draws, [Next]_vars
  PROVE  Draws'
<1>0. /\ fault # "player_not_drawn" /\ PlayerInView
      /\ SInv' /\ TypeOK' /\ (fault' = "none" => fault = "none")
  BY ServerOrFault, TypeStep DEF Draws, PlayerInView, PlayerIsDrawn
<1>1. CASE BootServer \/ InitCommand
  <2>1. InitServer /\ UNCHANGED cliVars
    BY <1>1 DEF BootServer, InitCommand
  <2>2. gen' = gen + 1 /\ UNCHANGED <<conn, entList, view, pcEnt, connGen>>
    BY <2>1 DEF InitServer, cliVars
  <2>3. ~Attached'
    BY <2>2, WorldTypes DEF Attached, Connection, SInv, IInv
  <2>4. fault' # "player_not_drawn"
    BY <2>1 DEF InitServer
  <2> QED  BY <1>0, <2>2, <2>3, <2>4, DrawsWhenAway
<1>2. CASE BootLevel \/ BootActors
  <2>1. [SrvNext]_srvVars /\ UNCHANGED cliVars /\ ~conn
    BY <1>2 DEF BootLevel, BootActors, SrvNext, Connection, Booting
  <2>2. ~Attached' /\ UNCHANGED <<conn, entList, view, pcEnt>>
    BY <2>1 DEF cliVars, Attached
  <2>3. fault' # "player_not_drawn"
    BY <1>0, <2>1, NotDrawnIsTheClients
  <2> QED  BY <1>0, <2>2, <2>3, DrawsWhenAway
<1>3. CASE BootConnect \/ ConnectCommand
  <2>1. ConnectLocal  BY <1>3 DEF BootConnect, ConnectCommand
  <2> QED  BY <1>0, <2>1, DrawsConnect
<1>4. CASE PauseCommand \/ QuitCommand \/ SkipServer \/ RunServer \/ RunAIs \/ UNCHANGED vars
  <2>1. UNCHANGED drawVars
    BY <1>4 DEF PauseCommand, TogglePause, QuitCommand, SkipServer, RunServer, StartFrame,
       RunAIs, RunAI, Simulate, vars, srvVars, cliVars, entVars, cmdVars, drawVars
  <2>2. [SrvNext]_srvVars
    BY <1>4 DEF PauseCommand, QuitCommand, SkipServer, RunServer, RunAIs, vars, SrvNext
  <2> QED  BY <1>0, <2>1, <2>2, DrawsKept, NotDrawnIsTheClients
<1>5. CASE ShutdownCommand
  <2>1. Shutdown /\ UNCHANGED cliVars  BY <1>5 DEF ShutdownCommand
  <2>2. /\ ~Attached' /\ fault' = fault /\ UNCHANGED <<conn, entList, view, pcEnt>>
    BY <2>1 DEF Shutdown, Attached, cliVars
  <2> QED  BY <1>0, <2>2, DrawsWhenAway
<1>6. CASE DisconnectCommand \/ GameShutdown
  <2>1. ~conn' /\ fault' = fault
    BY <1>6 DEF DisconnectCommand, GameShutdown, Disconnect, Shutdown, srvVars
  <2>2. ~Attached'
    BY <2>1 DEF Attached
  <2> QED  BY <1>0, <2>1, <2>2, DrawsWhenAway
<1>7. CASE RunKillList
  BY <1>7, DrawsKill DEF RunKillList
<1>8. CASE RunBroadcast
  BY <1>8, DrawsBroadcast DEF RunBroadcast
<1>9. CASE Receive
  BY <1>9, DrawsReceive
<1>10. CASE UpdateAndRender
  BY <1>10, DrawsUpdate
<1> QED
  BY <1>1, <1>2, <1>3, <1>4, <1>5, <1>6, <1>7, <1>8, <1>9, <1>10
  DEF Next, Boot, Console, Frame

-----------------------------------------------------------------------------
LEMMA WorldInit == Init => WorldInv
<1> SUFFICES ASSUME Init PROVE WorldInv
  OBVIOUS
<1>1. SInv
  BY ServerInit DEF Init
<1>2. TypeOK
  <2>1. 0 \in Slot /\ 0 \in 0..MaxInits
    BY WorldServerAssumption DEF Slot
  <2> QED  BY <2>1 DEF Init, TypeOK
<1>3. Connection
  BY DEF Init, SrvInit, Connection
<1>4. Draws
  BY DEF Init, SrvInit, Draws, PlayerInView, PlayerIsDrawn, Drawing, Attached
<1> QED  BY <1>1, <1>2, <1>3, <1>4 DEF WorldInv

LEMMA WorldStep ==
  ASSUME WorldInv, [Next]_vars
  PROVE  WorldInv'
BY ServerOrFault, TypeStep, ConnectionStep, DrawsStep DEF WorldInv

LEMMA WorldInvariance == Spec => []WorldInv
<1>1. WorldInv /\ [Next]_vars => WorldInv'
  BY WorldStep
<1> QED  BY <1>1, WorldInit, PTL DEF Spec

\* A client attached to the running server draws every entity of the world, and
\* draws one that has left it only while the command that says so is under way
\* or was lost; no command under way names an entity of the world.
THEOREM ClientLagsWorld == Spec => []ViewLagsWorld
<1>1. WorldInv => ViewLagsWorld
  BY DEF WorldInv, Draws, Follows, Drawing, ViewLagsWorld
<1> QED  BY <1>1, WorldInvariance, PTL

\* The unchecked deletion in the client's RemoveEnt always finds the entity, and
\* never a second time.
THEOREM DestroysReachTheDrawn == Spec => []DestroysAreOfDrawn
<1>1. WorldInv => DestroysAreOfDrawn
  BY DrawnByLists DEF WorldInv, Draws, SInv, IInv
<1> QED  BY <1>1, WorldInvariance, PTL

\* The unchecked use of the player's entity by Update and Render is of one the
\* client draws.
THEOREM PlayerStaysDrawn == Spec => []PlayerIsDrawn
<1>1. WorldInv => PlayerIsDrawn
  BY DEF WorldInv, Draws, PlayerInView
<1> QED  BY <1>1, WorldInvariance, PTL

\* What holds of the server alone holds of it in the game, where the client
\* reads its memory and the console starts and stops it under the client.
THEOREM ServerSoundInWorld ==
  Spec => [](/\ SrvTypeOK /\ EntityLists /\ KillListIsLive
             /\ RefsAreSlots /\ CommandsConserved)
<1>1. WorldInv => /\ SrvTypeOK /\ EntityLists /\ KillListIsLive
                  /\ RefsAreSlots /\ CommandsConserved
  BY DEF WorldInv, SInv, IInv, PoolIsWhole, CommandsAreDated, CommandsConserved
<1> QED  BY <1>1, WorldInvariance, PTL

-----------------------------------------------------------------------------
(* The client's view is a replica of the world.                            *)

RNext == [Replicated!Next]_(Replicated!vars)

LEMMA ReplicaSteps ==
  /\ Live' = Live /\ view' = view => RNext
  /\ view = {} /\ view' = view /\ (\E e \in Ent : Live' = Live \cup {e}) => RNext
  /\ view' = Live' /\ (Live' = Live \/ \E e \in Ent : Live' = Live \cup {e}) => RNext
  /\ (\E e \in Ent : Live' = Live \ {e}) /\ view' = view => RNext
  /\ Live' = {} /\ (view' = {} \/ view' = view) => RNext
  /\ Live' = Live /\ (\E e \in Ent : e \in view \ Live /\ view' = view \ {e}) => RNext
  /\ Live' = Live /\ view' = {} => RNext
<1>1. CASE view' = Live' /\ Live' = Live
  <2>1. Replicated!Join({})  BY <1>1 DEF Replicated!Join
  <2> QED  BY <2>1 DEF RNext, Replicated!Next
<1>2. CASE view' = Live' /\ \E e \in Ent : Live' = Live \cup {e}
  BY <1>2 DEF RNext, Replicated!Next, Replicated!Join
<1>3. CASE view = {} /\ view' = view /\ (\E e \in Ent : Live' = Live \cup {e})
  BY <1>3 DEF RNext, Replicated!Next, Replicated!Load
<1>4. CASE (\E e \in Ent : Live' = Live \ {e}) /\ view' = view
  BY <1>4 DEF RNext, Replicated!Next, Replicated!Leave
<1>5. CASE Live' = {} /\ (view' = {} \/ view' = view)
  BY <1>5 DEF RNext, Replicated!Next, Replicated!Restart
<1>6. CASE Live' = Live /\ (\E e \in Ent : e \in view \ Live /\ view' = view \ {e})
  BY <1>6 DEF RNext, Replicated!Next, Replicated!Drop
<1>7. CASE Live' = Live /\ view' = {}
  BY <1>7 DEF RNext, Replicated!Next, Replicated!Disconnect
<1>8. CASE Live' = Live /\ view' = view
  BY <1>8 DEF RNext, Replicated!vars
<1> QED  BY <1>1, <1>2, <1>3, <1>4, <1>5, <1>6, <1>7, <1>8

LEMMA EmptyWorld ==
  ASSUME int' = << >>, inert' = << >>
  PROVE  Live' = {}
BY DEF Live, ToSet

\* AddEntity adds at most one entity to the world.
LEMMA AddsOne ==
  ASSUME SInv, NEW ai \in AIs, NEW loads \in BOOLEAN, AddEntity(ai, loads)
  PROVE  Live' = Live \/ \E e \in Ent : Live' = Live \cup {e}
<1>0. blank \in Seq(Ent) /\ int \in Seq(Ent) /\ inert \in Seq(Ent)
  BY DEF SInv, IInv, SrvTypeOK
<1>1. CASE int' = int /\ inert' = inert
  BY <1>1 DEF Live
<1>2. CASE blank # << >> /\ int' = <<Head(blank)>> \o int /\ inert' = inert
  <2>1. Head(blank) \in Ent  BY <1>0, <1>2, TailMembers
  <2>2. ToSet(int') = {Head(blank)} \cup ToSet(int)  BY <1>0, <1>2, <2>1, ConsMembers
  <2>3. Live' = Live \cup {Head(blank)}  BY <1>2, <2>2 DEF Live
  <2> QED  BY <2>1, <2>3
<1>3. CASE blank # << >> /\ inert' = <<Head(blank)>> \o inert /\ int' = int
  <2>1. Head(blank) \in Ent  BY <1>0, <1>3, TailMembers
  <2>2. ToSet(inert') = {Head(blank)} \cup ToSet(inert)  BY <1>0, <1>3, <2>1, ConsMembers
  <2>3. Live' = Live \cup {Head(blank)}  BY <1>3, <2>2 DEF Live
  <2> QED  BY <2>1, <2>3
<1> QED  BY <1>1, <1>2, <1>3 DEF AddEntity, entVars

LEMMA ReplicaStep ==
  ASSUME WorldInv, [Next]_vars
  PROVE  RNext
<1>1. CASE BootServer \/ InitCommand \/ ShutdownCommand
  <2>1. int' = << >> /\ inert' = << >> /\ view' = view
    BY <1>1 DEF BootServer, InitCommand, ShutdownCommand, InitServer, InitEnts, Shutdown,
       DestroyEnts, cliVars
  <2> QED  BY <2>1, EmptyWorld, ReplicaSteps
<1>2. CASE BootLevel
  <2>1. CASE LoadLevel
    <3>1. int' = << >> /\ inert' = << >> /\ view' = view
      BY <1>2, <2>1 DEF BootLevel, LoadLevel, ClearEnts, cliVars
    <3> QED  BY <3>1, EmptyWorld, ReplicaSteps
  <2>2. CASE UNCHANGED srvVars
    <3>1. Live' = Live /\ view' = view
      BY <1>2, <2>2 DEF BootLevel, cliVars, srvVars, entVars, Live
    <3> QED  BY <3>1, ReplicaSteps
  <2> QED  BY <1>2, <2>1, <2>2 DEF BootLevel
<1>3. CASE BootActors
  <2>1. view = {} /\ view' = view
    BY <1>3 DEF BootActors, WorldInv, Connection, Booting, cliVars
  <2>2. CASE LoadActor
    <3>1. PICK loads \in CanLoad(Head(todo)) : AddEntity(Head(todo), loads)
      BY <2>2 DEF LoadActor
    <3>2. Head(todo) \in AIs /\ loads \in BOOLEAN
      BY <2>2, HeadTailProperties DEF LoadActor, WorldInv, SInv, IInv, SrvTypeOK, CanLoad
    <3>3. Live' = Live \/ \E e \in Ent : Live' = Live \cup {e}
      BY <3>1, <3>2, AddsOne DEF WorldInv
    <3> QED  BY <2>1, <3>3, ReplicaSteps
  <2>3. CASE LevelLoaded
    <3>1. Live' = Live
      BY <2>3 DEF LevelLoaded, entVars, Live
    <3> QED  BY <2>1, <3>1, ReplicaSteps
  <2> QED  BY <1>3, <2>2, <2>3 DEF BootActors
<1>4. CASE BootConnect \/ ConnectCommand
  <2>0. ConnectLocal
    BY <1>4 DEF BootConnect, ConnectCommand
  <2>1. CASE Disconnect /\ UNCHANGED srvVars
    <3>1. Live' = Live /\ view' = {}
      BY <2>1 DEF Disconnect, srvVars, entVars, Live
    <3> QED  BY <3>1, ReplicaSteps
  <2>2. CASE view' = {} /\ Faulting(IF Live = {} THEN fault ELSE "null_client_ents")
    <3>1. Live' = Live /\ view' = {}
      BY <2>2 DEF Faulting, entVars, Live
    <3> QED  BY <3>1, ReplicaSteps
  <2>3. ASSUME NEW slot \in Slot, NEW loads \in CanLoad("jack"),
               AcceptLocalConnect(slot, loads), view' = Live'
        PROVE  RNext
    <3>1. AddEntity("jack", loads) /\ "jack" \in AIs /\ loads \in BOOLEAN
      BY <2>3 DEF AcceptLocalConnect, AIs, CanLoad
    <3>2. Live' = Live \/ \E e \in Ent : Live' = Live \cup {e}
      BY <3>1, AddsOne DEF WorldInv
    <3> QED  BY <2>3, <3>2, ReplicaSteps
  <2> QED  BY <2>0, <2>1, <2>2, <2>3 DEF ConnectLocal
<1>5. CASE DisconnectCommand
  <2>1. Live' = Live /\ view' = {}
    BY <1>5 DEF DisconnectCommand, Disconnect, srvVars, entVars, Live
  <2> QED  BY <2>1, ReplicaSteps
<1>6. CASE PauseCommand \/ QuitCommand \/ SkipServer \/ RunServer \/ RunAIs
           \/ RunBroadcast \/ UpdateAndRender \/ UNCHANGED vars
  <2>1. Live' = Live /\ view' = view
    BY <1>6 DEF PauseCommand, TogglePause, QuitCommand, SkipServer, RunServer, StartFrame,
       RunAIs, RunAI, Simulate, RunBroadcast, Broadcast, UpdateAndRender, Faulting,
       vars, srvVars, cliVars, entVars, Live
  <2> QED  BY <2>1, ReplicaSteps
<1>7. CASE RunKillList
  <2>1. Live' = Live \ {Head(killList)} /\ Head(killList) \in Ent /\ view' = view
    BY <1>7, KillRemoves DEF RunKillList, WorldInv, cliVars
  <2> QED  BY <2>1, ReplicaSteps
<1>8. CASE Receive
  <2>1. Live' = Live
    BY <1>8 DEF Receive, TakeCommand, Faulting, entVars, Live
  <2>2. CASE UNCHANGED cliVars
    BY <2>1, <2>2, ReplicaSteps DEF cliVars
  <2>3. CASE entList /\ ~Freed(Head(MyCmds)) /\ ClntRemoveEnt(Head(MyCmds).ent)
    <3>1. Head(MyCmds).ent \in view \ Live /\ Head(MyCmds).ent \in Ent
      BY <1>8, <2>3, TakenIsGone DEF WorldInv
    <3>2. view' = view \ {Head(MyCmds).ent}
      BY <2>3 DEF ClntRemoveEnt
    <3> QED  BY <2>1, <3>1, <3>2, ReplicaSteps
  <2> QED  BY <1>8, <2>2, <2>3 DEF Receive
<1>9. CASE GameShutdown
  <2>1. view' = {}
    BY <1>9 DEF GameShutdown, Disconnect
  <2>2. CASE Shutdown
    <3>1. int' = << >> /\ inert' = << >>
      BY <2>2 DEF Shutdown, DestroyEnts
    <3> QED  BY <2>1, <3>1, EmptyWorld, ReplicaSteps
  <2>3. CASE UNCHANGED srvVars
    <3>1. Live' = Live  BY <2>3 DEF srvVars, entVars, Live
    <3> QED  BY <2>1, <3>1, ReplicaSteps
  <2> QED  BY <1>9, <2>2, <2>3 DEF GameShutdown
<1> QED
  BY <1>1, <1>2, <1>3, <1>4, <1>5, <1>6, <1>7, <1>8, <1>9 DEF Next, Boot, Console, Frame

\* Connecting, loading, killing, broadcasting, receiving, starting anew and
\* quitting are, for the world and the view of it, steps of Replica.
THEOREM ViewRefinesReplica == Spec => ViewIsReplica
<1>1. Init => Replicated!Init
  BY DEF Init, SrvInit, Replicated!Init, Live, ToSet
<1>2. WorldInv /\ [Next]_vars => [Replicated!Next]_(Replicated!vars)
  BY ReplicaStep DEF RNext
<1> QED  BY <1>1, <1>2, WorldInvariance, PTL DEF Spec, ViewIsReplica, Replicated!Spec
=============================================================================
