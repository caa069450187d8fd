------------------------------ MODULE Replica -------------------------------
(***************************************************************************)
(* What the world server and its client promise together: the entities the *)
(* client draws are a copy of the entities in the world, taken when the    *)
(* client connects, that lags behind it.  Entities join the world only     *)
(* when a client is there to take its copy or none is connected, since no  *)
(* command tells a client of a new one; they leave it at any time; and the *)
(* client drops an entity only when it has left the world.                 *)
(***************************************************************************)
CONSTANT Ent

VARIABLES
  live,  \* the entities in the world
  view   \* the entities the client draws

vars == <<live, view>>

Init == live = {} /\ view = {}

\* A level is loaded while no client draws anything.
Load(e) ==
  /\ view = {}
  /\ live' = live \cup {e}
  /\ UNCHANGED view

\* A client connects: the world gets an entity for its player, if there is one
\* left, and the client copies the world.
Join(new) ==
  /\ live' = live \cup new
  /\ view' = live'

Leave(e) == live' = live \ {e} /\ UNCHANGED view

\* The server is started anew or shut down.
Restart == live' = {} /\ view' \in {{}, view}

Drop(e) ==
  /\ e \in view \ live
  /\ view' = view \ {e}
  /\ UNCHANGED live

Disconnect == view' = {} /\ UNCHANGED live

Next ==
  \/ \E e \in Ent : Load(e) \/ Leave(e) \/ Drop(e) \/ Join({e})
  \/ Join({}) \/ Restart \/ Disconnect

Spec == Init /\ [][Next]_vars
=============================================================================
