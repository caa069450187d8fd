------------------------------ MODULE MCWorld -------------------------------
(* Three entities that can expire, more in one frame than the kill list     *)
(* holds, and one that does not; room for two players beside them, and for   *)
(* as many more as have expired; fewer commands than entities.               *)
EXTENDS World

MCLevel == <<"blaine", "default", "blaine", "blaine">>

AllCommands == ConsoleCommands
=============================================================================
