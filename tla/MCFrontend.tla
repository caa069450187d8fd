----------------------------- MODULE MCFrontend -----------------------------
(* A small instance of Frontend. *)
EXTENDS Frontend

MCSlotOf ==
  [n \in {"srv_Name", "lg_ShouldQuit", "srv_MaxEntities", "TRUE", "POINT"} |-> 0] @@
  [n \in {"v_TextureFilter", "v_DebugWireframe", "FALSE", "BILINEAR", "TRILINEAR"} |-> 1]
MCDefinitions == <<<<"TRUE", 1>>, <<"FALSE", 0>>, <<"POINT", 1>>, <<"BILINEAR", 2>>,
                   <<"TRILINEAR", 3>>>>
Cvar(name, text, flags) == [name |-> name, value |-> text, flags |-> flags]
MCRegistered ==
  <<Cvar("v_TextureFilter", <<"BILINEAR">>, {"SAVE", "UPDATE"}),
    Cvar("v_DebugWireframe", <<"FALSE">>, {"UPDATE"}),
    Cvar("lg_ShouldQuit", <<"FALSE">>, {"UPDATE"}),
    Cvar("srv_MaxEntities", <<"5">>, {"ROM"}),
    Cvar("srv_Name", <<"L">>, {"SAVE"})>>
MCAutoexec == <<<<"echo">>>>
CfgFiles(config, user) == [f \in {"config.cfg", "user.cfg"} |-> IF f = "config.cfg" THEN config ELSE user]
MCFoundFirst ==
  {CfgFiles(<< >>, <<<<"set", "v_DebugWireframe", <<"TRUE">>>>, <<"set", "v_TextureFilter", <<"9">>>>>>),
   CfgFiles(<<<<"set", "v_TextureFilter", <<"9">>>>>>, << >>)}
MCTyped ==
  {<<"set", "srv_Name", <<"h", "/", "/", "x">>>>,
   <<"set", "srv_Name", <<"a", "b", "c", "d", "e">>>>,
   <<"set", "srv_Name", <<"x", "\"", " ", "b">>>>,
   <<"set", "v_TextureFilter", <<"TRILINEAR">>>>,
   <<"set", "v_DebugWireframe", <<"TRUE">>>>,
   <<"set", "srv_MaxEntities", <<"1">>>>,
   <<"savecfg", "config.cfg", "ALL">>,
   <<"savecfg", "user.cfg", "ALL">>,
   <<"savecfg", "config.cfg", "APPEND">>,
   <<"loadcfg", "user.cfg">>,
   <<"quit">>}
=============================================================================
