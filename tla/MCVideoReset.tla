---------------------------- MODULE MCVideoReset ----------------------------
(* An adapter with two full-screen formats, one without its size of 800x600 *)
(* and with FSAA for the other only, and no hardware vertex processing.     *)
EXTENDS VideoReset

MCModes == {<<"X8R8G8B8", "640x480">>, <<"X8R8G8B8", "800x600">>,
            <<"R5G6B5", "640x480">>}
MCLevels == [f \in Formats |-> CASE f = "X8R8G8B8" -> 2 [] OTHER -> 0]

Setting(depth, size, windowed, fsaa, discard, lockable) ==
  [depth |-> depth, size |-> size, windowed |-> windowed,
   fsaa |-> fsaa, discard |-> discard, lockable |-> lockable]

\* Right ones, and ones that are wrong in each way.
MCChosen ==
  {Setting(32, "800x600", FALSE, 2, TRUE, FALSE),
   Setting(32, "800x600", FALSE, 3, TRUE, FALSE),
   Setting(32, "800x600", TRUE, 0, TRUE, FALSE),
   Setting(8, "800x600", FALSE, 3, TRUE, TRUE),
   Setting(15, "640x480", FALSE, 1, TRUE, FALSE)}
=============================================================================
