---------------------------- MODULE MCFileSystem ----------------------------
(* The directories of the game: the base, the data directory with a directory *)
(* inside it, and a second data directory mounted over the first.  Two         *)
(* archives that share a name with each other, one of them one with the disk.  *)
(* Eight slots hold the directories and one more name, not two; two chains.    *)
EXTENDS FileSystem, TLC

MCOSDirs == {<<>>, <<"data">>, <<"data", "sub">>, <<"mod">>}

MCDiskFiles ==
  (<<<<"data">>, "a">> :> 2) @@ (<<<<"data", "sub">>, "c">> :> 1) @@
  (<<<<"data">>, "p0">> :> 2) @@ (<<<<"data">>, "p1">> :> 2) @@ (<<<<"mod">>, "a">> :> 1)

MCReadOnly == {<<<<"data", "sub">>, "c">>}

Entry(dir, name, size, offset, cmp) ==
  [dir |-> dir, name |-> name, size |-> size, offset |-> offset, cmp |-> cmp]

MCArchives ==
  (<<<<"data">>, "p0">> :> << Entry(<<>>, "a", 1, 0, FALSE), Entry(<<>>, "b", 1, 1, FALSE) >>) @@
  (<<<<"data">>, "p1">> :> << Entry(<<>>, "b", 2, 0, TRUE) >>)

MCMounts == {<<<<"data">>, <<"dbase">>>>, <<<<"mod">>, <<"dbase">>>>}

MCOpens ==
  LET n(f) == <<<<"dbase">>, f>>
  IN  {<<n("b"), {"READ"}, "OPEN_EXISTING">>,
       <<<<<<"dbase", "sub">>, "c">>, {"READ"}, "OPEN_EXISTING">>,
       <<n("a"), {"READ", "WRITE"}, "CREATE_ALWAYS">>, <<n("b"), {"WRITE"}, "CREATE_NEW">>,
       <<n("n"), {"WRITE"}, "OPEN_ALWAYS">>}

MCSeeks == {<<"CURRENT", -1>>, <<"END", 1>>}

MCSymmetry == Permutations(Handles)

MCPaths == {<<>>, <<"dbase">>, <<"dbase", "sub">>}
MCFileNames == {"", "a", "b", "c", "n", "p0", "p1"}

MCHash(name) == IF name[2] \in {"a", "p0", "p1"} THEN 0 ELSE 1
=============================================================================
