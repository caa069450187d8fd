----------------------------- MODULE MCArchive -----------------------------
(* Three files: one that deflate does not shrink, one that it shrinks by a   *)
(* third and one by a sixth, which is below the threshold; and a file        *)
(* written by version 1.01.                                                  *)
EXTENDS Archive
CONSTANTS small, large, dull, note

MCFiles == {small, large, dull}
MCPlain == [f \in MCFiles |-> CASE f = small -> 1 [] f = large -> 3 [] f = dull -> 6]
MCDeflated == [f \in MCFiles |-> CASE f = small -> 0 [] f = large -> 2 [] f = dull -> 5]
MCNames == {note}
MCOldEntry == Entry(Name(note, 0), "zlibcmp", 1, 3, 2)
MCOldArchive == <<<<"old", <<MCOldEntry>>>>>> \o ZipCells(large)
MCOldContents == <<<<Name(note, 0), large>>>>
=============================================================================
