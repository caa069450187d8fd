------------------------------ MODULE Archive ------------------------------
(***************************************************************************)
(* CLArchive (lf_sys2/lf_lpk.cpp), the packed archive: the data of the     *)
(* files, then one information record each, then a header that says where  *)
(* the records are.  The object writes into the file it was opened from,   *)
(* over the old records; the new ones are written by Save.                 *)
(*                                                                         *)
(* The file is a sequence of cells.  A cell of data is known by the file   *)
(* it comes from, an information record takes two cells (it is longer than *)
(* the header, which takes one).  A write that does not fit on the disk,   *)
(* or through a handle opened to read, writes nothing.  The process may    *)
(* stop between two calls.                                                 *)
(***************************************************************************)
EXTENDS Naturals, SequencesExt, FiniteSetsExt

CONSTANTS
  Files,        \* the files that can be added
  Plain,        \* their sizes
  Deflated,     \* and compressed sizes, 0 when deflate does not shrink them
  Names,        \* the names they are given in the archive
  OldArchive,   \* a file written by version 1.01
  OldContents,  \* what is in it
  Threshold,    \* m_nCmpThreshold
  Capacity,     \* bound: cells the disk has room for
  MaxAdds,      \* bound: files added
  MaxOpens,     \* bound: archives created and opened
  Null          \* no file, no cell

VARIABLES
  disk,         \* the file of the archive, Null when there is none
  handle,       \* how m_File is open: "none", "read" or "readwrite"
  bOpen,        \* m_bOpen
  bWriteable,   \* m_bWriteable
  list,         \* m_pFileList
  writePos,     \* m_nMainFileWritePos
  bHasChanged,  \* m_bHasChanged
  want,         \* history: the names and files the archive was given
  sound,        \* history: the file was made by whole calls whose writes fit
  adds,         \* history: number of files added
  opens         \* history: number of archives created or opened

archiveVars == <<disk, handle, bOpen, bWriteable, list, writePos, bHasChanged,
                 want, sound, adds, opens>>

-----------------------------------------------------------------------------
\* The cells.
DataCells(f) == [i \in 1..Plain[f] |-> <<"data", f, i>>]
ZipCells(f) == [i \in 1..Deflated[f] |-> <<"zip", f, i>>]
InfoCell(l, k) == <<"info", l[(k + 1) \div 2], 2 - (k % 2)>>
HeadCell(n, off) == <<"head", n, off>>
Zero == <<"zero">>

\* A name that is taken gets an X for every time it is.
Name(n, x) == [of |-> n, X |-> x]
Entry(name, type, off, size, cmp) ==
  [name |-> name, type |-> type, off |-> off, size |-> size, cmp |-> cmp]
\* A record read from cells that are no record says anything.
Garbage == Entry(Name(Null, 0), "normal", 0, 0, 0)

Entries == {e \in [name : [of : Names \cup {Null}, X : Nat], type : {"normal", "zlibcmp"},
                   off : Nat, size : Nat, cmp : Nat] : e.cmp <= e.size}
Cell == ({"data", "zip"} \X Files \X Nat) \cup ({"info"} \X Entries \X {1, 2})
          \cup ({"head"} \X Nat \X Nat) \cup ({"old"} \X Seq(Entries)) \cup {Zero}

ASSUME ArchiveAssumption ==
  /\ Capacity \in Nat /\ Threshold \in 0..100
  /\ \A f \in Files : Plain[f] \in Nat \ {0} /\ Deflated[f] \in 0..Plain[f]
  /\ Null \notin Seq(Cell)

-----------------------------------------------------------------------------
\* BDIO_Write at a position: all of the cells, or none.
Fits(d, pos, cells) == pos + Len(cells) <= Capacity
Put(d, pos, cells) ==
  [i \in 1..(IF pos + Len(cells) > Len(d) THEN pos + Len(cells) ELSE Len(d)) |->
     IF i > pos /\ i <= pos + Len(cells) THEN cells[i - pos]
     ELSE IF i <= Len(d) THEN d[i] ELSE Zero]
CanWrite(d, pos, cells) == handle = "readwrite" /\ Fits(d, pos, cells)
Written(d, pos, cells) == IF CanWrite(d, pos, cells) THEN Put(d, pos, cells) ELSE d

\* ReadArcInfo: the header is the last cell.
HasHeader(d) == d # <<>> /\ Last(d)[1] = "head"

EntryAt(d, p) ==
  IF /\ p + 2 <= Len(d) /\ d[p + 1][1] = "info" /\ d[p + 1][3] = 1
     /\ d[p + 2][1] = "info" /\ d[p + 2] = <<"info", d[p + 1][2], 2>>
  THEN d[p + 1][2]
  ELSE Garbage

ReadArcInfo(d) == [i \in 1..Last(d)[2] |-> EntryAt(d, Last(d)[3] + 2 * (i - 1))]

\* OpenOld: the records follow the header at the front of the file.
IsOld(d) == d # <<>> /\ d[1][1] = "old"
OpenOld(d) == d[1][2]

\* ExtractFile: the file whose cells are where the entry says.
Stored(d, e, f) ==
  LET cells == IF e.type = "zlibcmp" THEN ZipCells(f) ELSE DataCells(f)
  IN  /\ cells # <<>> /\ e.off + Len(cells) <= Len(d)
      /\ \A i \in DOMAIN cells : d[e.off + i] = cells[i]
      /\ e.type = "zlibcmp" \/ e.size = Plain[f]

ExtractFile(d, e) ==
  IF \E f \in Files : Stored(d, e, f) THEN CHOOSE f \in Files : Stored(d, e, f) ELSE Null

\* The old archive has its contents.
ASSUME OldArchiveAssumption ==
  /\ OldArchive \in Seq(Cell) /\ IsOld(OldArchive) /\ ~HasHeader(OldArchive)
  /\ OldContents \in Seq([of : Names, X : Nat] \X Files)
  /\ Len(OpenOld(OldArchive)) = Len(OldContents)
  /\ \A i \in DOMAIN OldContents :
       LET e == OpenOld(OldArchive)[i]
       IN  /\ e.name = OldContents[i][1] /\ e.cmp # 0
           /\ Stored(OldArchive, e, OldContents[i][2])
           /\ \A j \in DOMAIN OldContents : OldContents[j][1] = e.name => i = j

-----------------------------------------------------------------------------
\* Save: the records where the last file ended, the header behind the end of
\* the file.  Whether the writes went well is not asked.
Room(n) ==
  IF handle # "readwrite" \/ writePos >= Capacity THEN 0
  ELSE IF writePos + n <= Capacity THEN n ELSE Capacity - writePos

SavedInfo(d) ==
  LET room == Room(2 * Len(list))
  IN  IF room = 0 THEN d ELSE Put(d, writePos, [k \in 1..room |-> InfoCell(list, k)])

\* A slip: the header says where the records end.
SavedTellsEnd(d) ==
  LET i == SavedInfo(d)
  IN  Written(i, Len(i), <<HeadCell(Len(list), Len(i))>>)

Saved(d) ==
  LET i == SavedInfo(d)
  IN  Written(i, Len(i), <<HeadCell(Len(list), writePos)>>)

Saves == bWriteable /\ bOpen /\ bHasChanged
SaveFits == Saves /\ handle = "readwrite" => writePos + 2 * Len(list) + 1 <= Capacity

\* What is left of the object by Close.  m_bWriteable and m_nMainFileWritePos
\* stay as they are.
ClosedDisk == IF Saves THEN Saved(disk) ELSE disk
Closed ==
  /\ handle' = "none"
  /\ bOpen' = FALSE
  /\ list' = <<>>
  /\ bHasChanged' = FALSE

-----------------------------------------------------------------------------
\* m_bWriteable is not set by the constructor.
ArchiveInit ==
  /\ disk \in {Null, OldArchive}
  /\ handle = "none"
  /\ bOpen = FALSE
  /\ bWriteable \in BOOLEAN
  /\ list = <<>>
  /\ writePos = 0
  /\ bHasChanged = FALSE
  /\ want = IF disk = Null THEN <<>> ELSE OldContents
  /\ sound = (disk # Null)
  /\ adds = 0
  /\ opens = 0

Count == opens < MaxOpens /\ opens' = opens + 1

CloseArchive ==
  /\ disk' = ClosedDisk
  /\ sound' = (sound /\ SaveFits)
  /\ Closed
  /\ UNCHANGED <<bWriteable, writePos, want, adds, opens>>

Save ==
  /\ Saves
  /\ disk' = Saved(disk)
  /\ sound' = (sound /\ SaveFits)
  /\ bHasChanged' = FALSE
  /\ UNCHANGED <<handle, bOpen, bWriteable, list, writePos, want, adds, opens>>

\* The old file is gone when the temporary file cannot be made.
CreateNew(temp) ==
  /\ Count
  /\ disk' = <<>>
  /\ bWriteable' = TRUE
  /\ IF temp THEN /\ handle' = "readwrite"
                  /\ bOpen' = TRUE
                  /\ list' = <<>>
                  /\ bHasChanged' = TRUE
     ELSE Closed
  /\ want' = <<>>
  /\ sound' = temp
  /\ UNCHANGED <<writePos, adds>>

\* Open makes the file when there is none.  A file that is no archive is left
\* closed, and OpenOld has made the object read-only.
Open(write, temp) ==
  LET d == IF ClosedDisk = Null THEN <<>> ELSE ClosedDisk
      writeable == (bWriteable \/ write) /\ temp
  IN  /\ Count
      /\ disk' = d
      /\ sound' = (sound /\ SaveFits)
      /\ bHasChanged' = FALSE
      /\ IF HasHeader(d) THEN
           /\ handle' = IF write THEN "readwrite" ELSE "read"
           /\ bOpen' = TRUE
           /\ bWriteable' = writeable
           /\ list' = ReadArcInfo(d)
           /\ writePos' = Last(d)[3]
         ELSE
           /\ bWriteable' = FALSE
           /\ UNCHANGED writePos
           /\ IF IsOld(d) THEN /\ handle' = IF write THEN "readwrite" ELSE "read"
                               /\ bOpen' = TRUE
                               /\ list' = OpenOld(d)
              ELSE Closed
      /\ UNCHANGED <<want, adds>>

\* DoAddFile.
Taken(name) == \E i \in DOMAIN list : list[i].name = name

NameFor(n) == Name(n, CHOOSE x \in 0..Len(list) :
                        /\ ~Taken(Name(n, x))
                        /\ \A y \in 0..(x - 1) : Taken(Name(n, y)))

\* A file that shrinks by less than the threshold is written over as it is.
Percent(f) == (100 * (Plain[f] - Deflated[f])) \div Plain[f]
\* A slip: "if the compression did not occur" is left out.
PaysUnasked(f) == Percent(f) >= Threshold
Pays(f) == Deflated[f] # 0 /\ Percent(f) >= Threshold

AddFile(f, n, zlib) ==
  LET zipped == IF zlib /\ Deflated[f] # 0 THEN Written(disk, writePos, ZipCells(f)) ELSE disk
      pays == zlib /\ Pays(f) /\ CanWrite(disk, writePos, ZipCells(f))
      wrote == pays \/ CanWrite(disk, writePos, DataCells(f))
      size == IF ~wrote THEN 0 ELSE IF pays THEN Deflated[f] ELSE Plain[f]
  IN  /\ adds < MaxAdds /\ adds' = adds + 1
      /\ bOpen /\ bWriteable
      /\ disk' = IF pays THEN zipped ELSE Written(zipped, writePos, DataCells(f))
      /\ list' = Append(list, Entry(NameFor(n), IF pays THEN "zlibcmp" ELSE "normal",
                                    writePos, Plain[f], size))
      /\ writePos' = writePos + size
      /\ bHasChanged' = TRUE
      /\ want' = IF wrote THEN Append(want, <<NameFor(n), f>>) ELSE want
      /\ sound' = (sound /\ (handle = "readwrite" => wrote))
      /\ UNCHANGED <<handle, bOpen, bWriteable, opens>>

\* The process stops, and another one makes an object of its own.
Crash ==
  /\ handle # "none"
  /\ sound' = (sound /\ (handle = "readwrite" => ~bHasChanged))
  /\ bWriteable' \in BOOLEAN
  /\ writePos' = 0
  /\ Closed
  /\ UNCHANGED <<disk, want, adds, opens>>

ArchiveNext ==
  \/ CloseArchive
  \/ Save
  \/ \E temp \in BOOLEAN : CreateNew(temp)
  \/ \E write, temp \in BOOLEAN : Open(write, temp)
  \/ \E f \in Files, n \in Names, zlib \in BOOLEAN : AddFile(f, n, zlib)
  \/ Crash

ArchiveSpec == ArchiveInit /\ [][ArchiveNext]_archiveVars

-----------------------------------------------------------------------------
\* What a program that opens the file finds in it.
Holds(d) ==
  LET l == IF HasHeader(d) THEN ReadArcInfo(d) ELSE IF IsOld(d) THEN OpenOld(d) ELSE <<>>
  IN  [i \in DOMAIN l |-> <<l[i].name, ExtractFile(d, l[i])>>]

\* Every variable has its type; between two calls the list is kept only while
\* the archive is open (Close, lf_lpk.cpp:434-460).
TypeOK ==
  /\ disk = Null \/ disk \in Seq(Cell)
  /\ handle \in {"none", "read", "readwrite"}
  /\ bOpen \in BOOLEAN /\ bWriteable \in BOOLEAN /\ bHasChanged \in BOOLEAN
  /\ list \in Seq(Entries) /\ writePos \in Nat
  /\ bOpen <=> handle # "none"
  /\ bHasChanged => bOpen /\ bWriteable

\* A file whose last change was saved holds, under their names, just the files
\* that were added to it since it was created, whatever was added, saved,
\* closed, reopened and added again in between, in one process or in several:
\* no new data has gone over old data, and no header points at records that
\* were written over (DoAddFile 261-310, Save 380-432, ReadArcInfo 346-378).
\* Only a stop before Save and a write that did not fit can break this.
SavedIsWhole ==
  /\ TypeOK
  /\ sound /\ (~bHasChanged \/ handle = "read") => Holds(disk) = want

\* The first entry of that name (GetFileRef).
FileRef(name) == list[Min({i \in DOMAIN list : list[i].name = name})]

\* While the archive is open, saved or not, every file that AddFile answered
\* for can be extracted by its name, and is what was added under that name:
\* no name is handed out twice.
ListedExtracts ==
  sound /\ bOpen =>
    LET kept == {i \in DOMAIN list : list[i].cmp # 0}
    IN  /\ Cardinality(kept) = Len(want)
        /\ \A i \in kept : <<list[i].name, ExtractFile(disk, FileRef(list[i].name))>>
                            = want[Cardinality(kept \cap 1..i)]
=============================================================================
