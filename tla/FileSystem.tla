----------------------------- MODULE FileSystem -----------------------------
(***************************************************************************)
(* CLFileSystem and CLFile (lf_sys2/lf_fs2.cpp, lf_file.cpp): directories  *)
(* and archives are mounted into one table of names (PartitionTable), and  *)
(* files are opened, read, written and closed through it.                  *)
(*                                                                         *)
(* A directory is the sequence of its parts, the mounted root being <<>>,  *)
(* and a file a pair <<directory, name>>; the entry of a directory itself  *)
(* has the name "".  Bytes are not kept, their number is.  The OS side     *)
(* (lf_bdio.c) is the disk: every file is opened with FILE_SHARE_READ      *)
(* alone, so a file has one writer or any number of readers.               *)
(*                                                                         *)
(* The client follows the header: the base is mounted first, and a mount   *)
(* uses the flags the engine uses.                                         *)
(***************************************************************************)
EXTENDS PartitionTable, SequencesExt

CONSTANTS
  Capacities,    \* the nMaxFiles FS_Initialize may be called with
  OSDirs,        \* the directories of the disk, the base being <<>>
  DiskFiles,     \* the OS files there at first, with their sizes
  ReadOnly,      \* those of them with the read-only attribute
  Archives,      \* the contents of the OS files that are archives
  Mounts,        \* the <<OS directory, mount path>> of Mount calls
  MaxMounts,     \* bound: mount calls
  MaxClears,     \* bound: calls of UnMountAll
  MaxOpens,      \* bound: files opened
  Opens,         \* the <<name, access, create mode>> clients use
  Handles,       \* bound: files open at a time
  MaxSize,       \* bound: size of a file on disk
  Chunks,        \* bound: sizes asked of Read and Write
  Seeks,         \* the <<mode, offset>> of Seek calls
  DWord          \* number of values of a lf_dword

Sizes == 0..MaxSize
OSFiles == OSDirs \X (FileNames \ {""})

MountFiles ==
  [name : MountNames, os : OSDirs \X FileNames,
   flags : SUBSET {"DIRECTORY", "READONLY", "ARCHIVED", "ZLIBCMP"}, size : Sizes, offset : Nat]

CLFiles ==
  [name : MountNames, os : OSFiles, begin : Nat, access : SUBSET {"READ", "WRITE", "MEMORY"},
   size : Nat, pos : 0..DWord-1, eof : BOOLEAN, onDisk : BOOLEAN]

\* The directories a mount call finds below an OS directory, itself first of all.
Below(dir, subdirs) ==
  IF subdirs THEN {d \in OSDirs : IsPrefix(dir, d)} ELSE {dir}

MountedAt(dir, at, d) == at \o SubSeq(d, Len(dir) + 1, Len(d))

\* The mount calls of directories: MountBase, and FS_Mount with subdirectories.
DirCalls ==
  {[kind |-> "dir", dir |-> <<>>, at |-> <<>>, deep |-> FALSE]} \cup
  {[kind |-> "dir", dir |-> m[1], at |-> m[2], deep |-> TRUE] : m \in Mounts}

\* The paths an OS directory may be mounted at.
PathsOf(d) ==
  {MountedAt(c.dir, c.at, d) : c \in {e \in DirCalls : d \in Below(e.dir, e.deep)}}

\* LPK_FILE_INFO, as far as mounting reads it.
ArchiveFiles ==
  [dir : Seq(STRING), name : FileNames \ {""}, size : Sizes, offset : Nat, cmp : BOOLEAN]

\* The disk and the mount calls.
ASSUME DiskAssumption ==
  /\ OSDirs \subseteq Seq(STRING) /\ <<>> \in OSDirs /\ IsFiniteSet(OSDirs)
  /\ Paths \subseteq Seq(STRING) /\ "" \in FileNames
  /\ MaxSize \in Nat /\ Null \notin MountFiles /\ Null \notin CLFiles
  /\ Null \notin [os : OSDirs \X FileNames, archived : BOOLEAN]
  /\ IsFiniteSet(DOMAIN DiskFiles) /\ DOMAIN DiskFiles \subseteq OSFiles
  /\ \A os \in DOMAIN DiskFiles : DiskFiles[os] \in Sizes
  /\ Mounts \subseteq OSDirs \X Seq(STRING)
  /\ \A d \in OSDirs : PathsOf(d) \subseteq Paths

\* An OS directory is under one mounted path, as in LG_InitGame.
ASSUME OnePathAssumption ==
  \A d \in OSDirs : \A p, q \in PathsOf(d) : p = q

\* What an archive lists is in it (Archive.SavedIsWhole).
ASSUME ArchivesAssumption ==
  /\ DOMAIN Archives \subseteq DOMAIN DiskFiles
  /\ \A os \in DOMAIN Archives :
       /\ Archives[os] \in Seq(ArchiveFiles)
       /\ \A k \in DOMAIN Archives[os] :
            LET e == Archives[os][k]
            IN  /\ ~e.cmp => e.offset + e.size <= DiskFiles[os]
                /\ \A m \in Mounts : m[2] \o e.dir \in Paths

\* Clients name files, not directories, and none empties a file without writing
\* to it or writes to an archive.
ASSUME ClientsAssumption ==
  /\ Capacities \subseteq 1..MaxSlots
  /\ \A o \in Opens :
       /\ o[1] \in MountNames /\ o[1][2] # ""
       /\ o[2] \subseteq {"READ", "WRITE", "MEMORY"}
       /\ o[3] \in {"OPEN_EXISTING", "OPEN_ALWAYS", "CREATE_NEW", "CREATE_ALWAYS"}
       /\ o[3] = "CREATE_ALWAYS" => "WRITE" \in o[2]
       /\ "WRITE" \in o[2] => \A os \in DOMAIN Archives : os[2] # o[1][2]
  /\ DWord \in Nat /\ MaxSize < DWord /\ \A c \in Chunks : MaxSize + c < DWord
  /\ Chunks \subseteq Nat
  /\ Seeks \subseteq {"BEGIN", "CURRENT", "END"} \X Int
  /\ {MaxMounts, MaxClears, MaxOpens} \subseteq Nat

VARIABLES
  table,         \* m_PrtTable
  bBaseMounted,  \* m_bBaseMounted
  disk,          \* the OS files: their sizes
  fileOf,        \* the CLFile behind each handle, Null when closed
  mounts,        \* history: the mount calls since the last UnMountAll
  mountCalls,    \* history: the number of mount calls
  clears,        \* history: the number of UnMountAll calls
  opened,        \* history: the number of files opened
  crossed        \* history: a writer was closed under another file's name

fsVars == <<table, bBaseMounted, disk, fileOf, mounts, mountCalls, clears, opened, crossed>>
hist == <<mounts, mountCalls, clears, opened, crossed>>

-----------------------------------------------------------------------------
DirOf(name) == <<name[1], "">>
OSDirOf(os) == os[1]

DirInfo(d, m) == MountInfo(<<m, "">>, <<d, "">>, {"DIRECTORY"}, 0, 0)

DiskInfo(os, m) ==
  MountInfo(<<m, os[2]>>, os, IF os \in ReadOnly THEN {"READONLY"} ELSE {}, disk[os], 0)

\* The files of an OS directory, as the system lists them.
FilesIn(d) == SetToSeq({os \in DOMAIN disk : OSDirOf(os) = d})

\* Files are mounted one after the other.
MountAll(T, files, flags) ==
  LET mounted[i \in 0..Len(files)] ==
        IF i = 0 THEN T ELSE MountFile(mounted[i - 1], files[i], flags)
  IN  mounted[Len(files)]

\* One directory, its own entry first: when that cannot be mounted its files are
\* left out.
MountOneDir(T, d, m, flags) ==
  LET files == FilesIn(d)
  IN  IF CanMount(T, DirInfo(d, m), flags)
      THEN MountAll(MountFile(T, DirInfo(d, m), flags),
                    [i \in DOMAIN files |-> DiskInfo(files[i], m)], flags)
      ELSE MountFile(T, DirInfo(d, m), flags)

\* The orders the system may list directories in: each after the one it is in.
Listings(dirs) ==
  {q \in [1..Cardinality(dirs) -> dirs] :
     /\ \A d \in dirs : \E i \in DOMAIN q : q[i] = d
     /\ \A i, j \in DOMAIN q : IsPrefix(q[i], q[j]) => i <= j}

\* MountDir.  The directories inside one that could not be mounted are not
\* visited.
MountDir(T, listing, dir, at, flags) ==
  LET visit[i \in 0..Len(listing)] ==
        IF i = 0 THEN [t |-> T, skipped |-> {}]
        ELSE LET acc == visit[i - 1]
                 d == listing[i]
                 m == MountedAt(dir, at, d)
             IN  IF \E s \in acc.skipped : IsPrefix(s, d) THEN acc
                 ELSE [t |-> MountOneDir(acc.t, d, m, flags),
                       skipped |-> IF CanMount(acc.t, DirInfo(d, m), flags)
                                   THEN acc.skipped ELSE acc.skipped \cup {d}]
  IN  visit[Len(listing)].t

\* The entries of an archive expand into the directory the archive is in.
ArchivedInfo(name, os, e) ==
  MountInfo(<<name[1] \o e.dir, e.name>>, os,
            {"ARCHIVED", "READONLY"} \cup (IF e.cmp THEN {"ZLIBCMP"} ELSE {}),
            e.size, e.offset)

MountArchive(T, name, os, flags) ==
  MountAll(T, [k \in DOMAIN Archives[os] |-> ArchivedInfo(name, os, Archives[os][k])], flags)

-----------------------------------------------------------------------------
FSInit ==
  /\ \E max \in Capacities : table = NewTable(max)
  /\ bBaseMounted = FALSE
  /\ disk = DiskFiles
  /\ fileOf = [h \in Handles |-> Null]
  /\ mounts = <<>>
  /\ mountCalls = 0
  /\ clears = 0
  /\ opened = 0
  /\ crossed = FALSE

Record(m) ==
  /\ mountCalls < MaxMounts
  /\ mountCalls' = mountCalls + 1
  /\ mounts' = Append(mounts, m)

\* MountBase: the files right in the base directory, under "/".
MountBase ==
  /\ ~bBaseMounted
  /\ bBaseMounted' = TRUE
  /\ Record([kind |-> "dir", dir |-> <<>>, at |-> <<>>, deep |-> FALSE])
  /\ table' = MountDir(table, <<<<>>>>, <<>>, <<>>, {})
  /\ UNCHANGED <<disk, fileOf, clears, opened, crossed>>

\* FS_Mount, as LG_InitGame calls it.
Mount(dir, at) ==
  /\ bBaseMounted
  /\ Record([kind |-> "dir", dir |-> dir, at |-> at, deep |-> TRUE])
  /\ \E listing \in Listings(Below(dir, TRUE)) :
       table' = MountDir(table, listing, dir, at, {"OVERWRITE", "SUBDIRS"})
  /\ UNCHANGED <<bBaseMounted, disk, fileOf, clears, opened, crossed>>

\* FS_MountLPK, as LG_InitGame calls it.  CLArchive::Open reads the file, which
\* fails while somebody has it open for writing.
Writing(os) == \E h \in Handles : /\ fileOf[h] # Null /\ fileOf[h].os = os
                                  /\ fileOf[h].onDisk /\ "WRITE" \in fileOf[h].access

MountLPK(name) ==
  LET info == FindFile(table, name)
  IN  /\ bBaseMounted
      /\ info # Null
      /\ info.os \in DOMAIN Archives /\ ~Writing(info.os)
      /\ Record([kind |-> "lpk", at |-> name[1], os |-> info.os])
      /\ table' = MountArchive(table, name, info.os, {"OVERWRITELPKONLY"})
      /\ UNCHANGED <<bBaseMounted, disk, fileOf, clears, opened, crossed>>

\* Open files stay open.
UnMountAll ==
  /\ clears < MaxClears
  /\ clears' = clears + 1
  /\ table' = Clear(table)
  /\ bBaseMounted' = FALSE
  /\ mounts' = <<>>
  /\ UNCHANGED <<disk, fileOf, mountCalls, opened, crossed>>

-----------------------------------------------------------------------------
\* A slip: a handle that only reads shares writing as well.
SharingAllowsAll(os, access) == TRUE

\* What CreateFile refuses, given the handles that are open on the file: it asks
\* for no access that they did not share, and shares none that they have.
SharingAllows(os, access) ==
  \A h \in Handles :
     (fileOf[h] # Null /\ fileOf[h].onDisk /\ fileOf[h].os = os) =>
        /\ "WRITE" \notin access
        /\ "WRITE" \notin fileOf[h].access

OSMayOpen(os, access) ==
  /\ SharingAllows(os, access)
  /\ os \in ReadOnly => "WRITE" \notin access

\* OpenExistingFile, past its checks: the CLFile it answers.  The size is the
\* table's.  A compressed file, and a file opened with MEMORY, is read whole
\* and the OS file closed; got is how much of it could be read.
NewHandle(info, access, bNew, got) ==
  LET size == IF bNew THEN 0 ELSE info.size
      mem  == "MEMORY" \in access \/ {"ARCHIVED", "ZLIBCMP"} \subseteq info.flags
      held == IF mem THEN got ELSE size
  IN  [name |-> info.name, os |-> info.os, begin |-> info.offset,
       access |-> access \cup (IF mem THEN {"MEMORY"} ELSE {}),
       size |-> held, pos |-> 0, eof |-> 0 >= held, onDisk |-> ~mem]

\* BDIO_Read reads all that is asked for and there, or nothing at all;
\* BDIO_ReadCompressed gives back what was compressed.
Readable(info) ==
  {0, IF "ZLIBCMP" \in info.flags THEN info.size
      ELSE Min({info.size, Max({0, disk[info.os] - info.offset})})}

\* The file is mounted.  CREATE_ALWAYS empties it on the disk at once.
OpenExisting(h, info, access, bNew) ==
  /\ "DIRECTORY" \notin info.flags
  /\ "READONLY" \in info.flags => ~bNew /\ "WRITE" \notin access
  /\ OSMayOpen(info.os, access)
  /\ disk' = IF bNew THEN [disk EXCEPT ![info.os] = 0] ELSE disk
  /\ \E got \in Readable(info) : fileOf' = [fileOf EXCEPT ![h] = NewHandle(info, access, bNew, got)]
  /\ UNCHANGED table

\* The file is not mounted: it is created in the OS directory its directory's
\* entry names, and mounted.  Nobody looks at what MountFile answers.
CreateNew(h, name, access) ==
  LET dir  == FindFile(table, DirOf(name))
      info == MountInfo(name, <<OSDirOf(dir.os), name[2]>>, {}, 0, 0)
  IN  /\ dir # Null /\ "DIRECTORY" \in dir.flags
      /\ info.os \notin DOMAIN disk
      /\ disk' = [os \in DOMAIN disk \cup {info.os} |-> IF os = info.os THEN 0 ELSE disk[os]]
      /\ table' = MountFile(table, info, {"OVERWRITE"})
      /\ fileOf' = [fileOf EXCEPT ![h] = NewHandle(info, access, TRUE, 0)]

\* FindFile walks along a chain that has no end.
LookupHangs(name) ==
  /\ Hangs(table, name)
  /\ table' = [table EXCEPT !.hung = TRUE]
  /\ UNCHANGED <<disk, fileOf, opened>>

\* What CreateMode asks of the name: that it is mounted, or that it is not.
ModeAllows(mode, info) ==
  /\ mode = "OPEN_EXISTING" => info # Null
  /\ mode = "CREATE_NEW" => info = Null

\* OpenFile.  A refused call changes nothing and is no step.
OpenFile(h, name, access, mode) ==
  LET info    == FindFile(table, name)
      missing == info = Null /\ ~Hangs(table, name)
  IN  /\ fileOf[h] = Null
      /\ ~{"WRITE", "MEMORY"} \subseteq access
      /\ \/ LookupHangs(name)
         \/ missing /\ ModeAllows(mode, info) /\ LookupHangs(DirOf(name))
         \/ /\ opened < MaxOpens
            /\ opened' = opened + 1
            /\ ModeAllows(mode, info)
            /\ \/ info # Null /\ OpenExisting(h, info, access, mode = "CREATE_ALWAYS")
               \/ missing /\ CreateNew(h, name, access)
      /\ UNCHANGED <<bBaseMounted, mounts, mountCalls, clears, crossed>>

\* A slip: the size the table has is left as it was.
CloseFileKeepsSize(h) ==
  /\ fileOf[h] # Null
  /\ fileOf' = [fileOf EXCEPT ![h] = Null]
  /\ UNCHANGED <<table, bBaseMounted, disk, hist>>

\* CloseFile.  The entry that has the file's name now gets the size the OS file
\* has; a file without an entry is closed with an error message.
CloseFile(h) ==
  LET f == fileOf[h]
      info == FindFile(table, f.name)
  IN  /\ f # Null
      /\ fileOf' = [fileOf EXCEPT ![h] = Null]
      /\ table' = IF "WRITE" \notin f.access THEN table
                  ELSE IF info # Null
                  THEN MountFile(table, [info EXCEPT !.size = disk[f.os]], {"OVERWRITE"})
                  ELSE [table EXCEPT !.hung = @ \/ Hangs(table, f.name)]
      /\ crossed' = (crossed \/ ("WRITE" \in f.access /\ info # Null /\ info.os # f.os))
      /\ UNCHANGED <<bBaseMounted, disk, mounts, mountCalls, clears, opened>>

-----------------------------------------------------------------------------
MoveTo(h, pos, size) ==
  fileOf' = [fileOf EXCEPT ![h].pos = pos, ![h].size = size, ![h].eof = pos >= size]

\* CLFile::Read.  On the disk it may get less than it asks for, or nothing.
Read(h, n) ==
  LET f == fileOf[h]
      asked == IF f.size < (f.pos + n) % DWord THEN f.size - f.pos ELSE n
      there == IF f.onDisk THEN Min({asked, Max({0, disk[f.os] - f.begin - f.pos})}) ELSE asked
  IN  /\ f # Null
      /\ "READ" \in f.access
      /\ n > 0 /\ ~f.eof /\ f.pos <= f.size
      /\ \E got \in IF f.onDisk THEN {0, there} ELSE {there} : MoveTo(h, f.pos + got, f.size)
      /\ UNCHANGED <<table, bBaseMounted, disk, hist>>

\* CLFile::Write.  The disk takes some or none of the bytes.
Write(h, n) ==
  LET f == fileOf[h]
      end(wrote) == f.begin + f.pos + wrote
  IN  /\ f # Null
      /\ "WRITE" \in f.access /\ "MEMORY" \notin f.access
      /\ end(n) <= MaxSize
      /\ \E wrote \in {0, n} :
           /\ disk' = [disk EXCEPT ![f.os] = IF wrote = 0 THEN @ ELSE Max({@, end(wrote)})]
           /\ MoveTo(h, f.pos + wrote, Max({f.size, f.pos + wrote}))
      /\ UNCHANGED <<table, bBaseMounted, hist>>

\* CLFile::Seek.  The new pointer is unsigned: one before the beginning is as
\* large as one past the end, and the sign of the offset tells them apart.
Clamped(f, target, off) ==
  IF target % DWord > f.size THEN (IF off >= 0 THEN f.size ELSE 0) ELSE target % DWord

Seek(h, mode, off) ==
  LET f == fileOf[h]
      from == CASE mode = "BEGIN" -> 0 [] mode = "CURRENT" -> f.pos [] mode = "END" -> f.size
  IN  /\ f # Null
      /\ MoveTo(h, Clamped(f, from + off, off), f.size)
      /\ UNCHANGED <<table, bBaseMounted, disk, hist>>

FSNext ==
  \/ MountBase
  \/ \E m \in Mounts : Mount(m[1], m[2])
  \/ \E os \in DOMAIN Archives, at \in {m[2] : m \in Mounts} : MountLPK(<<at, os[2]>>)
  \/ UnMountAll
  \/ \E h \in Handles :
       \/ \E o \in Opens : OpenFile(h, o[1], o[2], o[3])
       \/ CloseFile(h)
       \/ \E n \in Chunks : Read(h, n) \/ Write(h, n)
       \/ \E s \in Seeks : Seek(h, s[1], s[2])

\* A walk that does not come back ends the program.
FSSpec == FSInit /\ [][~table.hung /\ FSNext]_fsVars
-----------------------------------------------------------------------------
\* Types, as far as the code's own declarations go (lf_fs2.h, lf_file.h).
TypeOK ==
  /\ table \in Tables(MountFiles) /\ table.max \in Capacities
  /\ bBaseMounted \in BOOLEAN /\ crossed \in BOOLEAN
  /\ DOMAIN DiskFiles \subseteq DOMAIN disk /\ DOMAIN disk \subseteq OSFiles
  /\ \A os \in DOMAIN disk : disk[os] \in Sizes
  /\ fileOf \in [Handles -> CLFiles \cup {Null}]
  /\ \A h \in Handles : fileOf[h] # Null => fileOf[h].os \in DOMAIN disk

InUse == UNION {OnChain(table, b) : b \in Buckets}

Sound ==
  LET on   == [b \in Buckets |-> OnChain(table, b)]
      used == UNION {on[b] : b \in Buckets}
  IN  /\ \A b \in Buckets : EndsWell(table, b)
      /\ \A b \in Buckets, s \in used : s \in on[b] <=> Hash(table.file[s].name) = b
      /\ Cardinality({table.file[s].name : s \in used}) = Cardinality(used)

\* Whatever is mounted, created and overwritten, a name has one entry, on the
\* chain of its hash, and every chain ends: as long as m_UnusedFiles has not
\* handed a slot out twice since the table was last cleared (MountFile,
\* lf_fs2.cpp).
TableIsSound == TypeOK /\ (table.handed <= table.max => Sound)

\* UnMountAll leaves a table that can be mounted into again as if it were new
\* (lf_fs2.cpp:96 sends the caller there): a slot is not handed out twice.
ClearedIsAsNew == Sound

-----------------------------------------------------------------------------
\* Does the i-th mount call put a name on offer?
DirOffers(i, name) ==
  /\ mounts[i].kind = "dir"
  /\ \E d \in Below(mounts[i].dir, mounts[i].deep) :
       /\ MountedAt(mounts[i].dir, mounts[i].at, d) = name[1]
       /\ <<d, name[2]>> \in DOMAIN disk

ArchiveOffers(i, name) ==
  /\ mounts[i].kind = "lpk"
  /\ \E k \in DOMAIN Archives[mounts[i].os] :
       LET e == Archives[mounts[i].os][k] IN <<mounts[i].at \o e.dir, e.name>> = name

OfferedFile(i, name) ==
  LET d == CHOOSE d \in Below(mounts[i].dir, mounts[i].deep) :
                  MountedAt(mounts[i].dir, mounts[i].at, d) = name[1]
  IN  <<d, name[2]>>

\* A disk file wins over every archive, and among equals the last mounted.
Wanted(name) ==
  LET dirs == {i \in DOMAIN mounts : DirOffers(i, name)}
      lpks == {i \in DOMAIN mounts : ArchiveOffers(i, name)}
  IN  IF dirs # {} THEN [os |-> OfferedFile(Max(dirs), name), archived |-> FALSE]
      ELSE IF lpks # {} THEN [os |-> mounts[Max(lpks)].os, archived |-> TRUE]
      ELSE Null

Found(name) ==
  LET f == FindFile(table, name)
  IN  IF f = Null THEN Null ELSE [os |-> f.os, archived |-> "ARCHIVED" \in f.flags]

Names == {o[1] : o \in Opens}

\* "New lpk files will take priority over old ones, but disk files still have
\* the highest priority" (lf_fs2.h:52-57), and "overwritten directories will be
\* used when creating new files" (lf_fs2.cpp:373): in whatever order directories
\* and archives are mounted and files created between, a name leads to the file
\* those rules name, while the table has had room for every file.
NamesResolve ==
  (~table.refused /\ table.handed <= table.max) =>
    \A n \in Names : Found(n) = Wanted(n)

\* The table's size of a file that nobody is writing is the size it has on
\* disk, which OpenFile takes it for, unless a writer was closed after another
\* file had taken its name (CloseFile looks the entry up by name).
SizesAgree ==
  (~crossed /\ table.handed <= table.max) =>
    \A s \in InUse : LET f == table.file[s] IN
      (f.flags \cap {"DIRECTORY", "ARCHIVED"} = {} /\ ~Writing(f.os)) => f.size = disk[f.os]

\* The pointer of an open file is inside it, the end-of-file flag tells whether
\* it is at the end, and the bytes the file spans are there in the OS file:
\* Read's clamp (lf_file.cpp:39) keeps it inside its archive entry.
FileInsideOSFile ==
  \A h \in Handles : LET f == fileOf[h] IN
    f # Null =>
      /\ f.pos <= f.size /\ (f.eof <=> f.pos >= f.size)
      /\ (f.onDisk /\ ~crossed /\ ~table.torn) => f.begin + f.size <= disk[f.os]
=============================================================================
