--------------------------- MODULE PartitionTable ---------------------------
(***************************************************************************)
(* CLFileSystem::CPartitionTable (lf_sys2/lf_fs2.cpp): the mounted files,  *)
(* kept in a master array of slots.  A slot in use is on the chain of its  *)
(* name's hash; the others wait on m_UnusedFiles, a CLfListStack.          *)
(*                                                                         *)
(* CLfListStack is not CLListStack: its Init does not clear the list       *)
(* first.  The table calls it again, from Clear, over a stack that still   *)
(* holds the slots nobody took, so the links of the stack are kept here,   *)
(* as far as Pop and Init read them (m_pFirst, m_pNext).                   *)
(*                                                                         *)
(* A table is a record, an operation an operator from table to table.      *)
(***************************************************************************)
EXTENDS Integers, Sequences, FiniteSets

CONSTANTS
  MaxSlots,      \* the largest nMaxFiles considered
  Paths,         \* the directories there are names in
  FileNames,     \* the names in a directory, "" being the directory's own
  Buckets,       \* 0..1023 in the code
  Hash(_),       \* GetHashValue1024 of a mounted name
  Null

\* szMountFileW: a directory and a name in it.
MountNames == Paths \X FileNames

ASSUME PartitionTableAssumption ==
  /\ MaxSlots \in Nat \ {0}
  /\ Null \notin 0..MaxSlots-1
  /\ Null \notin MountNames
  /\ \A name \in MountNames : Hash(name) \in Buckets

Slots == 0..MaxSlots-1

\* MOUNT_FILE: a name, the OS file behind it, its flags and where its bytes are.
MountInfo(name, os, flags, size, offset) ==
  [name |-> name, os |-> os, flags |-> flags, size |-> size, offset |-> offset]

EmptySlot == [name |-> Null, os |-> Null, flags |-> {}, size |-> 0, offset |-> 0]

\* The tables whose slots hold some of the given files.
Tables(files) ==
  [max : 1..MaxSlots, head : [Buckets -> Slots \cup {Null}], next : [Slots -> Slots \cup {Null}],
   file : [Slots -> files \cup {EmptySlot}], firstFree : Slots \cup {Null},
   nextFree : [Slots -> Slots \cup {Null}],
   hung : BOOLEAN, handed : Nat, refused : BOOLEAN, torn : BOOLEAN]

\* CLfListStack's Pop.  "handed" counts the slots taken off the stack since
\* Clear, and "torn" says that there was a time when one was taken twice (history).
Pop(T) == [T EXCEPT !.firstFree = T.nextFree[T.firstFree], !.handed = @ + 1,
                    !.torn = @ \/ T.handed >= T.max]

\* CLfListStack::Init: the slots are pushed in turn, over whatever the stack
\* held, which the first of them is linked to.
PushAll(T) ==
  [T EXCEPT !.firstFree = T.max - 1,
            !.nextFree = [s \in Slots |-> IF s = 0 THEN T.firstFree
                                         ELSE IF s < T.max THEN s - 1 ELSE T.nextFree[s]]]

\* The constructor.  "hung" says that a walk along a chain never came back, and
\* "refused" that there was no slot for some file (history).
NewTable(max) ==
  PushAll([max |-> max, head |-> [b \in Buckets |-> Null],
           next |-> [s \in Slots |-> Null], file |-> [s \in Slots |-> EmptySlot],
           firstFree |-> Null, nextFree |-> [s \in Slots |-> Null],
           hung |-> FALSE, handed |-> 0, refused |-> FALSE, torn |-> FALSE])

\* Clear.  What a slot held is not read again before it is taken, when it is
\* written over: the slots are emptied here.
Clear(T) ==
  [PushAll(T) EXCEPT !.head = [b \in Buckets |-> Null],
                     !.next = [s \in Slots |-> Null], !.file = [s \in Slots |-> EmptySlot],
                     !.handed = 0, !.refused = FALSE]

-----------------------------------------------------------------------------
\* The i-th slot on the chain of bucket b, Null past its end.
Visited(T, b) ==
  LET walk[i \in 0..MaxSlots] ==
        IF i = 0 THEN T.head[b]
        ELSE IF walk[i - 1] = Null THEN Null ELSE T.next[walk[i - 1]]
  IN  walk

EndsWell(T, b) == Visited(T, b)[T.max] = Null

OnChain(T, b) == {Visited(T, b)[i] : i \in 0..MaxSlots} \ {Null}

\* The places on its chain where a name is met, before the walk goes in circles.
Meets(T, name) ==
  LET walk == Visited(T, Hash(name))
  IN  {i \in 0..T.max - 1 : walk[i] # Null /\ T.file[walk[i]].name = name}

\* The slot at the first of some places, Null when there is none.
FirstOf(T, name, places) ==
  IF places = {} THEN Null
  ELSE Visited(T, Hash(name))[CHOOSE i \in places : \A j \in places : i <= j]

SlotNamed(T, name) == FirstOf(T, name, Meets(T, name))

\* FindFile.  MOUNT_FILE_EMPTY is skipped, and so is an entry whose flags are
\* MOUNT_FILE_ARCHIVED and nothing else.
FindSlot(T, name) ==
  LET walk == Visited(T, Hash(name))
  IN  FirstOf(T, name, {i \in Meets(T, name) :
                          T.file[walk[i]].flags \notin {{"ARCHIVED"}, {"EMPTY"}}})

\* A walk that finds nothing on a chain that has no end.
Hangs(T, name) == ~EndsWell(T, Hash(name)) /\ Meets(T, name) = {}

FindFile(T, name) ==
  IF FindSlot(T, name) = Null THEN Null ELSE T.file[FindSlot(T, name)]

-----------------------------------------------------------------------------
\* A slip: OVERWRITE is looked at first and the archive flag is not.
MayOverwriteAny(old, flags) == flags \cap {"OVERWRITE", "OVERWRITELPKONLY"} # {}

\* The flags of the call against the entry that has the name already.
\* OVERWRITELPKONLY is looked at first.
MayOverwrite(old, flags) ==
  IF "OVERWRITELPKONLY" \in flags THEN "ARCHIVED" \in old.flags
  ELSE "OVERWRITE" \in flags

LastOf(T, b) ==
  LET walk == Visited(T, b)
  IN  walk[CHOOSE i \in 0..T.max - 1 : walk[i] # Null /\ walk[i + 1] = Null]

\* A new name takes a slot off the stack and goes to the end of its chain.
AddEntry(T, f) ==
  LET s == T.firstFree
      b == Hash(f.name)
      taken == [Pop(T) EXCEPT !.file[s] = f, !.next[s] = Null]
  IN  IF T.head[b] = Null THEN [taken EXCEPT !.head[b] = s]
      ELSE [taken EXCEPT !.next[LastOf(T, b)] = s]

\* What MountFile answers, and the table it leaves.
CanMount(T, f, flags) ==
  LET s == SlotNamed(T, f.name)
  IN  /\ ~T.hung /\ ~Hangs(T, f.name)
      /\ IF s = Null THEN T.firstFree # Null ELSE MayOverwrite(T.file[s], flags)

\* A slip: the chain is not searched for the name.
MountFileBlindly(T, f, flags) ==
  IF T.firstFree = Null \/ ~EndsWell(T, Hash(f.name)) THEN T ELSE AddEntry(T, f)

MountFile(T, f, flags) ==
  LET s == SlotNamed(T, f.name)
  IN  IF Hangs(T, f.name) THEN [T EXCEPT !.hung = TRUE]
      ELSE IF ~CanMount(T, f, flags) THEN [T EXCEPT !.refused = @ \/ s = Null]
      ELSE IF s = Null THEN AddEntry(T, f)
      ELSE [T EXCEPT !.file[s] = f]
=============================================================================
