------------------------------ MODULE CvarList ------------------------------
(***************************************************************************)
(* The console variables (lc_sys2/lc_cvar.cpp) and the definitions and     *)
(* command names (lc_def_ANSI.cpp): hash tables of chained entries.        *)
(*                                                                         *)
(* A table maps each slot to its entries in the order of the chain, and an *)
(* empty slot to << >>.  The first entry of a slot lives in the array      *)
(* itself.  Texts are sequences of characters; the name of a definition    *)
(* counts as one character.  A variable's nValue is not kept: it is always *)
(* the Number of its text.                                                 *)
(***************************************************************************)
EXTENDS Naturals, SequencesExt

CONSTANTS
  SlotOf,       \* the slot a name, of any of the three kinds, hashes to; there
                \* are no entries of other names
  Definitions,  \* the <<name, number>> of LG_RegisterCVars, in order
  MaxLen        \* the characters a variable holds, LC_CVAR_MAX_LEN - 1

Slots == Range(SlotOf)
EmptyTable == [s \in Slots |-> << >>]

-----------------------------------------------------------------------------
\* An entry of that name is looked for along the chain, from its first entry.
Chain(table, name) == IF name \in DOMAIN SlotOf THEN table[SlotOf[name]] ELSE << >>
Places(table, name) ==
  {i \in DOMAIN Chain(table, name) : Chain(table, name)[i].name = name}
Has(table, name) == Places(table, name) # {}
Get(table, name) == Chain(table, name)[Min(Places(table, name))]

\* A newcomer is linked in right behind the first entry.
Inserted(table, x) ==
  [table EXCEPT ![SlotOf[x.name]] = IF @ = << >> THEN <<x>> ELSE InsertAt(@, 2, x)]

Replaced(table, x) ==
  [table EXCEPT ![SlotOf[x.name]] =
     [i \in DOMAIN @ |-> IF @[i].name = x.name THEN x ELSE @[i]]]

-----------------------------------------------------------------------------
(* CDefs.                                                                  *)

\* AddDef: a second definition replaces the first unless LC_DEF_NOREDEFINE.
AddDef(table, name, number, redefine) ==
  LET def == [name |-> name, number |-> number]
  IN  IF ~Has(table, name) THEN Inserted(table, def)
      ELSE IF redefine THEN Replaced(table, def) ELSE table

Defs == FoldLeft(LAMBDA t, d : AddDef(t, d[1], d[2], TRUE), EmptyTable, Definitions)

\* What a text stands for: its definition's value, or what atoi makes of it,
\* here of a text that is one digit.
Digits == <<"0", "1", "2", "3", "4", "5", "6", "7", "8", "9">>
Number(text) ==
  IF \E d \in DOMAIN SlotOf : text = <<d>> /\ Has(Defs, d)
  THEN Get(Defs, text[1]).number
  ELSE IF \E i \in DOMAIN Digits : text = <<Digits[i]>>
       THEN (CHOOSE i \in DOMAIN Digits : text = <<Digits[i]>>) - 1 ELSE 0

-----------------------------------------------------------------------------
(* CCvarList.                                                              *)

\* What a variable holds of a text.
Cut(text) == SubSeq(text, 1, IF Len(text) < MaxLen THEN Len(text) ELSE MaxLen)

\* Set, by text.
Set(cvar, text) ==
  IF "ROM" \in cvar.flags THEN cvar ELSE [cvar EXCEPT !.value = Cut(text)]

\* Register: the variable has no flags while it gets its value.
Register(table, name, text, flags) ==
  IF Has(table, name) THEN table
  ELSE Inserted(table, [Set([name |-> name, value |-> << >>, flags |-> {}], text)
                          EXCEPT !.flags = flags])

\* GetFirst and GetNext: a place is a slot and an entry of its chain; Nowhere
\* is the null pointer.
Nowhere == <<>>
FirstFrom(table, from) ==
  LET used == {s \in Slots : s >= from /\ table[s] # << >>}
  IN  IF used = {} THEN Nowhere ELSE <<CHOOSE s \in used : \A t \in used : s <= t, 1>>
\* A slip: the chains are not followed.
GetNextSlot(table, at) == FirstFrom(table, at[1] + 1)
GetNext(table, at) ==
  IF at[2] < Len(table[at[1]]) THEN <<at[1], at[2] + 1>> ELSE FirstFrom(table, at[1] + 1)

\* The variables a loop over GetFirst and GetNext sees, in order.
CountOf(table) == Cardinality(UNION {{s} \X DOMAIN table[s] : s \in Slots})
Listing(table) ==
  LET place[n \in 1..CountOf(table) + 1] ==
        IF n = 1 THEN FirstFrom(table, 0)
        ELSE IF place[n - 1] = Nowhere THEN Nowhere ELSE GetNext(table, place[n - 1])
      seen == {n \in 1..CountOf(table) : place[n] # Nowhere}
  IN  [n \in 1..Cardinality(seen) |-> table[place[n][1]][place[n][2]]]
=============================================================================
