--------------------------- MODULE FrontendProofs ---------------------------
(* Proofs about Frontend: of its keys, for which the window loop, the input *)
(* class and the flags of the graphical console are all that matters, and   *)
(* of the console variables behind it.                                      *)
EXTENDS Frontend, SequenceLemmas

IInv == TypeOK /\ KeysAreAway

\* The program starts, and starts anew, with the invariant true.
LEMMA FreshInv ==
  ASSUME Fresh PROVE IInv'
<1>1. /\ held' = {} /\ kbData' = {} /\ mouseState' = {} /\ commands' = {}
      /\ ~bActive' /\ bActive' \in BOOLEAN
      /\ bDeactivating' /\ bDeactivating' \in BOOLEAN
      /\ position' = 0
  BY DEF Fresh
<1>2. 0 \in Int /\ 0 <= Half
  BY FrontendAssumption
<1> QED
  BY <1>1, <1>2 DEF IInv, TypeOK, KeysAreAway

LEMMA InitInv == Init => IInv
<1> SUFFICES ASSUME Init PROVE IInv
  OBVIOUS
<1>1. /\ held = {} /\ kbData = {} /\ mouseState = {} /\ commands = {}
      /\ ~bActive /\ bActive \in BOOLEAN
      /\ bDeactivating /\ bDeactivating \in BOOLEAN
      /\ position = 0
  BY DEF Init
<1>2. 0 \in Int /\ 0 <= Half
  BY FrontendAssumption
<1> QED
  BY <1>1, <1>2 DEF IInv, TypeOK, KeysAreAway

\* A step that leaves the devices and the graphical console alone.
LEMMA QuietStep ==
  ASSUME IInv, UNCHANGED <<held, inputVars, vconVars>> PROVE IInv'
  BY DEF IInv, TypeOK, KeysAreAway, inputVars, vconVars

\* The console key, seen by the input class, takes every other key with it.
LEMMA UpdateClears ==
  ASSUME IInv, Update
  PROVE  /\ kbData' \subseteq Keys /\ mouseState' \subseteq Buttons
         /\ commands' \subseteq Keys \cup Buttons
         /\ bActive => kbData' = {}
         /\ ConsoleKeyDown => kbData' = {}
  BY DEF IInv, TypeOK, KeysAreAway, Update, Polled, KeyboardAcquired, MouseAcquired, CommandsOf, Cleared, ConsoleKeyDown

\* The console stays on the screen, and goes only when it is told to.
LEMMA PosBounds ==
  ASSUME NEW STATE active, NEW ACTION deactivating, NEW slide \in Slides,
         position \in Int, position <= Half,
         UpdatePos(active, deactivating, slide)
  PROVE  /\ bActive' \in BOOLEAN
         /\ position' \in Int /\ position' <= Half
         /\ bActive' => active
         /\ ~bActive' => ~active \/ deactivating
<1>1. slide \in Nat /\ Half \in Nat
  BY FrontendAssumption
<1>2. bActive' \in BOOLEAN
  BY DEF UpdatePos
<1>3. bActive' => active
  BY DEF UpdatePos
<1>4. ~bActive' => ~active \/ deactivating
  BY DEF UpdatePos
<1>5. position' \in Int /\ position' <= Half
  BY <1>1 DEF UpdatePos
<1> QED
  BY <1>2, <1>3, <1>4, <1>5

LEMMA FrameInv ==
  ASSUME IInv, Frame PROVE IInv'
<1>1. CASE ShouldQuit
  BY <1>1, FreshInv DEF Frame
<1>2. CASE ~ShouldQuit
  <2> DEFINE active == bActive \/ (ConsoleKeyDown /\ bDeactivating)
  <2>1. /\ Update
        /\ bDeactivating' = (bDeactivating # ConsoleKeyDown)
        /\ UNCHANGED held
    BY <1>2 DEF Frame
  <2>2. /\ bActive' \in BOOLEAN
        /\ position' \in Int /\ position' <= Half
        /\ bActive' => active
        /\ ~bActive' => ~active \/ bDeactivating'
    <3>1. CASE \E slide \in Slides : UpdatePos(active, bDeactivating', slide)
      BY <3>1, PosBounds DEF IInv, TypeOK
    <3>2. CASE bActive' = active /\ UNCHANGED position
      BY <3>2, <2>1 DEF IInv, TypeOK, ConsoleKeyDown
    <3>3. \/ \E slide \in Slides : UpdatePos(active, bDeactivating', slide)
          \/ bActive' = active /\ UNCHANGED position
      BY <1>2 DEF Frame
    <3> HIDE DEF active
    <3> QED
      BY <3>1, <3>2, <3>3
  <2>3. bDeactivating' \in BOOLEAN
    BY <2>1, Zenon DEF IInv, TypeOK, ConsoleKeyDown
  <2>4. ~active => bDeactivating'
    BY <2>1 DEF IInv, TypeOK, KeysAreAway, ConsoleKeyDown
  <2> QED
    BY <2>1, <2>2, <2>3, <2>4, UpdateClears DEF IInv, TypeOK, KeysAreAway
<1> QED
  BY <1>1, <1>2

LEMMA DispatchInv ==
  ASSUME IInv, Dispatch PROVE IInv'
  BY DEF IInv, TypeOK, KeysAreAway, Dispatch, Toggle, inputVars

LEMMA NextInv ==
  ASSUME IInv, [Next]_vars PROVE IInv'
<1>1. CASE Start \/ StartVideo
  BY <1>1, QuietStep DEF Start, StartVideo, windowVars
<1>2. CASE Peek
  BY <1>2, QuietStep DEF Peek
<1>3. CASE Dispatch
  BY <1>3, DispatchInv
<1>4. CASE Frame
  BY <1>4, FrameInv
<1>5. CASE Crash
  BY <1>5, FreshInv DEF Crash
<1>6. CASE \E args \in Typed : TypeLine(args)
  BY <1>6, QuietStep, FreshInv DEF TypeLine, windowVars
<1>7. CASE \E k \in Keys \cup Buttons : Press(k) \/ Release(k)
  BY <1>7 DEF Press, Release, User, IInv, TypeOK, KeysAreAway, inputVars, vconVars
<1>8. CASE SwitchFocus
  BY <1>8, QuietStep DEF SwitchFocus, User
<1>9. CASE UNCHANGED vars
  BY <1>9, QuietStep DEF vars, windowVars
<1> QED
  BY <1>1, <1>2, <1>3, <1>4, <1>5, <1>6, <1>7, <1>8, <1>9 DEF Next

\* The input class and the graphical console have well-formed data, the
\* console no further down than half the screen, and while it is active no key
\* is left of the game's (lg_sys.cpp:63-65, li_sys.cpp:226-233).
THEOREM KeysAreAwayAlways == Spec => [](TypeOK /\ KeysAreAway)
<1>1. Init => IInv
  BY InitInv
<1>2. IInv /\ [Next]_vars => IInv'
  BY NextInv
<1>3. IInv => TypeOK /\ KeysAreAway
  BY DEF IInv
<1> QED
  BY <1>1, <1>2, <1>3, PTL DEF Spec

\* No frame that starts with the console active makes a command of a key, for
\* every keyboard, mouse, screen and message queue, whatever is typed and
\* whatever the settings.
THEOREM ConsoleOwnsKeysAlways == Spec => ConsoleOwnsKeys
<1>1. ASSUME IInv, Frame, bActive
      PROVE  commands' \cap Keys = {}
  <2>1. CASE ShouldQuit
    BY <1>1, <2>1 DEF Frame, Fresh
  <2>2. CASE ~ShouldQuit
    <3>1. Update /\ kbData = {} /\ mouseState \subseteq Buttons
      BY <1>1, <2>2 DEF Frame, IInv, TypeOK, KeysAreAway
    <3>2. commands' \subseteq Buttons
      BY <1>1, <3>1 DEF Update, Polled, KeyboardAcquired, MouseAcquired, CommandsOf
    <3> QED
      BY <3>2, FrontendAssumption
  <2> QED
    BY <2>1, <2>2
<1>2. IInv => [Frame /\ bActive => commands' \cap Keys = {}]_vars
  BY <1>1
<1>3. Spec => []IInv
  <2>1. IInv /\ [Next]_vars => IInv'
    BY NextInv
  <2> QED
    BY InitInv, <2>1, PTL DEF Spec
<1> QED
  BY <1>2, <1>3, PTL DEF ConsoleOwnsKeys

-----------------------------------------------------------------------------
(* Tables of console variables.                                            *)

\* An entry with the fields of a variable, whatever its text is made of.
IsCvar(x) == x = [name |-> x.name, value |-> x.value, flags |-> x.flags]

\* Every entry is in the slot its name hashes to, and the only one of its name.
IsChain(c, s) ==
  /\ c \in Seq({c[i] : i \in DOMAIN c})
  /\ \A i \in 1..Len(c) :
       /\ IsCvar(c[i])
       /\ c[i].name \in DOMAIN SlotOf /\ SlotOf[c[i].name] = s
       /\ \A j \in 1..Len(c) : c[i].name = c[j].name => i = j
IsTable(t) == t = [s \in Slots |-> t[s]] /\ \A s \in Slots : IsChain(t[s], s)

\* Two tables have the same variables but for the one of a name.
Agree(u, t, name) ==
  \A n : n # name => /\ Has(u, n) <=> Has(t, n)
                     /\ Has(t, n) => Get(u, n) = Get(t, n)

LEMMA ChainOf ==
  ASSUME NEW t, IsTable(t), NEW name \in DOMAIN SlotOf
  PROVE  LET c == t[SlotOf[name]]
         IN  /\ SlotOf[name] \in Slots
             /\ Chain(t, name) = c
             /\ c \in Seq({c[i] : i \in DOMAIN c})
             /\ Len(c) \in Nat /\ DOMAIN c = 1..Len(c)
<1>1. SlotOf[name] \in Slots
  BY DEF Slots, Range
<1>2. t[SlotOf[name]] \in Seq({t[SlotOf[name]][i] : i \in DOMAIN t[SlotOf[name]]})
  BY <1>1 DEF IsTable, IsChain
<1> QED  BY <1>1, <1>2, LenProperties DEF Chain

\* The entry of a name is found wherever it is in its chain.
LEMMA EntryFound ==
  ASSUME NEW t, IsTable(t), NEW name \in DOMAIN SlotOf,
         NEW i \in 1..Len(t[SlotOf[name]]), t[SlotOf[name]][i].name = name
  PROVE  Has(t, name) /\ Get(t, name) = t[SlotOf[name]][i]
<1> DEFINE c == t[SlotOf[name]]
<1>1. /\ SlotOf[name] \in Slots /\ Chain(t, name) = c
      /\ Len(c) \in Nat /\ DOMAIN c = 1..Len(c)
  BY ChainOf
<1>2. Places(t, name) = {j \in 1..Len(c) : c[j].name = name}
  BY <1>1 DEF Places
<1>3. \A j \in 1..Len(c) : c[j].name = c[i].name => j = i
  BY <1>1 DEF IsTable, IsChain
<1> HIDE DEF c
<1>4. Places(t, name) = {i}
  BY <1>2, <1>3 DEF c
<1>5. Min({i}) = i
  BY <1>1 DEF Min, c
<1> QED  BY <1>1, <1>4, <1>5 DEF Has, Get, c

LEMMA EntryThere ==
  ASSUME NEW t, IsTable(t), NEW name, Has(t, name)
  PROVE  /\ name \in DOMAIN SlotOf
         /\ \E i \in 1..Len(t[SlotOf[name]]) :
              t[SlotOf[name]][i].name = name /\ Get(t, name) = t[SlotOf[name]][i]
         /\ IsCvar(Get(t, name)) /\ Get(t, name).name = name
<1>1. name \in DOMAIN SlotOf
  <2>1. SUFFICES ASSUME name \notin DOMAIN SlotOf PROVE FALSE
    OBVIOUS
  <2>2. Chain(t, name) = << >>
    BY <2>1 DEF Chain
  <2> QED  BY <2>2 DEF Has, Places
<1> DEFINE c == t[SlotOf[name]]
<1>2. /\ SlotOf[name] \in Slots /\ Chain(t, name) = c
      /\ Len(c) \in Nat /\ DOMAIN c = 1..Len(c)
  BY <1>1, ChainOf
<1>3. PICK i \in 1..Len(c) : c[i].name = name
  BY <1>2 DEF Has, Places
<1>4. Get(t, name) = c[i]
  BY <1>1, <1>3, EntryFound
<1>5. IsCvar(c[i])
  BY <1>2, <1>3 DEF IsTable, IsChain
<1> QED  BY <1>1, <1>3, <1>4, <1>5

\* Two tables that have the same entries but for one name agree on the others.
LEMMA SameEntries ==
  ASSUME NEW t, IsTable(t), NEW u, IsTable(u), NEW name,
         \A s \in Slots :
           /\ \A i \in 1..Len(t[s]) : t[s][i].name # name =>
                \E j \in 1..Len(u[s]) : u[s][j] = t[s][i]
           /\ \A j \in 1..Len(u[s]) : u[s][j].name # name =>
                \E i \in 1..Len(t[s]) : u[s][j] = t[s][i]
  PROVE  Agree(u, t, name)
<1> SUFFICES ASSUME NEW n, n # name
             PROVE  /\ Has(u, n) <=> Has(t, n)
                    /\ Has(t, n) => Get(u, n) = Get(t, n)
  BY DEF Agree
<1>1. ASSUME Has(t, n) PROVE Has(u, n) /\ Get(u, n) = Get(t, n)
  <2>1. PICK i \in 1..Len(t[SlotOf[n]]) :
          t[SlotOf[n]][i].name = n /\ Get(t, n) = t[SlotOf[n]][i]
    BY <1>1, EntryThere
  <2>2. n \in DOMAIN SlotOf /\ SlotOf[n] \in Slots
    BY <1>1, EntryThere, ChainOf
  <2>3. PICK j \in 1..Len(u[SlotOf[n]]) : u[SlotOf[n]][j] = t[SlotOf[n]][i]
    BY <2>1, <2>2
  <2>4. Has(u, n) /\ Get(u, n) = u[SlotOf[n]][j]
    BY <2>1, <2>2, <2>3, EntryFound
  <2> QED  BY <2>1, <2>3, <2>4
<1>2. ASSUME Has(u, n) PROVE Has(t, n)
  <2>1. PICK j \in 1..Len(u[SlotOf[n]]) :
          u[SlotOf[n]][j].name = n /\ Get(u, n) = u[SlotOf[n]][j]
    BY <1>2, EntryThere
  <2>2. n \in DOMAIN SlotOf /\ SlotOf[n] \in Slots
    BY <1>2, EntryThere, ChainOf
  <2>3. PICK i \in 1..Len(t[SlotOf[n]]) : u[SlotOf[n]][j] = t[SlotOf[n]][i]
    BY <2>1, <2>2
  <2> QED  BY <2>1, <2>2, <2>3, EntryFound
<1> QED  BY <1>1, <1>2

\* A chain with a newcomer: x is at some place p, the others keep their order.
Joined(d, c, x) ==
  \E p \in 1..Len(c)+1 : \A i \in 1..Len(c)+1 :
    d[i] = IF i = p THEN x ELSE IF i < p THEN c[i] ELSE c[i-1]

LEMMA InsertedChain ==
  ASSUME NEW S, NEW c \in Seq(S), NEW x \in S, NEW d
  PROVE  d = (IF c = << >> THEN <<x>> ELSE InsertAt(c, 2, x)) =>
           d \in Seq(S) /\ Len(d) = Len(c) + 1 /\ Joined(d, c, x)
<1> DEFINE n == Len(c)
<1>1. n \in Nat /\ (c = << >> <=> n = 0)
  BY LenProperties, EmptySeq
<1>2. ASSUME c = << >>, d = <<x>>
      PROVE  d \in Seq(S) /\ Len(d) = Len(c) + 1 /\ Joined(d, c, x)
  <2>1. Len(c) = 0
    BY <1>1, <1>2
  <2>2. d \in Seq(S) /\ Len(d) = 1 /\ d[1] = x
    BY <1>2
  <2>3. \A i \in 1..Len(c)+1 : d[i] = IF i = 1 THEN x ELSE IF i < 1 THEN c[i] ELSE c[i-1]
    BY <2>1, <2>2
  <2>4. 1 \in 1..Len(c)+1
    BY <2>1
  <2>5. Joined(d, c, x)
    BY <2>3, <2>4 DEF Joined
  <2> QED  BY <2>1, <2>2, <2>5
<1>3. ASSUME c # << >>, d = InsertAt(c, 2, x)
      PROVE  d \in Seq(S) /\ Len(d) = Len(c) + 1 /\ Joined(d, c, x)
  <2>1. Len(c) \in Nat /\ Len(c) > 0
    BY <1>1, <1>3
  <2>2. c # << >>
    BY <1>3
  <2>3. /\ InsertAt(c, 2, x) \in Seq(S) /\ Len(InsertAt(c, 2, x)) = Len(c) + 1
        /\ InsertAt(c, 2, x)[1] = c[1] /\ InsertAt(c, 2, x)[2] = x
        /\ \A i \in 3..Len(c)+1 : InsertAt(c, 2, x)[i] = c[i-1]
    BY <2>2, InsertAtSecond
  <2>4. /\ d \in Seq(S) /\ Len(d) = Len(c) + 1 /\ d[1] = c[1] /\ d[2] = x
        /\ \A i \in 3..Len(c)+1 : d[i] = c[i-1]
    BY <1>3, <2>3
  <2>5. \A i \in 1..Len(c)+1 : d[i] = IF i = 2 THEN x ELSE IF i < 2 THEN c[i] ELSE c[i-1]
    BY <2>1, <2>4
  <2>6. 2 \in 1..Len(c)+1
    BY <2>1
  <2>7. Joined(d, c, x)
    BY <2>5, <2>6 DEF Joined
  <2> QED  BY <2>4, <2>7
<1>4. c # << >> /\ d = InsertAt(c, 2, x) => d \in Seq(S) /\ Len(d) = Len(c) + 1 /\ Joined(d, c, x)
  BY <1>3
<1>5. c = << >> /\ d = <<x>> => d \in Seq(S) /\ Len(d) = Len(c) + 1 /\ Joined(d, c, x)
  BY <1>2
<1> QED  BY <1>4, <1>5

LEMMA InsertedTable ==
  ASSUME NEW t, IsTable(t), NEW x, IsCvar(x), x.name \in DOMAIN SlotOf,
         ~Has(t, x.name), NEW u
  PROVE  u = Inserted(t, x) =>
           /\ IsTable(u) /\ Has(u, x.name) /\ Get(u, x.name) = x
           /\ Agree(u, t, x.name)
<1> DEFINE h == SlotOf[x.name]
           c == t[h]
           d == IF c = << >> THEN <<x>> ELSE InsertAt(c, 2, x)
<1>1. h \in Slots /\ c \in Seq({c[i] : i \in DOMAIN c}) /\ Len(c) \in Nat
  BY ChainOf
<1>2. u = Inserted(t, x) => u = [t EXCEPT ![h] = d]
  BY DEF Inserted
<1> HIDE DEF d
<1>3. SUFFICES ASSUME /\ u = [s \in Slots |-> u[s]] /\ u[h] = d
                      /\ \A s \in Slots \ {h} : u[s] = t[s]
               PROVE  /\ IsTable(u) /\ Has(u, x.name) /\ Get(u, x.name) = x
                      /\ Agree(u, t, x.name)
  BY <1>1, <1>2 DEF IsTable, IsChain
<1>4. d \in Seq({d[i] : i \in DOMAIN d}) /\ Len(d) = Len(c) + 1 /\ Joined(d, c, x)
  <2>1. d = IF c = << >> THEN <<x>> ELSE InsertAt(c, 2, x)
    BY DEF d
  <2> DEFINE S == {c[i] : i \in DOMAIN c} \cup {x}
  <2>2. c \in Seq(S) /\ x \in S
    BY <1>1
  <2> HIDE DEF c, S
  <2>3. d \in Seq(S) /\ Len(d) = Len(c) + 1 /\ Joined(d, c, x)
    BY <2>1, <2>2, InsertedChain
  <2>4. d \in Seq({d[i] : i \in DOMAIN d})
    BY <2>3, OwnMembers
  <2> QED  BY <2>3, <2>4
<1>5. d \in Seq({d[i] : i \in DOMAIN d}) /\ Len(d) = Len(c) + 1
  BY <1>4
<1>6. PICK p \in 1..Len(c)+1 : \A i \in 1..Len(c)+1 :
        d[i] = IF i = p THEN x ELSE IF i < p THEN c[i] ELSE c[i-1]
  BY <1>4 DEF Joined
<1>7. \A i \in 1..Len(c) : /\ IsCvar(c[i]) /\ c[i].name \in DOMAIN SlotOf
                           /\ SlotOf[c[i].name] = h
                           /\ \A j \in 1..Len(c) : c[i].name = c[j].name => i = j
  BY <1>1 DEF IsTable, IsChain
<1>8. \A i \in 1..Len(c) : c[i].name # x.name
  BY EntryFound
<1>9. ASSUME NEW i \in 1..Len(d)
      PROVE  \/ i = p /\ d[i] = x
             \/ i < p /\ i \in 1..Len(c) /\ d[i] = c[i]
             \/ i > p /\ i-1 \in 1..Len(c) /\ d[i] = c[i-1]
  <2> HIDE DEF c
  <2>1. i \in 1..Len(c)+1 /\ p \in 1..Len(c)+1 /\ Len(c) \in Nat
    BY <1>1, <1>5
  <2>2. i < p => i \in 1..Len(c)
    BY <2>1
  <2>3. i > p => i-1 \in 1..Len(c)
    BY <2>1
  <2>4. d[i] = IF i = p THEN x ELSE IF i < p THEN c[i] ELSE c[i-1]
    BY <2>1, <1>6
  <2>5. i = p \/ i < p \/ i > p
    BY <2>1
  <2> QED  BY <2>1, <2>2, <2>3, <2>4, <2>5
<1> HIDE DEF c
<1>10. ASSUME NEW i \in 1..Len(d)
       PROVE  /\ IsCvar(d[i]) /\ d[i].name \in DOMAIN SlotOf /\ SlotOf[d[i].name] = h
              /\ \A j \in 1..Len(d) : d[i].name = d[j].name => i = j
  <2>1. IsCvar(d[i]) /\ d[i].name \in DOMAIN SlotOf /\ SlotOf[d[i].name] = h
    BY <1>7, <1>9
  <2>2. ASSUME NEW j \in 1..Len(d), d[i].name = d[j].name PROVE i = j
    <3>1. CASE i = p
      BY <3>1, <2>2, <1>8, <1>9
    <3>2. CASE i < p
      <4>1. i \in 1..Len(c) /\ d[i] = c[i]  BY <3>2, <1>9
      <4>2. CASE j < p
        BY <4>1, <4>2, <2>2, <1>7, <1>9
      <4>3. CASE j > p
        <5>1. j-1 \in 1..Len(c) /\ d[j] = c[j-1]  BY <4>3, <1>9
        <5>2. i = j-1  BY <5>1, <4>1, <2>2, <1>7
        <5> QED  BY <5>2, <4>3, <3>2
      <4> QED  BY <4>1, <4>2, <4>3, <2>2, <1>8, <1>9
    <3>3. CASE i > p
      <4>1. i-1 \in 1..Len(c) /\ d[i] = c[i-1]  BY <3>3, <1>9
      <4>2. CASE j < p
        <5>1. j \in 1..Len(c) /\ d[j] = c[j]  BY <4>2, <1>9
        <5>2. i-1 = j  BY <5>1, <4>1, <2>2, <1>7
        <5> QED  BY <5>2, <4>2, <3>3
      <4>3. CASE j > p
        <5>1. j-1 \in 1..Len(c) /\ d[j] = c[j-1]  BY <4>3, <1>9
        <5>2. i-1 = j-1  BY <5>1, <4>1, <2>2, <1>7
        <5> QED  BY <5>2
      <4> QED  BY <4>1, <4>2, <4>3, <2>2, <1>8, <1>9
    <3> QED  BY <3>1, <3>2, <3>3, <1>9
  <2> QED  BY <2>1, <2>2
<1>11. IsTable(u)
  <2>1. IsChain(d, h)
    BY <1>5, <1>10 DEF IsChain
  <2>2. ASSUME NEW s \in Slots PROVE IsChain(u[s], s)
    <3>1. CASE s = h  BY <3>1, <2>1, <1>3
    <3>2. CASE s # h
      <4>1. u[s] = t[s]  BY <3>2, <1>3
      <4> QED  BY <4>1 DEF IsTable
    <3> QED  BY <3>1, <3>2
  <2> QED  BY <1>3, <2>2 DEF IsTable
<1>12. p \in 1..Len(d) /\ d[p] = x
  BY <1>1, <1>5, <1>6
<1>13. Has(u, x.name) /\ Get(u, x.name) = x
  BY <1>3, <1>11, <1>12, EntryFound
<1>14. \A s \in Slots :
         /\ \A i \in 1..Len(t[s]) : t[s][i].name # x.name =>
              \E j \in 1..Len(u[s]) : u[s][j] = t[s][i]
         /\ \A j \in 1..Len(u[s]) : u[s][j].name # x.name =>
              \E i \in 1..Len(t[s]) : u[s][j] = t[s][i]
  <2>1. ASSUME NEW i \in 1..Len(c) PROVE \E j \in 1..Len(d) : d[j] = c[i]
    <3>1. CASE i < p
      <4>1. i \in 1..Len(d) /\ d[i] = c[i]  BY <3>1, <1>1, <1>5, <1>6
      <4> QED  BY <4>1
    <3>2. CASE ~(i < p)
      <4>1. i+1 \in 1..Len(c)+1 /\ i+1 # p /\ ~(i+1 < p) /\ (i+1)-1 = i
        BY <3>2, <1>1
      <4>2. d[i+1] = c[(i+1)-1]
        BY <4>1, <1>6
      <4> QED  BY <4>1, <4>2, <1>5
    <3> QED  BY <3>1, <3>2
  <2>2. ASSUME NEW j \in 1..Len(d), d[j].name # x.name
        PROVE  \E i \in 1..Len(c) : d[j] = c[i]
    BY <2>2, <1>9
  <2>3. t[h] = c
    BY DEF c
  <2>4. ASSUME NEW s \in Slots
        PROVE  /\ \A i \in 1..Len(t[s]) : t[s][i].name # x.name =>
                    \E j \in 1..Len(u[s]) : u[s][j] = t[s][i]
               /\ \A j \in 1..Len(u[s]) : u[s][j].name # x.name =>
                    \E i \in 1..Len(t[s]) : u[s][j] = t[s][i]
    <3>1. CASE s = h  BY <3>1, <1>3, <2>1, <2>2, <2>3
    <3>2. CASE s # h
      <4>1. u[s] = t[s]  BY <3>2, <1>3
      <4> QED  BY <4>1, Zenon
    <3> QED  BY <3>1, <3>2
  <2> QED  BY <2>4
<1>15. Agree(u, t, x.name)
  BY <1>11, <1>14, SameEntries
<1> QED  BY <1>11, <1>13, <1>15

\* The variable of a name is replaced wherever it is.
LEMMA ReplacedTable ==
  ASSUME NEW t, IsTable(t), NEW x, IsCvar(x), Has(t, x.name), NEW u
  PROVE  u = Replaced(t, x) =>
           IsTable(u) /\ Has(u, x.name) /\ Get(u, x.name) = x /\ Agree(u, t, x.name)
<1> DEFINE h == SlotOf[x.name]
           c == t[h]
           d == [i \in DOMAIN c |-> IF c[i].name = x.name THEN x ELSE c[i]]
<1>1. x.name \in DOMAIN SlotOf
  BY EntryThere
<1>2. h \in Slots /\ c \in Seq({c[i] : i \in DOMAIN c}) /\ Len(c) \in Nat /\ DOMAIN c = 1..Len(c)
  BY <1>1, ChainOf
<1>3. u = Replaced(t, x) => u = [t EXCEPT ![h] = d]
  BY DEF Replaced
<1>4. /\ d \in Seq({d[i] : i \in DOMAIN d}) /\ Len(d) = Len(c)
      /\ \A i \in 1..Len(c) : d[i] = IF c[i].name = x.name THEN x ELSE c[i]
  <2> HIDE DEF c
  <2>1. /\ d \in [1..Len(c) -> {d[i] : i \in DOMAIN d}]
        /\ \A i \in 1..Len(c) : d[i] = IF c[i].name = x.name THEN x ELSE c[i]
    BY <1>2
  <2> HIDE DEF d
  <2>2. d \in Seq({d[i] : i \in DOMAIN d})
    BY <1>2, <2>1, SeqDef, ZenonT(60)
  <2>3. Len(d) = Len(c)
    BY <1>2, <2>1, <2>2, LenProperties
  <2> QED  BY <2>1, <2>2, <2>3
<1> HIDE DEF d
<1>5. SUFFICES ASSUME /\ u = [s \in Slots |-> u[s]] /\ u[h] = d
                      /\ \A s \in Slots \ {h} : u[s] = t[s]
               PROVE  IsTable(u) /\ Has(u, x.name) /\ Get(u, x.name) = x /\ Agree(u, t, x.name)
  BY <1>2, <1>3 DEF IsTable
<1>6. \A i \in 1..Len(c) : /\ IsCvar(c[i]) /\ c[i].name \in DOMAIN SlotOf
                           /\ SlotOf[c[i].name] = h
                           /\ \A j \in 1..Len(c) : c[i].name = c[j].name => i = j
  BY <1>2 DEF IsTable, IsChain
<1>7. PICK p \in 1..Len(c) : c[p].name = x.name
  BY EntryThere
<1> HIDE DEF c
<1>8. \A i \in 1..Len(d) : d[i].name = c[i].name /\ IsCvar(d[i])
  BY <1>4, <1>6
<1>9. IsChain(d, h)
  <2>1. ASSUME NEW i \in 1..Len(d)
        PROVE  /\ IsCvar(d[i])
               /\ d[i].name \in DOMAIN SlotOf /\ SlotOf[d[i].name] = h
               /\ \A j \in 1..Len(d) : d[i].name = d[j].name => i = j
    BY <1>4, <1>6, <1>8
  <2> QED  BY <1>4, <2>1 DEF IsChain
<1>10. IsTable(u)
  <2>1. ASSUME NEW s \in Slots PROVE IsChain(u[s], s)
    <3>1. CASE s = h  BY <3>1, <1>9, <1>5
    <3>2. CASE s # h
      <4>1. u[s] = t[s]  BY <3>2, <1>5
      <4> QED  BY <4>1 DEF IsTable
    <3> QED  BY <3>1, <3>2
  <2> QED  BY <1>5, <2>1 DEF IsTable
<1>11. p \in 1..Len(d) /\ d[p] = x
  BY <1>4, <1>7
<1>12. Has(u, x.name) /\ Get(u, x.name) = x
  BY <1>1, <1>5, <1>10, <1>11, EntryFound
<1>13. ASSUME NEW s \in Slots
       PROVE  /\ \A i \in 1..Len(t[s]) : t[s][i].name # x.name =>
                   \E j \in 1..Len(u[s]) : u[s][j] = t[s][i]
              /\ \A j \in 1..Len(u[s]) : u[s][j].name # x.name =>
                   \E i \in 1..Len(t[s]) : u[s][j] = t[s][i]
  <2>1. \A i \in 1..Len(c) : c[i].name # x.name => i \in 1..Len(d) /\ d[i] = c[i]
    BY <1>4
  <2>2. \A j \in 1..Len(d) : d[j].name # x.name => j \in 1..Len(c) /\ d[j] = c[j]
    BY <1>4
  <2>3. t[h] = c
    BY DEF c
  <2>4. CASE s = h
    BY <2>4, <1>5, <2>1, <2>2, <2>3
  <2>5. CASE s # h
    <3>1. u[s] = t[s]  BY <2>5, <1>5
    <3> QED  BY <3>1, Zenon
  <2> QED  BY <2>4, <2>5
<1>14. Agree(u, t, x.name)
  BY <1>10, <1>13, SameEntries
<1> QED  BY <1>10, <1>12, <1>14

-----------------------------------------------------------------------------
(* The variables the device follows.                                       *)

Followed == {"v_TextureFilter", "v_DebugWireframe"}

\* The variables the engine reads are there, and what is set tells the device.
Watches(t) ==
  /\ IsTable(t) /\ Has(t, "lg_ShouldQuit")
  /\ \A name \in Followed : Has(t, name) /\ "UPDATE" \in Get(t, name).flags

LEMMA AgreeingStates ==
  ASSUME NEW t, Watches(t), NEW u, NEW name, Agree(u, t, name), name \notin Followed
  PROVE  StatesOf(u) = StatesOf(t)
<1>1. \A n \in Followed : n # name /\ Has(t, n)
  BY DEF Watches
<1>2. \A n \in Followed : Get(u, n) = Get(t, n)
  BY <1>1 DEF Agree
<1>3. /\ Get(u, "v_TextureFilter") = Get(t, "v_TextureFilter")
      /\ Get(u, "v_DebugWireframe") = Get(t, "v_DebugWireframe")
  BY <1>2 DEF Followed
<1> QED  BY <1>3 DEF StatesOf

\* Setting a variable leaves its name, its flags and every other variable.
LEMMA SetEntry ==
  ASSUME NEW t, Watches(t), NEW name, Has(t, name), NEW text, NEW u
  PROVE  u = Replaced(t, Set(Get(t, name), text)) =>
           /\ Watches(u) /\ Agree(u, t, name)
           /\ Has(u, name) /\ Get(u, name).flags = Get(t, name).flags
<1> DEFINE y == Get(t, name)
           x == Set(y, text)
<1>1. IsTable(t)
  BY DEF Watches
<1>2. IsCvar(y) /\ y.name = name
  BY <1>1, EntryThere
<1> HIDE DEF y
<1>3. IsCvar(x) /\ x.name = name /\ x.flags = y.flags
  BY <1>2 DEF Set, IsCvar
<1> HIDE DEF x
<1>4. SUFFICES ASSUME u = Replaced(t, x)
               PROVE  /\ Watches(u) /\ Agree(u, t, name)
                      /\ Has(u, name) /\ Get(u, name).flags = y.flags
  BY DEF x, y
<1>5. Has(t, x.name)
  BY <1>3
<1>6. IsTable(u) /\ Has(u, x.name) /\ Get(u, x.name) = x /\ Agree(u, t, x.name)
  BY <1>1, <1>3, <1>4, <1>5, ReplacedTable
<1>7. /\ IsTable(u) /\ Agree(u, t, name)
      /\ Has(u, name) /\ Get(u, name) = x /\ Get(u, name).flags = y.flags
  BY <1>3, <1>6
<1>8. ASSUME NEW n, Has(t, n) PROVE Has(u, n) /\ Get(u, n).flags = Get(t, n).flags
  <2>1. CASE n = name  BY <2>1, <1>7 DEF y
  <2>2. CASE n # name  BY <2>2, <1>7, <1>8 DEF Agree
  <2> QED  BY <2>1, <2>2
<1>9. Watches(u)
  BY <1>7, <1>8 DEF Watches
<1> QED  BY <1>7, <1>9

LEMMA CorrectedWatches ==
  ASSUME NEW t, Watches(t) PROVE Watches(FilterCorrected(t))
<1>1. CASE Number(Get(t, "v_TextureFilter").value) \in 1..4
  BY <1>1 DEF FilterCorrected
<1>2. CASE Number(Get(t, "v_TextureFilter").value) \notin 1..4
  <2>1. FilterCorrected(t) = Replaced(t, Set(Get(t, "v_TextureFilter"), <<"POINT">>))
    BY <1>2 DEF FilterCorrected
  <2>2. Has(t, "v_TextureFilter")
    BY DEF Watches, Followed
  <2> QED  BY <2>1, <2>2, SetEntry
<1> QED  BY <1>1, <1>2

-----------------------------------------------------------------------------
(* What the commands make of a console.                                    *)

HasFiles(d) == DOMAIN d = Files /\ \A f \in Files : IsSequence(d[f])

\* A console that watches its variables, with a device that follows them.
IsConsole(w) ==
  /\ w = [table |-> w.table, disk |-> w.disk, gpu |-> w.gpu]
  /\ Watches(w.table) /\ HasFiles(w.disk)
Obeys(w) == IsConsole(w) /\ (phase = "running" => w.gpu = StatesOf(w.table))

\* Whatever the device was doing, it does what the variables say afterwards.
LEMMA SetStatesObeys ==
  ASSUME NEW w, IsConsole(w)
  PROVE  /\ IsConsole(SetStates(w))
         /\ SetStates(w).gpu = StatesOf(SetStates(w).table)
<1> DEFINE t == FilterCorrected(w.table)
           v == SetStates(w)
<1>1. Watches(t)
  BY CorrectedWatches DEF IsConsole
<1>2. v = [w EXCEPT !.table = t, !.gpu = StatesOf(t)]
  BY DEF SetStates
<1>3. w = [table |-> w.table, disk |-> w.disk, gpu |-> w.gpu] /\ HasFiles(w.disk)
  BY DEF IsConsole
<1> HIDE DEF t, v
<1>4. v = [table |-> t, disk |-> w.disk, gpu |-> StatesOf(t)]
  BY <1>2, <1>3
<1>5. v.table = t /\ v.disk = w.disk /\ v.gpu = StatesOf(t)
  BY <1>4
<1> QED  BY <1>1, <1>3, <1>4, <1>5 DEF IsConsole, v

LEMMA SetCommandObeys ==
  ASSUME NEW w, Obeys(w), NEW name, NEW text PROVE Obeys(SetCommand(w, name, text))
<1>1. CASE ~Has(w.table, name)
  BY <1>1 DEF SetCommand
<1>2. CASE Has(w.table, name)
  <2> DEFINE u == Replaced(w.table, Set(Get(w.table, name), text))
             v == [w EXCEPT !.table = u]
  <2>1. w = [table |-> w.table, disk |-> w.disk, gpu |-> w.gpu]
        /\ Watches(w.table) /\ HasFiles(w.disk)
    BY DEF Obeys, IsConsole
  <2>2. SetCommand(w, name, text) =
          IF "UPDATE" \in Get(v.table, name).flags THEN CvarUpdate(v, name) ELSE v
    BY <1>2 DEF SetCommand
  <2>3. /\ Watches(u) /\ Agree(u, w.table, name)
        /\ Has(u, name) /\ Get(u, name).flags = Get(w.table, name).flags
    BY <1>2, <2>1, SetEntry
  <2> HIDE DEF u
  <2>4. v = [table |-> u, disk |-> w.disk, gpu |-> w.gpu]
    BY <2>1
  <2>5. v.table = u /\ v.disk = w.disk /\ v.gpu = w.gpu
    BY <2>4
  <2> HIDE DEF v
  <2>6. IsConsole(v)
    BY <2>1, <2>3, <2>4, <2>5 DEF IsConsole
  <2>7. ASSUME name \notin Followed PROVE Obeys(v)
    <3>1. StatesOf(u) = StatesOf(w.table)
      BY <2>1, <2>3, <2>7, AgreeingStates
    <3> QED  BY <2>5, <2>6, <3>1 DEF Obeys
  <2>8. CASE "UPDATE" \in Get(v.table, name).flags
    <3>1. SetCommand(w, name, text) = CvarUpdate(v, name)
      BY <2>2, <2>8
    <3>2. CASE phase = "running" /\ name \in Followed
      <4>1. CvarUpdate(v, name) = SetStates(v)
        BY <3>2 DEF CvarUpdate, Followed
      <4>2. Obeys(SetStates(v))
        BY <2>6, SetStatesObeys DEF Obeys
      <4> QED  BY <3>1, <4>1, <4>2
    <3>3. CASE ~(phase = "running" /\ name \in Followed)
      <4>1. CvarUpdate(v, name) = v
        BY <3>3 DEF CvarUpdate, Followed
      <4>2. Obeys(v)
        BY <3>3, <2>6, <2>7 DEF Obeys
      <4> QED  BY <3>1, <4>1, <4>2
    <3> QED  BY <3>2, <3>3
  <2>9. CASE "UPDATE" \notin Get(v.table, name).flags
    <3>1. SetCommand(w, name, text) = v
      BY <2>2, <2>9
    <3>2. name \notin Followed
      BY <2>1, <2>3, <2>5, <2>9 DEF Watches
    <3> QED  BY <2>7, <3>1, <3>2
  <2> QED  BY <2>8, <2>9
<1> QED  BY <1>1, <1>2

-----------------------------------------------------------------------------
(* Sequences of lines and of characters.                                   *)

LEMMA Sequence ==
  ASSUME NEW S, NEW s \in Seq(S) PROVE IsSequence(s)
BY OwnMembers DEF IsSequence, Range

LEMMA SequenceFacts ==
  ASSUME NEW s, IsSequence(s), NEW t, IsSequence(t)
  PROVE  /\ Len(s) \in Nat /\ DOMAIN s = 1..Len(s)
         /\ IsSequence(s \o t)
         /\ \A e : IsSequence(Append(s, e))
         /\ \A k \in 1..Len(s) : IsSequence(SubSeq(s, 1, k-1))
<1> DEFINE S == Range(s) \cup Range(t)
<1>1. s \in Seq(Range(s)) /\ t \in Seq(Range(t))
  BY DEF IsSequence
<1>2. s \in Seq(S) /\ t \in Seq(S)
  BY <1>1
<1> HIDE DEF S
<1>3. Len(s) \in Nat /\ DOMAIN s = 1..Len(s) /\ \A i \in 1..Len(s) : s[i] \in S
  BY <1>2, LenProperties, ElementOfSeq
<1>4. IsSequence(s \o t)
  BY <1>2, ConcatProperties, Sequence
<1>5. ASSUME NEW e PROVE IsSequence(Append(s, e))
  <2>1. s \in Seq(S \cup {e}) /\ e \in S \cup {e}
    BY <1>2
  <2>2. Append(s, e) \in Seq(S \cup {e})
    BY <2>1, AppendProperties
  <2> QED  BY <2>2, Sequence
<1>6. ASSUME NEW k \in 1..Len(s) PROVE IsSequence(SubSeq(s, 1, k-1))
  <2>1. 1 \in Int /\ k-1 \in Int /\ \A i \in 1..k-1 : s[i] \in S
    BY <1>3
  <2>2. SubSeq(s, 1, k-1) \in Seq(S)
    BY <2>1, SubSeqProperties
  <2> QED  BY <2>2, Sequence
<1> QED  BY <1>3, <1>4, <1>5, <1>6

-----------------------------------------------------------------------------
(* A loop over GetFirst and GetNext sees each entry of the table once.     *)

Entries(t) == UNION {{s} \X DOMAIN t[s] : s \in Slots}

\* In the order of the slots and, in a slot, of the chain.
Before(p, q) == p[1] < q[1] \/ (p[1] = q[1] /\ p[2] < q[2])

LEMMA EntriesCounted ==
  ASSUME NEW t, IsTable(t)
  PROVE  /\ IsFiniteSet(Entries(t)) /\ CountOf(t) = Cardinality(Entries(t)) /\ CountOf(t) \in Nat
<1> DEFINE chains == {{s} \X DOMAIN t[s] : s \in Slots}
           f == [s \in Slots |-> {s} \X DOMAIN t[s]]
<1>1. IsFiniteSet(Slots)
  BY ConsoleAssumption
<1>2. f \in Surjection(Slots, chains)
  BY DEF Surjection
<1> HIDE DEF f
<1>3. IsFiniteSet(chains)
  BY <1>1, <1>2, FS_Surjection
<1>4. ASSUME NEW s \in Slots PROVE IsFiniteSet({s} \X DOMAIN t[s])
  <2>1. t[s] \in Seq({t[s][i] : i \in DOMAIN t[s]})
    BY DEF IsTable, IsChain
  <2>2. Len(t[s]) \in Nat /\ DOMAIN t[s] = 1..Len(t[s])
    BY <2>1, LenProperties
  <2>3. IsFiniteSet(DOMAIN t[s])
    BY <2>2, FS_Interval
  <2>4. IsFiniteSet({s})
    BY FS_Singleton
  <2> QED  BY <2>3, <2>4, FS_Product
<1>5. \A T \in chains : IsFiniteSet(T)
  BY <1>4
<1>6. Entries(t) = UNION chains /\ CountOf(t) = Cardinality(UNION chains)
  BY DEF Entries, CountOf
<1> HIDE DEF chains
<1>7. IsFiniteSet(UNION chains)
  BY <1>3, <1>5, FS_UNION
<1> QED  BY <1>6, <1>7, FS_CardinalityType

LEMMA EntryIs ==
  ASSUME NEW t, IsTable(t)
  PROVE  /\ \A p \in Entries(t) : /\ p = <<p[1], p[2]>> /\ p[1] \in Slots /\ p[1] \in Nat
                                  /\ p[2] \in 1..Len(t[p[1]])
         /\ \A s \in Slots : /\ s \in Nat /\ Len(t[s]) \in Nat /\ (t[s] = << >> <=> Len(t[s]) = 0)
                             /\ \A i \in 1..Len(t[s]) : <<s, i>> \in Entries(t)
<1>1. ASSUME NEW s \in Slots
      PROVE  /\ s \in Nat /\ Len(t[s]) \in Nat /\ DOMAIN t[s] = 1..Len(t[s])
             /\ t[s] = << >> <=> Len(t[s]) = 0
  <2>1. t[s] \in Seq({t[s][i] : i \in DOMAIN t[s]})
    BY DEF IsTable, IsChain
  <2> QED  BY <2>1, LenProperties, EmptySeq, ConsoleAssumption
<1>2. ASSUME NEW p \in Entries(t)
      PROVE  p = <<p[1], p[2]>> /\ p[1] \in Slots /\ p[2] \in DOMAIN t[p[1]]
  <2>1. PICK s \in Slots : p \in {s} \X DOMAIN t[s]
    BY DEF Entries
  <2>2. p[1] \in {s} /\ p[2] \in DOMAIN t[s] /\ p = <<p[1], p[2]>>
    BY <2>1, PairParts
  <2> QED  BY <2>2
<1>3. ASSUME NEW s \in Slots, NEW i \in 1..Len(t[s]) PROVE <<s, i>> \in Entries(t)
  <2>1. <<s, i>> \in {s} \X DOMAIN t[s]
    BY <1>1
  <2> QED  BY <2>1 DEF Entries
<1> QED  BY <1>1, <1>2, <1>3

\* FirstFrom finds the first entry of the slots from some slot on.
LEMMA FirstFromIs ==
  ASSUME NEW t, IsTable(t), NEW from \in Nat
  PROVE  \/ FirstFrom(t, from) = Nowhere /\ \A q \in Entries(t) : q[1] < from
         \/ /\ FirstFrom(t, from) \in Entries(t) /\ FirstFrom(t, from)[1] >= from
            /\ \A q \in Entries(t) :
                 q[1] >= from => q = FirstFrom(t, from) \/ Before(FirstFrom(t, from), q)
<1> DEFINE used == {s \in Slots : s >= from /\ t[s] # << >>}
<1>1. FirstFrom(t, from) = IF used = {} THEN Nowhere
                           ELSE <<CHOOSE s \in used : \A r \in used : s <= r, 1>>
  BY DEF FirstFrom
<1>2. \A q \in Entries(t) : q[1] >= from => q[1] \in used
  BY EntryIs
<1>3. \A q \in Entries(t) : q[1] \in Nat /\ q[2] \in Nat /\ q[2] >= 1 /\ q = <<q[1], q[2]>>
  BY EntryIs
<1>4. CASE used = {}
  <2>1. \A q \in Entries(t) : q[1] < from
    BY <1>2, <1>3, <1>4
  <2> QED  BY <1>1, <1>4, <2>1
<1>5. CASE used # {}
  <2> DEFINE s == CHOOSE s \in used : \A r \in used : s <= r
  <2>1. used \in SUBSET Nat
    BY EntryIs
  <2>2. \E i \in used : \A j \in used : i <= j
    <3> HIDE DEF used
    <3> QED  BY <1>5, <2>1, LeastElement
  <2>3. s \in used /\ \A r \in used : s <= r
    <3> HIDE DEF used
    <3> QED  BY <2>2
  <2>4. FirstFrom(t, from) = <<s, 1>>
    BY <1>1, <1>5
  <2>5. s \in Slots /\ s >= from /\ s \in Nat /\ 1 \in 1..Len(t[s])
    BY <2>3, EntryIs
  <2>6. <<s, 1>> \in Entries(t)
    <3> HIDE DEF s
    <3> QED  BY <2>5, EntryIs
  <2>7. ASSUME NEW q \in Entries(t), q[1] >= from PROVE q = <<s, 1>> \/ Before(<<s, 1>>, q)
    <3>1. s <= q[1]
      BY <1>2, <2>3, <2>7
    <3> HIDE DEF s
    <3> QED  BY <1>3, <2>5, <3>1 DEF Before
  <2> HIDE DEF s, used
  <2> QED  BY <2>4, <2>5, <2>6, <2>7
<1> QED  BY <1>4, <1>5

\* GetNext finds the entry that follows another.
LEMMA GetNextIs ==
  ASSUME NEW t, IsTable(t), NEW p \in Entries(t)
  PROVE  \/ GetNext(t, p) = Nowhere /\ \A q \in Entries(t) : q = p \/ Before(q, p)
         \/ /\ GetNext(t, p) \in Entries(t) /\ Before(p, GetNext(t, p))
            /\ \A q \in Entries(t) : \/ q = p \/ Before(q, p)
                                     \/ q = GetNext(t, p) \/ Before(GetNext(t, p), q)
<1> DEFINE s == p[1]
           i == p[2]
           r == GetNext(t, p)
<1>1. s \in Slots /\ s \in Nat /\ i \in 1..Len(t[s]) /\ Len(t[s]) \in Nat /\ p = <<s, i>>
  BY EntryIs
<1>2. \A q \in Entries(t) : /\ q[1] \in Nat /\ q[2] \in 1..Len(t[q[1]]) /\ q = <<q[1], q[2]>>
  BY EntryIs
<1>3. r = IF i < Len(t[s]) THEN <<s, i + 1>> ELSE FirstFrom(t, s + 1)
  BY DEF GetNext
<1> HIDE DEF r, s, i
<1>4. CASE i < Len(t[s])
  <2>1. r = <<s, i + 1>> /\ i + 1 \in 1..Len(t[s])
    BY <1>1, <1>3, <1>4
  <2>2. r \in Entries(t)
    BY <1>1, <2>1, EntryIs
  <2>3. Before(p, r)
    BY <1>1, <2>1 DEF Before
  <2>4. ASSUME NEW q \in Entries(t) PROVE q = p \/ Before(q, p) \/ q = r \/ Before(r, q)
    <3>1. q[1] \in Nat /\ q[2] \in Int /\ i \in Int /\ q = <<q[1], q[2]>>
      BY <1>1, <1>2
    <3>2. p[1] = s /\ p[2] = i /\ r[1] = s /\ r[2] = i + 1
      BY <2>1 DEF s, i
    <3>3. \/ q[1] < s \/ q[1] > s \/ (q[1] = s /\ (q[2] < i \/ q[2] = i \/ q[2] = i + 1 \/ q[2] > i + 1))
      BY <1>1, <3>1
    <3>4. (q[1] = s /\ q[2] = i => q = p) /\ (q[1] = s /\ q[2] = i + 1 => q = r)
      BY <1>1, <2>1, <3>1
    <3>5. q[1] > s => s < q[1]
      BY <1>1, <3>1
    <3>6. q[2] > i + 1 => i + 1 < q[2]
      BY <3>1
    <3> QED  BY <3>2, <3>3, <3>4, <3>5, <3>6 DEF Before
  <2> QED  BY <2>2, <2>3, <2>4 DEF r
<1>5. CASE ~(i < Len(t[s]))
  <2>1. r = FirstFrom(t, s + 1) /\ i = Len(t[s]) /\ s + 1 \in Nat
    BY <1>1, <1>3, <1>5
  <2>2. p[1] = s /\ p[2] = i
    BY DEF s, i
  <2>3. ASSUME NEW q \in Entries(t), ~(q[1] >= s + 1) PROVE q = p \/ Before(q, p)
    <3>1. q[1] \in Nat /\ q[2] \in Int /\ q[2] <= Len(t[q[1]]) /\ q = <<q[1], q[2]>> /\ i \in Int
      BY <1>1, <1>2
    <3>2. q[1] < s \/ q[1] = s
      BY <1>1, <2>3, <3>1
    <3>3. q[1] = s => q[2] = i \/ q[2] < i
      BY <2>1, <3>1
    <3>4. q[1] = s /\ q[2] = i => q = p
      BY <1>1, <3>1
    <3> QED  BY <2>2, <3>2, <3>3, <3>4 DEF Before
  <2>4. \/ r = Nowhere /\ \A q \in Entries(t) : q[1] < s + 1
        \/ /\ r \in Entries(t) /\ r[1] >= s + 1
           /\ \A q \in Entries(t) : q[1] >= s + 1 => q = r \/ Before(r, q)
    BY <2>1, FirstFromIs
  <2>5. CASE r = Nowhere /\ \A q \in Entries(t) : q[1] < s + 1
    <3>1. \A q \in Entries(t) : ~(q[1] >= s + 1)
      BY <1>1, <1>2, <2>5
    <3> QED  BY <2>3, <2>5, <3>1 DEF r
  <2>6. CASE /\ r \in Entries(t) /\ r[1] >= s + 1
             /\ \A q \in Entries(t) : q[1] >= s + 1 => q = r \/ Before(r, q)
    <3>1. s < r[1]
      <4>1. r[1] \in Nat
        BY <1>2, <2>6
      <4> QED  BY <1>1, <2>6, <4>1
    <3>2. Before(p, r)
      BY <2>2, <3>1 DEF Before
    <3> QED  BY <2>3, <2>6, <3>2 DEF r
  <2> QED  BY <2>4, <2>5, <2>6
<1> QED  BY <1>4, <1>5

LEMMA BeforeOrders ==
  ASSUME NEW t, IsTable(t), NEW p \in Entries(t), NEW q \in Entries(t)
  PROVE  /\ ~Before(p, p) /\ ~(Before(p, q) /\ Before(q, p))
         /\ \A r \in Entries(t) : Before(p, q) /\ Before(q, r) => Before(p, r)
<1>1. \A r \in Entries(t) : r[1] \in Nat /\ r[2] \in Nat
  BY EntryIs
<1> QED  BY <1>1 DEF Before

\* The places the loop stands at.
Stands(t, place) ==
  \A m \in 1..CountOf(t) + 1 :
    place[m] = IF m = 1 THEN FirstFrom(t, 0)
               ELSE IF place[m - 1] = Nowhere THEN Nowhere ELSE GetNext(t, place[m - 1])

LEMMA ListingUnfolds ==
  ASSUME NEW t, IsTable(t)
  PROVE  \E place : /\ Stands(t, place)
                    /\ LET seen == {m \in 1..CountOf(t) : place[m] # Nowhere}
                       IN  Listing(t) = [m \in 1..Cardinality(seen) |-> t[place[m][1]][place[m][2]]]
<1> DEFINE n == CountOf(t)
           P == Entries(t) \cup {Nowhere}
           next == [x \in P \X (1..n) |-> IF x[1] = Nowhere THEN Nowhere ELSE GetNext(t, x[1])]
           w == FirstFrom(t, 0)
<1>1. n \in Nat
  BY EntriesCounted
<1>2. w \in P
  BY FirstFromIs
<1>3. next \in [P \X (1..n) -> P]
  <2>1. ASSUME NEW x \in P \X (1..n)
        PROVE  (IF x[1] = Nowhere THEN Nowhere ELSE GetNext(t, x[1])) \in P
    <3>1. x[1] \in P
      BY PairParts
    <3> QED  BY <3>1, GetNextIs
  <2> QED  BY <2>1
<1> HIDE DEF n, P, w
<1>4. PICK g : Iterates(g, P, w, n, next)
  <2> HIDE DEF next
  <2> QED  BY <1>1, <1>2, <1>3, Iteration
<1>5. g \in [0..n -> P] /\ \A i \in 0..n : g[i] = IF i = 0 THEN w ELSE next[<<g[i - 1], i>>]
  BY <1>4 DEF Iterates
<1>6. \A i \in 1..n : next[<<g[i - 1], i>>] = IF g[i - 1] = Nowhere THEN Nowhere ELSE GetNext(t, g[i - 1])
  <2>1. ASSUME NEW i \in 1..n
        PROVE  next[<<g[i - 1], i>>] = IF g[i - 1] = Nowhere THEN Nowhere ELSE GetNext(t, g[i - 1])
    <3>1. i - 1 \in 0..n
      BY <1>1
    <3>2. <<g[i - 1], i>> \in P \X (1..n)
      BY <1>5, <3>1
    <3> QED  BY <3>2
  <2> QED  BY <2>1
<1> HIDE DEF next
<1> DEFINE Made(f) == f = [m \in 1..n + 1 |-> IF m = 1 THEN w
                                              ELSE IF f[m - 1] = Nowhere THEN Nowhere
                                              ELSE GetNext(t, f[m - 1])]
           h == [m \in 1..n + 1 |-> g[m - 1]]
<1>7. Made(h)
  <2>1. ASSUME NEW m \in 1..n + 1
        PROVE  h[m] = IF m = 1 THEN w ELSE IF h[m - 1] = Nowhere THEN Nowhere ELSE GetNext(t, h[m - 1])
    <3>1. h[m] = g[m - 1] /\ m - 1 \in 0..n
      BY <1>1
    <3>2. CASE m = 1
      <4>1. 0 \in 0..n /\ m - 1 = 0
        BY <1>1, <3>2
      <4>2. g[0] = w
        BY <1>5, <4>1
      <4> HIDE DEF h
      <4> QED  BY <3>1, <3>2, <4>1, <4>2
    <3>3. CASE m # 1
      <4>1. m - 1 \in 1..n /\ m - 1 \in 1..n + 1 /\ m - 1 # 0
        BY <1>1, <3>3
      <4>2. h[m - 1] = g[(m - 1) - 1]
        BY <4>1
      <4>3. g[m - 1] = next[<<g[(m - 1) - 1], m - 1>>]
        BY <1>5, <3>1, <4>1
      <4> HIDE DEF h
      <4> QED  BY <1>6, <3>1, <3>3, <4>1, <4>2, <4>3
    <3> QED  BY <3>2, <3>3
  <2>2. h = [m \in 1..n + 1 |-> h[m]]
    OBVIOUS
  <2> HIDE DEF h
  <2> QED  BY <2>1, <2>2
<1> DEFINE place == CHOOSE f : Made(f)
           seen == {m \in 1..n : place[m] # Nowhere}
<1>8. Made(place)
  BY <1>7
<1>9. Listing(t) = [m \in 1..Cardinality(seen) |-> t[place[m][1]][place[m][2]]]
  BY DEF Listing, n, w
<1> HIDE DEF place
<1>10. Stands(t, place)
  <2>1. \A m \in 1..n + 1 :
          place[m] = IF m = 1 THEN w ELSE IF place[m - 1] = Nowhere THEN Nowhere ELSE GetNext(t, place[m - 1])
    BY <1>8, Zenon
  <2> HIDE DEF Made
  <2> QED  BY <2>1 DEF Stands, n, w
<1> QED  BY <1>9, <1>10 DEF n

\* Where the loop has been before its m-th place, and what that place may be.
Visited(t, place, m) == {q \in Entries(t) : \E k \in 1..m - 1 : place[k] = q}
WellAt(t, place, m) ==
  IF place[m] = Nowhere THEN Visited(t, place, m) = Entries(t)
  ELSE /\ place[m] \in Entries(t)
       /\ Visited(t, place, m) = {q \in Entries(t) : Before(q, place[m])}
       /\ Cardinality(Visited(t, place, m)) = m - 1

\* Wherever the loop stands, it has been at the entries before, each once; when
\* it is through it has been at all of them.
LEMMA PlacesVisited ==
  ASSUME NEW t, IsTable(t), NEW place, Stands(t, place),
         NEW m \in 1..CountOf(t) + 1
  PROVE  WellAt(t, place, m)
<1> DEFINE n == CountOf(t)
           P == Entries(t)
           B(k) == {q \in P : \E l \in 1..k - 1 : place[l] = q}
           Good(k) == IF place[k] = Nowhere THEN B(k) = P
                      ELSE /\ place[k] \in P /\ B(k) = {q \in P : Before(q, place[k])}
                           /\ Cardinality(B(k)) = k - 1
           S == {k \in 0..n : Good(k + 1)}
<1>1. n \in Nat /\ IsFiniteSet(P)
  BY EntriesCounted
<1>2. \A k \in 1..n + 1 :
        place[k] = IF k = 1 THEN FirstFrom(t, 0)
                   ELSE IF place[k - 1] = Nowhere THEN Nowhere ELSE GetNext(t, place[k - 1])
  BY DEF Stands
<1>3. Nowhere \notin P
  <2>1. ASSUME Nowhere \in P PROVE FALSE
    <3>1. Nowhere = <<Nowhere[1], Nowhere[2]>>
      BY <2>1, EntryIs
    <3> QED  BY <3>1 DEF Nowhere
  <2> QED  BY <2>1
<1> HIDE DEF n
<1>4. Good(1)
  <2>1. place[1] = FirstFrom(t, 0)
    <3>1. 1 \in 1..n + 1
      BY <1>1
    <3> QED  BY <1>2, <3>1
  <2>2. B(1) = {}
    <3>1. 1..1 - 1 = {}
      OBVIOUS
    <3> QED  BY <3>1
  <2>3. \A q \in P : q[1] \in Nat
    BY EntryIs
  <2>4. \/ place[1] = Nowhere /\ \A q \in P : q[1] < 0
        \/ place[1] \in P /\ \A q \in P : q[1] >= 0 => q = place[1] \/ Before(place[1], q)
    BY <2>1, FirstFromIs
  <2>5. CASE place[1] = Nowhere /\ \A q \in P : q[1] < 0
    <3>1. P = {}
      BY <2>3, <2>5
    <3> HIDE DEF P, B
    <3> QED  BY <2>2, <2>5, <3>1
  <2>6. CASE place[1] \in P /\ \A q \in P : q[1] >= 0 => q = place[1] \/ Before(place[1], q)
    <3>1. \A q \in P : q = place[1] \/ Before(place[1], q)
      BY <2>3, <2>6
    <3>2. \A q \in P : ~Before(q, place[1])
      BY <2>6, <3>1, BeforeOrders
    <3>3. Cardinality({}) = 0
      BY FS_EmptySet
    <3> HIDE DEF P, B
    <3> QED  BY <1>3, <2>2, <2>6, <3>2, <3>3
  <2> QED  BY <2>4, <2>5, <2>6
<1>5. 0 \in S
  <2> HIDE DEF Good
  <2> QED  BY <1>1, <1>4
<1>6. ASSUME NEW k \in 1..n, k - 1 \in S PROVE k \in S
  <2> DEFINE p == place[k]
             r == place[k + 1]
  <2>1. Good(k)
    <3>1. (k - 1) + 1 = k
      BY <1>1
    <3> HIDE DEF Good
    <3> QED  BY <1>6, <3>1
  <2>2. r = IF p = Nowhere THEN Nowhere ELSE GetNext(t, p)
    <3>1. k + 1 \in 1..n + 1 /\ k + 1 # 1 /\ (k + 1) - 1 = k
      BY <1>1
    <3> QED  BY <1>2, <3>1
  <2>3. \A l : l \in 1..(k + 1) - 1 <=> l \in 1..k - 1 \/ l = k
    BY <1>1
  <2>4. B(k + 1) = B(k) \cup {q \in P : q = p}
    BY <2>3
  <2>5. CASE p = Nowhere
    <3>1. r = Nowhere /\ B(k) = P
      BY <2>1, <2>2, <2>5
    <3>2. B(k + 1) = P
      <4>1. B(k) \subseteq B(k + 1) /\ B(k + 1) \subseteq P
        BY <2>4
      <4> HIDE DEF B
      <4> QED  BY <3>1, <4>1
    <3> HIDE DEF B, P
    <3> QED  BY <1>1, <3>1, <3>2
  <2>6. CASE p # Nowhere
    <3>1. p \in P /\ B(k) = {q \in P : Before(q, p)} /\ Cardinality(B(k)) = k - 1
      BY <2>1, <2>6
    <3>2. B(k + 1) = B(k) \cup {p}
      BY <2>4, <3>1
    <3>3. p \notin B(k)
      BY <3>1, BeforeOrders
    <3>4. Cardinality(B(k + 1)) = k
      <4>1. IsFiniteSet(B(k))
        <5>1. B(k) \in SUBSET P
          OBVIOUS
        <5> HIDE DEF B, P
        <5> QED  BY <1>1, <5>1, FS_Subset
      <4>2. Cardinality(B(k + 1)) = Cardinality(B(k) \cup {p})
        <5> HIDE DEF B, p
        <5> QED  BY <3>2
      <4> HIDE DEF B, p
      <4>3. Cardinality(B(k) \cup {p}) = (k - 1) + 1
        BY <3>1, <3>3, <4>1, FS_AddElement
      <4>4. (k - 1) + 1 = k
        BY <1>1
      <4> QED  BY <4>2, <4>3, <4>4, Zenon
    <3>5. \/ r = Nowhere /\ \A q \in P : q = p \/ Before(q, p)
          \/ /\ r \in P /\ Before(p, r)
             /\ \A q \in P : q = p \/ Before(q, p) \/ q = r \/ Before(r, q)
      BY <2>2, <2>6, <3>1, GetNextIs
    <3>6. CASE r = Nowhere /\ \A q \in P : q = p \/ Before(q, p)
      <4>1. B(k + 1) = P
        <5> HIDE DEF B, P, p
        <5> QED  BY <3>1, <3>2, <3>6
      <4> HIDE DEF B, P, p
      <4> QED  BY <1>1, <3>6, <4>1
    <3>7. CASE /\ r \in P /\ Before(p, r)
               /\ \A q \in P : q = p \/ Before(q, p) \/ q = r \/ Before(r, q)
      <4>1. ASSUME NEW q \in P PROVE Before(q, r) <=> q = p \/ Before(q, p)
        <5>1. Before(q, p) => Before(q, r)
          BY <3>1, <3>7, BeforeOrders
        <5>2. ~Before(r, r) /\ ~(Before(r, q) /\ Before(q, r))
          BY <3>7, BeforeOrders
        <5> HIDE DEF P, p, r
        <5> QED  BY <3>7, <5>1, <5>2
      <4>2. B(k + 1) = {q \in P : Before(q, r)}
        <5> HIDE DEF B, P, p, r
        <5> QED  BY <3>1, <3>2, <4>1
      <4>3. r # Nowhere
        BY <1>3, <3>7
      <4>4. (k + 1) - 1 = k
        BY <1>1
      <4> HIDE DEF B, P, p
      <4> QED  BY <1>1, <3>4, <3>7, <4>2, <4>3, <4>4
    <3> QED  BY <3>5, <3>6, <3>7
  <2> QED  BY <2>5, <2>6
<1>7. m - 1 \in S
  <2>1. 0..n \subseteq S
    <3> HIDE DEF S
    <3> QED  BY <1>1, <1>5, <1>6, IntervalInduction
  <2>2. m - 1 \in 0..n
    BY <1>1 DEF n
  <2> HIDE DEF S
  <2> QED  BY <2>1, <2>2
<1>8. Good(m)
  <2>1. (m - 1) + 1 = m
    BY <1>1 DEF n
  <2> HIDE DEF Good
  <2> QED  BY <1>7, <2>1
<1> QED  BY <1>8 DEF WellAt, Visited

\* The listing is of the entries of the table, and of all of them.
LEMMA ListingIsWhole ==
  ASSUME NEW t, IsTable(t)
  PROVE  /\ IsSequence(Listing(t))
         /\ \A k \in 1..Len(Listing(t)) : \E p \in Entries(t) : Listing(t)[k] = t[p[1]][p[2]]
         /\ \A p \in Entries(t) : \E k \in 1..Len(Listing(t)) : Listing(t)[k] = t[p[1]][p[2]]
<1> DEFINE n == CountOf(t)
           P == Entries(t)
<1>1. PICK place : /\ Stands(t, place)
                   /\ LET seen == {m \in 1..n : place[m] # Nowhere}
                      IN  Listing(t) = [m \in 1..Cardinality(seen) |-> t[place[m][1]][place[m][2]]]
  BY ListingUnfolds
<1>2. n \in Nat /\ IsFiniteSet(P) /\ n = Cardinality(P)
  BY EntriesCounted
<1> DEFINE B(m) == {q \in P : \E k \in 1..m - 1 : place[k] = q}
           Good(m) == IF place[m] = Nowhere THEN B(m) = P
                      ELSE /\ place[m] \in P /\ B(m) = {q \in P : Before(q, place[m])}
                           /\ Cardinality(B(m)) = m - 1
           seen == {m \in 1..n : place[m] # Nowhere}
<1>3. \A m \in 1..n + 1 : Good(m)
  <2> TAKE m \in 1..n + 1
  <2>1. Stands(t, place)
    BY <1>1
  <2>2. WellAt(t, place, m)
    BY <2>1, PlacesVisited
  <2> QED  BY <2>2 DEF WellAt, Visited
<1>4. place[n + 1] = Nowhere /\ B(n + 1) = P
  <2>1. n + 1 \in 1..n + 1 /\ (n + 1) - 1 = n
    BY <1>2
  <2>2. Good(n + 1)
    <3> HIDE DEF Good, n
    <3> QED  BY <1>3, <2>1
  <2>3. ASSUME place[n + 1] # Nowhere PROVE FALSE
    <3>1. /\ place[n + 1] \in P /\ B(n + 1) = {q \in P : Before(q, place[n + 1])}
          /\ Cardinality(B(n + 1)) = (n + 1) - 1
      BY <2>2, <2>3
    <3>2. place[n + 1] \notin B(n + 1)
      BY <3>1, BeforeOrders
    <3>3. B(n + 1) \in SUBSET P
      OBVIOUS
    <3> HIDE DEF B, P, n
    <3>4. Cardinality(B(n + 1)) = Cardinality(P) => P = B(n + 1)
      BY <1>2, <3>3, FS_Subset
    <3> QED  BY <1>2, <2>1, <3>1, <3>2, <3>4
  <2> QED  BY <2>2, <2>3
<1>5. PICK last \in 1..n + 1 : /\ place[last] = Nowhere
                               /\ \A k \in 1..last - 1 : place[k] # Nowhere
  <2> DEFINE T == {k \in 1..n + 1 : place[k] = Nowhere}
  <2>1. n + 1 \in T
    BY <1>2, <1>4
  <2>2. T \in SUBSET Nat
    OBVIOUS
  <2>3. PICK l \in T : \A k \in T : l <= k
    <3> HIDE DEF T
    <3> QED  BY <2>1, <2>2, LeastElement
  <2>4. l \in 1..n + 1 /\ place[l] = Nowhere
    BY <2>3
  <2>5. \A k \in 1..l - 1 : k \in 1..n + 1 /\ ~(l <= k)
    BY <1>2, <2>4
  <2>6. \A k \in 1..l - 1 : place[k] # Nowhere
    BY <2>3, <2>5
  <2> QED  BY <2>4, <2>6
<1>6. B(last) = P
  <2> HIDE DEF B, P
  <2> QED  BY <1>3, <1>5
<1>7. \A k \in 1..n : k < last <=> k \in seen
  <2>1. ASSUME NEW k \in 1..n, place[k] # Nowhere, ~(k < last) PROVE FALSE
    <3>1. k \in 1..n + 1 /\ last \in 1..n + 1 /\ 1..last - 1 \subseteq 1..k - 1
      BY <1>2, <2>1
    <3>2. Good(k)
      <4> HIDE DEF Good
      <4> QED  BY <1>3, <3>1
    <3>3. place[k] \in P /\ B(k) = {q \in P : Before(q, place[k])}
      BY <2>1, <3>2
    <3>4. place[k] \notin B(k)
      BY <3>3, BeforeOrders
    <3>5. B(last) \subseteq B(k)
      BY <3>1
    <3> HIDE DEF B, P
    <3> QED  BY <1>6, <3>3, <3>4, <3>5
  <2>2. ASSUME NEW k \in 1..n, k < last PROVE place[k] # Nowhere
    <3>1. k \in 1..last - 1
      BY <1>2, <2>2
    <3> QED  BY <1>5, <3>1
  <2> QED  BY <2>1, <2>2
<1>8. seen = 1..last - 1 /\ Cardinality(seen) = last - 1 /\ last - 1 \in Nat
  <2>1. \A k : k \in 1..n /\ k < last <=> k \in 1..last - 1
    BY <1>2
  <2>2. seen \subseteq 1..n
    OBVIOUS
  <2>3. seen = 1..last - 1
    <3> HIDE DEF seen
    <3> QED  BY <1>7, <2>1, <2>2
  <2>4. last - 1 \in Nat /\ 1 \in Int
    BY <1>2
  <2>5. Cardinality(1..last - 1) = IF 1 > last - 1 THEN 0 ELSE (last - 1) - 1 + 1
    <3> DEFINE b == last - 1
    <3>1. b \in Int
      BY <2>4
    <3> HIDE DEF b
    <3>2. Cardinality(1..b) = IF 1 > b THEN 0 ELSE b - 1 + 1
      BY <3>1, FS_Interval
    <3> QED  BY <3>2 DEF b
  <2> HIDE DEF seen
  <2> QED  BY <1>2, <2>3, <2>4, <2>5
<1> DEFINE N == last - 1
           listed == [m \in 1..N |-> t[place[m][1]][place[m][2]]]
<1>9. Listing(t) = listed /\ N \in Nat
  BY <1>1, <1>8
<1>10. /\ listed \in [1..N -> {listed[m] : m \in 1..N}]
       /\ \A m \in 1..N : listed[m] = t[place[m][1]][place[m][2]]
  OBVIOUS
<1> HIDE DEF listed, N
<1>11. listed \in Seq({listed[m] : m \in 1..N})
  BY <1>9, <1>10, SeqDef
<1>12. IsSequence(listed) /\ Len(listed) = N
  <2>1. Len(listed) = N
    BY <1>9, <1>10, <1>11, LenProperties
  <2> QED  BY <1>11, <2>1, Sequence
<1>13. ASSUME NEW k \in 1..N PROVE \E p \in P : listed[k] = t[p[1]][p[2]]
  <2>1. k \in 1..n + 1 /\ k \in 1..last - 1
    BY <1>2 DEF N
  <2>2. Good(k) /\ place[k] # Nowhere
    <3> HIDE DEF Good
    <3> QED  BY <1>3, <1>5, <2>1
  <2>3. place[k] \in P
    BY <2>2
  <2> QED  BY <1>10, <2>3
<1>14. ASSUME NEW p \in P PROVE \E k \in 1..N : listed[k] = t[p[1]][p[2]]
  <2>1. p \in B(last)
    <3> HIDE DEF B
    <3> QED  BY <1>6
  <2>2. PICK k \in 1..last - 1 : place[k] = p
    BY <2>1
  <2> QED  BY <1>10, <2>2 DEF N
<1> QED  BY <1>9, <1>12, <1>13, <1>14

-----------------------------------------------------------------------------
(* The lines that are written and read.                                    *)

\* What LGC_SaveCFG writes is made line by line.
LEMMA WrittenUnfolds ==
  ASSUME NEW t, IsTable(t), NEW all
  PROVE  \E upto :
           /\ Written(t, all) = upto[Len(Listing(t))]
           /\ \A i \in 0..Len(Listing(t)) :
                upto[i] = IF i = 0 THEN << >>
                          ELSE IF Saves(Listing(t)[i], all)
                          THEN Append(upto[i - 1], <<"set", Listing(t)[i].name, Listing(t)[i].value>>)
                          ELSE upto[i - 1]
<1> DEFINE cvar == Listing(t)
           L(i) == <<"set", cvar[i].name, cvar[i].value>>
           B(i) == Saves(cvar[i], all)
           Upto(f, n) == f = [i \in 0..n |-> IF i = 0 THEN << >>
                                             ELSE IF B(i) THEN Append(f[i - 1], L(i)) ELSE f[i - 1]]
<1> HIDE DEF L, B
<1>1. Len(cvar) \in Nat
  BY ListingIsWhole, SequenceFacts
<1> HIDE DEF cvar
<1>2. ASSUME NEW f, NEW n, Upto(f, n), NEW i \in 0..n
      PROVE  f[i] = IF i = 0 THEN << >> ELSE IF B(i) THEN Append(f[i - 1], L(i)) ELSE f[i - 1]
  BY <1>2, Zenon
<1>3. \A n \in Nat : \E f : Upto(f, n)
  <2> DEFINE T == {n \in Nat : ~\E f : Upto(f, n)}
  <2>1. SUFFICES ASSUME T # {} PROVE FALSE
    OBVIOUS
  <2>2. PICK m \in T : \A k \in T : m <= k
    <3> HIDE DEF T
    <3>1. T \in SUBSET Nat
      BY DEF T
    <3> QED  BY <2>1, <3>1, LeastElement
  <2>3. m \in Nat /\ ~\E f : Upto(f, m)
    OBVIOUS
  <2>4. Upto([i \in 0..0 |-> << >>], 0)
    OBVIOUS
  <2>5. m # 0
    BY <2>3, <2>4
  <2>6. m - 1 \in Nat /\ m - 1 \notin T
    <3> HIDE DEF T
    <3> QED  BY <2>2, <2>3, <2>5
  <2>7. PICK f : Upto(f, m - 1)
    BY <2>6
  <2> DEFINE g == [i \in 0..m |-> IF i = m THEN IF B(m) THEN Append(f[m - 1], L(m)) ELSE f[m - 1]
                                  ELSE f[i]]
  <2>8. Upto(g, m)
    <3>1. \A i \in 0..m : g[i] = IF i = 0 THEN << >>
                                 ELSE IF B(i) THEN Append(g[i - 1], L(i)) ELSE g[i - 1]
      <4>1. ASSUME NEW i \in 0..m - 1
            PROVE  f[i] = IF i = 0 THEN << >> ELSE IF B(i) THEN Append(f[i - 1], L(i)) ELSE f[i - 1]
        BY <2>7, <1>2
      <4> HIDE DEF Upto
      <4>2. ASSUME NEW i \in 0..m, i # m
            PROVE  i \in 0..m - 1 /\ g[i] = f[i] /\ (i # 0 => g[i - 1] = f[i - 1])
        BY <4>2, <2>3
      <4>3. g[m] = (IF B(m) THEN Append(f[m - 1], L(m)) ELSE f[m - 1]) /\ g[m - 1] = f[m - 1]
        BY <2>3, <2>6
      <4> HIDE DEF g
      <4> QED  BY <2>5, <4>1, <4>2, <4>3
    <3>2. g = [i \in 0..m |-> g[i]]
      OBVIOUS
    <3> HIDE DEF g
    <3> QED  BY <3>1, <3>2
  <2> QED  BY <2>3, <2>8
<1> DEFINE upto == CHOOSE f : Upto(f, Len(cvar))
<1>4. Written(t, all) = upto[Len(cvar)]
  BY DEF Written, cvar, L, B
<1>5. Upto(upto, Len(cvar))
  BY <1>1, <1>3
<1>6. \A i \in 0..Len(cvar) :
        upto[i] = IF i = 0 THEN << >> ELSE IF B(i) THEN Append(upto[i - 1], L(i)) ELSE upto[i - 1]
  BY <1>2, <1>5
<1> HIDE DEF upto, Upto
<1> QED  BY <1>4, <1>6 DEF L, B, cvar

LEMMA WrittenIsSequence ==
  ASSUME NEW t, IsTable(t), NEW all PROVE IsSequence(Written(t, all))
<1> DEFINE N == Len(Listing(t))
           L(i) == <<"set", Listing(t)[i].name, Listing(t)[i].value>>
           B(i) == Saves(Listing(t)[i], all)
<1> HIDE DEF L, B
<1>1. N \in Nat
  BY ListingIsWhole, SequenceFacts
<1>2. PICK upto :
        /\ Written(t, all) = upto[N]
        /\ \A i \in 0..N :
             upto[i] = IF i = 0 THEN << >> ELSE IF B(i) THEN Append(upto[i - 1], L(i)) ELSE upto[i - 1]
  BY WrittenUnfolds DEF L, B
<1> HIDE DEF N
<1> DEFINE S == {i \in 0..N : IsSequence(upto[i])}
<1>3. 0 \in S
  <2>1. << >> \in Seq({})
    OBVIOUS
  <2>2. 0 \in 0..N /\ upto[0] = << >>
    BY <1>1, <1>2
  <2> QED  BY <2>1, <2>2, Sequence
<1>4. ASSUME NEW i \in 1..N, i - 1 \in S PROVE i \in S
  <2>1. upto[i] = IF B(i) THEN Append(upto[i - 1], L(i)) ELSE upto[i - 1]
    BY <1>1, <1>2
  <2>2. IsSequence(upto[i - 1]) /\ IsSequence(Append(upto[i - 1], L(i)))
    BY <1>4, SequenceFacts
  <2> QED  BY <1>1, <2>1, <2>2
<1>5. N \in S
  <2>1. 0..N \subseteq S
    <3> HIDE DEF S
    <3> QED  BY <1>1, <1>3, <1>4, IntervalInduction
  <2> QED  BY <1>1, <2>1
<1> QED  BY <1>2, <1>5

LEMMA FilesKept ==
  ASSUME NEW d, HasFiles(d), NEW file, NEW c, file \in Files => IsSequence(c)
  PROVE  HasFiles([d EXCEPT ![file] = c])
BY DEF HasFiles

\* What is in a file to be written anew or appended to, and what is written.
LEMMA SaveParts ==
  ASSUME NEW w, IsConsole(w), NEW file \in Files, NEW append, NEW all
  PROVE  /\ IsSequence(Opened(w.disk[file], append))
         /\ IsSequence(Written(w.table, all))
         /\ IsSequence(Opened(w.disk[file], append) \o Written(w.table, all))
<1>1. IsSequence(w.disk[file]) /\ IsTable(w.table)
  BY DEF IsConsole, HasFiles, Watches
<1>2. IsSequence(Written(w.table, all))
  BY <1>1, WrittenIsSequence
<1>3. IsSequence(<< >>)
  <2>1. << >> \in Seq({})
    OBVIOUS
  <2> QED  BY <2>1, Sequence
<1>4. IsSequence(Opened(w.disk[file], append))
  BY <1>1, <1>3 DEF Opened
<1> QED  BY <1>2, <1>4, SequenceFacts

LEMMA SaveObeys ==
  ASSUME NEW w, Obeys(w), NEW file, NEW append, NEW all
  PROVE  Obeys(SaveCFG(w, file, append, all))
<1> DEFINE c == Opened(w.disk[file], append) \o Written(w.table, all)
           d == [w.disk EXCEPT ![file] = c]
           v == SaveCFG(w, file, append, all)
<1>1. IsConsole(w)
  BY DEF Obeys
<1>2. w = [table |-> w.table, disk |-> w.disk, gpu |-> w.gpu] /\ Watches(w.table) /\ HasFiles(w.disk)
  BY <1>1 DEF IsConsole
<1>3. v = [w EXCEPT !.disk = d]
  BY DEF SaveCFG
<1>4. file \in Files => IsSequence(c)
  BY <1>1, SaveParts
<1> HIDE DEF c, v
<1>5. HasFiles(d)
  BY <1>2, <1>4, FilesKept
<1> HIDE DEF d
<1>6. v = [table |-> w.table, disk |-> d, gpu |-> w.gpu]
  BY <1>2, <1>3
<1>7. v.table = w.table /\ v.disk = d /\ v.gpu = w.gpu
  BY <1>6
<1>8. Obeys(v)
  BY <1>2, <1>5, <1>6, <1>7 DEF Obeys, IsConsole
<1> QED  BY <1>8 DEF v

LEMMA SentObeys ==
  ASSUME NEW w, Obeys(w), NEW args PROVE Obeys(Sent(w, args))
<1>1. CASE args[1] = "set"
  <2>1. Sent(w, args) = SetCommand(w, args[2], args[3])
    BY <1>1 DEF Sent
  <2> QED  BY <2>1, SetCommandObeys
<1>2. CASE args[1] = "quit"
  <2> DEFINE u == Replaced(w.table, Set(Get(w.table, "lg_ShouldQuit"), <<"1">>))
             v == [w EXCEPT !.table = u]
  <2>1. Sent(w, args) = v
    BY <1>2 DEF Sent
  <2>2. w = [table |-> w.table, disk |-> w.disk, gpu |-> w.gpu] /\ Watches(w.table) /\ HasFiles(w.disk)
    BY DEF Obeys, IsConsole
  <2>3. Has(w.table, "lg_ShouldQuit")
    BY <2>2 DEF Watches
  <2>4. Watches(u) /\ Agree(u, w.table, "lg_ShouldQuit")
    BY <2>2, <2>3, SetEntry
  <2>5. "lg_ShouldQuit" \notin Followed
    BY DEF Followed
  <2> HIDE DEF u
  <2>6. StatesOf(u) = StatesOf(w.table)
    BY <2>2, <2>4, <2>5, AgreeingStates
  <2>7. v = [table |-> u, disk |-> w.disk, gpu |-> w.gpu]
    BY <2>2
  <2>8. v.table = u /\ v.disk = w.disk /\ v.gpu = w.gpu
    BY <2>7
  <2> HIDE DEF v
  <2> QED  BY <2>1, <2>2, <2>4, <2>6, <2>7, <2>8 DEF Obeys, IsConsole
<1>3. CASE args[1] = "savecfg"
  <2>1. Sent(w, args) = SaveCFG(w, args[2], "APPEND" \in Range(args), "ALL" \in Range(args))
    BY <1>3 DEF Sent
  <2> QED  BY <2>1, SaveObeys
<1>4. CASE args[1] \notin {"set", "quit", "savecfg"}
  BY <1>4 DEF Sent
<1> QED  BY <1>1, <1>2, <1>3, <1>4

\* What LGC_LoadCFG makes of a console is made line by line.
LEMMA LoadUnfolds ==
  ASSUME NEW w, NEW contents, IsSequence(contents)
  PROVE  \E after :
           /\ LoadCFG(w, contents) = after[Len(contents)]
           /\ \A i \in 0..Len(contents) :
                after[i] = IF i = 0 THEN w ELSE Sent(after[i - 1], Line(contents[i]))
<1> DEFINE L(i) == Line(contents[i])
           After(f, n) == f = [i \in 0..n |-> IF i = 0 THEN w ELSE Sent(f[i - 1], L(i))]
<1> HIDE DEF L
<1>1. Len(contents) \in Nat
  BY SequenceFacts
<1>2. ASSUME NEW f, NEW n, After(f, n), NEW i \in 0..n
      PROVE  f[i] = IF i = 0 THEN w ELSE Sent(f[i - 1], L(i))
  BY <1>2, Zenon
<1>3. \A n \in Nat : \E f : After(f, n)
  <2> DEFINE T == {n \in Nat : ~\E f : After(f, n)}
  <2>1. SUFFICES ASSUME T # {} PROVE FALSE
    OBVIOUS
  <2>2. PICK m \in T : \A k \in T : m <= k
    <3> HIDE DEF T
    <3>1. T \in SUBSET Nat
      BY DEF T
    <3> QED  BY <2>1, <3>1, LeastElement
  <2>3. m \in Nat /\ ~\E f : After(f, m)
    OBVIOUS
  <2>4. After([i \in 0..0 |-> w], 0)
    OBVIOUS
  <2>5. m # 0
    BY <2>3, <2>4
  <2>6. m - 1 \in Nat /\ m - 1 \notin T
    <3> HIDE DEF T
    <3> QED  BY <2>2, <2>3, <2>5
  <2>7. PICK f : After(f, m - 1)
    BY <2>6
  <2> DEFINE g == [i \in 0..m |-> IF i = m THEN Sent(f[m - 1], L(m)) ELSE f[i]]
  <2>8. After(g, m)
    <3>1. \A i \in 0..m : g[i] = IF i = 0 THEN w ELSE Sent(g[i - 1], L(i))
      <4>1. ASSUME NEW i \in 0..m - 1
            PROVE  f[i] = IF i = 0 THEN w ELSE Sent(f[i - 1], L(i))
        BY <2>7, <1>2
      <4> HIDE DEF After
      <4>2. ASSUME NEW i \in 0..m, i # m
            PROVE  i \in 0..m - 1 /\ g[i] = f[i] /\ (i # 0 => g[i - 1] = f[i - 1])
        BY <4>2, <2>3
      <4>3. g[m] = Sent(f[m - 1], L(m)) /\ g[m - 1] = f[m - 1]
        BY <2>3, <2>6
      <4> HIDE DEF g
      <4> QED  BY <2>5, <4>1, <4>2, <4>3
    <3>2. g = [i \in 0..m |-> g[i]]
      OBVIOUS
    <3> HIDE DEF g
    <3> QED  BY <3>1, <3>2
  <2> QED  BY <2>3, <2>8
<1> DEFINE after == CHOOSE f : After(f, Len(contents))
<1>4. LoadCFG(w, contents) = after[Len(contents)]
  BY DEF LoadCFG, L
<1>5. After(after, Len(contents))
  BY <1>1, <1>3
<1>6. \A i \in 0..Len(contents) : after[i] = IF i = 0 THEN w ELSE Sent(after[i - 1], L(i))
  BY <1>2, <1>5
<1> HIDE DEF after, After
<1> QED  BY <1>4, <1>6 DEF L

LEMMA LoadObeys ==
  ASSUME NEW w, Obeys(w), NEW contents, IsSequence(contents)
  PROVE  Obeys(LoadCFG(w, contents))
<1> DEFINE N == Len(contents)
<1>1. N \in Nat
  BY SequenceFacts
<1>2. PICK after : /\ LoadCFG(w, contents) = after[N]
                   /\ \A i \in 0..N : after[i] = IF i = 0 THEN w ELSE Sent(after[i - 1], Line(contents[i]))
  BY LoadUnfolds
<1> HIDE DEF N
<1> DEFINE S == {i \in 0..N : Obeys(after[i])}
<1>3. 0 \in S
  BY <1>1, <1>2
<1>4. ASSUME NEW i \in 1..N, i - 1 \in S PROVE i \in S
  <2>1. after[i] = Sent(after[i - 1], Line(contents[i])) /\ Obeys(after[i - 1])
    BY <1>1, <1>2, <1>4
  <2> QED  BY <1>1, <2>1, SentObeys
<1>5. N \in S
  <2>1. 0..N \subseteq S
    <3> HIDE DEF S
    <3> QED  BY <1>1, <1>3, <1>4, IntervalInduction
  <2> QED  BY <1>1, <2>1
<1> QED  BY <1>2, <1>5

LEMMA CommandObeys ==
  ASSUME NEW w, Obeys(w), NEW args, args[1] = "loadcfg" => args[2] \in Files
  PROVE  Obeys(SendCommand(w, args))
<1>1. CASE args[1] = "loadcfg"
  <2>1. IsSequence(w.disk[args[2]])
    BY <1>1 DEF Obeys, IsConsole, HasFiles
  <2>2. SendCommand(w, args) = LoadCFG(w, w.disk[args[2]])
    BY <1>1 DEF SendCommand
  <2> QED  BY <2>1, <2>2, LoadObeys
<1>2. CASE args[1] # "loadcfg"
  BY <1>2, SentObeys DEF SendCommand
<1> QED  BY <1>1, <1>2

-----------------------------------------------------------------------------
(* The variables that are registered.                                      *)

LEMMA EmptyIsTable == IsTable(EmptyTable) /\ \A name : ~Has(EmptyTable, name)
<1>1. EmptyTable = [s \in Slots |-> << >>]
  BY DEF EmptyTable
<1>2. ASSUME NEW s \in Slots PROVE IsChain(<< >>, s)
  <2>1. << >> \in Seq({<< >>[i] : i \in DOMAIN << >>}) /\ Len(<< >>) = 0
    OBVIOUS
  <2> QED  BY <2>1 DEF IsChain
<1>3. IsTable(EmptyTable)
  BY <1>1, <1>2 DEF IsTable
<1>4. ASSUME NEW name PROVE ~Has(EmptyTable, name)
  <2>1. CASE name \in DOMAIN SlotOf
    <3>1. SlotOf[name] \in Slots
      BY <2>1 DEF Slots, Range
    <3>2. Chain(EmptyTable, name) = << >>
      BY <1>1, <2>1, <3>1 DEF Chain
    <3> QED  BY <3>2 DEF Has, Places
  <2>2. CASE name \notin DOMAIN SlotOf
    <3>1. Chain(EmptyTable, name) = << >>
      BY <2>2 DEF Chain
    <3> QED  BY <3>1 DEF Has, Places
  <2> QED  BY <2>1, <2>2
<1> QED  BY <1>3, <1>4

\* A new variable has the flags it is registered with, and what it holds of its text.
LEMMA RegisterNew ==
  ASSUME NEW t, IsTable(t), NEW name \in DOMAIN SlotOf, ~Has(t, name),
         NEW text, NEW flags, NEW u
  PROVE  u = Register(t, name, text, flags) =>
           /\ IsTable(u) /\ Has(u, name) /\ Get(u, name).flags = flags
           /\ Get(u, name).value = Cut(text) /\ Agree(u, t, name)
<1> DEFINE y == [name |-> name, value |-> << >>, flags |-> {}]
           x == [Set(y, text) EXCEPT !.flags = flags]
<1>1. IsCvar(x) /\ x.name = name /\ x.flags = flags /\ x.value = Cut(text)
  <2>1. "ROM" \notin y.flags
    OBVIOUS
  <2> DEFINE v == Cut(text)
  <2>2. Set(y, text) = [y EXCEPT !.value = v]
    BY <2>1 DEF Set
  <2> HIDE DEF v
  <2>3. Set(y, text) = [name |-> name, value |-> v, flags |-> {}]
    BY <2>2
  <2> HIDE DEF y
  <2>4. x = [name |-> name, value |-> v, flags |-> flags]
    BY <2>3
  <2> HIDE DEF x
  <2>5. x.name = name /\ x.value = v /\ x.flags = flags
    BY <2>4
  <2> QED  BY <2>4, <2>5 DEF IsCvar, v
<1>2. u = Register(t, name, text, flags) => u = Inserted(t, x)
  BY DEF Register
<1> HIDE DEF x
<1>3. u = Inserted(t, x) => IsTable(u) /\ Has(u, x.name) /\ Get(u, x.name) = x /\ Agree(u, t, x.name)
  BY <1>1, InsertedTable
<1>4. SUFFICES ASSUME IsTable(u), Has(u, x.name), Get(u, x.name) = x, Agree(u, t, x.name)
               PROVE  /\ IsTable(u) /\ Has(u, name) /\ Get(u, name).flags = flags
                      /\ Get(u, name).value = Cut(text) /\ Agree(u, t, name)
  BY <1>2, <1>3
<1> QED  BY <1>1, <1>4

LEMMA RegisteredFacts ==
  /\ Len(Registered) \in Nat
  /\ \A i \in 1..Len(Registered) :
       /\ Registered[i] \in Range(Registered)
       /\ Registered[i].name \in DOMAIN SlotOf
       /\ \A j \in 1..Len(Registered) : Registered[i].name = Registered[j].name => i = j
  /\ \A r \in Range(Registered) : \E i \in 1..Len(Registered) : r = Registered[i]
<1>1. Len(Registered) \in Nat /\ DOMAIN Registered = 1..Len(Registered)
  BY ConsoleAssumption, SequenceFacts
<1>2. Range(Registered) = {Registered[i] : i \in 1..Len(Registered)}
  BY <1>1 DEF Range
<1> QED  BY <1>1, <1>2, ConsoleAssumption

\* After LG_RegisterCVars what was registered is there, with its flags and its
\* text, and nothing else.
LEMMA RegisterAll ==
  /\ IsTable(RegisterCVars) /\ \A n : Has(RegisterCVars, n) <=> n \in Names
  /\ \A r \in Range(Registered) : /\ Get(RegisterCVars, r.name).flags = r.flags
                                   /\ Get(RegisterCVars, r.name).value = Cut(r.value)
<1> DEFINE R(t, i) == Register(t, Registered[i].name, Registered[i].value, Registered[i].flags)
           After(f, n) == f = [i \in 0..n |-> IF i = 0 THEN EmptyTable ELSE R(f[i - 1], i)]
           N == Len(Registered)
<1> HIDE DEF R
<1>1. N \in Nat
  BY RegisteredFacts
<1>2. ASSUME NEW f, NEW n, After(f, n), NEW i \in 0..n
      PROVE  f[i] = IF i = 0 THEN EmptyTable ELSE R(f[i - 1], i)
  BY <1>2, Zenon
<1>3. \A n \in Nat : \E f : After(f, n)
  <2> DEFINE T == {n \in Nat : ~\E f : After(f, n)}
  <2>1. SUFFICES ASSUME T # {} PROVE FALSE
    OBVIOUS
  <2>2. PICK m \in T : \A k \in T : m <= k
    <3> HIDE DEF T
    <3>1. T \in SUBSET Nat
      BY DEF T
    <3> QED  BY <2>1, <3>1, LeastElement
  <2>3. m \in Nat /\ ~\E f : After(f, m)
    OBVIOUS
  <2>4. After([i \in 0..0 |-> EmptyTable], 0)
    OBVIOUS
  <2>5. m # 0
    BY <2>3, <2>4
  <2>6. m - 1 \in Nat /\ m - 1 \notin T
    <3> HIDE DEF T
    <3> QED  BY <2>2, <2>3, <2>5
  <2>7. PICK f : After(f, m - 1)
    BY <2>6
  <2> DEFINE g == [i \in 0..m |-> IF i = m THEN R(f[m - 1], m) ELSE f[i]]
  <2>8. After(g, m)
    <3>1. \A i \in 0..m : g[i] = IF i = 0 THEN EmptyTable ELSE R(g[i - 1], i)
      <4>1. ASSUME NEW i \in 0..m - 1
            PROVE  f[i] = IF i = 0 THEN EmptyTable ELSE R(f[i - 1], i)
        BY <2>7, <1>2
      <4> HIDE DEF After
      <4>2. ASSUME NEW i \in 0..m, i # m
            PROVE  i \in 0..m - 1 /\ g[i] = f[i] /\ (i # 0 => g[i - 1] = f[i - 1])
        BY <4>2, <2>3
      <4>3. g[m] = R(f[m - 1], m) /\ g[m - 1] = f[m - 1]
        BY <2>3, <2>6
      <4> HIDE DEF g
      <4> QED  BY <2>5, <4>1, <4>2, <4>3
    <3>2. g = [i \in 0..m |-> g[i]]
      OBVIOUS
    <3> HIDE DEF g
    <3> QED  BY <3>1, <3>2
  <2> QED  BY <2>3, <2>8
<1> DEFINE after == CHOOSE f : After(f, N)
<1>4. RegisterCVars = after[N]
  BY DEF RegisterCVars, R
<1>5. After(after, N)
  BY <1>1, <1>3
<1> HIDE DEF after, N
<1>6. \A i \in 0..N : after[i] = IF i = 0 THEN EmptyTable ELSE R(after[i - 1], i)
  BY <1>2, <1>5
<1> HIDE DEF After
<1> DEFINE Done(n) == /\ IsTable(after[n])
                      /\ \A name : Has(after[n], name) <=> \E j \in 1..n : name = Registered[j].name
                      /\ \A j \in 1..n :
                           /\ Get(after[n], Registered[j].name).flags = Registered[j].flags
                           /\ Get(after[n], Registered[j].name).value = Cut(Registered[j].value)
           T == {n \in Nat : n <= N /\ ~Done(n)}
<1>7. T = {}
  <2>1. SUFFICES ASSUME T # {} PROVE FALSE
    OBVIOUS
  <2>2. PICK m \in T : \A k \in T : m <= k
    <3> HIDE DEF T
    <3>1. T \in SUBSET Nat
      BY DEF T
    <3> QED  BY <2>1, <3>1, LeastElement
  <2>3. m \in 0..N /\ ~Done(m)
    BY <1>1
  <2>4. after[0] = EmptyTable
    BY <1>1, <1>6
  <2>5. Done(0)
    BY <2>4, EmptyIsTable
  <2>6. m # 0
    BY <2>3, <2>5
  <2>7. m \in 1..N /\ m - 1 \in 0..N /\ m - 1 \notin T
    <3> HIDE DEF T, Done
    <3> QED  BY <1>1, <2>2, <2>3, <2>6
  <2>8. Done(m - 1)
    <3> HIDE DEF Done
    <3> QED  BY <1>1, <2>7
  <2> DEFINE t == after[m - 1]
             u == after[m]
             r == Registered[m]
  <2>9. u = Register(t, r.name, r.value, r.flags)
    BY <1>6, <2>6, <2>7 DEF R
  <2>10. IsTable(t) /\ r.name \in DOMAIN SlotOf /\ ~Has(t, r.name)
    <3>1. r.name \in DOMAIN SlotOf
      BY <2>7, RegisteredFacts DEF N
    <3>2. \A j \in 1..m - 1 : r.name # Registered[j].name
      <4>1. \A j \in 1..m - 1 : j \in 1..N /\ j # m
        BY <1>1, <2>7
      <4> QED  BY <2>7, <4>1, RegisteredFacts DEF N
    <3> QED  BY <2>8, <3>1, <3>2
  <2> HIDE DEF Done, T
  <2>11. /\ IsTable(u) /\ Has(u, r.name) /\ Get(u, r.name).flags = r.flags
         /\ Get(u, r.name).value = Cut(r.value) /\ Agree(u, t, r.name)
    <3> HIDE DEF t, u, r
    <3> QED  BY <2>9, <2>10, RegisterNew
  <2>12. ASSUME NEW j \in 1..m - 1
         PROVE  Registered[j].name # r.name /\ Has(t, Registered[j].name)
    <3>1. j \in 1..N /\ j # m
      BY <1>1, <2>7
    <3>2. Registered[j].name # r.name
      BY <2>7, <3>1, RegisteredFacts DEF N
    <3> QED  BY <2>8, <3>2 DEF Done
  <2>13. \A j \in 1..m : j = m \/ j \in 1..m - 1
    BY <2>7
  <2>14. ASSUME NEW j \in 1..m
         PROVE  /\ Get(u, Registered[j].name).flags = Registered[j].flags
                /\ Get(u, Registered[j].name).value = Cut(Registered[j].value)
    <3>1. CASE j = m  BY <3>1, <2>11
    <3>2. CASE j \in 1..m - 1
      <4>1. Get(u, Registered[j].name) = Get(t, Registered[j].name)
        <5> HIDE DEF t, u, r
        <5> QED  BY <3>2, <2>11, <2>12 DEF Agree
      <4>2. /\ Get(t, Registered[j].name).flags = Registered[j].flags
            /\ Get(t, Registered[j].name).value = Cut(Registered[j].value)
        BY <2>8, <3>2 DEF Done
      <4> QED  BY <4>1, <4>2
    <3> QED  BY <2>13, <3>1, <3>2
  <2>15. ASSUME NEW name PROVE Has(u, name) <=> \E j \in 1..m : name = Registered[j].name
    <3>1. Has(t, name) <=> \E j \in 1..m - 1 : name = Registered[j].name
      BY <2>8 DEF Done
    <3>2. 1..m - 1 \subseteq 1..m /\ m \in 1..m
      BY <2>7
    <3>3. CASE name = r.name
      BY <2>11, <3>2, <3>3
    <3>4. CASE name # r.name
      <4>1. Has(u, name) <=> Has(t, name)
        <5> HIDE DEF t, u, r
        <5> QED  BY <2>11, <3>4 DEF Agree
      <4> QED  BY <2>13, <3>1, <3>2, <3>4, <4>1
    <3> QED  BY <3>3, <3>4
  <2>16. Done(m)
    BY <2>11, <2>14, <2>15 DEF Done
  <2> QED  BY <2>3, <2>16
<1>8. Done(N)
  BY <1>1, <1>7
<1>9. ASSUME NEW n PROVE Has(after[N], n) <=> n \in Names
  <2>1. DOMAIN Registered = 1..N
    BY ConsoleAssumption, SequenceFacts DEF N
  <2> QED  BY <1>8, <2>1 DEF Names
<1>10. ASSUME NEW r \in Range(Registered)
       PROVE  Get(after[N], r.name).flags = r.flags /\ Get(after[N], r.name).value = Cut(r.value)
  <2>1. PICK j \in 1..N : r = Registered[j]
    BY RegisteredFacts DEF N
  <2> QED  BY <1>8, <2>1
<1> QED  BY <1>4, <1>8, <1>9, <1>10

LEMMA RegisterWatches == Watches(RegisterCVars)
<1>1. ASSUME NEW r \in Range(Registered) PROVE Has(RegisterCVars, r.name)
  <2>1. r.name \in Names
    BY RegisteredFacts, ConsoleAssumption, SequenceFacts DEF Names, Range
  <2> QED  BY <2>1, RegisterAll
<1> QED  BY <1>1, RegisterAll, ConsoleAssumption DEF Watches, Followed

-----------------------------------------------------------------------------
(* The life of the game.                                                   *)

\* From the registration to the shutdown the variables are watched, and the
\* device follows them once there is one.
SettingsInv ==
  /\ phase \in {"off", "config", "running"} /\ HasFiles(disk)
  /\ phase # "off" => Watches(table)
  /\ phase = "running" => gpu = StatesOf(table)

LEMMA ConsoleFields ==
  /\ Console = [table |-> Console.table, disk |-> Console.disk, gpu |-> Console.gpu]
  /\ Console.table = table /\ Console.disk = disk /\ Console.gpu = gpu
BY DEF Console

LEMMA ConsoleObeys ==
  ASSUME SettingsInv, phase # "off" PROVE Obeys(Console)
BY ConsoleFields DEF SettingsInv, Obeys, IsConsole

LEMMA SettingsInitially == ConsoleInit => SettingsInv
<1> SUFFICES ASSUME ConsoleInit PROVE SettingsInv
  OBVIOUS
<1>1. phase = "off" /\ disk \in FoundFirst
  BY DEF ConsoleInit
<1>2. HasFiles(disk)
  BY <1>1, ConsoleAssumption DEF HasFiles
<1> QED  BY <1>1, <1>2 DEF SettingsInv

LEMMA SettingsLoaded == ASSUME SettingsInv, GameInit PROVE SettingsInv'
<1> DEFINE w == [Console EXCEPT !.table = RegisterCVars]
           v == SendCommand(w, <<"loadcfg", "config.cfg">>)
           u == LoadCFG(v, Autoexec)
<1>1. phase = "off" /\ phase' = "config" /\ Becomes(u)
  BY DEF GameInit
<1>2. w = [table |-> RegisterCVars, disk |-> disk, gpu |-> gpu]
  BY DEF Console
<1>3. w.table = RegisterCVars /\ w.disk = disk /\ w.gpu = gpu
  BY <1>2
<1> HIDE DEF w
<1>4. Obeys(w)
  BY <1>1, <1>2, <1>3, RegisterWatches DEF Obeys, IsConsole, SettingsInv
<1>5. Obeys(v)
  <2> DEFINE args == <<"loadcfg", "config.cfg">>
  <2>1. args[2] \in Files
    BY DEF Files
  <2> HIDE DEF args
  <2>2. Obeys(SendCommand(w, args))
    BY <1>4, <2>1, CommandObeys
  <2> QED  BY <2>2 DEF args
<1> HIDE DEF v
<1>6. Obeys(u)
  BY <1>5, LoadObeys, ConsoleAssumption
<1> HIDE DEF u
<1> QED  BY <1>1, <1>6 DEF Obeys, IsConsole, SettingsInv, Becomes, Watches, HasFiles

LEMMA SettingsVideo == ASSUME SettingsInv, InitVideo PROVE SettingsInv'
<1>1. phase = "config"
  BY DEF InitVideo
<1>2. CASE phase' = "running" /\ Becomes(SetStates(Console))
  <2> DEFINE v == SetStates(Console)
  <2>1. IsConsole(v) /\ v.gpu = StatesOf(v.table)
    BY <1>1, ConsoleObeys, SetStatesObeys DEF Obeys
  <2>2. table' = v.table /\ disk' = v.disk /\ gpu' = v.gpu
    BY <1>2 DEF Becomes
  <2> HIDE DEF v
  <2> QED  BY <1>2, <2>1, <2>2 DEF IsConsole, SettingsInv, Watches, HasFiles, StatesOf
<1>3. CASE Off /\ UNCHANGED disk
  BY <1>3 DEF Off, SettingsInv, HasFiles
<1> QED  BY <1>2, <1>3 DEF InitVideo

LEMMA SettingsCommand ==
  ASSUME SettingsInv, NEW args \in Typed, TypeCommand(args) PROVE SettingsInv'
<1> DEFINE v == SendCommand(Console, args)
<1>1. phase = "running" /\ phase' = phase /\ Becomes(v)
  BY DEF TypeCommand
<1>2. Obeys(v)
  BY <1>1, ConsoleObeys, CommandObeys, FrontendAssumption
<1> HIDE DEF v
<1>3. table' = v.table /\ disk' = v.disk /\ gpu' = v.gpu
  BY <1>1 DEF Becomes
<1> QED  BY <1>1, <1>2, <1>3 DEF Obeys, IsConsole, SettingsInv, Watches, HasFiles, StatesOf

\* Wherever the process is killed in LGC_SaveCFG, whole lines and one torn are left.
LEMMA CutShortIsSequence ==
  ASSUME NEW w, IsConsole(w), NEW file \in Files, NEW append, NEW all,
         NEW contents \in CutShort(w, file, append, all)
  PROVE  IsSequence(contents)
<1> DEFINE old == Opened(w.disk[file], append)
           new == Written(w.table, all)
<1>1. IsSequence(old) /\ IsSequence(new)
  BY SaveParts
<1>2. \/ contents = old
      \/ \E k \in DOMAIN new : \E torn \in Torn(new[k]) : contents = old \o SubSeq(new, 1, k - 1) \o torn
  BY DEF CutShort
<1> HIDE DEF old, new
<1>3. ASSUME NEW k \in DOMAIN new, NEW torn \in Torn(new[k])
      PROVE  IsSequence(old \o SubSeq(new, 1, k - 1) \o torn)
  <2>1. IsSequence(SubSeq(new, 1, k - 1))
    BY <1>1, SequenceFacts
  <2>2. IsSequence(old \o SubSeq(new, 1, k - 1))
    BY <1>1, <2>1, SequenceFacts
  <2>3. ASSUME NEW e PROVE IsSequence(<<e>>)
    <3>1. <<e>> \in Seq({e})
      OBVIOUS
    <3> QED  BY <3>1, Sequence
  <2>4. IsSequence(<< >>)
    <3>1. << >> \in Seq({})
      OBVIOUS
    <3> QED  BY <3>1, Sequence
  <2>5. IsSequence(torn)
    BY <2>3, <2>4 DEF Torn
  <2> QED  BY <2>2, <2>5, SequenceFacts
<1> QED  BY <1>1, <1>2, <1>3

LEMMA SettingsOff ==
  ASSUME SettingsInv, Off, HasFiles(disk') PROVE SettingsInv'
BY DEF Off, SettingsInv, HasFiles

LEMMA SettingsShutdown == ASSUME SettingsInv, phase # "off", GameShutdown PROVE SettingsInv'
<1>1. Obeys(Console) /\ HasFiles(disk) /\ Off
  BY ConsoleObeys DEF SettingsInv, GameShutdown
<1>2. CASE disk' = SaveCFG(Console, "config.cfg", FALSE, FALSE).disk
  <2> DEFINE v == SaveCFG(Console, "config.cfg", FALSE, FALSE)
  <2>1. Obeys(v)
    BY <1>1, SaveObeys
  <2>2. disk' = v.disk
    BY <1>2
  <2> HIDE DEF v
  <2>3. HasFiles(disk')
    BY <2>1, <2>2 DEF Obeys, IsConsole
  <2> QED  BY <1>1, <2>3, SettingsOff
<1>3. CASE disk' = disk
  BY <1>1, <1>3, SettingsOff
<1>4. CASE \E contents \in CutShort(Console, "config.cfg", FALSE, FALSE) :
             disk' = [disk EXCEPT !["config.cfg"] = contents]
  <2>1. PICK contents \in CutShort(Console, "config.cfg", FALSE, FALSE) :
          disk' = [disk EXCEPT !["config.cfg"] = contents]
    BY <1>4
  <2>2. "config.cfg" \in Files
    BY DEF Files
  <2>3. IsSequence(contents)
    BY <1>1, <2>2, CutShortIsSequence DEF Obeys
  <2>4. HasFiles(disk')
    BY <1>1, <2>1, <2>3, FilesKept
  <2> QED  BY <1>1, <2>4, SettingsOff
<1> QED  BY <1>2, <1>3, <1>4 DEF GameShutdown

LEMMA SettingsKilled ==
  ASSUME SettingsInv, NEW args, KilledInCommand(args) PROVE SettingsInv'
<1> DEFINE append == "APPEND" \in Range(args)
           all == "ALL" \in Range(args)
<1>1. phase = "running" /\ Off
  BY DEF KilledInCommand
<1>2. PICK contents \in CutShort(Console, args[2], append, all) :
        disk' = [disk EXCEPT ![args[2]] = contents]
  BY DEF KilledInCommand
<1>3. Obeys(Console) /\ HasFiles(disk)
  BY <1>1, ConsoleObeys DEF SettingsInv
<1>4. args[2] \in Files => IsSequence(contents)
  BY <1>3, CutShortIsSequence DEF Obeys
<1>5. HasFiles(disk')
  BY <1>2, <1>3, <1>4, FilesKept
<1> QED  BY <1>1, <1>5, SettingsOff

LEMMA SettingsQuiet == ASSUME SettingsInv, UNCHANGED consoleVars PROVE SettingsInv'
BY DEF SettingsInv, consoleVars, Watches, HasFiles, StatesOf

LEMMA SettingsStep == SettingsInv /\ [Next]_vars => SettingsInv'
<1> SUFFICES ASSUME SettingsInv, [Next]_vars PROVE SettingsInv'
  OBVIOUS
<1>1. CASE Start
  BY <1>1, SettingsLoaded DEF Start
<1>2. CASE StartVideo
  BY <1>2, SettingsVideo DEF StartVideo
<1>3. CASE Peek \/ Dispatch
  BY <1>3, SettingsQuiet DEF Peek, Dispatch
<1>4. CASE Frame
  <2>1. phase = "running" /\ phase # "off" /\ (GameShutdown \/ UNCHANGED consoleVars)
    BY <1>4 DEF Frame
  <2> QED  BY <2>1, SettingsShutdown, SettingsQuiet
<1>5. CASE Crash
  <2>1. Off /\ disk' = disk
    BY <1>5 DEF Crash, Killed
  <2> QED  BY <2>1, SettingsOff DEF SettingsInv
<1>6. CASE \E args \in Typed : TypeLine(args)
  <2>1. PICK args \in Typed : TypeLine(args)
    BY <1>6
  <2> QED  BY <2>1, SettingsCommand, SettingsKilled DEF TypeLine
<1>7. CASE \E k \in Keys \cup Buttons : Press(k) \/ Release(k)
  BY <1>7, SettingsQuiet DEF Press, Release, User
<1>8. CASE SwitchFocus
  BY <1>8, SettingsQuiet DEF SwitchFocus, User
<1>9. CASE UNCHANGED vars
  BY <1>9, SettingsQuiet DEF vars
<1> QED  BY <1>1, <1>2, <1>3, <1>4, <1>5, <1>6, <1>7, <1>8, <1>9 DEF Next

\* The sampler filter and the fill mode of the device are what the console
\* variables say from the moment there is a device, whatever the .cfg files
\* hold, whatever is typed and whenever the process was killed before
\* (CLVideo::SetStates, LGC_CvarUpdate, LGC_Set).
THEOREM StatesFollow == Spec => []StatesFollowCvars
<1>1. Init => SettingsInv
  BY SettingsInitially DEF Init
<1>2. SettingsInv => StatesFollowCvars
  BY DEF SettingsInv, StatesFollowCvars, StatesOf, Value
<1> QED
  BY <1>1, <1>2, SettingsStep, PTL DEF Spec

-----------------------------------------------------------------------------
(***************************************************************************)
(* The settings come back.                                                 *)
(***************************************************************************)

\* What a variable may hold.
IsText(x) == IsSequence(x) /\ Len(x) <= MaxLen

LEMMA NoText == IsSequence(<< >>) /\ Len(<< >>) = 0
<1>1. << >> \in Seq({}) /\ Len(<< >>) = 0
  OBVIOUS
<1> QED  BY <1>1, Sequence

LEMMA TextsRoom == MaxLen \in Nat /\ MaxLen >= 1 /\ Room \in Nat
BY ConsoleAssumption

LEMMA CutText ==
  ASSUME NEW text, IsSequence(text)
  PROVE  IsText(Cut(text)) /\ (Len(text) <= MaxLen => Cut(text) = text)
<1> DEFINE n == IF Len(text) < MaxLen THEN Len(text) ELSE MaxLen
<1>1. text \in Seq(Range(text)) /\ Len(text) \in Nat
  BY SequenceFacts DEF IsSequence
<1>2. n \in Nat /\ n <= Len(text) /\ n <= MaxLen /\ (Len(text) <= MaxLen => n = Len(text))
  BY <1>1, TextsRoom
<1>3. Cut(text) = SubSeq(text, 1, n)
  BY DEF Cut
<1> HIDE DEF n
<1>4. \A i \in 1..n : text[i] \in Range(text)
  <2>1. \A i \in 1..Len(text) : text[i] \in Range(text)
    BY <1>1, ElementOfSeq
  <2> QED  BY <1>1, <1>2, <2>1
<1>5. /\ SubSeq(text, 1, n) \in Seq(Range(text))
      /\ Len(SubSeq(text, 1, n)) = IF 1 <= n THEN n - 1 + 1 ELSE 0
  BY <1>2, <1>4, SubSeqProperties
<1>6. IsText(Cut(text))
  <2>1. IsSequence(SubSeq(text, 1, n))
    BY <1>5, Sequence
  <2>2. Len(SubSeq(text, 1, n)) <= MaxLen
    BY <1>2, <1>5, TextsRoom
  <2> QED  BY <1>3, <2>1, <2>2 DEF IsText
<1>7. Len(text) <= MaxLen => Cut(text) = text
  BY <1>1, <1>2, <1>3, SubSeqFull
<1> QED  BY <1>6, <1>7

\* What is read back of a text is a part of it.
LEMMA ReadText ==
  ASSUME NEW text, IsSequence(text)
  PROVE  /\ IsSequence(ReadBack(text)) /\ Len(ReadBack(text)) <= Len(text)
         /\ text = << >> => ReadBack(text) = << >>
<1> DEFINE T == {Room, Len(text)} \cup {i - 1 : i \in Comments(text) \cup Bare(text)}
           n == Min(T)
           read == SubSeq(text, 1, n)
<1>1. text \in Seq(Range(text)) /\ Len(text) \in Nat
  BY SequenceFacts DEF IsSequence
<1>2. T \in SUBSET Nat /\ Len(text) \in T
  <2>1. \A i \in Comments(text) \cup Bare(text) : i - 1 \in Nat
    BY <1>1 DEF Comments, Bare
  <2> QED  BY <1>1, <2>1, TextsRoom
<1>3. ReadBack(text) = read \/ (read # <<>> /\ ReadBack(text) = Front(read))
  BY DEF ReadBack, ReadUpTo
<1> HIDE DEF T
<1>4. n \in T /\ n \in Nat
  BY <1>2, MinIsMember
<1>5. n <= Len(text)
  <2>1. PICK i \in T : \A j \in T : i <= j
    BY <1>2, LeastElement
  <2>2. \A j \in T : n <= j
    BY <2>1 DEF Min
  <2> QED  BY <1>2, <2>2
<1> HIDE DEF n
<1>6. \A i \in 1..n : text[i] \in Range(text)
  <2>1. \A i \in 1..Len(text) : text[i] \in Range(text)
    BY <1>1, ElementOfSeq
  <2> QED  BY <1>1, <1>4, <1>5, <2>1
<1>7. read \in Seq(Range(text)) /\ Len(read) = n
  BY <1>4, <1>6, SubSeqProperties
<1>8. ReadBack(text) \in Seq(Range(text)) /\ Len(ReadBack(text)) <= n
  <2> HIDE DEF read
  <2>1. CASE ReadBack(text) = read
    BY <1>4, <1>7, <2>1
  <2>2. CASE read # <<>> /\ ReadBack(text) = Front(read)
    <3>1. n >= 1
      BY <1>4, <1>7, <2>2, NoText
    <3>2. \A i \in 1..n - 1 : read[i] \in Range(text)
      BY <1>4, <1>7, ElementOfSeq
    <3>3. SubSeq(read, 1, n - 1) \in Seq(Range(text)) /\ Len(SubSeq(read, 1, n - 1)) = n - 1
      BY <1>4, <3>1, <3>2, SubSeqProperties
    <3> QED  BY <1>4, <1>7, <2>2, <3>3 DEF Front
  <2> QED  BY <1>3, <2>1, <2>2
<1>9. IsSequence(ReadBack(text)) /\ Len(ReadBack(text)) \in Nat
  BY <1>8, Sequence, LenProperties
<1>10. text = << >> => ReadBack(text) = << >>
  BY <1>4, <1>5, <1>8, <1>9, NoText
<1> QED  BY <1>1, <1>4, <1>5, <1>8, <1>9, <1>10

\* The last of some lines.
LEMMA LastOfLines ==
  ASSUME NEW n \in Nat, NEW T \in SUBSET (1..n), T # {}
  PROVE  Max(T) \in T /\ \A j \in T : j <= Max(T)
<1> DEFINE U == {n - j : j \in T}
<1>1. U \in SUBSET Nat /\ U # {}
  <2>1. \A j \in T : n - j \in Nat
    OBVIOUS
  <2> QED  BY <2>1
<1>2. PICK i \in U : \A k \in U : i <= k
  <2> HIDE DEF U
  <2> QED  BY <1>1, LeastElement
<1>3. PICK m \in T : i = n - m
  BY <1>2
<1>4. \A j \in T : m >= j
  <2>1. ASSUME NEW j \in T PROVE m >= j
    <3>1. n - j \in U
      OBVIOUS
    <3>2. n - m <= n - j
      <4> HIDE DEF U
      <4> QED  BY <1>2, <1>3, <3>1
    <3>3. m \in Int /\ j \in Int
      OBVIOUS
    <3> QED  BY <3>2, <3>3
  <2> QED  BY <2>1
<1>5. Max(T) \in T /\ \A j \in T : Max(T) >= j
  BY <1>3, <1>4 DEF Max
<1> HIDE DEF U
<1>6. ASSUME NEW j \in T PROVE j \in Int
  <2>1. j \in 1..n
    OBVIOUS
  <2> QED  BY <2>1
<1> QED  BY <1>5, <1>6

-----------------------------------------------------------------------------
(* The table: what was registered is there and nothing else, as it was      *)
(* registered but for the texts of those that may be set.                   *)

Registers(t) ==
  /\ IsTable(t) /\ \A n : Has(t, n) <=> n \in Names
  /\ \A n \in Names : /\ Get(t, n).flags = FlagsOf(n)
                      /\ IsText(Get(t, n).value)
                      /\ "ROM" \in FlagsOf(n) => Get(t, n).value = Default(n)

LEMMA EngineReads ==
  /\ "v_TextureFilter" \in Names /\ "v_DebugWireframe" \in Names /\ "lg_ShouldQuit" \in Names
  /\ "ROM" \notin FlagsOf("v_TextureFilter")
<1>1. \A r \in Range(Registered) : r.name \in Names
  BY DEF Names, Range
<1>2. ASSUME NEW n, \E r \in Range(Registered) : r.name = n
      PROVE  LET r == CHOOSE r \in Range(Registered) : r.name = n
             IN  r \in Range(Registered) /\ r.name = n
  BY <1>2
<1>3. \E r \in Range(Registered) : r.name = "v_TextureFilter"
  BY ConsoleAssumption
<1>4. "ROM" \notin FlagsOf("v_TextureFilter")
  BY <1>2, <1>3, ConsoleAssumption DEF FlagsOf
<1> QED  BY <1>1, <1>4, ConsoleAssumption

LEMMA RegisteredAs ==
  ASSUME NEW n \in Names
  PROVE  \E r \in Range(Registered) : /\ r.name = n /\ FlagsOf(n) = r.flags
                                      /\ Default(n) = Cut(r.value) /\ IsSequence(r.value)
<1>1. \E r \in Range(Registered) : r.name = n
  BY DEF Names, Range
<1> DEFINE r == CHOOSE r \in Range(Registered) : r.name = n
<1>2. r \in Range(Registered) /\ r.name = n
  BY <1>1
<1> QED  BY <1>2, ConsoleAssumption DEF FlagsOf, Default

\* At first each variable has its default.
LEMMA RegisteredSettings ==
  Registers(RegisterCVars) /\ \A n \in Names : Get(RegisterCVars, n).value = Default(n)
<1>1. ASSUME NEW n \in Names
      PROVE  /\ Get(RegisterCVars, n).flags = FlagsOf(n)
             /\ Get(RegisterCVars, n).value = Default(n) /\ IsText(Default(n))
  BY RegisteredAs, RegisterAll, CutText
<1> QED  BY <1>1, RegisterAll DEF Registers

\* Setting a variable that is not ROM changes its text, and nothing else.
LEMMA SetRegistered ==
  ASSUME NEW t, Registers(t), NEW name \in Names, NEW text, IsSequence(text), NEW u
  PROVE  u = Replaced(t, Set(Get(t, name), text)) =>
           /\ Registers(u)
           /\ \A n \in Names : Get(u, n).value = IF n = name /\ "ROM" \notin FlagsOf(n) THEN Cut(text)
                                                 ELSE Get(t, n).value
<1> DEFINE y == Get(t, name)
           x == Set(y, text)
<1>1. IsTable(t) /\ Has(t, name) /\ y.flags = FlagsOf(name)
  BY DEF Registers
<1>2. IsCvar(y) /\ y.name = name
  BY <1>1, EntryThere
<1> HIDE DEF y
<1>3. /\ IsCvar(x) /\ x.name = name /\ x.flags = FlagsOf(name)
      /\ x.value = IF "ROM" \in FlagsOf(name) THEN y.value ELSE Cut(text)
  <2>1. CASE "ROM" \in y.flags
    BY <1>1, <1>2, <2>1 DEF Set, y
  <2>2. CASE "ROM" \notin y.flags
    <3>1. x = [y EXCEPT !.value = Cut(text)]
      BY <2>2 DEF Set
    <3> HIDE DEF x
    <3>2. x = [name |-> y.name, value |-> Cut(text), flags |-> y.flags]
      BY <1>2, <3>1 DEF IsCvar
    <3>3. x.name = y.name /\ x.value = Cut(text) /\ x.flags = y.flags
      BY <3>2
    <3> QED  BY <1>1, <1>2, <2>2, <3>2, <3>3 DEF IsCvar, y
  <2> QED  BY <2>1, <2>2
<1> HIDE DEF x
<1>4. SUFFICES ASSUME u = Replaced(t, x)
               PROVE  /\ Registers(u)
                      /\ \A n \in Names :
                           Get(u, n).value = IF n = name /\ "ROM" \notin FlagsOf(n) THEN Cut(text)
                                             ELSE Get(t, n).value
  BY DEF x, y
<1>5. IsTable(u) /\ Has(u, name) /\ Get(u, name) = x /\ Agree(u, t, name)
  <2>1. Has(t, x.name)
    BY <1>1, <1>3
  <2>2. IsTable(u) /\ Has(u, x.name) /\ Get(u, x.name) = x /\ Agree(u, t, x.name)
    BY <1>1, <1>3, <1>4, <2>1, ReplacedTable
  <2> QED  BY <1>3, <2>2
<1>6. ASSUME NEW n, n # name
      PROVE  (Has(u, n) <=> Has(t, n)) /\ (n \in Names => Get(u, n) = Get(t, n))
  BY <1>5, <1>6 DEF Agree, Registers
<1>7. ASSUME NEW n \in Names
      PROVE  /\ Get(u, n).flags = FlagsOf(n)
             /\ IsText(Get(u, n).value)
             /\ "ROM" \in FlagsOf(n) => Get(u, n).value = Default(n)
             /\ Get(u, n).value = IF n = name /\ "ROM" \notin FlagsOf(n) THEN Cut(text)
                                  ELSE Get(t, n).value
  <2>1. CASE n # name
    BY <1>6, <2>1 DEF Registers
  <2>2. CASE n = name
    BY <1>3, <1>5, <2>2, CutText DEF Registers, y
  <2> QED  BY <2>1, <2>2
<1>8. \A n : Has(u, n) <=> n \in Names
  BY <1>1, <1>5, <1>6 DEF Registers
<1> QED  BY <1>5, <1>7, <1>8 DEF Registers

-----------------------------------------------------------------------------
(* What the commands make of the settings.                                 *)

\* Lines as LGC_SaveCFG writes them.
Lines(c) == IsSequence(c) /\ \A i \in 1..Len(c) : c[i][1] = "set" /\ IsSequence(c[i][3])

\* A console whose variables are those that were registered.
Settled(w) ==
  /\ w = [table |-> w.table, disk |-> w.disk, gpu |-> w.gpu]
  /\ Registers(w.table)
  /\ DOMAIN w.disk = Files /\ \A f \in Files : Lines(w.disk[f])
  /\ w.gpu.filter \in 0..4 /\ w.gpu.wire \in BOOLEAN

Text(w, n) == Get(w.table, n).value

\* Whether a command sets a variable.
SetBy(args, n) ==
  (args[1] = "set" /\ args[2] = n) \/ (args[1] = "quit" /\ n = "lg_ShouldQuit")

\* A console with another table.
LEMMA TableChanged ==
  ASSUME NEW w, Settled(w), NEW u, Registers(u), NEW v, v = [w EXCEPT !.table = u]
  PROVE  Settled(v) /\ v.table = u /\ v.disk = w.disk /\ v.gpu = w.gpu
<1>1. w = [table |-> w.table, disk |-> w.disk, gpu |-> w.gpu]
  BY DEF Settled
<1>2. v = [table |-> u, disk |-> w.disk, gpu |-> w.gpu]
  BY <1>1
<1>3. v.table = u /\ v.disk = w.disk /\ v.gpu = w.gpu
  BY <1>2
<1> QED  BY <1>2, <1>3 DEF Settled

LEMMA CorrectedSettings ==
  ASSUME NEW t, Registers(t)
  PROVE  /\ Registers(FilterCorrected(t))
         /\ Number(Get(FilterCorrected(t), "v_TextureFilter").value) \in 1..4
<1> DEFINE f == "v_TextureFilter"
           u == Replaced(t, Set(Get(t, f), <<"POINT">>))
<1>1. CASE Number(Get(t, f).value) \in 1..4
  BY <1>1 DEF FilterCorrected
<1>2. CASE Number(Get(t, f).value) \notin 1..4
  <2>1. FilterCorrected(t) = u
    BY <1>2 DEF FilterCorrected
  <2>2. <<"POINT">> \in Seq({"POINT"}) /\ Len(<<"POINT">>) = 1
    OBVIOUS
  <2>3. IsSequence(<<"POINT">>)
    BY <2>2, Sequence
  <2>4. Cut(<<"POINT">>) = <<"POINT">>
    BY <2>2, <2>3, CutText, TextsRoom
  <2>5. Registers(u) /\ Get(u, f).value = Cut(<<"POINT">>)
    BY <2>3, SetRegistered, EngineReads
  <2>6. Number(<<"POINT">>) \in 1..4
    BY ConsoleAssumption
  <2> HIDE DEF u
  <2> QED  BY <2>1, <2>4, <2>5, <2>6
<1> QED  BY <1>1, <1>2

LEMMA SetStatesSettled ==
  ASSUME NEW w, Settled(w)
  PROVE  /\ Settled(SetStates(w)) /\ SetStates(w).disk = w.disk
         /\ SetStates(w).gpu.filter \in 1..4
<1> DEFINE t == FilterCorrected(w.table)
           g == StatesOf(t)
           v == SetStates(w)
<1>1. Registers(t) /\ g.filter \in 1..4 /\ g.wire \in BOOLEAN
  BY CorrectedSettings DEF Settled, StatesOf
<1>2. v = [w EXCEPT !.table = t, !.gpu = g]
  BY DEF SetStates
<1>3. w = [table |-> w.table, disk |-> w.disk, gpu |-> w.gpu]
  BY DEF Settled
<1> HIDE DEF t, g, v
<1>4. v = [table |-> t, disk |-> w.disk, gpu |-> g]
  BY <1>2, <1>3
<1>5. v.table = t /\ v.disk = w.disk /\ v.gpu = g
  BY <1>4
<1>6. g.filter \in 0..4
  BY <1>1
<1>7. Settled(v)
  BY <1>1, <1>4, <1>5, <1>6 DEF Settled
<1> QED  BY <1>1, <1>5, <1>7 DEF v

\* SET, while there is a device and while there is none.
LEMMA SetSettled ==
  ASSUME NEW w, Settled(w), NEW name, NEW text, IsSequence(text),
         NEW v, v = SetCommand(w, name, text)
  PROVE  /\ Settled(v) /\ v.disk = w.disk
         /\ phase # "running" =>
              /\ v.gpu = w.gpu
              /\ \A n \in Names : Text(v, n) = IF n = name /\ "ROM" \notin FlagsOf(n) THEN Cut(text)
                                               ELSE Text(w, n)
<1>1. Has(w.table, name) <=> name \in Names
  BY DEF Settled, Registers
<1>2. CASE name \notin Names
  <2>1. v = w
    BY <1>1, <1>2 DEF SetCommand
  <2> QED  BY <1>2, <2>1
<1>3. CASE name \in Names
  <2> DEFINE u == Replaced(w.table, Set(Get(w.table, name), text))
             x == [w EXCEPT !.table = u]
  <2>1. v = IF "UPDATE" \in Get(x.table, name).flags THEN CvarUpdate(x, name) ELSE x
    BY <1>1, <1>3 DEF SetCommand
  <2>2. /\ Registers(u)
        /\ \A n \in Names : Get(u, n).value = IF n = name /\ "ROM" \notin FlagsOf(n) THEN Cut(text)
                                              ELSE Get(w.table, n).value
    BY <1>3, SetRegistered DEF Settled
  <2> HIDE DEF u
  <2>3. Settled(x) /\ x.table = u /\ x.disk = w.disk /\ x.gpu = w.gpu
    BY <2>2, TableChanged
  <2> HIDE DEF x
  <2>4. v = x \/ (phase = "running" /\ v = SetStates(x))
    BY <2>1 DEF CvarUpdate
  <2> QED  BY <2>2, <2>3, <2>4, SetStatesSettled DEF Text
<1> QED  BY <1>2, <1>3

\* A command that saves nothing.
LEMMA SentSettled ==
  ASSUME NEW w, Settled(w), NEW args, IsCommand(args), args[1] # "savecfg",
         NEW v, v = Sent(w, args)
  PROVE  /\ Settled(v) /\ v.disk = w.disk
         /\ phase # "running" =>
              /\ v.gpu = w.gpu
              /\ \A n \in Names : ~SetBy(args, n) => Text(v, n) = Text(w, n)
              /\ \A n \in Names : args[1] = "set" /\ args[2] = n /\ "ROM" \notin FlagsOf(n) =>
                                    Text(v, n) = Cut(args[3])
<1>1. CASE args[1] = "set"
  <2>1. v = SetCommand(w, args[2], args[3]) /\ IsSequence(args[3])
    BY <1>1 DEF Sent, IsCommand
  <2> QED  BY <1>1, <2>1, SetSettled DEF SetBy
<1>2. CASE args[1] = "quit"
  <2> DEFINE q == "lg_ShouldQuit"
             u == Replaced(w.table, Set(Get(w.table, q), <<"1">>))
  <2>1. v = [w EXCEPT !.table = u]
    BY <1>2 DEF Sent
  <2>2. <<"1">> \in Seq({"1"})
    OBVIOUS
  <2>3. IsSequence(<<"1">>)
    BY <2>2, Sequence
  <2>4. Registers(w.table) /\ q \in Names
    BY EngineReads DEF Settled
  <2>5. /\ Registers(u)
        /\ \A n \in Names : n # q => Get(u, n).value = Get(w.table, n).value
    BY <2>3, <2>4, SetRegistered
  <2> HIDE DEF u
  <2>6. Settled(v) /\ v.table = u /\ v.disk = w.disk /\ v.gpu = w.gpu
    BY <2>1, <2>5, TableChanged
  <2> QED  BY <1>2, <2>5, <2>6 DEF SetBy, Text
<1>3. CASE args[1] \notin {"set", "quit", "savecfg"}
  <2>1. v = w
    BY <1>3 DEF Sent
  <2> QED  BY <1>3, <2>1
<1> QED  BY <1>1, <1>2, <1>3

\* The commands of a file that is loaded.
LEMMA LineIsCommand ==
  ASSUME NEW args, IsCommand(args)
  PROVE  /\ IsCommand(Line(args)) /\ Line(args)[1] = args[1]
         /\ \A n : SetBy(Line(args), n) <=> SetBy(args, n)
         /\ args[1] = "set" => Line(args)[2] = args[2] /\ Line(args)[3] = ReadBack(args[3])
<1>1. CASE args[1] = "set"
  <2>1. Line(args) = <<"set", args[2], ReadBack(args[3])>>
    BY <1>1 DEF Line
  <2>2. IsSequence(ReadBack(args[3]))
    BY <1>1, ReadText DEF IsCommand
  <2>3. Line(args)[1] = "set" /\ Line(args)[2] = args[2] /\ Line(args)[3] = ReadBack(args[3])
    BY <2>1
  <2> QED  BY <1>1, <2>2, <2>3 DEF IsCommand, SetBy
<1>2. CASE args[1] # "set"
  BY <1>2 DEF Line
<1> QED  BY <1>1, <1>2

LEMMA LoadSettled ==
  ASSUME NEW w, Settled(w), NEW c, IsSequence(c),
         \A i \in 1..Len(c) : IsCommand(c[i]) /\ c[i][1] # "savecfg",
         NEW v, v = LoadCFG(w, c)
  PROVE  /\ Settled(v) /\ v.disk = w.disk
         /\ phase # "running" =>
              /\ v.gpu = w.gpu
              /\ \A n \in Names : (\A i \in 1..Len(c) : ~SetBy(c[i], n)) => Text(v, n) = Text(w, n)
<1> DEFINE N == Len(c)
<1>1. N \in Nat
  BY SequenceFacts
<1>2. PICK after : /\ LoadCFG(w, c) = after[N]
                   /\ \A i \in 0..N : after[i] = IF i = 0 THEN w ELSE Sent(after[i - 1], Line(c[i]))
  BY LoadUnfolds
<1> DEFINE Untold(n) == \A i \in 1..Len(c) : ~SetBy(c[i], n)
           Good(u) == /\ Settled(u) /\ u.disk = w.disk
                      /\ phase # "running" =>
                           u.gpu = w.gpu /\ \A n \in Names : Untold(n) => Text(u, n) = Text(w, n)
           S == {i \in 0..N : Good(after[i])}
<1>3. 0 \in S
  BY <1>1, <1>2
<1>4. ASSUME NEW i \in 1..N, i - 1 \in S PROVE i \in S
  <2> DEFINE a == Line(c[i])
             x == after[i - 1]
             y == after[i]
  <2>1. y = Sent(x, a) /\ Good(x)
    BY <1>1, <1>2, <1>4
  <2>2. IsCommand(a) /\ a[1] # "savecfg" /\ \A n : SetBy(a, n) <=> SetBy(c[i], n)
    BY LineIsCommand
  <2> HIDE DEF a, x, y
  <2>3. /\ Settled(y) /\ y.disk = x.disk
        /\ phase # "running" =>
             y.gpu = x.gpu /\ \A n \in Names : ~SetBy(a, n) => Text(y, n) = Text(x, n)
    BY <2>1, <2>2, SentSettled
  <2>4. \A n : Untold(n) => ~SetBy(a, n)
    BY <2>2
  <2>5. Good(y)
    <3> HIDE DEF Untold
    <3> QED  BY <2>1, <2>3, <2>4
  <2> HIDE DEF Good
  <2> QED  BY <1>1, <2>5 DEF y
<1>5. N \in S
  <2>1. 0..N \subseteq S
    <3> HIDE DEF S, N
    <3> QED  BY <1>1, <1>3, <1>4, IntervalInduction
  <2> HIDE DEF Good
  <2> QED  BY <1>1, <2>1
<1> QED  BY <1>2, <1>5

\* A file leaves each variable with the text of its last line.
LEMMA LoadSays ==
  ASSUME NEW w, Settled(w), NEW c, Lines(c), phase # "running",
         NEW n \in Names, Text(w, n) = Default(n)
  PROVE  Text(LoadCFG(w, c), n) = Says(c, n)
<1> DEFINE N == Len(c)
           rom == "ROM" \in FlagsOf(n)
<1>1. N \in Nat /\ DOMAIN c = 1..N
  BY SequenceFacts DEF Lines
<1>2. PICK after : /\ LoadCFG(w, c) = after[N]
                   /\ \A i \in 0..N : after[i] = IF i = 0 THEN w ELSE Sent(after[i - 1], Line(c[i]))
  BY LoadUnfolds DEF Lines
<1>3. \A i \in 1..N : IsCommand(c[i]) /\ c[i][1] = "set"
  BY DEF Lines, IsCommand
<1> HIDE DEF N
<1> DEFINE OfName(i) == c[i][2] = n
           Good(i) == /\ Settled(after[i])
                      /\ (\A j \in 1..i : ~OfName(j)) => Text(after[i], n) = Default(n)
                      /\ \A m \in 1..i : /\ ~rom /\ OfName(m) /\ (\A j \in m + 1..i : ~OfName(j))
                                         => Text(after[i], n) = Cut(ReadBack(c[m][3]))
           S == {i \in 0..N : Good(i)}
<1>4. 0 \in S
  <2>1. after[0] = w
    BY <1>1, <1>2
  <2> QED  BY <1>1, <2>1
<1>5. ASSUME NEW i \in 1..N, i - 1 \in S PROVE i \in S
  <2> DEFINE a == Line(c[i])
             x == after[i - 1]
             y == after[i]
  <2>1. y = Sent(x, a) /\ Good(i - 1)
    BY <1>1, <1>2, <1>5
  <2>2. /\ IsCommand(a) /\ a[1] = "set" /\ a[2] = c[i][2] /\ a[3] = ReadBack(c[i][3])
        /\ SetBy(a, n) <=> OfName(i)
    BY <1>3, LineIsCommand DEF SetBy
  <2>3. /\ Settled(y)
        /\ ~OfName(i) => Text(y, n) = Text(x, n)
        /\ OfName(i) /\ ~rom => Text(y, n) = Cut(ReadBack(c[i][3]))
    <3>1. Settled(x)
      BY <2>1
    <3> HIDE DEF a, x, y, Good
    <3> QED  BY <1>3, <2>1, <2>2, <3>1, SentSettled
  <2>4. (\A j \in 1..i : ~OfName(j)) => Text(y, n) = Default(n)
    <3> SUFFICES ASSUME \A j \in 1..i : ~OfName(j) PROVE Text(y, n) = Default(n)
      OBVIOUS
    <3>1. i \in 1..i /\ \A j \in 1..i - 1 : j \in 1..i
      BY <1>1
    <3>2. ~OfName(i) /\ \A j \in 1..i - 1 : ~OfName(j)
      BY <3>1
    <3> HIDE DEF OfName
    <3> QED  BY <2>1, <2>3, <3>2
  <2>5. ASSUME NEW m \in 1..i, ~rom, OfName(m), \A j \in m + 1..i : ~OfName(j)
        PROVE  Text(y, n) = Cut(ReadBack(c[m][3]))
    <3>1. CASE m = i
      BY <2>3, <2>5, <3>1
    <3>2. CASE m # i
      <4>1. m \in 1..i - 1 /\ i \in m + 1..i /\ \A j \in m + 1..i - 1 : j \in m + 1..i
        BY <1>1, <3>2
      <4>2. ~OfName(i) /\ \A j \in m + 1..i - 1 : ~OfName(j)
        BY <2>5, <4>1
      <4> HIDE DEF OfName, rom
      <4> QED  BY <2>1, <2>3, <2>5, <4>1, <4>2
    <3> QED  BY <3>1, <3>2
  <2>6. Good(i)
    <3> HIDE DEF OfName, rom
    <3> QED  BY <2>3, <2>4, <2>5
  <2> HIDE DEF Good
  <2> QED  BY <1>1, <2>6
<1>6. Good(N)
  <2> HIDE DEF Good
  <2>1. 0..N \subseteq S
    <3> HIDE DEF S
    <3> QED  BY <1>1, <1>4, <1>5, IntervalInduction
  <2> QED  BY <1>1, <2>1
<1> DEFINE T == LinesOf(c, n)
           v == LoadCFG(w, c)
<1>7. T = {i \in 1..N : OfName(i)}
  BY <1>1 DEF LinesOf
<1>8. CASE rom
  <2>1. Registers(v.table)
    BY <1>2, <1>6 DEF Settled
  <2> QED  BY <1>8, <2>1 DEF Says, Registers, Text
<1>9. CASE ~rom /\ T = {}
  <2>1. \A j \in 1..N : ~OfName(j)
    BY <1>7, <1>9
  <2>2. Text(v, n) = Default(n)
    <3> HIDE DEF OfName, rom
    <3> QED  BY <1>2, <1>6, <2>1
  <2> QED  BY <1>9, <2>2 DEF Says
<1>10. CASE ~rom /\ T # {}
  <2> DEFINE m == Max(T)
  <2>1. m \in T /\ \A j \in T : j <= m
    <3> HIDE DEF T, OfName
    <3> QED  BY <1>1, <1>7, <1>10, LastOfLines
  <2>2. m \in 1..N /\ OfName(m)
    BY <1>7, <2>1
  <2>3. \A j \in m + 1..N : ~OfName(j)
    <3> HIDE DEF m, T, OfName
    <3>1. ASSUME NEW j \in m + 1..N, OfName(j) PROVE FALSE
      <4>1. j \in 1..N /\ ~(j <= m)
        BY <1>1, <2>2
      <4> QED  BY <1>7, <2>1, <3>1, <4>1
    <3> QED  BY <3>1
  <2>4. Text(v, n) = Cut(ReadBack(c[m][3]))
    <3> HIDE DEF OfName, rom, m
    <3> QED  BY <1>2, <1>6, <1>10, <2>2, <2>3
  <2> QED  BY <1>10, <2>4 DEF Says
<1> QED  BY <1>8, <1>9, <1>10

\* A loop over the variables sees those that were registered.
LEMMA ListedSettings ==
  ASSUME NEW t, Registers(t)
  PROVE  /\ IsSequence(Listing(t))
         /\ \A k \in 1..Len(Listing(t)) : \E n \in Names : Listing(t)[k] = Get(t, n)
         /\ \A n \in Names : \E k \in 1..Len(Listing(t)) : Listing(t)[k] = Get(t, n)
<1> DEFINE L == Listing(t)
<1>1. IsTable(t) /\ \A n : Has(t, n) <=> n \in Names
  BY DEF Registers
<1>2. /\ IsSequence(L)
      /\ \A k \in 1..Len(L) : \E p \in Entries(t) : L[k] = t[p[1]][p[2]]
      /\ \A p \in Entries(t) : \E k \in 1..Len(L) : L[k] = t[p[1]][p[2]]
  BY <1>1, ListingIsWhole
<1> HIDE DEF L
<1>3. ASSUME NEW k \in 1..Len(L) PROVE \E n \in Names : L[k] = Get(t, n)
  <2>1. PICK p \in Entries(t) : L[k] = t[p[1]][p[2]]
    BY <1>2
  <2>2. p[1] \in Slots /\ p[2] \in 1..Len(t[p[1]])
    BY <1>1, EntryIs
  <2> DEFINE n == t[p[1]][p[2]].name
  <2>3. n \in DOMAIN SlotOf /\ SlotOf[n] = p[1]
    BY <1>1, <2>2 DEF IsTable, IsChain
  <2>4. Has(t, n) /\ Get(t, n) = t[SlotOf[n]][p[2]]
    BY <1>1, <2>2, <2>3, EntryFound
  <2> QED  BY <1>1, <2>1, <2>3, <2>4
<1>4. ASSUME NEW n \in Names PROVE \E k \in 1..Len(L) : L[k] = Get(t, n)
  <2>1. n \in DOMAIN SlotOf
    BY <1>1, EntryThere
  <2>2. PICK i \in 1..Len(t[SlotOf[n]]) : Get(t, n) = t[SlotOf[n]][i]
    BY <1>1, EntryThere
  <2>3. SlotOf[n] \in Slots
    BY <1>1, <2>1, ChainOf
  <2>4. <<SlotOf[n], i>> \in Entries(t)
    BY <1>1, <2>3, EntryIs
  <2>5. \E k \in 1..Len(L) : L[k] = t[<<SlotOf[n], i>>[1]][<<SlotOf[n], i>>[2]]
    BY <1>2, <2>4
  <2> QED  BY <2>2, <2>5
<1> QED  BY <1>2, <1>3, <1>4 DEF L

\* The line of a variable.
LineOf(t, n) == <<"set", n, Get(t, n).value>>

LEMMA WrittenSettings ==
  ASSUME NEW t, Registers(t), NEW all
  PROVE  /\ IsSequence(Written(t, all))
         /\ \A i \in 1..Len(Written(t, all)) :
              \E n \in Names : Saves(Get(t, n), all) /\ Written(t, all)[i] = LineOf(t, n)
         /\ \A n \in Names : Saves(Get(t, n), all) =>
              \E i \in 1..Len(Written(t, all)) : Written(t, all)[i] = LineOf(t, n)
<1> DEFINE cvar == Listing(t)
           N == Len(cvar)
           L(i) == <<"set", cvar[i].name, cvar[i].value>>
           B(i) == Saves(cvar[i], all)
<1>1. IsTable(t) /\ \A n \in Names : Has(t, n)
  BY DEF Registers
<1>2. /\ IsSequence(cvar)
      /\ \A k \in 1..N : \E n \in Names : cvar[k] = Get(t, n)
      /\ \A n \in Names : \E k \in 1..N : cvar[k] = Get(t, n)
  BY ListedSettings
<1>3. N \in Nat
  BY <1>2, SequenceFacts
<1>4. \A n \in Names : Get(t, n).name = n
  BY <1>1, EntryThere
<1>5. \A k \in 1..N : \A n \in Names : cvar[k] = Get(t, n) => L(k) = LineOf(t, n)
  BY <1>4 DEF LineOf
<1>6. PICK upto :
        /\ Written(t, all) = upto[N]
        /\ \A i \in 0..N :
             upto[i] = IF i = 0 THEN << >> ELSE IF B(i) THEN Append(upto[i - 1], L(i)) ELSE upto[i - 1]
  BY <1>1, WrittenUnfolds
<1> DEFINE Sound(i) == \A j \in 1..Len(upto[i]) :
                         \E n \in Names : Saves(Get(t, n), all) /\ upto[i][j] = LineOf(t, n)
           Whole(i) == \A k \in 1..i : B(k) => \E j \in 1..Len(upto[i]) : upto[i][j] = L(k)
           Good(i) == IsSequence(upto[i]) /\ Sound(i) /\ Whole(i)
           S == {i \in 0..N : Good(i)}
<1> HIDE DEF cvar, N, L
<1>7. 0 \in S
  <2>1. 0 \in 0..N /\ upto[0] = << >>
    BY <1>3, <1>6
  <2>2. Sound(0) /\ Whole(0)
    BY <2>1, NoText
  <2> HIDE DEF Sound, Whole
  <2> QED  BY <2>1, <2>2, NoText
<1>8. ASSUME NEW i \in 1..N, i - 1 \in S PROVE i \in S
  <2> DEFINE u == upto[i - 1]
             v == upto[i]
  <2>1. i \in 0..N /\ v = (IF B(i) THEN Append(u, L(i)) ELSE u) /\ Good(i - 1)
    BY <1>3, <1>6, <1>8
  <2>2. \A k \in 1..i : k \in 1..i - 1 \/ k = i
    BY <1>3
  <2>3. CASE ~B(i)
    <3>1. v = u
      BY <2>1, <2>3
    <3>2. Sound(i)
      BY <2>1, <3>1
    <3>3. Whole(i)
      <4> HIDE DEF B, u, v
      <4>1. ASSUME NEW k \in 1..i, B(k) PROVE \E j \in 1..Len(v) : v[j] = L(k)
        <5>1. k \in 1..i - 1
          BY <2>2, <2>3, <4>1
        <5> QED  BY <2>1, <3>1, <4>1, <5>1 DEF u
      <4> QED  BY <4>1 DEF v
    <3> HIDE DEF Sound, Whole
    <3> QED  BY <2>1, <3>1, <3>2, <3>3
  <2>4. CASE B(i)
    <3>1. IsSequence(u) /\ IsSequence(v) /\ v = Append(u, L(i))
      BY <2>1, <2>4, SequenceFacts
    <3>2. /\ Len(u) \in Nat /\ Len(v) = Len(u) + 1 /\ v[Len(u) + 1] = L(i)
          /\ \A j \in 1..Len(u) : v[j] = u[j]
      <4>1. u \in Seq(Range(u) \cup {L(i)}) /\ L(i) \in Range(u) \cup {L(i)}
        <5>1. u \in Seq(Range(u))
          BY <3>1 DEF IsSequence
        <5> HIDE DEF u
        <5> QED  BY <5>1
      <4> HIDE DEF u, v
      <4> QED  BY <3>1, <4>1, AppendProperties, LenProperties
    <3>3. \A j \in 1..Len(v) : j \in 1..Len(u) \/ j = Len(u) + 1
      BY <3>2
    <3>4. Len(u) + 1 \in 1..Len(v) /\ \A j \in 1..Len(u) : j \in 1..Len(v)
      BY <3>2
    <3>5. PICK n \in Names : cvar[i] = Get(t, n)
      BY <1>2
    <3>6. Saves(Get(t, n), all) /\ L(i) = LineOf(t, n)
      BY <1>5, <2>4, <3>5
    <3>7. Sound(i)
      <4> HIDE DEF B, u, v
      <4>1. ASSUME NEW j \in 1..Len(v)
            PROVE  \E m \in Names : Saves(Get(t, m), all) /\ v[j] = LineOf(t, m)
        <5>1. CASE j \in 1..Len(u)
          BY <2>1, <3>2, <5>1 DEF u
        <5>2. CASE j = Len(u) + 1
          BY <3>2, <3>6, <5>2
        <5> QED  BY <3>3, <5>1, <5>2
      <4> QED  BY <4>1 DEF v
    <3>8. Whole(i)
      <4> HIDE DEF B, u, v
      <4>1. ASSUME NEW k \in 1..i, B(k) PROVE \E j \in 1..Len(v) : v[j] = L(k)
        <5>1. CASE k \in 1..i - 1
          <6>1. PICK j \in 1..Len(u) : u[j] = L(k)
            BY <2>1, <4>1, <5>1 DEF u
          <6> QED  BY <3>2, <3>4, <6>1
        <5>2. CASE k = i
          BY <3>2, <3>4, <5>2
        <5> QED  BY <2>2, <5>1, <5>2
      <4> QED  BY <4>1 DEF v
    <3> HIDE DEF Sound, Whole
    <3> QED  BY <2>1, <3>1, <3>7, <3>8
  <2> QED  BY <2>3, <2>4
<1>9. Good(N)
  <2> HIDE DEF Good
  <2>1. 0..N \subseteq S
    <3> HIDE DEF S
    <3> QED  BY <1>3, <1>7, <1>8, IntervalInduction
  <2> QED  BY <1>3, <2>1
<1> DEFINE W == Written(t, all)
<1>10. ASSUME NEW n \in Names, Saves(Get(t, n), all)
       PROVE  \E i \in 1..Len(W) : W[i] = LineOf(t, n)
  <2>1. PICK k \in 1..N : cvar[k] = Get(t, n)
    BY <1>2
  <2>2. B(k) /\ L(k) = LineOf(t, n)
    BY <1>5, <1>10, <2>1
  <2> HIDE DEF B
  <2> QED  BY <1>6, <1>9, <2>2
<1> QED  BY <1>6, <1>9, <1>10

-----------------------------------------------------------------------------
(* What a file says when lines are added.                                  *)

LEMMA EntriesOfBoth ==
  ASSUME NEW s, IsSequence(s), NEW t, IsSequence(t)
  PROVE  /\ Len(s) \in Nat /\ Len(t) \in Nat /\ Len(s \o t) = Len(s) + Len(t)
         /\ \A i \in 1..Len(s) : (s \o t)[i] = s[i]
         /\ \A i \in 1..Len(t) : (s \o t)[Len(s) + i] = t[i]
         /\ \A i \in 1..Len(s \o t) : i \in 1..Len(s) \/ i - Len(s) \in 1..Len(t)
<1> DEFINE S == Range(s) \cup Range(t)
<1>1. s \in Seq(Range(s)) /\ t \in Seq(Range(t))
  BY DEF IsSequence
<1>2. s \in Seq(S) /\ t \in Seq(S)
  BY <1>1
<1> HIDE DEF S
<1>3. Len(s) \in Nat /\ Len(t) \in Nat
  BY <1>2, LenProperties
<1>4. /\ Len(s \o t) = Len(s) + Len(t)
      /\ \A i \in 1..Len(s) + Len(t) : (s \o t)[i] = IF i <= Len(s) THEN s[i] ELSE t[i - Len(s)]
  BY <1>2, ConcatProperties
<1>5. \A i \in 1..Len(s) : i \in 1..Len(s) + Len(t) /\ i <= Len(s)
  BY <1>3
<1>6. \A i \in 1..Len(t) : /\ Len(s) + i \in 1..Len(s) + Len(t) /\ ~(Len(s) + i <= Len(s))
                           /\ (Len(s) + i) - Len(s) = i
  BY <1>3
<1>7. \A i \in 1..Len(s) + Len(t) : i \in 1..Len(s) \/ i - Len(s) \in 1..Len(t)
  BY <1>3
<1> QED  BY <1>3, <1>4, <1>5, <1>6, <1>7

\* A file to which lines are added says of a variable what it did before, or
\* one of the texts of the new lines: certainly if there is a line of it.
LEMMA SaysExtended ==
  ASSUME NEW old, IsSequence(old), NEW new, IsSequence(new), NEW n, NEW T,
         \A i \in 1..Len(new) : new[i][2] = n => new[i][3] \in T
  PROVE  /\ Says(old \o new, n) \in {Says(old, n)} \cup {Cut(ReadBack(x)) : x \in T}
         /\ "ROM" \notin FlagsOf(n) /\ (\E i \in 1..Len(new) : new[i][2] = n) =>
              Says(old \o new, n) \in {Cut(ReadBack(x)) : x \in T}
         /\ "ROM" \in FlagsOf(n) => Says(old \o new, n) = Default(n)
<1> DEFINE c == old \o new
           a == Len(old)
           b == Len(new)
           C == LinesOf(c, n)
           D == LinesOf(old, n)
           rom == "ROM" \in FlagsOf(n)
<1>1. /\ a \in Nat /\ b \in Nat /\ Len(c) = a + b
      /\ \A i \in 1..a : c[i] = old[i]
      /\ \A i \in 1..b : c[a + i] = new[i]
      /\ \A i \in 1..Len(c) : i \in 1..a \/ i - a \in 1..b
  BY EntriesOfBoth
<1>2. DOMAIN old = 1..a /\ DOMAIN c = 1..Len(c)
  BY SequenceFacts
<1> HIDE DEF c
<1>3. C = {i \in 1..a + b : c[i][2] = n} /\ D = {i \in 1..a : old[i][2] = n}
  BY <1>1, <1>2 DEF LinesOf
<1>4. CASE rom
  BY <1>4 DEF Says, c
<1>5. ASSUME ~rom, NEW i \in 1..b, new[i][2] = n
      PROVE  Says(c, n) \in {Cut(ReadBack(x)) : x \in T}
  <2> DEFINE m == Max(C)
  <2>1. a + i \in 1..a + b /\ a + b \in Nat /\ c[a + i] = new[i]
    BY <1>1
  <2>2. a + i \in C
    BY <1>3, <1>5, <2>1
  <2>3. C \in SUBSET (1..a + b)
    BY <1>3
  <2> HIDE DEF C
  <2>4. m \in C /\ \A j \in C : j <= m
    BY <2>1, <2>2, <2>3, LastOfLines
  <2>5. m \in 1..a + b /\ a + i <= m
    BY <2>2, <2>3, <2>4
  <2>6. Says(c, n) = Cut(ReadBack(c[m][3]))
    BY <1>5, <2>2 DEF Says, C
  <2>7. c[m][2] = n
    BY <1>3, <2>4
  <2> HIDE DEF m
  <2>8. m - a \in 1..b /\ a + (m - a) = m
    BY <1>1, <2>5
  <2>9. c[m] = new[m - a]
    BY <1>1, <2>8
  <2>10. c[m][3] \in T
    BY <2>7, <2>8, <2>9
  <2> QED  BY <2>6, <2>10
<1>6. ASSUME ~rom, \A i \in 1..b : new[i][2] # n PROVE Says(c, n) = Says(old, n)
  <2>1. \A i \in 1..a + b : c[i][2] = n <=> i \in 1..a /\ old[i][2] = n
    <3>1. ASSUME NEW i \in 1..a + b PROVE c[i][2] = n <=> i \in 1..a /\ old[i][2] = n
      <4>1. CASE i \in 1..a
        BY <1>1, <4>1
      <4>2. CASE i \notin 1..a
        <5>1. i - a \in 1..b /\ a + (i - a) = i
          BY <1>1, <4>2
        <5>2. c[i] = new[i - a]
          BY <1>1, <5>1
        <5> QED  BY <1>6, <4>2, <5>1, <5>2
      <4> QED  BY <4>1, <4>2
    <3> QED  BY <3>1
  <2>2. 1..a \subseteq 1..a + b
    BY <1>1
  <2>3. C = D
    BY <1>3, <2>1, <2>2
  <2>4. CASE D = {}
    BY <2>3, <2>4 DEF Says
  <2>5. CASE D # {}
    <3> DEFINE m == Max(D)
    <3>1. D \in SUBSET (1..a)
      BY <1>3
    <3> HIDE DEF D
    <3>2. m \in 1..a
      BY <1>1, <2>5, <3>1, LastOfLines
    <3>3. c[m] = old[m]
      BY <1>1, <3>2
    <3> HIDE DEF m
    <3>4. Says(c, n) = Cut(ReadBack(c[m][3])) /\ Says(old, n) = Cut(ReadBack(old[m][3]))
      BY <1>6, <2>3, <2>5 DEF Says, m, D
    <3> QED  BY <3>3, <3>4
  <2> QED  BY <2>4, <2>5
<1>7. rom => Says(old, n) = Default(n)
  BY DEF Says
<1> QED  BY <1>4, <1>5, <1>6, <1>7 DEF c

LEMMA SaysNothing == ASSUME NEW n PROVE Says(<< >>, n) = Default(n)
<1>1. DOMAIN << >> = {}
  OBVIOUS
<1>2. LinesOf(<< >>, n) = {}
  BY <1>1 DEF LinesOf
<1> QED  BY <1>2 DEF Says

\* A text that a variable holds is cut by reading only.
LEMMA ReadOnce ==
  /\ \A x : IsText(x) => Cut(ReadBack(x)) = ReadBack(x)
  /\ ReadBack(<< >>) = << >> /\ IsText(<< >>)
<1>1. ASSUME NEW x, IsText(x) PROVE Cut(ReadBack(x)) = ReadBack(x)
  <2>1. IsSequence(x) /\ Len(x) <= MaxLen /\ Len(x) \in Nat
    BY <1>1, SequenceFacts DEF IsText
  <2>2. IsSequence(ReadBack(x)) /\ Len(ReadBack(x)) <= Len(x)
    BY <2>1, ReadText
  <2>3. Len(ReadBack(x)) \in Nat
    BY <2>2, SequenceFacts
  <2>4. Len(ReadBack(x)) <= MaxLen
    BY <2>1, <2>2, <2>3, TextsRoom
  <2> QED  BY <2>2, <2>4, CutText
<1>2. IsText(<< >>)
  BY NoText, TextsRoom DEF IsText
<1> QED  BY <1>1, <1>2, NoText, ReadText

LEMMA LinesOfBoth ==
  ASSUME NEW s, Lines(s), NEW t, Lines(t) PROVE Lines(s \o t)
<1>1. IsSequence(s) /\ IsSequence(t)
  BY DEF Lines
<1>2. IsSequence(s \o t)
  BY <1>1, SequenceFacts
<1>3. ASSUME NEW i \in 1..Len(s \o t) PROVE (s \o t)[i][1] = "set" /\ IsSequence((s \o t)[i][3])
  <2>1. CASE i \in 1..Len(s)
    BY <1>1, <2>1, EntriesOfBoth DEF Lines
  <2>2. CASE i - Len(s) \in 1..Len(t)
    <3>1. Len(s) + (i - Len(s)) = i
      BY <1>1, EntriesOfBoth
    <3>2. (s \o t)[i] = t[i - Len(s)]
      BY <1>1, <2>2, <3>1, EntriesOfBoth
    <3> QED  BY <2>2, <3>2 DEF Lines
  <2> QED  BY <1>1, <2>1, <2>2, EntriesOfBoth
<1> QED  BY <1>2, <1>3 DEF Lines

\* What was there before a save.
LEMMA OpenedSays ==
  ASSUME NEW contents, Lines(contents), NEW append
  PROVE  /\ Lines(Opened(contents, append))
         /\ \A n : Says(Opened(contents, append), n) = IF append THEN Says(contents, n) ELSE Default(n)
<1>1. Lines(<< >>)
  BY NoText DEF Lines
<1> QED  BY <1>1, SaysNothing DEF Opened

\* The texts of the lines of a variable that a save writes, cut short or not.
LEMMA WrittenTexts ==
  ASSUME NEW t, Registers(t), NEW all
  PROVE  /\ Lines(Written(t, all))
         /\ \A i \in 1..Len(Written(t, all)) : \A n \in Names :
              Written(t, all)[i][2] = n =>
                Saves(Get(t, n), all) /\ Written(t, all)[i][3] = Get(t, n).value
         /\ \A n \in Names : Saves(Get(t, n), all) =>
              \E i \in 1..Len(Written(t, all)) : Written(t, all)[i][2] = n
<1> DEFINE W == Written(t, all)
<1>1. \A n : LineOf(t, n)[1] = "set" /\ LineOf(t, n)[2] = n /\ LineOf(t, n)[3] = Get(t, n).value
  BY DEF LineOf
<1>2. /\ IsSequence(W)
      /\ \A i \in 1..Len(W) : \E n \in Names : Saves(Get(t, n), all) /\ W[i] = LineOf(t, n)
      /\ \A n \in Names : Saves(Get(t, n), all) => \E i \in 1..Len(W) : W[i] = LineOf(t, n)
  BY WrittenSettings
<1>3. \A n \in Names : IsSequence(Get(t, n).value)
  BY DEF Registers, IsText
<1> HIDE DEF W
<1>4. \A i \in 1..Len(W) : W[i][1] = "set" /\ IsSequence(W[i][3])
  BY <1>1, <1>2, <1>3
<1>5. Lines(W)
  BY <1>2, <1>4 DEF Lines
<1>6. \A i \in 1..Len(W) : \A n \in Names :
        W[i][2] = n => Saves(Get(t, n), all) /\ W[i][3] = Get(t, n).value
  BY <1>1, <1>2
<1>7. \A n \in Names : Saves(Get(t, n), all) => \E i \in 1..Len(W) : W[i][2] = n
  BY <1>1, <1>2
<1> QED  BY <1>5, <1>6, <1>7 DEF W

-----------------------------------------------------------------------------
(* What config.cfg says after a save.                                      *)

\* config.cfg says what a variable may come back with.
Remembers(contents) == \A n \in Names : Says(contents, n) \in kept[n]

LEMMA KeptNames ==
  ASSUME NEW t, Registers(t), NEW all, NEW n \in Names
  PROVE  n \in Kept(t, all) <=> Saves(Get(t, n), all) /\ "ROM" \notin FlagsOf(n)
BY DEF Kept, Registers

\* A save that was completed.
LEMMA SavedSays ==
  ASSUME NEW t, Registers(t), NEW contents, Lines(contents), Remembers(contents),
         NEW append \in BOOLEAN, NEW all, NEW n \in Names
  PROVE  Says(Opened(contents, append) \o Written(t, all), n) \in KeptAfter(t, append, all)[n]
<1> DEFINE old == Opened(contents, append)
           W == Written(t, all)
           x == Get(t, n).value
           T == IF Saves(Get(t, n), all) THEN {x} ELSE {}
           before == IF append THEN kept[n] ELSE {Default(n)}
<1>1. /\ IsSequence(W)
      /\ \A i \in 1..Len(W) : W[i][2] = n => W[i][3] \in T
      /\ Saves(Get(t, n), all) => \E i \in 1..Len(W) : W[i][2] = n
  BY WrittenTexts DEF Lines
<1>2. IsSequence(old) /\ Says(old, n) \in before
  BY OpenedSays DEF Lines, Remembers
<1>3. IsText(x) /\ Cut(ReadBack(x)) = ReadBack(x)
  BY ReadOnce DEF Registers
<1>4. n \in Kept(t, all) <=> Saves(Get(t, n), all) /\ "ROM" \notin FlagsOf(n)
  BY KeptNames
<1>5. KeptAfter(t, append, all)[n] = IF n \in Kept(t, all) THEN {ReadBack(x)} ELSE before
  BY DEF KeptAfter
<1>6. "ROM" \in FlagsOf(n) => Says(old, n) = Default(n)
  BY DEF Says
<1> DEFINE c == old \o W
<1> HIDE DEF old, W, T, before
<1>7. /\ Says(c, n) \in {Says(old, n)} \cup {Cut(ReadBack(y)) : y \in T}
      /\ "ROM" \notin FlagsOf(n) /\ (\E i \in 1..Len(W) : W[i][2] = n) =>
           Says(c, n) \in {Cut(ReadBack(y)) : y \in T}
      /\ "ROM" \in FlagsOf(n) => Says(c, n) = Default(n)
  BY <1>1, <1>2, SaysExtended
<1> HIDE DEF c, x
<1>8. CASE n \in Kept(t, all)
  <2>1. T = {x} /\ Says(c, n) \in {Cut(ReadBack(y)) : y \in T}
    BY <1>1, <1>4, <1>7, <1>8 DEF T
  <2>2. Says(c, n) = Cut(ReadBack(x))
    BY <2>1
  <2> QED  BY <1>3, <1>5, <1>8, <2>2 DEF c, old, W
<1>9. CASE n \notin Kept(t, all)
  <2>1. CASE "ROM" \in FlagsOf(n)
    BY <1>2, <1>5, <1>6, <1>7, <1>9, <2>1 DEF c, old, W
  <2>2. CASE "ROM" \notin FlagsOf(n)
    <3>1. T = {}
      BY <1>4, <1>9, <2>2 DEF T
    <3>2. Says(c, n) = Says(old, n)
      BY <1>7, <3>1
    <3> QED  BY <1>2, <1>5, <1>9, <3>2 DEF c, old, W
  <2> QED  BY <2>1, <2>2
<1> QED  BY <1>8, <1>9

\* The first lines that are written, and the last that was torn.
LEMMA CutLines ==
  ASSUME NEW W, Lines(W), NEW k \in DOMAIN W
  PROVE  /\ Lines(SubSeq(W, 1, k - 1))
         /\ \A i \in 1..Len(SubSeq(W, 1, k - 1)) : \E j \in 1..Len(W) : SubSeq(W, 1, k - 1)[i] = W[j]
         /\ \A torn \in Torn(W[k]) :
              /\ Lines(torn)
              /\ \A i \in 1..Len(torn) : /\ torn[i][2] = W[k][2]
                                         /\ torn[i][3] \in {W[k][3], << >>}
         /\ k \in 1..Len(W)
<1> DEFINE s == SubSeq(W, 1, k - 1)
<1>1. IsSequence(W) /\ Len(W) \in Nat /\ k \in 1..Len(W) /\ W \in Seq(Range(W))
  BY SequenceFacts DEF Lines, IsSequence
<1>2. IsSequence(s)
  BY <1>1, SequenceFacts
<1>3. k - 1 \in Nat /\ \A i \in 1..k - 1 : i \in 1..Len(W)
  BY <1>1
<1>4. \A i \in 1..k - 1 : W[i] \in Range(W)
  BY <1>1, <1>3, ElementOfSeq
<1>5. /\ Len(s) = IF 1 <= k - 1 THEN k - 1 - 1 + 1 ELSE 0
      /\ \A i \in 1..k - 1 - 1 + 1 : s[i] = W[1 + i - 1]
  BY <1>3, <1>4, SubSeqProperties
<1> HIDE DEF s
<1>6. ASSUME NEW i \in 1..Len(s) PROVE i \in 1..Len(W) /\ s[i] = W[i]
  <2>1. i \in 1..k - 1 - 1 + 1 /\ i \in 1..k - 1 /\ 1 + i - 1 = i
    BY <1>1, <1>3, <1>5
  <2>2. s[i] = W[1 + i - 1]
    BY <1>5, <2>1
  <2> QED  BY <1>3, <2>1, <2>2
<1>7. Lines(s)
  BY <1>2, <1>6 DEF Lines
<1>8. W[k][1] = "set" /\ IsSequence(W[k][3])
  BY <1>1 DEF Lines
<1>9. ASSUME NEW torn \in Torn(W[k])
      PROVE  /\ Lines(torn)
             /\ \A i \in 1..Len(torn) : torn[i][2] = W[k][2] /\ torn[i][3] \in {W[k][3], << >>}
  <2> DEFINE e == <<W[k][1], W[k][2], << >>>>
  <2>1. torn = << >> \/ torn = <<e>> \/ torn = <<W[k]>>
    BY DEF Torn
  <2>2. e[1] = "set" /\ e[2] = W[k][2] /\ e[3] = << >>
    BY <1>8
  <2> HIDE DEF e
  <2>3. ASSUME NEW x, torn = <<x>>
        PROVE  IsSequence(torn) /\ \A i \in 1..Len(torn) : torn[i] = x
    <3>1. <<x>> \in Seq({x}) /\ Len(<<x>>) = 1 /\ <<x>>[1] = x
      OBVIOUS
    <3>2. IsSequence(torn)
      BY <2>3, <3>1, Sequence
    <3>3. ASSUME NEW i \in 1..Len(torn) PROVE torn[i] = x
      BY <2>3, <3>1
    <3> QED  BY <3>2, <3>3
  <2>4. CASE torn = << >>
    BY <2>4, NoText DEF Lines
  <2>5. CASE torn = <<e>>
    <3>1. IsSequence(torn) /\ \A i \in 1..Len(torn) : torn[i] = e
      BY <2>3, <2>5
    <3> QED  BY <2>2, <3>1, NoText DEF Lines
  <2>6. CASE torn = <<W[k]>>
    <3>1. IsSequence(torn) /\ \A i \in 1..Len(torn) : torn[i] = W[k]
      BY <2>3, <2>6
    <3> QED  BY <1>8, <3>1 DEF Lines
  <2> QED  BY <2>1, <2>4, <2>5, <2>6
<1> QED  BY <1>1, <1>6, <1>7, <1>9 DEF s

\* A save that was not: whole lines and one torn were written.
LEMMA CutShortSays ==
  ASSUME NEW w, Settled(w), NEW file \in Files, NEW append \in BOOLEAN, NEW all,
         NEW contents \in CutShort(w, file, append, all)
  PROVE  /\ Lines(contents)
         /\ file = "config.cfg" /\ Remembers(w.disk[file]) =>
              \A n \in Names : Says(contents, n) \in KeptAfterCrash(w.table, append, all)[n]
<1> DEFINE t == w.table
           old == Opened(w.disk[file], append)
           W == Written(t, all)
<1>1. Lines(w.disk[file]) /\ Registers(t)
  BY DEF Settled
<1>2. /\ Lines(old)
      /\ \A n : Says(old, n) = IF append THEN Says(w.disk[file], n) ELSE Default(n)
  BY <1>1, OpenedSays
<1>3. /\ Lines(W)
      /\ \A i \in 1..Len(W) : \A n \in Names :
           W[i][2] = n => Saves(Get(t, n), all) /\ W[i][3] = Get(t, n).value
  BY <1>1, WrittenTexts
<1>4. \/ contents = old
      \/ \E k \in DOMAIN W : \E torn \in Torn(W[k]) : contents = old \o SubSeq(W, 1, k - 1) \o torn
  BY DEF CutShort
<1> HIDE DEF old, W
<1> DEFINE x(n) == Get(t, n).value
           Texts(n) == IF Saves(Get(t, n), all) THEN {x(n), << >>} ELSE {}
           Read(n) == {Cut(ReadBack(y)) : y \in Texts(n)}
<1>5. /\ Lines(contents)
      /\ \A n \in Names : Says(contents, n) \in {Says(old, n)} \cup Read(n)
  <2>1. CASE contents = old
    BY <1>2, <2>1
  <2>2. CASE \E k \in DOMAIN W : \E torn \in Torn(W[k]) : contents = old \o SubSeq(W, 1, k - 1) \o torn
    <3>1. PICK k \in DOMAIN W : \E torn \in Torn(W[k]) : contents = old \o SubSeq(W, 1, k - 1) \o torn
      BY <2>2
    <3>2. PICK torn \in Torn(W[k]) : contents = old \o SubSeq(W, 1, k - 1) \o torn
      BY <3>1
    <3> DEFINE s == SubSeq(W, 1, k - 1)
               c == old \o s
    <3>3. /\ Lines(s) /\ \A i \in 1..Len(s) : \E j \in 1..Len(W) : s[i] = W[j]
          /\ Lines(torn)
          /\ \A i \in 1..Len(torn) : torn[i][2] = W[k][2] /\ torn[i][3] \in {W[k][3], << >>}
          /\ k \in 1..Len(W)
      BY <1>3, CutLines
    <3>4. contents = c \o torn
      BY <3>2
    <3> HIDE DEF s
    <3>5. Lines(c)
      BY <1>2, <3>3, LinesOfBoth
    <3>6. Lines(c \o torn)
      <4> HIDE DEF c
      <4> QED  BY <3>3, <3>5, LinesOfBoth
    <3>7. ASSUME NEW n \in Names PROVE Says(c \o torn, n) \in {Says(old, n)} \cup Read(n)
      <4> DEFINE T == Texts(n)
      <4>0. ASSUME NEW i \in 1..Len(W), W[i][2] = n PROVE W[i][3] \in T /\ << >> \in T
        BY <1>3, <4>0
      <4> HIDE DEF T
      <4>1. ASSUME NEW i \in 1..Len(s), s[i][2] = n PROVE s[i][3] \in T
        BY <3>3, <4>0, <4>1
      <4>2. ASSUME NEW i \in 1..Len(torn), torn[i][2] = n PROVE torn[i][3] \in T
        <5>1. W[k][2] = n /\ torn[i][3] \in {W[k][3], << >>}
          BY <3>3, <4>2
        <5> QED  BY <3>3, <4>0, <5>1
      <4>3. IsSequence(old) /\ IsSequence(s) /\ IsSequence(c) /\ IsSequence(torn)
        BY <1>2, <3>3, <3>5 DEF Lines
      <4>4. Says(c, n) \in {Says(old, n)} \cup {Cut(ReadBack(y)) : y \in T}
        BY <4>1, <4>3, SaysExtended
      <4> HIDE DEF c
      <4>5. Says(c \o torn, n) \in {Says(c, n)} \cup {Cut(ReadBack(y)) : y \in T}
        BY <4>2, <4>3, SaysExtended
      <4>6. Read(n) = {Cut(ReadBack(y)) : y \in T}
        BY DEF T
      <4> HIDE DEF Read
      <4> QED  BY <4>4, <4>5, <4>6
    <3> HIDE DEF c, Read
    <3> QED  BY <3>4, <3>6, <3>7
  <2> QED  BY <1>4, <2>1, <2>2
<1>6. ASSUME file = "config.cfg", Remembers(w.disk[file]), NEW n \in Names
      PROVE  Says(contents, n) \in KeptAfterCrash(t, append, all)[n]
  <2> DEFINE before == IF append THEN kept[n] ELSE {Default(n)}
  <2>1. Says(old, n) \in before
    BY <1>2, <1>6 DEF Remembers
  <2>2. KeptAfterCrash(t, append, all)[n] =
          before \cup (IF n \in Kept(t, all) THEN {ReadBack(x(n)), << >>} ELSE {})
    BY DEF KeptAfterCrash
  <2>3. n \in Kept(t, all) <=> Saves(Get(t, n), all) /\ "ROM" \notin FlagsOf(n)
    BY <1>1, KeptNames
  <2>4. Cut(ReadBack(x(n))) = ReadBack(x(n)) /\ Cut(ReadBack(<< >>)) = << >>
    BY <1>1, ReadOnce DEF Registers
  <2>5. "ROM" \in FlagsOf(n) => Says(contents, n) = Default(n) /\ Says(old, n) = Default(n)
    BY DEF Says
  <2>6. Says(contents, n) \in {Says(old, n)} \cup Read(n)
    BY <1>5
  <2> HIDE DEF before, x
  <2>7. CASE "ROM" \in FlagsOf(n)
    BY <2>1, <2>2, <2>5, <2>7
  <2>8. CASE "ROM" \notin FlagsOf(n) /\ Saves(Get(t, n), all)
    <3>1. Says(contents, n) \in {Says(old, n), ReadBack(x(n)), << >>}
      BY <2>4, <2>6, <2>8
    <3> QED  BY <2>1, <2>2, <2>3, <2>8, <3>1
  <2>9. CASE ~Saves(Get(t, n), all)
    BY <2>1, <2>2, <2>6, <2>9
  <2> QED  BY <2>7, <2>8, <2>9
<1> QED  BY <1>5, <1>6

-----------------------------------------------------------------------------
(* The invariant.                                                          *)

\* config.cfg says what each variable may come back with, a console that runs
\* has the variables that were registered, and the settings that were loaded
\* are what config.cfg said.
ConfigInv ==
  /\ phase \in {"off", "config", "running"}
  /\ DOMAIN disk = Files /\ \A f \in Files : Lines(disk[f])
  /\ gpu.filter \in 0..4 /\ gpu.wire \in BOOLEAN
  /\ phase = "off" => table = EmptyTable
  /\ phase # "off" => Registers(table)
  /\ Remembers(disk["config.cfg"])
  /\ phase = "config" => \A n \in Names : SetByAutoexec(n) \/ Value(n) \in kept[n]

LEMMA ConsoleSettled ==
  ASSUME ConfigInv, phase # "off" PROVE Settled(Console)
BY ConsoleFields DEF ConfigInv, Settled

LEMMA SavedSettled ==
  ASSUME NEW w, Settled(w), NEW file, NEW append \in BOOLEAN, NEW all,
         NEW v, v = SaveCFG(w, file, append, all)
  PROVE  /\ Settled(v) /\ v.table = w.table /\ v.gpu = w.gpu
         /\ \A f \in Files : v.disk[f] = IF f = file THEN Opened(w.disk[f], append) \o Written(w.table, all)
                                         ELSE w.disk[f]
<1> DEFINE c == Opened(w.disk[file], append) \o Written(w.table, all)
           d == [w.disk EXCEPT ![file] = c]
<1>1. /\ w = [table |-> w.table, disk |-> w.disk, gpu |-> w.gpu]
      /\ DOMAIN w.disk = Files /\ (\A f \in Files : Lines(w.disk[f])) /\ Registers(w.table)
  BY DEF Settled
<1>2. v = [w EXCEPT !.disk = d]
  BY DEF SaveCFG
<1>3. file \in Files => Lines(c)
  BY <1>1, OpenedSays, WrittenTexts, LinesOfBoth
<1>4. \A f \in Files : d[f] = IF f = file THEN Opened(w.disk[f], append) \o Written(w.table, all)
                              ELSE w.disk[f]
  BY <1>1
<1>5. DOMAIN d = Files /\ \A f \in Files : d[f] = IF f = file THEN c ELSE w.disk[f]
  BY <1>1
<1> HIDE DEF c, d
<1>6. v = [table |-> w.table, disk |-> d, gpu |-> w.gpu]
  BY <1>1, <1>2
<1>7. v.table = w.table /\ v.disk = d /\ v.gpu = w.gpu
  BY <1>6
<1>8. \A f \in Files : Lines(d[f])
  BY <1>1, <1>3, <1>5
<1>9. Settled(v)
  BY <1>1, <1>5, <1>6, <1>7, <1>8 DEF Settled
<1> QED  BY <1>4, <1>7, <1>9

\* A command that is typed.
LEMMA CommandSettled ==
  ASSUME NEW w, Settled(w), w.table = table, Remembers(w.disk["config.cfg"]), phase = "running",
         NEW args \in Typed, NEW v, v = SendCommand(w, args)
  PROVE  /\ Settled(v)
         /\ \A n \in Names : Says(v.disk["config.cfg"], n) \in KeptAfterCommand(args)[n]
<1>1. IsCommand(args) /\ "config.cfg" \in Files
  BY FrontendAssumption DEF Files
<1>2. CASE args[1] = "savecfg"
  <2> DEFINE append == "APPEND" \in Range(args)
             all == "ALL" \in Range(args)
  <2>1. v = SaveCFG(w, args[2], append, all) /\ append \in BOOLEAN
    BY <1>2 DEF SendCommand, Sent
  <2>2. KeptAfterCommand(args) = IF args[2] = "config.cfg" THEN KeptAfter(w.table, append, all) ELSE kept
    BY <1>2 DEF KeptAfterCommand
  <2> HIDE DEF append, all
  <2>3. /\ Settled(v)
        /\ v.disk["config.cfg"] =
             IF "config.cfg" = args[2] THEN Opened(w.disk["config.cfg"], append) \o Written(w.table, all)
             ELSE w.disk["config.cfg"]
    BY <1>1, <2>1, SavedSettled
  <2>4. CASE args[2] = "config.cfg"
    <3>1. Registers(w.table) /\ Lines(w.disk["config.cfg"])
      BY <1>1 DEF Settled
    <3> QED  BY <2>1, <2>2, <2>3, <2>4, <3>1, SavedSays
  <2>5. CASE args[2] # "config.cfg"
    BY <2>2, <2>3, <2>5 DEF Remembers
  <2> QED  BY <2>3, <2>4, <2>5
<1>3. CASE args[1] = "loadcfg"
  <2>1. v = LoadCFG(w, w.disk[args[2]]) /\ args[2] \in Files
    BY <1>3, FrontendAssumption DEF SendCommand
  <2> DEFINE c == w.disk[args[2]]
  <2>2. Lines(c)
    BY <2>1 DEF Settled
  <2> HIDE DEF c
  <2>3. IsSequence(c) /\ \A i \in 1..Len(c) : IsCommand(c[i]) /\ c[i][1] # "savecfg"
    BY <2>2 DEF Lines, IsCommand
  <2>4. Settled(v) /\ v.disk = w.disk
    BY <2>1, <2>3, LoadSettled DEF c
  <2> QED  BY <1>3, <2>4 DEF KeptAfterCommand, Remembers
<1>4. CASE args[1] \notin {"savecfg", "loadcfg"}
  <2>1. v = Sent(w, args)
    BY <1>4 DEF SendCommand
  <2>2. Settled(v) /\ v.disk = w.disk
    BY <1>1, <1>4, <2>1, SentSettled
  <2> QED  BY <1>4, <2>2 DEF KeptAfterCommand, Remembers
<1> QED  BY <1>2, <1>3, <1>4

LEMMA ConfigInitially == ConsoleInit => ConfigInv
<1> SUFFICES ASSUME ConsoleInit PROVE ConfigInv
  OBVIOUS
<1>1. /\ phase = "off" /\ table = EmptyTable /\ disk \in FoundFirst
      /\ kept = [n \in Names |-> {Says(disk["config.cfg"], n)}]
      /\ gpu = NoDevice
  BY DEF ConsoleInit
<1>2. DOMAIN disk = Files /\ \A f \in Files :
        IsSequence(disk[f]) /\ \A i \in DOMAIN disk[f] : IsCommand(disk[f][i]) /\ disk[f][i][1] = "set"
  BY <1>1, ConsoleAssumption
<1>3. \A f \in Files : Lines(disk[f])
  <2> TAKE f \in Files
  <2>1. DOMAIN disk[f] = 1..Len(disk[f])
    BY <1>2, SequenceFacts
  <2> QED  BY <1>2, <2>1 DEF Lines, IsCommand
<1>4. \A n \in Names : Says(disk["config.cfg"], n) \in kept[n]
  BY <1>1
<1>5. gpu.filter \in 0..4 /\ gpu.wire \in BOOLEAN
  BY <1>1 DEF NoDevice
<1> QED  BY <1>1, <1>2, <1>3, <1>4, <1>5 DEF ConfigInv, Remembers

\* The settings are loaded: config.cfg, then autoexec.cfg.
LEMMA ConfigLoaded == ASSUME ConfigInv, GameInit PROVE ConfigInv'
<1> DEFINE w == [Console EXCEPT !.table = RegisterCVars]
           c == disk["config.cfg"]
           v == LoadCFG(w, c)
           u == LoadCFG(v, Autoexec)
<1>1. phase = "off" /\ phase' = "config" /\ kept' = kept
  BY DEF GameInit
<1>2. w = [table |-> RegisterCVars, disk |-> disk, gpu |-> gpu]
  BY DEF Console
<1>3. w.table = RegisterCVars /\ w.disk = disk /\ w.gpu = gpu
  BY <1>2
<1>4. table' = u.table /\ disk' = u.disk /\ gpu' = u.gpu
  <2> HIDE DEF w
  <2>1. SendCommand(w, <<"loadcfg", "config.cfg">>) = v
    BY <1>3 DEF SendCommand
  <2> HIDE DEF v
  <2>2. Becomes(u)
    BY <2>1 DEF GameInit, w
  <2> QED  BY <2>2 DEF Becomes
<1> HIDE DEF w
<1>5. Settled(w)
  BY <1>2, <1>3, RegisteredSettings DEF Settled, ConfigInv
<1>6. Lines(c)
  BY DEF ConfigInv, Files
<1>7. IsSequence(c) /\ \A i \in 1..Len(c) : IsCommand(c[i]) /\ c[i][1] # "savecfg"
  BY <1>6 DEF Lines, IsCommand
<1>8. \A n \in Names : Text(w, n) = Default(n)
  BY <1>3, RegisteredSettings DEF Text
<1> HIDE DEF c, u
<1>9. Settled(v) /\ v.disk = w.disk
  BY <1>5, <1>7, LoadSettled
<1>10. \A n \in Names : Text(v, n) = Says(c, n)
  BY <1>1, <1>5, <1>6, <1>8, LoadSays
<1> HIDE DEF v
<1>11. IsSequence(Autoexec) /\ DOMAIN Autoexec = 1..Len(Autoexec)
  BY ConsoleAssumption, SequenceFacts
<1>12. \A i \in 1..Len(Autoexec) : IsCommand(Autoexec[i]) /\ Autoexec[i][1] # "savecfg"
  BY <1>11, ConsoleAssumption
<1>13. /\ Settled(u) /\ u.disk = v.disk
       /\ \A n \in Names : (\A i \in 1..Len(Autoexec) : ~SetBy(Autoexec[i], n)) => Text(u, n) = Text(v, n)
  BY <1>1, <1>9, <1>11, <1>12, LoadSettled DEF u
<1>14. \A n \in Names : (\A i \in 1..Len(Autoexec) : ~SetBy(Autoexec[i], n)) \/ SetByAutoexec(n)
  BY <1>11 DEF SetBy, SetByAutoexec
<1>15. \A n \in Names : SetByAutoexec(n) \/ Text(u, n) \in kept[n]
  BY <1>10, <1>13, <1>14 DEF ConfigInv, Remembers, c
<1>16. disk' = disk
  BY <1>3, <1>4, <1>9, <1>13
<1> QED  BY <1>1, <1>4, <1>13, <1>15, <1>16 DEF ConfigInv, Settled, Remembers, Text, Value, SetByAutoexec

LEMMA ConfigVideo == ASSUME ConfigInv, InitVideo PROVE ConfigInv'
<1>1. phase = "config" /\ kept' = kept
  BY DEF InitVideo
<1>2. CASE phase' = "running" /\ Becomes(SetStates(Console))
  <2> DEFINE v == SetStates(Console)
  <2>1. Settled(v) /\ v.disk = disk
    BY <1>1, ConsoleSettled, SetStatesSettled, ConsoleFields
  <2>2. table' = v.table /\ disk' = v.disk /\ gpu' = v.gpu
    BY <1>2 DEF Becomes
  <2> HIDE DEF v
  <2> QED  BY <1>1, <1>2, <2>1, <2>2 DEF ConfigInv, Settled, Remembers
<1>3. CASE Off /\ UNCHANGED disk
  BY <1>1, <1>3 DEF Off, ConfigInv, Remembers, NoDevice
<1> QED  BY <1>2, <1>3 DEF InitVideo

LEMMA ConfigCommand ==
  ASSUME ConfigInv, NEW args \in Typed, TypeCommand(args) PROVE ConfigInv'
<1> DEFINE v == SendCommand(Console, args)
<1>1. phase = "running" /\ phase' = phase /\ Becomes(v) /\ kept' = KeptAfterCommand(args)
  BY DEF TypeCommand
<1>2. Settled(Console) /\ Console.table = table /\ Remembers(Console.disk["config.cfg"])
  BY <1>1, ConsoleSettled, ConsoleFields DEF ConfigInv
<1>3. /\ Settled(v)
      /\ \A n \in Names : Says(v.disk["config.cfg"], n) \in KeptAfterCommand(args)[n]
  BY <1>1, <1>2, CommandSettled
<1> HIDE DEF v
<1>4. table' = v.table /\ disk' = v.disk /\ gpu' = v.gpu
  BY <1>1 DEF Becomes
<1> QED  BY <1>1, <1>3, <1>4 DEF ConfigInv, Settled, Remembers

\* The console is gone, and config.cfg says what it should.
LEMMA ConfigOff ==
  ASSUME ConfigInv, Off, DOMAIN disk' = Files, \A f \in Files : Lines(disk'[f]),
         \A n \in Names : Says(disk'["config.cfg"], n) \in kept'[n]
  PROVE  ConfigInv'
BY DEF Off, ConfigInv, Remembers, NoDevice

\* A save that was cut short.
LEMMA ConfigCutShort ==
  ASSUME ConfigInv, phase # "off", Off, NEW file, NEW append \in BOOLEAN, NEW all,
         NEW contents \in CutShort(Console, file, append, all),
         disk' = [disk EXCEPT ![file] = contents],
         kept' = IF file = "config.cfg" THEN KeptAfterCrash(table, append, all) ELSE kept
  PROVE  ConfigInv'
<1>1. /\ Settled(Console) /\ Console.table = table /\ Console.disk = disk
      /\ DOMAIN disk = Files /\ (\A f \in Files : Lines(disk[f])) /\ Remembers(disk["config.cfg"])
  BY ConsoleSettled, ConsoleFields DEF ConfigInv
<1>2. file \in Files =>
        /\ Lines(contents)
        /\ file = "config.cfg" =>
             \A n \in Names : Says(contents, n) \in KeptAfterCrash(table, append, all)[n]
  BY <1>1, CutShortSays
<1>3. "config.cfg" \in Files
  BY DEF Files
<1>4. DOMAIN disk' = Files /\ \A f \in Files : disk'[f] = IF f = file THEN contents ELSE disk[f]
  BY <1>1
<1>5. \A f \in Files : Lines(disk'[f])
  BY <1>1, <1>2, <1>4
<1>6. \A n \in Names : Says(disk'["config.cfg"], n) \in kept'[n]
  BY <1>1, <1>2, <1>3, <1>4 DEF Remembers
<1> QED  BY <1>4, <1>5, <1>6, ConfigOff

LEMMA ConfigShutdown == ASSUME ConfigInv, phase # "off", GameShutdown PROVE ConfigInv'
<1> DEFINE file == "config.cfg"
<1>1. Off /\ file \in Files
  BY DEF GameShutdown, Files
<1>2. CASE disk' = SaveCFG(Console, file, FALSE, FALSE).disk /\ kept' = KeptAfter(table, FALSE, FALSE)
  <2> DEFINE v == SaveCFG(Console, file, FALSE, FALSE)
  <2>1. Settled(Console) /\ Console.table = table /\ Console.disk = disk
    BY ConsoleSettled, ConsoleFields
  <2>2. /\ Settled(v)
        /\ v.disk[file] = Opened(disk[file], FALSE) \o Written(table, FALSE)
    <3>1. ASSUME NEW append \in BOOLEAN, NEW all
          PROVE  /\ Settled(SaveCFG(Console, file, append, all))
                 /\ SaveCFG(Console, file, append, all).disk[file] =
                      Opened(Console.disk[file], append) \o Written(Console.table, all)
      <4> DEFINE x == SaveCFG(Console, file, append, all)
      <4>1. x = SaveCFG(Console, file, append, all)
        OBVIOUS
      <4> HIDE DEF x
      <4>2. Settled(x) /\ \A f \in Files : x.disk[f] =
              IF f = file THEN Opened(Console.disk[f], append) \o Written(Console.table, all)
              ELSE Console.disk[f]
        BY <2>1, <4>1, SavedSettled
      <4> QED  BY <1>1, <4>2 DEF x
    <3>2. /\ Settled(v)
          /\ v.disk[file] = Opened(Console.disk[file], FALSE) \o Written(Console.table, FALSE)
      BY <3>1, Zenon
    <3> QED  BY <2>1, <3>2
  <2>3. disk' = v.disk
    BY <1>2
  <2> HIDE DEF v
  <2>4. Lines(disk[file]) /\ Remembers(disk[file]) /\ Registers(table)
    BY <1>1 DEF ConfigInv
  <2>5. \A n \in Names : Says(disk'[file], n) \in kept'[n]
    BY <1>2, <2>2, <2>3, <2>4, SavedSays
  <2> QED  BY <1>1, <2>2, <2>3, <2>5, ConfigOff DEF Settled
<1>3. CASE UNCHANGED <<disk, kept>>
  BY <1>1, <1>3, ConfigOff DEF ConfigInv, Remembers
<1>4. CASE /\ \E contents \in CutShort(Console, file, FALSE, FALSE) :
                disk' = [disk EXCEPT ![file] = contents]
           /\ kept' = KeptAfterCrash(table, FALSE, FALSE)
  BY <1>1, <1>4, ConfigCutShort
<1> QED  BY <1>2, <1>3, <1>4 DEF GameShutdown

LEMMA ConfigKilled ==
  ASSUME ConfigInv, NEW args, KilledInCommand(args) PROVE ConfigInv'
<1> DEFINE append == "APPEND" \in Range(args)
           all == "ALL" \in Range(args)
<1>1. phase = "running" /\ Off /\ append \in BOOLEAN
  BY DEF KilledInCommand
<1>2. /\ \E contents \in CutShort(Console, args[2], append, all) :
           disk' = [disk EXCEPT ![args[2]] = contents]
      /\ kept' = IF args[2] = "config.cfg" THEN KeptAfterCrash(table, append, all) ELSE kept
  BY DEF KilledInCommand
<1> HIDE DEF append, all
<1> QED  BY <1>1, <1>2, ConfigCutShort

LEMMA ConfigQuiet == ASSUME ConfigInv, UNCHANGED consoleVars PROVE ConfigInv'
BY DEF ConfigInv, consoleVars, Remembers, Value

LEMMA ConfigStep == ConfigInv /\ [Next]_vars => ConfigInv'
<1> SUFFICES ASSUME ConfigInv, [Next]_vars PROVE ConfigInv'
  OBVIOUS
<1>1. CASE Start
  BY <1>1, ConfigLoaded DEF Start
<1>2. CASE StartVideo
  BY <1>2, ConfigVideo DEF StartVideo
<1>3. CASE Peek \/ Dispatch
  BY <1>3, ConfigQuiet DEF Peek, Dispatch
<1>4. CASE Frame
  <2>1. phase = "running" /\ phase # "off" /\ (GameShutdown \/ UNCHANGED consoleVars)
    BY <1>4 DEF Frame
  <2> QED  BY <2>1, ConfigShutdown, ConfigQuiet
<1>5. CASE Crash
  <2>1. Off /\ disk' = disk /\ kept' = kept
    BY <1>5 DEF Crash, Killed
  <2> QED  BY <2>1, ConfigOff DEF ConfigInv, Remembers
<1>6. CASE \E args \in Typed : TypeLine(args)
  <2>1. PICK args \in Typed : TypeLine(args)
    BY <1>6
  <2> QED  BY <2>1, ConfigCommand, ConfigKilled DEF TypeLine
<1>7. CASE \E k \in Keys \cup Buttons : Press(k) \/ Release(k)
  BY <1>7, ConfigQuiet DEF Press, Release, User
<1>8. CASE SwitchFocus
  BY <1>8, ConfigQuiet DEF SwitchFocus, User
<1>9. CASE UNCHANGED vars
  BY <1>9, ConfigQuiet DEF vars
<1> QED  BY <1>1, <1>2, <1>3, <1>4, <1>5, <1>6, <1>7, <1>8, <1>9 DEF Next

LEMMA ConfigIsBack == ConfigInv => ConfigComesBack
<1> SUFFICES ASSUME ConfigInv PROVE ConfigComesBack
  OBVIOUS
<1>1. ASSUME NEW s \in Slots, NEW i \in DOMAIN table[s]
      PROVE  /\ table[s][i].name \in Names /\ SlotOf[table[s][i].name] = s
             /\ \A j \in DOMAIN table[s] : table[s][i].name = table[s][j].name => i = j
  <2>1. CASE table = EmptyTable
    <3>1. table[s] = << >>
      BY <2>1 DEF EmptyTable
    <3> QED  BY <1>1, <3>1
  <2>2. CASE Registers(table)
    <3>1. IsTable(table) /\ \A n : Has(table, n) => n \in Names
      BY <2>2 DEF Registers
    <3>2. table[s] \in Seq({table[s][j] : j \in DOMAIN table[s]})
      BY <3>1 DEF IsTable, IsChain
    <3>3. DOMAIN table[s] = 1..Len(table[s])
      BY <3>2, LenProperties
    <3> DEFINE n == table[s][i].name
    <3>4. /\ n \in DOMAIN SlotOf /\ SlotOf[n] = s
          /\ \A j \in DOMAIN table[s] : n = table[s][j].name => i = j
      BY <3>1, <3>3 DEF IsTable, IsChain
    <3>5. Has(table, n)
      BY <3>1, <3>3, <3>4, EntryFound
    <3> QED  BY <3>1, <3>4, <3>5
  <2> QED  BY <2>1, <2>2 DEF ConfigInv
<1>2. ConsoleTypeOK
  BY <1>1 DEF ConsoleTypeOK, ConfigInv
<1>3. phase = "config" => \A n \in Names : Has(table, n) /\ (SetByAutoexec(n) \/ Value(n) \in kept[n])
  BY DEF ConfigInv, Registers
<1> QED  BY <1>2, <1>3 DEF ConfigComesBack

\* The settings come back: when config.cfg and autoexec.cfg have been loaded
\* each variable that autoexec.cfg does not set has the text it had when
\* config.cfg was last written, cut as a line is, or its default if it was not
\* saved, for every registration, every hash and every .cfg file, whatever is
\* typed, saved and loaded in the runs before and wherever in a save the
\* process was killed (LGC_SaveCFG, LGC_LoadCFG, CCvarList::GetFirst and
\* GetNext, LG_GameInit, LG_GameShutdown).
THEOREM SettingsComeBack == Spec => []ConfigComesBack
<1>1. Init => ConfigInv
  BY ConfigInitially DEF Init
<1> QED
  BY <1>1, ConfigStep, ConfigIsBack, PTL DEF Spec
=============================================================================
