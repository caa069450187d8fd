----------------------------- MODULE SndStream ------------------------------
(***************************************************************************)
(* The streaming sound CLSndStream (engine/ls_stream.cpp) and the audio    *)
(* device that plays its two buffers while the main loop refills them.     *)
(* Sound is counted in units: a buffer takes Cap of them, a file has       *)
(* `len'.  The OpenAL source is external and is modelled as its            *)
(* specification says: `src' is its state, `queue' its buffers in order,   *)
(* `proc' how many of them, from the front, it has played.                 *)
(***************************************************************************)
EXTENDS Integers, Sequences, FiniteSetsExt

CONSTANTS Cap,      \* units in m_pTempBuffer
          Lengths   \* the lengths of the sound files

ASSUME SndStreamAssumption ==
  /\ Cap \in Nat \ {0}
  /\ Lengths \subseteq Nat \ {0}

VARIABLES
  open, playing, paused, loop,  \* the flags m_bOpen, m_bPlaying, ...
  len, pos,                     \* length and position of m_cSndFile
  data,                         \* what each of m_Buffers holds of the file
  queue, proc, src,             \* the source
  pc, todo,                     \* where Update is, and its nProcessed
  fault,                        \* buffers were filled while queued
  expect, inOrder, underrun, replayed  \* what a listener noticed

file    == <<open, len, loop>>
source  == <<queue, proc, src>>
update  == <<pc, todo>>
history == <<expect, inOrder, underrun, replayed>>
vars == <<file, playing, paused, pos, data, source, update, fault, history>>

Buffers == {0, 1}
Empty == [from |-> 0, to |-> 0]

-----------------------------------------------------------------------------
(* The file and the source.                                                *)

\* A slip: the end of the file is not looked at.
FilledPastEnd(p, l) ==
  [from |-> p, to |-> IF l THEN (p + Cap) % len ELSE p + Cap, full |-> TRUE]

\* UpdateBuffer of a playing stream at position p: which part of the file the
\* buffer gets, and whether that filled it.  A looping file starts again at
\* its end until the buffer is full.
Filled(p, l) ==
  [from |-> IF l THEN p % len ELSE p,
   to   |-> IF l THEN (p + Cap) % len ELSE Min({p + Cap, len}),
   full |-> l \/ p + Cap <= len]

Part(f) == [from |-> f.from, to |-> f.to]

\* alSourcePlay: a paused source goes on, one that was stopped plays its whole
\* queue, also what it has played before.
SourcePlay ==
  /\ src' = "playing"
  /\ proc' = IF src = "paused" THEN proc ELSE 0
  /\ replayed' = (replayed \/ (src # "paused" /\ proc > 0))
  /\ UNCHANGED <<queue, expect, inOrder, underrun>>

\* Nothing has been heard of the file yet.
Unheard == expect' = 0 /\ inOrder' = TRUE /\ underrun' = FALSE /\ replayed' = FALSE

Idle == ~fault /\ pc = "idle"

-----------------------------------------------------------------------------
(* The calls of the main loop.                                             *)

Init ==
  /\ open = FALSE /\ playing = FALSE /\ paused = TRUE /\ loop = FALSE
  /\ len = 0 /\ pos = 0 /\ data = [b \in Buffers |-> Empty]
  /\ queue = << >> /\ proc = 0 /\ src = "initial"
  /\ pc = "idle" /\ todo = 0 /\ fault = FALSE
  /\ expect = 0 /\ inOrder = TRUE /\ underrun = FALSE /\ replayed = FALSE

\* Close: the source and its buffers are deleted.
Close ==
  /\ Idle /\ open
  /\ open' = FALSE /\ playing' = FALSE /\ paused' = FALSE /\ loop' = FALSE
  /\ len' = 0 /\ pos' = 0 /\ data' = [b \in Buffers |-> Empty]
  /\ queue' = << >> /\ proc' = 0 /\ src' = "initial"
  /\ Unheard
  /\ UNCHANGED <<update, fault>>

\* Load of a file of n units; one that fails is a Close.
Load(n) ==
  /\ Idle
  /\ open' = TRUE /\ playing' = FALSE /\ loop' = FALSE
  /\ paused' = (paused /\ ~open)
  /\ len' = n /\ pos' = 0 /\ data' = [b \in Buffers |-> Empty]
  /\ queue' = << >> /\ proc' = 0 /\ src' = "initial"
  /\ Unheard
  /\ UNCHANGED <<update, fault>>

\* Play of a stream that plays: resumes it if it is paused.
Resume(l) ==
  /\ Idle /\ open /\ playing
  /\ loop' = l
  /\ paused' = FALSE
  /\ IF paused THEN SourcePlay ELSE UNCHANGED <<source, history>>
  /\ UNCHANGED <<open, len, playing, pos, data, update, fault>>

\* Play of a stream that does not play: both buffers are filled, and queued if
\* both are full.  The buffers of a stream that came to its end by itself are
\* queued still: the source refuses their new contents, and what it makes of
\* queueing them a second time is left open.
Start(l) ==
  LET first  == Filled(pos, l)
      second == Filled(first.to, l)
  IN  /\ Idle /\ open /\ ~playing
      /\ loop' = l
      /\ paused' = FALSE
      /\ playing' = (first.full /\ second.full)
      /\ pos' = IF first.full THEN second.to ELSE first.to
      /\ IF queue = << >>
         THEN data' = [data EXCEPT ![0] = Part(first),
                                   ![1] = IF first.full THEN Part(second) ELSE @]
         ELSE UNCHANGED data
      /\ IF playing'
         THEN /\ queue' = IF queue = << >> THEN <<0, 1>> ELSE queue
              /\ fault' = (queue # << >>)
              /\ src' = "playing" /\ proc' = 0
         ELSE UNCHANGED <<source, fault>>
      /\ UNCHANGED <<open, len, update, history>>

\* A slip: the buffers stay queued.
StopKeepsQueue ==
  /\ Idle /\ open
  /\ src' = IF src = "initial" THEN src ELSE "stopped"
  /\ proc' = Len(queue)
  /\ pos' = 0 /\ playing' = FALSE /\ paused' = FALSE
  /\ Unheard
  /\ UNCHANGED <<file, data, queue, update, fault>>

\* Stop: a stopped source has played all its buffers, so they can be unqueued.
Stop ==
  /\ Idle /\ open
  /\ src' = IF src = "initial" THEN src ELSE "stopped"
  /\ queue' = << >> /\ proc' = 0
  /\ pos' = 0 /\ playing' = FALSE /\ paused' = FALSE
  /\ Unheard
  /\ UNCHANGED <<file, data, update, fault>>

Pause ==
  /\ Idle /\ open
  /\ src' = IF src = "playing" THEN "paused" ELSE src
  /\ paused' = TRUE
  /\ UNCHANGED <<file, playing, pos, data, queue, proc, update, fault, history>>

-----------------------------------------------------------------------------
(* Update, step by step, for the device plays on during it.                *)

\* Asks how many buffers the source has played.
CountProcessed ==
  /\ Idle /\ open /\ playing /\ ~paused
  /\ pc' = "refill" /\ todo' = proc
  /\ UNCHANGED <<file, playing, paused, pos, data, source, fault, history>>

\* A slip: the buffer is queued again as it was.
RefillKeepsData ==
  LET f == Filled(pos, loop)
  IN  /\ pc = "refill" /\ todo > 0
      /\ pos' = f.to
      /\ queue' = Append(Tail(queue), Head(queue)) /\ proc' = proc - 1
      /\ playing' = f.full
      /\ todo' = IF f.full THEN todo - 1 ELSE 0
      /\ UNCHANGED <<file, paused, data, src, pc, fault, history>>

\* A slip: a buffer that was not filled is not queued again.
RefillDropsLast ==
  LET f == Filled(pos, loop)
      b == Head(queue)
  IN  /\ pc = "refill" /\ todo > 0
      /\ data' = [data EXCEPT ![b] = Part(f)]
      /\ pos' = f.to
      /\ queue' = IF f.full THEN Append(Tail(queue), b) ELSE Tail(queue)
      /\ proc' = proc - 1
      /\ playing' = f.full
      /\ todo' = IF f.full THEN todo - 1 ELSE 0
      /\ UNCHANGED <<file, paused, src, pc, fault, history>>

\* One round of Update's loop.  (A device that empties the queue while the
\* buffer is off it leaves what it leaves when it does so just before.)
Refill ==
  LET f == Filled(pos, loop)
      b == Head(queue)
  IN  /\ pc = "refill" /\ todo > 0
      /\ data' = [data EXCEPT ![b] = Part(f)]
      /\ pos' = f.to
      /\ queue' = Append(Tail(queue), b) /\ proc' = proc - 1
      /\ playing' = f.full
      /\ todo' = IF f.full THEN todo - 1 ELSE 0
      /\ UNCHANGED <<file, paused, src, pc, fault, history>>

\* A slip: a source that ran out of buffers stays stopped.
RestartNever ==
  /\ pc = "refill" /\ todo = 0
  /\ pc' = "idle"
  /\ UNCHANGED <<file, playing, paused, pos, data, source, todo, fault, history>>

\* The end of Update: a source that ran out of buffers is started again.
Restart ==
  /\ pc = "refill" /\ todo = 0
  /\ pc' = "idle"
  /\ IF src # "playing" THEN SourcePlay ELSE UNCHANGED <<source, history>>
  /\ UNCHANGED <<file, playing, paused, pos, data, todo, fault>>

-----------------------------------------------------------------------------
(* The device.                                                             *)

\* The source comes to the end of a buffer, and stops after its last.
Device ==
  /\ ~fault /\ src = "playing"
  /\ LET heard == data[queue[proc + 1]]
         last  == proc + 1 = Len(queue)
     IN  /\ proc' = proc + 1
         /\ src' = IF last THEN "stopped" ELSE src
         /\ expect' = heard.to
         /\ inOrder' = (inOrder /\ heard.from % len = expect % len)
         /\ underrun' = (underrun \/ (last /\ (playing \/ pc = "refill")))
  /\ UNCHANGED <<file, playing, paused, pos, data, queue, update, fault, replayed>>

-----------------------------------------------------------------------------
Update == CountProcessed \/ Refill \/ Restart

Next ==
  \/ \E n \in Lengths : Load(n)
  \/ \E l \in BOOLEAN : Resume(l) \/ Start(l)
  \/ Close \/ Stop \/ Pause
  \/ Update
  \/ Device

Spec == Init /\ [][Next]_vars

\* The main loop calls Update in every frame, and the device does not stand
\* still.  Nobody has to call the rest.
FairSpec == Spec /\ WF_vars(Update) /\ WF_vars(Device)

-----------------------------------------------------------------------------
(* Properties.                                                             *)

StreamTypeOK ==
  /\ open \in BOOLEAN /\ playing \in BOOLEAN /\ paused \in BOOLEAN /\ loop \in BOOLEAN
  /\ fault \in BOOLEAN
  /\ inOrder \in BOOLEAN /\ underrun \in BOOLEAN /\ replayed \in BOOLEAN
  /\ len \in Lengths \cup {0} /\ pos \in 0..len /\ expect \in 0..len
  /\ data \in [Buffers -> [from : 0..len, to : 0..len]]
  /\ Len(queue) \in {0, 2} /\ proc \in 0..Len(queue)
  /\ src \in {"initial", "playing", "paused", "stopped"}
  /\ pc \in {"idle", "refill"} /\ todo \in 0..proc

\* A stream that plays has its two buffers on the source, each once, the one
\* to be heard next filled from where the listener is and the file read up to
\* where the last one ends.  One that has left buffers there without playing is
\* at the end of its file.
QueueFollowsFile ==
  /\ playing =>
       /\ open
       /\ queue \in {<<0, 1>>, <<1, 0>>}
       /\ ~fault => data[queue[1]].to % len = data[queue[2]].from % len
       /\ ~fault => data[queue[2]].to % len = pos % len
  /\ ~playing /\ queue # << >> => pos = len

\* What is heard is the file from its start, nothing left out and nothing
\* twice, unless Update starts a source again that has buffers on its queue
\* which it has played; and that happens only when it ran out of buffers while
\* the stream was playing.
HeardInOrder ==
  /\ ~replayed => inOrder
  /\ replayed => underrun

\* A playing stream whose source has run out of buffers is heard again.
KeepsPlaying ==
  (playing /\ ~paused /\ src # "playing")
    ~> (src = "playing" \/ ~playing \/ paused)

\* A stream that does not loop is heard to the end of the file, unless it is
\* paused, stopped, made to loop, or falls behind so that Update's restart plays
\* buffers again (which it may do for ever).
HeardToTheEnd ==
  (playing /\ ~loop)
    ~> (expect = len \/ paused \/ loop \/ queue = << >> \/ replayed)
=============================================================================
