----------------------------- MODULE FileProofs -----------------------------
(***************************************************************************)
(* Names lead to the files they should, and an open file stays inside its  *)
(* OS file: the inductive invariant of the file system, over what mounting *)
(* does to a table.  And a sound that is streamed through two buffers of   *)
(* any size is heard in order, whatever its length.                        *)
(***************************************************************************)
EXTENDS FileSystem, SndStream, SequenceLemmas

-----------------------------------------------------------------------------
(* The streamed sound.                                                     *)

\* Two positions at which a file of length n sounds the same: its end is its
\* start.
Same(n, p, q) == p % n = q % n

\* What the calls rely on of each other's leavings.
Protocol ==
  /\ open => len \in Lengths
  /\ ~open => len = 0 /\ pos = 0 /\ expect = 0 /\ queue = << >> /\ ~playing
  /\ queue \in {<< >>, <<0, 1>>, <<1, 0>>}
  /\ playing => open /\ queue # << >>
  /\ src = "initial" <=> queue = << >> /\ src # "stopped"
  /\ queue = << >> => src \in {"initial", "stopped"}
  /\ ~fault => /\ paused => src # "playing"
               /\ playing /\ src = "paused" => paused
               /\ src \in {"playing", "paused"} => proc < 2
  /\ pc = "refill" => ~fault /\ ~paused /\ queue # << >> /\ src \in {"playing", "stopped"}
  /\ pc = "idle" => todo = 0
  /\ todo > 0 => playing

\* The buffers on the source follow each other in the file.
Chain ==
  queue # << >> /\ ~fault =>
    /\ Same(len, data[queue[1]].to, data[queue[2]].from)
    /\ Same(len, data[queue[2]].to, pos)

\* Where the listener is: at the start of the first buffer not played, or at the
\* end of the last; while no buffer is queued, at the start of the file.
Listener ==
  ~fault /\ open =>
    /\ queue = << >> => pos \in {0, len} /\ expect = 0
    /\ queue # << >> /\ ~replayed =>
         IF proc = 2 THEN Same(len, data[queue[2]].to, expect)
                     ELSE Same(len, data[queue[proc + 1]].from, expect)

\* A stream that plays has a source that does, unless it ran out of buffers.
Stopped == ~fault /\ (playing \/ pc = "refill") /\ src = "stopped" => underrun

\* Only the end of the file ends a stream that is left on the source.
Ended == ~playing /\ queue # << >> => pos = len

IInv ==
  /\ StreamTypeOK
  /\ Protocol /\ Chain /\ Listener /\ Stopped /\ Ended
  /\ HeardInOrder

-----------------------------------------------------------------------------
\* Positions that sound the same can be exchanged.
LEMMA SameIsEquivalence ==
  ASSUME NEW n, NEW p, NEW q, NEW r
  PROVE  /\ Same(n, p, p)
         /\ Same(n, p, q) => Same(n, q, p)
         /\ Same(n, p, q) /\ Same(n, q, r) => Same(n, p, r)
BY DEF Same

\* A position taken modulo the length is in the file, and sounds the same.
LEMMA ModuloIsSame ==
  ASSUME NEW n \in Nat \ {0}, NEW p \in Nat
  PROVE  p % n \in 0..n-1 /\ Same(n, p % n, p)
BY DEF Same

\* The smaller of two numbers.
LEMMA MinOfTwo ==
  ASSUME NEW a \in Int, NEW b \in Int
  PROVE  Min({a, b}) = IF a <= b THEN a ELSE b
BY DEF Min

\* At its end a file sounds as at its start.
LEMMA EndIsStart ==
  ASSUME NEW n \in Nat \ {0}
  PROVE  Same(n, n, 0) /\ Same(n, 0, 0)
BY DEF Same

\* What UpdateBuffer puts into a buffer starts where the file stood, stays within
\* the file, and leaves the buffer short only at the end of a file that does not
\* loop.
LEMMA FilledFollows ==
  ASSUME len \in Nat \ {0}, NEW p \in 0..len, NEW l \in BOOLEAN
  PROVE  /\ Part(Filled(p, l)) = [from |-> Filled(p, l).from, to |-> Filled(p, l).to]
         /\ Part(Filled(p, l)) \in [from : 0..len, to : 0..len]
         /\ Filled(p, l).from \in 0..len /\ Filled(p, l).to \in 0..len
         /\ Same(len, Filled(p, l).from, p)
         /\ Filled(p, l).full \in BOOLEAN
         /\ ~Filled(p, l).full => Filled(p, l).to = len
<1>1. Cap \in Nat \ {0}
  BY SndStreamAssumption
<1>2. CASE l
  <2>1. p % len \in 0..len /\ (p + Cap) % len \in 0..len /\ Same(len, p % len, p)
    BY <1>1, ModuloIsSame, SMTT(30)
  <2> QED  BY <1>2, <2>1 DEF Filled, Part
<1>3. CASE ~l
  <2>1. Min({p + Cap, len}) = IF p + Cap <= len THEN p + Cap ELSE len
    BY <1>1, MinOfTwo
  <2>2. Min({p + Cap, len}) \in 0..len
    BY <1>1, <2>1
  <2>3. Same(len, p, p)
    BY SameIsEquivalence
  <2>4. p + Cap <= len \/ Min({p + Cap, len}) = len
    BY <1>1, <2>1
  <2> QED  BY <1>3, <2>2, <2>3, <2>4 DEF Filled, Part
<1> QED  BY <1>2, <1>3

\* A stream that was just constructed has nothing queued and nothing open.
THEOREM InitHolds == Init => IInv
BY DEF Init, IInv, StreamTypeOK, Protocol, Chain, Listener, Stopped, Ended,
       HeardInOrder, Buffers, Empty

\* The lengths of the queues a source can have.
LEMMA QueueLengths ==
  Len(<< >>) = 0 /\ Len(<<0, 1>>) = 2 /\ Len(<<1, 0>>) = 2
OBVIOUS

\* The numbers of buffers queued, played and to be refilled.
LEMMA ProtocolTypes ==
  ASSUME StreamTypeOK, Protocol
  PROVE  /\ proc \in {0, 1, 2} /\ todo \in {0, 1, 2} /\ todo <= proc
         /\ proc > 0 => queue # << >>
         /\ Len(queue) = IF queue = << >> THEN 0 ELSE 2
<1>1. queue = << >> \/ queue = <<0, 1>> \/ queue = <<1, 0>>
  BY DEF Protocol
<1>2. <<0, 1>> # << >> /\ <<1, 0>> # << >>
  BY QueueLengths
<1>3. Len(queue) = IF queue = << >> THEN 0 ELSE 2
  BY <1>1, <1>2, QueueLengths
<1>4. proc \in 0..2 /\ todo \in 0..proc
  BY <1>3 DEF StreamTypeOK
<1>5. proc > 0 => queue # << >>
  BY <1>3 DEF StreamTypeOK
<1> QED  BY <1>3, <1>4, <1>5

\* Close leaves nothing of the file or the source.
LEMMA CloseKeeps ==
  ASSUME IInv, Close  PROVE IInv'
<1> USE DEF Close, Idle, Unheard, update, Empty
<1>1. StreamTypeOK'
  <2>1. data' \in [Buffers -> [from : 0..len', to : 0..len']]
    OBVIOUS
  <2>2. (Len(queue) \in {0, 2} /\ proc \in 0..Len(queue))'
    BY QueueLengths
  <2>3. (pc \in {"idle", "refill"} /\ todo \in 0..proc)'
    BY DEF IInv, Protocol
  <2>4. (len \in Lengths \cup {0} /\ pos \in 0..len /\ expect \in 0..len)'
    OBVIOUS
  <2> QED  BY <2>1, <2>2, <2>3, <2>4 DEF IInv, StreamTypeOK
<1>2. Protocol'
  BY QueueLengths, ProtocolTypes DEF IInv, StreamTypeOK, Protocol
<1>3. Chain'
  BY DEF IInv, StreamTypeOK, Protocol, Chain
<1>4. Listener'
  BY ProtocolTypes DEF IInv, StreamTypeOK, Protocol, Chain, Listener
<1>5. (Stopped /\ Ended /\ HeardInOrder)'
  BY DEF IInv, StreamTypeOK, Protocol, Listener, Stopped, Ended, HeardInOrder
<1> QED  BY <1>1, <1>2, <1>3, <1>4, <1>5 DEF IInv

\* Load starts with an empty queue at the start of the file.
LEMMA LoadKeeps ==
  ASSUME IInv, NEW n \in Lengths, Load(n)  PROVE IInv'
<1> USE DEF Load, Idle, Unheard, update, Empty
<1>1. StreamTypeOK'
  <2>1. data' \in [Buffers -> [from : 0..len', to : 0..len']]
    BY SndStreamAssumption
  <2>2. (Len(queue) \in {0, 2} /\ proc \in 0..Len(queue))'
    BY QueueLengths
  <2>3. (pc \in {"idle", "refill"} /\ todo \in 0..proc)'
    BY DEF IInv, Protocol
  <2>4. (len \in Lengths \cup {0} /\ pos \in 0..len /\ expect \in 0..len)'
    BY SndStreamAssumption
  <2> QED  BY <2>1, <2>2, <2>3, <2>4 DEF IInv, StreamTypeOK
<1>2. Protocol'
  BY QueueLengths, ProtocolTypes DEF IInv, StreamTypeOK, Protocol
<1>3. Chain'
  BY DEF IInv, StreamTypeOK, Protocol, Chain
<1>4. Listener'
  BY SameIsEquivalence DEF IInv, StreamTypeOK, Protocol, Chain, Listener
<1>5. (Stopped /\ Ended /\ HeardInOrder)'
  BY DEF IInv, StreamTypeOK, Protocol, Listener, Stopped, Ended, HeardInOrder
<1> QED  BY <1>1, <1>2, <1>3, <1>4, <1>5 DEF IInv

\* Pause changes the state of the source alone.
LEMMA PauseKeeps ==
  ASSUME IInv, Pause  PROVE IInv'
<1> USE DEF Pause, Idle, update, file, history
<1>1. StreamTypeOK'
  BY QueueLengths, ProtocolTypes DEF IInv, StreamTypeOK, Protocol, Buffers
<1>2. Protocol'
  BY QueueLengths, ProtocolTypes DEF IInv, StreamTypeOK, Protocol
<1>3. Chain'
  BY DEF IInv, StreamTypeOK, Protocol, Chain
<1>4. Listener'
  BY ProtocolTypes DEF IInv, StreamTypeOK, Protocol, Chain, Listener
<1>5. (Stopped /\ Ended /\ HeardInOrder)'
  BY DEF IInv, StreamTypeOK, Protocol, Listener, Stopped, Ended, HeardInOrder
<1> QED  BY <1>1, <1>2, <1>3, <1>4, <1>5 DEF IInv

\* Stop takes both buffers off the queue and goes back to the start.
LEMMA StopKeeps ==
  ASSUME IInv, Stop  PROVE IInv'
<1> USE DEF Stop, Idle, Unheard, update, file
<1>1. StreamTypeOK'
  <2>1. (Len(queue) \in {0, 2} /\ proc \in 0..Len(queue))'
    BY QueueLengths
  <2>2. (pc \in {"idle", "refill"} /\ todo \in 0..proc)'
    BY DEF IInv, Protocol
  <2>3. 0 \in 0..len
    BY SndStreamAssumption DEF IInv, StreamTypeOK
  <2> QED  BY <2>1, <2>2, <2>3 DEF IInv, StreamTypeOK
<1>2. Protocol'
  BY QueueLengths, ProtocolTypes DEF IInv, StreamTypeOK, Protocol
<1>3. Chain'
  BY DEF IInv, StreamTypeOK, Protocol, Chain
<1>4. Listener'
  BY SameIsEquivalence DEF IInv, StreamTypeOK, Protocol, Chain, Listener
<1>5. (Stopped /\ Ended /\ HeardInOrder)'
  BY DEF IInv, StreamTypeOK, Protocol, Listener, Stopped, Ended, HeardInOrder
<1> QED  BY <1>1, <1>2, <1>3, <1>4, <1>5 DEF IInv

\* Update begins only while the stream plays and is not paused.
LEMMA CountProcessedKeeps ==
  ASSUME IInv, CountProcessed  PROVE IInv'
<1> USE DEF CountProcessed, Idle, source, file, history
<1>1. StreamTypeOK'
  BY QueueLengths, ProtocolTypes DEF IInv, StreamTypeOK, Protocol, Buffers
<1>2. Protocol'
  BY QueueLengths, ProtocolTypes DEF IInv, StreamTypeOK, Protocol
<1>3. Chain'
  BY DEF IInv, StreamTypeOK, Protocol, Chain
<1>4. Listener'
  BY ProtocolTypes DEF IInv, StreamTypeOK, Protocol, Chain, Listener
<1>5. (Stopped /\ Ended /\ HeardInOrder)'
  BY DEF IInv, StreamTypeOK, Protocol, Listener, Stopped, Ended, HeardInOrder
<1> QED  BY <1>1, <1>2, <1>3, <1>4, <1>5 DEF IInv

\* Playing a source that ran out of buffers: one that has played none of its
\* queue is where the listener is, the other one plays something again, and only
\* an underrun has brought it there.
LEMMA Restarted ==
  ASSUME IInv, SourcePlay, src = "stopped", queue # << >>, ~fault,
         playing \/ pc = "refill",
         UNCHANGED <<open, len, playing, pos, data, todo, fault>>,
         paused' = FALSE, loop' \in BOOLEAN,
         pc' = "idle", todo = 0
  PROVE  IInv'
<1> USE DEF SourcePlay
<1>1. src' = "playing" /\ proc' = 0
  OBVIOUS
<1>2. underrun /\ underrun'
  BY DEF IInv, Stopped
<1>3. replayed' \in BOOLEAN /\ (replayed' <=> replayed \/ proc > 0)
  BY DEF IInv, StreamTypeOK
<1>4. StreamTypeOK'
  <2>1. (Len(queue) \in {0, 2} /\ proc \in 0..Len(queue) /\ todo \in 0..proc)'
    BY <1>1 DEF IInv, StreamTypeOK
  <2> QED  BY <1>1, <1>2, <1>3, <2>1 DEF IInv, StreamTypeOK
<1>8. Protocol'
  BY <1>1, ProtocolTypes DEF IInv, StreamTypeOK, Protocol
<1>5. ~replayed' => ~replayed /\ proc = 0
  BY <1>3, ProtocolTypes DEF IInv
<1>6. (Chain /\ Listener)'
  BY <1>1, <1>5 DEF IInv, Protocol, Chain, Listener
<1>7. (Stopped /\ Ended /\ HeardInOrder)'
  BY <1>1, <1>2, <1>5 DEF IInv, Protocol, Stopped, Ended, HeardInOrder
<1> QED  BY <1>4, <1>6, <1>7, <1>8 DEF IInv

\* Play of a paused stream goes on where the source is, or starts again a source
\* that ran out of buffers before the pause.
LEMMA ResumeKeeps ==
  ASSUME IInv, NEW l \in BOOLEAN, Resume(l)  PROVE IInv'
<1> USE DEF Resume, Idle, source, update, history
<1>1. CASE ~paused
  <2>1. StreamTypeOK' /\ Protocol'
    BY <1>1, ProtocolTypes DEF IInv, StreamTypeOK, Protocol
  <2>2. (Chain /\ Listener /\ Stopped /\ Ended /\ HeardInOrder)'
    BY <1>1 DEF IInv, Protocol, Chain, Listener, Stopped, Ended, HeardInOrder
  <2> QED  BY <2>1, <2>2 DEF IInv
<1>2. CASE paused
  <2>1. src \in {"paused", "stopped"} /\ queue # << >>
    BY <1>2 DEF IInv, StreamTypeOK, Protocol
  <2>2. src' = "playing" /\ UNCHANGED <<queue, expect, inOrder, underrun>>
    BY <1>2 DEF SourcePlay
  <2>3. CASE src = "paused"
    <3>1. UNCHANGED proc /\ (replayed' <=> replayed) /\ replayed' \in BOOLEAN
      BY <1>2, <2>3 DEF IInv, StreamTypeOK, SourcePlay
    <3>2. StreamTypeOK' /\ Protocol'
      BY <2>2, <2>3, <3>1, ProtocolTypes DEF IInv, StreamTypeOK, Protocol
    <3>3. (Chain /\ Listener /\ Stopped /\ Ended /\ HeardInOrder)'
      BY <2>2, <3>1 DEF IInv, Protocol, Chain, Listener, Stopped, Ended, HeardInOrder
    <3> QED  BY <3>2, <3>3 DEF IInv
  <2>4. CASE src = "stopped"
    <3>1. SourcePlay /\ ~fault /\ pc' = "idle" /\ todo = 0 /\ paused' = FALSE
          /\ loop' \in BOOLEAN
      BY <1>2 DEF IInv, Protocol
    <3> QED  BY <2>1, <2>4, <3>1, Restarted
  <2> QED  BY <2>1, <2>3, <2>4
<1> QED  BY <1>1, <1>2

\* The end of Update.
LEMMA RestartKeeps ==
  ASSUME IInv, Restart  PROVE IInv'
<1> USE DEF Restart, Idle, source, file, history
<1>1. src \in {"playing", "stopped"} /\ queue # << >> /\ ~fault /\ ~paused
  BY DEF IInv, Protocol
<1>2. CASE src = "stopped"
  <2>1. SourcePlay /\ paused' = FALSE /\ loop' \in BOOLEAN
    BY <1>1, <1>2 DEF IInv, StreamTypeOK
  <2> QED  BY <1>1, <1>2, <2>1, Restarted
<1>3. CASE src = "playing"
  <2>1. StreamTypeOK' /\ Protocol'
    BY <1>3, ProtocolTypes DEF IInv, StreamTypeOK, Protocol
  <2>2. (Chain /\ Listener /\ Stopped /\ Ended /\ HeardInOrder)'
    BY <1>3 DEF IInv, Protocol, Chain, Listener, Stopped, Ended, HeardInOrder
  <2> QED  BY <2>1, <2>2 DEF IInv
<1> QED  BY <1>1, <1>2, <1>3

\* What the listener hears next is data[queue[proc + 1]].
LEMMA DeviceKeeps ==
  ASSUME IInv, Device  PROVE IInv'
<1> DEFINE heard == data[queue[proc + 1]]
           last  == proc + 1 = 2
<1> USE DEF file, update
<1>1. open /\ ~fault /\ queue # << >> /\ src = "playing" /\ proc \in {0, 1} /\ Len(queue) = 2
  BY ProtocolTypes DEF Device, IInv, StreamTypeOK, Protocol
<1>2. /\ queue[1] \in Buffers /\ queue[2] \in Buffers
      /\ heard \in [from : 0..len, to : 0..len]
  BY <1>1 DEF IInv, StreamTypeOK, Protocol, Buffers
<1>3. /\ proc' = proc + 1 /\ src' = IF last THEN "stopped" ELSE "playing"
      /\ expect' = heard.to /\ expect' \in 0..len
      /\ UNCHANGED <<open, len, loop, playing, paused, pos, data, queue, pc, todo, fault, replayed>>
  BY <1>1, <1>2 DEF Device
<1>4. /\ inOrder' \in BOOLEAN
      /\ inOrder' <=> inOrder /\ Same(len, heard.from, expect)
  BY <1>1 DEF Device, Same, IInv, StreamTypeOK
<1>5. /\ underrun' \in BOOLEAN
      /\ underrun' <=> underrun \/ (last /\ (playing \/ pc = "refill"))
  BY <1>1 DEF Device, IInv, StreamTypeOK
<1>6. StreamTypeOK'
  <2>1. (Len(queue) \in {0, 2} /\ proc \in 0..Len(queue))'
    <3>1. queue' = queue /\ proc' \in {1, 2}
      BY <1>1, <1>3
    <3>2. Len(queue') = 2
      BY <1>1, <3>1
    <3> QED  BY <3>1, <3>2
  <2>2. todo' \in 0..proc'
    BY <1>1, <1>3 DEF IInv, StreamTypeOK
  <2>3. src' \in {"playing", "stopped"}
    BY <1>3
  <2> HIDE DEF heard, last
  <2> QED  BY <1>3, <1>4, <1>5, <2>1, <2>2, <2>3 DEF IInv, StreamTypeOK
<1>7. Protocol'
  BY <1>1, <1>3 DEF IInv, StreamTypeOK, Protocol
<1>8. (Chain /\ Ended /\ Stopped)'
  BY <1>1, <1>3, <1>5 DEF IInv, Chain, Ended, Stopped
<1>9. ~replayed => Same(len, heard.from, expect)
  BY <1>1 DEF IInv, Listener
<1>10. HeardInOrder'
  BY <1>3, <1>4, <1>5, <1>9 DEF IInv, HeardInOrder
<1>11. Listener'
  <2>1. CASE proc = 0
    <3>1. Same(len, data[queue[2]].from, data[queue[1]].to)
      BY <1>1, SameIsEquivalence DEF IInv, Chain
    <3> QED  BY <2>1, <3>1, <1>1, <1>3 DEF Listener
  <2>2. CASE proc = 1
    <3>1. Same(len, data[queue[2]].to, data[queue[2]].to)
      BY SameIsEquivalence
    <3> QED  BY <2>2, <3>1, <1>1, <1>3 DEF Listener
  <2> QED  BY <1>1, <2>1, <2>2
<1> QED  BY <1>6, <1>7, <1>8, <1>10, <1>11 DEF IInv

\* The round of Update puts a buffer behind one other.
LEMMA AppendToOne ==
  ASSUME NEW x \in Nat, NEW y \in Nat
  PROVE  Append(<<x>>, y) = <<x, y>>
<1>1. <<x>> \in Seq(Nat) /\ <<x, y>> \in Seq(Nat) /\ Len(<<x>>) = 1 /\ Len(<<x, y>>) = 2
  OBVIOUS
<1>2. /\ Append(<<x>>, y) \in Seq(Nat) /\ Len(Append(<<x>>, y)) = 2
      /\ Append(<<x>>, y)[1] = x /\ Append(<<x>>, y)[2] = y
  BY <1>1, AppendProperties
<1>3. \A i \in 1..2 : Append(<<x>>, y)[i] = <<x, y>>[i]
  <2>1. \A i \in 1..2 : i = 1 \/ i = 2
    OBVIOUS
  <2>2. <<x, y>>[1] = x /\ <<x, y>>[2] = y
    OBVIOUS
  <2> QED  BY <1>2, <2>1, <2>2
<1> QED  BY <1>1, <1>2, <1>3, SeqEqual

\* The two buffers change places.
LEMMA QueueRotates ==
  ASSUME queue \in {<<0, 1>>, <<1, 0>>}
  PROVE  /\ queue[1] \in Buffers /\ queue[2] \in Buffers /\ queue[1] # queue[2]
         /\ Head(queue) = queue[1]
         /\ Append(Tail(queue), queue[1]) = <<queue[2], queue[1]>>
         /\ <<queue[2], queue[1]>> \in {<<0, 1>>, <<1, 0>>}
<1>1. CASE queue = <<0, 1>>
  <2>1. Tail(queue) = <<1>> /\ Head(queue) = 0
    BY <1>1
  <2>2. Append(<<1>>, 0) = <<1, 0>>
    BY AppendToOne
  <2>3. queue[1] = 0 /\ queue[2] = 1
    BY <1>1
  <2> QED  BY <1>1, <2>1, <2>2, <2>3 DEF Buffers
<1>2. CASE queue = <<1, 0>>
  <2>1. Tail(queue) = <<0>> /\ Head(queue) = 1
    BY <1>2
  <2>2. Append(<<0>>, 1) = <<0, 1>>
    BY AppendToOne
  <2>3. queue[1] = 1 /\ queue[2] = 0
    BY <1>2
  <2> QED  BY <1>2, <2>1, <2>2, <2>3 DEF Buffers
<1> QED  BY <1>1, <1>2

\* The first buffer is refilled from where the file was read to, which is the end
\* of the other one, and goes behind it.
LEMMA RefillKeeps ==
  ASSUME IInv, Refill  PROVE IInv'
<1> DEFINE f == Filled(pos, loop)
           a == queue[1]
           b == queue[2]
<1>1. /\ open /\ playing /\ ~fault /\ ~paused /\ pc = "refill" /\ queue # << >>
      /\ len \in Nat \ {0} /\ pos \in 0..len /\ loop \in BOOLEAN
      /\ proc \in {1, 2} /\ todo \in {1, 2} /\ todo <= proc
  BY ProtocolTypes, SndStreamAssumption DEF Refill, IInv, StreamTypeOK, Protocol
<1>2. queue \in {<<0, 1>>, <<1, 0>>}
  BY <1>1 DEF IInv, Protocol
<1>3. /\ Part(f) = [from |-> f.from, to |-> f.to]
      /\ Part(f) \in [from : 0..len, to : 0..len]
      /\ f.from \in 0..len /\ f.to \in 0..len
      /\ Same(len, f.from, pos)
      /\ f.full \in BOOLEAN
      /\ ~f.full => f.to = len
  BY <1>1, FilledFollows
<1>4. /\ data' = [data EXCEPT ![a] = Part(f)]
      /\ queue' = <<b, a>>
      /\ pos' = f.to /\ proc' = proc - 1 /\ playing' = f.full
      /\ todo' = IF f.full THEN todo - 1 ELSE 0
      /\ UNCHANGED <<open, len, loop, paused, src, pc, fault, expect, inOrder, underrun, replayed>>
  BY <1>2, QueueRotates DEF Refill, file, history
<1> HIDE DEF f
<1>5. /\ queue'[1] = b /\ queue'[2] = a /\ queue' # << >> /\ Len(queue') = 2
      /\ queue' \in {<<0, 1>>, <<1, 0>>}
  BY <1>2, <1>4, QueueRotates, QueueLengths
<1>6. /\ data' \in [Buffers -> [from : 0..len, to : 0..len]]
      /\ data'[a].from = f.from /\ data'[a].to = f.to
      /\ data'[b] = data[b]
  BY <1>2, <1>3, <1>4, QueueRotates DEF IInv, StreamTypeOK
<1>7. StreamTypeOK'
  <2>1. (Len(queue) \in {0, 2} /\ proc \in 0..Len(queue))'
    BY <1>1, <1>4, <1>5
  <2>2. todo' \in 0..proc'
    BY <1>1, <1>4
  <2> QED  BY <1>3, <1>4, <1>6, <2>1, <2>2 DEF IInv, StreamTypeOK
<1>8. Protocol'
  BY <1>1, <1>3, <1>4, <1>5 DEF IInv, StreamTypeOK, Protocol
<1>9. Same(len, data[b].to, f.from)
  BY <1>1, <1>3, SameIsEquivalence DEF IInv, Chain
<1>10. Chain'
  <2>1. Same(len, f.to, f.to)
    BY SameIsEquivalence
  <2> QED  BY <1>4, <1>5, <1>6, <1>9, <2>1 DEF Chain
<1>11. Listener'
  <2>1. CASE proc = 1
    <3>1. proc' = 0
      BY <1>4, <2>1
    <3> QED  BY <1>1, <1>4, <1>5, <1>6, <2>1, <3>1 DEF IInv, Listener
  <2>2. CASE proc = 2
    <3>1. proc' = 1
      BY <1>4, <2>2
    <3>2. ~replayed => Same(len, data[b].to, expect)
      BY <1>1, <2>2 DEF IInv, Listener
    <3>3. ~replayed => Same(len, f.from, expect)
      BY <1>9, <3>2, SameIsEquivalence
    <3> QED  BY <1>4, <1>5, <1>6, <3>1, <3>3 DEF Listener
  <2> QED  BY <1>1, <2>1, <2>2
<1>12. (Stopped /\ Ended /\ HeardInOrder)'
  BY <1>1, <1>3, <1>4 DEF IInv, Stopped, Ended, HeardInOrder
<1> QED  BY <1>7, <1>8, <1>10, <1>11, <1>12 DEF IInv

\* Play fills both buffers in order, or finds the end of the file.
LEMMA StartKeeps ==
  ASSUME IInv, NEW l \in BOOLEAN, Start(l)  PROVE IInv'
<1> DEFINE first  == Filled(pos, l)
           second == Filled(first.to, l)
<1>1. /\ open /\ ~playing /\ ~fault /\ pc = "idle" /\ todo = 0
      /\ len \in Nat \ {0} /\ pos \in 0..len
  BY SndStreamAssumption DEF Start, Idle, IInv, StreamTypeOK, Protocol
<1>2. /\ Part(first) = [from |-> first.from, to |-> first.to]
      /\ Part(first) \in [from : 0..len, to : 0..len]
      /\ first.from \in 0..len /\ first.to \in 0..len
      /\ Same(len, first.from, pos)
      /\ first.full \in BOOLEAN
      /\ ~first.full => first.to = len
  BY <1>1, FilledFollows
<1>3. /\ Part(second) = [from |-> second.from, to |-> second.to]
      /\ Part(second) \in [from : 0..len, to : 0..len]
      /\ second.from \in 0..len /\ second.to \in 0..len
      /\ Same(len, second.from, first.to)
      /\ second.full \in BOOLEAN
      /\ ~second.full => second.to = len
  BY <1>1, <1>2, FilledFollows
<1>4. /\ loop' = l /\ paused' = FALSE
      /\ playing' = (first.full /\ second.full)
      /\ pos' = IF first.full THEN second.to ELSE first.to
      /\ queue = << >> => data' = [data EXCEPT ![0] = Part(first),
                                     ![1] = IF first.full THEN Part(second) ELSE @]
      /\ queue # << >> => data' = data
      /\ ~playing' => UNCHANGED <<queue, proc, src, fault>>
      /\ playing' => /\ queue' = IF queue = << >> THEN <<0, 1>> ELSE queue
                     /\ fault' = (queue # << >>)
                     /\ src' = "playing" /\ proc' = 0
      /\ UNCHANGED <<open, len, pc, todo, expect, inOrder, underrun, replayed>>
  BY DEF Start, source, update, history
<1> HIDE DEF first, second
<1>5. playing' \in BOOLEAN /\ pos' \in 0..len /\ data' \in [Buffers -> [from : 0..len, to : 0..len]]
  BY <1>2, <1>3, <1>4 DEF IInv, StreamTypeOK, Buffers
<1>6. CASE ~playing'
  <2>1. pos' = len /\ UNCHANGED <<queue, proc, src, fault>>
    BY <1>2, <1>3, <1>4, <1>6
  <2>2. StreamTypeOK'
    BY <1>4, <1>5, <2>1, ZenonT(60) DEF IInv, StreamTypeOK
  <2>3. Protocol'
    BY <1>1, <1>4, <1>6, <2>1 DEF IInv, Protocol
  <2>4. Chain' /\ Listener'
    BY <1>1, <1>4, <2>1 DEF IInv, Chain, Listener, Ended
  <2>5. (Stopped /\ Ended /\ HeardInOrder)'
    BY <1>1, <1>4, <1>6, <2>1 DEF IInv, Stopped, Ended, HeardInOrder
  <2> QED  BY <2>2, <2>3, <2>4, <2>5 DEF IInv
<1>7. CASE playing' /\ queue # << >>
  <2>1. queue' = queue /\ fault' = TRUE /\ src' = "playing" /\ proc' = 0
    BY <1>4, <1>7
  <2>2. StreamTypeOK'
    <3>1. (Len(queue) \in {0, 2} /\ proc \in 0..Len(queue) /\ todo \in 0..proc)'
      BY <1>1, <1>4, <2>1 DEF IInv, StreamTypeOK
    <3> QED  BY <1>4, <1>5, <2>1, <3>1 DEF IInv, StreamTypeOK
  <2>3. Protocol'
    BY <1>1, <1>4, <1>7, <2>1 DEF IInv, Protocol
  <2>4. (Chain /\ Listener /\ Stopped /\ Ended /\ HeardInOrder)'
    BY <1>4, <1>7, <2>1 DEF IInv, Chain, Listener, Stopped, Ended, HeardInOrder
  <2> QED  BY <2>2, <2>3, <2>4 DEF IInv
<1>8. CASE playing' /\ queue = << >>
  <2>1. /\ queue' = <<0, 1>> /\ fault' = FALSE /\ src' = "playing" /\ proc' = 0
        /\ first.full /\ pos' = second.to
    BY <1>2, <1>3, <1>4, <1>8
  <2>2. /\ queue'[1] = 0 /\ queue'[2] = 1 /\ queue' # << >> /\ Len(queue') = 2
    BY <2>1, QueueLengths
  <2>3. data'[0] = Part(first) /\ data'[1] = Part(second)
    BY <1>4, <1>8, <2>1 DEF IInv, StreamTypeOK, Buffers
  <2>4. StreamTypeOK'
    <3>1. (Len(queue) \in {0, 2} /\ proc \in 0..Len(queue) /\ todo \in 0..proc)'
      BY <1>1, <1>4, <2>1, <2>2
    <3> QED  BY <1>4, <1>5, <2>1, <3>1 DEF IInv, StreamTypeOK
  <2>5. Protocol'
    BY <1>1, <1>4, <1>8, <2>1, <2>2 DEF IInv, Protocol
  <2>6. Chain'
    <3>1. Same(len, first.to, second.from) /\ Same(len, second.to, second.to)
      BY <1>3, SameIsEquivalence
    <3> QED  BY <1>2, <1>3, <1>4, <2>1, <2>2, <2>3, <3>1 DEF Chain
  <2>7. Listener'
    <3>1. pos \in {0, len} /\ expect = 0
      BY <1>1, <1>8 DEF IInv, Listener
    <3>2. Same(len, pos, 0)
      BY <1>1, <3>1, EndIsStart
    <3>3. Same(len, first.from, expect)
      BY <1>2, <3>1, <3>2, SameIsEquivalence
    <3> QED  BY <1>2, <1>4, <2>1, <2>2, <2>3, <3>3 DEF Listener
  <2>8. (Stopped /\ Ended /\ HeardInOrder)'
    BY <1>4, <1>8, <2>1 DEF IInv, Stopped, Ended, HeardInOrder
  <2> QED  BY <2>4, <2>5, <2>6, <2>7, <2>8 DEF IInv
<1> QED  BY <1>6, <1>7, <1>8

-----------------------------------------------------------------------------
\* Every step of the stream and of the device keeps the invariant.
THEOREM StepHolds == IInv /\ [Next]_vars => IInv'
<1> SUFFICES ASSUME IInv, [Next]_vars  PROVE IInv'
  OBVIOUS
<1>1. CASE UNCHANGED vars
  BY <1>1 DEF vars, file, source, update, history, IInv, StreamTypeOK, Protocol, Chain,
              Listener, Stopped, Ended, HeardInOrder
<1>2. CASE Next
  BY <1>2, LoadKeeps, ResumeKeeps, StartKeeps, CloseKeeps, StopKeeps, PauseKeeps,
     CountProcessedKeeps, RefillKeeps, RestartKeeps, DeviceKeeps DEF Next, Update
<1> QED  BY <1>1, <1>2

\* The invariant holds of every stream at all times.
THEOREM Invariance == Spec => []IInv
BY InitHolds, StepHolds, PTL DEF Spec

\* A stream never asks for a part of the file beyond its end, and never counts
\* more played buffers than it has queued.
THEOREM StreamTypeCorrect == Spec => []StreamTypeOK
<1>1. IInv => StreamTypeOK
  BY DEF IInv
<1> QED  BY <1>1, Invariance, PTL

\* For every buffer size and every file: the double buffer of a playing stream
\* holds the parts of the file that follow each other, up to where it was read.
THEOREM BuffersFollowFile == Spec => []QueueFollowsFile
<1>1. IInv => QueueFollowsFile
  BY DEF IInv, Protocol, Chain, Ended, Same, QueueFollowsFile
<1> QED  BY <1>1, Invariance, PTL

\* For every buffer size and every file, whatever the device does between the
\* steps of Update: nothing is heard twice or left out without an underrun.
THEOREM FileIsHeard == Spec => []HeardInOrder
<1>1. IInv => HeardInOrder
  BY DEF IInv
<1> QED  BY <1>1, Invariance, PTL

-----------------------------------------------------------------------------
(* The partition table: the walks along its chains.                        *)

\* The files a table may hold: mounted under a name, and not skipped by FindFile.
Mountable(F) ==
  /\ \A f \in F : f.name \in MountNames /\ f.flags \notin {{"ARCHIVED"}, {"EMPTY"}}
  /\ Null \notin F

\* A chain is walked from its head along the links.
LEMMA WalkSteps ==
  ASSUME NEW F, NEW T \in Tables(F), NEW b \in Buckets
  PROVE  /\ Visited(T, b) \in [0..MaxSlots -> Slots \cup {Null}]
         /\ Visited(T, b)[0] = T.head[b]
         /\ \A i \in 1..MaxSlots :
              Visited(T, b)[i] = IF Visited(T, b)[i - 1] = Null THEN Null
                                 ELSE T.next[Visited(T, b)[i - 1]]
<1> DEFINE P == Slots \cup {Null}
           n == MaxSlots
           Follows(f) == f = [i \in 0..n |-> IF i = 0 THEN T.head[b]
                                             ELSE IF f[i - 1] = Null THEN Null ELSE T.next[f[i - 1]]]
           op == [x \in P \X (1..n) |-> IF x[1] = Null THEN Null ELSE T.next[x[1]]]
           w == T.head[b]
<1>1. n \in Nat /\ w \in P /\ T.next \in [Slots -> P]
  BY PartitionTableAssumption DEF Tables
<1>2. op \in [P \X (1..n) -> P]
  BY <1>1
<1>3. \A x \in P, i \in 1..n : op[<<x, i>>] = IF x = Null THEN Null ELSE T.next[x]
  OBVIOUS
<1> HIDE DEF P, n, op, w
<1>4. PICK g : Iterates(g, P, w, n, op)
  <2> HIDE DEF Follows
  <2> QED  BY <1>1, <1>2, Iteration
<1>5. ASSUME NEW i \in 0..n PROVE g[i] = IF i = 0 THEN T.head[b]
                                          ELSE IF g[i - 1] = Null THEN Null ELSE T.next[g[i - 1]]
  <2>1. CASE i = 0
    BY <1>4, <2>1 DEF w, Iterates
  <2>2. CASE i # 0
    <3>1. i \in 1..n /\ i - 1 \in 0..n
      BY <1>1, <2>2
    <3>2. g[i] = op[<<g[i - 1], i>>] /\ g[i - 1] \in P
      BY <1>4, <2>2, <3>1 DEF Iterates
    <3> QED  BY <1>3, <2>2, <3>1, <3>2
  <2> QED  BY <2>1, <2>2
<1>6. Follows(g)
  <2>1. g = [i \in 0..n |-> g[i]]
    BY <1>4 DEF Iterates
  <2> QED  BY <1>5, <2>1
<1>7. Visited(T, b) = CHOOSE f : Follows(f)
  BY DEF Visited, n
<1>8. Follows(Visited(T, b))
  <2> HIDE DEF Follows
  <2> QED  BY ONLY <1>6, <1>7
<1> DEFINE v == Visited(T, b)
<1> HIDE DEF v
<1>9. Follows(v)
  BY <1>8 DEF v
<1>10. \A i \in 0..n : v[i] = IF i = 0 THEN T.head[b]
                              ELSE IF v[i - 1] = Null THEN Null ELSE T.next[v[i - 1]]
  BY <1>9, Zenon
<1>11. DOMAIN v = 0..n /\ v = [i \in 0..n |-> v[i]]
  BY <1>9, Zenon
<1> HIDE DEF Follows
<1>12. v[0] = T.head[b] /\ \A i \in 1..n : v[i] = IF v[i - 1] = Null THEN Null ELSE T.next[v[i - 1]]
  <2>1. 0 \in 0..n /\ \A i \in 1..n : i \in 0..n /\ i # 0
    BY <1>1
  <2> QED  BY <1>10, <2>1
<1> DEFINE S == {i \in 0..n : v[i] \in P}
<1>13. 0 \in S
  BY <1>1, <1>12 DEF w
<1>14. ASSUME NEW i \in 1..n, i - 1 \in S PROVE i \in S
  BY <1>1, <1>12, <1>14 DEF P
<1>15. 0..n \subseteq S
  <2> HIDE DEF S
  <2> QED  BY <1>1, <1>13, <1>14, IntervalInduction
<1>16. v \in [0..n -> P]
  BY <1>11, <1>15
<1> QED  BY <1>12, <1>16 DEF v, n, P

-----------------------------------------------------------------------------
(* The shape of a table that has handed out no slot twice.                  *)

\* The slots that are in use: they are handed out from the last one down.
Used(T) == {s \in Slots : T.max - T.handed <= s /\ s < T.max}

NameAt(T, s) == T.file[s].name
Bucket(T, s) == Hash(T.file[s].name)

\* m_UnusedFiles holds the others, in their order.
Stacked(T) ==
  /\ \A s \in 1..T.max - 1 : T.nextFree[s] = s - 1
  /\ T.handed < T.max => T.firstFree = T.max - 1 - T.handed

\* Every slot in use is linked from the head of its bucket or from a slot of its
\* bucket, which was taken before it, and its name is nobody else's.
Chained(T) ==
  /\ \A s \in Used(T) : T.file[s] # EmptySlot
  /\ \A b \in Buckets : T.head[b] # Null => T.head[b] \in Used(T) /\ Bucket(T, T.head[b]) = b
  /\ \A s \in Used(T) : T.next[s] # Null =>
       T.next[s] \in Used(T) /\ T.next[s] < s /\ Bucket(T, T.next[s]) = Bucket(T, s)
  /\ \A s \in Used(T) : T.head[Bucket(T, s)] = s \/ \E t \in Used(T) : T.next[t] = s
  /\ \A s, t \in Used(T) : NameAt(T, s) = NameAt(T, t) => s = t

Shaped(T) == T.handed <= T.max /\ Stacked(T) /\ Chained(T)

\* A slot in use holds a file that is mounted under a name.
LEMMA UsedSlots ==
  ASSUME NEW F, Mountable(F), NEW T \in Tables(F), Shaped(T), NEW s \in Used(T)
  PROVE  /\ s \in Slots /\ s \in 0..T.max - 1 /\ s # Null
         /\ T.file[s] \in F /\ NameAt(T, s) \in MountNames /\ Bucket(T, s) \in Buckets
<1>1. s \in Slots /\ T.max \in 1..MaxSlots /\ MaxSlots \in Nat /\ Null \notin Slots
  BY PartitionTableAssumption DEF Used, Tables, Slots
<1>2. T.file[s] \in F
  BY <1>1 DEF Shaped, Chained, Tables
<1> QED  BY <1>1, <1>2, PartitionTableAssumption DEF Mountable, NameAt, Bucket, Used, Slots

\* The walk goes down through slots of its bucket.
LEMMA ShapedWalk ==
  ASSUME NEW F, Mountable(F), NEW T \in Tables(F), Shaped(T), NEW b \in Buckets,
         NEW i \in 0..MaxSlots
  PROVE  LET s == Visited(T, b)[i]
         IN  s = Null \/ (s \in Used(T) /\ Bucket(T, s) = b /\ s + i <= T.max - 1)
<1> DEFINE v == Visited(T, b)
           Down(j) == v[j] = Null \/ (v[j] \in Used(T) /\ Bucket(T, v[j]) = b /\ v[j] + j <= T.max - 1)
           S == {j \in 0..MaxSlots : Down(j)}
<1>1. MaxSlots \in Nat /\ T.max \in 1..MaxSlots
  BY PartitionTableAssumption DEF Tables
<1>2. /\ v[0] = T.head[b]
      /\ \A j \in 1..MaxSlots : v[j] = IF v[j - 1] = Null THEN Null ELSE T.next[v[j - 1]]
  BY WalkSteps
<1> HIDE DEF v
<1>3. \A s \in Used(T) : s \in 0..T.max - 1
  BY UsedSlots
<1>4. 0 \in S
  BY <1>1, <1>2, <1>3 DEF Shaped, Chained
<1>5. ASSUME NEW j \in 1..MaxSlots, j - 1 \in S PROVE j \in S
  <2>1. Down(j - 1)
    BY <1>5
  <2>2. CASE v[j - 1] = Null
    BY <1>2, <2>2
  <2>3. CASE v[j - 1] # Null
    <3> DEFINE s == v[j - 1]
    <3>1. s \in Used(T) /\ Bucket(T, s) = b /\ s + (j - 1) <= T.max - 1 /\ v[j] = T.next[s]
      BY <1>2, <2>1, <2>3
    <3> HIDE DEF s
    <3>2. T.next[s] = Null \/ (T.next[s] \in Used(T) /\ T.next[s] < s /\ Bucket(T, T.next[s]) = b)
      BY <3>1 DEF Shaped, Chained
    <3>3. T.next[s] = Null \/ T.next[s] + j <= T.max - 1
      BY <1>1, <1>3, <3>1, <3>2
    <3> QED  BY <3>1, <3>2, <3>3
  <2> QED  BY <2>2, <2>3
<1>6. 0..MaxSlots \subseteq S
  <2> HIDE DEF S
  <2> QED  BY <1>1, <1>4, <1>5, IntervalInduction
<1> QED  BY <1>6 DEF v

\* Every chain ends.
LEMMA ShapedEnds ==
  ASSUME NEW F, Mountable(F), NEW T \in Tables(F), Shaped(T), NEW b \in Buckets
  PROVE  EndsWell(T, b)
<1>1. MaxSlots \in Nat /\ T.max \in 1..MaxSlots /\ T.max \in 0..MaxSlots
  BY PartitionTableAssumption DEF Tables
<1> DEFINE s == Visited(T, b)[T.max]
<1>2. s = Null \/ (s \in Used(T) /\ s + T.max <= T.max - 1)
  BY <1>1, ShapedWalk
<1> HIDE DEF s
<1>3. s = Null
  BY <1>1, <1>2, UsedSlots
<1> QED  BY <1>3 DEF EndsWell, s

\* Every slot in use is met on the chain of its name.
LEMMA ShapedVisits ==
  ASSUME NEW F, Mountable(F), NEW T \in Tables(F), Shaped(T), NEW s \in Used(T)
  PROVE  \E i \in 0..T.max - 1 : Visited(T, Bucket(T, s))[i] = s
<1> DEFINE v(t) == Visited(T, Bucket(T, t))
           Met(t) == \E i \in 0..T.max - 1 : v(t)[i] = t
           S == {j \in 0..T.max - 1 : T.max - 1 - j \in Used(T) => Met(T.max - 1 - j)}
           n == T.max - 1
<1>1. MaxSlots \in Nat /\ T.max \in 1..MaxSlots /\ n \in Nat
  BY PartitionTableAssumption DEF Tables
<1>2. ASSUME NEW t \in Used(T), T.head[Bucket(T, t)] = t PROVE Met(t)
  <2>1. v(t)[0] = t
    BY <1>2, WalkSteps, UsedSlots
  <2> QED  BY <1>1, <2>1
<1>3. ASSUME NEW t \in Used(T), NEW u \in Used(T), T.next[u] = t, Met(u) PROVE Met(t)
  <2>1. PICK i \in 0..T.max - 1 : v(u)[i] = u
    BY <1>3
  <2>2. t # Null /\ u # Null /\ Bucket(T, u) \in Buckets
    BY UsedSlots
  <2>3. Bucket(T, t) = Bucket(T, u)
    BY <1>3, <2>2 DEF Shaped, Chained
  <2>4. i + 1 \in 1..MaxSlots /\ (i + 1) - 1 = i
    BY <1>1
  <2>5. v(u)[i + 1] = t
    <3>1. v(u)[i + 1] = IF v(u)[(i + 1) - 1] = Null THEN Null ELSE T.next[v(u)[(i + 1) - 1]]
      BY <2>2, <2>4, WalkSteps
    <3> QED  BY <1>3, <2>1, <2>2, <2>4, <3>1
  <2>6. t + (i + 1) <= T.max - 1
    BY <2>2, <2>4, <2>5, ShapedWalk
  <2>7. t \in 0..T.max - 1
    BY UsedSlots
  <2>8. i + 1 \in 0..T.max - 1
    BY <1>1, <2>6, <2>7
  <2> QED  BY <2>3, <2>5, <2>8
<1>4. \A t \in Used(T) : t \in 0..n
  BY UsedSlots
<1>5. \A t \in Used(T) : T.head[Bucket(T, t)] = t \/ \E u \in Used(T) : T.next[u] = t /\ t < u
  <2>1. \A t \in Used(T) : T.head[Bucket(T, t)] = t \/ \E u \in Used(T) : T.next[u] = t
    BY DEF Shaped, Chained
  <2>2. \A t, u \in Used(T) : T.next[u] = t => t < u
    BY UsedSlots DEF Shaped, Chained
  <2> QED  BY <2>1, <2>2
<1> DEFINE All(j) == \A t \in Used(T) : n - j <= t => Met(t)
           R == {j \in 0..n : All(j)}
<1>6. 0 \in R
  <2>1. SUFFICES ASSUME NEW t \in Used(T), n - 0 <= t PROVE Met(t)
    BY <1>1
  <2>2. ~\E u \in Used(T) : t < u
    BY <1>1, <1>4, <2>1
  <2> HIDE DEF Met
  <2> QED  BY <1>2, <1>5, <2>2
<1>7. ASSUME NEW j \in 1..n, j - 1 \in R PROVE j \in R
  <2>1. SUFFICES ASSUME NEW t \in Used(T), n - j <= t PROVE Met(t)
    OBVIOUS
  <2>2. All(j - 1)
    BY <1>7
  <2> HIDE DEF Met
  <2>3. ASSUME NEW u \in Used(T), t < u PROVE Met(u)
    <3>1. t \in 0..n /\ u \in 0..n
      BY <1>4
    <3>2. n - (j - 1) <= u
      BY <1>1, <2>1, <2>3, <3>1
    <3> QED  BY <2>2, <3>2
  <2> QED  BY <1>2, <1>3, <1>5, <2>3
<1>8. 0..n \subseteq R
  <2> HIDE DEF R
  <2> QED  BY <1>1, <1>6, <1>7, IntervalInduction
<1>9. n \in R /\ n - n <= s
  BY <1>1, <1>4, <1>8
<1> QED  BY <1>9

-----------------------------------------------------------------------------
(* Finding a name.                                                         *)

\* Where a name is met there is a file of that name.
LEMMA MetFiles ==
  ASSUME NEW F, Mountable(F), NEW T \in Tables(F), NEW name \in MountNames,
         NEW i \in Meets(T, name)
  PROVE  LET s == Visited(T, Hash(name))[i]
         IN  i \in Nat /\ s \in Slots /\ s # Null /\ T.file[s] \in F /\ NameAt(T, s) = name
<1> DEFINE s == Visited(T, Hash(name))[i]
<1>1. /\ Hash(name) \in Buckets /\ name # Null /\ MaxSlots \in Nat /\ T.max \in 1..MaxSlots
      /\ Null \notin Slots
  BY PartitionTableAssumption DEF Tables, Slots
<1>2. i \in 0..T.max - 1 /\ i \in 0..MaxSlots /\ s # Null /\ T.file[s].name = name
  BY <1>1 DEF Meets
<1>3. s \in Slots
  BY <1>1, <1>2, WalkSteps
<1> HIDE DEF s
<1>4. T.file[s] \in F \cup {EmptySlot} /\ EmptySlot.name = Null
  BY <1>3 DEF Tables, EmptySlot
<1>5. T.file[s] \in F
  BY <1>1, <1>2, <1>4
<1> QED  BY <1>1, <1>2, <1>3, <1>5 DEF s, NameAt

\* The first of some places is one of them.
LEMMA FirstPlace ==
  ASSUME NEW F, Mountable(F), NEW T \in Tables(F), NEW name \in MountNames,
         NEW places \in SUBSET Meets(T, name)
  PROVE  \/ places = {} /\ FirstOf(T, name, places) = Null
         \/ \E i \in places : FirstOf(T, name, places) = Visited(T, Hash(name))[i]
<1>1. places \in SUBSET Nat
  BY MetFiles
<1>2. CASE places = {}
  BY <1>2 DEF FirstOf
<1>3. CASE places # {}
  <2> DEFINE Least(i) == \A j \in places : i <= j
             i == CHOOSE k \in places : Least(k)
  <2>1. \E k \in places : Least(k)
    BY <1>1, <1>3, LeastElement
  <2>2. i \in places
    BY <2>1
  <2>3. FirstOf(T, name, places) = Visited(T, Hash(name))[i]
    BY <1>3 DEF FirstOf
  <2> HIDE DEF i
  <2> QED  BY <2>2, <2>3
<1> QED  BY <1>2, <1>3

\* What is found has the name.
LEMMA FoundFiles ==
  ASSUME NEW F, Mountable(F), NEW T \in Tables(F), NEW name \in MountNames,
         NEW s \in {SlotNamed(T, name), FindSlot(T, name)}, s # Null
  PROVE  s \in Slots /\ T.file[s] \in F /\ NameAt(T, s) = name
<1> DEFINE v == Visited(T, Hash(name))
           some == {i \in Meets(T, name) : T.file[v[i]].flags \notin {{"ARCHIVED"}, {"EMPTY"}}}
<1>1. PICK places \in SUBSET Meets(T, name) : s = FirstOf(T, name, places)
  <2>1. some \in SUBSET Meets(T, name) /\ FindSlot(T, name) = FirstOf(T, name, some)
    BY DEF FindSlot
  <2>2. SlotNamed(T, name) = FirstOf(T, name, Meets(T, name))
    BY DEF SlotNamed
  <2> HIDE DEF some
  <2> QED  BY <2>1, <2>2
<1>2. PICK i \in Meets(T, name) : s = v[i]
  BY <1>1, FirstPlace
<1> QED  BY <1>2, MetFiles

\* FindFile answers a file of the name that is asked for, or nothing.
LEMMA FindFileTypes ==
  ASSUME NEW F, Mountable(F), NEW T \in Tables(F), NEW name \in MountNames
  PROVE  \/ FindFile(T, name) = Null
         \/ FindFile(T, name) \in F /\ FindFile(T, name).name = name
<1>1. CASE FindSlot(T, name) = Null
  BY <1>1 DEF FindFile
<1>2. CASE FindSlot(T, name) # Null
  <2> DEFINE s == FindSlot(T, name)
  <2>1. s # Null /\ FindFile(T, name) = T.file[s] /\ s \in {SlotNamed(T, name), FindSlot(T, name)}
    BY <1>2 DEF FindFile
  <2> HIDE DEF s
  <2> QED  BY <2>1, FoundFiles DEF NameAt
<1> QED  BY <1>1, <1>2

\* In a table that has its shape a name leads to the slot in use that has it.
LEMMA ShapedLookup ==
  ASSUME NEW F, Mountable(F), NEW T \in Tables(F), Shaped(T), NEW name \in MountNames
  PROVE  /\ ~Hangs(T, name)
         /\ \A s \in Used(T) : NameAt(T, s) = name =>
              SlotNamed(T, name) = s /\ FindSlot(T, name) = s /\ FindFile(T, name) = T.file[s]
         /\ (\A s \in Used(T) : NameAt(T, s) # name) =>
              SlotNamed(T, name) = Null /\ FindSlot(T, name) = Null /\ FindFile(T, name) = Null
<1> DEFINE b == Hash(name)
           v == Visited(T, b)
           some == {i \in Meets(T, name) : T.file[v[i]].flags \notin {{"ARCHIVED"}, {"EMPTY"}}}
<1>1. b \in Buckets /\ MaxSlots \in Nat /\ T.max \in 1..MaxSlots
  BY PartitionTableAssumption DEF Tables
<1>2. ~Hangs(T, name)
  BY <1>1, ShapedEnds DEF Hangs
<1>3. \A i \in Meets(T, name) : v[i] \in Used(T) /\ NameAt(T, v[i]) = name
  <2>1. SUFFICES ASSUME NEW i \in Meets(T, name) PROVE v[i] \in Used(T) /\ NameAt(T, v[i]) = name
    OBVIOUS
  <2>2. v[i] # Null /\ NameAt(T, v[i]) = name
    BY MetFiles
  <2>3. i \in 0..MaxSlots
    BY <1>1 DEF Meets
  <2> QED  BY <1>1, <2>2, <2>3, ShapedWalk
<1>4. some = Meets(T, name)
  <2>1. \A i \in Meets(T, name) : T.file[v[i]] \in F
    BY MetFiles
  <2> QED  BY <2>1 DEF Mountable
<1>5. /\ SlotNamed(T, name) = FirstOf(T, name, Meets(T, name))
      /\ FindSlot(T, name) = FirstOf(T, name, Meets(T, name))
  <2>1. FindSlot(T, name) = FirstOf(T, name, some)
    BY DEF FindSlot
  <2> QED  BY <1>4, <2>1 DEF SlotNamed
<1>6. ASSUME NEW s \in Used(T), NameAt(T, s) = name
      PROVE  FirstOf(T, name, Meets(T, name)) = s /\ s # Null
  <2>1. s # Null
    BY UsedSlots
  <2>2. PICK i \in 0..T.max - 1 : v[i] = s
    BY <1>6, ShapedVisits DEF NameAt, Bucket
  <2>3. i \in Meets(T, name)
    BY <1>6, <2>1, <2>2 DEF Meets, NameAt
  <2>4. PICK j \in Meets(T, name) : FirstOf(T, name, Meets(T, name)) = v[j]
    BY <2>3, FirstPlace
  <2>5. v[j] \in Used(T) /\ NameAt(T, v[j]) = NameAt(T, s)
    BY <1>3, <1>6
  <2> HIDE DEF v
  <2> QED  BY <2>1, <2>4, <2>5 DEF Shaped, Chained
<1>7. ASSUME \A s \in Used(T) : NameAt(T, s) # name
      PROVE  FirstOf(T, name, Meets(T, name)) = Null
  <2>1. Meets(T, name) = {}
    BY <1>3, <1>7
  <2> QED  BY <2>1 DEF FirstOf
<1> HIDE DEF some
<1> QED  BY <1>2, <1>5, <1>6, <1>7 DEF FindFile

-----------------------------------------------------------------------------
(* Mounting a file.                                                        *)

\* What no operation but Clear takes back.
Leads(T, U) ==
  /\ U.max = T.max /\ T.handed <= U.handed
  /\ T.refused => U.refused
  /\ T.hung => U.hung
  /\ T.torn => U.torn
  /\ (~T.torn => T.handed <= T.max) => (~U.torn => U.handed <= U.max)

\* The parts of a table.
LEMMA TableFields ==
  ASSUME NEW F, NEW T \in Tables(F)
  PROVE  /\ T.max \in 1..MaxSlots /\ T.head \in [Buckets -> Slots \cup {Null}]
         /\ T.next \in [Slots -> Slots \cup {Null}] /\ T.file \in [Slots -> F \cup {EmptySlot}]
         /\ T.firstFree \in Slots \cup {Null} /\ T.nextFree \in [Slots -> Slots \cup {Null}]
         /\ T.hung \in BOOLEAN /\ T.handed \in Nat /\ T.refused \in BOOLEAN /\ T.torn \in BOOLEAN
         /\ MaxSlots \in Nat /\ T.max \in Nat
BY PartitionTableAssumption DEF Tables

\* Taking nothing back: what that relation is.
LEMMA LeadsOn ==
  ASSUME NEW F, NEW T \in Tables(F), NEW U \in Tables(F), NEW V \in Tables(F)
  PROVE  Leads(T, T) /\ (Leads(T, U) /\ Leads(U, V) => Leads(T, V))
BY TableFields DEF Leads

\* AddEntry, field by field.
IsAdded(U, T, f) ==
  LET s == T.firstFree
      b == Hash(f.name)
      n == [T.next EXCEPT ![s] = Null]
  IN  /\ U.max = T.max
      /\ U.head = IF T.head[b] = Null THEN [T.head EXCEPT ![b] = s] ELSE T.head
      /\ U.next = IF T.head[b] = Null THEN n ELSE [n EXCEPT ![LastOf(T, b)] = s]
      /\ U.file = [T.file EXCEPT ![s] = f]
      /\ U.firstFree = T.nextFree[s] /\ U.nextFree = T.nextFree /\ U.hung = T.hung
      /\ U.handed = T.handed + 1 /\ U.refused = T.refused
      /\ U.torn = (T.torn \/ T.handed >= T.max)

\* AddEntry does what IsAdded says.
LEMMA AddedEntry ==
  ASSUME NEW F, NEW T \in Tables(F), NEW f \in F, T.firstFree # Null, Hash(f.name) \in Buckets
  PROVE  AddEntry(T, f) \in Tables(F) /\ IsAdded(AddEntry(T, f), T, f)
<1> DEFINE s == T.firstFree
           b == Hash(f.name)
           n == [T.next EXCEPT ![s] = Null]
           g == [T.file EXCEPT ![s] = f]
           ff == T.nextFree[s]
           hn == T.handed + 1
           tn == T.torn \/ T.handed >= T.max
           P == Pop(T)
           Q == [P EXCEPT !.file[s] = f, !.next[s] = Null]
           last == LastOf(T, b)
           U == AddEntry(T, f)
<1>0. s \in Slots /\ b \in Buckets
  BY TableFields
<1>1. ff \in Slots \cup {Null} /\ hn \in Nat /\ tn \in BOOLEAN
  BY <1>0, TableFields
<1>2. P = [T EXCEPT !.firstFree = ff, !.handed = hn, !.torn = tn]
  BY DEF Pop
<1>3. U = IF T.head[b] = Null THEN [Q EXCEPT !.head[b] = s] ELSE [Q EXCEPT !.next[last] = s]
  BY DEF AddEntry
<1> HIDE DEF P, s, b, last, ff, hn, tn, U
<1>4. /\ P \in Tables(F) /\ P.max = T.max /\ P.head = T.head /\ P.next = T.next /\ P.file = T.file
      /\ P.firstFree = ff /\ P.nextFree = T.nextFree /\ P.hung = T.hung /\ P.handed = hn
      /\ P.refused = T.refused /\ P.torn = tn
  BY <1>1, <1>2 DEF Tables
<1>5. /\ Q \in Tables(F) /\ Q.max = P.max /\ Q.head = P.head /\ Q.next = [P.next EXCEPT ![s] = Null]
      /\ Q.file = [P.file EXCEPT ![s] = f] /\ Q.firstFree = P.firstFree /\ Q.nextFree = P.nextFree
      /\ Q.hung = P.hung /\ Q.handed = P.handed /\ Q.refused = P.refused /\ Q.torn = P.torn
  BY <1>0, <1>4 DEF Tables
<1>6. Q.next = n /\ Q.file = g /\ Q.head = T.head
  BY <1>4, <1>5
<1> HIDE DEF Q, n, g
<1>7. CASE T.head[b] = Null
  <2>1. U = [Q EXCEPT !.head[b] = s]
    BY <1>3, <1>7
  <2>2. /\ U \in Tables(F) /\ U.max = Q.max /\ U.head = [Q.head EXCEPT ![b] = s] /\ U.next = Q.next
        /\ U.file = Q.file /\ U.firstFree = Q.firstFree /\ U.nextFree = Q.nextFree
        /\ U.hung = Q.hung /\ U.handed = Q.handed /\ U.refused = Q.refused /\ U.torn = Q.torn
    BY <1>0, <1>5, <2>1 DEF Tables
  <2> QED  BY <1>0, <1>4, <1>5, <1>6, <1>7, <2>2, Zenon DEF s, b, n, g, ff, hn, tn, U, IsAdded
<1>8. CASE T.head[b] # Null
  <2>1. U = [Q EXCEPT !.next[last] = s]
    BY <1>3, <1>8
  <2>2. /\ U \in Tables(F) /\ U.max = Q.max /\ U.head = Q.head /\ U.next = [Q.next EXCEPT ![last] = s]
        /\ U.file = Q.file /\ U.firstFree = Q.firstFree /\ U.nextFree = Q.nextFree
        /\ U.hung = Q.hung /\ U.handed = Q.handed /\ U.refused = Q.refused /\ U.torn = Q.torn
    BY <1>0, <1>5, <2>1 DEF Tables
  <2> QED  BY <1>0, <1>4, <1>5, <1>6, <1>8, <2>2, Zenon DEF s, b, n, g, ff, hn, tn, last, U, IsAdded
<1> QED  BY <1>7, <1>8

\* What MountFile does.
LEMMA MountCases ==
  ASSUME NEW T, NEW f, NEW flags
  PROVE  LET U == MountFile(T, f, flags)
             s == SlotNamed(T, f.name)
         IN  \/ Hangs(T, f.name) /\ ~CanMount(T, f, flags) /\ U = [T EXCEPT !.hung = TRUE]
             \/ /\ ~Hangs(T, f.name) /\ ~CanMount(T, f, flags)
                /\ U = [T EXCEPT !.refused = T.refused \/ s = Null]
             \/ /\ CanMount(T, f, flags) /\ s = Null /\ T.firstFree # Null
                /\ U = AddEntry(T, f)
             \/ /\ CanMount(T, f, flags) /\ s # Null
                /\ U = [T EXCEPT !.file = [T.file EXCEPT ![s] = f]]
BY DEF MountFile, CanMount

\* A file that is mounted leaves a table of such files.
LEMMA MountTypes ==
  ASSUME NEW F, Mountable(F), NEW T \in Tables(F), NEW f \in F, NEW flags
  PROVE  MountFile(T, f, flags) \in Tables(F) /\ Leads(T, MountFile(T, f, flags))
<1> DEFINE U == MountFile(T, f, flags)
           s == SlotNamed(T, f.name)
<1>0. f.name \in MountNames /\ Hash(f.name) \in Buckets
  BY PartitionTableAssumption DEF Mountable
<1>1. /\ U \in Tables(F) /\ U.max = T.max /\ U.handed \in {T.handed, T.handed + 1}
      /\ T.refused => U.refused
      /\ T.hung => U.hung
      /\ T.torn => U.torn
      /\ U.handed = T.handed + 1 => U.torn = (T.torn \/ T.handed >= T.max)
  <2>1. CASE U = [T EXCEPT !.hung = TRUE]
    <3>1. /\ U \in Tables(F) /\ U.max = T.max /\ U.handed = T.handed /\ U.refused = T.refused
          /\ U.hung = TRUE /\ U.torn = T.torn
      BY <2>1 DEF Tables
    <3> QED  BY <3>1, TableFields
  <2>2. CASE U = [T EXCEPT !.refused = T.refused \/ s = Null]
    <3> DEFINE r == T.refused \/ s = Null
    <3>1. r \in BOOLEAN /\ (T.refused => r)
      BY TableFields
    <3>2. U = [T EXCEPT !.refused = r]
      BY <2>2
    <3> HIDE DEF U, r
    <3>3. /\ U \in Tables(F) /\ U.max = T.max /\ U.handed = T.handed /\ U.refused = r
          /\ U.hung = T.hung /\ U.torn = T.torn
      BY <3>1, <3>2 DEF Tables
    <3> QED  BY <3>1, <3>3, TableFields
  <2>3. CASE U = AddEntry(T, f) /\ T.firstFree # Null
    <3>1. /\ U \in Tables(F) /\ U.max = T.max /\ U.handed = T.handed + 1 /\ U.refused = T.refused
          /\ U.hung = T.hung /\ U.torn = (T.torn \/ T.handed >= T.max)
      <4> DEFINE W == AddEntry(T, f)
      <4>1. T.firstFree # Null
        BY <2>3
      <4>2. /\ W \in Tables(F) /\ W.max = T.max /\ W.handed = T.handed + 1 /\ W.refused = T.refused
            /\ W.hung = T.hung /\ W.torn = (T.torn \/ T.handed >= T.max)
        <5>1. W \in Tables(F) /\ IsAdded(W, T, f)
          BY <1>0, <4>1, AddedEntry
        <5> HIDE DEF W
        <5> QED  BY <5>1 DEF IsAdded
      <4>3. U = W
        BY <2>3
      <4> HIDE DEF U, W
      <4> QED  BY <4>2, <4>3, Zenon
    <3> HIDE DEF U
    <3> QED  BY <3>1, TableFields
  <2>4. CASE s # Null /\ U = [T EXCEPT !.file = [T.file EXCEPT ![s] = f]]
    <3>1. s \in Slots
      BY <1>0, <2>4, FoundFiles
    <3> DEFINE g == [T.file EXCEPT ![s] = f]
    <3>2. g \in [Slots -> F \cup {EmptySlot}]
      BY <3>1, TableFields
    <3>3. U = [T EXCEPT !.file = g]
      BY <2>4
    <3> HIDE DEF g, U, s
    <3>4. /\ U \in Tables(F) /\ U.max = T.max /\ U.handed = T.handed /\ U.refused = T.refused
          /\ U.hung = T.hung /\ U.torn = T.torn
      BY <3>2, <3>3 DEF Tables
    <3> QED  BY <3>4, TableFields
  <2> HIDE DEF U, s
  <2> QED  BY <2>1, <2>2, <2>3, <2>4, MountCases DEF U, s
<1> HIDE DEF U
<1>2. T.handed <= U.handed /\ (U.handed = T.handed + 1 => (~(T.handed >= T.max) => U.handed <= U.max))
  BY <1>1, TableFields
<1>3. U.handed = T.handed => (T.handed <= T.max => U.handed <= U.max)
  BY <1>1
<1>4. (~T.torn => T.handed <= T.max) => (~U.torn => U.handed <= U.max)
  <2>1. CASE U.handed = T.handed
    BY <1>1, <1>3, <2>1, Zenon
  <2>2. CASE U.handed = T.handed + 1
    BY <1>1, <1>2, <2>2, Zenon
  <2> QED  BY <1>1, <2>1, <2>2
<1> QED  BY <1>1, <1>2, <1>4, Zenon DEF Leads, U

-----------------------------------------------------------------------------
(* Mounting keeps the shape, and what it makes of each name.               *)

\* What names lead to after one file took a slot, its own or a new one.
LEMMA ViewAfter ==
  ASSUME NEW F, Mountable(F), NEW T \in Tables(F), Shaped(T), NEW U \in Tables(F), Shaped(U),
         NEW f \in F, NEW r \in Used(U), U.file[r] = f,
         \A s \in Used(U) : s # r => s \in Used(T) /\ U.file[s] = T.file[s],
         \A s \in Used(T) : s \in Used(U), r \in Used(T) => NameAt(T, r) = f.name,
         NEW n \in MountNames
  PROVE  FindFile(U, n) = IF n = f.name THEN f ELSE FindFile(T, n)
<1>1. NameAt(U, r) = f.name /\ \A s \in Used(U) : s # r => NameAt(U, s) = NameAt(T, s)
  BY DEF NameAt
<1>2. CASE n = f.name
  BY <1>1, <1>2, ShapedLookup
<1>3. CASE n # f.name /\ \E s \in Used(U) : NameAt(U, s) = n
  <2>1. PICK s \in Used(U) : NameAt(U, s) = n
    BY <1>3
  <2>2. s # r /\ s \in Used(T) /\ NameAt(T, s) = n /\ U.file[s] = T.file[s]
    BY <1>1, <1>3, <2>1
  <2>3. FindFile(U, n) = U.file[s] /\ FindFile(T, n) = T.file[s]
    BY <2>1, <2>2, ShapedLookup
  <2> QED  BY <1>3, <2>2, <2>3
<1>4. CASE n # f.name /\ \A s \in Used(U) : NameAt(U, s) # n
  <2>1. \A s \in Used(T) : NameAt(T, s) # n
    BY <1>1, <1>4
  <2>2. FindFile(U, n) = Null /\ FindFile(T, n) = Null
    BY <1>4, <2>1, ShapedLookup
  <2> QED  BY <1>4, <2>2
<1> QED  BY <1>2, <1>3, <1>4

\* A table with the same chains has the same shape and leads to the same files.
LEMMA SameChains ==
  ASSUME NEW F, Mountable(F), NEW T \in Tables(F), Shaped(T), NEW U \in Tables(F),
         U.max = T.max, U.handed = T.handed, U.head = T.head, U.next = T.next,
         U.file = T.file, U.firstFree = T.firstFree, U.nextFree = T.nextFree
  PROVE  Shaped(U) /\ Used(U) = Used(T) /\ \A n \in MountNames : FindFile(U, n) = FindFile(T, n)
<1>1. Used(U) = Used(T) /\ (\A s : NameAt(U, s) = NameAt(T, s) /\ Bucket(U, s) = Bucket(T, s))
  BY DEF Used, NameAt, Bucket
<1>2. Shaped(U)
  <2>1. Stacked(U) /\ U.handed <= U.max
    BY DEF Stacked, Shaped
  <2>2. Chained(U)
    <3>1. Chained(T)
      BY DEF Shaped
    <3> QED  BY <1>1, <3>1 DEF Chained
  <2> QED  BY <2>1, <2>2 DEF Shaped
<1>3. ASSUME NEW n \in MountNames PROVE FindFile(U, n) = FindFile(T, n)
  <2>1. CASE \E s \in Used(U) : NameAt(U, s) = n
    <3>1. PICK s \in Used(U) : NameAt(U, s) = n
      BY <2>1
    <3>2. s \in Used(T) /\ NameAt(T, s) = n
      BY <1>1, <3>1
    <3>3. FindFile(U, n) = U.file[s] /\ FindFile(T, n) = T.file[s]
      BY <1>2, <3>1, <3>2, ShapedLookup
    <3> QED  BY <3>3
  <2>2. CASE \A s \in Used(U) : NameAt(U, s) # n
    <3>1. \A s \in Used(T) : NameAt(T, s) # n
      BY <1>1, <2>2
    <3> QED  BY <1>2, <2>2, <3>1, ShapedLookup
  <2> QED  BY <2>1, <2>2
<1> QED  BY <1>1, <1>2, <1>3

\* An entry is written over by one of its name.
LEMMA OverwrittenShape ==
  ASSUME NEW F, Mountable(F), NEW T \in Tables(F), Shaped(T), NEW U \in Tables(F),
         NEW f \in F, NEW r \in Used(T), NameAt(T, r) = f.name,
         U = [T EXCEPT !.file = [T.file EXCEPT ![r] = f]]
  PROVE  /\ Shaped(U)
         /\ \A n \in MountNames : FindFile(U, n) = IF n = f.name THEN f ELSE FindFile(T, n)
<1>0. r \in Slots
  BY UsedSlots
<1>1. /\ U.max = T.max /\ U.handed = T.handed /\ U.head = T.head /\ U.next = T.next
      /\ U.firstFree = T.firstFree /\ U.nextFree = T.nextFree
      /\ U.file = [T.file EXCEPT ![r] = f]
  BY DEF Tables
<1>2. U.file[r] = f /\ \A s \in Used(T) : s # r => U.file[s] = T.file[s]
  BY <1>0, <1>1, TableFields DEF Used
<1>3. Used(U) = Used(T)
  BY <1>1 DEF Used
<1>4. \A s \in Used(T) : NameAt(U, s) = NameAt(T, s) /\ Bucket(U, s) = Bucket(T, s)
  BY <1>2 DEF NameAt, Bucket
<1>5. \A s \in Used(T) : U.file[s] # EmptySlot
  <2>1. f # EmptySlot
    BY PartitionTableAssumption DEF Mountable, EmptySlot
  <2> QED  BY <1>2, <2>1 DEF Shaped, Chained
<1>6. Chained(U)
  <2>1. \A b \in Buckets : T.head[b] # Null => T.head[b] \in Used(T) /\ Bucket(U, T.head[b]) = b
    BY <1>4 DEF Shaped, Chained
  <2>2. \A s \in Used(T) : T.next[s] # Null =>
          T.next[s] \in Used(T) /\ T.next[s] < s /\ Bucket(U, T.next[s]) = Bucket(U, s)
    BY <1>4 DEF Shaped, Chained
  <2>3. \A s \in Used(T) : T.head[Bucket(U, s)] = s \/ \E t \in Used(T) : T.next[t] = s
    BY <1>4 DEF Shaped, Chained
  <2>4. \A s, t \in Used(T) : NameAt(U, s) = NameAt(U, t) => s = t
    BY <1>4 DEF Shaped, Chained
  <2> QED  BY <1>1, <1>3, <1>5, <2>1, <2>2, <2>3, <2>4 DEF Chained
<1>7. Shaped(U)
  BY <1>1, <1>6 DEF Shaped, Stacked
<1>8. \A n \in MountNames : FindFile(U, n) = IF n = f.name THEN f ELSE FindFile(T, n)
  <2>1. \A s \in Used(U) : s # r => s \in Used(T) /\ U.file[s] = T.file[s]
    BY <1>2, <1>3
  <2>2. r \in Used(U) /\ U.file[r] = f /\ \A s \in Used(T) : s \in Used(U)
    BY <1>2, <1>3
  <2>3. SUFFICES ASSUME NEW n \in MountNames
                 PROVE  FindFile(U, n) = IF n = f.name THEN f ELSE FindFile(T, n)
    OBVIOUS
  <2>4. r \in Used(T) => NameAt(T, r) = f.name
    OBVIOUS
  <2> QED  BY ONLY Mountable(F), T \in Tables(F), Shaped(T), U \in Tables(F), f \in F,
                   n \in MountNames, <1>7, <2>1, <2>2, <2>4, ViewAfter
<1> QED  BY <1>7, <1>8

\* The last slot of a chain that is not empty.
LEMMA LastSlot ==
  ASSUME NEW F, Mountable(F), NEW T \in Tables(F), Shaped(T), NEW b \in Buckets, T.head[b] # Null
  PROVE  LastOf(T, b) \in Used(T) /\ Bucket(T, LastOf(T, b)) = b /\ T.next[LastOf(T, b)] = Null
<1> DEFINE v == Visited(T, b)
           IsEnd(i) == v[i] # Null /\ v[i + 1] = Null
           n == T.max
<1>1. MaxSlots \in Nat /\ n \in 1..MaxSlots
  BY TableFields
<1>2. \E i \in 0..n - 1 : IsEnd(i)
  <2>1. SUFFICES ASSUME \A i \in 0..n - 1 : ~IsEnd(i) PROVE FALSE
    OBVIOUS
  <2> DEFINE S == {i \in 0..n : v[i] # Null}
  <2>2. 0 \in S
    BY <1>1, WalkSteps
  <2>3. ASSUME NEW i \in 1..n, i - 1 \in S PROVE i \in S
    <3>1. i - 1 \in 0..n - 1 /\ (i - 1) + 1 = i /\ v[i - 1] # Null
      BY <1>1, <2>3
    <3>2. ~IsEnd(i - 1)
      BY <2>1, <3>1
    <3> QED  BY <3>1, <3>2
  <2>4. 0..n \subseteq S
    <3> HIDE DEF S
    <3> QED  BY <1>1, <2>2, <2>3, IntervalInduction
  <2>5. v[n] # Null
    BY <1>1, <2>4
  <2> QED  BY <2>5, ShapedEnds DEF EndsWell
<1> DEFINE k == CHOOSE i \in 0..n - 1 : IsEnd(i)
<1>3. k \in 0..n - 1 /\ IsEnd(k)
  BY <1>2
<1>4. LastOf(T, b) = v[k]
  BY DEF LastOf
<1> HIDE DEF k
<1>5. k \in 0..MaxSlots /\ k + 1 \in 1..MaxSlots /\ (k + 1) - 1 = k
  BY <1>1, <1>3
<1>6. v[k] \in Used(T) /\ Bucket(T, v[k]) = b
  BY <1>3, <1>5, ShapedWalk
<1>7. v[k + 1] = T.next[v[k]]
  <2>1. v[k + 1] = IF v[(k + 1) - 1] = Null THEN Null ELSE T.next[v[(k + 1) - 1]]
    BY <1>5, WalkSteps
  <2> QED  BY <1>3, <1>5, <2>1
<1> QED  BY <1>3, <1>4, <1>6, <1>7

\* A name that is new takes the next slot and the end of its chain.
LEMMA AddedShape ==
  ASSUME NEW F, Mountable(F), NEW T \in Tables(F), Shaped(T), T.handed < T.max,
         NEW f \in F, \A s \in Used(T) : NameAt(T, s) # f.name,
         NEW U \in Tables(F), IsAdded(U, T, f)
  PROVE  /\ Shaped(U)
         /\ \A n \in MountNames : FindFile(U, n) = IF n = f.name THEN f ELSE FindFile(T, n)
<1> DEFINE r == T.firstFree
           b == Hash(f.name)
           last == LastOf(T, b)
           empty == T.head[b] = Null
           nx == [T.next EXCEPT ![r] = Null]
<1>1. /\ MaxSlots \in Nat /\ T.max \in 1..MaxSlots /\ T.handed \in Nat /\ b \in Buckets
      /\ Null \notin Slots
  BY TableFields, PartitionTableAssumption DEF Mountable, Slots
<1>2. r = T.max - 1 - T.handed /\ r \in Slots
  BY <1>1 DEF Shaped, Stacked, Slots
<1>3. /\ U.max = T.max /\ U.handed = T.handed + 1
      /\ U.head = IF empty THEN [T.head EXCEPT ![b] = r] ELSE T.head
      /\ U.next = IF empty THEN nx ELSE [nx EXCEPT ![last] = r]
      /\ U.file = [T.file EXCEPT ![r] = f]
      /\ U.firstFree = T.nextFree[r] /\ U.nextFree = T.nextFree
  BY Zenon DEF IsAdded
<1>4. Used(U) = Used(T) \cup {r} /\ r \notin Used(T) /\ \A s \in Used(T) : r < s
  BY <1>1, <1>2, <1>3 DEF Used, Slots
<1>5. empty \/ (last \in Used(T) /\ Bucket(T, last) = b /\ T.next[last] = Null)
  BY <1>1, LastSlot
<1>6. U.file[r] = f /\ \A s \in Used(T) : U.file[s] = T.file[s]
  BY <1>2, <1>3, <1>4, TableFields DEF Used
<1>7. /\ NameAt(U, r) = f.name /\ Bucket(U, r) = b
      /\ \A s \in Used(T) : NameAt(U, s) = NameAt(T, s) /\ Bucket(U, s) = Bucket(T, s)
  BY <1>6 DEF NameAt, Bucket
<1>8. /\ U.next[r] = Null
      /\ ~empty => U.next[last] = r
      /\ \A s \in Used(T) : empty \/ s # last => U.next[s] = T.next[s]
  <2>1. nx \in [Slots -> Slots \cup {Null}] /\ nx[r] = Null /\ \A s \in Used(T) : s \in Slots /\ nx[s] = T.next[s]
    BY <1>2, <1>4, TableFields DEF Used
  <2> HIDE DEF nx, last
  <2>2. CASE empty
    BY <1>3, <2>1, <2>2
  <2>3. CASE ~empty
    <3>1. U.next = [nx EXCEPT ![last] = r] /\ last \in Used(T) /\ last # r
      BY <1>3, <1>4, <1>5, <2>3
    <3> QED  BY <1>2, <2>1, <2>3, <3>1
  <2> QED  BY <2>2, <2>3
<1>9. /\ empty => U.head[b] = r
      /\ \A c \in Buckets : c # b \/ ~empty => U.head[c] = T.head[c]
  BY <1>1, <1>3, TableFields
<1> HIDE DEF r, b, last, nx
<1>10. \A s \in Used(T) : s # Null /\ s \in Slots
  BY UsedSlots
<1>11. \A s \in Used(U) : U.file[s] # EmptySlot
  <2>1. f # EmptySlot
    BY PartitionTableAssumption DEF Mountable, EmptySlot
  <2> QED  BY <1>4, <1>6, <2>1 DEF Shaped, Chained
<1>12. ASSUME NEW c \in Buckets, U.head[c] # Null
       PROVE  U.head[c] \in Used(U) /\ Bucket(U, U.head[c]) = c
  <2>1. CASE c = b /\ empty
    BY <1>4, <1>7, <1>9, <2>1
  <2>2. CASE c # b \/ ~empty
    <3>1. U.head[c] = T.head[c]
      BY <1>9, <2>2
    <3>2. T.head[c] \in Used(T) /\ Bucket(T, T.head[c]) = c
      BY <1>12, <3>1 DEF Shaped, Chained
    <3> QED  BY <1>4, <1>7, <3>1, <3>2
  <2> QED  BY <2>1, <2>2
<1>13. ASSUME NEW s \in Used(U), U.next[s] # Null
       PROVE  U.next[s] \in Used(U) /\ U.next[s] < s /\ Bucket(U, U.next[s]) = Bucket(U, s)
  <2>1. s # r /\ s \in Used(T)
    BY <1>4, <1>8, <1>13
  <2>2. CASE ~empty /\ s = last
    BY <1>4, <1>5, <1>7, <1>8, <2>1, <2>2
  <2>3. CASE empty \/ s # last
    <3>1. U.next[s] = T.next[s]
      BY <1>8, <2>1, <2>3
    <3>2. T.next[s] \in Used(T) /\ T.next[s] < s /\ Bucket(T, T.next[s]) = Bucket(T, s)
      BY <1>13, <2>1, <3>1 DEF Shaped, Chained
    <3> QED  BY <1>4, <1>7, <2>1, <3>1, <3>2
  <2> QED  BY <2>2, <2>3
<1>14. ASSUME NEW s \in Used(U)
       PROVE  U.head[Bucket(U, s)] = s \/ \E t \in Used(U) : U.next[t] = s
  <2>1. CASE s = r
    BY <1>4, <1>5, <1>7, <1>8, <1>9, <2>1
  <2>2. CASE s # r
    <3>1. s \in Used(T) /\ Bucket(U, s) = Bucket(T, s) /\ s # Null /\ Bucket(T, s) \in Buckets
      BY <1>4, <1>7, <2>2, UsedSlots
    <3>2. CASE T.head[Bucket(T, s)] = s
      BY <1>9, <3>1, <3>2
    <3>3. CASE \E t \in Used(T) : T.next[t] = s
      <4>1. PICK t \in Used(T) : T.next[t] = s
        BY <3>3
      <4>2. U.next[t] = s /\ t \in Used(U)
        BY <1>4, <1>5, <1>8, <3>1, <4>1
      <4> QED  BY <4>2
    <3> QED  BY <3>1, <3>2, <3>3 DEF Shaped, Chained
  <2> QED  BY <2>1, <2>2
<1>15. \A s, t \in Used(U) : NameAt(U, s) = NameAt(U, t) => s = t
  BY <1>4, <1>7 DEF Shaped, Chained
<1>16. Chained(U)
  BY <1>11, <1>12, <1>13, <1>14, <1>15 DEF Chained
<1>17. Stacked(U)
  <2>1. \A s \in 1..T.max - 1 : T.nextFree[s] = s - 1
    BY DEF Shaped, Stacked
  <2>2. U.handed < U.max => r \in 1..T.max - 1 /\ r - 1 = U.max - 1 - U.handed
    BY <1>1, <1>2, <1>3
  <2> QED  BY <1>3, <2>1, <2>2 DEF Stacked
<1>18. Shaped(U)
  BY <1>1, <1>3, <1>16, <1>17 DEF Shaped
<1>19. ASSUME NEW n \in MountNames
       PROVE  FindFile(U, n) = IF n = f.name THEN f ELSE FindFile(T, n)
  <2>1. \A s \in Used(U) : s # r => s \in Used(T) /\ U.file[s] = T.file[s]
    BY <1>4, <1>6
  <2>2. r \in Used(U) /\ U.file[r] = f /\ (\A s \in Used(T) : s \in Used(U)) /\ r \notin Used(T)
    BY <1>4, <1>6
  <2> QED  BY ONLY Mountable(F), T \in Tables(F), Shaped(T), U \in Tables(F), f \in F,
                   n \in MountNames, <1>18, <2>1, <2>2, ViewAfter
<1> QED  BY <1>18, <1>19

-----------------------------------------------------------------------------
(* MountFile, as the rest sees it.                                         *)

\* No slot was handed out twice since Clear, and no walk has gone in circles.
Regular(T) == Shaped(T) /\ ~T.hung

\* Whether a file may be mounted, by what its name leads to.
May(T, f, flags) ==
  IF FindFile(T, f.name) = Null THEN T.firstFree # Null
  ELSE MayOverwrite(FindFile(T, f.name), flags)

\* Mounting a file keeps the shape, and only the file's name leads elsewhere.
LEMMA MountShaped ==
  ASSUME NEW F, Mountable(F), NEW T \in Tables(F), Regular(T), NEW f \in F, NEW flags,
         NEW U, U = MountFile(T, f, flags), U.handed <= U.max
  PROVE  /\ Regular(U)
         /\ CanMount(T, f, flags) <=> May(T, f, flags)
         /\ ~U.refused => May(T, f, flags) \/ FindFile(T, f.name) # Null
         /\ \A n \in MountNames :
              FindFile(U, n) = IF n = f.name /\ May(T, f, flags) THEN f ELSE FindFile(T, n)
<1> DEFINE s == SlotNamed(T, f.name)
<1>1. Shaped(T) /\ ~T.hung /\ f.name \in MountNames /\ Hash(f.name) \in Buckets /\ ~Hangs(T, f.name)
  BY ShapedLookup, PartitionTableAssumption DEF Regular, Mountable
<1>2. U \in Tables(F)
  BY MountTypes
<1>3. \/ /\ s = Null /\ FindFile(T, f.name) = Null
         /\ \A t \in Used(T) : NameAt(T, t) # f.name
      \/ /\ s # Null /\ FindFile(T, f.name) = T.file[s] /\ FindFile(T, f.name) # Null
         /\ s \in Used(T) /\ NameAt(T, s) = f.name
  <2>1. CASE \E t \in Used(T) : NameAt(T, t) = f.name
    <3>1. PICK t \in Used(T) : NameAt(T, t) = f.name
      BY <2>1
    <3>2. s = t /\ FindFile(T, f.name) = T.file[t] /\ t # Null /\ T.file[t] \in F
      BY <1>1, <3>1, ShapedLookup, UsedSlots
    <3> HIDE DEF s
    <3> QED  BY <3>1, <3>2 DEF Mountable
  <2>2. CASE \A t \in Used(T) : NameAt(T, t) # f.name
    BY <1>1, <2>2, ShapedLookup
  <2> QED  BY <2>1, <2>2
<1>4. CanMount(T, f, flags) <=> May(T, f, flags)
  <2>1. CanMount(T, f, flags) <=> IF s = Null THEN T.firstFree # Null ELSE MayOverwrite(T.file[s], flags)
    BY <1>1 DEF CanMount
  <2> HIDE DEF s
  <2> QED  BY <1>3, <2>1 DEF May
<1>5. CASE ~May(T, f, flags)
  <2>1. U = [T EXCEPT !.refused = T.refused \/ s = Null]
    BY <1>1, <1>4, <1>5, MountCases
  <2> DEFINE q == T.refused \/ s = Null
  <2>2. U = [T EXCEPT !.refused = q] /\ (~q => s # Null)
    BY <2>1
  <2> HIDE DEF q, s
  <2>3. /\ U.max = T.max /\ U.handed = T.handed /\ U.head = T.head /\ U.next = T.next
        /\ U.file = T.file /\ U.firstFree = T.firstFree /\ U.nextFree = T.nextFree
        /\ U.hung = T.hung /\ U.refused = q
    BY <2>2 DEF Tables
  <2>4. Shaped(U) /\ \A n \in MountNames : FindFile(U, n) = FindFile(T, n)
    BY <1>1, <1>2, <2>3, SameChains
  <2> QED  BY <1>1, <1>3, <1>4, <1>5, <2>2, <2>3, <2>4 DEF Regular
<1>6. CASE May(T, f, flags) /\ s = Null
  <2>1. U = AddEntry(T, f) /\ T.firstFree # Null
    BY <1>1, <1>4, <1>6, MountCases
  <2> HIDE DEF s
  <2>2. IsAdded(U, T, f)
    <3>1. IsAdded(AddEntry(T, f), T, f)
      BY <1>1, <2>1, AddedEntry
    <3> QED  BY <2>1, <3>1
  <2>3. T.handed < T.max /\ U.hung = T.hung
    BY <2>2, TableFields DEF IsAdded
  <2>4. \A t \in Used(T) : NameAt(T, t) # f.name
    BY <1>3, <1>6
  <2>5. /\ Shaped(U)
        /\ \A n \in MountNames : FindFile(U, n) = IF n = f.name THEN f ELSE FindFile(T, n)
    BY ONLY Mountable(F), T \in Tables(F), <1>1, f \in F, <1>2, <2>2, <2>3, <2>4, AddedShape
  <2> QED  BY <1>1, <1>4, <1>6, <2>3, <2>5 DEF Regular
<1>7. CASE May(T, f, flags) /\ s # Null
  <2>1. U = [T EXCEPT !.file = [T.file EXCEPT ![s] = f]]
    BY <1>1, <1>4, <1>7, MountCases
  <2> HIDE DEF s
  <2>2. s \in Used(T) /\ NameAt(T, s) = f.name
    BY <1>3, <1>7
  <2>3. U.hung = T.hung
    BY <2>1 DEF Tables
  <2>4. /\ Shaped(U)
        /\ \A n \in MountNames : FindFile(U, n) = IF n = f.name THEN f ELSE FindFile(T, n)
    BY <1>1, <1>2, <2>1, <2>2, OverwrittenShape
  <2> QED  BY <1>1, <1>4, <1>7, <2>3, <2>4 DEF Regular
<1> QED  BY <1>5, <1>6, <1>7

-----------------------------------------------------------------------------
(* Tables that are empty.                                                  *)

\* In an empty table no name leads anywhere.
LEMMA EmptyView ==
  ASSUME NEW F, Mountable(F), NEW T \in Tables(F), Shaped(T), T.handed = 0
  PROVE  \A n \in MountNames : FindFile(T, n) = Null
<1>1. Used(T) = {}
  BY TableFields DEF Used, Slots
<1> QED  BY <1>1, ShapedLookup

\* An empty table has its shape.
LEMMA EmptyShape ==
  ASSUME NEW F, NEW T \in Tables(F), T.handed = 0, T.head = [b \in Buckets |-> Null], Stacked(T)
  PROVE  Shaped(T)
<1>1. Used(T) = {}
  BY TableFields DEF Used, Slots
<1>2. \A b \in Buckets : T.head[b] = Null
  OBVIOUS
<1>3. Chained(T)
  BY <1>1, <1>2 DEF Chained
<1> QED  BY <1>3, TableFields DEF Shaped

\* CLfListStack::Init puts the slots on the stack in their order.
LEMMA PushedAll ==
  ASSUME NEW F, NEW T \in Tables(F)
  PROVE  LET U == PushAll(T)
         IN  /\ U \in Tables(F) /\ U.max = T.max /\ U.head = T.head /\ U.next = T.next
             /\ U.file = T.file /\ U.hung = T.hung /\ U.handed = T.handed
             /\ U.refused = T.refused /\ U.torn = T.torn
             /\ \A s \in 1..U.max - 1 : U.nextFree[s] = s - 1
             /\ U.firstFree = T.max - 1
<1> DEFINE U == PushAll(T)
           g == [s \in Slots |-> IF s = 0 THEN T.firstFree
                                 ELSE IF s < T.max THEN s - 1 ELSE T.nextFree[s]]
           top == T.max - 1
<1>0. MaxSlots \in Nat /\ T.max \in 1..MaxSlots /\ T.firstFree \in Slots \cup {Null}
      /\ T.nextFree \in [Slots -> Slots \cup {Null}]
  BY TableFields
<1>1. top \in Slots
  BY <1>0 DEF Slots
<1>2. g \in [Slots -> Slots \cup {Null}]
  <2>1. ASSUME NEW s \in Slots
        PROVE  (IF s = 0 THEN T.firstFree ELSE IF s < T.max THEN s - 1 ELSE T.nextFree[s])
                 \in Slots \cup {Null}
    <3>1. s # 0 => s - 1 \in Slots
      BY <1>0 DEF Slots
    <3> QED  BY <1>0, <3>1
  <2> QED  BY <2>1
<1>3. \A s \in 1..T.max - 1 : g[s] = s - 1
  BY <1>0 DEF Slots
<1>4. U = [T EXCEPT !.firstFree = top, !.nextFree = g]
  BY DEF PushAll
<1> HIDE DEF U, g, top
<1>5. /\ U \in Tables(F) /\ U.max = T.max /\ U.head = T.head /\ U.next = T.next
      /\ U.file = T.file /\ U.hung = T.hung /\ U.handed = T.handed
      /\ U.refused = T.refused /\ U.torn = T.torn /\ U.nextFree = g /\ U.firstFree = top
  BY <1>1, <1>2, <1>4 DEF Tables
<1> QED  BY <1>3, <1>5 DEF U, top

\* The constructor leaves an empty table.
LEMMA NewTableShape ==
  ASSUME NEW F, NEW max \in 1..MaxSlots
  PROVE  LET U == NewTable(max)
         IN  /\ U \in Tables(F) /\ Regular(U) /\ U.max = max /\ U.handed = 0
             /\ ~U.refused /\ ~U.torn
<1> DEFINE h == [b \in Buckets |-> Null]
           T == [max |-> max, head |-> h, next |-> [s \in Slots |-> Null],
                 file |-> [s \in Slots |-> EmptySlot], firstFree |-> Null,
                 nextFree |-> [s \in Slots |-> Null],
                 hung |-> FALSE, handed |-> 0, refused |-> FALSE, torn |-> FALSE]
           U == NewTable(max)
<1>1. T \in Tables(F) /\ T.head = h /\ T.max = max /\ ~T.hung /\ T.handed = 0 /\ ~T.refused /\ ~T.torn
  BY DEF Tables
<1>2. U = PushAll(T)
  BY DEF NewTable
<1> HIDE DEF T, h, U
<1>3. /\ U \in Tables(F) /\ U.max = T.max /\ U.head = T.head
      /\ U.hung = T.hung /\ U.handed = T.handed /\ U.refused = T.refused /\ U.torn = T.torn
      /\ \A s \in 1..U.max - 1 : U.nextFree[s] = s - 1
      /\ U.firstFree = T.max - 1
  BY <1>1, <1>2, PushedAll, Zenon
<1>4. Stacked(U)
  BY <1>1, <1>3 DEF Stacked
<1>5. Shaped(U)
  BY <1>1, <1>3, <1>4, EmptyShape DEF h
<1> QED  BY <1>1, <1>3, <1>5 DEF Regular, U

\* Clear leaves a table that is as empty.
LEMMA ClearShape ==
  ASSUME NEW F, NEW T \in Tables(F)
  PROVE  LET U == Clear(T)
         IN  /\ U \in Tables(F) /\ Shaped(U) /\ U.max = T.max /\ U.handed = 0
             /\ ~U.refused /\ U.torn = T.torn /\ U.hung = T.hung
<1> DEFINE h == [b \in Buckets |-> Null]
           nx == [s \in Slots |-> Null]
           fl == [s \in Slots |-> EmptySlot]
           P == PushAll(T)
           U == Clear(T)
<1>1. U = [P EXCEPT !.head = h, !.next = nx, !.file = fl, !.handed = 0, !.refused = FALSE]
  BY DEF Clear
<1>2. h \in [Buckets -> Slots \cup {Null}] /\ nx \in [Slots -> Slots \cup {Null}]
      /\ fl \in [Slots -> F \cup {EmptySlot}]
  OBVIOUS
<1> HIDE DEF U, h, nx, fl, P
<1>3. /\ P \in Tables(F) /\ P.max = T.max /\ P.hung = T.hung /\ P.torn = T.torn
      /\ \A s \in 1..P.max - 1 : P.nextFree[s] = s - 1
      /\ P.firstFree = T.max - 1
  BY PushedAll DEF P
<1>4. /\ U \in Tables(F) /\ U.max = P.max /\ U.head = h /\ U.handed = 0 /\ U.refused = FALSE
      /\ U.torn = P.torn /\ U.hung = P.hung /\ U.nextFree = P.nextFree /\ U.firstFree = P.firstFree
  BY <1>1, <1>2, <1>3 DEF Tables
<1>5. Stacked(U)
  BY <1>3, <1>4, TableFields DEF Stacked
<1>6. Shaped(U)
  BY <1>4, <1>5, EmptyShape DEF h
<1> QED  BY <1>3, <1>4, <1>6 DEF U

-----------------------------------------------------------------------------
(* Files mounted one after the other.                                      *)

\* What holds at first and is kept by mounting each file holds after all of them.
LEMMA MountAllIn ==
  ASSUME NEW F, Mountable(F), NEW T \in Tables(F), NEW files \in Seq(F), NEW flags,
         NEW R, <<0, T>> \in R,
         \A i \in 1..Len(files) : \A t \in Tables(F) :
           <<i - 1, t>> \in R => <<i, MountFile(t, files[i], flags)>> \in R
  PROVE  MountAll(T, files, flags) \in Tables(F) /\ <<Len(files), MountAll(T, files, flags)>> \in R
<1> DEFINE n == Len(files)
           P == Tables(F)
           step(t, i) == MountFile(t, files[i], flags)
           op == [x \in P \X (1..n) |-> step(x[1], x[2])]
           Follows(f) == f = [i \in 0..n |-> IF i = 0 THEN T ELSE step(f[i - 1], i)]
<1>1. n \in Nat /\ \A i \in 1..n : files[i] \in F
  BY LenProperties, ElementOfSeq
<1>2. \A t \in P, i \in 1..n : step(t, i) \in P
  BY <1>1, MountTypes
<1> HIDE DEF P, step, n
<1>3. op \in [P \X (1..n) -> P] /\ \A t \in P, i \in 1..n : op[<<t, i>>] = step(t, i)
  BY <1>2
<1>4. T \in P
  BY DEF P
<1> HIDE DEF op
<1>5. PICK g : Iterates(g, P, T, n, op)
  <2> HIDE DEF Follows
  <2> QED  BY <1>1, <1>3, <1>4, Iteration
<1>6. ASSUME NEW i \in 0..n PROVE g[i] = IF i = 0 THEN T ELSE step(g[i - 1], i)
  <2>1. CASE i = 0
    BY <1>5, <2>1 DEF Iterates
  <2>2. CASE i # 0
    <3>1. i \in 1..n /\ i - 1 \in 0..n
      BY <1>1, <2>2
    <3>2. g[i] = op[<<g[i - 1], i>>] /\ g[i - 1] \in P
      BY <1>5, <2>2, <3>1 DEF Iterates
    <3> QED  BY <1>3, <2>2, <3>1, <3>2
  <2> QED  BY <2>1, <2>2
<1>7. Follows(g)
  <2>1. g = [i \in 0..n |-> g[i]]
    BY <1>5 DEF Iterates
  <2> QED  BY <1>6, <2>1
<1> DEFINE m == CHOOSE f : Follows(f)
<1>8. MountAll(T, files, flags) = m[n]
  BY DEF MountAll, n, step
<1>9. Follows(m)
  BY <1>7
<1> HIDE DEF m
<1>10. \A i \in 0..n : m[i] = IF i = 0 THEN T ELSE step(m[i - 1], i)
  BY <1>9, Zenon
<1> HIDE DEF Follows
<1>11. m[0] = T /\ \A i \in 1..n : m[i] = step(m[i - 1], i)
  <2>1. 0 \in 0..n /\ \A i \in 1..n : i \in 0..n /\ i # 0
    BY <1>1
  <2> QED  BY <1>10, <2>1
<1> DEFINE S == {i \in 0..n : m[i] \in P /\ <<i, m[i]>> \in R}
<1>12. 0 \in S
  BY <1>1, <1>4, <1>11
<1>13. ASSUME NEW i \in 1..n, i - 1 \in S PROVE i \in S
  <2>1. m[i - 1] \in P /\ <<i - 1, m[i - 1]>> \in R /\ m[i] = step(m[i - 1], i)
    BY <1>11, <1>13
  <2>2. <<i, step(m[i - 1], i)>> \in R
    BY <2>1 DEF P, n, step
  <2> QED  BY <1>1, <1>2, <2>1, <2>2
<1>14. 0..n \subseteq S
  <2> HIDE DEF S
  <2> QED  BY <1>1, <1>12, <1>13, IntervalInduction
<1>15. n \in S
  BY <1>1, <1>14
<1> QED  BY <1>8, <1>15 DEF P, n

\* They leave a table of such files, and take nothing back.
LEMMA MountAllTypes ==
  ASSUME NEW F, Mountable(F), NEW T \in Tables(F), NEW files \in Seq(F), NEW flags
  PROVE  MountAll(T, files, flags) \in Tables(F) /\ Leads(T, MountAll(T, files, flags))
<1> DEFINE n == Len(files)
           R == {x \in Nat \X Tables(F) : Leads(T, x[2])}
<1>1. n \in Nat /\ \A i \in 1..n : files[i] \in F
  BY LenProperties, ElementOfSeq
<1>2. <<0, T>> \in R
  BY LeadsOn
<1>3. ASSUME NEW i \in 1..n, NEW t \in Tables(F), <<i - 1, t>> \in R
      PROVE  <<i, MountFile(t, files[i], flags)>> \in R
  <2> DEFINE u == MountFile(t, files[i], flags)
  <2>1. Leads(T, t)
    BY <1>3
  <2>2. u \in Tables(F) /\ Leads(t, u)
    BY <1>1, MountTypes
  <2> HIDE DEF u
  <2>3. Leads(T, u)
    BY <2>1, <2>2, LeadsOn
  <2>4. <<i, u>> \in R
    BY <1>1, <2>2, <2>3
  <2> QED  BY <2>4 DEF u
<1> DEFINE V == MountAll(T, files, flags)
<1>4. V \in Tables(F) /\ <<n, V>> \in R
  <2> HIDE DEF R
  <2> QED  BY <1>2, <1>3, MountAllIn
<1> HIDE DEF V
<1>5. Leads(T, V)
  BY <1>4
<1> QED  BY <1>4, <1>5 DEF V

-----------------------------------------------------------------------------
(* What mounting several files makes of the names.                         *)

\* There has been room for every file, and no slot was handed out twice.
Ok(T) == ~T.refused /\ T.handed <= T.max

\* A table keeps its shape until a slot is handed out twice.
Sane(T) == T.handed <= T.max => Regular(T)

\* Whether a file gets its name, when there is room.
Takes(T, f, flags) ==
  FindFile(T, f.name) = Null \/ MayOverwrite(FindFile(T, f.name), flags)

\* Mounting one file, into a table whatever came before.
LEMMA MountSane ==
  ASSUME NEW F, Mountable(F), NEW T \in Tables(F), Sane(T), NEW f \in F, NEW flags,
         NEW U, U = MountFile(T, f, flags)
  PROVE  /\ Sane(U)
         /\ U.handed <= U.max => T.handed <= T.max /\
              \A n \in MountNames : FindFile(U, n) = FindFile(T, n) \/ (n = f.name /\ FindFile(U, n) = f)
         /\ Ok(U) => /\ Ok(T) /\ (CanMount(T, f, flags) <=> Takes(T, f, flags))
                     /\ \A n \in MountNames :
                          FindFile(U, n) = IF n = f.name /\ Takes(T, f, flags) THEN f ELSE FindFile(T, n)
<1>1. U \in Tables(F) /\ Leads(T, U)
  BY MountTypes
<1>2. U.handed <= U.max => T.handed <= T.max
  BY <1>1, TableFields DEF Leads
<1>3. Ok(U) => Ok(T)
  BY <1>1, <1>2 DEF Ok, Leads
<1>4. ASSUME U.handed <= U.max
      PROVE  /\ Regular(U)
             /\ CanMount(T, f, flags) <=> May(T, f, flags)
             /\ ~U.refused => May(T, f, flags) \/ FindFile(T, f.name) # Null
             /\ \A n \in MountNames :
                  FindFile(U, n) = IF n = f.name /\ May(T, f, flags) THEN f ELSE FindFile(T, n)
  <2>1. Regular(T)
    BY <1>2, <1>4 DEF Sane
  <2> QED  BY <1>4, <2>1, MountShaped
<1>5. ASSUME U.handed <= U.max, ~U.refused
      PROVE  May(T, f, flags) <=> Takes(T, f, flags)
  BY <1>4, <1>5 DEF May, Takes
<1>6. Sane(U)
  BY <1>4 DEF Sane
<1>7. ASSUME U.handed <= U.max, NEW n \in MountNames
      PROVE  FindFile(U, n) = FindFile(T, n) \/ (n = f.name /\ FindFile(U, n) = f)
  BY <1>4, <1>7, Zenon
<1>8. ASSUME Ok(U)
      PROVE  /\ Ok(T) /\ (CanMount(T, f, flags) <=> Takes(T, f, flags))
             /\ \A n \in MountNames :
                  FindFile(U, n) = IF n = f.name /\ Takes(T, f, flags) THEN f ELSE FindFile(T, n)
  <2>1. U.handed <= U.max /\ ~U.refused
    BY <1>8 DEF Ok
  <2> HIDE DEF Ok
  <2>2. May(T, f, flags) <=> Takes(T, f, flags)
    BY <1>5, <2>1
  <2> QED  BY <1>3, <1>4, <1>8, <2>1, <2>2
<1>9. U.handed <= U.max => T.handed <= T.max /\
        \A n \in MountNames : FindFile(U, n) = FindFile(T, n) \/ (n = f.name /\ FindFile(U, n) = f)
  BY <1>2, <1>7
<1> QED  BY <1>6, <1>8, <1>9

\* Whatever is found was there before or is one of the files.
Finds(T, G) ==
  Sane(T) /\ (T.handed <= T.max => \A n \in MountNames : FindFile(T, n) \in G \cup {Null})

\* A file that has a property is mounted among files that have it.
LEMMA MountFinds ==
  ASSUME NEW F, Mountable(F), NEW T \in Tables(F), NEW G, Finds(T, G), NEW f \in F, f \in G, NEW flags
  PROVE  Finds(MountFile(T, f, flags), G)
<1> DEFINE U == MountFile(T, f, flags)
<1>1. /\ Sane(U)
      /\ U.handed <= U.max => T.handed <= T.max /\
           \A n \in MountNames : FindFile(U, n) = FindFile(T, n) \/ (n = f.name /\ FindFile(U, n) = f)
  BY MountSane DEF Finds
<1> HIDE DEF U
<1>2. Finds(U, G)
  BY <1>1 DEF Finds
<1> QED  BY <1>2 DEF U

\* So are several.
LEMMA MountAllFinds ==
  ASSUME NEW F, Mountable(F), NEW T \in Tables(F), NEW files \in Seq(F), NEW flags,
         NEW G, Finds(T, G), \A i \in 1..Len(files) : files[i] \in G
  PROVE  Finds(MountAll(T, files, flags), G)
<1> DEFINE n == Len(files)
           R == {x \in Nat \X Tables(F) : Finds(x[2], G)}
<1>1. n \in Nat /\ \A i \in 1..n : files[i] \in F
  BY LenProperties, ElementOfSeq
<1>2. <<0, T>> \in R
  OBVIOUS
<1>3. ASSUME NEW i \in 1..n, NEW t \in Tables(F), <<i - 1, t>> \in R
      PROVE  <<i, MountFile(t, files[i], flags)>> \in R
  <2> DEFINE u == MountFile(t, files[i], flags)
  <2>1. Finds(t, G)
    BY <1>3
  <2>2. u \in Tables(F) /\ Finds(u, G)
    BY <1>1, <2>1, MountTypes, MountFinds
  <2> HIDE DEF u
  <2>3. <<i, u>> \in R
    BY <1>1, <2>2
  <2> QED  BY <2>3 DEF u
<1> DEFINE V == MountAll(T, files, flags)
<1>4. <<n, V>> \in R
  <2> HIDE DEF R
  <2> QED  BY <1>2, <1>3, MountAllIn
<1> HIDE DEF V
<1>5. Finds(V, G)
  BY <1>4
<1> QED  BY <1>5 DEF V

\* Files of different names that get them, by overwriting or because the names
\* are new.
Overwrites(flags) == "OVERWRITE" \in flags /\ "OVERWRITELPKONLY" \notin flags

Named(T, U, files, i) ==
  \A n \in MountNames :
    /\ \A k \in 1..i : files[k].name = n => FindFile(U, n) = files[k]
    /\ (\A k \in 1..i : files[k].name # n) => FindFile(U, n) = FindFile(T, n)

\* The files of a directory get their names.
LEMMA MountAllNames ==
  ASSUME NEW F, Mountable(F), NEW T \in Tables(F), Sane(T), NEW files \in Seq(F), NEW flags,
         \A i, j \in 1..Len(files) : files[i].name = files[j].name => i = j,
         Ok(T) => \/ Overwrites(flags)
                  \/ \A i \in 1..Len(files) : FindFile(T, files[i].name) = Null
  PROVE  LET U == MountAll(T, files, flags)
         IN  Sane(U) /\ (Ok(U) => Ok(T) /\ Named(T, U, files, Len(files)))
<1> DEFINE n == Len(files)
           Good(i, t) == Sane(t) /\ (Ok(t) => Ok(T) /\ Named(T, t, files, i))
           R == {x \in Nat \X Tables(F) : Good(x[1], x[2])}
<1>1. n \in Nat /\ \A i \in 1..n : files[i] \in F
  BY LenProperties, ElementOfSeq
<1>2. <<0, T>> \in R
  <2>1. Named(T, T, files, 0)
    BY DEF Named
  <2> QED  BY <2>1
<1>3. ASSUME NEW i \in 1..n, NEW t \in Tables(F), <<i - 1, t>> \in R
      PROVE  <<i, MountFile(t, files[i], flags)>> \in R
  <2> DEFINE f == files[i]
             u == MountFile(t, f, flags)
  <2>1. Good(i - 1, t) /\ f \in F /\ f.name \in MountNames
    BY <1>1, <1>3 DEF Mountable
  <2>2. u \in Tables(F)
    BY <2>1, MountTypes
  <2>3. /\ Sane(u)
        /\ Ok(u) => /\ Ok(t)
                    /\ \A m \in MountNames :
                         FindFile(u, m) = IF m = f.name /\ Takes(t, f, flags) THEN f ELSE FindFile(t, m)
    BY <2>1, MountSane
  <2> HIDE DEF u
  <2>4. ASSUME Ok(u) PROVE Ok(T) /\ Named(T, u, files, i)
    <3>1. Ok(T) /\ Named(T, t, files, i - 1)
      BY <2>1, <2>3, <2>4
    <3>2. \A k \in 1..i - 1 : k \in 1..n /\ files[k].name # f.name
      BY <1>1
    <3>3. FindFile(t, f.name) = FindFile(T, f.name)
      BY <2>1, <3>1, <3>2 DEF Named
    <3>4. Takes(t, f, flags)
      BY <3>1, <3>3 DEF Takes, MayOverwrite, Overwrites
    <3>5. \A m \in MountNames : FindFile(u, m) = IF m = f.name THEN f ELSE FindFile(t, m)
      BY <2>3, <2>4, <3>4
    <3>6. \A k \in 1..i : k = i \/ k \in 1..i - 1
      BY <1>1
    <3>7. ASSUME NEW m \in MountNames, NEW k \in 1..i, files[k].name = m PROVE FindFile(u, m) = files[k]
      <4>1. CASE k = i
        BY <3>5, <3>7, <4>1
      <4>2. CASE k \in 1..i - 1
        BY <3>1, <3>2, <3>5, <3>7, <4>2 DEF Named
      <4> QED  BY <3>6, <4>1, <4>2
    <3>8. ASSUME NEW m \in MountNames, \A k \in 1..i : files[k].name # m
          PROVE  FindFile(u, m) = FindFile(T, m)
      <4>1. i \in 1..i /\ \A k \in 1..i - 1 : k \in 1..i
        BY <1>1
      <4> QED  BY <3>1, <3>5, <3>8, <4>1 DEF Named
    <3> HIDE DEF f
    <3> QED  BY <3>1, <3>7, <3>8 DEF Named
  <2>5. <<i, u>> \in R
    BY <1>1, <2>2, <2>3, <2>4
  <2> QED  BY <2>5 DEF u
<1> DEFINE V == MountAll(T, files, flags)
<1>4. <<n, V>> \in R
  <2> HIDE DEF R
  <2> QED  BY <1>2, <1>3, MountAllIn
<1> HIDE DEF V
<1>5. Good(n, V)
  BY <1>4
<1> QED  BY <1>5 DEF V

\* Files of one archive take the names that no file on the disk has.
Packed(f, os) == f.os = os /\ "ARCHIVED" \in f.flags

Expanded(T, U, files, i, os) ==
  \A n \in MountNames :
    LET f == FindFile(T, n)
        g == FindFile(U, n)
    IN  /\ f # Null /\ "ARCHIVED" \notin f.flags => g = f
        /\ (\A k \in 1..i : files[k].name # n) => g = f
        /\ (f = Null \/ "ARCHIVED" \in f.flags) /\ (\E k \in 1..i : files[k].name = n) =>
             g # Null /\ Packed(g, os)

\* The files of an archive get those that no file of the disk has.
LEMMA MountAllExpands ==
  ASSUME NEW F, Mountable(F), NEW T \in Tables(F), Sane(T), NEW files \in Seq(F), NEW os,
         \A i \in 1..Len(files) : Packed(files[i], os)
  PROVE  LET U == MountAll(T, files, {"OVERWRITELPKONLY"})
         IN  Sane(U) /\ (Ok(U) => Ok(T) /\ Expanded(T, U, files, Len(files), os))
<1> DEFINE n == Len(files)
           flags == {"OVERWRITELPKONLY"}
           Good(i, t) == Sane(t) /\ (Ok(t) => Ok(T) /\ Expanded(T, t, files, i, os))
           R == {x \in Nat \X Tables(F) : Good(x[1], x[2])}
<1>1. n \in Nat /\ \A i \in 1..n : files[i] \in F
  BY LenProperties, ElementOfSeq
<1>2. <<0, T>> \in R
  <2>1. Expanded(T, T, files, 0, os)
    BY DEF Expanded
  <2> QED  BY <2>1
<1>3. ASSUME NEW i \in 1..n, NEW t \in Tables(F), <<i - 1, t>> \in R
      PROVE  <<i, MountFile(t, files[i], flags)>> \in R
  <2> DEFINE f == files[i]
             u == MountFile(t, f, flags)
  <2>1. Good(i - 1, t) /\ f \in F /\ f.name \in MountNames /\ Packed(f, os) /\ f # Null
    BY <1>1, <1>3 DEF Mountable
  <2>2. u \in Tables(F)
    BY <2>1, MountTypes
  <2>3. /\ Sane(u)
        /\ Ok(u) => /\ Ok(t)
                    /\ \A m \in MountNames :
                         FindFile(u, m) = IF m = f.name /\ Takes(t, f, flags) THEN f ELSE FindFile(t, m)
    BY <2>1, MountSane
  <2>4. \A k \in 1..i : k = i \/ k \in 1..i - 1
    BY <1>1
  <2>5. i \in 1..i /\ \A k \in 1..i - 1 : k \in 1..i
    BY <1>1
  <2>6. Takes(t, f, flags) <=> FindFile(t, f.name) = Null \/ "ARCHIVED" \in FindFile(t, f.name).flags
    BY DEF Takes, MayOverwrite
  <2> HIDE DEF u, f, flags
  <2>7. ASSUME Ok(u) PROVE Ok(T) /\ Expanded(T, u, files, i, os)
    <3>1. Ok(T) /\ Expanded(T, t, files, i - 1, os)
      BY <2>1, <2>3, <2>7
    <3>2. ASSUME NEW m \in MountNames
          PROVE  LET e == FindFile(T, m)
                     g == FindFile(u, m)
                 IN  /\ e # Null /\ "ARCHIVED" \notin e.flags => g = e
                     /\ (\A k \in 1..i : files[k].name # m) => g = e
                     /\ (e = Null \/ "ARCHIVED" \in e.flags) /\ (\E k \in 1..i : files[k].name = m) =>
                          g # Null /\ Packed(g, os)
      <4> DEFINE e == FindFile(T, m)
                 d == FindFile(t, m)
                 g == FindFile(u, m)
      <4>1. g = IF m = f.name /\ Takes(t, f, flags) THEN f ELSE d
        BY <2>3, <2>7
      <4>2. /\ e # Null /\ "ARCHIVED" \notin e.flags => d = e
            /\ (\A k \in 1..i - 1 : files[k].name # m) => d = e
            /\ (e = Null \/ "ARCHIVED" \in e.flags) /\ (\E k \in 1..i - 1 : files[k].name = m) =>
                 d # Null /\ Packed(d, os)
        BY <3>1 DEF Expanded
      <4>3. m = f.name => (Takes(t, f, flags) <=> d = Null \/ "ARCHIVED" \in d.flags)
        BY <2>6
      <4>4. files[i].name = f.name
        BY DEF f
      <4> HIDE DEF e, d, g
      <4>5. e # Null /\ "ARCHIVED" \notin e.flags => g = e
        BY <4>1, <4>2, <4>3
      <4>6. (\A k \in 1..i : files[k].name # m) => g = e
        BY <2>5, <4>1, <4>2, <4>4
      <4>7. ASSUME e = Null \/ "ARCHIVED" \in e.flags, NEW k \in 1..i, files[k].name = m
            PROVE  g # Null /\ Packed(g, os)
        <5>1. CASE m = f.name /\ Takes(t, f, flags)
          BY <2>1, <4>1, <5>1
        <5>2. CASE m = f.name /\ ~Takes(t, f, flags)
          <6>1. d # Null /\ "ARCHIVED" \notin d.flags
            BY <4>3, <5>2
          <6>2. d # e
            BY <4>7, <6>1
          <6>3. \E j \in 1..i - 1 : files[j].name = m
            BY <4>2, <6>2
          <6> QED  BY <4>2, <4>7, <6>1, <6>3 DEF Packed
        <5>3. CASE m # f.name
          <6>1. k \in 1..i - 1
            BY <2>4, <4>4, <4>7, <5>3
          <6> QED  BY <4>1, <4>2, <4>7, <5>3, <6>1
        <5> QED  BY <5>1, <5>2, <5>3
      <4> QED  BY <4>5, <4>6, <4>7 DEF e, g
    <3> QED  BY <3>1, <3>2, Zenon DEF Expanded
  <2>8. <<i, u>> \in R
    BY <1>1, <2>2, <2>3, <2>7
  <2> QED  BY <2>8 DEF u, f
<1> DEFINE V == MountAll(T, files, flags)
<1>4. <<n, V>> \in R
  <2> HIDE DEF R
  <2> QED  BY <1>2, <1>3, MountAllIn
<1> HIDE DEF V
<1>5. Good(n, V)
  BY <1>4
<1> QED  BY <1>5 DEF V

-----------------------------------------------------------------------------
(* Mounting a directory.                                                   *)

\* What is on the disk is there once, and has a name.
DiskOK == IsFiniteSet(DOMAIN disk) /\ DOMAIN disk \subseteq OSFiles

FilesOf(d) == {os \in DOMAIN disk : OSDirOf(os) = d}

\* A directory is listed file by file.
LEMMA DirectoryFiles ==
  ASSUME DiskOK, NEW d
  PROVE  LET n == Len(FilesIn(d))
         IN  /\ n \in Nat /\ DOMAIN FilesIn(d) = 1..n
             /\ \A i \in 1..n : FilesIn(d)[i] \in FilesOf(d)
             /\ \A os \in FilesOf(d) : \E i \in 1..n : FilesIn(d)[i] = os
             /\ \A i, j \in 1..n : FilesIn(d)[i] = FilesIn(d)[j] => i = j
<1> DEFINE S == FilesOf(d)
           c == Cardinality(S)
           q == CHOOSE f \in [1..c -> S] : IsInjective(f)
<1>1. IsFiniteSet(S)
  BY FS_Subset DEF DiskOK, FilesOf
<1>2. c \in Nat /\ ExistsBijection(1..c, S)
  BY <1>1, FS_CardinalityType
<1>3. \E f \in [1..c -> S] : IsInjective(f)
  BY <1>2 DEF ExistsBijection, Bijection, Injection
<1>4. q \in [1..c -> S] /\ IsInjective(q)
  BY <1>3
<1>5. FilesIn(d) = q
  BY DEF FilesIn, SetToSeq, FilesOf
<1> HIDE DEF q, c
<1>6. q \in Injection(1..c, S)
  BY <1>4 DEF Injection
<1>7. Cardinality(1..c) = c
  BY <1>2, FS_Interval
<1>8. q \in Surjection(1..c, S)
  BY <1>1, <1>6, <1>7, FS_Injection DEF c
<1>9. Len(q) = c /\ DOMAIN q = 1..c
  BY <1>2, <1>4
<1>10. \A os \in S : \E i \in 1..c : q[i] = os
  BY <1>8 DEF Surjection
<1>11. \A i, j \in 1..c : q[i] = q[j] => i = j
  BY <1>4, <1>9 DEF IsInjective
<1> QED  BY <1>2, <1>4, <1>5, <1>9, <1>10, <1>11

\* The directories of a mount call are under paths of their own.
LEMMA DirectoryPaths ==
  ASSUME NEW c \in DirCalls, NEW d \in Below(c.dir, c.deep)
  PROVE  /\ d \in OSDirs /\ MountedAt(c.dir, c.at, d) \in PathsOf(d)
         /\ MountedAt(c.dir, c.at, d) \in Paths
         /\ \A e \in Below(c.dir, c.deep) :
              MountedAt(c.dir, c.at, d) = MountedAt(c.dir, c.at, e) => d = e
<1>1. c.dir \in OSDirs /\ c.at \in Seq(STRING) /\ OSDirs \subseteq Seq(STRING)
  <2>1. /\ OSDirs \subseteq Seq(STRING) /\ <<>> \in OSDirs
        /\ Mounts \subseteq OSDirs \X Seq(STRING)
    BY DiskAssumption
  <2>2. CASE c = [kind |-> "dir", dir |-> <<>>, at |-> <<>>, deep |-> FALSE]
    BY <2>1, <2>2, EmptySeq
  <2>3. CASE \E m \in Mounts : c = [kind |-> "dir", dir |-> m[1], at |-> m[2], deep |-> TRUE]
    BY <2>1, <2>3
  <2> QED  BY <2>1, <2>2, <2>3 DEF DirCalls
<1>2. \A e \in Below(c.dir, c.deep) : e \in OSDirs /\ IsPrefix(c.dir, e)
  <2>1. c.dir \in Seq(STRING)
    BY <1>1
  <2>2. IsPrefix(c.dir, c.dir)
    BY <2>1, LenProperties DEF IsPrefix
  <2> QED  BY <1>1, <2>2 DEF Below
<1>3. MountedAt(c.dir, c.at, d) \in PathsOf(d)
  BY DEF PathsOf
<1>4. PathsOf(d) \subseteq Paths
  BY <1>2, DiskAssumption
<1> DEFINE k == Len(c.dir)
           rest(e) == SubSeq(e, k + 1, Len(e))
<1>5. ASSUME NEW e \in Below(c.dir, c.deep)
      PROVE  rest(e) \in Seq(STRING) /\ e = SubSeq(c.dir, 1, k) \o rest(e)
  <2>1. e \in Seq(STRING) /\ c.dir \in Seq(STRING)
    BY <1>1, <1>2
  <2>2. k \in Nat /\ Len(e) \in Nat /\ \A i \in 1..Len(e) : e[i] \in STRING
    BY <2>1, LenProperties, ElementOfSeq
  <2>3. k <= Len(e) /\ SubSeq(e, 1, k) = SubSeq(c.dir, 1, k)
    BY <1>2 DEF IsPrefix
  <2>4. rest(e) \in Seq(STRING)
    <3>1. k + 1 \in Int /\ Len(e) \in Int /\ \A i \in k + 1..Len(e) : e[i] \in STRING
      BY <2>2
    <3> QED  BY <3>1, SubSeqProperties
  <2>5. SubSeq(e, 1, k) \o SubSeq(e, k + 1, Len(e)) = SubSeq(e, 1, Len(e))
    <3>1. 1 \in 1..Len(e) + 1 /\ k \in 1 - 1..Len(e) /\ Len(e) \in k..Len(e)
      BY <2>2, <2>3
    <3> QED  BY ONLY <2>1, <3>1, ConcatAdjacentSubSeq
  <2>6. SubSeq(e, 1, Len(e)) = e
    BY <2>1, SubSeqFull
  <2> QED  BY <2>3, <2>4, <2>5, <2>6
<1>6. ASSUME NEW e \in Below(c.dir, c.deep), MountedAt(c.dir, c.at, d) = MountedAt(c.dir, c.at, e)
      PROVE  d = e
  <2>1. c.at \o rest(d) = c.at \o rest(e)
    BY <1>6 DEF MountedAt
  <2> HIDE DEF rest
  <2>2. rest(d) = rest(e)
    BY <1>1, <1>5, <2>1, ConcatSimplifications
  <2> QED  BY <1>5, <2>2
<1> QED  BY <1>2, <1>3, <1>4, <1>6

\* What a directory puts on offer when it is mounted under m.
Offers(d, m, n) == n[1] = m /\ (n[2] = "" \/ <<d, n[2]>> \in DOMAIN disk)

Offered(d, n) == IF n[2] = "" THEN DirInfo(d, n[1]) ELSE DiskInfo(<<d, n[2]>>, n[1])

Holds(F, d, m) == DirInfo(d, m) \in F /\ \A os \in FilesOf(d) : DiskInfo(os, m) \in F

Infos(d, m) == [i \in DOMAIN FilesIn(d) |-> DiskInfo(FilesIn(d)[i], m)]

\* The entries of a directory's files: one for each, of names of their own.
LEMMA DirectoryInfos ==
  ASSUME DiskOK, NEW F, NEW d, NEW m, Holds(F, d, m)
  PROVE  /\ Infos(d, m) \in Seq(F)
         /\ \A i \in 1..Len(Infos(d, m)) : \E os \in FilesOf(d) :
              Infos(d, m)[i] = DiskInfo(os, m) /\ os[2] # "" /\ os = <<d, os[2]>>
         /\ \A os \in FilesOf(d) : \E i \in 1..Len(Infos(d, m)) : Infos(d, m)[i] = DiskInfo(os, m)
         /\ \A i, j \in 1..Len(Infos(d, m)) : Infos(d, m)[i].name = Infos(d, m)[j].name => i = j
<1> DEFINE q == FilesIn(d)
           n == Len(q)
           f == Infos(d, m)
<1>1. /\ n \in Nat /\ DOMAIN q = 1..n
      /\ \A i \in 1..n : q[i] \in FilesOf(d)
      /\ \A os \in FilesOf(d) : \E i \in 1..n : q[i] = os
      /\ \A i, j \in 1..n : q[i] = q[j] => i = j
  BY DirectoryFiles
<1> HIDE DEF q, n
<1>2. f = [i \in 1..n |-> DiskInfo(q[i], m)]
  BY <1>1 DEF Infos, q
<1> HIDE DEF f
<1>3. f \in [1..n -> F]
  BY <1>1, <1>2 DEF Holds
<1>4. f \in Seq(F) /\ Len(f) = n
  BY <1>1, <1>3, SeqDef
<1>5. \A os \in FilesOf(d) : os[2] # "" /\ os = <<d, os[2]>>
  <2>1. ASSUME NEW os \in FilesOf(d) PROVE os[2] # "" /\ os = <<d, os[2]>>
    <3>1. os \in OSFiles /\ os[1] = d
      BY DEF FilesOf, DiskOK, OSDirOf
    <3>2. os[1] \in OSDirs /\ os[2] \in FileNames \ {""} /\ os = <<os[1], os[2]>>
      BY <3>1, PairParts DEF OSFiles
    <3> QED  BY <3>1, <3>2
  <2> QED  BY <2>1
<1>6. \A i, j \in 1..n : f[i].name = f[j].name => i = j
  <2>1. \A i \in 1..n : f[i].name = <<m, q[i][2]>>
    BY <1>2 DEF DiskInfo, MountInfo
  <2>2. ASSUME NEW i \in 1..n, NEW j \in 1..n, f[i].name = f[j].name PROVE q[i] = q[j]
    <3>1. q[i][2] = q[j][2]
      BY <2>1, <2>2
    <3>2. q[i] = <<d, q[i][2]>> /\ q[j] = <<d, q[j][2]>>
      BY <1>1, <1>5
    <3> QED  BY <3>1, <3>2
  <2> QED  BY <1>1, <2>2
<1>7. \A i \in 1..n : q[i] \in FilesOf(d) /\ f[i] = DiskInfo(q[i], m)
  BY <1>1, <1>2
<1>8. \A os \in FilesOf(d) : \E i \in 1..n : f[i] = DiskInfo(os, m)
  BY <1>1, <1>7
<1> QED  BY <1>4, <1>5, <1>6, <1>7, <1>8 DEF f

\* The directory's own entry goes first, its files follow.
LEMMA OneDirSteps ==
  ASSUME NEW T, NEW d, NEW m, NEW flags
  PROVE  MountOneDir(T, d, m, flags) =
           IF CanMount(T, DirInfo(d, m), flags)
           THEN MountAll(MountFile(T, DirInfo(d, m), flags), Infos(d, m), flags)
           ELSE MountFile(T, DirInfo(d, m), flags)
BY DEF MountOneDir, Infos

\* Mounting a directory leaves a table of such files and takes nothing back.
LEMMA OneDirTypes ==
  ASSUME DiskOK, NEW F, Mountable(F), NEW T \in Tables(F), NEW d, NEW m, Holds(F, d, m), NEW flags
  PROVE  MountOneDir(T, d, m, flags) \in Tables(F) /\ Leads(T, MountOneDir(T, d, m, flags))
<1> DEFINE V == MountFile(T, DirInfo(d, m), flags)
           W == MountAll(V, Infos(d, m), flags)
<1>1. V \in Tables(F) /\ Leads(T, V)
  BY MountTypes DEF Holds
<1>2. Infos(d, m) \in Seq(F)
  BY DirectoryInfos
<1>3. MountOneDir(T, d, m, flags) = W \/ MountOneDir(T, d, m, flags) = V
  BY OneDirSteps
<1> HIDE DEF V
<1>4. W \in Tables(F) /\ Leads(V, W)
  BY <1>1, <1>2, MountAllTypes
<1> HIDE DEF W
<1>5. Leads(T, W)
  BY <1>1, <1>4, LeadsOn
<1> QED  BY <1>1, <1>3, <1>4, <1>5

\* Whatever is found was there before or is of the directory.
LEMMA OneDirFinds ==
  ASSUME DiskOK, NEW F, Mountable(F), NEW T \in Tables(F), NEW d, NEW m, Holds(F, d, m), NEW flags,
         NEW G, Holds(G, d, m), Finds(T, G)
  PROVE  Finds(MountOneDir(T, d, m, flags), G)
<1> DEFINE V == MountFile(T, DirInfo(d, m), flags)
           W == MountAll(V, Infos(d, m), flags)
<1>1. V \in Tables(F) /\ Finds(V, G)
  BY MountTypes, MountFinds DEF Holds
<1>2. Infos(d, m) \in Seq(F) /\ \A i \in 1..Len(Infos(d, m)) : Infos(d, m)[i] \in G
  <2>1. Infos(d, m) \in Seq(G)
    BY DirectoryInfos
  <2> QED  BY <2>1, DirectoryInfos, ElementOfSeq
<1>3. MountOneDir(T, d, m, flags) = W \/ MountOneDir(T, d, m, flags) = V
  BY OneDirSteps
<1> HIDE DEF V
<1>4. Finds(W, G)
  BY <1>1, <1>2, MountAllFinds
<1> QED  BY <1>1, <1>3, <1>4

\* A directory's names lead into it, and the others where they led.
LEMMA OneDirNames ==
  ASSUME DiskOK, NEW F, Mountable(F), NEW T \in Tables(F), Sane(T), NEW d, NEW m, Holds(F, d, m),
         NEW flags,
         Ok(T) => \/ Overwrites(flags)
                  \/ \A n \in MountNames : Offers(d, m, n) => FindFile(T, n) = Null
  PROVE  LET U == MountOneDir(T, d, m, flags)
         IN  /\ Sane(U)
             /\ Ok(U) => /\ Ok(T) /\ CanMount(T, DirInfo(d, m), flags)
                         /\ \A n \in MountNames :
                              FindFile(U, n) = IF Offers(d, m, n) THEN Offered(d, n) ELSE FindFile(T, n)
<1> DEFINE D == DirInfo(d, m)
           V == MountFile(T, D, flags)
           q == Infos(d, m)
           W == MountAll(V, q, flags)
           U == MountOneDir(T, d, m, flags)
<1>1. D \in F /\ D.name = <<m, "">> /\ <<m, "">> \in MountNames
  BY DEF Holds, DirInfo, MountInfo, Mountable
<1> HIDE DEF D
<1>2. V \in Tables(F)
  BY <1>1, MountTypes
<1>3. /\ Sane(V)
      /\ Ok(V) => /\ Ok(T) /\ (CanMount(T, D, flags) <=> Takes(T, D, flags))
                  /\ \A n \in MountNames :
                       FindFile(V, n) = IF n = D.name /\ Takes(T, D, flags) THEN D ELSE FindFile(T, n)
  <2>1. ASSUME NEW u, u = MountFile(T, D, flags)
        PROVE  /\ Sane(u)
               /\ Ok(u) => /\ Ok(T) /\ (CanMount(T, D, flags) <=> Takes(T, D, flags))
                           /\ \A n \in MountNames :
                                FindFile(u, n) = IF n = D.name /\ Takes(T, D, flags) THEN D ELSE FindFile(T, n)
    <3>1. D \in F
      BY <1>1
    <3> QED  BY ONLY Mountable(F), T \in Tables(F), Sane(T), <3>1, <2>1, MountSane, SMTT(60)
  <2> QED  BY <2>1, Zenon
<1>4. U = IF CanMount(T, D, flags) THEN W ELSE V
  BY OneDirSteps DEF D
<1>5. /\ q \in Seq(F)
      /\ \A i \in 1..Len(q) : \E os \in FilesOf(d) :
           q[i] = DiskInfo(os, m) /\ os[2] # "" /\ os = <<d, os[2]>>
      /\ \A os \in FilesOf(d) : \E i \in 1..Len(q) : q[i] = DiskInfo(os, m)
      /\ \A i, j \in 1..Len(q) : q[i].name = q[j].name => i = j
  BY DirectoryInfos
<1> HIDE DEF V, q, U, W
<1>6. Offers(d, m, <<m, "">>)
  BY DEF Offers
<1>7. Ok(V) => Takes(T, D, flags)
  BY <1>1, <1>3, <1>6 DEF Takes, MayOverwrite, Overwrites
<1>8. CASE ~CanMount(T, D, flags)
  BY <1>3, <1>4, <1>7, <1>8 DEF U, D
<1>9. CASE CanMount(T, D, flags)
  <2>1. ASSUME Ok(V), NEW n \in MountNames
        PROVE  FindFile(V, n) = IF n = <<m, "">> THEN D ELSE FindFile(T, n)
    BY <1>1, <1>3, <1>7, <2>1
  <2>2. ASSUME NEW i \in 1..Len(q)
        PROVE  q[i].name \in MountNames /\ q[i].name # <<m, "">> /\ Offers(d, m, q[i].name)
    <3>1. PICK os \in FilesOf(d) : q[i] = DiskInfo(os, m) /\ os[2] # "" /\ os = <<d, os[2]>>
      BY <1>5
    <3>2. DiskInfo(os, m).name = <<m, os[2]>>
      BY DEF DiskInfo, MountInfo
    <3>3. <<d, os[2]>> \in DOMAIN disk
      BY <3>1 DEF FilesOf
    <3>4. q[i].name \in MountNames
      BY <1>5, ElementOfSeq DEF Mountable
    <3>5. q[i].name = <<m, os[2]>> /\ os[2] # ""
      BY <3>1, <3>2, Zenon
    <3>6. Offers(d, m, <<m, os[2]>>)
      BY <3>3 DEF Offers
    <3>7. <<m, os[2]>> # <<m, "">>
      BY <3>5
    <3> QED  BY <3>4, <3>5, <3>6, <3>7, Zenon
  <2>3. Ok(V) => \/ Overwrites(flags)
                 \/ \A i \in 1..Len(q) : FindFile(V, q[i].name) = Null
    BY <1>3, <2>1, <2>2
  <2>4. Sane(W) /\ (Ok(W) => Ok(V) /\ Named(V, W, q, Len(q)))
    BY <1>2, <1>3, <1>5, <2>3, MountAllNames DEF W
  <2>5. ASSUME Ok(W), NEW n \in MountNames
        PROVE  FindFile(W, n) = IF Offers(d, m, n) THEN Offered(d, n) ELSE FindFile(T, n)
    <3>1. n = <<n[1], n[2]>>
      BY PairParts DEF MountNames
    <3>2. /\ \A k \in 1..Len(q) : q[k].name = n => FindFile(W, n) = q[k]
          /\ (\A k \in 1..Len(q) : q[k].name # n) => FindFile(W, n) = FindFile(V, n)
      BY <2>4, <2>5 DEF Named
    <3>3. FindFile(V, n) = IF n = <<m, "">> THEN D ELSE FindFile(T, n)
      BY <2>1, <2>4, <2>5
    <3>4. CASE n = <<m, "">>
      <4>1. FindFile(W, n) = D
        BY <2>2, <3>2, <3>3, <3>4
      <4> QED  BY <1>6, <3>4, <4>1 DEF Offered, D
    <3>5. CASE n # <<m, "">> /\ Offers(d, m, n)
      <4>1. n[1] = m /\ n[2] # "" /\ <<d, n[2]>> \in DOMAIN disk
        BY <3>1, <3>5 DEF Offers
      <4> DEFINE os == <<d, n[2]>>
      <4>2. os \in FilesOf(d) /\ DiskInfo(os, m).name = n
        BY <3>1, <4>1 DEF FilesOf, OSDirOf, DiskInfo, MountInfo
      <4>3. FindFile(W, n) = DiskInfo(os, m)
        BY <1>5, <3>2, <4>2
      <4> QED  BY <3>5, <4>1, <4>3 DEF Offered
    <3>6. CASE n # <<m, "">> /\ ~Offers(d, m, n)
      BY <2>2, <3>2, <3>3, <3>6
    <3> QED  BY <3>4, <3>5, <3>6
  <2>6. Ok(W) => Ok(T)
    BY <1>3, <2>4
  <2>7. U = W
    BY <1>4, <1>9
  <2>8. Sane(U) /\ (Ok(U) => Ok(T) /\ \A n \in MountNames :
                      FindFile(U, n) = IF Offers(d, m, n) THEN Offered(d, n) ELSE FindFile(T, n))
    BY <2>4, <2>5, <2>6, <2>7, Zenon
  <2> QED  BY <1>9, <2>8 DEF U, D
<1> QED  BY <1>8, <1>9

-----------------------------------------------------------------------------
(* Mounting the directories of a call.                                     *)

Under(c, d) == MountedAt(c.dir, c.at, d)

\* A step of MountDir.
VisitStep(acc, d, c, flags) ==
  IF \E s \in acc.skipped : IsPrefix(s, d) THEN acc
  ELSE [t |-> MountOneDir(acc.t, d, Under(c, d), flags),
        skipped |-> IF CanMount(acc.t, DirInfo(d, Under(c, d)), flags)
                    THEN acc.skipped ELSE acc.skipped \cup {d}]

Visits(F) == [t : Tables(F), skipped : SUBSET OSDirs]

AllHold(F, c) == \A d \in Below(c.dir, c.deep) : Holds(F, d, Under(c, d))

\* A mount call finds all the directories there are, in some order.
Lists(listing, c) ==
  /\ listing \in Seq(OSDirs)
  /\ \A i \in 1..Len(listing) : listing[i] \in Below(c.dir, c.deep)
  /\ \A d \in Below(c.dir, c.deep) : \E i \in 1..Len(listing) : listing[i] = d

\* What holds at first and is kept by every step.
Keeps(R, F, T, listing, c, flags) ==
  /\ <<0, [t |-> T, skipped |-> {}]>> \in R
  /\ \A i \in 1..Len(listing) : \A acc \in Visits(F) :
       <<i - 1, acc>> \in R => <<i, VisitStep(acc, listing[i], c, flags)>> \in R

Reaches(R, F, T, listing, c, flags) ==
  \E acc \in Visits(F) :
    <<Len(listing), acc>> \in R /\ MountDir(T, listing, c.dir, c.at, flags) = acc.t

\* What holds at first and is kept by visiting a directory holds after all of them.
LEMMA MountDirIn ==
  ASSUME DiskOK, NEW F, Mountable(F), NEW T \in Tables(F), NEW listing, NEW c, Lists(listing, c),
         AllHold(F, c), NEW flags, NEW R, Keeps(R, F, T, listing, c, flags)
  PROVE  Reaches(R, F, T, listing, c, flags)
<1> DEFINE n == Len(listing)
           P == Visits(F)
           start == [t |-> T, skipped |-> {}]
           step(acc, i) == VisitStep(acc, listing[i], c, flags)
           op == [x \in P \X (1..n) |-> step(x[1], x[2])]
           Follows(f) == f = [i \in 0..n |-> IF i = 0 THEN start ELSE step(f[i - 1], i)]
<1>1. /\ n \in Nat
      /\ \A i \in 1..n : listing[i] \in OSDirs /\ Holds(F, listing[i], Under(c, listing[i]))
  BY LenProperties, ElementOfSeq DEF Lists, AllHold
<1>2. ASSUME NEW acc \in P, NEW i \in 1..n PROVE step(acc, i) \in P
  <2> DEFINE d == listing[i]
             m == Under(c, d)
             u == MountOneDir(acc.t, d, m, flags)
  <2>1. /\ acc.t \in Tables(F) /\ acc.skipped \in SUBSET OSDirs /\ d \in OSDirs
        /\ Holds(F, d, m)
    BY <1>1 DEF Visits
  <2>2. u \in Tables(F)
    BY <2>1, OneDirTypes
  <2> HIDE DEF u
  <2>3. \A q \in SUBSET OSDirs : [t |-> u, skipped |-> q] \in P
    BY <2>2 DEF Visits
  <2>4. acc.skipped \cup {d} \in SUBSET OSDirs
    BY <2>1
  <2> HIDE DEF P, d
  <2>5. step(acc, i) \in {acc, [t |-> u, skipped |-> acc.skipped], [t |-> u, skipped |-> acc.skipped \cup {d}]}
    BY DEF VisitStep, u, d
  <2> QED  BY <2>1, <2>3, <2>4, <2>5
<1>3. start \in P
  BY DEF Visits
<1> HIDE DEF P, step, n, start
<1>4. op \in [P \X (1..n) -> P] /\ \A t \in P, i \in 1..n : op[<<t, i>>] = step(t, i)
  BY <1>2
<1> HIDE DEF op
<1>5. PICK g : Iterates(g, P, start, n, op)
  BY <1>1, <1>3, <1>4, Iteration
<1>6. ASSUME NEW i \in 0..n PROVE g[i] = IF i = 0 THEN start ELSE step(g[i - 1], i)
  <2>1. CASE i = 0
    BY <1>5, <2>1 DEF Iterates
  <2>2. CASE i # 0
    <3>1. i \in 1..n /\ i - 1 \in 0..n
      BY <1>1, <2>2
    <3>2. g[i] = op[<<g[i - 1], i>>] /\ g[i - 1] \in P
      BY <1>5, <2>2, <3>1 DEF Iterates
    <3> QED  BY <1>4, <2>2, <3>1, <3>2
  <2> QED  BY <2>1, <2>2
<1>7. Follows(g)
  <2>1. g \in [0..n -> P]
    BY <1>5 DEF Iterates
  <2> QED  BY <1>6, <2>1
<1> DEFINE v == CHOOSE f : Follows(f)
<1>8. MountDir(T, listing, c.dir, c.at, flags) = v[n].t
  BY DEF MountDir, n, step, start, VisitStep, Under
<1>9. Follows(v)
  BY <1>7
<1> HIDE DEF v
<1>10. \A i \in 0..n : v[i] = IF i = 0 THEN start ELSE step(v[i - 1], i)
  BY <1>9, Zenon
<1> HIDE DEF Follows
<1>11. v[0] = start /\ \A i \in 1..n : v[i] = step(v[i - 1], i)
  <2>1. \A i \in 1..n : i \in 0..n /\ i # 0
    BY <1>1
  <2>2. 0 \in 0..n
    BY <1>1
  <2> QED  BY <1>10, <2>1, <2>2
<1> DEFINE S == {i \in 0..n : v[i] \in P /\ <<i, v[i]>> \in R}
<1>12. 0 \in S
  <2>1. 0 \in 0..n
    BY <1>1
  <2>2. <<0, start>> \in R
    BY DEF start, Keeps
  <2> QED  BY <1>3, <1>11, <2>1, <2>2
<1>13. ASSUME NEW i \in 1..n, i - 1 \in S PROVE i \in S
  <2>1. i \in 0..n /\ v[i - 1] \in P /\ <<i - 1, v[i - 1]>> \in R
    BY <1>1, <1>13
  <2>2. v[i] \in P
    BY <1>2, <1>11, <2>1
  <2>3. <<i, v[i]>> \in R
    BY <1>11, <2>1 DEF P, n, step, Keeps
  <2> QED  BY <2>1, <2>2, <2>3
<1> HIDE DEF S
<1>14. 0..n \subseteq S
  BY <1>1, <1>12, <1>13, IntervalInduction
<1>15. n \in S
  BY <1>1, <1>14
<1>16. v[n] \in P /\ <<n, v[n]>> \in R
  BY <1>15 DEF S
<1> QED  BY <1>8, <1>16 DEF P, n, Reaches

\* A directory is passed over, or it is mounted.
Visiting(u, acc, F, d, c, flags) ==
  /\ u \in Visits(F) /\ acc.t \in Tables(F)
  /\ \/ u = acc /\ \E s \in acc.skipped : IsPrefix(s, d)
     \/ /\ u.t = MountOneDir(acc.t, d, Under(c, d), flags)
        /\ CanMount(acc.t, DirInfo(d, Under(c, d)), flags) => u.skipped = acc.skipped

\* A visit does what Visiting says.
LEMMA VisitFields ==
  ASSUME DiskOK, NEW F, Mountable(F), NEW acc \in Visits(F), NEW c, NEW flags,
         NEW d \in OSDirs, Holds(F, d, Under(c, d))
  PROVE  Visiting(VisitStep(acc, d, c, flags), acc, F, d, c, flags)
<1> DEFINE m == Under(c, d)
           t == MountOneDir(acc.t, d, m, flags)
           q == IF CanMount(acc.t, DirInfo(d, m), flags) THEN acc.skipped ELSE acc.skipped \cup {d}
           u == VisitStep(acc, d, c, flags)
<1>1. acc.t \in Tables(F) /\ acc.skipped \in SUBSET OSDirs
  BY DEF Visits
<1>2. t \in Tables(F)
  BY <1>1, OneDirTypes
<1>3. q \in SUBSET OSDirs
  BY <1>1
<1>4. u = IF \E s \in acc.skipped : IsPrefix(s, d) THEN acc ELSE [t |-> t, skipped |-> q]
  BY DEF VisitStep, Under
<1>5. CanMount(acc.t, DirInfo(d, m), flags) => q = acc.skipped
  OBVIOUS
<1> HIDE DEF t, q, u
<1>6. CASE \E s \in acc.skipped : IsPrefix(s, d)
  BY <1>1, <1>4, <1>6 DEF u, Visiting
<1>7. CASE ~ \E s \in acc.skipped : IsPrefix(s, d)
  <2>1. u = [t |-> t, skipped |-> q]
    BY <1>4, <1>7
  <2>2. u \in Visits(F) /\ u.t = t /\ u.skipped = q
    BY <1>2, <1>3, <2>1 DEF Visits
  <2> QED  BY <1>1, <1>5, <2>2 DEF u, t, Visiting
<1> QED  BY <1>6, <1>7

\* MountDir leaves a table of such files and takes nothing back.
LEMMA MountDirTypes ==
  ASSUME DiskOK, NEW F, Mountable(F), NEW T \in Tables(F), NEW c, NEW listing, Lists(listing, c),
         AllHold(F, c), NEW flags
  PROVE  LET U == MountDir(T, listing, c.dir, c.at, flags) IN U \in Tables(F) /\ Leads(T, U)
<1> DEFINE R == {x \in Nat \X Visits(F) : Leads(T, x[2].t)}
<1>1. /\ listing \in Seq(OSDirs) /\ Len(listing) \in Nat
      /\ \A i \in 1..Len(listing) : listing[i] \in OSDirs /\ Holds(F, listing[i], Under(c, listing[i]))
  BY LenProperties, ElementOfSeq DEF Lists, AllHold
<1> DEFINE w == [t |-> T, skipped |-> {}]
<1>2. w \in Visits(F) /\ w.t = T
  BY DEF Visits
<1>3. <<0, w>> \in R
  <2> HIDE DEF w
  <2> QED  BY <1>2, LeadsOn
<1>4. ASSUME NEW i \in 1..Len(listing), NEW acc \in Visits(F), <<i - 1, acc>> \in R
      PROVE  <<i, VisitStep(acc, listing[i], c, flags)>> \in R
  <2> DEFINE d == listing[i]
             u == VisitStep(acc, d, c, flags)
             o == MountOneDir(acc.t, d, Under(c, d), flags)
  <2>1. /\ u \in Visits(F) /\ acc.t \in Tables(F)
        /\ u = acc \/ u.t = o
    <3>1. Visiting(u, acc, F, d, c, flags)
      BY <1>1, VisitFields
    <3> QED  BY <3>1 DEF Visiting
  <2>2. o \in Tables(F) /\ Leads(acc.t, o)
    BY <1>1, <2>1, OneDirTypes
  <2>3. Leads(T, acc.t)
    BY <1>4
  <2> HIDE DEF u, o
  <2>4. Leads(T, u.t)
    BY <2>1, <2>2, <2>3, LeadsOn
  <2>5. <<i, u>> \in R
    BY <1>1, <2>1, <2>4
  <2> QED  BY <2>5 DEF u
<1>5. Keeps(R, F, T, listing, c, flags)
  BY <1>3, <1>4 DEF Keeps
<1> HIDE DEF R
<1>6. PICK acc \in Visits(F) : <<Len(listing), acc>> \in R
                               /\ MountDir(T, listing, c.dir, c.at, flags) = acc.t
  BY <1>5, MountDirIn DEF Reaches
<1>7. acc.t \in Tables(F) /\ Leads(T, acc.t)
  BY <1>6 DEF R, Visits
<1> QED  BY <1>6, <1>7, Zenon

\* Whatever is found was there before or is of one of the directories.
LEMMA MountDirFinds ==
  ASSUME DiskOK, NEW F, Mountable(F), NEW T \in Tables(F), NEW c, NEW listing, Lists(listing, c),
         AllHold(F, c), NEW flags, NEW G, AllHold(G, c), Finds(T, G)
  PROVE  Finds(MountDir(T, listing, c.dir, c.at, flags), G)
<1> DEFINE R == {x \in Nat \X Visits(F) : Finds(x[2].t, G)}
<1>1. /\ listing \in Seq(OSDirs) /\ Len(listing) \in Nat
      /\ \A i \in 1..Len(listing) : /\ listing[i] \in OSDirs
                                    /\ Holds(F, listing[i], Under(c, listing[i]))
                                    /\ Holds(G, listing[i], Under(c, listing[i]))
  BY LenProperties, ElementOfSeq DEF Lists, AllHold
<1> DEFINE w == [t |-> T, skipped |-> {}]
<1>2. w \in Visits(F) /\ w.t = T
  BY DEF Visits
<1>3. <<0, w>> \in R
  <2> HIDE DEF w
  <2> QED  BY <1>2
<1>4. ASSUME NEW i \in 1..Len(listing), NEW acc \in Visits(F), <<i - 1, acc>> \in R
      PROVE  <<i, VisitStep(acc, listing[i], c, flags)>> \in R
  <2> DEFINE d == listing[i]
             u == VisitStep(acc, d, c, flags)
             o == MountOneDir(acc.t, d, Under(c, d), flags)
  <2>1. /\ u \in Visits(F) /\ acc.t \in Tables(F)
        /\ u = acc \/ u.t = o
    <3>1. Visiting(u, acc, F, d, c, flags)
      BY <1>1, VisitFields
    <3> QED  BY <3>1 DEF Visiting
  <2>3. Finds(acc.t, G)
    BY <1>4
  <2>2. Finds(o, G)
    BY <1>1, <2>1, <2>3, OneDirFinds
  <2> HIDE DEF u, o
  <2>4. Finds(u.t, G)
    BY <2>1, <2>2, <2>3
  <2>5. <<i, u>> \in R
    BY <1>1, <2>1, <2>4
  <2> QED  BY <2>5 DEF u
<1>5. Keeps(R, F, T, listing, c, flags)
  BY <1>3, <1>4 DEF Keeps
<1> HIDE DEF R
<1>6. PICK acc \in Visits(F) : <<Len(listing), acc>> \in R
                               /\ MountDir(T, listing, c.dir, c.at, flags) = acc.t
  BY <1>5, MountDirIn DEF Reaches
<1>7. Finds(acc.t, G)
  BY <1>6 DEF R
<1> QED  BY <1>6, <1>7, Zenon

\* The names in the directories of a call lead to what they hold.
Listed(T, U, listing, c, i) ==
  \A n \in MountNames :
    /\ \A k \in 1..i : Offers(listing[k], Under(c, listing[k]), n) => FindFile(U, n) = Offered(listing[k], n)
    /\ (\A k \in 1..i : ~Offers(listing[k], Under(c, listing[k]), n)) => FindFile(U, n) = FindFile(T, n)

\* After MountDir the names of its directories lead into them.
LEMMA MountDirNames ==
  ASSUME DiskOK, NEW F, Mountable(F), NEW T \in Tables(F), Sane(T), NEW c \in DirCalls,
         NEW listing, Lists(listing, c), AllHold(F, c), NEW flags,
         \/ Overwrites(flags)
         \/ Len(listing) = 1 /\ (Ok(T) => \A n \in MountNames : FindFile(T, n) = Null)
  PROVE  LET U == MountDir(T, listing, c.dir, c.at, flags)
         IN  Sane(U) /\ (Ok(U) => Ok(T) /\ Listed(T, U, listing, c, Len(listing)))
<1> DEFINE Good(i, acc) == Sane(acc.t) /\ (Ok(acc.t) => Ok(T) /\ acc.skipped = {} /\ Listed(T, acc.t, listing, c, i))
           R == {x \in Nat \X Visits(F) : Good(x[1], x[2])}
<1>1. /\ listing \in Seq(OSDirs) /\ Len(listing) \in Nat
      /\ \A i \in 1..Len(listing) : /\ listing[i] \in OSDirs /\ listing[i] \in Below(c.dir, c.deep)
                                    /\ Holds(F, listing[i], Under(c, listing[i]))
  BY LenProperties, ElementOfSeq DEF Lists, AllHold
<1> DEFINE w == [t |-> T, skipped |-> {}]
<1>2. w \in Visits(F) /\ w.t = T /\ w.skipped = {}
  BY DEF Visits
<1>3. <<0, w>> \in R
  <2> HIDE DEF w
  <2>1. Listed(T, T, listing, c, 0)
    BY DEF Listed
  <2>2. Good(0, w)
    BY <1>2, <2>1
  <2> HIDE DEF Good
  <2> QED  BY <1>2, <2>2
<1>4. ASSUME NEW i \in 1..Len(listing), NEW acc \in Visits(F), <<i - 1, acc>> \in R
      PROVE  <<i, VisitStep(acc, listing[i], c, flags)>> \in R
  <2> DEFINE d == listing[i]
             m == Under(c, d)
             u == VisitStep(acc, d, c, flags)
             o == MountOneDir(acc.t, d, m, flags)
  <2>1. /\ u \in Visits(F) /\ acc.t \in Tables(F)
        /\ \/ u = acc /\ \E s \in acc.skipped : IsPrefix(s, d)
           \/ u.t = o /\ (CanMount(acc.t, DirInfo(d, m), flags) => u.skipped = acc.skipped)
    <3>1. Visiting(u, acc, F, d, c, flags)
      BY <1>1, VisitFields
    <3> QED  BY <3>1 DEF Visiting
  <2>2. Good(i - 1, acc)
    BY <1>4
  <2>3. Ok(acc.t) => \/ Overwrites(flags)
                     \/ \A n \in MountNames : Offers(d, m, n) => FindFile(acc.t, n) = Null
    <3>1. CASE Len(listing) = 1 /\ (Ok(T) => \A n \in MountNames : FindFile(T, n) = Null)
      <4>1. i - 1 = 0
        BY <1>1, <3>1
      <4>2. Ok(acc.t) => Ok(T) /\ Listed(T, acc.t, listing, c, 0)
        BY <2>2, <4>1
      <4>3. Ok(acc.t) => \A n \in MountNames : FindFile(acc.t, n) = FindFile(T, n)
        BY <4>2 DEF Listed
      <4> QED  BY <3>1, <4>2, <4>3
    <3> QED  BY <3>1
  <2>4. /\ Sane(o)
        /\ Ok(o) => /\ Ok(acc.t) /\ CanMount(acc.t, DirInfo(d, m), flags)
                    /\ \A n \in MountNames :
                         FindFile(o, n) = IF Offers(d, m, n) THEN Offered(d, n) ELSE FindFile(acc.t, n)
    <3>1. Sane(acc.t) /\ Holds(F, d, m)
      BY <1>1, <2>2
    <3> QED  BY ONLY DiskOK, Mountable(F), <2>1, <2>3, <3>1, OneDirNames, SMTT(30)
  <2> HIDE DEF o, u
  <2>5. ASSUME Ok(u.t) PROVE Ok(T) /\ u.skipped = {} /\ Listed(T, u.t, listing, c, i)
    <3>1. u.t = o /\ (CanMount(acc.t, DirInfo(d, m), flags) => u.skipped = acc.skipped)
      <4>1. u = acc => acc.skipped = {}
        BY <2>2, <2>5
      <4> QED  BY <2>1, <4>1
    <3>2. /\ Ok(acc.t) /\ CanMount(acc.t, DirInfo(d, m), flags)
          /\ \A n \in MountNames :
               FindFile(o, n) = IF Offers(d, m, n) THEN Offered(d, n) ELSE FindFile(acc.t, n)
      BY <2>4, <2>5, <3>1
    <3>3. Ok(T) /\ acc.skipped = {} /\ Listed(T, acc.t, listing, c, i - 1)
      BY <2>2, <3>2
    <3>4. ASSUME NEW n \in MountNames, NEW k \in 1..i, Offers(listing[k], Under(c, listing[k]), n)
          PROVE  FindFile(o, n) = Offered(listing[k], n)
      <4>1. CASE Offers(d, m, n)
        <5>1. k \in 1..Len(listing) /\ listing[k] \in Below(c.dir, c.deep) /\ d \in Below(c.dir, c.deep)
          BY <1>1
        <5>2. Under(c, listing[k]) = n[1] /\ m = n[1]
          BY <3>4, <4>1 DEF Offers
        <5>3. listing[k] = d
          BY <5>1, <5>2, DirectoryPaths DEF Under
        <5> QED  BY <3>2, <4>1, <5>3
      <4>2. CASE ~Offers(d, m, n)
        <5>1. k \in 1..i - 1
          BY <1>1, <3>4, <4>2
        <5> QED  BY <3>2, <3>3, <3>4, <4>2, <5>1 DEF Listed
      <4> QED  BY <4>1, <4>2
    <3>5. ASSUME NEW n \in MountNames, \A k \in 1..i : ~Offers(listing[k], Under(c, listing[k]), n)
          PROVE  FindFile(o, n) = FindFile(T, n)
      <4>1. i \in 1..i /\ \A k \in 1..i - 1 : k \in 1..i
        BY <1>1
      <4> QED  BY <3>2, <3>3, <3>5, <4>1 DEF Listed
    <3>6. Listed(T, o, listing, c, i)
      BY <3>4, <3>5 DEF Listed
    <3> QED  BY <3>1, <3>2, <3>3, <3>6
  <2>6. Sane(u.t)
    BY <2>1, <2>2, <2>4
  <2>7. Good(i, u)
    BY <2>5, <2>6
  <2> HIDE DEF Good
  <2>8. <<i, u>> \in R
    BY <1>1, <2>1, <2>7
  <2> QED  BY <2>8 DEF u
<1>5. Keeps(R, F, T, listing, c, flags)
  BY <1>3, <1>4 DEF Keeps
<1> HIDE DEF R
<1>6. PICK acc \in Visits(F) : <<Len(listing), acc>> \in R
                               /\ MountDir(T, listing, c.dir, c.at, flags) = acc.t
  BY <1>5, MountDirIn DEF Reaches
<1>7. Good(Len(listing), acc)
  BY <1>6 DEF R
<1> QED  BY <1>6, <1>7

-----------------------------------------------------------------------------
(* What the table holds: directories, files of the disk, and files of      *)
(* archives.                                                               *)

DirEntry(f) == \E d \in OSDirs : \E p \in PathsOf(d) : f = DirInfo(d, p)

PlainEntry(f) ==
  /\ f.os \in OSFiles /\ f.name[2] = f.os[2] /\ f.name[1] \in PathsOf(f.os[1])
  /\ f.flags \in {{}, {"READONLY"}} /\ f.offset = 0

PackedEntry(f) ==
  /\ f.os \in DOMAIN Archives /\ f.name[2] # ""
  /\ f.flags \in {{"ARCHIVED", "READONLY"}, {"ARCHIVED", "READONLY", "ZLIBCMP"}}

\* The entries there may be when the disk holds the files D.
Entries(D) ==
  {f \in MountFiles : DirEntry(f) \/ (PlainEntry(f) /\ f.os \in D) \/ PackedEntry(f)}

\* Those whose bytes, when they lie in an archive as they are, are all in it.
Tight(D) ==
  {f \in Entries(D) :
     PackedEntry(f) /\ "ZLIBCMP" \notin f.flags => f.offset + f.size <= DiskFiles[f.os]}

\* The three kinds of entries are told apart by their flags.
LEMMA EntryKinds ==
  ASSUME NEW f
  PROVE  /\ DirEntry(f) => f.flags = {"DIRECTORY"} /\ f.name[2] = ""
         /\ PlainEntry(f) => /\ f.flags \in {{}, {"READONLY"}} /\ f.name[2] # ""
                             /\ f.flags \cap {"DIRECTORY", "ARCHIVED"} = {}
         /\ PackedEntry(f) => /\ "ARCHIVED" \in f.flags /\ "READONLY" \in f.flags
                              /\ "DIRECTORY" \notin f.flags /\ f.name[2] # ""
<1>1. ASSUME DirEntry(f) PROVE f.flags = {"DIRECTORY"} /\ f.name[2] = ""
  <2>1. PICK d \in OSDirs : \E p \in PathsOf(d) : f = DirInfo(d, p)
    BY <1>1 DEF DirEntry
  <2>3. PICK p \in PathsOf(d) : f = DirInfo(d, p)
    BY <2>1
  <2>2. f = [name |-> <<p, "">>, os |-> <<d, "">>, flags |-> {"DIRECTORY"}, size |-> 0, offset |-> 0]
    BY <2>3 DEF DirInfo, MountInfo
  <2> QED  BY ONLY <2>2
<1>2. ASSUME PlainEntry(f) PROVE f.name[2] # ""
  <2>1. f.os[2] \in FileNames \ {""}
    BY <1>2, PairParts DEF PlainEntry, OSFiles
  <2> QED  BY <1>2, <2>1 DEF PlainEntry
<1>3. PlainEntry(f) => f.flags \in {{}, {"READONLY"}} /\ f.flags \cap {"DIRECTORY", "ARCHIVED"} = {}
  BY DEF PlainEntry
<1>4. PackedEntry(f) => /\ "ARCHIVED" \in f.flags /\ "READONLY" \in f.flags
                        /\ "DIRECTORY" \notin f.flags /\ f.name[2] # ""
  BY DEF PackedEntry
<1> QED  BY <1>1, <1>2, <1>3, <1>4

\* Any of the entries may be mounted.
LEMMA EntriesMountable ==
  ASSUME NEW D, NEW F \in SUBSET Entries(D)
  PROVE  Mountable(F)
<1>1. ASSUME NEW f \in F PROVE f.name \in MountNames /\ f.flags \notin {{"ARCHIVED"}, {"EMPTY"}}
  <2>1. f \in MountFiles /\ (DirEntry(f) \/ PlainEntry(f) \/ PackedEntry(f))
    BY DEF Entries
  <2>2. f.name \in MountNames
    BY <2>1 DEF MountFiles
  <2>3. CASE DirEntry(f)
    BY <2>2, <2>3, EntryKinds
  <2>4. CASE PlainEntry(f)
    BY <2>2, <2>4, EntryKinds
  <2>5. CASE PackedEntry(f)
    BY <2>2, <2>5, EntryKinds
  <2> QED  BY <2>1, <2>3, <2>4, <2>5
<1>2. Null \notin F
  BY DiskAssumption DEF Entries
<1> QED  BY <1>1, <1>2 DEF Mountable

\* A table of some files is a table of more.
LEMMA TablesGrow ==
  ASSUME NEW F, NEW G, F \subseteq G, NEW T \in Tables(F)
  PROVE  T \in Tables(G)
<1>1. T.file \in [Slots -> G \cup {EmptySlot}]
  BY DEF Tables
<1> QED  BY <1>1 DEF Tables

\* On a disk of more files there are more entries.
LEMMA EntriesGrow ==
  ASSUME NEW D, NEW E, D \subseteq E
  PROVE  Entries(D) \subseteq Entries(E) /\ Tight(D) \subseteq Tight(E)
<1>1. Entries(D) \subseteq Entries(E)
  BY DEF Entries
<1> QED  BY <1>1 DEF Tight

\* The disk, as far as its types go.
DiskTypes == DiskOK /\ \A os \in DOMAIN disk : disk[os] \in Sizes

\* The parts of a MOUNT_FILE.
LEMMA MadeEntry ==
  ASSUME NEW name \in MountNames, NEW os \in OSDirs \X FileNames, NEW size \in Sizes, NEW offset \in Nat,
         NEW flags \in SUBSET {"DIRECTORY", "READONLY", "ARCHIVED", "ZLIBCMP"}
  PROVE  LET f == MountInfo(name, os, flags, size, offset)
         IN  /\ f \in MountFiles /\ f.name = name /\ f.os = os /\ f.flags = flags
             /\ f.size = size /\ f.offset = offset
BY DEF MountFiles, MountInfo

\* A file may be empty.
LEMMA ZeroSize == 0 \in Sizes
<1>1. MaxSize \in Nat
  BY DiskAssumption
<1> QED  BY <1>1 DEF Sizes

\* The entry of a directory is one.
LEMMA DirEntries ==
  ASSUME NEW d \in OSDirs, NEW m \in PathsOf(d)
  PROVE  LET f == DirInfo(d, m)
         IN  f \in MountFiles /\ DirEntry(f) /\ ~PlainEntry(f) /\ ~PackedEntry(f) /\ f.name = <<m, "">>
<1> DEFINE f == DirInfo(d, m)
           os == <<d, "">>
           name == <<m, "">>
           flags == {"DIRECTORY"}
<1>1. name \in MountNames /\ os \in OSDirs \X FileNames /\ 0 \in Sizes /\ 0 \in Nat
      /\ flags \in SUBSET {"DIRECTORY", "READONLY", "ARCHIVED", "ZLIBCMP"}
  <2>1. m \in Paths /\ "" \in FileNames /\ MaxSize \in Nat
    BY DiskAssumption
  <2>2. name \in MountNames /\ os \in OSDirs \X FileNames
    BY <2>1 DEF MountNames
  <2>3. 0 \in Sizes /\ 0 \in Nat
    BY ZeroSize
  <2> QED  BY <2>2, <2>3
<1>2. f = MountInfo(name, os, flags, 0, 0)
  BY DEF DirInfo
<1> HIDE DEF f, os, name, flags
<1>3. f \in MountFiles /\ f.name = name
  BY <1>1, <1>2, MadeEntry
<1>4. DirEntry(f)
  BY DEF DirEntry, f
<1>5. ~PlainEntry(f) /\ ~PackedEntry(f)
  BY <1>4, EntryKinds
<1> QED  BY <1>3, <1>4, <1>5 DEF f, name

\* The entry of a file of the disk is one, of the size the file has.
LEMMA PlainEntries ==
  ASSUME DiskTypes, NEW d \in OSDirs, NEW m \in PathsOf(d), NEW os \in FilesOf(d)
  PROVE  LET f == DiskInfo(os, m)
         IN  /\ f \in MountFiles /\ PlainEntry(f) /\ ~PackedEntry(f)
             /\ f.os = os /\ f.size = disk[os] /\ "ARCHIVED" \notin f.flags
<1> DEFINE f == DiskInfo(os, m)
           name == <<m, os[2]>>
           flags == IF os \in ReadOnly THEN {"READONLY"} ELSE {}
           size == disk[os]
<1>1. os \in OSFiles /\ os[1] = d /\ size \in Sizes
  BY DEF FilesOf, DiskTypes, DiskOK, OSDirOf
<1>2. os[2] \in FileNames /\ os \in OSDirs \X FileNames
  <2>1. os[1] \in OSDirs /\ os[2] \in FileNames \ {""} /\ os = <<os[1], os[2]>>
    BY <1>1, PairParts DEF OSFiles
  <2> QED  BY ONLY <2>1
<1>3. name \in MountNames
  BY <1>2, DiskAssumption DEF MountNames
<1>4. flags \in SUBSET {"DIRECTORY", "READONLY", "ARCHIVED", "ZLIBCMP"} /\ flags \in {{}, {"READONLY"}}
  OBVIOUS
<1>5. f = MountInfo(name, os, flags, size, 0)
  BY DEF DiskInfo
<1>6. name[1] = m /\ name[2] = os[2]
  OBVIOUS
<1> HIDE DEF f, name, flags, size
<1>7. f \in MountFiles /\ f.name = name /\ f.os = os /\ f.flags = flags /\ f.size = size /\ f.offset = 0
  BY <1>1, <1>2, <1>3, <1>4, <1>5, MadeEntry
<1>8. PlainEntry(f)
  BY <1>1, <1>4, <1>6, <1>7 DEF PlainEntry
<1>9. ~PackedEntry(f) /\ "ARCHIVED" \notin f.flags
  BY <1>8, EntryKinds
<1> QED  BY <1>7, <1>8, <1>9 DEF f, size

\* The archives that are mounted, and where.
LEMMA PackedEntries ==
  ASSUME NEW os \in DOMAIN Archives, NEW name, name[1] \in {m[2] : m \in Mounts},
         NEW k \in DOMAIN Archives[os]
  PROVE  LET f == ArchivedInfo(name, os, Archives[os][k])
             e == Archives[os][k]
         IN  /\ f \in MountFiles /\ PackedEntry(f) /\ ~PlainEntry(f)
             /\ f.os = os /\ f.name = <<name[1] \o e.dir, e.name>> /\ e.name # ""
             /\ "ZLIBCMP" \notin f.flags => f.offset + f.size <= DiskFiles[os]
<1> DEFINE e == Archives[os][k]
           f == ArchivedInfo(name, os, e)
           dir == name[1] \o e.dir
           flags == {"ARCHIVED", "READONLY"} \cup (IF e.cmp THEN {"ZLIBCMP"} ELSE {})
<1>1. e \in ArchiveFiles
  <2>1. Archives[os] \in Seq(ArchiveFiles)
    BY ArchivesAssumption
  <2> QED  BY <2>1, LenProperties, ElementOfSeq
<1>2. (~e.cmp => e.offset + e.size <= DiskFiles[os]) /\ \A m \in Mounts : m[2] \o e.dir \in Paths
  BY ArchivesAssumption
<1>3. dir \in Paths
  BY <1>2
<1>4. e.name \in FileNames /\ e.name # "" /\ e.size \in Sizes /\ e.offset \in Nat /\ e.cmp \in BOOLEAN
  BY <1>1 DEF ArchiveFiles
<1>5. os \in OSDirs \X FileNames
  <2>1. os \in OSFiles
    BY ArchivesAssumption, DiskAssumption
  <2>2. os[1] \in OSDirs /\ os[2] \in FileNames \ {""} /\ os = <<os[1], os[2]>>
    BY <2>1, PairParts DEF OSFiles
  <2> QED  BY ONLY <2>2
<1> HIDE DEF e
<1>6. /\ flags \in SUBSET {"DIRECTORY", "READONLY", "ARCHIVED", "ZLIBCMP"}
      /\ flags \in {{"ARCHIVED", "READONLY"}, {"ARCHIVED", "READONLY", "ZLIBCMP"}}
      /\ "ZLIBCMP" \notin flags => ~e.cmp
  BY <1>4
<1> HIDE DEF flags, dir
<1> DEFINE n == <<dir, e.name>>
<1>7. n \in MountNames /\ n[2] # ""
  BY <1>3, <1>4 DEF MountNames
<1>8. f = MountInfo(n, os, flags, e.size, e.offset)
  BY DEF ArchivedInfo, flags, dir
<1> HIDE DEF n, f
<1>9. f \in MountFiles /\ f.name = n /\ f.os = os /\ f.flags = flags /\ f.size = e.size /\ f.offset = e.offset
  <2>1. e.size \in Sizes /\ e.offset \in Nat /\ n \in MountNames
        /\ flags \in SUBSET {"DIRECTORY", "READONLY", "ARCHIVED", "ZLIBCMP"}
    BY <1>4, <1>6, <1>7
  <2>2. ASSUME NEW a \in Sizes, NEW b \in Nat
        PROVE  LET g == MountInfo(n, os, flags, a, b)
               IN  /\ g \in MountFiles /\ g.name = n /\ g.os = os /\ g.flags = flags
                   /\ g.size = a /\ g.offset = b
    <3>1. n \in MountNames
      BY <2>1
    <3>2. flags \in SUBSET {"DIRECTORY", "READONLY", "ARCHIVED", "ZLIBCMP"}
      BY <2>1
    <3> QED  BY ONLY <1>5, <3>1, <3>2, MadeEntry, SMTT(30)
  <2> QED  BY <1>8, <2>1, <2>2
<1>10. PackedEntry(f)
  BY <1>6, <1>7, <1>9 DEF PackedEntry
<1>11. ~PlainEntry(f)
  BY <1>10, EntryKinds
<1>12. "ZLIBCMP" \notin f.flags => f.offset + f.size <= DiskFiles[os]
  BY <1>2, <1>6, <1>9
<1> QED  BY <1>4, <1>9, <1>10, <1>11, <1>12 DEF f, n, dir, e

\* Entries of a directory are among those there may be.
LEMMA DirsHold ==
  ASSUME DiskTypes, NEW c \in DirCalls
  PROVE  AllHold(Tight(DOMAIN disk), c) /\ AllHold(Entries(DOMAIN disk), c)
<1>1. ASSUME NEW d \in Below(c.dir, c.deep)
      PROVE  Holds(Tight(DOMAIN disk), d, Under(c, d)) /\ Holds(Entries(DOMAIN disk), d, Under(c, d))
  <2> DEFINE m == Under(c, d)
  <2>1. d \in OSDirs /\ m \in PathsOf(d)
    BY DirectoryPaths DEF Under
  <2> HIDE DEF m
  <2>2. DirInfo(d, m) \in Tight(DOMAIN disk)
    BY <2>1, DirEntries DEF Tight, Entries
  <2>3. ASSUME NEW os \in FilesOf(d) PROVE DiskInfo(os, m) \in Tight(DOMAIN disk)
    <3>1. os \in DOMAIN disk
      BY DEF FilesOf
    <3> QED  BY <2>1, <3>1, PlainEntries DEF Tight, Entries
  <2>4. Tight(DOMAIN disk) \subseteq Entries(DOMAIN disk)
    BY DEF Tight
  <2> QED  BY <2>2, <2>3, <2>4 DEF Holds, m
<1> QED  BY <1>1 DEF AllHold

\* The files of an archive.
Contents(name, os) ==
  [k \in DOMAIN Archives[os] |-> ArchivedInfo(name, os, Archives[os][k])]

\* The entries of an archive's files lie inside it and have the names it lists.
LEMMA ArchiveInfos ==
  ASSUME NEW D, NEW os \in DOMAIN Archives, NEW name, name[1] \in {m[2] : m \in Mounts}
  PROVE  /\ Contents(name, os) \in Seq(Tight(D)) /\ Contents(name, os) \in Seq(Entries(D))
         /\ DOMAIN Archives[os] = 1..Len(Contents(name, os))
         /\ \A k \in 1..Len(Contents(name, os)) :
              LET f == Contents(name, os)[k]
                  e == Archives[os][k]
              IN  /\ Packed(f, os) /\ PackedEntry(f) /\ ~PlainEntry(f)
                  /\ f.name = <<name[1] \o e.dir, e.name>> /\ e.name # ""
<1> DEFINE q == Contents(name, os)
           n == Len(Archives[os])
<1>1. n \in Nat /\ DOMAIN Archives[os] = 1..n
  <2>1. Archives[os] \in Seq(ArchiveFiles)
    BY ArchivesAssumption
  <2> QED  BY <2>1, LenProperties
<1>2. q = [k \in 1..n |-> ArchivedInfo(name, os, Archives[os][k])]
  BY <1>1 DEF Contents
<1>3. ASSUME NEW k \in 1..n
      PROVE  LET f == ArchivedInfo(name, os, Archives[os][k])
                 e == Archives[os][k]
             IN  /\ f \in MountFiles /\ PackedEntry(f) /\ ~PlainEntry(f)
                 /\ f.os = os /\ f.name = <<name[1] \o e.dir, e.name>> /\ e.name # ""
                 /\ "ZLIBCMP" \notin f.flags => f.offset + f.size <= DiskFiles[os]
  BY <1>1, PackedEntries
<1>4. ASSUME NEW k \in 1..n
      PROVE  LET f == ArchivedInfo(name, os, Archives[os][k])
             IN  f \in Tight(D) /\ f \in Entries(D) /\ Packed(f, os)
  <2> DEFINE f == ArchivedInfo(name, os, Archives[os][k])
  <2>1. /\ f \in MountFiles /\ PackedEntry(f) /\ f.os = os
        /\ "ZLIBCMP" \notin f.flags => f.offset + f.size <= DiskFiles[os]
    BY <1>3
  <2> HIDE DEF f
  <2>2. f \in Entries(D)
    BY <2>1 DEF Entries
  <2>3. f \in Tight(D)
    BY <2>1, <2>2 DEF Tight
  <2>4. Packed(f, os)
    BY <2>1, EntryKinds DEF Packed
  <2> QED  BY <2>2, <2>3, <2>4 DEF f
<1> HIDE DEF q, n
<1>5. q \in [1..n -> Tight(D)] /\ q \in [1..n -> Entries(D)]
  BY <1>2, <1>4
<1>6. q \in Seq(Tight(D)) /\ q \in Seq(Entries(D)) /\ Len(q) = n
  BY <1>1, <1>5, SeqDef
<1>7. ASSUME NEW k \in 1..n
      PROVE  LET f == q[k]
                 e == Archives[os][k]
             IN  /\ Packed(f, os) /\ PackedEntry(f) /\ ~PlainEntry(f)
                 /\ f.name = <<name[1] \o e.dir, e.name>> /\ e.name # ""
  <2>1. q[k] = ArchivedInfo(name, os, Archives[os][k])
    BY <1>2
  <2> QED  BY <1>3, <1>4, <2>1
<1> QED  BY <1>1, <1>6, <1>7 DEF q

-----------------------------------------------------------------------------
(* The inductive invariant of the file system.                             *)

\* Types, and what entries there may be.
Types ==
  /\ TypeOK /\ IsFiniteSet(DOMAIN disk)
  /\ table \in Tables(Entries(DOMAIN disk))
  /\ ~crossed => table \in Tables(Tight(DOMAIN disk))

\* The calls are those the client makes, and the base comes first.
LpkCalls ==
  {[kind |-> "lpk", at |-> at, os |-> os] : at \in {m[2] : m \in Mounts}, os \in DOMAIN Archives}

Calls == DirCalls \cup LpkCalls

CallsOK ==
  /\ mounts \in Seq(Calls)
  /\ ~bBaseMounted => mounts = <<>> /\ table.handed = 0

\* The table is as it should be until it hands out a slot twice.
Whole == Sane(table) /\ (~table.torn => table.handed <= table.max)

\* A handle that writes has a file of the disk, under its own name.
Owns(f) ==
  /\ f.onDisk /\ f.begin = 0 /\ f.os \notin DOMAIN Archives
  /\ f.name[2] = f.os[2] /\ f.name[1] \in PathsOf(f.os[1])

HandleOK(f) ==
  /\ "WRITE" \in f.access => Owns(f)
  /\ f.pos <= f.size /\ f.size <= MaxSize /\ (f.eof <=> f.pos >= f.size)
  /\ (f.onDisk /\ ~crossed /\ ~table.torn) => f.begin + f.size <= disk[f.os]

HandlesOK == \A h \in Handles : fileOf[h] # Null => HandleOK(fileOf[h])

\* What somebody writes nobody else has open.
Shares ==
  \A h, g \in Handles :
    (h # g /\ fileOf[h] # Null /\ fileOf[g] # Null /\ fileOf[h].os = fileOf[g].os
       /\ fileOf[h].onDisk /\ fileOf[g].onDisk) => "WRITE" \notin fileOf[h].access

ArchivesStay == \A os \in DOMAIN Archives : disk[os] = DiskFiles[os]

\* The table's size of a file nobody writes is the file's.
Agrees(f) == PlainEntry(f) /\ ~Writing(f.os) => f.size = disk[f.os]

Agreeing == {f \in Entries(DOMAIN disk) : Agrees(f)}

SizesOK ==
  (~crossed /\ table.handed <= table.max) =>
    \A n \in MountNames : FindFile(table, n) \in Agreeing \cup {Null}

\* The last of the calls that are in K.
Places(ms, K) == {i \in DOMAIN ms : ms[i] \in K}
Latest(ms, K) == ms[Max(Places(ms, K))]

\* The calls that put a file on offer, on a disk of the files D, and those that
\* mount a directory at p.
Offering(D, n) ==
  {c \in Calls : /\ c.kind = "dir"
                 /\ \E d \in Below(c.dir, c.deep) : Under(c, d) = n[1] /\ <<d, n[2]>> \in D}

Packing(n) ==
  {c \in Calls : /\ c.kind = "lpk"
                 /\ \E k \in DOMAIN Archives[c.os] :
                      LET e == Archives[c.os][k] IN <<c.at \o e.dir, e.name>> = n}

Covering(p) == {c \in Calls : c.kind = "dir" /\ \E d \in Below(c.dir, c.deep) : Under(c, d) = p}

Source(c, p) == CHOOSE d \in Below(c.dir, c.deep) : Under(c, d) = p

\* Where names lead.
FileWanted(ms, D, n) ==
  IF Places(ms, Offering(D, n)) # {}
  THEN [os |-> <<Source(Latest(ms, Offering(D, n)), n[1]), n[2]>>, archived |-> FALSE]
  ELSE IF Places(ms, Packing(n)) # {} THEN [os |-> Latest(ms, Packing(n)).os, archived |-> TRUE]
  ELSE Null

DirWanted(ms, p) ==
  IF Places(ms, Covering(p)) = {} THEN Null
  ELSE DirInfo(Source(Latest(ms, Covering(p)), p), p)

\* What a table makes of a name.
FoundIn(T, n) ==
  LET f == FindFile(T, n)
  IN  IF f = Null THEN Null ELSE [os |-> f.os, archived |-> "ARCHIVED" \in f.flags]

\* Names lead where the mount calls say, those of directories too.
Leading(T, ms, D) ==
  /\ \A n \in MountNames : n[2] # "" => FoundIn(T, n) = FileWanted(ms, D, n)
  /\ \A p \in Paths : FindFile(T, <<p, "">>) = DirWanted(ms, p)

NamesLead == Ok(table) => Leading(table, mounts, DOMAIN disk)

\* The invariant.  The files, handles and sizes rest on each other: a handle is
\* opened with the table's size, which closing a writer sets.
FSInv ==
  /\ Types /\ CallsOK /\ Whole /\ HandlesOK /\ Shares /\ ArchivesStay
  /\ SizesOK /\ NamesLead

\* What the types say of the table and the disk.
LEMMA TypesHere ==
  ASSUME Types
  PROVE  /\ DiskTypes /\ DiskOK /\ table \in Tables(Entries(DOMAIN disk))
         /\ Mountable(Entries(DOMAIN disk)) /\ Mountable(Tight(DOMAIN disk))
         /\ Tight(DOMAIN disk) \subseteq Entries(DOMAIN disk)
<1>1. Tight(DOMAIN disk) \subseteq Entries(DOMAIN disk)
  BY DEF Tight
<1>2. Mountable(Entries(DOMAIN disk)) /\ Mountable(Tight(DOMAIN disk))
  BY <1>1, EntriesMountable
<1> QED  BY <1>1, <1>2 DEF Types, TypeOK, DiskTypes, DiskOK

\* While the base is not mounted no name leads anywhere.
LEMMA NothingMounted ==
  ASSUME Types, CallsOK, Whole, ~bBaseMounted
  PROVE  \A n \in MountNames : FindFile(table, n) = Null
<1>1. table.handed = 0 /\ table.handed <= table.max
  BY TypesHere, TableFields DEF CallsOK
<1>2. Shaped(table)
  BY <1>1 DEF Whole, Sane, Regular
<1> QED  BY <1>1, <1>2, TypesHere, EmptyView

-----------------------------------------------------------------------------
(* The mount calls.                                                        *)

\* A call that mounts directories.
DirMount(c, listing, flags) ==
  /\ c \in DirCalls /\ c.kind = "dir" /\ Lists(listing, c)
  /\ Overwrites(flags) \/ (Len(listing) = 1 /\ ~bBaseMounted)
  /\ table' = MountDir(table, listing, c.dir, c.at, flags)
  /\ mounts' = Append(mounts, c)
  /\ bBaseMounted' = TRUE
  /\ UNCHANGED <<disk, fileOf, crossed>>

\* MountBase and Mount are calls that mount directories.
LEMMA DirMounts ==
  ASSUME bBaseMounted \in BOOLEAN, MountBase \/ \E m \in Mounts : Mount(m[1], m[2])
  PROVE  \E c, listing, flags : DirMount(c, listing, flags)
<1>1. ASSUME MountBase PROVE \E c, listing, flags : DirMount(c, listing, flags)
  <2> DEFINE c == [kind |-> "dir", dir |-> <<>>, at |-> <<>>, deep |-> FALSE]
             q == <<<<>>>>
             flags == {}
  <2>1. c \in DirCalls /\ c.kind = "dir" /\ c.dir = <<>> /\ c.at = <<>> /\ Below(c.dir, c.deep) = {<<>>}
    BY DEF DirCalls, Below
  <2>2. q \in Seq(OSDirs) /\ Len(q) = 1 /\ q[1] = <<>>
    <3>1. <<>> \in OSDirs
      BY DiskAssumption
    <3> QED  BY ONLY <3>1
  <2> HIDE DEF q, c
  <2>3. Lists(q, c)
    BY <2>1, <2>2 DEF Lists
  <2>4. table' = MountDir(table, q, c.dir, c.at, flags) /\ mounts' = Append(mounts, c)
    BY <1>1, <2>1 DEF MountBase, Record, q, c
  <2>5. DirMount(c, q, flags)
    BY <1>1, <2>1, <2>2, <2>3, <2>4 DEF DirMount, MountBase
  <2> QED  BY <2>5
<1>2. ASSUME NEW m \in Mounts, Mount(m[1], m[2]) PROVE \E c, listing, flags : DirMount(c, listing, flags)
  <2> DEFINE c == [kind |-> "dir", dir |-> m[1], at |-> m[2], deep |-> TRUE]
             flags == {"OVERWRITE", "SUBDIRS"}
             B == Below(m[1], TRUE)
             n == Cardinality(B)
  <2>1. c \in DirCalls /\ c.kind = "dir" /\ c.dir = m[1] /\ c.at = m[2] /\ Below(c.dir, c.deep) = B
    BY DEF DirCalls
  <2>2. Overwrites(flags)
    BY DEF Overwrites
  <2>3. PICK q \in Listings(B) : table' = MountDir(table, q, m[1], m[2], flags)
    BY <1>2 DEF Mount
  <2>4. n \in Nat /\ B \subseteq OSDirs
    <3>1. B \subseteq OSDirs /\ IsFiniteSet(OSDirs)
      BY DiskAssumption DEF Below
    <3> QED  BY <3>1, FS_Subset, FS_CardinalityType
  <2>5. q \in [1..n -> B] /\ \A d \in B : \E i \in DOMAIN q : q[i] = d
    BY DEF Listings
  <2> HIDE DEF c, flags, n, B
  <2>6. q \in Seq(B) /\ Len(q) = n /\ DOMAIN q = 1..n
    BY <2>4, <2>5, SeqDef
  <2>7. q \in Seq(OSDirs)
    BY <2>4, <2>6, SeqMonotonic
  <2>8. Lists(q, c)
    BY <2>1, <2>5, <2>6, <2>7 DEF Lists
  <2>9. mounts' = Append(mounts, c) /\ bBaseMounted' = TRUE /\ UNCHANGED <<disk, fileOf, crossed>>
    BY <1>2 DEF Mount, Record, c
  <2>10. DirMount(c, q, flags)
    BY <2>1, <2>2, <2>3, <2>8, <2>9 DEF DirMount
  <2> QED  BY <2>10
<1> QED  BY <1>1, <1>2

\* A call that mounts an archive.
LpkMount(name, os) ==
  /\ os \in DOMAIN Archives /\ name[1] \in {m[2] : m \in Mounts}
  /\ table' = MountAll(table, Contents(name, os), {"OVERWRITELPKONLY"})
  /\ mounts' = Append(mounts, [kind |-> "lpk", at |-> name[1], os |-> os])
  /\ UNCHANGED <<bBaseMounted, disk, fileOf, crossed>>
  /\ bBaseMounted

\* MountLPK is a call that mounts an archive.
LEMMA LpkMounts ==
  ASSUME NEW at \in {m[2] : m \in Mounts}, NEW x, MountLPK(<<at, x>>)
  PROVE  \E name, os : LpkMount(name, os)
<1> DEFINE name == <<at, x>>
           os == FindFile(table, name).os
<1>1. name[1] = at
  OBVIOUS
<1>2. os \in DOMAIN Archives /\ table' = MountArchive(table, name, os, {"OVERWRITELPKONLY"})
      /\ mounts' = Append(mounts, [kind |-> "lpk", at |-> name[1], os |-> os])
      /\ UNCHANGED <<bBaseMounted, disk, fileOf, crossed>> /\ bBaseMounted
  BY DEF MountLPK, Record
<1>3. LpkMount(name, os)
  BY <1>1, <1>2 DEF LpkMount, MountArchive, Contents
<1> QED  BY <1>3

SameViews(T, U) == \A x \in MountNames : FindFile(U, x) = FindFile(T, x)

\* A lookup that does not end is noted.
LEMMA HungSteps ==
  ASSUME NEW F, Mountable(F), NEW T \in Tables(F), Sane(T), NEW n \in MountNames, NEW h \in BOOLEAN,
         h => T.hung \/ Hangs(T, n), T.hung => h,
         NEW U, U = [T EXCEPT !.hung = h]
  PROVE  /\ U \in Tables(F) /\ Leads(T, U) /\ Sane(U)
         /\ U.max = T.max /\ U.handed = T.handed /\ U.refused = T.refused
         /\ T.handed <= T.max => SameViews(T, U)
<1>1. U \in Tables(F)
  BY DEF Tables
<1>2. /\ U.max = T.max /\ U.head = T.head /\ U.next = T.next /\ U.file = T.file
      /\ U.firstFree = T.firstFree /\ U.nextFree = T.nextFree /\ U.hung = h
      /\ U.handed = T.handed /\ U.refused = T.refused /\ U.torn = T.torn
  BY DEF Tables
<1>3. Leads(T, U)
  BY <1>2, TableFields DEF Leads
<1>4. ASSUME T.handed <= T.max
      PROVE  Regular(U) /\ \A x \in MountNames : FindFile(U, x) = FindFile(T, x)
  <2>1. Shaped(T) /\ ~T.hung
    BY <1>4 DEF Sane, Regular
  <2>2. ~h
    BY <2>1, ShapedLookup
  <2>3. Shaped(U) /\ \A x \in MountNames : FindFile(U, x) = FindFile(T, x)
    BY ONLY Mountable(F), T \in Tables(F), <1>1, <1>2, <2>1, SameChains, SMTT(30)
  <2> QED  BY <1>2, <2>2, <2>3 DEF Regular
<1>5. Sane(U)
  BY <1>2, <1>4 DEF Sane
<1> QED  BY <1>1, <1>2, <1>3, <1>4, <1>5 DEF SameViews

HungTo(T, U) ==
  /\ U.max = T.max /\ U.handed = T.handed /\ U.refused = T.refused
  /\ T.handed <= T.max => SameViews(T, U)

\* A walk that hangs changes no name, in a table that gave no slot twice.
LEMMA HungViews ==
  ASSUME NEW F, Mountable(F), NEW T \in Tables(F), Sane(T), NEW n \in MountNames, NEW h \in BOOLEAN,
         h => T.hung \/ Hangs(T, n), T.hung => h
  PROVE  HungTo(T, [T EXCEPT !.hung = h])
<1> DEFINE U == [T EXCEPT !.hung = h]
<1>1. U = [T EXCEPT !.hung = h]
  OBVIOUS
<1> HIDE DEF U
<1>2. HungTo(T, U)
  BY <1>1, HungSteps DEF HungTo
<1> QED  BY <1>2 DEF U

\* An entry of another size.
WithSize(f, size) == [f EXCEPT !.size = size]

\* An entry of another size is an entry, and of the same kind.
LEMMA Resized ==
  ASSUME NEW D, NEW f \in Entries(D), f.name[2] # "", NEW size \in Sizes
  PROVE  LET g == WithSize(f, size)
         IN  /\ g \in Entries(D) /\ g.name = f.name /\ g.os = f.os /\ g.flags = f.flags
             /\ g.size = size
             /\ f.os \notin DOMAIN Archives => PlainEntry(f) /\ PlainEntry(g) /\ g \in Tight(D)
<1> DEFINE g == WithSize(f, size)
<1>1. f \in MountFiles /\ (DirEntry(f) \/ (PlainEntry(f) /\ f.os \in D) \/ PackedEntry(f))
  BY DEF Entries
<1>2. g \in MountFiles /\ g.name = f.name /\ g.os = f.os /\ g.flags = f.flags /\ g.size = size
      /\ g.offset = f.offset
  BY <1>1 DEF MountFiles, WithSize
<1> HIDE DEF g
<1>3. ~DirEntry(f)
  BY EntryKinds
<1>4. (PlainEntry(g) <=> PlainEntry(f)) /\ (PackedEntry(g) <=> PackedEntry(f))
  BY <1>2 DEF PlainEntry, PackedEntry
<1>5. g \in Entries(D)
  BY <1>1, <1>2, <1>3, <1>4 DEF Entries
<1>6. ASSUME f.os \notin DOMAIN Archives
      PROVE  PlainEntry(f) /\ PlainEntry(g) /\ g \in Tight(D)
  <2>1. ~PackedEntry(f)
    BY <1>6 DEF PackedEntry
  <2> QED  BY <1>1, <1>3, <1>4, <1>5, <2>1 DEF Tight
<1> QED  BY <1>2, <1>5, <1>6 DEF g

\* The file a handle creates.
NewInfo(name, d) == MountInfo(name, <<d, name[2]>>, {}, 0, 0)

Creates(h, name, access, d) ==
  LET os == <<d, name[2]>>
  IN  /\ d \in OSDirs /\ name[1] \in PathsOf(d) /\ FindFile(table, <<name[1], "">>) = DirInfo(d, name[1])
      /\ os \in OSFiles /\ os \notin DOMAIN disk
      /\ disk' = [o \in DOMAIN disk \cup {os} |-> IF o = os THEN 0 ELSE disk[o]]
      /\ table' = MountFile(table, NewInfo(name, d), {"OVERWRITE"})
      /\ fileOf' = [fileOf EXCEPT ![h] = NewHandle(NewInfo(name, d), access, TRUE, 0)]

\* CreateNew makes the file in the directory its name leads to.
LEMMA CreatedFile ==
  ASSUME Types, NEW h, NEW name \in MountNames, name[2] # "", NEW access, CreateNew(h, name, access)
  PROVE  \E d : Creates(h, name, access, d)
<1> DEFINE dir == FindFile(table, DirOf(name))
<1>1. name[1] \in Paths /\ name[2] \in FileNames /\ DirOf(name) \in MountNames
      /\ DirOf(name)[1] = name[1] /\ DirOf(name) = <<name[1], "">>
  <2>1. name[1] \in Paths /\ name[2] \in FileNames
    BY PairParts DEF MountNames
  <2>2. "" \in FileNames
    BY DiskAssumption
  <2> QED  BY <2>1, <2>2 DEF DirOf, MountNames
<1>2. dir # Null /\ "DIRECTORY" \in dir.flags
  BY DEF CreateNew
<1>3. dir \in Entries(DOMAIN disk) /\ dir.name = DirOf(name)
  BY <1>1, <1>2, TypesHere, FindFileTypes
<1> HIDE DEF dir
<1>4. DirEntry(dir)
  BY <1>2, <1>3, EntryKinds DEF Entries
<1>5. PICK d \in OSDirs : \E p \in PathsOf(d) : dir = DirInfo(d, p)
  BY <1>4 DEF DirEntry
<1>6. PICK p \in PathsOf(d) : dir = DirInfo(d, p)
  BY <1>5
<1>7. dir.name = <<p, "">> /\ dir.os = <<d, "">>
  BY <1>6 DEF DirInfo, MountInfo
<1>8. p = name[1]
  <2>1. <<p, "">> = <<name[1], "">>
    BY <1>1, <1>3, <1>7, Zenon
  <2> QED  BY ONLY <2>1
<1>9. OSDirOf(dir.os) = d
  <2>1. dir.os[1] = <<d, "">>[1]
    BY <1>7, Zenon
  <2> QED  BY ONLY <2>1 DEF OSDirOf
<1>10. <<d, name[2]>> \in OSFiles
  BY <1>1 DEF OSFiles
<1>11. /\ <<d, name[2]>> \notin DOMAIN disk
       /\ disk' = [o \in DOMAIN disk \cup {<<d, name[2]>>} |-> IF o = <<d, name[2]>> THEN 0 ELSE disk[o]]
       /\ table' = MountFile(table, NewInfo(name, d), {"OVERWRITE"})
       /\ fileOf' = [fileOf EXCEPT ![h] = NewHandle(NewInfo(name, d), access, TRUE, 0)]
  <2>1. MountInfo(name, <<OSDirOf(dir.os), name[2]>>, {}, 0, 0) = NewInfo(name, d)
    BY <1>9 DEF NewInfo
  <2>2. MountInfo(name, <<OSDirOf(dir.os), name[2]>>, {}, 0, 0).os = <<d, name[2]>>
    BY <1>9 DEF MountInfo
  <2> QED  BY <2>1, <2>2 DEF CreateNew, dir
<1>12. FindFile(table, <<name[1], "">>) = DirInfo(d, name[1])
  BY <1>1, <1>6, <1>8 DEF dir
<1>13. Creates(h, name, access, d)
  BY <1>6, <1>8, <1>10, <1>11, <1>12 DEF Creates
<1> QED  BY <1>13

\* The entry a file gets when it is created.
CreatedEntry(f, name, os, D) ==
  /\ f \in Tight(D \cup {os}) /\ f \in Entries(D \cup {os}) /\ PlainEntry(f)
  /\ f.name = name /\ f.os = os /\ f.size = 0 /\ f.offset = 0 /\ f.flags = {}

\* The entry of the created file is one of an empty file of the disk.
LEMMA NewInfoEntry ==
  ASSUME NEW name \in MountNames, name[2] # "", NEW d \in OSDirs, name[1] \in PathsOf(d), NEW D
  PROVE  CreatedEntry(NewInfo(name, d), name, <<d, name[2]>>, D)
<1> DEFINE f == NewInfo(name, d)
           os == <<d, name[2]>>
<1>1. name[2] \in FileNames
  BY PairParts DEF MountNames
<1>2. os \in OSDirs \X FileNames /\ os \in OSFiles /\ os[1] = d /\ os[2] = name[2]
  BY <1>1 DEF OSFiles
<1>3. f = MountInfo(name, os, {}, 0, 0)
  BY DEF NewInfo
<1> HIDE DEF f, os
<1>4. f \in MountFiles /\ f.name = name /\ f.os = os /\ f.flags = {} /\ f.size = 0 /\ f.offset = 0
  <2>1. {} \in SUBSET {"DIRECTORY", "READONLY", "ARCHIVED", "ZLIBCMP"} /\ 0 \in Nat
    OBVIOUS
  <2> QED  BY ONLY name \in MountNames, <1>2, <1>3, <2>1, MadeEntry, ZeroSize, SMTT(30)
<1>5. PlainEntry(f)
  BY <1>2, <1>4 DEF PlainEntry
<1>6. f \in Entries(D \cup {os})
  BY <1>4, <1>5 DEF Entries
<1>7. ~PackedEntry(f)
  BY <1>5, EntryKinds
<1>8. f \in Tight(D \cup {os})
  BY <1>6, <1>7 DEF Tight
<1>9. CreatedEntry(f, name, os, D)
  BY <1>4, <1>5, <1>6, <1>8 DEF CreatedEntry
<1> QED  BY <1>9 DEF f, os

\* What a step makes of the table, other than UnMountAll.
TableNext ==
  /\ table' \in Tables(Entries(DOMAIN disk'))
  /\ ~crossed' => table' \in Tables(Tight(DOMAIN disk'))
  /\ Leads(table, table') /\ Sane(table')

\* A table that stays is as it should be.
LEMMA SameTable ==
  ASSUME Types, Whole, UNCHANGED <<table, crossed>>, DOMAIN disk' = DOMAIN disk
  PROVE  TableNext
<1>1. Leads(table, table)
  BY TypesHere, LeadsOn
<1> QED  BY <1>1 DEF TableNext, Types, Whole

\* Mounting directories leaves the table as it should be.
LEMMA DirMountTable ==
  ASSUME Types, CallsOK, Whole, NEW c, NEW listing, NEW flags, DirMount(c, listing, flags)
  PROVE  TableNext
<1> DEFINE T == table
           U == MountDir(T, listing, c.dir, c.at, flags)
           E == Entries(DOMAIN disk)
           G == Tight(DOMAIN disk)
<1>1. /\ c \in DirCalls /\ Lists(listing, c) /\ table' = U /\ disk' = disk /\ crossed' = crossed
      /\ Overwrites(flags) \/ (Len(listing) = 1 /\ ~bBaseMounted)
  BY DEF DirMount
<1>2. DiskOK /\ Mountable(E) /\ Mountable(G) /\ T \in Tables(E) /\ Sane(T)
  BY TypesHere DEF Whole
<1>3. AllHold(E, c) /\ AllHold(G, c)
  BY <1>1, TypesHere, DirsHold
<1>4. ~bBaseMounted => \A n \in MountNames : FindFile(T, n) = Null
  BY NothingMounted
<1> HIDE DEF T, U, E, G
<1>5. U \in Tables(E) /\ Leads(T, U)
  BY <1>1, <1>2, <1>3, MountDirTypes DEF U
<1>6. T \in Tables(G) => U \in Tables(G)
  BY <1>1, <1>2, <1>3, MountDirTypes DEF U
<1>7. Sane(U)
  <2>1. \/ Overwrites(flags)
        \/ Len(listing) = 1 /\ (Ok(T) => \A n \in MountNames : FindFile(T, n) = Null)
    BY <1>1, <1>4
  <2> QED  BY ONLY <1>1, <1>2, <1>3, <2>1, MountDirNames, SMTT(30) DEF U
<1>8. ~crossed' => T \in Tables(G)
  BY <1>1 DEF Types, T, G
<1> QED  BY <1>1, <1>5, <1>6, <1>7, <1>8 DEF TableNext, T, E, G

\* So does mounting an archive.
LEMMA LpkMountTable ==
  ASSUME Types, Whole, NEW name, NEW os, LpkMount(name, os)
  PROVE  TableNext
<1> DEFINE T == table
           q == Contents(name, os)
           U == MountAll(T, q, {"OVERWRITELPKONLY"})
           E == Entries(DOMAIN disk)
           G == Tight(DOMAIN disk)
<1>1. /\ os \in DOMAIN Archives /\ name[1] \in {m[2] : m \in Mounts}
      /\ table' = U /\ disk' = disk /\ crossed' = crossed
  BY DEF LpkMount
<1>2. DiskOK /\ Mountable(E) /\ Mountable(G) /\ T \in Tables(E) /\ Sane(T)
  BY TypesHere DEF Whole
<1>3. q \in Seq(G) /\ q \in Seq(E) /\ \A i \in 1..Len(q) : Packed(q[i], os)
  BY <1>1, ArchiveInfos
<1> HIDE DEF T, q, E, G, U
<1>5. U \in Tables(E) /\ Leads(T, U)
  BY <1>2, <1>3, MountAllTypes DEF U
<1>6. T \in Tables(G) => U \in Tables(G)
  BY <1>2, <1>3, MountAllTypes DEF U
<1>7. Sane(U)
  BY <1>2, <1>3, MountAllExpands DEF U
<1>8. ~crossed' => T \in Tables(G)
  BY <1>1 DEF Types, T, G
<1> QED  BY <1>1, <1>5, <1>6, <1>7, <1>8 DEF TableNext, T, E, G

\* A file is mounted, on a disk that may have grown.
LEMMA MountedFile ==
  ASSUME Types, Whole, NEW D, DOMAIN disk \subseteq D, NEW f \in Entries(D), NEW flags
  PROVE  LET U == MountFile(table, f, flags)
         IN  /\ U \in Tables(Entries(D)) /\ Leads(table, U) /\ Sane(U)
             /\ ~crossed /\ f \in Tight(D) => U \in Tables(Tight(D))
<1> DEFINE E == Entries(D)
           G == Tight(D)
           U == MountFile(table, f, flags)
<1>1. Entries(DOMAIN disk) \subseteq E /\ Tight(DOMAIN disk) \subseteq G /\ G \subseteq E
  BY EntriesGrow DEF Tight
<1>2. Mountable(E) /\ Mountable(G)
  BY <1>1, EntriesMountable
<1>3. table \in Tables(E) /\ Sane(table)
  BY <1>1, TypesHere, TablesGrow DEF Whole
<1>4. ~crossed => table \in Tables(G)
  BY <1>1, TablesGrow DEF Types
<1> HIDE DEF E, G, U
<1>5. f \in E
  BY DEF E
<1>6. U \in Tables(E) /\ Leads(table, U)
  BY <1>2, <1>3, <1>5, MountTypes DEF U
<1>7. Sane(U)
  BY <1>2, <1>3, <1>5, MountSane DEF U
<1>8. ~crossed /\ f \in G => U \in Tables(G)
  BY <1>2, <1>4, MountTypes DEF U
<1> QED  BY <1>6, <1>7, <1>8 DEF E, G, U

\* A new file, which is empty.
Grows(os) ==
  /\ DOMAIN disk' = DOMAIN disk \cup {os} /\ disk'[os] = 0
  /\ \A e \in DOMAIN disk : disk'[e] = disk[e]

\* So does creating a file, which adds that file to the disk.
LEMMA CreateTable ==
  ASSUME Types, Whole, NEW h, NEW name \in MountNames, name[2] # "", NEW access, NEW d,
         Creates(h, name, access, d), crossed' = crossed
  PROVE  TableNext /\ Grows(<<d, name[2]>>)
<1> DEFINE os == <<d, name[2]>>
           D == DOMAIN disk \cup {os}
           f == NewInfo(name, d)
<1>1. /\ d \in OSDirs /\ name[1] \in PathsOf(d) /\ os \notin DOMAIN disk
      /\ disk' = [o \in D |-> IF o = os THEN 0 ELSE disk[o]]
      /\ table' = MountFile(table, f, {"OVERWRITE"})
  BY DEF Creates
<1>2. f \in Tight(D) /\ f \in Entries(D)
  <2>1. name[2] # "" /\ d \in OSDirs /\ name[1] \in PathsOf(d)
    BY <1>1
  <2>2. CreatedEntry(f, name, os, DOMAIN disk)
    BY <2>1, NewInfoEntry
  <2> HIDE DEF f, os
  <2> QED  BY <2>2 DEF CreatedEntry
<1>3. DOMAIN disk' = D /\ disk'[os] = 0 /\ \A o \in DOMAIN disk : disk'[o] = disk[o]
  BY <1>1
<1> HIDE DEF f, D
<1>4. DOMAIN disk \subseteq D
  BY DEF D
<1>5. LET U == MountFile(table, f, {"OVERWRITE"})
      IN  /\ U \in Tables(Entries(D)) /\ Leads(table, U) /\ Sane(U)
          /\ ~crossed /\ f \in Tight(D) => U \in Tables(Tight(D))
  BY <1>2, <1>4, MountedFile
<1>6. TableNext
  BY <1>1, <1>2, <1>3, <1>5 DEF TableNext
<1> QED  BY <1>3, <1>6 DEF D, Grows

\* What a handle that is open has.
LEMMA HandleTypes ==
  ASSUME Types, HandlesOK, NEW h \in Handles, fileOf[h] # Null
  PROVE  LET f == fileOf[h]
         IN  /\ f \in CLFiles /\ HandleOK(f) /\ f.os \in DOMAIN disk /\ disk[f.os] \in Sizes
             /\ f.name \in MountNames /\ f.os \in OSFiles
             /\ "WRITE" \in f.access => Owns(f) /\ f.name[2] # ""
<1>1. fileOf[h] \in CLFiles /\ fileOf[h].os \in DOMAIN disk
  BY DEF Types, TypeOK
<1>2. HandleOK(fileOf[h])
  BY DEF HandlesOK
<1>3. disk[fileOf[h].os] \in Sizes
  BY <1>1 DEF Types, TypeOK
<1>4. fileOf[h].name \in MountNames /\ fileOf[h].os \in OSFiles
  BY <1>1 DEF CLFiles
<1>5. fileOf[h].os[2] # ""
  <2> DEFINE o == fileOf[h].os
  <2>1. o \in OSFiles
    BY <1>4
  <2> HIDE DEF o
  <2>2. o[2] \in FileNames \ {""}
    BY <2>1, PairParts DEF OSFiles
  <2> QED  BY <2>2 DEF o
<1>6. "WRITE" \in fileOf[h].access => Owns(fileOf[h]) /\ fileOf[h].name[2] # ""
  BY <1>2, <1>5 DEF HandleOK, Owns
<1> QED  BY <1>1, <1>2, <1>3, <1>4, <1>6

\* What CloseFile makes of the table.
Kept(f) == "WRITE" \notin f.access /\ table' = table /\ crossed' = crossed

Sized(f) ==
  LET info == FindFile(table, f.name)
      new == WithSize(info, disk[f.os])
  IN  /\ "WRITE" \in f.access /\ info # Null
      /\ table' = MountFile(table, new, {"OVERWRITE"})
      /\ crossed' = (crossed \/ info.os # f.os)

Missed(f) ==
  /\ "WRITE" \in f.access /\ FindFile(table, f.name) = Null
  /\ table' = [table EXCEPT !.hung = @ \/ Hangs(table, f.name)]
  /\ crossed' = crossed

\* CloseFile leaves the table, or sets a size, or finds no entry.
LEMMA CloseCases ==
  ASSUME Types, NEW h, CloseFile(h)
  PROVE  /\ fileOf[h] # Null /\ fileOf' = [fileOf EXCEPT ![h] = Null] /\ disk' = disk
         /\ mounts' = mounts /\ bBaseMounted' = bBaseMounted
         /\ Kept(fileOf[h]) \/ Sized(fileOf[h]) \/ Missed(fileOf[h])
<1> DEFINE f == fileOf[h]
           info == FindFile(table, f.name)
<1>0. crossed \in BOOLEAN
  BY DEF Types, TypeOK
<1>1. /\ f # Null /\ fileOf' = [fileOf EXCEPT ![h] = Null] /\ disk' = disk
      /\ mounts' = mounts /\ bBaseMounted' = bBaseMounted
      /\ table' = IF "WRITE" \notin f.access THEN table
                  ELSE IF info # Null
                  THEN MountFile(table, [info EXCEPT !.size = disk[f.os]], {"OVERWRITE"})
                  ELSE [table EXCEPT !.hung = @ \/ Hangs(table, f.name)]
      /\ crossed' = (crossed \/ ("WRITE" \in f.access /\ info # Null /\ info.os # f.os))
  BY DEF CloseFile
<1> HIDE DEF f
<1>2. CASE "WRITE" \notin f.access
  BY <1>0, <1>1, <1>2 DEF Kept, f
<1>3. CASE "WRITE" \in f.access /\ info # Null
  BY <1>0, <1>1, <1>3 DEF Sized, WithSize, f
<1>4. CASE "WRITE" \in f.access /\ info = Null
  BY <1>0, <1>1, <1>4 DEF Missed, f
<1> QED  BY <1>1, <1>2, <1>3, <1>4 DEF f

\* What Resized says of an entry.
ResizedTo(D, f, g, size) ==
  /\ g \in Entries(D) /\ g.name = f.name /\ g.os = f.os /\ g.flags = f.flags /\ g.size = size
  /\ f.os \notin DOMAIN Archives => PlainEntry(f) /\ PlainEntry(g) /\ g \in Tight(D)

\* WithSize makes that entry.
LEMMA Resizing ==
  ASSUME NEW D, NEW f \in Entries(D), f.name[2] # "", NEW size \in Sizes
  PROVE  ResizedTo(D, f, WithSize(f, size), size)
BY Resized DEF ResizedTo

\* The entry that gets the size.
LEMMA SizedEntry ==
  ASSUME Types, HandlesOK, NEW h \in Handles, fileOf[h] # Null, Sized(fileOf[h])
  PROVE  LET f == fileOf[h]
             info == FindFile(table, f.name)
             new == WithSize(info, disk[f.os])
         IN  /\ info \in Entries(DOMAIN disk) /\ info.name = f.name
             /\ new \in Entries(DOMAIN disk) /\ new.name = f.name /\ new.os = info.os
             /\ new.flags = info.flags /\ new.size = disk[f.os]
             /\ info.os = f.os => PlainEntry(info) /\ PlainEntry(new) /\ new \in Tight(DOMAIN disk)
<1> DEFINE f == fileOf[h]
           info == FindFile(table, f.name)
           size == disk[f.os]
           new == WithSize(info, size)
<1>1. "WRITE" \in f.access /\ info # Null
  BY DEF Sized
<1>2. f.name \in MountNames /\ size \in Sizes /\ Owns(f) /\ f.name[2] # ""
  BY <1>1, HandleTypes
<1> HIDE DEF f, size
<1>3. info \in Entries(DOMAIN disk) /\ info.name = f.name
  BY <1>1, <1>2, TypesHere, FindFileTypes
<1> HIDE DEF info
<1>4. info.name[2] # ""
  BY <1>2, <1>3
<1>5. /\ new \in Entries(DOMAIN disk) /\ new.name = info.name /\ new.os = info.os
      /\ new.flags = info.flags /\ new.size = size
      /\ info.os \notin DOMAIN Archives => PlainEntry(info) /\ PlainEntry(new) /\ new \in Tight(DOMAIN disk)
  <2>1. ResizedTo(DOMAIN disk, info, new, size)
    BY <1>2, <1>3, <1>4, Resizing
  <2> QED  BY <2>1 DEF ResizedTo
<1>6. f.os \notin DOMAIN Archives
  BY <1>2 DEF Owns
<1> QED  BY <1>3, <1>5, <1>6 DEF f, info, size

\* Closing a file leaves the table as it should be.
LEMMA CloseTable ==
  ASSUME Types, Whole, HandlesOK, NEW h \in Handles, CloseFile(h)
  PROVE  TableNext
<1> DEFINE f == fileOf[h]
           info == FindFile(table, f.name)
           new == WithSize(info, disk[f.os])
<1>1. f # Null /\ disk' = disk /\ (Kept(f) \/ Sized(f) \/ Missed(f))
  BY CloseCases
<1>2. f.name \in MountNames
  BY <1>1, HandleTypes
<1>3. CASE Kept(f)
  BY <1>1, <1>3, SameTable DEF Kept
<1>4. CASE Sized(f)
  <2>1. /\ new \in Entries(DOMAIN disk)
        /\ info.os = f.os => new \in Tight(DOMAIN disk)
    BY <1>1, <1>4, SizedEntry
  <2>2. /\ table' = MountFile(table, new, {"OVERWRITE"})
        /\ crossed' = (crossed \/ info.os # f.os)
    BY <1>4 DEF Sized
  <2> HIDE DEF new, info, f
  <2>3. LET U == MountFile(table, new, {"OVERWRITE"})
        IN  /\ U \in Tables(Entries(DOMAIN disk)) /\ Leads(table, U) /\ Sane(U)
            /\ ~crossed /\ new \in Tight(DOMAIN disk) => U \in Tables(Tight(DOMAIN disk))
    BY <2>1, MountedFile
  <2> QED  BY <1>1, <2>1, <2>2, <2>3 DEF TableNext
<1>5. CASE Missed(f)
  <2> DEFINE g == table.hung \/ Hangs(table, f.name)
             E == Entries(DOMAIN disk)
             G == Tight(DOMAIN disk)
  <2>1. table' = [table EXCEPT !.hung = g] /\ crossed' = crossed
    BY <1>5 DEF Missed
  <2>2. g \in BOOLEAN /\ (g => table.hung \/ Hangs(table, f.name)) /\ (table.hung => g)
    BY TypesHere, TableFields
  <2> HIDE DEF g, f
  <2>3. Mountable(E) /\ Mountable(G) /\ table \in Tables(E) /\ Sane(table)
        /\ (~crossed => table \in Tables(G))
    BY TypesHere DEF Whole, Types
  <2> HIDE DEF E, G
  <2>4. table' \in Tables(E) /\ Leads(table, table') /\ Sane(table')
    BY ONLY <1>2, <2>1, <2>2, <2>3, HungSteps, SMTT(30)
  <2>5. ~crossed => table' \in Tables(G)
    BY ONLY <1>2, <2>1, <2>2, <2>3, HungSteps, SMTT(30)
  <2> QED  BY <1>1, <2>1, <2>4, <2>5 DEF TableNext, E, G
<1> QED  BY <1>1, <1>3, <1>4, <1>5

\* A lookup hangs only in a table that gave a slot twice.
LEMMA HangTable ==
  ASSUME Types, Whole, NEW name \in MountNames, LookupHangs(name), crossed' = crossed
  PROVE  TableNext /\ ~(table.handed <= table.max)
         /\ table'.handed = table.handed /\ table'.max = table.max /\ table'.refused = table.refused
<1> DEFINE E == Entries(DOMAIN disk)
           G == Tight(DOMAIN disk)
           g == TRUE
<1>1. table' = [table EXCEPT !.hung = g] /\ disk' = disk /\ Hangs(table, name)
  BY DEF LookupHangs
<1>2. Mountable(E) /\ Mountable(G) /\ table \in Tables(E) /\ Sane(table)
      /\ (~crossed => table \in Tables(G))
  BY TypesHere DEF Whole, Types
<1>3. ~(table.handed <= table.max)
  BY <1>1, <1>2, ShapedLookup DEF Sane, Regular
<1>4. g \in BOOLEAN /\ (g => table.hung \/ Hangs(table, name)) /\ (table.hung => g)
  BY <1>1
<1> HIDE DEF E, G, g
<1>5. table' \in Tables(E) /\ Leads(table, table') /\ Sane(table')
      /\ table'.handed = table.handed /\ table'.max = table.max /\ table'.refused = table.refused
  BY ONLY <1>1, <1>2, <1>4, name \in MountNames, HungSteps, SMTT(30)
<1>6. ~crossed => table' \in Tables(G)
  BY ONLY <1>1, <1>2, <1>4, name \in MountNames, HungSteps, SMTT(30)
<1> QED  BY <1>1, <1>3, <1>5, <1>6 DEF TableNext, E, G

\* The table keeps the invariant.
LEMMA WholeStays ==
  ASSUME Types, Whole, TableNext
  PROVE  Whole'
BY TypesHere, TableFields DEF Whole, TableNext, Leads

-----------------------------------------------------------------------------
(* The handles.                                                            *)

\* What every step does to the table, UnMountAll too.
TableStep ==
  /\ table' \in Tables(Entries(DOMAIN disk'))
  /\ ~crossed' => table' \in Tables(Tight(DOMAIN disk'))
  /\ table'.max = table.max /\ (table.torn => table'.torn)
  /\ bBaseMounted' \in BOOLEAN /\ crossed' \in BOOLEAN /\ (crossed => crossed')

\* No file disappears, and an archive stays what it is.
DiskStep ==
  /\ DOMAIN disk \subseteq DOMAIN disk' /\ IsFiniteSet(DOMAIN disk') /\ DOMAIN disk' \subseteq OSFiles
  /\ \A os \in DOMAIN disk' : disk'[os] \in Sizes
  /\ \A os \in DOMAIN Archives : disk'[os] = disk[os]

\* A disk that stays has lost nothing.
LEMMA SameDisk ==
  ASSUME Types, disk' = disk
  PROVE  DiskStep
BY DEF Types, TypeOK, DiskStep

\* A file that is as it should be after the step.
HandleNext(f) ==
  /\ "WRITE" \in f.access => Owns(f)
  /\ f.pos <= f.size /\ f.size <= MaxSize /\ (f.eof <=> f.pos >= f.size)
  /\ (f.onDisk /\ ~crossed' /\ ~table'.torn) => f.begin + f.size <= disk'[f.os]

\* One handle gets another file, or none.
HandleStep(h, f) ==
  /\ h \in Handles /\ f \in CLFiles \cup {Null}
  /\ fileOf' = [fileOf EXCEPT ![h] = f]
  /\ f # Null => f.os \in DOMAIN disk' /\ HandleNext(f)
  /\ \A g \in Handles : g # h /\ fileOf[g] # Null /\ fileOf[g].onDisk =>
       /\ disk[fileOf[g].os] <= disk'[fileOf[g].os]
       /\ f # Null /\ f.onDisk /\ f.os = fileOf[g].os =>
            "WRITE" \notin f.access /\ "WRITE" \notin fileOf[g].access

\* A file that stays open is as it should be when the disk has not shrunk.
LEMMA StaysOpen ==
  ASSUME Types, TableStep, DiskStep, NEW f \in CLFiles, HandleOK(f), f.os \in DOMAIN disk,
         f.onDisk => disk[f.os] <= disk'[f.os]
  PROVE  HandleNext(f)
<1>1. /\ f.begin \in Nat /\ f.size \in Nat /\ disk[f.os] \in Nat /\ disk'[f.os] \in Nat
  <2>1. disk[f.os] \in Sizes /\ disk'[f.os] \in Sizes
    BY DEF Types, TypeOK, DiskStep
  <2>2. MaxSize \in Nat
    BY DiskAssumption
  <2> QED  BY <2>1, <2>2 DEF CLFiles, Sizes
<1>2. (f.onDisk /\ ~crossed' /\ ~table'.torn) => f.begin + f.size <= disk'[f.os]
  <2> SUFFICES ASSUME f.onDisk, ~crossed', ~table'.torn PROVE f.begin + f.size <= disk'[f.os]
    OBVIOUS
  <2>1. f.begin + f.size <= disk[f.os]
    BY DEF TableStep, HandleOK
  <2> QED  BY <1>1, <2>1
<1> QED  BY <1>2 DEF HandleOK, HandleNext

\* The types hold after a step.
LEMMA TypesStay ==
  ASSUME Types, TableStep, DiskStep, fileOf' \in [Handles -> CLFiles \cup {Null}],
         \A h \in Handles : fileOf'[h] # Null => fileOf'[h].os \in DOMAIN disk'
  PROVE  Types'
<1>1. Entries(DOMAIN disk') \subseteq MountFiles
  BY DEF Entries
<1>2. table' \in Tables(MountFiles)
  BY <1>1, TablesGrow DEF TableStep
<1>3. TypeOK'
  BY <1>2 DEF Types, TypeOK, TableStep, DiskStep
<1> QED  BY <1>3 DEF Types, TableStep, DiskStep

\* A step of one handle keeps all of them as they should be.
LEMMA HandleSteps ==
  ASSUME Types, HandlesOK, Shares, ArchivesStay, TableStep, DiskStep, NEW h, NEW f, HandleStep(h, f)
  PROVE  Types' /\ HandlesOK' /\ Shares' /\ ArchivesStay'
<1>1. fileOf \in [Handles -> CLFiles \cup {Null}]
  BY DEF Types, TypeOK
<1>2. /\ h \in Handles /\ fileOf'[h] = f
      /\ \A g \in Handles : g # h => fileOf'[g] = fileOf[g]
      /\ fileOf' \in [Handles -> CLFiles \cup {Null}]
  BY <1>1 DEF HandleStep
<1>3. ASSUME NEW g \in Handles, g # h, fileOf[g] # Null
      PROVE  fileOf[g].os \in DOMAIN disk' /\ HandleNext(fileOf[g])
  <2>1. fileOf[g] \in CLFiles /\ HandleOK(fileOf[g]) /\ fileOf[g].os \in DOMAIN disk
    BY <1>3, HandleTypes
  <2>2. fileOf[g].onDisk => disk[fileOf[g].os] <= disk'[fileOf[g].os]
    BY <1>3 DEF HandleStep
  <2>3. fileOf[g].os \in DOMAIN disk'
    BY <2>1 DEF DiskStep
  <2> QED  BY <2>1, <2>2, <2>3, StaysOpen
<1>4. Types'
  BY <1>2, <1>3, TypesStay DEF HandleStep
<1>5. HandlesOK'
  <2>1. \A g \in Handles : fileOf'[g] # Null => HandleNext(fileOf'[g])
    BY <1>2, <1>3 DEF HandleStep
  <2> QED  BY <2>1 DEF HandlesOK, HandleOK, HandleNext
<1>6. Shares'
  BY <1>2 DEF Shares, HandleStep
<1>7. ArchivesStay'
  BY DEF ArchivesStay, DiskStep
<1> QED  BY <1>4, <1>5, <1>6, <1>7

\* A step that touches no handle and no file does too.
LEMMA SameHandles ==
  ASSUME Types, HandlesOK, Shares, ArchivesStay, TableStep, UNCHANGED <<fileOf, disk>>
  PROVE  Types' /\ HandlesOK' /\ Shares' /\ ArchivesStay'
<1>1. DiskStep
  BY SameDisk
<1>2. Types'
  BY <1>1, TypesStay DEF Types, TypeOK
<1>3. ASSUME NEW h \in Handles, fileOf[h] # Null PROVE HandleNext(fileOf[h])
  <2>1. fileOf[h] \in CLFiles /\ HandleOK(fileOf[h]) /\ fileOf[h].os \in DOMAIN disk
        /\ disk[fileOf[h].os] \in Sizes
    BY <1>3, HandleTypes
  <2>2. disk[fileOf[h].os] <= disk'[fileOf[h].os]
    <3>1. disk' = disk /\ MaxSize \in Nat
      BY DiskAssumption
    <3>2. disk[fileOf[h].os] \in Nat
      BY <2>1, <3>1 DEF Sizes
    <3> QED  BY <3>1, <3>2
  <2> QED  BY <1>1, <2>1, <2>2, StaysOpen
<1>4. HandlesOK'
  BY <1>3 DEF HandlesOK, HandleOK, HandleNext
<1> QED  BY <1>2, <1>4 DEF Shares, ArchivesStay

\* The greater and the smaller of two numbers.
LEMMA PairMax ==
  ASSUME NEW a \in Int, NEW b \in Int
  PROVE  Max({a, b}) = IF a >= b THEN a ELSE b
BY DEF Max

\* The smaller of two numbers.
LEMMA PairMin ==
  ASSUME NEW a \in Int, NEW b \in Int
  PROVE  Min({a, b}) = IF a <= b THEN a ELSE b
BY DEF Min

\* No pointer and no size reaches the end of a lf_dword.
LEMMA SizeBounds ==
  /\ MaxSize \in Nat /\ DWord \in Nat /\ MaxSize < DWord
  /\ \A c \in Chunks : c \in Nat /\ MaxSize + c < DWord
<1>1. MaxSize \in Nat
  BY DiskAssumption
<1>2. DWord \in Nat /\ MaxSize < DWord /\ Chunks \subseteq Nat /\ \A c \in Chunks : MaxSize + c < DWord
  BY ClientsAssumption
<1> QED  BY <1>1, <1>2

\* A handle whose pointer is moved.
Moved(f, p, s) == [f EXCEPT !.pos = p, !.size = s, !.eof = p >= s]

Moves(h, p, s) ==
  /\ MoveTo(h, p, s) /\ p \in Nat /\ s \in Nat /\ p <= s /\ s <= MaxSize
  /\ UNCHANGED <<table, bBaseMounted, crossed>>

\* A handle that moves is the same but for its pointer, size and end of file.
LEMMA MovedHandle ==
  ASSUME NEW f \in CLFiles, NEW p \in Nat, NEW s \in Nat, p <= s, s <= MaxSize
  PROVE  LET g == Moved(f, p, s)
         IN  /\ g \in CLFiles /\ g.name = f.name /\ g.os = f.os /\ g.begin = f.begin
             /\ g.access = f.access /\ g.onDisk = f.onDisk
             /\ g.pos = p /\ g.size = s /\ (g.eof <=> p >= s)
<1>1. p \in 0..DWord-1 /\ (p >= s) \in BOOLEAN
  BY SizeBounds
<1>2. Moved(f, p, s).eof = (p >= s)
  BY DEF Moved, CLFiles
<1> QED  BY <1>1, <1>2 DEF Moved, CLFiles

\* An open handle is inside its file.
LEMMA OpenHandle ==
  ASSUME Types, HandlesOK, NEW h \in Handles, fileOf[h] # Null
  PROVE  LET f == fileOf[h]
         IN  /\ f.begin \in Nat /\ f.size \in Nat /\ f.pos \in Nat /\ f.onDisk \in BOOLEAN
             /\ f.pos <= f.size /\ f.size <= MaxSize
             /\ disk[f.os] \in Nat /\ disk[f.os] <= MaxSize /\ f.os \in DOMAIN disk
             /\ (f.onDisk /\ ~crossed /\ ~table.torn) => f.begin + f.size <= disk[f.os]
             /\ "WRITE" \in f.access => f.onDisk /\ f.begin = 0 /\ f.os \notin DOMAIN Archives
<1> DEFINE f == fileOf[h]
<1>1. f \in CLFiles /\ HandleOK(f) /\ f.os \in DOMAIN disk /\ disk[f.os] \in Sizes
  BY HandleTypes
<1> HIDE DEF f
<1>2. f.begin \in Nat /\ f.size \in Nat /\ f.pos \in Nat /\ f.onDisk \in BOOLEAN
  BY <1>1, SizeBounds DEF CLFiles
<1>3. disk[f.os] \in Nat /\ disk[f.os] <= MaxSize
  BY <1>1, SizeBounds DEF Sizes
<1> QED  BY <1>1, <1>2, <1>3 DEF HandleOK, Owns, f

\* A handle that moves inside its bytes takes a step as it should.
LEMMA MoveSteps ==
  ASSUME Types, HandlesOK, Shares, DiskStep, NEW h \in Handles, fileOf[h] # Null,
         NEW p, NEW s, Moves(h, p, s),
         \A os \in DOMAIN disk : disk[os] <= disk'[os],
         (fileOf[h].onDisk /\ ~crossed /\ ~table.torn) => fileOf[h].begin + s <= disk'[fileOf[h].os]
  PROVE  HandleStep(h, Moved(fileOf[h], p, s))
<1> DEFINE f == fileOf[h]
           g == Moved(f, p, s)
<1>1. f \in CLFiles /\ HandleOK(f) /\ f.os \in DOMAIN disk
  BY HandleTypes
<1>2. /\ g \in CLFiles /\ g.name = f.name /\ g.os = f.os /\ g.begin = f.begin
      /\ g.access = f.access /\ g.onDisk = f.onDisk
      /\ g.pos = p /\ g.size = s /\ (g.eof <=> p >= s)
  BY <1>1, MovedHandle DEF Moves
<1>3. fileOf' = [fileOf EXCEPT ![h] = g]
  <2>1. fileOf \in [Handles -> CLFiles \cup {Null}]
    BY DEF Types, TypeOK
  <2> QED  BY <2>1 DEF Moves, MoveTo, Moved
<1>4. f.os \in DOMAIN disk'
  BY <1>1 DEF DiskStep
<1>5. (f.onDisk /\ ~crossed /\ ~table.torn) => f.begin + s <= disk'[f.os]
  OBVIOUS
<1>6. \A k \in Handles : k # h /\ fileOf[k] # Null /\ fileOf[k].onDisk =>
        /\ disk[fileOf[k].os] <= disk'[fileOf[k].os]
        /\ f.onDisk /\ f.os = fileOf[k].os => "WRITE" \notin f.access /\ "WRITE" \notin fileOf[k].access
  <2>1. \A k \in Handles : fileOf[k] # Null => fileOf[k].os \in DOMAIN disk
    BY DEF Types, TypeOK
  <2> QED  BY <2>1 DEF Shares
<1> HIDE DEF f, g
<1>7. HandleNext(g)
  <2>1. "WRITE" \in g.access => Owns(g)
    BY <1>1, <1>2 DEF HandleOK, Owns
  <2>2. g.pos <= g.size /\ g.size <= MaxSize /\ (g.eof <=> g.pos >= g.size)
    BY <1>2 DEF Moves
  <2>3. (g.onDisk /\ ~crossed' /\ ~table'.torn) => g.begin + g.size <= disk'[g.os]
    BY <1>2, <1>5 DEF Moves
  <2> QED  BY <2>1, <2>2, <2>3 DEF HandleNext
<1> QED  BY <1>2, <1>3, <1>4, <1>6, <1>7 DEF HandleStep, f, g

\* A handle that reads or seeks stays in its file.
LEMMA ReadMoves ==
  ASSUME Types, HandlesOK, NEW h \in Handles, NEW n \in Chunks, Read(h, n)
  PROVE  fileOf[h] # Null /\ disk' = disk /\ \E p : Moves(h, p, fileOf[h].size)
<1> DEFINE f == fileOf[h]
           asked == IF f.size < (f.pos + n) % DWord THEN f.size - f.pos ELSE n
           rest == disk[f.os] - f.begin - f.pos
           there == IF f.onDisk THEN Min({asked, Max({0, rest})}) ELSE asked
<1>1. /\ f # Null /\ n > 0 /\ disk' = disk /\ UNCHANGED <<table, bBaseMounted, crossed>>
      /\ \E got \in IF f.onDisk THEN {0, there} ELSE {there} : MoveTo(h, f.pos + got, f.size)
  BY DEF Read, hist
<1>2. PICK got \in {0, there} : MoveTo(h, f.pos + got, f.size)
  BY <1>1
<1>3. /\ f.begin \in Nat /\ f.size \in Nat /\ f.pos \in Nat /\ f.pos <= f.size /\ f.size <= MaxSize
      /\ disk[f.os] \in Nat
  BY <1>1, OpenHandle
<1> HIDE DEF f
<1>4. n \in Nat /\ MaxSize + n < DWord /\ DWord \in Nat /\ MaxSize \in Nat
  BY SizeBounds
<1>5. (f.pos + n) % DWord = f.pos + n
  BY <1>3, <1>4
<1>6. asked \in Nat /\ f.pos + asked <= f.size
  BY <1>3, <1>4, <1>5
<1>7. there \in Nat /\ there <= asked
  <2> HIDE DEF asked
  <2>1. rest \in Int
    BY <1>3
  <2> HIDE DEF rest
  <2>2. Max({0, rest}) = IF 0 >= rest THEN 0 ELSE rest
    BY <2>1, PairMax
  <2>3. Max({0, rest}) \in Nat
    BY <2>1, <2>2
  <2>4. Min({asked, Max({0, rest})}) = IF asked <= Max({0, rest}) THEN asked ELSE Max({0, rest})
    BY <1>6, <2>3, PairMin
  <2>5. Min({asked, Max({0, rest})}) \in Nat /\ Min({asked, Max({0, rest})}) <= asked
    BY <1>6, <2>3, <2>4
  <2> QED  BY <1>6, <2>5
<1> HIDE DEF there, asked
<1>8. f.pos + got \in Nat /\ f.pos + got <= f.size
  BY <1>3, <1>6, <1>7
<1>9. Moves(h, f.pos + got, f.size)
  BY <1>1, <1>2, <1>3, <1>8 DEF Moves
<1> QED  BY <1>1, <1>9 DEF f

\* Seek leaves the pointer inside the file.
LEMMA SeekMoves ==
  ASSUME Types, HandlesOK, NEW h \in Handles, NEW s \in Seeks, Seek(h, s[1], s[2])
  PROVE  fileOf[h] # Null /\ disk' = disk /\ \E p : Moves(h, p, fileOf[h].size)
<1> DEFINE f == fileOf[h]
           mode == s[1]
           off == s[2]
           from == CASE mode = "BEGIN" -> 0 [] mode = "CURRENT" -> f.pos [] mode = "END" -> f.size
           p == Clamped(f, from + off, off)
<1>1. /\ f # Null /\ disk' = disk /\ UNCHANGED <<table, bBaseMounted, crossed>>
      /\ MoveTo(h, p, f.size)
  BY DEF Seek, hist
<1>2. f.size \in Nat /\ f.pos \in Nat /\ f.size <= MaxSize
  BY <1>1, OpenHandle
<1>3. mode \in {"BEGIN", "CURRENT", "END"} /\ off \in Int
  <2>1. Seeks \subseteq {"BEGIN", "CURRENT", "END"} \X Int
    BY ClientsAssumption
  <2> QED  BY <2>1, PairParts
<1> HIDE DEF f, mode, off
<1>4. from \in Int
  BY <1>2, <1>3
<1> HIDE DEF from
<1>5. DWord \in Nat /\ DWord > 0
  BY SizeBounds
<1>6. (from + off) % DWord \in Nat
  BY <1>3, <1>4, <1>5
<1>7. p \in Nat /\ p <= f.size
  BY <1>2, <1>6 DEF Clamped
<1> HIDE DEF p
<1>8. Moves(h, p, f.size)
  BY <1>1, <1>2, <1>7 DEF Moves
<1> QED  BY <1>1, <1>8 DEF f

\* What is written is in the OS file.
LEMMA WriteMoves ==
  ASSUME Types, HandlesOK, NEW h \in Handles, NEW n \in Chunks, Write(h, n)
  PROVE  /\ fileOf[h] # Null /\ "WRITE" \in fileOf[h].access /\ DiskStep
         /\ \A os \in DOMAIN disk : disk[os] <= disk'[os] /\ (os # fileOf[h].os => disk'[os] = disk[os])
         /\ DOMAIN disk' = DOMAIN disk
         /\ \E p, s : /\ Moves(h, p, s)
                      /\ (~crossed /\ ~table.torn) => fileOf[h].begin + s <= disk'[fileOf[h].os]
<1> DEFINE f == fileOf[h]
           old == disk[f.os]
<1>1. /\ f # Null /\ "WRITE" \in f.access /\ UNCHANGED <<table, bBaseMounted, crossed>>
      /\ f.begin + f.pos + n <= MaxSize
      /\ \E wrote \in {0, n} :
           /\ disk' = [disk EXCEPT ![f.os] = IF wrote = 0 THEN @ ELSE Max({@, f.begin + f.pos + wrote})]
           /\ MoveTo(h, f.pos + wrote, Max({f.size, f.pos + wrote}))
  BY DEF Write, hist
<1>2. PICK wrote \in {0, n} :
        /\ disk' = [disk EXCEPT ![f.os] = IF wrote = 0 THEN @ ELSE Max({@, f.begin + f.pos + wrote})]
        /\ MoveTo(h, f.pos + wrote, Max({f.size, f.pos + wrote}))
  BY <1>1
<1>3. /\ f.size \in Nat /\ f.pos \in Nat /\ f.pos <= f.size /\ f.size <= MaxSize
      /\ old \in Nat /\ old <= MaxSize /\ f.os \in DOMAIN disk
      /\ f.begin = 0 /\ f.os \notin DOMAIN Archives /\ f.onDisk
      /\ (~crossed /\ ~table.torn) => f.size <= old
  <2>1. /\ f.size \in Nat /\ f.pos \in Nat /\ f.pos <= f.size /\ f.size <= MaxSize
        /\ old \in Nat /\ old <= MaxSize /\ f.os \in DOMAIN disk
        /\ f.begin = 0 /\ f.os \notin DOMAIN Archives /\ f.onDisk
        /\ (~crossed /\ ~table.torn) => f.begin + f.size <= old
    BY <1>1, OpenHandle
  <2> HIDE DEF old, f
  <2> QED  BY <2>1
<1> DEFINE new == IF wrote = 0 THEN old ELSE Max({old, f.pos + wrote})
           p == f.pos + wrote
           s == Max({f.size, p})
<1>4. disk' = [disk EXCEPT ![f.os] = new] /\ MoveTo(h, p, s)
  <2>1. f.begin + f.pos + wrote = f.pos + wrote
    BY <1>3, SizeBounds
  <2> QED  BY <1>2, <2>1
<1>9. \A os \in DOMAIN disk : disk[os] \in Nat /\ disk[os] <= MaxSize /\ disk[os] \in Sizes
  BY SizeBounds DEF Types, TypeOK, Sizes
<1>5. wrote \in Nat /\ p \in Nat /\ p <= MaxSize
  BY <1>1, <1>3, SizeBounds
<1> HIDE DEF f, old
<1>6. s \in Nat /\ p <= s /\ s <= MaxSize /\ f.size <= s /\ s = IF f.size >= p THEN f.size ELSE p
  BY <1>3, <1>5, PairMax
<1>7. new \in Nat /\ old <= new /\ new <= MaxSize /\ (f.size <= old => s <= new)
  <2>1. CASE wrote = 0
    BY <1>3, <1>5, <1>6, <2>1
  <2>2. CASE wrote # 0
    <3>1. new = IF old >= p THEN old ELSE p
      BY <1>3, <1>5, <2>2, PairMax
    <3> QED  BY <1>3, <1>5, <1>6, <3>1
  <2> QED  BY <2>1, <2>2
<1> HIDE DEF new, p, s
<1>8. DOMAIN disk' = DOMAIN disk /\ disk'[f.os] = new /\ \A os \in DOMAIN disk : os # f.os => disk'[os] = disk[os]
  BY <1>3, <1>4
<1>10. \A os \in DOMAIN disk : disk[os] <= disk'[os]
  BY <1>7, <1>8, <1>9 DEF old
<1>11. DiskStep
  <2>1. new \in Sizes
    BY <1>7, SizeBounds DEF Sizes
  <2>2. \A os \in DOMAIN disk' : disk'[os] \in Sizes
    BY <1>8, <1>9, <2>1
  <2>3. \A os \in DOMAIN Archives : disk'[os] = disk[os]
    <3>1. DOMAIN Archives \subseteq DOMAIN disk
      <4>1. DOMAIN Archives \subseteq DOMAIN DiskFiles
        BY ArchivesAssumption
      <4> QED  BY <4>1 DEF Types, TypeOK
    <3> QED  BY <1>3, <1>8, <3>1
  <2> QED  BY <1>8, <2>2, <2>3 DEF DiskStep, Types, TypeOK
<1>12. (~crossed /\ ~table.torn) => f.begin + s <= disk'[f.os]
  BY <1>3, <1>6, <1>7, <1>8
<1>13. Moves(h, p, s)
  BY <1>1, <1>4, <1>5, <1>6 DEF Moves
<1> QED  BY <1>1, <1>8, <1>10, <1>11, <1>12, <1>13 DEF f

\* What OpenExistingFile answers.
ReadWhole(info, access) == "MEMORY" \in access \/ {"ARCHIVED", "ZLIBCMP"} \subseteq info.flags

NewSize(info, access, bNew, got) ==
  IF ReadWhole(info, access) THEN got ELSE IF bNew THEN 0 ELSE info.size

\* The parts of a new handle.
LEMMA NewHandleParts ==
  ASSUME NEW info \in MountFiles, info.os \in OSFiles,
         NEW access \in SUBSET {"READ", "WRITE", "MEMORY"}, NEW bNew \in BOOLEAN,
         NEW got \in Nat, got <= MaxSize
  PROVE  LET f == NewHandle(info, access, bNew, got)
         IN  /\ f \in CLFiles /\ f.name = info.name /\ f.os = info.os /\ f.begin = info.offset
             /\ "WRITE" \in f.access <=> "WRITE" \in access
             /\ f.pos = 0 /\ f.size = NewSize(info, access, bNew, got) /\ (f.eof <=> f.pos >= f.size)
             /\ f.onDisk = ~ReadWhole(info, access)
             /\ f.size \in Nat /\ f.size <= MaxSize
<1> DEFINE mem == ReadWhole(info, access)
           held == NewSize(info, access, bNew, got)
           f == NewHandle(info, access, bNew, got)
<1>1. info.name \in MountNames /\ info.offset \in Nat /\ info.size \in Nat /\ info.size <= MaxSize
  BY SizeBounds DEF MountFiles, Sizes
<1>2. held \in Nat /\ held <= MaxSize
  BY <1>1, SizeBounds DEF NewSize
<1>3. mem \in BOOLEAN
  BY DEF ReadWhole
<1>4. f = [name |-> info.name, os |-> info.os, begin |-> info.offset,
           access |-> access \cup (IF mem THEN {"MEMORY"} ELSE {}),
           size |-> held, pos |-> 0, eof |-> 0 >= held, onDisk |-> ~mem]
  BY DEF NewHandle, ReadWhole, NewSize
<1> HIDE DEF mem, held, f
<1>5. access \cup (IF mem THEN {"MEMORY"} ELSE {}) \in SUBSET {"READ", "WRITE", "MEMORY"}
  OBVIOUS
<1>6. 0 \in 0..DWord-1 /\ (0 >= held) \in BOOLEAN /\ (~mem) \in BOOLEAN
  <2>1. 0 \in 0..DWord-1
    BY SizeBounds
  <2>2. (0 >= held) \in BOOLEAN /\ (~mem) \in BOOLEAN
    BY <1>2, <1>3
  <2> QED  BY <2>1, <2>2
<1>7. f \in CLFiles
  BY <1>1, <1>2, <1>4, <1>5, <1>6 DEF CLFiles
<1>8. f.name = info.name /\ f.os = info.os /\ f.begin = info.offset /\ f.pos = 0 /\ f.size = held
      /\ f.eof = (0 >= held) /\ f.onDisk = ~mem /\ f.access = access \cup (IF mem THEN {"MEMORY"} ELSE {})
  BY <1>4
<1> QED  BY <1>2, <1>7, <1>8 DEF mem, held, f

MadeHandle(f, info, access, bNew, got) ==
  /\ f \in CLFiles /\ f.name = info.name /\ f.os = info.os /\ f.begin = info.offset
  /\ "WRITE" \in f.access <=> "WRITE" \in access
  /\ f.pos = 0 /\ f.size = NewSize(info, access, bNew, got) /\ (f.eof <=> f.pos >= f.size)
  /\ f.onDisk = ~ReadWhole(info, access)
  /\ f.size \in Nat /\ f.size <= MaxSize

\* NewHandle makes that handle.
LEMMA HandleMade ==
  ASSUME NEW info \in MountFiles, info.os \in OSFiles,
         NEW access \in SUBSET {"READ", "WRITE", "MEMORY"}, NEW bNew \in BOOLEAN,
         NEW got \in Nat, got <= MaxSize
  PROVE  MadeHandle(NewHandle(info, access, bNew, got), info, access, bNew, got)
BY NewHandleParts DEF MadeHandle

\* At most the file's size can be read.
LEMMA ReadableSizes ==
  ASSUME Types, NEW info \in MountFiles, info.os \in DOMAIN disk, NEW got \in Readable(info)
  PROVE  got \in Nat /\ got <= info.size /\ got <= MaxSize
<1> DEFINE rest == disk[info.os] - info.offset
<1>1. info.size \in Nat /\ info.size <= MaxSize /\ info.offset \in Nat
  BY SizeBounds DEF MountFiles, Sizes
<1>2. rest \in Int
  <2>1. disk[info.os] \in Sizes
    BY DEF Types, TypeOK
  <2>2. disk[info.os] \in Nat
    BY <2>1, SizeBounds DEF Sizes
  <2> QED  BY <1>1, <2>2
<1>3. got \in {0, info.size, Min({info.size, Max({0, rest})})}
  BY DEF Readable
<1> HIDE DEF rest
<1>4. Max({0, rest}) \in Nat
  BY <1>2, PairMax
<1>5. Min({info.size, Max({0, rest})}) \in Nat /\ Min({info.size, Max({0, rest})}) <= info.size
  BY <1>1, <1>4, PairMin
<1> DEFINE least == Min({info.size, Max({0, rest})})
<1>6. least \in Nat /\ least <= info.size /\ got \in {0, info.size, least}
  BY <1>3, <1>5
<1> HIDE DEF least
<1> QED  BY <1>1, <1>6, SizeBounds

\* The calls clients make.
LEMMA OpenCalls ==
  ASSUME NEW o \in Opens
  PROVE  /\ o[1] \in MountNames /\ o[1][2] # "" /\ o[2] \in SUBSET {"READ", "WRITE", "MEMORY"}
         /\ o[3] = "CREATE_ALWAYS" => "WRITE" \in o[2]
         /\ "WRITE" \in o[2] => \A os \in DOMAIN Archives : os[2] # o[1][2]
BY ClientsAssumption

\* Files of the disk: those of the archives are among them.
LEMMA ArchivesOnDisk ==
  ASSUME Types
  PROVE  DOMAIN Archives \subseteq DOMAIN disk /\ DOMAIN disk \subseteq OSFiles
<1>1. DOMAIN Archives \subseteq DOMAIN DiskFiles
  BY ArchivesAssumption
<1> QED  BY <1>1 DEF Types, TypeOK

\* What a name leads to when a file is opened.
LEMMA OpenedEntry ==
  ASSUME Types, Whole, SizesOK, ArchivesStay, NEW name \in MountNames, NEW info, info = FindFile(table, name),
         info # Null, "DIRECTORY" \notin info.flags
  PROVE  /\ info \in MountFiles /\ info.name = name /\ info.os \in DOMAIN disk /\ info.os \in OSFiles
         /\ \/ /\ PlainEntry(info)
               /\ ~crossed /\ ~table.torn /\ ~Writing(info.os) => info.offset + info.size <= disk[info.os]
            \/ /\ PackedEntry(info)
               /\ ~crossed /\ "ZLIBCMP" \notin info.flags => info.offset + info.size <= disk[info.os]
<1>1. info \in Entries(DOMAIN disk) /\ info.name = name
  BY TypesHere, FindFileTypes
<1>2. ~crossed => info \in Tight(DOMAIN disk)
  BY TypesHere, FindFileTypes DEF Types
<1>3. info \in MountFiles /\ ((PlainEntry(info) /\ info.os \in DOMAIN disk) \/ PackedEntry(info))
  BY <1>1, EntryKinds DEF Entries
<1>4. info.os \in DOMAIN disk /\ info.os \in OSFiles
  BY <1>3, ArchivesOnDisk DEF PackedEntry
<1>5. ASSUME PlainEntry(info), ~crossed, ~table.torn, ~Writing(info.os)
      PROVE  info.offset + info.size <= disk[info.os]
  <2>1. info \in Agreeing
    BY <1>5 DEF SizesOK, Whole
  <2>2. info.size = disk[info.os] /\ info.offset = 0
    BY <1>5, <2>1 DEF Agreeing, Agrees, PlainEntry
  <2>3. info.size \in Nat
    BY <1>3, SizeBounds DEF MountFiles, Sizes
  <2> QED  BY <2>2, <2>3
<1>6. ASSUME PackedEntry(info), ~crossed, "ZLIBCMP" \notin info.flags
      PROVE  info.offset + info.size <= disk[info.os]
  <2>1. info.offset + info.size <= DiskFiles[info.os]
    BY <1>2, <1>6 DEF Tight
  <2>2. disk[info.os] = DiskFiles[info.os]
    BY <1>6 DEF ArchivesStay, PackedEntry
  <2> QED  BY <2>1, <2>2
<1> QED  BY <1>1, <1>3, <1>4, <1>5, <1>6

\* An open of a file that is mounted.
OpensFile(h, o, info, bNew) ==
  /\ h \in Handles /\ o \in Opens /\ fileOf[h] = Null /\ ~{"WRITE", "MEMORY"} \subseteq o[2]
  /\ info = FindFile(table, o[1]) /\ info # Null /\ (bNew => "WRITE" \in o[2]) /\ bNew \in BOOLEAN
  /\ OpenExisting(h, info, o[2], bNew)
  /\ UNCHANGED <<bBaseMounted, crossed>>

\* What somebody writes cannot be opened.
LEMMA SharedFile ==
  ASSUME NEW os, NEW access, SharingAllows(os, access)
  PROVE  /\ ~Writing(os)
         /\ "WRITE" \in access =>
              \A g \in Handles : fileOf[g] # Null /\ fileOf[g].onDisk => fileOf[g].os # os
BY DEF SharingAllows, Writing

\* Opening a file empties it at most, and never an archive.
LEMMA OpenedDisk ==
  ASSUME Types, NEW os \in DOMAIN disk, NEW bNew \in BOOLEAN, os \notin DOMAIN Archives \/ ~bNew,
         disk' = IF bNew THEN [disk EXCEPT ![os] = 0] ELSE disk
  PROVE  /\ DiskStep /\ DOMAIN disk' = DOMAIN disk
         /\ bNew => disk'[os] = 0
         /\ \A e \in DOMAIN disk : e # os \/ ~bNew => disk'[e] = disk[e]
<1>1. CASE ~bNew
  BY <1>1, SameDisk
<1>2. CASE bNew
  <2>1. disk' = [disk EXCEPT ![os] = 0]
    BY <1>2
  <2>2. DOMAIN disk' = DOMAIN disk /\ disk'[os] = 0 /\ \A e \in DOMAIN disk : e # os => disk'[e] = disk[e]
    BY <2>1
  <2>3. \A e \in DOMAIN disk' : disk'[e] \in Sizes
    BY <2>2, ZeroSize DEF Types, TypeOK
  <2>4. \A e \in DOMAIN Archives : disk'[e] = disk[e]
    BY <1>2, <2>2, ArchivesOnDisk
  <2> QED  BY <1>2, <2>2, <2>3, <2>4 DEF DiskStep, Types, TypeOK
<1> QED  BY <1>1, <1>2

\* Opening a file that is mounted is a step as it should be.
LEMMA OpenSteps ==
  ASSUME Types, Whole, HandlesOK, ArchivesStay, SizesOK, NEW h, NEW o, NEW info, NEW bNew,
         OpensFile(h, o, info, bNew)
  PROVE  /\ table' = table /\ DiskStep /\ DOMAIN disk' = DOMAIN disk
         /\ \E f : /\ HandleStep(h, f) /\ f # Null
                   /\ \A os \in DOMAIN disk :
                        disk'[os] = disk[os] \/ (f.os = os /\ f.onDisk /\ "WRITE" \in f.access)
<1> DEFINE access == o[2]
           os == info.os
<1>1. /\ h \in Handles /\ o \in Opens /\ ~{"WRITE", "MEMORY"} \subseteq access
      /\ info = FindFile(table, o[1]) /\ info # Null /\ (bNew => "WRITE" \in access) /\ bNew \in BOOLEAN
      /\ UNCHANGED <<bBaseMounted, crossed, table>>
      /\ "DIRECTORY" \notin info.flags
      /\ "READONLY" \in info.flags => ~bNew /\ "WRITE" \notin access
      /\ SharingAllows(os, access)
      /\ disk' = IF bNew THEN [disk EXCEPT ![os] = 0] ELSE disk
      /\ \E got \in Readable(info) : fileOf' = [fileOf EXCEPT ![h] = NewHandle(info, access, bNew, got)]
  BY DEF OpensFile, OpenExisting, OSMayOpen
<1>2. /\ o[1] \in MountNames /\ o[1][2] # "" /\ access \in SUBSET {"READ", "WRITE", "MEMORY"}
      /\ "WRITE" \in access => \A a \in DOMAIN Archives : a[2] # o[1][2]
  BY <1>1, OpenCalls
<1> HIDE DEF access
<1>3. /\ info \in MountFiles /\ info.name = o[1] /\ os \in DOMAIN disk /\ os \in OSFiles
      /\ \/ /\ PlainEntry(info)
            /\ ~crossed /\ ~table.torn /\ ~Writing(os) => info.offset + info.size <= disk[os]
         \/ /\ PackedEntry(info)
            /\ ~crossed /\ "ZLIBCMP" \notin info.flags => info.offset + info.size <= disk[os]
  BY <1>1, <1>2, OpenedEntry
<1>4. ~Writing(os) /\ ("WRITE" \in access =>
        \A g \in Handles : fileOf[g] # Null /\ fileOf[g].onDisk => fileOf[g].os # os)
  BY <1>1, SharedFile
<1>5. "WRITE" \in access => PlainEntry(info) /\ os \notin DOMAIN Archives
  <2>1. PackedEntry(info) => "WRITE" \notin access
    BY <1>1, EntryKinds
  <2>2. ASSUME PlainEntry(info), "WRITE" \in access PROVE os \notin DOMAIN Archives
    <3>1. os[2] = o[1][2]
      BY <1>3, <2>2 DEF PlainEntry
    <3> QED  BY <1>2, <2>2, <3>1
  <2> QED  BY <1>3, <2>1, <2>2
<1>6. /\ DiskStep /\ DOMAIN disk' = DOMAIN disk
      /\ bNew => disk'[os] = 0
      /\ \A e \in DOMAIN disk : e # os \/ ~bNew => disk'[e] = disk[e]
  <2>1. os \notin DOMAIN Archives \/ ~bNew
    BY <1>1, <1>5
  <2> QED  BY <1>1, <1>3, <2>1, OpenedDisk
<1>7. PICK got \in Readable(info) : fileOf' = [fileOf EXCEPT ![h] = NewHandle(info, access, bNew, got)]
  BY <1>1
<1>8. got \in Nat /\ got <= info.size /\ got <= MaxSize
  BY <1>3, ReadableSizes
<1> DEFINE f == NewHandle(info, access, bNew, got)
<1>9. /\ f \in CLFiles /\ f.name = info.name /\ f.os = os /\ f.begin = info.offset
      /\ "WRITE" \in f.access <=> "WRITE" \in access
      /\ f.pos = 0 /\ f.size = NewSize(info, access, bNew, got) /\ (f.eof <=> f.pos >= f.size)
      /\ f.onDisk = ~ReadWhole(info, access)
      /\ f.size \in Nat /\ f.size <= MaxSize
  <2>1. /\ info \in MountFiles /\ info.os \in OSFiles /\ access \in SUBSET {"READ", "WRITE", "MEMORY"}
        /\ bNew \in BOOLEAN /\ got \in Nat /\ got <= MaxSize
    BY <1>1, <1>2, <1>3, <1>8
  <2>2. MadeHandle(f, info, access, bNew, got)
    BY ONLY <2>1, HandleMade
  <2> QED  BY <2>2 DEF MadeHandle
<1>10. fileOf' = [fileOf EXCEPT ![h] = f]
  BY <1>7
<1> HIDE DEF f
<1>11. "WRITE" \in access => ~ReadWhole(info, access)
  <2>1. ASSUME "WRITE" \in access PROVE ~ReadWhole(info, access)
    <3>1. "MEMORY" \notin access
      BY <1>1, <2>1
    <3>2. "ARCHIVED" \notin info.flags
      BY <1>5, <2>1, EntryKinds
    <3> QED  BY <3>1, <3>2 DEF ReadWhole
  <2> QED  BY <2>1
<1>12. "WRITE" \in f.access => Owns(f)
  <2>1. ASSUME "WRITE" \in f.access PROVE Owns(f)
    <3>1. f.onDisk /\ PlainEntry(info) /\ os \notin DOMAIN Archives
      BY <1>5, <1>9, <1>11, <2>1
    <3>2. f.begin = 0 /\ info.name[2] = os[2] /\ info.name[1] \in PathsOf(os[1])
      BY <1>9, <3>1 DEF PlainEntry
    <3> QED  BY <1>9, <3>1, <3>2 DEF Owns
  <2> QED  BY <2>1
<1>13. (f.onDisk /\ ~crossed' /\ ~table'.torn) => f.begin + f.size <= disk'[os]
  <2> SUFFICES ASSUME f.onDisk, ~crossed, ~table.torn PROVE f.begin + f.size <= disk'[os]
    BY <1>1
  <2>1. ~ReadWhole(info, access) /\ f.size = IF bNew THEN 0 ELSE info.size
    BY <1>9 DEF NewSize
  <2>2. CASE bNew
    <3>1. f.begin = 0
      BY <1>1, <1>12, <1>9, <2>2 DEF Owns
    <3> QED  BY <1>6, <2>1, <2>2, <3>1
  <2>3. CASE ~bNew
    <3>1. disk'[os] = disk[os]
      BY <1>3, <1>6, <2>3
    <3>2. info.offset + info.size <= disk[os]
      <4>1. PackedEntry(info) => "ZLIBCMP" \notin info.flags
        BY <2>1, EntryKinds DEF ReadWhole
      <4> QED  BY <1>3, <1>4, <4>1
    <3> QED  BY <1>9, <2>1, <2>3, <3>1, <3>2
  <2> QED  BY <1>1, <2>2, <2>3
<1>14. HandleNext(f)
  BY <1>9, <1>12, <1>13, SizeBounds DEF HandleNext
<1>15. \A g \in Handles : g # h /\ fileOf[g] # Null /\ fileOf[g].onDisk =>
         /\ disk[fileOf[g].os] <= disk'[fileOf[g].os]
         /\ f.os = fileOf[g].os => "WRITE" \notin f.access /\ "WRITE" \notin fileOf[g].access
  <2>1. ASSUME NEW g \in Handles, fileOf[g] # Null, fileOf[g].onDisk
        PROVE  /\ disk[fileOf[g].os] <= disk'[fileOf[g].os]
               /\ f.os = fileOf[g].os => "WRITE" \notin f.access /\ "WRITE" \notin fileOf[g].access
    <3> DEFINE e == fileOf[g].os
    <3>1. e \in DOMAIN disk /\ disk[e] \in Nat
      BY <2>1, OpenHandle
    <3>2. disk'[e] = disk[e]
      BY <1>1, <1>4, <1>6, <2>1, <3>1
    <3>3. f.os = e => "WRITE" \notin f.access /\ "WRITE" \notin fileOf[g].access
      BY <1>4, <1>9, <2>1 DEF Writing
    <3> HIDE DEF e
    <3>4. disk[e] <= disk'[e]
      BY <3>1, <3>2
    <3> QED  BY <3>3, <3>4 DEF e
  <2> QED  BY <2>1
<1>16. HandleStep(h, f)
  BY <1>1, <1>3, <1>6, <1>9, <1>10, <1>14, <1>15 DEF HandleStep
<1>17. f # Null
  <2>1. Null \notin CLFiles
    BY DiskAssumption
  <2> QED  BY <1>9, <2>1
<1>18. \A e \in DOMAIN disk : disk'[e] = disk[e] \/ (f.os = e /\ f.onDisk /\ "WRITE" \in f.access)
  BY <1>1, <1>6, <1>9, <1>11
<1> QED  BY <1>1, <1>6, <1>16, <1>17, <1>18

\* An open that creates the file.
CreatesFile(h, o, d) ==
  /\ h \in Handles /\ o \in Opens /\ fileOf[h] = Null /\ ~{"WRITE", "MEMORY"} \subseteq o[2]
  /\ Creates(h, o[1], o[2], d)
  /\ FindFile(table, o[1]) = Null
  /\ UNCHANGED <<bBaseMounted, mounts, crossed>>

\* Creating a file is a step as it should be, of the table too.
LEMMA CreateSteps ==
  ASSUME Types, Whole, HandlesOK, ArchivesStay, NEW h, NEW o, NEW d, CreatesFile(h, o, d)
  PROVE  DiskStep /\ TableNext /\ \E f : HandleStep(h, f)
<1> DEFINE name == o[1]
           access == o[2]
           os == <<d, name[2]>>
           info == NewInfo(name, d)
           f == NewHandle(info, access, TRUE, 0)
<1>1. /\ h \in Handles /\ o \in Opens /\ ~{"WRITE", "MEMORY"} \subseteq access
      /\ Creates(h, name, access, d) /\ UNCHANGED <<bBaseMounted, mounts, crossed>>
  BY DEF CreatesFile
<1>2. /\ name \in MountNames /\ name[2] # "" /\ access \in SUBSET {"READ", "WRITE", "MEMORY"}
  BY <1>1, OpenCalls
<1>3. /\ d \in OSDirs /\ name[1] \in PathsOf(d) /\ os \in OSFiles /\ os \notin DOMAIN disk
      /\ disk' = [e \in DOMAIN disk \cup {os} |-> IF e = os THEN 0 ELSE disk[e]]
      /\ fileOf' = [fileOf EXCEPT ![h] = f]
  BY <1>1 DEF Creates
<1>4. /\ TableNext /\ DOMAIN disk' = DOMAIN disk \cup {os}
      /\ disk'[os] = 0 /\ \A e \in DOMAIN disk : disk'[e] = disk[e]
  <2>1. TableNext /\ Grows(os)
    BY <1>1, <1>2, CreateTable
  <2> HIDE DEF os
  <2> QED  BY <2>1 DEF Grows
<1>5. /\ info \in MountFiles /\ info.name = name /\ info.os = os /\ info.offset = 0 /\ info.flags = {}
      /\ os[1] = d /\ os[2] = name[2]
  <2>1. CreatedEntry(info, name, os, DOMAIN disk)
    BY <1>2, <1>3, NewInfoEntry
  <2> HIDE DEF info, os
  <2>2. os[1] = d /\ os[2] = name[2]
    BY DEF os
  <2> QED  BY <2>1, <2>2 DEF CreatedEntry, Entries
<1> HIDE DEF os, info, access, f
<1>6. os \notin DOMAIN Archives
  BY <1>3, ArchivesOnDisk
<1>7. DiskStep
  <2>1. IsFiniteSet(DOMAIN disk')
    BY <1>4, FS_AddElement DEF Types
  <2>2. DOMAIN disk' \subseteq OSFiles /\ DOMAIN disk \subseteq DOMAIN disk'
    BY <1>3, <1>4, ArchivesOnDisk
  <2>3. \A e \in DOMAIN disk' : disk'[e] \in Sizes
    BY <1>4, ZeroSize DEF Types, TypeOK
  <2>4. \A e \in DOMAIN Archives : disk'[e] = disk[e]
    BY <1>4, ArchivesOnDisk
  <2> QED  BY <2>1, <2>2, <2>3, <2>4 DEF DiskStep
<1>8. MadeHandle(f, info, access, TRUE, 0)
  <2>1. 0 \in Nat /\ 0 <= MaxSize /\ TRUE \in BOOLEAN /\ info.os \in OSFiles
    BY <1>3, <1>5, SizeBounds
  <2> QED  BY ONLY <1>2, <1>5, <2>1, HandleMade DEF f
<1>9. f \in CLFiles /\ f.os = os /\ f.size = 0 /\ f.pos = 0 /\ f.begin = 0 /\ f.name = name
      /\ f.eof /\ ("WRITE" \in f.access <=> "WRITE" \in access) /\ f.onDisk = ~ReadWhole(info, access)
  BY <1>5, <1>8 DEF MadeHandle, NewSize
<1>10. "WRITE" \in f.access => Owns(f)
  <2>1. "WRITE" \in access => ~ReadWhole(info, access)
    BY <1>1, <1>5 DEF ReadWhole
  <2> QED  BY <1>3, <1>5, <1>6, <1>9, <2>1 DEF Owns
<1>11. HandleNext(f)
  BY <1>4, <1>9, <1>10, SizeBounds DEF HandleNext
<1>12. \A g \in Handles : fileOf[g] # Null =>
         disk[fileOf[g].os] <= disk'[fileOf[g].os] /\ f.os # fileOf[g].os
  <2>1. ASSUME NEW g \in Handles, fileOf[g] # Null
        PROVE  disk[fileOf[g].os] <= disk'[fileOf[g].os] /\ f.os # fileOf[g].os
    <3> DEFINE e == fileOf[g].os
    <3>1. e \in DOMAIN disk /\ disk[e] \in Nat
      BY <2>1, OpenHandle
    <3> HIDE DEF e
    <3>2. disk[e] <= disk'[e] /\ f.os # e
      BY <1>3, <1>4, <1>9, <3>1
    <3> QED  BY <3>2 DEF e
  <2> QED  BY <2>1
<1>13. HandleStep(h, f)
  BY <1>1, <1>3, <1>4, <1>9, <1>11, <1>12 DEF HandleStep
<1> QED  BY <1>4, <1>7, <1>13

\* Closing a file is a step as it should be.
LEMMA CloseSteps ==
  ASSUME Types, NEW h \in Handles, CloseFile(h)
  PROVE  DiskStep /\ HandleStep(h, Null)
<1>1. fileOf' = [fileOf EXCEPT ![h] = Null] /\ disk' = disk
  BY CloseCases
<1>2. \A g \in Handles : fileOf[g] # Null => disk[fileOf[g].os] <= disk'[fileOf[g].os]
  <2>1. \A g \in Handles : fileOf[g] # Null => disk[fileOf[g].os] \in Sizes
    BY DEF Types, TypeOK
  <2> QED  BY <1>1, <2>1, SizeBounds DEF Sizes
<1> QED  BY <1>1, <1>2, SameDisk DEF HandleStep
-----------------------------------------------------------------------------
(* The sizes.                                                              *)

\* What the table leads to agrees with the disk while neither changes but for
\* a file that is written.
LEMMA SizesKept ==
  ASSUME Types, SizesOK, UNCHANGED table, crossed => crossed', crossed \in BOOLEAN, DOMAIN disk' = DOMAIN disk,
         \A os \in DOMAIN disk : ~Writing(os)' => ~Writing(os) /\ disk'[os] = disk[os]
  PROVE  SizesOK'
<1> SUFFICES ASSUME ~crossed', table.handed <= table.max, NEW n \in MountNames, FindFile(table, n) # Null
             PROVE  FindFile(table, n) \in Agreeing'
  BY DEF SizesOK
<1>1. FindFile(table, n) \in Agreeing
  BY DEF SizesOK
<1>2. ASSUME NEW f \in Agreeing PROVE f \in Agreeing'
  <2>1. f \in Entries(DOMAIN disk) /\ Agrees(f)
    BY DEF Agreeing
  <2>2. ASSUME PlainEntry(f), ~Writing(f.os)' PROVE f.size = disk'[f.os]
    <3>1. f.os \in DOMAIN disk
      BY <2>1, <2>2, EntryKinds DEF Entries
    <3>2. ~Writing(f.os) /\ disk'[f.os] = disk[f.os]
      BY <2>2, <3>1
    <3> QED  BY <2>1, <2>2, <3>2 DEF Agrees
  <2> QED  BY <2>1, <2>2 DEF Agreeing, Agrees
<1> QED  BY <1>1, <1>2

\* What the sizes say of the table.
LEMMA SizesAsFinds ==
  ASSUME Whole
  PROVE  /\ SizesOK /\ ~crossed => Finds(table, Agreeing)
         /\ Finds(table, Agreeing) => SizesOK
BY DEF Whole, Finds, SizesOK

\* The same of the next state.
LEMMA SizesAsFindsNext ==
  ASSUME ~crossed' => Finds(table', Agreeing')
  PROVE  SizesOK'
BY DEF Finds, SizesOK

\* While disk and handles stay, sizes that agree still do.
LEMMA SameAgreeing ==
  ASSUME UNCHANGED <<disk, fileOf>>
  PROVE  Agreeing' = Agreeing
<1>1. \A f : Agrees(f)' <=> Agrees(f)
  BY DEF Agrees, Writing
<1> QED  BY <1>1 DEF Agreeing

\* Mounting directories keeps the sizes right.
LEMMA DirMountSizes ==
  ASSUME Types, Whole, SizesOK, NEW c, NEW listing, NEW flags, DirMount(c, listing, flags)
  PROVE  SizesOK'
<1> DEFINE T == table
           E == Entries(DOMAIN disk)
           U == MountDir(T, listing, c.dir, c.at, flags)
<1>1. /\ c \in DirCalls /\ Lists(listing, c) /\ table' = U
      /\ UNCHANGED <<disk, fileOf, crossed>>
  BY DEF DirMount
<1>2. DiskTypes /\ DiskOK /\ Mountable(E) /\ T \in Tables(E)
  BY TypesHere
<1>3. AllHold(E, c)
  BY <1>1, TypesHere, DirsHold
<1>4. ASSUME NEW d \in Below(c.dir, c.deep) PROVE Holds(Agreeing, d, Under(c, d))
  <2> DEFINE m == Under(c, d)
  <2>1. d \in OSDirs /\ m \in PathsOf(d)
    BY <1>1, DirectoryPaths DEF Under
  <2>2. DirInfo(d, m) \in E /\ \A os \in FilesOf(d) : DiskInfo(os, m) \in E
    BY <1>3 DEF AllHold, Holds
  <2> HIDE DEF m
  <2>3. DirInfo(d, m) \in Agreeing
    BY <2>1, <2>2, DirEntries DEF Agreeing, Agrees
  <2>4. ASSUME NEW os \in FilesOf(d) PROVE DiskInfo(os, m) \in Agreeing
    <3>1. DiskInfo(os, m).os = os /\ DiskInfo(os, m).size = disk[os]
      BY <1>2, <2>1, PlainEntries
    <3> QED  BY <2>2, <3>1 DEF Agreeing, Agrees
  <2> QED  BY <2>3, <2>4 DEF Holds, m
<1>5. AllHold(Agreeing, c)
  BY <1>4 DEF AllHold
<1> HIDE DEF T, E, U
<1>6. ASSUME Finds(T, Agreeing) PROVE Finds(U, Agreeing)
  BY <1>1, <1>2, <1>3, <1>5, <1>6, MountDirFinds DEF U
<1>7. ~crossed' => Finds(table', Agreeing)
  BY <1>1, <1>6, SizesAsFinds DEF T
<1>8. Agreeing' = Agreeing
  BY <1>1, SameAgreeing
<1> QED  BY <1>7, <1>8, SizesAsFindsNext

\* Mounting an archive does.
LEMMA LpkMountSizes ==
  ASSUME Types, Whole, SizesOK, NEW name, NEW os, LpkMount(name, os)
  PROVE  SizesOK'
<1> DEFINE T == table
           E == Entries(DOMAIN disk)
           q == Contents(name, os)
           U == MountAll(T, q, {"OVERWRITELPKONLY"})
<1>1. /\ os \in DOMAIN Archives /\ name[1] \in {m[2] : m \in Mounts} /\ table' = U
      /\ UNCHANGED <<disk, fileOf, crossed>>
  BY DEF LpkMount
<1>2. Mountable(E) /\ T \in Tables(E)
  BY TypesHere
<1>3. q \in Seq(E) /\ \A k \in 1..Len(q) : ~PlainEntry(q[k])
  BY <1>1, ArchiveInfos
<1> HIDE DEF T, q, U
<1>4. \A k \in 1..Len(q) : q[k] \in Agreeing
  <2>1. \A k \in 1..Len(q) : q[k] \in E
    BY <1>3, ElementOfSeq
  <2> QED  BY <1>3, <2>1 DEF Agreeing, Agrees
<1> HIDE DEF E
<1>5. ASSUME Finds(T, Agreeing) PROVE Finds(U, Agreeing)
  BY <1>2, <1>3, <1>4, <1>5, MountAllFinds DEF U
<1>6. ~crossed' => Finds(table', Agreeing)
  BY <1>1, <1>5, SizesAsFinds DEF T
<1>7. Agreeing' = Agreeing
  BY <1>1, SameAgreeing
<1> QED  BY <1>6, <1>7, SizesAsFindsNext

\* Creating a file does: its entry says it is empty.
LEMMA CreateSizes ==
  ASSUME Types, Whole, SizesOK, NEW h, NEW o, NEW d, CreatesFile(h, o, d)
  PROVE  SizesOK'
<1> DEFINE name == o[1]
           os == <<d, name[2]>>
           info == NewInfo(name, d)
           T == table
           F == Entries(DOMAIN disk')
<1>1. /\ h \in Handles /\ o \in Opens /\ fileOf[h] = Null
      /\ Creates(h, name, o[2], d) /\ UNCHANGED crossed
  BY DEF CreatesFile
<1>2. name \in MountNames /\ name[2] # ""
  BY <1>1, OpenCalls
<1>3. /\ d \in OSDirs /\ name[1] \in PathsOf(d) /\ os \notin DOMAIN disk
      /\ table' = MountFile(table, info, {"OVERWRITE"})
      /\ \A g \in Handles : g # h => fileOf'[g] = fileOf[g]
  <2>1. fileOf \in [Handles -> CLFiles \cup {Null}]
    BY DEF Types, TypeOK
  <2> QED  BY <1>1, <2>1 DEF Creates
<1>4. DOMAIN disk' = DOMAIN disk \cup {os} /\ disk'[os] = 0 /\ \A e \in DOMAIN disk : disk'[e] = disk[e]
  <2>1. Grows(os)
    BY <1>1, <1>2, CreateTable
  <2> HIDE DEF os
  <2> QED  BY <2>1 DEF Grows
<1>5. CreatedEntry(info, name, os, DOMAIN disk)
  BY <1>2, <1>3, NewInfoEntry
<1> HIDE DEF os, info
<1>6. info \in F /\ info.os = os /\ info.size = 0
  BY <1>4, <1>5 DEF CreatedEntry
<1>7. \A e : Writing(e) => Writing(e)'
  BY <1>1, <1>3 DEF Writing
<1>8. ASSUME NEW f \in Agreeing PROVE f \in Agreeing'
  <2>1. f \in Entries(DOMAIN disk) /\ Agrees(f)
    BY DEF Agreeing
  <2>2. f \in F
    BY <1>4, <2>1, EntriesGrow
  <2>3. ASSUME PlainEntry(f), ~Writing(f.os)' PROVE f.size = disk'[f.os]
    <3>1. f.os \in DOMAIN disk
      BY <2>1, <2>3, EntryKinds DEF Entries
    <3>2. ~Writing(f.os)
      BY <1>7, <2>3
    <3> QED  BY <1>4, <2>1, <2>3, <3>1, <3>2 DEF Agrees
  <2> QED  BY <2>2, <2>3 DEF Agreeing, Agrees
<1>9. info \in Agreeing'
  BY <1>4, <1>6 DEF Agreeing, Agrees
<1>10. Mountable(F) /\ T \in Tables(F)
  <2>1. Entries(DOMAIN disk) \subseteq F
    BY <1>4, EntriesGrow
  <2>2. T \in Tables(F)
    BY <2>1, TypesHere, TablesGrow
  <2> QED  BY <2>2, EntriesMountable
<1>11. ASSUME ~crossed PROVE Finds(T, Agreeing')
  <2>1. Finds(T, Agreeing)
    BY <1>11, SizesAsFinds
  <2> QED  BY <1>8, <2>1 DEF Finds
<1> HIDE DEF T, F
<1>12. ASSUME ~crossed PROVE Finds(MountFile(T, info, {"OVERWRITE"}), Agreeing')
  BY <1>6, <1>9, <1>10, <1>11, <1>12, MountFinds
<1>13. ~crossed' => Finds(table', Agreeing')
  BY <1>1, <1>3, <1>12 DEF T
<1> QED  BY <1>13, SizesAsFindsNext

\* A file of the disk has one name.
LEMMA OneName ==
  ASSUME NEW f \in MountNames, NEW g \in MountNames, NEW os \in OSFiles,
         f[2] = os[2], f[1] \in PathsOf(os[1]), g[2] = os[2], g[1] \in PathsOf(os[1])
  PROVE  f = g
<1>1. os[1] \in OSDirs
  BY PairParts DEF OSFiles
<1>2. f[1] = g[1]
  BY <1>1, OnePathAssumption
<1>3. f = <<f[1], f[2]>> /\ g = <<g[1], g[2]>>
  BY PairParts DEF MountNames
<1> QED  BY <1>2, <1>3, Zenon

\* When a writer is closed only its own name leads to its file.
LEMMA ClosedAgree ==
  ASSUME Types, HandlesOK, NEW h \in Handles, fileOf[h] # Null, "WRITE" \in fileOf[h].access,
         fileOf' = [fileOf EXCEPT ![h] = Null], disk' = disk,
         NEW g \in Agreeing, g.name # fileOf[h].name
  PROVE  g \in Agreeing'
<1> DEFINE f == fileOf[h]
<1>1. g \in Entries(DOMAIN disk) /\ Agrees(g) /\ g.name \in MountNames
  BY DEF Agreeing, Entries, MountFiles
<1>2. Owns(f) /\ f.name \in MountNames /\ f.os \in OSFiles
  BY HandleTypes
<1>3. \A os : os # f.os => (Writing(os) => Writing(os)')
  <2>1. fileOf \in [Handles -> CLFiles \cup {Null}]
    BY DEF Types, TypeOK
  <2>2. \A k \in Handles : k # h => fileOf'[k] = fileOf[k]
    BY <2>1
  <2> QED  BY <2>2 DEF Writing
<1>4. ASSUME PlainEntry(g) PROVE g.os # f.os
  <2>1. ASSUME g.os = f.os PROVE FALSE
    <3>1. g.name[2] = f.os[2] /\ g.name[1] \in PathsOf(f.os[1])
      BY <1>4, <2>1 DEF PlainEntry
    <3>2. f.name[2] = f.os[2] /\ f.name[1] \in PathsOf(f.os[1])
      BY <1>2 DEF Owns
    <3> HIDE DEF f
    <3>3. g.name = f.name
      BY <1>1, <1>2, <3>1, <3>2, OneName
    <3> QED  BY <3>3 DEF f
  <2> QED  BY <2>1
<1>5. ASSUME PlainEntry(g), ~Writing(g.os)' PROVE g.size = disk'[g.os]
  BY <1>1, <1>3, <1>4, <1>5 DEF Agrees
<1> QED  BY <1>1, <1>5 DEF Agreeing, Agrees

\* Closing a file does: its entry gets the size the file has.
LEMMA CloseSizes ==
  ASSUME Types, Whole, HandlesOK, SizesOK, NEW h \in Handles, CloseFile(h)
  PROVE  SizesOK'
<1> DEFINE f == fileOf[h]
           info == FindFile(table, f.name)
           T == table
           E == Entries(DOMAIN disk)
<1>1. /\ f # Null /\ fileOf' = [fileOf EXCEPT ![h] = Null] /\ disk' = disk
      /\ (Kept(f) \/ Sized(f) \/ Missed(f))
  BY CloseCases
<1>2. f.name \in MountNames /\ ("WRITE" \in f.access => Owns(f) /\ f.name[2] # "")
  BY <1>1, HandleTypes
<1>3. CASE Kept(f)
  <2>1. \A os : ~Writing(os)' => ~Writing(os)
    <3>1. fileOf \in [Handles -> CLFiles \cup {Null}]
      BY DEF Types, TypeOK
    <3>2. \A k \in Handles : k # h => fileOf'[k] = fileOf[k]
      BY <1>1, <3>1
    <3> QED  BY <1>3, <3>2 DEF Writing, Kept
  <2>2. crossed \in BOOLEAN
    BY DEF Types, TypeOK
  <2> QED  BY <1>1, <1>3, <2>1, <2>2, SizesKept DEF Kept
<1>4. Mountable(E) /\ T \in Tables(E) /\ Sane(T)
  BY TypesHere DEF Whole
<1>5. SizesOK /\ ~crossed => \A n \in MountNames : T.handed <= T.max =>
        FindFile(T, n) = Null \/ (FindFile(T, n) \in Agreeing /\ FindFile(T, n).name = n)
  BY <1>4, FindFileTypes DEF SizesOK
<1>6. ASSUME "WRITE" \in f.access, NEW g \in Agreeing, g.name # f.name PROVE g \in Agreeing'
  BY <1>1, <1>6, ClosedAgree
<1>7. CASE Missed(f)
  <2> DEFINE b == T.hung \/ Hangs(T, f.name)
  <2>1. "WRITE" \in f.access /\ info = Null /\ table' = [T EXCEPT !.hung = b] /\ crossed' = crossed
    BY <1>7 DEF Missed
  <2>2. b \in BOOLEAN /\ (b => T.hung \/ Hangs(T, f.name)) /\ (T.hung => b)
    BY <1>4, TableFields
  <2> HIDE DEF b, f, E
  <2>3. table'.max = T.max /\ table'.handed = T.handed
        /\ (T.handed <= T.max => SameViews(T, table'))
    <3>1. HungTo(T, [T EXCEPT !.hung = b])
      BY ONLY <1>2, <1>4, <2>2, HungViews
    <3> QED  BY <2>1, <3>1 DEF HungTo
  <2>4. ASSUME ~crossed', table'.handed <= table'.max, NEW n \in MountNames, FindFile(table', n) # Null
        PROVE  FindFile(table', n) \in Agreeing'
    <3>1. FindFile(table', n) = FindFile(T, n) /\ FindFile(T, n) \in Agreeing /\ FindFile(T, n).name = n
      BY <1>5, <2>1, <2>3, <2>4 DEF SameViews
    <3>2. n # f.name
      BY <2>1, <2>4, <3>1 DEF T
    <3> QED  BY <1>6, <2>1, <3>1, <3>2
  <2> QED  BY <2>4 DEF SizesOK
<1>8. CASE Sized(f)
  <2> DEFINE new == WithSize(info, disk[f.os])
             U == MountFile(T, new, {"OVERWRITE"})
  <2>1. /\ "WRITE" \in f.access /\ info # Null /\ table' = U
        /\ crossed' = (crossed \/ info.os # f.os)
    BY <1>8 DEF Sized
  <2>2. /\ new \in E /\ new.name = f.name /\ new.os = info.os /\ new.size = disk[f.os]
    BY <1>1, <1>8, SizedEntry
  <2> HIDE DEF new, f, info
  <2>3. ASSUME ~crossed', U.handed <= U.max, NEW n \in MountNames, FindFile(U, n) # Null
        PROVE  FindFile(U, n) \in Agreeing'
    <3>1. ~crossed /\ info.os = f.os
      BY <2>1, <2>3
    <3>2. Leads(T, U) /\ T.handed <= T.max /\ Regular(T)
      <4>1. Leads(T, U)
        BY <1>4, <2>2, MountTypes
      <4>2. Sane(U) /\ (U.handed <= U.max => T.handed <= T.max)
        BY <1>4, <2>2, MountSane
      <4> QED  BY <1>4, <2>3, <4>1, <4>2 DEF Sane
    <3>3. FindFile(U, n) = IF n = f.name /\ May(T, new, {"OVERWRITE"}) THEN new ELSE FindFile(T, n)
      BY <1>4, <2>2, <2>3, <3>2, MountShaped
    <3>4. FindFile(T, f.name) # Null /\ May(T, new, {"OVERWRITE"})
      <4>1. FindFile(T, f.name) # Null
        BY <2>1 DEF info
      <4> QED  BY <2>2, <4>1 DEF May, MayOverwrite
    <3>5. CASE n = f.name
      <4>1. FindFile(U, n) = new
        BY <3>3, <3>4, <3>5
      <4>2. new \in Agreeing'
        BY <1>1, <2>2, <3>1 DEF Agreeing, Agrees
      <4> QED  BY <4>1, <4>2
    <3>6. CASE n # f.name
      <4>1. FindFile(U, n) = FindFile(T, n)
        BY <3>3, <3>6
      <4>2. FindFile(T, n) \in Agreeing /\ FindFile(T, n).name = n
        BY <1>5, <2>3, <3>1, <3>2, <4>1
      <4> QED  BY <1>6, <2>1, <3>6, <4>1, <4>2
    <3> QED  BY <3>5, <3>6
  <2> HIDE DEF U
  <2>4. ASSUME ~crossed', table'.handed <= table'.max, NEW n \in MountNames, FindFile(table', n) # Null
        PROVE  FindFile(table', n) \in Agreeing'
    BY <2>1, <2>3, <2>4
  <2> QED  BY <2>4 DEF SizesOK
<1> QED  BY <1>1, <1>3, <1>7, <1>8

\* While the table stays, sizes agree after a handle's step.
LEMMA OpenSizes ==
  ASSUME Types, SizesOK, NEW h, NEW f, HandleStep(h, f), fileOf[h] = Null, f # Null,
         UNCHANGED <<table, crossed>>, DOMAIN disk' = DOMAIN disk,
         \A os \in DOMAIN disk : disk'[os] = disk[os] \/ (f.os = os /\ f.onDisk /\ "WRITE" \in f.access)
  PROVE  SizesOK'
<1>1. fileOf \in [Handles -> CLFiles \cup {Null}] /\ crossed \in BOOLEAN
  BY DEF Types, TypeOK
<1>2. h \in Handles /\ fileOf'[h] = f /\ \A k \in Handles : k # h => fileOf'[k] = fileOf[k]
  BY <1>1 DEF HandleStep
<1>3. \A os \in DOMAIN disk : ~Writing(os)' => ~Writing(os) /\ disk'[os] = disk[os]
  BY <1>2 DEF Writing
<1> QED  BY <1>1, <1>3, SizesKept

\* A handle that moves does: only a file somebody writes changes.
LEMMA MoveSizes ==
  ASSUME Types, HandlesOK, SizesOK, NEW h \in Handles, fileOf[h] # Null, NEW p, NEW s, Moves(h, p, s),
         DOMAIN disk' = DOMAIN disk,
         \A os \in DOMAIN disk : disk'[os] = disk[os] \/ (os = fileOf[h].os /\ "WRITE" \in fileOf[h].access)
  PROVE  SizesOK'
<1>1. fileOf \in [Handles -> CLFiles \cup {Null}] /\ crossed \in BOOLEAN
  BY DEF Types, TypeOK
<1>2. fileOf[h] \in CLFiles /\ ("WRITE" \in fileOf[h].access => fileOf[h].onDisk)
  BY HandleTypes DEF Owns
<1>3. fileOf' = [fileOf EXCEPT ![h] = Moved(fileOf[h], p, s)]
  BY <1>1 DEF Moves, MoveTo, Moved
<1>4. LET g == Moved(fileOf[h], p, s)
      IN  g \in CLFiles /\ g.os = fileOf[h].os /\ g.access = fileOf[h].access /\ g.onDisk = fileOf[h].onDisk
  BY <1>2, MovedHandle DEF Moves
<1>5. Moved(fileOf[h], p, s) # Null
  <2>1. Null \notin CLFiles
    BY DiskAssumption
  <2> QED  BY <1>4, <2>1
<1>6. \A k \in Handles : /\ fileOf[k] # Null => fileOf'[k] # Null
                         /\ fileOf'[k].os = fileOf[k].os /\ fileOf'[k].access = fileOf[k].access
                         /\ fileOf'[k].onDisk = fileOf[k].onDisk
  BY <1>1, <1>3, <1>4, <1>5
<1>7. \A os \in DOMAIN disk : ~Writing(os)' => ~Writing(os) /\ disk'[os] = disk[os]
  BY <1>2, <1>6 DEF Writing
<1> QED  BY <1>1, <1>7, SizesKept DEF Moves

-----------------------------------------------------------------------------
(* The names.                                                              *)

\* The greatest of some numbers.
LEMMA MaxIs ==
  ASSUME NEW S \in SUBSET Int, NEW m \in S, \A x \in S : x <= m
  PROVE  Max(S) = m
<1>1. \A x \in S : (\A y \in S : x >= y) => x = m
  OBVIOUS
<1>2. \A y \in S : m >= y
  OBVIOUS
<1> QED  BY <1>1, <1>2 DEF Max

\* A set of the first n numbers has a greatest.
LEMMA MaxOf ==
  ASSUME NEW n \in Nat, NEW S \in SUBSET (1..n), S # {}
  PROVE  Max(S) \in S /\ \A x \in S : x <= Max(S)
<1> DEFINE D == {n - x : x \in S}
<1>1. D \in SUBSET Nat /\ D # {}
  <2>1. \A x \in S : n - x \in Nat
    OBVIOUS
  <2> QED  BY <2>1
<1> HIDE DEF D
<1>2. PICK d \in D : \A e \in D : d <= e
  BY <1>1, LeastElement
<1> USE DEF D
<1>3. PICK m \in S : d = n - m
  BY <1>2
<1>4. \A x \in S : x <= m
  BY <1>2, <1>3
<1>5. S \in SUBSET Int /\ m \in Int
  OBVIOUS
<1> HIDE DEF D
<1>6. Max(S) = m
  BY <1>4, <1>5, MaxIs
<1> QED  BY <1>3, <1>4, <1>6

\* The latest call is the one that was added, or the one it was.
LEMMA LatestOf ==
  ASSUME NEW ms \in Seq(Calls), NEW K, Places(ms, K) # {}
  PROVE  /\ Max(Places(ms, K)) \in 1..Len(ms) /\ Latest(ms, K) \in K /\ Latest(ms, K) \in Calls
         /\ \A i \in Places(ms, K) : i <= Max(Places(ms, K))
<1> DEFINE S == Places(ms, K)
<1>1. Len(ms) \in Nat /\ S \in SUBSET (1..Len(ms))
  BY LenProperties DEF Places
<1> HIDE DEF S
<1>2. Max(S) \in S /\ \A x \in S : x <= Max(S)
  BY <1>1, MaxOf DEF S
<1>3. Max(S) \in 1..Len(ms) /\ ms[Max(S)] \in K /\ ms[Max(S)] \in Calls
  BY <1>1, <1>2, ElementOfSeq DEF S, Places
<1> QED  BY <1>2, <1>3 DEF S, Latest

\* The latest call of a kind is the new one if that is of the kind.
LEMMA LatestAdded ==
  ASSUME NEW ms \in Seq(Calls), NEW c \in Calls, NEW K
  PROVE  LET new == Append(ms, c)
         IN  /\ c \in K => Places(new, K) # {} /\ Latest(new, K) = c
             /\ c \notin K => /\ (Places(new, K) # {} <=> Places(ms, K) # {})
                              /\ Places(ms, K) # {} => Latest(new, K) = Latest(ms, K)
<1> DEFINE new == Append(ms, c)
           n == Len(ms)
<1>1. /\ n \in Nat /\ Len(new) = n + 1 /\ DOMAIN new = 1..n + 1 /\ DOMAIN ms = 1..n
      /\ new[n + 1] = c /\ \A i \in 1..n : new[i] = ms[i]
  BY LenProperties, AppendProperties
<1> HIDE DEF new, n
<1>2. ASSUME c \in K PROVE Places(new, K) # {} /\ Latest(new, K) = c
  <2>1. n + 1 \in Places(new, K) /\ Places(new, K) \in SUBSET (1..n + 1)
    BY <1>1, <1>2 DEF Places
  <2>2. Max(Places(new, K)) = n + 1
    <3>1. Places(new, K) \in SUBSET Int /\ \A x \in Places(new, K) : x <= n + 1
      BY <1>1, <2>1
    <3> QED  BY <2>1, <3>1, MaxIs
  <2> QED  BY <1>1, <2>1, <2>2 DEF Latest
<1>3. ASSUME c \notin K
      PROVE  Places(new, K) = Places(ms, K)
             /\ (Places(ms, K) # {} => Latest(new, K) = Latest(ms, K))
  <2>1. Places(new, K) = Places(ms, K)
    <3>1. \A i \in 1..n + 1 : i \in 1..n \/ i = n + 1
      BY <1>1
    <3> QED  BY <1>1, <1>3, <3>1 DEF Places
  <2>2. ASSUME Places(ms, K) # {} PROVE Latest(new, K) = Latest(ms, K)
    <3>1. Max(Places(ms, K)) \in 1..n
      BY <2>2, LatestOf DEF n
    <3> QED  BY <1>1, <2>1, <3>1 DEF Latest
  <2> QED  BY <2>1, <2>2
<1> QED  BY <1>2, <1>3 DEF new

\* A call more: what it puts on offer goes first, unless it is an archive.
LEMMA FileWantedNext ==
  ASSUME NEW ms \in Seq(Calls), NEW c \in Calls, NEW D, NEW n
  PROVE  LET new == Append(ms, c)
         IN  /\ c \in Offering(D, n) =>
                  FileWanted(new, D, n) = [os |-> <<Source(c, n[1]), n[2]>>, archived |-> FALSE]
             /\ c \notin Offering(D, n) /\ c \notin Packing(n) =>
                  FileWanted(new, D, n) = FileWanted(ms, D, n)
             /\ c \notin Offering(D, n) /\ Places(ms, Offering(D, n)) # {} =>
                  FileWanted(new, D, n) = FileWanted(ms, D, n)
             /\ c \notin Offering(D, n) /\ Places(ms, Offering(D, n)) = {} /\ c \in Packing(n) =>
                  FileWanted(new, D, n) = [os |-> c.os, archived |-> TRUE]
<1> DEFINE new == Append(ms, c)
           A == Offering(D, n)
           B == Packing(n)
<1> HIDE DEF new, A, B
<1>1. /\ c \in A => Places(new, A) # {} /\ Latest(new, A) = c
      /\ c \notin A => /\ (Places(new, A) # {} <=> Places(ms, A) # {})
                       /\ Places(ms, A) # {} => Latest(new, A) = Latest(ms, A)
      /\ c \in B => Places(new, B) # {} /\ Latest(new, B) = c
      /\ c \notin B => /\ (Places(new, B) # {} <=> Places(ms, B) # {})
                       /\ Places(ms, B) # {} => Latest(new, B) = Latest(ms, B)
  BY LatestAdded DEF new
<1> DEFINE W(m) == IF Places(m, A) # {} THEN [os |-> <<Source(Latest(m, A), n[1]), n[2]>>, archived |-> FALSE]
                   ELSE IF Places(m, B) # {} THEN [os |-> Latest(m, B).os, archived |-> TRUE] ELSE Null
<1>2. FileWanted(new, D, n) = W(new) /\ FileWanted(ms, D, n) = W(ms)
  BY DEF FileWanted, A, B
<1>3. /\ c \in A => W(new) = [os |-> <<Source(c, n[1]), n[2]>>, archived |-> FALSE]
      /\ c \notin A /\ c \notin B => W(new) = W(ms)
      /\ c \notin A /\ Places(ms, A) # {} => W(new) = W(ms)
      /\ c \notin A /\ Places(ms, A) = {} /\ c \in B => W(new) = [os |-> c.os, archived |-> TRUE]
  <2>1. ASSUME c \in A PROVE W(new) = [os |-> <<Source(c, n[1]), n[2]>>, archived |-> FALSE]
    BY <1>1, <2>1
  <2>2. ASSUME c \notin A, Places(ms, A) # {} PROVE W(new) = W(ms)
    BY <1>1, <2>2
  <2>3. ASSUME c \notin A, Places(ms, A) = {}, c \notin B PROVE W(new) = W(ms)
    <3>1. CASE Places(ms, B) = {}
      BY <1>1, <2>3, <3>1
    <3>2. CASE Places(ms, B) # {}
      BY <1>1, <2>3, <3>2
    <3> QED  BY <3>1, <3>2
  <2>4. ASSUME c \notin A, Places(ms, A) = {}, c \in B PROVE W(new) = [os |-> c.os, archived |-> TRUE]
    BY <1>1, <2>4
  <2> HIDE DEF W
  <2> QED  BY <2>1, <2>2, <2>3, <2>4
<1> HIDE DEF W
<1> QED  BY <1>2, <1>3 DEF new, A, B

\* A directory's file goes before whatever was mounted.
LEMMA WantedFirst ==
  ASSUME NEW ms \in Seq(Calls), NEW c \in Calls, NEW D, NEW n, c \in Offering(D, n)
  PROVE  FileWanted(Append(ms, c), D, n) = [os |-> <<Source(c, n[1]), n[2]>>, archived |-> FALSE]
BY FileWantedNext

\* What a call does not offer leads where it led, and so does, after an archive,
\* a file of the disk.
LEMMA WantedAsBefore ==
  ASSUME NEW ms \in Seq(Calls), NEW c \in Calls, NEW D, NEW n, c \notin Offering(D, n),
         c \notin Packing(n) \/ Places(ms, Offering(D, n)) # {}
  PROVE  FileWanted(Append(ms, c), D, n) = FileWanted(ms, D, n)
BY FileWantedNext

\* An archive's file goes before those of the archives before it.
LEMMA WantedPacked ==
  ASSUME NEW ms \in Seq(Calls), NEW c \in Calls, NEW D, NEW n, c \notin Offering(D, n),
         c \in Packing(n), Places(ms, Offering(D, n)) = {}
  PROVE  FileWanted(Append(ms, c), D, n) = [os |-> c.os, archived |-> TRUE]
BY FileWantedNext

\* The directory a path leads to is the last one mounted there.
LEMMA DirWantedNext ==
  ASSUME NEW ms \in Seq(Calls), NEW c \in Calls, NEW p
  PROVE  LET new == Append(ms, c)
         IN  /\ c \in Covering(p) => DirWanted(new, p) = DirInfo(Source(c, p), p)
             /\ c \notin Covering(p) => DirWanted(new, p) = DirWanted(ms, p)
<1> DEFINE new == Append(ms, c)
           A == Covering(p)
<1> HIDE DEF new, A
<1>1. /\ c \in A => Places(new, A) # {} /\ Latest(new, A) = c
      /\ c \notin A => /\ (Places(new, A) # {} <=> Places(ms, A) # {})
                       /\ Places(ms, A) # {} => Latest(new, A) = Latest(ms, A)
  BY LatestAdded DEF new
<1>2. ASSUME c \in A PROVE DirWanted(new, p) = DirInfo(Source(c, p), p)
  BY <1>1, <1>2 DEF DirWanted, A
<1>3. ASSUME c \notin A PROVE DirWanted(new, p) = DirWanted(ms, p)
  <2>1. CASE Places(ms, A) = {}
    BY <1>1, <1>3, <2>1 DEF DirWanted, A
  <2>2. CASE Places(ms, A) # {}
    BY <1>1, <1>3, <2>2 DEF DirWanted, A
  <2> QED  BY <2>1, <2>2
<1> QED  BY <1>2, <1>3 DEF new, A

\* A directory of a call is the only one at its path.
LEMMA SourceIs ==
  ASSUME NEW c \in DirCalls, NEW d \in Below(c.dir, c.deep)
  PROVE  Source(c, Under(c, d)) = d
<1>1. \A e \in Below(c.dir, c.deep) : Under(c, e) = Under(c, d) => e = d
  BY DirectoryPaths DEF Under
<1> QED  BY <1>1 DEF Source

\* The names there are: those of files, and those of directories.
LEMMA DirNames ==
  ASSUME NEW p \in Paths
  PROVE  <<p, "">> \in MountNames /\ <<p, "">>[1] = p /\ <<p, "">>[2] = ""
<1>1. "" \in FileNames
  BY DiskAssumption
<1> QED  BY <1>1 DEF MountNames

\* A place a name leads to is not Null.
LEMMA NotNull ==
  ASSUME NEW os \in OSDirs \X FileNames, NEW a \in BOOLEAN
  PROVE  [os |-> os, archived |-> a] # Null
<1>1. Null \notin [os : OSDirs \X FileNames, archived : BOOLEAN]
  BY DiskAssumption
<1>2. [os |-> os, archived |-> a] \in [os : OSDirs \X FileNames, archived : BOOLEAN]
  OBVIOUS
<1> QED  BY <1>1, <1>2

\* The file a name is to lead to is in a directory of the disk.
LEMMA WantedFile ==
  ASSUME NEW ms \in Seq(Calls), NEW D, NEW n \in MountNames, Places(ms, Offering(D, n)) # {}
  PROVE  <<Source(Latest(ms, Offering(D, n)), n[1]), n[2]>> \in OSDirs \X FileNames
<1> DEFINE c == Latest(ms, Offering(D, n))
<1>1. c \in Offering(D, n) /\ c \in Calls
  BY LatestOf
<1>2. n[2] \in FileNames
  BY PairParts DEF MountNames
<1> HIDE DEF c
<1>3. c.kind = "dir" /\ \E d \in Below(c.dir, c.deep) : Under(c, d) = n[1]
  BY <1>1 DEF Offering
<1>4. c \in DirCalls
  BY <1>1, <1>3 DEF Calls, LpkCalls
<1>5. Source(c, n[1]) \in OSDirs
  <2>1. PICK d \in Below(c.dir, c.deep) : Under(c, d) = n[1]
    BY <1>3
  <2>2. Source(c, n[1]) = d
    BY <1>4, <2>1, SourceIs
  <2> QED  BY <1>4, <2>2, DirectoryPaths
<1>6. <<Source(c, n[1]), n[2]>> \in OSDirs \X FileNames
  BY <1>2, <1>5
<1> QED  BY <1>6 DEF c

\* While names lead where they led they lead where they should.
LEMMA SameLeads ==
  ASSUME NEW T, NEW U, NEW ms, NEW D, Leading(T, ms, D), SameViews(T, U)
  PROVE  Leading(U, ms, D)
<1>1. ASSUME NEW n \in MountNames PROVE FoundIn(U, n) = FoundIn(T, n)
  <2>1. FindFile(U, n) = FindFile(T, n)
    BY DEF SameViews
  <2> QED  BY <2>1 DEF FoundIn
<1>2. ASSUME NEW p \in Paths PROVE FindFile(U, <<p, "">>) = FindFile(T, <<p, "">>)
  BY DirNames DEF SameViews
<1> QED  BY <1>1, <1>2 DEF Leading

\* A file of the disk that is offered is found there.
LEMMA OfferedFound ==
  ASSUME NEW d, NEW n, n[2] # ""
  PROVE  LET f == Offered(d, n)
         IN  f # Null => [os |-> f.os, archived |-> "ARCHIVED" \in f.flags]
                         = [os |-> <<d, n[2]>>, archived |-> FALSE]
<1> DEFINE f == Offered(d, n)
<1>1. f.os = <<d, n[2]>> /\ "ARCHIVED" \notin f.flags
  BY DEF Offered, DiskInfo, MountInfo
<1> HIDE DEF f
<1>2. ("ARCHIVED" \in f.flags) = FALSE
  <2>1. "ARCHIVED" \notin f.flags
    BY <1>1
  <2> QED  BY ONLY <2>1
<1>3. [os |-> f.os, archived |-> "ARCHIVED" \in f.flags] = [os |-> <<d, n[2]>>, archived |-> FALSE]
  BY ONLY <1>1, <1>2
<1> QED  BY <1>3 DEF f

\* Names lead where they should after directories are mounted.
LEMMA DirMountLeads ==
  ASSUME NEW T, NEW U, NEW ms \in Seq(Calls), NEW c \in DirCalls, c.kind = "dir",
         NEW listing, Lists(listing, c), Listed(T, U, listing, c, Len(listing)),
         Leading(T, ms, DOMAIN disk),
         \A d \in Below(c.dir, c.deep) : \A n \in MountNames :
           Offers(d, Under(c, d), n) => Offered(d, n) # Null
  PROVE  Leading(U, Append(ms, c), DOMAIN disk)
<1> DEFINE D == DOMAIN disk
           new == Append(ms, c)
<1>1. c \in Calls
  BY DEF Calls
<1>2. ASSUME NEW n \in MountNames, NEW d \in Below(c.dir, c.deep), Offers(d, Under(c, d), n)
      PROVE  FindFile(U, n) = Offered(d, n)
  <2>1. PICK k \in 1..Len(listing) : listing[k] = d
    BY DEF Lists
  <2> QED  BY <1>2, <2>1 DEF Listed
<1>3. ASSUME NEW n \in MountNames, \A d \in Below(c.dir, c.deep) : ~Offers(d, Under(c, d), n)
      PROVE  FindFile(U, n) = FindFile(T, n)
  <2>1. \A k \in 1..Len(listing) : listing[k] \in Below(c.dir, c.deep)
    BY DEF Lists
  <2> QED  BY <1>3, <2>1 DEF Listed
<1>4. ASSUME NEW n \in MountNames, n[2] # "" PROVE FoundIn(U, n) = FileWanted(new, D, n)
  <2>1. CASE c \in Offering(D, n)
    <3>1. PICK d \in Below(c.dir, c.deep) : Under(c, d) = n[1] /\ <<d, n[2]>> \in D
      BY <2>1 DEF Offering
    <3>2. Offers(d, Under(c, d), n)
      BY <3>1 DEF Offers
    <3>3. FindFile(U, n) = Offered(d, n) /\ Offered(d, n) # Null
      BY <1>2, <3>2
    <3>4. FoundIn(U, n) = [os |-> <<d, n[2]>>, archived |-> FALSE]
      BY <1>4, <3>3, OfferedFound DEF FoundIn
    <3>5. Source(c, n[1]) = d
      BY <3>1, SourceIs
    <3>6. FileWanted(new, D, n) = [os |-> <<Source(c, n[1]), n[2]>>, archived |-> FALSE]
      BY <1>1, <2>1, WantedFirst
    <3> QED  BY <3>4, <3>5, <3>6
  <2>2. CASE c \notin Offering(D, n)
    <3>1. \A d \in Below(c.dir, c.deep) : ~Offers(d, Under(c, d), n)
      BY <1>1, <1>4, <2>2 DEF Offering, Offers
    <3>2. FindFile(U, n) = FindFile(T, n)
      BY <1>3, <3>1
    <3>3. c \notin Packing(n)
      BY DEF Packing
    <3>4. FileWanted(new, D, n) = FileWanted(ms, D, n)
      BY <1>1, <2>2, <3>3, WantedAsBefore
    <3> QED  BY <1>4, <3>2, <3>4 DEF Leading, FoundIn
  <2> QED  BY <2>1, <2>2
<1>5. ASSUME NEW p \in Paths PROVE FindFile(U, <<p, "">>) = DirWanted(new, p)
  <2> DEFINE n == <<p, "">>
  <2>1. n \in MountNames /\ n[1] = p /\ n[2] = ""
    BY DirNames
  <2> HIDE DEF n
  <2>2. CASE c \in Covering(p)
    <3>1. PICK d \in Below(c.dir, c.deep) : Under(c, d) = p
      BY <2>2 DEF Covering
    <3>2. FindFile(U, n) = Offered(d, n)
      BY <1>2, <2>1, <3>1 DEF Offers
    <3>3. Offered(d, n) = DirInfo(d, p)
      BY <2>1 DEF Offered
    <3>4. Source(c, p) = d
      BY <3>1, SourceIs
    <3>5. DirWanted(new, p) = DirInfo(Source(c, p), p)
      BY <1>1, <2>2, DirWantedNext
    <3> QED  BY <3>2, <3>3, <3>4, <3>5 DEF n
  <2>3. CASE c \notin Covering(p)
    <3>1. \A d \in Below(c.dir, c.deep) : ~Offers(d, Under(c, d), n)
      BY <1>1, <2>1, <2>3 DEF Covering, Offers
    <3>2. FindFile(U, n) = FindFile(T, n)
      BY <1>3, <2>1, <3>1
    <3>3. DirWanted(new, p) = DirWanted(ms, p)
      BY <1>1, <2>3, DirWantedNext
    <3> QED  BY <3>2, <3>3 DEF Leading, n
  <2> QED  BY <2>2, <2>3
<1> QED  BY <1>4, <1>5 DEF Leading

\* An archive's files take the names that no file of the disk has.
LEMMA LpkMountLeads ==
  ASSUME NEW F \in SUBSET MountFiles, Mountable(F), NEW T \in Tables(F), NEW U,
         NEW ms \in Seq(Calls), NEW D, Leading(T, ms, D),
         NEW os \in DOMAIN Archives, NEW at \in {m[2] : m \in Mounts}, NEW q, NEW total \in Nat,
         DOMAIN Archives[os] = 1..total,
         \A k \in 1..total : LET e == Archives[os][k] IN q[k].name = <<at \o e.dir, e.name>> /\ e.name # "",
         Expanded(T, U, q, total, os)
  PROVE  Leading(U, Append(ms, [kind |-> "lpk", at |-> at, os |-> os]), D)
<1> DEFINE c == [kind |-> "lpk", at |-> at, os |-> os]
           new == Append(ms, c)
<1>1. c \in Calls /\ c.kind = "lpk" /\ c.at = at /\ c.os = os
  <2>1. c \in LpkCalls
    BY ONLY os \in DOMAIN Archives, at \in {m[2] : m \in Mounts} DEF LpkCalls
  <2> QED  BY <2>1 DEF Calls
<1> HIDE DEF c
<1>2. ASSUME NEW n PROVE c \notin Offering(D, n) /\ c \notin Covering(n)
  BY <1>1 DEF Offering, Covering
<1>3. ASSUME NEW n PROVE c \in Packing(n) <=> \E k \in 1..total : q[k].name = n
  BY <1>1 DEF Packing
<1>4. ASSUME NEW n \in MountNames, n[2] # "" PROVE FoundIn(U, n) = FileWanted(new, D, n)
  <2> DEFINE f == FindFile(T, n)
             g == FindFile(U, n)
             A == Places(ms, Offering(D, n))
  <2>1. FoundIn(T, n) = FileWanted(ms, D, n)
    BY <1>4 DEF Leading
  <2>2. /\ f # Null /\ "ARCHIVED" \notin f.flags => g = f
        /\ (\A k \in 1..total : q[k].name # n) => g = f
        /\ (f = Null \/ "ARCHIVED" \in f.flags) /\ (\E k \in 1..total : q[k].name = n) =>
             g # Null /\ Packed(g, os)
    BY DEF Expanded
  <2>3. (A # {} \/ c \notin Packing(n)) => FileWanted(new, D, n) = FileWanted(ms, D, n)
    <3>1. c \notin Offering(D, n)
      BY <1>2
    <3> SUFFICES ASSUME c \notin Packing(n) \/ Places(ms, Offering(D, n)) # {}
                 PROVE  FileWanted(new, D, n) = FileWanted(ms, D, n)
      OBVIOUS
    <3> QED  BY ONLY <1>1, <3>1, ms \in Seq(Calls), c \notin Packing(n) \/ Places(ms, Offering(D, n)) # {}, WantedAsBefore
  <2>4. A = {} /\ c \in Packing(n) => FileWanted(new, D, n) = [os |-> os, archived |-> TRUE]
    BY <1>1, <1>2, WantedPacked
  <2>5. A # {} <=> (f # Null /\ "ARCHIVED" \notin f.flags)
    <3>1. FoundIn(T, n) = IF f = Null THEN Null ELSE [os |-> f.os, archived |-> "ARCHIVED" \in f.flags]
      BY DEF FoundIn
    <3>2. f # Null => [os |-> f.os, archived |-> "ARCHIVED" \in f.flags] # Null
      <4>1. f # Null => f \in MountFiles
        BY FindFileTypes
      <4>2. f # Null => f.os \in OSDirs \X FileNames
        BY <4>1 DEF MountFiles
      <4> HIDE DEF f
      <4>3. ("ARCHIVED" \in f.flags) \in BOOLEAN
        BY ONLY <4>2
      <4> QED  BY ONLY <4>2, <4>3, NotNull
    <3>3. ASSUME A # {} PROVE f # Null /\ "ARCHIVED" \notin f.flags
      <4> DEFINE w == <<Source(Latest(ms, Offering(D, n)), n[1]), n[2]>>
      <4>1. FoundIn(T, n) = [os |-> w, archived |-> FALSE]
        BY <2>1, <3>3 DEF FileWanted
      <4>2. w \in OSDirs \X FileNames
        BY <3>3, WantedFile
      <4> HIDE DEF w, f
      <4>3. f # Null
        BY <3>1, <4>1, <4>2, NotNull
      <4>4. [os |-> f.os, archived |-> "ARCHIVED" \in f.flags].archived = [os |-> w, archived |-> FALSE].archived
        BY <3>1, <4>1, <4>3, Zenon
      <4> QED  BY <4>3, <4>4
    <3>4. ASSUME f # Null, "ARCHIVED" \notin f.flags PROVE A # {}
      <4> SUFFICES ASSUME A = {} PROVE FALSE
        OBVIOUS
      <4> DEFINE w == Latest(ms, Packing(n)).os
      <4>1. FoundIn(T, n) = [os |-> w, archived |-> TRUE] \/ FoundIn(T, n) = Null
        BY <2>1 DEF FileWanted
      <4> HIDE DEF w, f
      <4>2. [os |-> f.os, archived |-> "ARCHIVED" \in f.flags] = [os |-> w, archived |-> TRUE]
        BY <3>1, <3>2, <3>4, <4>1
      <4>3. [os |-> f.os, archived |-> "ARCHIVED" \in f.flags].archived = [os |-> w, archived |-> TRUE].archived
        BY <4>2, Zenon
      <4> QED  BY <3>4, <4>3
    <3> QED  BY <3>3, <3>4
  <2> HIDE DEF f, g, A
  <2>6. CASE A # {}
    <3>1. g = f
      BY <2>2, <2>5, <2>6
    <3> QED  BY <2>1, <2>3, <2>6, <3>1 DEF FoundIn, f, g
  <2>7. CASE A = {} /\ c \in Packing(n)
    <3>1. g # Null /\ Packed(g, os)
      BY <1>3, <2>2, <2>5, <2>7
    <3>2. FoundIn(U, n) = [os |-> os, archived |-> TRUE]
      BY <3>1 DEF FoundIn, g, Packed
    <3> QED  BY <2>4, <2>7, <3>2
  <2>8. CASE A = {} /\ c \notin Packing(n)
    <3>1. g = f
      BY <1>3, <2>2, <2>8
    <3> QED  BY <2>1, <2>3, <2>8, <3>1 DEF FoundIn, f, g
  <2> QED  BY <2>6, <2>7, <2>8
<1>5. ASSUME NEW p \in Paths PROVE FindFile(U, <<p, "">>) = DirWanted(new, p)
  <2>1. <<p, "">> \in MountNames
    BY DirNames
  <2>2. \A k \in 1..total : q[k].name # <<p, "">>
    <3>1. ASSUME NEW k \in 1..total PROVE q[k].name # <<p, "">>
      <4> DEFINE e == Archives[os][k]
      <4>1. q[k].name = <<at \o e.dir, e.name>> /\ e.name # ""
        OBVIOUS
      <4> DEFINE x == at \o e.dir
                 y == e.name
                 z == q[k].name
      <4>2. z = <<x, y>> /\ y # ""
        BY <4>1
      <4> HIDE DEF x, y, z
      <4>3. z # <<p, "">>
        BY ONLY <4>2
      <4> QED  BY <4>3 DEF z
    <3> QED  BY <3>1
  <2>3. FindFile(U, <<p, "">>) = FindFile(T, <<p, "">>)
    BY <2>1, <2>2 DEF Expanded
  <2>4. DirWanted(new, p) = DirWanted(ms, p)
    BY <1>1, <1>2, DirWantedNext
  <2> QED  BY <2>3, <2>4 DEF Leading
<1> QED  BY <1>4, <1>5 DEF Leading, c

\* A file is created in the directory its path leads to, and it leads there.
LeadsToCreated(ms, D, name, d) ==
  FileWanted(ms, D \cup {<<d, name[2]>>}, name) = [os |-> <<d, name[2]>>, archived |-> FALSE]

CreatesIn(ms, name, d) == name[1] \in PathsOf(d) /\ DirWanted(ms, name[1]) = DirInfo(d, name[1])

\* A file that is created is the one its name is to lead to, in the directory
\* that was mounted last.
LEMMA CreatedSource ==
  ASSUME NEW ms \in Seq(Calls), NEW D, NEW name \in MountNames, NEW d \in OSDirs,
         CreatesIn(ms, name, d)
  PROVE  LeadsToCreated(ms, D, name, d)
<1> USE DEF CreatesIn, LeadsToCreated
<1> DEFINE p == name[1]
           E == D \cup {<<d, name[2]>>}
           A == Offering(E, name)
           C == Covering(p)
           l == Latest(ms, C)
<1>1. DirInfo(d, p) # Null
  <2>1. DirInfo(d, p) \in MountFiles
    BY DirEntries
  <2>2. Null \notin MountFiles
    BY DiskAssumption
  <2> QED  BY <2>1, <2>2
<1>2. Places(ms, C) # {} /\ DirInfo(Source(l, p), p) = DirInfo(d, p)
  BY <1>1 DEF DirWanted
<1>3. Source(l, p) = d
  <2>1. DirInfo(Source(l, p), p).os = <<Source(l, p), "">> /\ DirInfo(d, p).os = <<d, "">>
    BY DEF DirInfo, MountInfo
  <2>2. <<Source(l, p), "">> = <<d, "">>
    BY <1>2, <2>1, Zenon
  <2> QED  BY ONLY <2>2
<1>4. /\ Max(Places(ms, C)) \in 1..Len(ms) /\ l \in C /\ l \in Calls
      /\ \A i \in Places(ms, C) : i <= Max(Places(ms, C))
  BY <1>2, LatestOf
<1> HIDE DEF l
<1>5. l.kind = "dir" /\ d \in Below(l.dir, l.deep) /\ Under(l, d) = p
  <2>1. l.kind = "dir" /\ l \in DirCalls
    BY <1>4 DEF Covering, Calls, LpkCalls
  <2>2. PICK e \in Below(l.dir, l.deep) : Under(l, e) = p
    BY <1>4 DEF Covering
  <2>3. Source(l, p) = e
    BY <2>1, <2>2, SourceIs
  <2> QED  BY <1>3, <2>1, <2>2, <2>3
<1>6. l \in A /\ A \subseteq C
  BY <1>4, <1>5 DEF Offering, Covering
<1> HIDE DEF A, C
<1>7. Max(Places(ms, A)) = Max(Places(ms, C)) /\ Places(ms, A) # {}
  <2> DEFINE m == Max(Places(ms, C))
  <2>1. m \in Places(ms, A)
    <3>1. ms[m] = l /\ DOMAIN ms = 1..Len(ms)
      BY LenProperties DEF l, Latest, C
    <3> QED  BY <1>4, <1>6, <3>1 DEF Places
  <2>2. Places(ms, A) \subseteq Places(ms, C)
    BY <1>6 DEF Places
  <2>3. Places(ms, A) \in SUBSET Int
    BY LenProperties DEF Places
  <2> HIDE DEF m
  <2>4. \A i \in Places(ms, A) : i <= m
    BY <1>4, <2>2 DEF m
  <2> QED  BY <2>1, <2>3, <2>4, MaxIs DEF m
<1>8. Latest(ms, A) = l
  BY <1>7 DEF Latest, l, C
<1> QED  BY <1>3, <1>7, <1>8 DEF FileWanted, A

\* The other names lead where they led.
LEMMA CreatedOthers ==
  ASSUME NEW D, NEW name \in MountNames, NEW d \in OSDirs, name[1] \in PathsOf(d),
         NEW n \in MountNames, n # name
  PROVE  Offering(D \cup {<<d, name[2]>>}, n) = Offering(D, n)
<1> DEFINE os == <<d, name[2]>>
<1>1. ASSUME NEW c \in Calls, c.kind = "dir", NEW e \in Below(c.dir, c.deep), Under(c, e) = n[1]
      PROVE  <<e, n[2]>> # os
  <2> SUFFICES ASSUME <<e, n[2]>> = os PROVE FALSE
    OBVIOUS
  <2>1. e = d /\ n[2] = name[2]
    OBVIOUS
  <2>2. c \in DirCalls
    BY <1>1 DEF Calls, LpkCalls
  <2>3. n[1] \in PathsOf(d)
    BY <1>1, <2>1, <2>2, DirectoryPaths DEF Under
  <2>4. n[1] = name[1]
    BY <2>3, OnePathAssumption
  <2>5. n = <<n[1], n[2]>> /\ name = <<name[1], name[2]>>
    BY PairParts DEF MountNames
  <2> QED  BY <2>1, <2>4, <2>5, Zenon
<1> HIDE DEF os
<1>2. Offering(D \cup {os}, n) = Offering(D, n)
  BY <1>1 DEF Offering
<1> QED  BY <1>2 DEF os

\* Names lead where they should after a file is created.
LEMMA CreateLeads ==
  ASSUME NEW T, NEW U, NEW ms \in Seq(Calls), NEW D, Leading(T, ms, D),
         NEW name \in MountNames, name[2] # "", NEW d \in OSDirs, name[1] \in PathsOf(d),
         FindFile(T, <<name[1], "">>) = DirInfo(d, name[1]), NewInfo(name, d) # Null,
         \A n \in MountNames : FindFile(U, n) = IF n = name THEN NewInfo(name, d) ELSE FindFile(T, n)
  PROVE  Leading(U, ms, D \cup {<<d, name[2]>>})
<1> DEFINE os == <<d, name[2]>>
           info == NewInfo(name, d)
<1>1. DirWanted(ms, name[1]) = DirInfo(d, name[1])
  <2>1. name[1] \in Paths
    BY PairParts DEF MountNames
  <2> QED  BY <2>1 DEF Leading
<1>2. FileWanted(ms, D \cup {os}, name) = [os |-> os, archived |-> FALSE]
  <2>1. CreatesIn(ms, name, d)
    BY <1>1 DEF CreatesIn
  <2>2. LeadsToCreated(ms, D, name, d)
    BY ONLY <2>1, CreatedSource, ms \in Seq(Calls), name \in MountNames, d \in OSDirs
  <2> QED  BY <2>2 DEF LeadsToCreated
<1>3. FoundIn(U, name) = [os |-> os, archived |-> FALSE]
  <2>1. FindFile(U, name) = info /\ info # Null
    OBVIOUS
  <2>2. info.os = os /\ info.flags = {}
    BY DEF NewInfo, MountInfo
  <2> HIDE DEF info, os
  <2>3. ("ARCHIVED" \in info.flags) = FALSE
    BY ONLY <2>2
  <2> QED  BY ONLY <2>1, <2>2, <2>3 DEF FoundIn
<1> HIDE DEF os, info
<1>4. ASSUME NEW n \in MountNames, n[2] # "" PROVE FoundIn(U, n) = FileWanted(ms, D \cup {os}, n)
  <2>1. CASE n = name
    BY <1>2, <1>3, <2>1
  <2>2. CASE n # name
    <3>1. FindFile(U, n) = FindFile(T, n)
      BY <2>2
    <3>2. Offering(D \cup {os}, n) = Offering(D, n)
      BY <2>2, CreatedOthers DEF os
    <3>3. FileWanted(ms, D \cup {os}, n) = FileWanted(ms, D, n)
      BY <3>2 DEF FileWanted
    <3> QED  BY <1>4, <3>1, <3>3 DEF Leading, FoundIn
  <2> QED  BY <2>1, <2>2
<1>5. ASSUME NEW p \in Paths PROVE FindFile(U, <<p, "">>) = DirWanted(ms, p)
  <2>1. <<p, "">> \in MountNames /\ <<p, "">> # name
    BY DirNames
  <2>2. FindFile(U, <<p, "">>) = FindFile(T, <<p, "">>)
    BY <2>1
  <2> QED  BY <2>2 DEF Leading
<1>6. Leading(U, ms, D \cup {os})
  BY <1>4, <1>5 DEF Leading
<1> QED  BY <1>6 DEF os

\* An entry gets another size.
LEMMA SizedLeads ==
  ASSUME NEW T, NEW U, NEW ms, NEW D, Leading(T, ms, D), NEW name \in MountNames, name[2] # "",
         NEW f, FindFile(T, name) # Null, f # Null,
         f.os = FindFile(T, name).os, f.flags = FindFile(T, name).flags,
         \A n \in MountNames : (FindFile(U, n) = f /\ n = name) \/ FindFile(U, n) = FindFile(T, n)
  PROVE  Leading(U, ms, D)
<1>1. ASSUME NEW n \in MountNames PROVE FoundIn(U, n) = FoundIn(T, n)
  <2>1. CASE FindFile(U, n) = FindFile(T, n)
    BY <2>1 DEF FoundIn
  <2>2. CASE FindFile(U, n) = f /\ n = name
    <3>1. FoundIn(U, n) = [os |-> f.os, archived |-> "ARCHIVED" \in f.flags]
      BY <2>2 DEF FoundIn
    <3>2. FoundIn(T, n) = [os |-> FindFile(T, n).os, archived |-> "ARCHIVED" \in FindFile(T, n).flags]
      BY <2>2 DEF FoundIn
    <3> QED  BY <2>2, <3>1, <3>2
  <2> QED  BY <2>1, <2>2
<1>2. ASSUME NEW p \in Paths PROVE FindFile(U, <<p, "">>) = FindFile(T, <<p, "">>)
  <2>1. <<p, "">> \in MountNames /\ <<p, "">> # name
    BY DirNames
  <2> QED  BY <2>1
<1> QED  BY <1>1, <1>2 DEF Leading

\* Nothing is mounted in an empty table, and nothing should be.
LEMMA EmptyLeads ==
  ASSUME NEW T, NEW D, \A n \in MountNames : FindFile(T, n) = Null
  PROVE  Leading(T, <<>>, D)
<1>1. \A K : Places(<<>>, K) = {}
  BY DEF Places
<1>2. \A n \in MountNames : FoundIn(T, n) = Null /\ FileWanted(<<>>, D, n) = Null
  BY <1>1 DEF FoundIn, FileWanted
<1>3. \A p \in Paths : FindFile(T, <<p, "">>) = Null /\ DirWanted(<<>>, p) = Null
  BY <1>1, DirNames DEF DirWanted
<1> QED  BY <1>2, <1>3 DEF Leading

\* Each step keeps names leading where they should: mounting directories,
LEMMA DirMountResolves ==
  ASSUME Types, CallsOK, Whole, NamesLead, NEW c, NEW listing, NEW flags, DirMount(c, listing, flags)
  PROVE  NamesLead'
<1> DEFINE T == table
           U == MountDir(T, listing, c.dir, c.at, flags)
           E == Entries(DOMAIN disk)
<1>1. /\ c \in DirCalls /\ c.kind = "dir" /\ Lists(listing, c)
      /\ Overwrites(flags) \/ (Len(listing) = 1 /\ ~bBaseMounted)
      /\ table' = U /\ mounts' = Append(mounts, c) /\ disk' = disk
  BY DEF DirMount
<1>2. DiskTypes /\ DiskOK /\ Mountable(E) /\ T \in Tables(E)
  BY TypesHere
<1>3. AllHold(E, c)
  BY <1>1, <1>2, DirsHold
<1>4. \A d \in Below(c.dir, c.deep) : \A n \in MountNames :
        Offers(d, Under(c, d), n) => Offered(d, n) # Null
  <2> SUFFICES ASSUME NEW d \in Below(c.dir, c.deep), NEW n \in MountNames, Offers(d, Under(c, d), n)
               PROVE  Offered(d, n) # Null
    OBVIOUS
  <2>1. Holds(E, d, Under(c, d)) /\ n[1] = Under(c, d)
    BY <1>3 DEF AllHold, Offers
  <2>2. CASE n[2] = ""
    <3>1. Offered(d, n) = DirInfo(d, n[1])
      BY <2>2 DEF Offered
    <3>2. DirInfo(d, n[1]) \in E
      BY <2>1 DEF Holds
    <3> QED  BY <1>2, <3>1, <3>2 DEF Mountable
  <2>3. CASE n[2] # ""
    <3>1. Offered(d, n) = DiskInfo(<<d, n[2]>>, n[1])
      BY <2>3 DEF Offered
    <3>2. <<d, n[2]>> \in FilesOf(d)
      BY <2>3 DEF Offers, FilesOf, OSDirOf
    <3>3. DiskInfo(<<d, n[2]>>, n[1]) \in E
      BY <2>1, <3>2 DEF Holds
    <3> QED  BY <1>2, <3>1, <3>3 DEF Mountable
  <2> QED  BY <2>2, <2>3
<1>5. Sane(T)
  BY DEF Whole
<1>6. \/ Overwrites(flags)
      \/ Len(listing) = 1 /\ (Ok(T) => \A n \in MountNames : FindFile(T, n) = Null)
  BY <1>1, NothingMounted
<1> HIDE DEF E
<1>7. Ok(U) => Ok(T) /\ Listed(T, U, listing, c, Len(listing))
  <2> HIDE DEF T
  <2> QED  BY <1>1, <1>2, <1>3, <1>5, <1>6, MountDirNames
<1> HIDE DEF U
<1>8. ASSUME Ok(U) PROVE Leading(U, Append(mounts, c), DOMAIN disk)
  <2>1. mounts \in Seq(Calls) /\ Leading(T, mounts, DOMAIN disk) /\ Listed(T, U, listing, c, Len(listing))
    BY <1>7, <1>8 DEF CallsOK, NamesLead
  <2> HIDE DEF T
  <2> QED  BY <1>1, <1>4, <2>1, DirMountLeads
<1> QED  BY <1>1, <1>8 DEF NamesLead

\* mounting an archive,
LEMMA LpkMountResolves ==
  ASSUME Types, CallsOK, Whole, NamesLead, NEW name, NEW os, LpkMount(name, os)
  PROVE  NamesLead'
<1> DEFINE T == table
           at == name[1]
           q == Contents(name, os)
           U == MountAll(T, q, {"OVERWRITELPKONLY"})
           E == Entries(DOMAIN disk)
           c == [kind |-> "lpk", at |-> at, os |-> os]
<1>1. /\ os \in DOMAIN Archives /\ at \in {m[2] : m \in Mounts}
      /\ table' = U /\ mounts' = Append(mounts, c) /\ disk' = disk
  BY DEF LpkMount
<1>2. Mountable(E) /\ T \in Tables(E) /\ E \in SUBSET MountFiles
  BY TypesHere DEF Entries
<1>3. Sane(T)
  BY DEF Whole
<1>4. /\ q \in Seq(E) /\ DOMAIN Archives[os] = 1..Len(q) /\ Len(q) \in Nat
      /\ \A k \in 1..Len(q) : Packed(q[k], os)
      /\ \A k \in 1..Len(q) : LET e == Archives[os][k] IN q[k].name = <<at \o e.dir, e.name>> /\ e.name # ""
  BY <1>1, ArchiveInfos, LenProperties
<1> HIDE DEF q, E, T
<1>5. Ok(U) => Ok(T) /\ Expanded(T, U, q, Len(q), os)
  BY <1>2, <1>3, <1>4, MountAllExpands
<1> HIDE DEF U, at
<1>6. ASSUME Ok(U) PROVE Leading(U, Append(mounts, c), DOMAIN disk)
  <2>1. mounts \in Seq(Calls) /\ Leading(T, mounts, DOMAIN disk) /\ Expanded(T, U, q, Len(q), os)
    BY <1>5, <1>6 DEF CallsOK, NamesLead, T
  <2> QED  BY <1>1, <1>2, <1>4, <2>1, LpkMountLeads
<1> QED  BY <1>1, <1>6 DEF NamesLead

\* creating a file,
LEMMA CreateResolves ==
  ASSUME Types, CallsOK, Whole, NamesLead, NEW h, NEW o, NEW d, CreatesFile(h, o, d)
  PROVE  NamesLead'
<1> DEFINE name == o[1]
           os == <<d, name[2]>>
           info == NewInfo(name, d)
           T == table
           F == Entries(DOMAIN disk')
           U == MountFile(T, info, {"OVERWRITE"})
<1>1. /\ o \in Opens /\ Creates(h, name, o[2], d) /\ UNCHANGED <<crossed, mounts>>
  BY DEF CreatesFile
<1>2. name \in MountNames /\ name[2] # ""
  BY <1>1, OpenCalls
<1>3. /\ d \in OSDirs /\ name[1] \in PathsOf(d)
      /\ FindFile(T, <<name[1], "">>) = DirInfo(d, name[1])
      /\ table' = U
  BY <1>1 DEF Creates
<1>4. DOMAIN disk' = DOMAIN disk \cup {os}
  <2>1. Grows(os)
    BY <1>1, <1>2, CreateTable
  <2> HIDE DEF os
  <2> QED  BY <2>1 DEF Grows
<1>5. CreatedEntry(info, name, os, DOMAIN disk)
  BY <1>2, <1>3, NewInfoEntry
<1>6. Mountable(F) /\ T \in Tables(F)
  <2>1. Entries(DOMAIN disk) \subseteq F
    BY <1>4, EntriesGrow
  <2>2. T \in Tables(F)
    BY <2>1, TypesHere, TablesGrow
  <2> QED  BY <2>2, EntriesMountable
<1>7. info \in F /\ info.name = name /\ info # Null
  <2> HIDE DEF info, os
  <2>1. info \in F /\ info.name = name
    BY <1>4, <1>5 DEF CreatedEntry
  <2> QED  BY <1>6, <2>1 DEF Mountable
<1>8. Sane(T)
  BY DEF Whole
<1> HIDE DEF T, F
<1>9. Ok(U) => Ok(T) /\ \A n \in MountNames :
                 FindFile(U, n) = IF n = info.name /\ Takes(T, info, {"OVERWRITE"}) THEN info ELSE FindFile(T, n)
  <2> HIDE DEF info
  <2> QED  BY <1>6, <1>7, <1>8, MountSane
<1>10. Takes(T, info, {"OVERWRITE"})
  BY DEF Takes, MayOverwrite
<1> HIDE DEF U
<1>11. ASSUME Ok(U) PROVE Leading(U, mounts, DOMAIN disk \cup {os})
  <2>1. \A n \in MountNames : FindFile(U, n) = IF n = name THEN info ELSE FindFile(T, n)
    BY <1>7, <1>9, <1>10, <1>11
  <2>2. mounts \in Seq(Calls) /\ Leading(T, mounts, DOMAIN disk)
    BY <1>9, <1>11 DEF CallsOK, NamesLead, T
  <2> HIDE DEF name
  <2> QED  BY <1>2, <1>3, <1>7, <2>1, <2>2, CreateLeads
<1> HIDE DEF os
<1> QED  BY <1>1, <1>3, <1>4, <1>11 DEF NamesLead

\* a step that mounts nothing,
LEMMA SameResolves ==
  ASSUME NamesLead, UNCHANGED <<table, mounts>>, DOMAIN disk' = DOMAIN disk
  PROVE  NamesLead'
BY DEF NamesLead

\* closing a file,
LEMMA CloseResolves ==
  ASSUME Types, Whole, HandlesOK, NamesLead, NEW h \in Handles, CloseFile(h)
  PROVE  NamesLead'
<1> DEFINE f == fileOf[h]
           T == table
           E == Entries(DOMAIN disk)
<1>1. f # Null /\ disk' = disk /\ mounts' = mounts /\ (Kept(f) \/ Sized(f) \/ Missed(f))
  BY CloseCases
<1>2. Mountable(E) /\ T \in Tables(E) /\ Sane(T)
  BY TypesHere DEF Whole
<1>3. f.name \in MountNames /\ ("WRITE" \in f.access => f.name[2] # "")
  BY <1>1, HandleTypes
<1>4. CASE Kept(f)
  BY <1>1, <1>4, SameResolves DEF Kept
<1>5. CASE Sized(f)
  <2> DEFINE info == FindFile(T, f.name)
             new == WithSize(info, disk[f.os])
             U == MountFile(T, new, {"OVERWRITE"})
  <2>1. info # Null /\ table' = U /\ "WRITE" \in f.access
    BY <1>5 DEF Sized
  <2>2. /\ info.name = f.name /\ new \in E /\ new.name = f.name
        /\ new.os = info.os /\ new.flags = info.flags
    BY <1>1, <1>5, SizedEntry
  <2>3. new # Null
    <3> HIDE DEF new, E
    <3> QED  BY <1>2, <2>2 DEF Mountable
  <2> HIDE DEF new, E
  <2>4. U.handed <= U.max => \A n \in MountNames :
          FindFile(U, n) = FindFile(T, n) \/ (n = new.name /\ FindFile(U, n) = new)
    <3> HIDE DEF T
    <3> QED  BY <1>2, <2>2, MountSane
  <2>5. Ok(U) => Ok(T)
    <3> HIDE DEF T
    <3> QED  BY <1>2, <2>2, MountSane
  <2> HIDE DEF U
  <2>6. ASSUME Ok(U) PROVE Leading(U, mounts, DOMAIN disk)
    <3>1. \A n \in MountNames : (FindFile(U, n) = new /\ n = f.name) \/ FindFile(U, n) = FindFile(T, n)
      BY <2>2, <2>4, <2>6 DEF Ok
    <3>2. Leading(T, mounts, DOMAIN disk)
      BY <2>5, <2>6 DEF NamesLead
    <3> HIDE DEF f, T
    <3> QED  BY <1>3, <2>1, <2>2, <2>3, <3>1, <3>2, SizedLeads DEF info
  <2> QED  BY <1>1, <2>1, <2>6 DEF NamesLead
<1>6. CASE Missed(f)
  <2> DEFINE g == T.hung \/ Hangs(T, f.name)
             U == [T EXCEPT !.hung = g]
  <2>1. table' = U
    BY <1>6 DEF Missed
  <2>2. T.hung \in BOOLEAN /\ Hangs(T, f.name) \in BOOLEAN
    BY <1>2, TableFields DEF Hangs
  <2>3. g \in BOOLEAN /\ (g => T.hung \/ Hangs(T, f.name)) /\ (T.hung => g)
    BY <2>2
  <2> HIDE DEF g, f, T, E
  <2>4. HungTo(T, U)
    BY <1>2, <1>3, <2>3, HungViews
  <2> HIDE DEF U
  <2>5. ASSUME Ok(U) PROVE Leading(U, mounts, DOMAIN disk)
    <3>1. Ok(T) /\ SameViews(T, U)
      BY <2>4, <2>5 DEF Ok, HungTo
    <3>2. Leading(T, mounts, DOMAIN disk)
      BY <3>1 DEF NamesLead, T
    <3> QED  BY <3>1, <3>2, SameLeads
  <2> QED  BY <1>1, <2>1, <2>5 DEF NamesLead
<1> QED  BY <1>1, <1>4, <1>5, <1>6

\* and unmounting all.
LEMMA ClearResolves ==
  ASSUME Types, UnMountAll
  PROVE  NamesLead'
<1> DEFINE E == Entries(DOMAIN disk)
           U == Clear(table)
<1>1. table' = U /\ mounts' = <<>> /\ disk' = disk
  BY DEF UnMountAll
<1>2. Mountable(E) /\ table \in Tables(E)
  BY TypesHere
<1>3. U \in Tables(E) /\ Shaped(U) /\ U.handed = 0
  BY <1>2, ClearShape
<1> HIDE DEF U, E
<1>4. \A n \in MountNames : FindFile(U, n) = Null
  BY <1>2, <1>3, EmptyView
<1>5. Leading(U, <<>>, DOMAIN disk)
  BY <1>4, EmptyLeads
<1> QED  BY <1>1, <1>5 DEF NamesLead

-----------------------------------------------------------------------------
(* Every step keeps the invariant.                                         *)

\* While nothing is mounted a slot is not taken.
LEMMA CallsStay ==
  ASSUME CallsOK, UNCHANGED <<mounts, bBaseMounted>>, ~bBaseMounted => table'.handed = table.handed
  PROVE  CallsOK'
BY DEF CallsOK

\* A mount call is one of those the client makes.
LEMMA CallsGrow ==
  ASSUME CallsOK, NEW c \in Calls, mounts' = Append(mounts, c), bBaseMounted' = TRUE
  PROVE  CallsOK'
<1>1. mounts' \in Seq(Calls)
  BY AppendProperties DEF CallsOK
<1> QED  BY <1>1 DEF CallsOK

\* A step that leaves the table as it should be takes nothing back.
LEMMA NextTable ==
  ASSUME Types, TableNext, bBaseMounted' \in BOOLEAN, crossed' \in BOOLEAN, crossed => crossed'
  PROVE  TableStep
<1>1. table'.max = table.max /\ (table.torn => table'.torn)
  BY DEF TableNext, Leads
<1> QED  BY <1>1 DEF TableNext, TableStep

\* Mounting directories keeps the invariant.
LEMMA DirMountInv ==
  ASSUME FSInv, NEW c, NEW listing, NEW flags, DirMount(c, listing, flags)
  PROVE  FSInv'
<1>1. /\ c \in DirCalls /\ mounts' = Append(mounts, c) /\ bBaseMounted' = TRUE
      /\ UNCHANGED <<disk, fileOf, crossed>>
  BY DEF DirMount
<1>2. /\ Types /\ CallsOK /\ Whole /\ HandlesOK /\ Shares /\ ArchivesStay /\ SizesOK /\ NamesLead
  BY DEF FSInv
<1>3. TableNext
  BY <1>2, DirMountTable
<1>4. crossed \in BOOLEAN
  BY <1>2 DEF Types, TypeOK
<1>5. TableStep
  BY <1>1, <1>2, <1>3, <1>4, NextTable
<1>6. Types' /\ HandlesOK' /\ Shares' /\ ArchivesStay'
  BY <1>1, <1>2, <1>5, SameHandles
<1>7. Whole'
  BY <1>2, <1>3, WholeStays
<1>8. CallsOK'
  BY <1>1, <1>2, CallsGrow DEF Calls
<1>9. SizesOK'
  BY <1>2, DirMountSizes
<1>10. NamesLead'
  BY <1>2, DirMountResolves
<1> QED  BY <1>6, <1>7, <1>8, <1>9, <1>10 DEF FSInv

\* Mounting an archive keeps it.
LEMMA LpkMountInv ==
  ASSUME FSInv, NEW name, NEW os, LpkMount(name, os)
  PROVE  FSInv'
<1> DEFINE c == [kind |-> "lpk", at |-> name[1], os |-> os]
<1>1. /\ os \in DOMAIN Archives /\ name[1] \in {m[2] : m \in Mounts} /\ mounts' = Append(mounts, c)
      /\ bBaseMounted /\ UNCHANGED <<bBaseMounted, disk, fileOf, crossed>>
  BY DEF LpkMount
<1>2. /\ Types /\ CallsOK /\ Whole /\ HandlesOK /\ Shares /\ ArchivesStay /\ SizesOK /\ NamesLead
  BY DEF FSInv
<1>3. TableNext
  BY <1>2, LpkMountTable
<1>4. crossed \in BOOLEAN /\ bBaseMounted \in BOOLEAN
  BY <1>2 DEF Types, TypeOK
<1>5. TableStep
  BY <1>1, <1>2, <1>3, <1>4, NextTable
<1>6. Types' /\ HandlesOK' /\ Shares' /\ ArchivesStay'
  BY <1>1, <1>2, <1>5, SameHandles
<1>7. Whole'
  BY <1>2, <1>3, WholeStays
<1>8. CallsOK'
  <2> HIDE DEF c
  <2>1. c \in LpkCalls
    <3> DEFINE A == {m[2] : m \in Mounts}
               B == DOMAIN Archives
    <3>1. LpkCalls = {[kind |-> "lpk", at |-> a, os |-> b] : a \in A, b \in B}
      BY DEF LpkCalls
    <3>2. name[1] \in A /\ os \in B
      BY <1>1
    <3> HIDE DEF A, B
    <3>3. c = [kind |-> "lpk", at |-> name[1], os |-> os]
      BY DEF c
    <3> QED  BY ONLY <3>1, <3>2, <3>3
  <2>2. c \in Calls
    BY <2>1 DEF Calls
  <2>3. bBaseMounted' = TRUE
    BY <1>1, <1>4
  <2> QED  BY <1>1, <1>2, <2>2, <2>3, CallsGrow
<1>9. SizesOK'
  BY <1>2, LpkMountSizes
<1>10. NamesLead'
  BY <1>2, LpkMountResolves
<1> QED  BY <1>6, <1>7, <1>8, <1>9, <1>10 DEF FSInv

\* UnMountAll comes to a table that no walk hangs in.
LEMMA ClearInv ==
  ASSUME FSInv, ~table.hung, UnMountAll
  PROVE  FSInv'
<1> DEFINE E == Entries(DOMAIN disk)
           G == Tight(DOMAIN disk)
           U == Clear(table)
<1>1. /\ table' = U /\ bBaseMounted' = FALSE /\ mounts' = <<>> /\ UNCHANGED <<disk, fileOf, crossed>>
  BY DEF UnMountAll
<1>2. /\ Types /\ CallsOK /\ Whole /\ HandlesOK /\ Shares /\ ArchivesStay /\ SizesOK /\ NamesLead
  BY DEF FSInv
<1>3. /\ Mountable(E) /\ table \in Tables(E) /\ (~crossed => table \in Tables(G)) /\ crossed \in BOOLEAN
  BY <1>2, TypesHere DEF Types, TypeOK
<1>4. /\ U \in Tables(E) /\ Shaped(U) /\ U.max = table.max /\ U.handed = 0
      /\ U.torn = table.torn /\ U.hung = table.hung
  BY <1>3, ClearShape
<1>5. ~crossed => U \in Tables(G)
  BY <1>3, ClearShape
<1>6. U.handed <= U.max
  BY <1>3, <1>4, TableFields
<1> HIDE DEF U
<1>7. TableStep
  <2> HIDE DEF E, G
  <2>1. table' \in Tables(E) /\ (~crossed' => table' \in Tables(G))
    BY <1>1, <1>4, <1>5
  <2> QED  BY <1>1, <1>3, <1>4, <2>1 DEF TableStep, E, G
<1>8. Types' /\ HandlesOK' /\ Shares' /\ ArchivesStay'
  BY <1>1, <1>2, <1>7, SameHandles
<1>9. Whole'
  BY <1>1, <1>4, <1>6 DEF Whole, Sane, Regular
<1>10. CallsOK'
  BY <1>1, <1>4 DEF CallsOK
<1>11. SizesOK'
  <2>1. \A n \in MountNames : FindFile(U, n) = Null
    <3> HIDE DEF E
    <3> QED  BY <1>3, <1>4, EmptyView
  <2> QED  BY <1>1, <2>1 DEF SizesOK
<1>12. NamesLead'
  BY <1>2, ClearResolves
<1> QED  BY <1>8, <1>9, <1>10, <1>11, <1>12 DEF FSInv

\* A lookup that does not come back.
LEMMA HangInv ==
  ASSUME FSInv, NEW name \in MountNames, LookupHangs(name), UNCHANGED <<mounts, bBaseMounted, crossed>>
  PROVE  FSInv'
<1>1. /\ Types /\ CallsOK /\ Whole /\ HandlesOK /\ Shares /\ ArchivesStay /\ SizesOK /\ NamesLead
  BY DEF FSInv
<1>2. UNCHANGED <<disk, fileOf>>
  BY DEF LookupHangs
<1>3. /\ TableNext /\ ~(table.handed <= table.max) /\ table'.handed = table.handed /\ table'.max = table.max
  BY <1>1, HangTable
<1>4. crossed \in BOOLEAN /\ bBaseMounted \in BOOLEAN
  BY <1>1 DEF Types, TypeOK
<1>5. TableStep
  BY <1>1, <1>3, <1>4, NextTable
<1>6. Types' /\ HandlesOK' /\ Shares' /\ ArchivesStay'
  BY <1>1, <1>2, <1>5, SameHandles
<1>7. Whole'
  BY <1>1, <1>3, WholeStays
<1>8. CallsOK'
  BY <1>1, <1>3, CallsStay
<1>9. ~(table'.handed <= table'.max)
  BY <1>3
<1>10. SizesOK' /\ NamesLead'
  BY <1>9 DEF SizesOK, NamesLead, Ok
<1> QED  BY <1>6, <1>7, <1>8, <1>10 DEF FSInv

\* Creating a file keeps the invariant.
LEMMA CreateInv ==
  ASSUME FSInv, NEW h, NEW o, NEW d, CreatesFile(h, o, d)
  PROVE  FSInv'
<1>1. /\ h \in Handles /\ o \in Opens /\ Creates(h, o[1], o[2], d)
      /\ UNCHANGED <<bBaseMounted, mounts, crossed>>
  BY DEF CreatesFile
<1>2. /\ Types /\ CallsOK /\ Whole /\ HandlesOK /\ Shares /\ ArchivesStay /\ SizesOK /\ NamesLead
  BY DEF FSInv
<1>3. /\ DiskStep /\ TableNext /\ \E f : HandleStep(h, f)
  BY <1>2, CreateSteps
<1>4. crossed \in BOOLEAN /\ bBaseMounted \in BOOLEAN
  BY <1>2 DEF Types, TypeOK
<1>5. TableStep
  BY <1>1, <1>2, <1>3, <1>4, NextTable
<1>6. Types' /\ HandlesOK' /\ Shares' /\ ArchivesStay'
  BY <1>2, <1>3, <1>5, HandleSteps
<1>7. Whole'
  BY <1>2, <1>3, WholeStays
<1>8. bBaseMounted
  <2> DEFINE p == o[1][1]
  <2>1. d \in OSDirs /\ p \in PathsOf(d) /\ FindFile(table, <<p, "">>) = DirInfo(d, p)
    BY <1>1 DEF Creates
  <2>2. p \in Paths
    BY <2>1, DiskAssumption
  <2> HIDE DEF p
  <2>3. <<p, "">> \in MountNames
    BY <2>2, DirNames
  <2>4. DirInfo(d, p) \in MountFiles
    BY <2>1, DirEntries
  <2>5. DirInfo(d, p) # Null
    BY <2>4, DiskAssumption
  <2> QED  BY <1>2, <1>4, <2>1, <2>3, <2>5, NothingMounted
<1>9. CallsOK'
  BY <1>1, <1>2, <1>8, CallsStay
<1>10. SizesOK'
  BY <1>2, CreateSizes
<1>11. NamesLead'
  BY <1>2, CreateResolves
<1> QED  BY <1>6, <1>7, <1>9, <1>10, <1>11 DEF FSInv

\* Opening a file that is mounted keeps it.
LEMMA OpenInv ==
  ASSUME FSInv, NEW h, NEW o, NEW info, NEW bNew, OpensFile(h, o, info, bNew), mounts' = mounts
  PROVE  FSInv'
<1>1. h \in Handles /\ fileOf[h] = Null /\ UNCHANGED <<bBaseMounted, crossed>>
  BY DEF OpensFile
<1>2. /\ Types /\ CallsOK /\ Whole /\ HandlesOK /\ Shares /\ ArchivesStay /\ SizesOK /\ NamesLead
  BY DEF FSInv
<1>3. table' = table /\ DiskStep /\ DOMAIN disk' = DOMAIN disk
  BY <1>2, OpenSteps
<1>4. PICK f : /\ HandleStep(h, f) /\ f # Null
               /\ \A os \in DOMAIN disk :
                    disk'[os] = disk[os] \/ (f.os = os /\ f.onDisk /\ "WRITE" \in f.access)
  BY <1>2, OpenSteps
<1>5. crossed \in BOOLEAN /\ bBaseMounted \in BOOLEAN
  BY <1>2 DEF Types, TypeOK
<1>6. TableNext
  BY <1>1, <1>2, <1>3, SameTable
<1>7. TableStep
  BY <1>1, <1>2, <1>5, <1>6, NextTable
<1>8. Types' /\ HandlesOK' /\ Shares' /\ ArchivesStay'
  BY <1>2, <1>3, <1>4, <1>7, HandleSteps
<1>9. Whole'
  BY <1>2, <1>6, WholeStays
<1>10. CallsOK'
  BY <1>1, <1>2, <1>3, CallsStay
<1>11. SizesOK'
  BY <1>1, <1>2, <1>3, <1>4, OpenSizes
<1>12. NamesLead'
  BY <1>2, <1>3, SameResolves
<1> QED  BY <1>8, <1>9, <1>10, <1>11, <1>12 DEF FSInv

\* Closing a file keeps it.
LEMMA CloseInv ==
  ASSUME FSInv, NEW h \in Handles, CloseFile(h)
  PROVE  FSInv'
<1>1. /\ Types /\ CallsOK /\ Whole /\ HandlesOK /\ Shares /\ ArchivesStay /\ SizesOK /\ NamesLead
  BY DEF FSInv
<1>2. /\ fileOf[h] # Null /\ mounts' = mounts /\ bBaseMounted' = bBaseMounted
      /\ Kept(fileOf[h]) \/ Sized(fileOf[h]) \/ Missed(fileOf[h])
  BY <1>1, CloseCases
<1>3. DiskStep /\ HandleStep(h, Null)
  BY <1>1, CloseSteps
<1>4. TableNext
  BY <1>1, CloseTable
<1>5. bBaseMounted \in BOOLEAN /\ crossed \in BOOLEAN
  BY <1>1 DEF Types, TypeOK
<1>6. crossed' \in BOOLEAN /\ (crossed => crossed')
  BY <1>2, <1>5 DEF Kept, Sized, Missed
<1>7. TableStep
  BY <1>1, <1>2, <1>4, <1>5, <1>6, NextTable
<1>8. Types' /\ HandlesOK' /\ Shares' /\ ArchivesStay'
  BY <1>1, <1>3, <1>7, HandleSteps
<1>9. Whole'
  BY <1>1, <1>4, WholeStays
<1>10. ASSUME ~bBaseMounted PROVE table'.handed = table.handed
  <2>1. FindFile(table, fileOf[h].name) = Null
    <3>1. fileOf[h].name \in MountNames
      BY <1>1, <1>2, HandleTypes
    <3> QED  BY <1>1, <1>10, <3>1, NothingMounted
  <2>2. ~Sized(fileOf[h])
    BY <2>1 DEF Sized
  <2>3. ASSUME Missed(fileOf[h]) PROVE table'.handed = table.handed
    <3>1. table \in Tables(Entries(DOMAIN disk))
      BY <1>1, TypesHere
    <3> QED  BY <2>3, <3>1 DEF Missed, Tables
  <2> QED  BY <1>2, <2>2, <2>3 DEF Kept
<1>11. CallsOK'
  BY <1>1, <1>2, <1>10, CallsStay
<1>12. SizesOK'
  BY <1>1, CloseSizes
<1>13. NamesLead'
  BY <1>1, CloseResolves
<1> QED  BY <1>8, <1>9, <1>11, <1>12, <1>13 DEF FSInv

\* A handle whose pointer moves, over a disk that may have grown under it.
MovesOn(h, p, s) ==
  /\ Moves(h, p, s) /\ DiskStep /\ DOMAIN disk' = DOMAIN disk
  /\ fileOf[h] # Null /\ mounts' = mounts
  /\ \A os \in DOMAIN disk : disk[os] <= disk'[os]
  /\ \A os \in DOMAIN disk : disk'[os] = disk[os] \/ (os = fileOf[h].os /\ "WRITE" \in fileOf[h].access)
  /\ (fileOf[h].onDisk /\ ~crossed /\ ~table.torn) => fileOf[h].begin + s <= disk'[fileOf[h].os]

\* Moving a handle keeps it.
LEMMA MoveInv ==
  ASSUME FSInv, NEW h \in Handles, NEW p, NEW s, MovesOn(h, p, s)
  PROVE  FSInv'
<1>1. /\ Types /\ CallsOK /\ Whole /\ HandlesOK /\ Shares /\ ArchivesStay /\ SizesOK /\ NamesLead
  BY DEF FSInv
<1>2. /\ Moves(h, p, s) /\ DiskStep /\ DOMAIN disk' = DOMAIN disk
      /\ fileOf[h] # Null /\ UNCHANGED <<table, bBaseMounted, crossed, mounts>>
  BY DEF MovesOn, Moves
<1>3. HandleStep(h, Moved(fileOf[h], p, s))
  BY <1>1, <1>2, MoveSteps DEF MovesOn
<1>4. bBaseMounted \in BOOLEAN /\ crossed \in BOOLEAN
  BY <1>1 DEF Types, TypeOK
<1>5. TableNext
  BY <1>1, <1>2, SameTable
<1>6. TableStep
  BY <1>1, <1>2, <1>4, <1>5, NextTable
<1>7. Types' /\ HandlesOK' /\ Shares' /\ ArchivesStay'
  BY <1>1, <1>2, <1>3, <1>6, HandleSteps
<1>8. Whole'
  BY <1>1, <1>5, WholeStays
<1>9. CallsOK'
  BY <1>1, <1>2, CallsStay
<1>10. SizesOK'
  BY <1>1, <1>2, MoveSizes DEF MovesOn
<1>11. NamesLead'
  BY <1>1, <1>2, SameResolves
<1> QED  BY <1>7, <1>8, <1>9, <1>10, <1>11 DEF FSInv

\* OpenFile keeps the invariant, in each of its four outcomes.
LEMMA OpenFileInv ==
  ASSUME FSInv, NEW h \in Handles, NEW o \in Opens, OpenFile(h, o[1], o[2], o[3])
  PROVE  FSInv'
<1> DEFINE name == o[1]
           info == FindFile(table, name)
<1>1. Types
  BY DEF FSInv
<1>2. /\ name \in MountNames /\ name[2] # ""
      /\ o[3] = "CREATE_ALWAYS" => "WRITE" \in o[2]
  BY OpenCalls
<1>3. /\ fileOf[h] = Null /\ ~{"WRITE", "MEMORY"} \subseteq o[2]
      /\ UNCHANGED <<bBaseMounted, mounts, crossed>>
  BY DEF OpenFile
<1>4. \/ LookupHangs(name) \/ LookupHangs(DirOf(name))
      \/ info # Null /\ OpenExisting(h, info, o[2], o[3] = "CREATE_ALWAYS")
      \/ info = Null /\ CreateNew(h, name, o[2])
  BY DEF OpenFile
<1>5. CASE LookupHangs(name)
  BY <1>2, <1>3, <1>5, HangInv
<1>6. CASE LookupHangs(DirOf(name))
  <2>1. DirOf(name) \in MountNames
    <3>1. name[1] \in Paths
      BY <1>2, PairParts DEF MountNames
    <3> QED  BY <3>1, DirNames DEF DirOf
  <2> QED  BY <1>3, <1>6, <2>1, HangInv
<1>7. CASE info # Null /\ OpenExisting(h, info, o[2], o[3] = "CREATE_ALWAYS")
  <2>1. OpensFile(h, o, info, o[3] = "CREATE_ALWAYS")
    BY <1>2, <1>3, <1>7 DEF OpensFile
  <2> HIDE DEF info
  <2> QED  BY <1>3, <2>1, OpenInv
<1>8. CASE info = Null /\ CreateNew(h, name, o[2])
  <2>1. PICK d : Creates(h, name, o[2], d)
    BY <1>1, <1>2, <1>8, CreatedFile
  <2>2. CreatesFile(h, o, d)
    BY <1>3, <1>8, <2>1 DEF CreatesFile
  <2> QED  BY <2>2, CreateInv
<1> QED  BY <1>4, <1>5, <1>6, <1>7, <1>8

\* A handle that moves over a disk that stays keeps it.
LEMMA StillMoves ==
  ASSUME FSInv, NEW h \in Handles, fileOf[h] # Null, disk' = disk, mounts' = mounts,
         NEW p, Moves(h, p, fileOf[h].size)
  PROVE  FSInv'
<1>1. Types /\ HandlesOK
  BY DEF FSInv
<1>2. DiskStep /\ \A os \in DOMAIN disk : disk[os] <= disk'[os]
  <2>1. \A os \in DOMAIN disk : disk[os] \in Nat
    BY <1>1, SizeBounds DEF Types, TypeOK, Sizes
  <2> QED  BY <1>1, <2>1, SameDisk
<1>3. (fileOf[h].onDisk /\ ~crossed /\ ~table.torn) => fileOf[h].begin + fileOf[h].size <= disk'[fileOf[h].os]
  BY <1>1, OpenHandle
<1>4. MovesOn(h, p, fileOf[h].size)
  BY <1>2, <1>3 DEF MovesOn
<1> QED  BY <1>4, MoveInv

\* Read keeps it,
LEMMA ReadInv ==
  ASSUME FSInv, NEW h \in Handles, NEW n \in Chunks, Read(h, n)
  PROVE  FSInv'
<1>1. Types /\ HandlesOK /\ mounts' = mounts
  BY DEF FSInv, Read, hist
<1>2. fileOf[h] # Null /\ disk' = disk /\ \E p : Moves(h, p, fileOf[h].size)
  BY <1>1, ReadMoves
<1> QED  BY <1>1, <1>2, StillMoves

\* Seek,
LEMMA SeekInv ==
  ASSUME FSInv, NEW h \in Handles, NEW s \in Seeks, Seek(h, s[1], s[2])
  PROVE  FSInv'
<1>1. Types /\ HandlesOK /\ mounts' = mounts
  BY DEF FSInv, Seek, hist
<1>2. fileOf[h] # Null /\ disk' = disk /\ \E p : Moves(h, p, fileOf[h].size)
  BY <1>1, SeekMoves
<1> QED  BY <1>1, <1>2, StillMoves

\* and Write.
LEMMA WriteInv ==
  ASSUME FSInv, NEW h \in Handles, NEW n \in Chunks, Write(h, n)
  PROVE  FSInv'
<1>1. Types /\ HandlesOK /\ mounts' = mounts
  BY DEF FSInv, Write, hist
<1>2. /\ fileOf[h] # Null /\ "WRITE" \in fileOf[h].access /\ DiskStep
      /\ \A os \in DOMAIN disk : disk[os] <= disk'[os] /\ (os # fileOf[h].os => disk'[os] = disk[os])
      /\ DOMAIN disk' = DOMAIN disk
  BY <1>1, WriteMoves
<1>3. PICK p, s : Moves(h, p, s) /\ ((~crossed /\ ~table.torn) => fileOf[h].begin + s <= disk'[fileOf[h].os])
  BY <1>1, WriteMoves
<1>4. MovesOn(h, p, s)
  BY <1>1, <1>2, <1>3 DEF MovesOn
<1> QED  BY <1>4, MoveInv

\* Every step keeps the invariant,
LEMMA StepInv ==
  ASSUME FSInv, ~table.hung, FSNext
  PROVE  FSInv'
<1>1. bBaseMounted \in BOOLEAN
  BY DEF FSInv, Types, TypeOK
<1>2. CASE MountBase \/ \E m \in Mounts : Mount(m[1], m[2])
  <2>1. PICK c, listing, flags : DirMount(c, listing, flags)
    BY <1>1, <1>2, DirMounts
  <2> QED  BY <2>1, DirMountInv
<1>3. ASSUME NEW os \in DOMAIN Archives, NEW at \in {m[2] : m \in Mounts}, MountLPK(<<at, os[2]>>)
      PROVE  FSInv'
  <2>1. PICK name, o : LpkMount(name, o)
    BY <1>3, LpkMounts
  <2> QED  BY <2>1, LpkMountInv
<1>4. CASE UnMountAll
  BY <1>4, ClearInv
<1>5. ASSUME NEW h \in Handles, NEW o \in Opens, OpenFile(h, o[1], o[2], o[3]) PROVE FSInv'
  BY <1>5, OpenFileInv
<1>6. ASSUME NEW h \in Handles, CloseFile(h) PROVE FSInv'
  BY <1>6, CloseInv
<1>7. ASSUME NEW h \in Handles, NEW n \in Chunks, Read(h, n) \/ Write(h, n) PROVE FSInv'
  BY <1>7, ReadInv, WriteInv
<1>8. ASSUME NEW h \in Handles, NEW s \in Seeks, Seek(h, s[1], s[2]) PROVE FSInv'
  BY <1>8, SeekInv
<1> QED  BY ONLY FSNext, <1>2, <1>3, <1>4, <1>5, <1>6, <1>7, <1>8 DEF FSNext

\* which holds at first
LEMMA InitInv ==
  ASSUME FSInit
  PROVE  FSInv
<1>1. PICK max \in Capacities : table = NewTable(max)
  BY DEF FSInit
<1>2. /\ bBaseMounted = FALSE /\ disk = DiskFiles /\ fileOf = [h \in Handles |-> Null]
      /\ mounts = <<>> /\ crossed = FALSE
  BY DEF FSInit
<1> DEFINE D == DOMAIN disk
           U == NewTable(max)
<1>3. max \in 1..MaxSlots
  BY ClientsAssumption
<1>4. \A F : U \in Tables(F) /\ Regular(U) /\ U.max = max /\ U.handed = 0 /\ ~U.refused /\ ~U.torn
  BY <1>3, NewTableShape
<1> HIDE DEF U
<1>5. /\ IsFiniteSet(D) /\ D \subseteq OSFiles /\ \A os \in D : disk[os] \in Sizes
  BY <1>2, DiskAssumption
<1>6. Types
  <2>1. table \in Tables(MountFiles) /\ table \in Tables(Entries(D)) /\ table \in Tables(Tight(D))
    BY <1>1, <1>4 DEF U
  <2>2. table.max \in Capacities
    BY <1>1, <1>4 DEF U
  <2>3. fileOf \in [Handles -> CLFiles \cup {Null}] /\ \A h \in Handles : fileOf[h] = Null
    BY <1>2
  <2>4. TypeOK
    BY <1>2, <1>5, <2>1, <2>2, <2>3 DEF TypeOK
  <2> QED  BY <1>5, <2>1, <2>4 DEF Types
<1>7. CallsOK
  <2>1. <<>> \in Seq(Calls)
    OBVIOUS
  <2> QED  BY <1>1, <1>2, <1>4, <2>1 DEF CallsOK, U
<1>8. table.handed <= table.max
  BY <1>1, <1>3, <1>4 DEF U
<1>9. Whole
  BY <1>1, <1>4, <1>8 DEF Whole, Sane, U
<1>10. HandlesOK /\ Shares
  BY <1>2 DEF HandlesOK, Shares
<1>11. ArchivesStay
  BY <1>2 DEF ArchivesStay
<1>12. \A n \in MountNames : FindFile(table, n) = Null
  BY <1>2, <1>6, <1>7, <1>9, NothingMounted
<1>13. SizesOK
  BY <1>12 DEF SizesOK
<1>14. NamesLead
  BY <1>2, <1>12, EmptyLeads DEF NamesLead
<1> QED  BY <1>6, <1>7, <1>9, <1>10, <1>11, <1>13, <1>14 DEF FSInv

\* and while nothing happens.
LEMMA StutterInv ==
  ASSUME FSInv, UNCHANGED fsVars
  PROVE  FSInv'
<1>1. UNCHANGED <<table, bBaseMounted, disk, fileOf, mounts, crossed>>
  BY DEF fsVars
<1>2. /\ Types /\ CallsOK /\ Whole /\ HandlesOK /\ Shares /\ ArchivesStay /\ SizesOK /\ NamesLead
  BY DEF FSInv
<1>3. Types'
  BY <1>1, <1>2 DEF Types, TypeOK
<1>4. CallsOK' /\ Whole' /\ Shares' /\ ArchivesStay'
  BY <1>1, <1>2 DEF CallsOK, Whole, Shares, ArchivesStay
<1>5. HandlesOK'
  BY <1>1, <1>2 DEF HandlesOK, HandleOK
<1>6. Agreeing' = Agreeing
  BY <1>1, SameAgreeing
<1>7. SizesOK'
  BY <1>1, <1>2, <1>6 DEF SizesOK
<1>8. NamesLead'
  BY <1>1, <1>2, SameResolves
<1> QED  BY <1>3, <1>4, <1>5, <1>7, <1>8 DEF FSInv

\* For every table size, disk, set of archives, clients and handles: the invariant
\* holds whatever is mounted, unmounted, opened, created, written and closed, in
\* whatever order (CLFileSystem, CLFile).
THEOREM FileSystemInvariant == FSSpec => []FSInv
<1>1. FSInit => FSInv
  BY InitInv
<1>2. FSInv /\ [~table.hung /\ FSNext]_fsVars => FSInv'
  BY StepInv, StutterInv
<1> QED  BY <1>1, <1>2, PTL DEF FSSpec

-----------------------------------------------------------------------------
(* What the invariant says.                                                *)

\* A chain holds the slots in use of its bucket.
LEMMA ShapedChain ==
  ASSUME NEW F, Mountable(F), NEW T \in Tables(F), Shaped(T), NEW b \in Buckets
  PROVE  OnChain(T, b) = {s \in Used(T) : Bucket(T, s) = b}
<1>1. ASSUME NEW s \in OnChain(T, b) PROVE s \in Used(T) /\ Bucket(T, s) = b
  <2>1. PICK i \in 0..MaxSlots : s = Visited(T, b)[i] /\ s # Null
    BY DEF OnChain
  <2> QED  BY <2>1, ShapedWalk
<1>2. ASSUME NEW s \in Used(T), Bucket(T, s) = b PROVE s \in OnChain(T, b)
  <2>1. PICK i \in 0..T.max - 1 : Visited(T, b)[i] = s
    BY <1>2, ShapedVisits
  <2>2. i \in 0..MaxSlots /\ s # Null
    BY TableFields, UsedSlots
  <2> QED  BY <2>1, <2>2 DEF OnChain
<1> QED  BY <1>1, <1>2

\* A table of that shape is sound, and holds the slots that were handed out.
LEMMA ShapedSound ==
  ASSUME NEW F, Mountable(F), table \in Tables(F), Shaped(table)
  PROVE  Sound /\ InUse = Used(table)
<1> DEFINE T == table
           on == [b \in Buckets |-> OnChain(T, b)]
           used == UNION {on[b] : b \in Buckets}
<1>1. \A b \in Buckets : EndsWell(T, b)
  <2> HIDE DEF T
  <2> QED  BY ShapedEnds DEF T
<1>2. \A b \in Buckets : OnChain(T, b) = {s \in Used(T) : Bucket(T, s) = b}
  BY ShapedChain
<1>3. \A s \in Used(T) : s \in 0..T.max - 1 /\ Bucket(T, s) \in Buckets
  BY UsedSlots
<1>4. used = Used(T)
  BY <1>2, <1>3
<1>5. InUse = Used(T)
  BY <1>2, <1>3 DEF InUse
<1>6. \A b \in Buckets, s \in used : s \in on[b] <=> Hash(T.file[s].name) = b
  BY <1>2, <1>4 DEF Bucket
<1>7. Cardinality({T.file[s].name : s \in used}) = Cardinality(used)
  <2> DEFINE N == {T.file[s].name : s \in Used(T)}
             f == [s \in Used(T) |-> T.file[s].name]
  <2>1. IsFiniteSet(Used(T))
    <3>1. T.max \in Nat
      BY TableFields
    <3>2. IsFiniteSet(0..T.max - 1)
      BY <3>1, FS_Interval
    <3>3. Used(T) \subseteq 0..T.max - 1
      BY <1>3
    <3> QED  BY <3>2, <3>3, FS_Subset
  <2>2. f \in [Used(T) -> N] /\ \A n \in N : \E s \in Used(T) : f[s] = n
    OBVIOUS
  <2>3. \A s, t \in Used(T) : f[s] = f[t] => s = t
    BY DEF Shaped, Chained, NameAt
  <2> HIDE DEF N, f, T
  <2>4. Cardinality(N) = Cardinality(Used(T))
    BY <2>1, <2>2, <2>3, CountedBy
  <2> QED  BY <1>4, <2>4 DEF N
<1> QED  BY <1>1, <1>5, <1>6, <1>7 DEF Sound

\* The invariant says each of the four properties.
LEMMA InvSound ==
  ASSUME FSInv
  PROVE  TableIsSound
<1>1. TypeOK /\ Types /\ Sane(table)
  BY DEF FSInv, Types, Whole
<1>2. ASSUME table.handed <= table.max PROVE Sound
  <2>1. Shaped(table)
    BY <1>1, <1>2 DEF Sane, Regular
  <2> QED  BY <1>1, <2>1, TypesHere, ShapedSound
<1> QED  BY <1>1, <1>2 DEF TableIsSound

\* An entry that is in use is what its name leads to, so its size agrees.
LEMMA InvSizes ==
  ASSUME FSInv
  PROVE  SizesAgree
<1> DEFINE T == table
           E == Entries(DOMAIN disk)
<1> SUFFICES ASSUME ~crossed, T.handed <= T.max, NEW s \in InUse,
                    T.file[s].flags \cap {"DIRECTORY", "ARCHIVED"} = {}, ~Writing(T.file[s].os)
             PROVE  T.file[s].size = disk[T.file[s].os]
  BY DEF SizesAgree
<1>1. Types /\ Sane(T) /\ SizesOK
  BY DEF FSInv, Whole
<1>2. Mountable(E) /\ T \in Tables(E)
  BY <1>1, TypesHere
<1>3. Shaped(T)
  BY <1>1 DEF Sane, Regular
<1>4. s \in Used(T)
  BY <1>2, <1>3, ShapedSound
<1>5. T.file[s] \in E /\ NameAt(T, s) \in MountNames
  <2> HIDE DEF T, E
  <2> QED  BY <1>2, <1>3, <1>4, UsedSlots
<1>6. FindFile(T, NameAt(T, s)) = T.file[s]
  <2> HIDE DEF T, E
  <2> QED  BY <1>2, <1>3, <1>4, <1>5, ShapedLookup
<1>7. T.file[s] \in Agreeing \cup {Null}
  BY <1>1, <1>5, <1>6 DEF SizesOK
<1>8. T.file[s] # Null
  BY <1>2, <1>5 DEF Mountable
<1>9. PlainEntry(T.file[s])
  BY <1>5, EntryKinds DEF Entries
<1> QED  BY <1>7, <1>8, <1>9 DEF Agreeing, Agrees

\* A handle is inside its file.
LEMMA InvHandles ==
  ASSUME FSInv
  PROVE  FileInsideOSFile
BY DEF FSInv, HandlesOK, HandleOK, FileInsideOSFile

\* The mount calls that Wanted looks at.
LEMMA WantedIs ==
  ASSUME mounts \in Seq(Calls), NEW n
  PROVE  Wanted(n) = FileWanted(mounts, DOMAIN disk, n)
<1> DEFINE dirs == {i \in DOMAIN mounts : DirOffers(i, n)}
           lpks == {i \in DOMAIN mounts : ArchiveOffers(i, n)}
           O == Offering(DOMAIN disk, n)
           P == Packing(n)
<1>1. \A i \in DOMAIN mounts : mounts[i] \in Calls
  BY ElementOfSeq
<1>2. dirs = Places(mounts, O)
  BY <1>1 DEF Places, Offering, DirOffers, Under
<1>3. lpks = Places(mounts, P)
  BY <1>1 DEF Places, Packing, ArchiveOffers
<1>4. OfferedFile(Max(dirs), n) = <<Source(Latest(mounts, O), n[1]), n[2]>>
  BY <1>2 DEF OfferedFile, Source, Latest, Under
<1> HIDE DEF dirs, lpks, O, P
<1>5. FileWanted(mounts, DOMAIN disk, n) =
        IF dirs # {} THEN [os |-> OfferedFile(Max(dirs), n), archived |-> FALSE]
        ELSE IF lpks # {} THEN [os |-> mounts[Max(lpks)].os, archived |-> TRUE]
        ELSE Null
  BY <1>2, <1>3, <1>4 DEF FileWanted, Latest, O, P
<1> QED  BY <1>5 DEF Wanted, dirs, lpks

\* Names lead where the mount calls say.
LEMMA InvNames ==
  ASSUME FSInv
  PROVE  NamesResolve
<1> SUFFICES ASSUME Ok(table), NEW o \in Opens PROVE Found(o[1]) = Wanted(o[1])
  BY DEF NamesResolve, Names, Ok
<1>1. o[1] \in MountNames /\ o[1][2] # ""
  BY OpenCalls
<1>2. mounts \in Seq(Calls) /\ Leading(table, mounts, DOMAIN disk)
  BY DEF FSInv, CallsOK, NamesLead
<1>3. FoundIn(table, o[1]) = FileWanted(mounts, DOMAIN disk, o[1])
  BY <1>1, <1>2 DEF Leading
<1>4. Found(o[1]) = FoundIn(table, o[1])
  BY DEF Found, FoundIn
<1> QED  BY <1>2, <1>3, <1>4, WantedIs

\* For every table size, hash and sequence of calls: until m_UnusedFiles gives a
\* slot out twice, a name has one entry, on the chain of its hash, and every chain
\* ends (CPartitionTable::MountFile).
THEOREM TableIsSoundAlways == FSSpec => []TableIsSound
BY FileSystemInvariant, InvSound, PTL

\* For every disk, set of archives and order of mount calls, with files created in
\* between: a name leads to the file of the directory that was mounted last, or to
\* the archive that was, while there has been room for every entry
\* (CLFileSystem::MountDir, MountLPK, OpenFile).
THEOREM NamesResolveAlways == FSSpec => []NamesResolve
BY FileSystemInvariant, InvNames, PTL

\* For every client: the table's size of a file that nobody writes is its size on
\* disk, until a writer is closed under another file's name
\* (CLFileSystem::CloseFile).
THEOREM SizesAgreeAlways == FSSpec => []SizesAgree
BY FileSystemInvariant, InvSizes, PTL

\* For every client: the pointer of an open file is inside it, and the bytes the
\* file spans are in its OS file, an archive's entry in the archive
\* (CLFile::Read, Write, Seek).
THEOREM FileInsideOSFileAlways == FSSpec => []FileInsideOSFile
BY FileSystemInvariant, InvHandles, PTL
=============================================================================
