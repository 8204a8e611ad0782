----------------------------- MODULE SinkProofs ------------------------------
(***************************************************************************)
(* What the adapters may take the sink for, and what the plugin in the     *)
(* Harness makes of it.                                                    *)
(*                                                                         *)
(* The first part is about NdjsonSink, for every set of events, queue and  *)
(* window size, and any number of connections, replays and stops of the    *)
(* server.  written numbers the events; everything the sink and its        *)
(* connections hold is a stretch of it.  The queue is its end, what is in  *)
(* flight the beginning of the queue, and the frames on a connection are a *)
(* stretch in front of which everything is durable, also on connections    *)
(* that the sink has given up.  On the open connection, the answers and    *)
(* then the frames are what is in flight, in the same order.               *)
(*                                                                         *)
(* The second part is about DshObserver on top of such a sink, for every   *)
(* set of sessions and their records, and any queue.  An operation that    *)
(* gives the event of a record has the events of the records before it in  *)
(* front of it, in its chain or in what was sent; of every record the      *)
(* event was sent, or some fact or operation leads to it; and of every     *)
(* agent the last that is heard, to be done or sent is its status.         *)
(***************************************************************************)
EXTENDS NdjsonSink, DshObserver, WellFoundedInduction, SequenceTheorems, TLAPS

\* Induction up to n: a set that holds 0, and with a number its successor, holds
\* all of them; for the least number that it lacks would have a predecessor.
LEMMA UpTo ==
  ASSUME NEW n \in Nat, NEW T, 0 \in T, \A i \in 1 .. n : i - 1 \in T => i \in T
  PROVE  \A i \in 0 .. n : i \in T
<1> DEFINE missing == {i \in 0 .. n : i \notin T}
           below == {pair \in Nat \X Nat : pair[1] < pair[2]}
<1> SUFFICES ASSUME missing # {} PROVE FALSE
  OBVIOUS
<1>1. IsWellFoundedOn(below, Nat) /\ missing \subseteq Nat
  BY NatLessThanWellFounded DEF OpToRel
<1>2. PICK i \in missing : \A j \in missing : ~(<<j, i>> \in below)
  <2> HIDE DEF missing, below
  <2> QED BY <1>1, WFMin
<1>3. i \in 1 .. n /\ i - 1 \in 0 .. n /\ <<i - 1, i>> \in below
  BY <1>2
<1> QED BY <1>2, <1>3

\* The steps 1 .. n can be taken one after the other.
LEMMA Iterate ==
  ASSUME NEW X, NEW x0 \in X, NEW n \in Nat, NEW step \in [1 .. n -> [X -> X]]
  PROVE  \E f \in [0 .. n -> X] : /\ f[0] = x0
                                  /\ \A i \in 1 .. n : f[i] = step[i][f[i - 1]]
<1> DEFINE Iterates(f, m) == /\ f \in [0 .. m -> X] /\ f[0] = x0
                             /\ \A i \in 1 .. m : f[i] = step[i][f[i - 1]]
           T == {m \in 0 .. n : \E f : Iterates(f, m)}
<1>1. 0 \in T
  <2>1. Iterates([i \in 0 .. 0 |-> x0], 0)
    OBVIOUS
  <2> HIDE DEF Iterates
  <2> QED BY <2>1
<1>2. ASSUME NEW m \in 1 .. n, m - 1 \in T PROVE m \in T
  <2>1. PICK f : Iterates(f, m - 1)
    BY <1>2
  <2> DEFINE g == [i \in 0 .. m |-> IF i < m THEN f[i] ELSE step[m][f[m - 1]]]
  <2>2. /\ m - 1 \in 0 .. m - 1 /\ f[m - 1] \in X /\ step[m] \in [X -> X]
    BY <2>1
  <2>3. g \in [0 .. m -> X] /\ g[0] = x0
    BY <2>1, <2>2
  <2>4. \A i \in 1 .. m : g[i] = step[i][g[i - 1]]
    BY <2>1, <2>2
  <2>5. Iterates(g, m)
    BY <2>3, <2>4
  <2> HIDE DEF Iterates
  <2> QED BY <2>5, <1>2
<1>3. n \in T
  <2> HIDE DEF T
  <2>1. \A i \in 0 .. n : i \in T
    BY <1>1, <1>2, UpTo
  <2> QED BY <2>1
<1> QED BY <1>3

-----------------------------------------------------------------------------
(* The invariant.                                                          *)
SinkType == [queue : Seq(Events), inFlight : Seq(Events),
             socket : {"none", "connecting", "open", "destroyed"},
             writable : BOOLEAN, timer : BOOLEAN, closed : BOOLEAN, waiters : SUBSET Nat]
AnswerType == [kind : {"ack", "error"}, event : Events]
WireType == [frames : Seq(Events), answers : Seq(AnswerType), reads : BOOLEAN]

Typed(s, ws, st, w, told) ==
    /\ s \in SinkType /\ ws \in Seq(WireType)
    /\ st \subseteq Events /\ w \in Seq(Events) /\ told \subseteq Nat

\* How many of the written events have left the queue.
Done(s, w) == Len(w) - Len(s.queue)

Queued(s, st, w) ==
    /\ Len(s.queue) <= Len(w)
    /\ \A i \in 1 .. Len(s.queue) : s.queue[i] = w[Done(s, w) + i]
    /\ \A i \in 1 .. Done(s, w) : w[i] \in st

InFlight(s) ==
    /\ Len(s.inFlight) <= Len(s.queue)
    /\ \A i \in 1 .. Len(s.inFlight) : s.inFlight[i] = s.queue[i]
    /\ s.socket \in {"none", "connecting"} => s.inFlight = <<>>

Told(s, w, told) ==
    /\ \A n \in s.waiters : n <= Len(w)
    /\ \A n \in told : n <= Done(s, w)

\* The frames are what was written after the first o events, all durable.
Stretch(frames, o, st, w) ==
    /\ o + Len(frames) <= Len(w)
    /\ \A j \in 1 .. Len(frames) : frames[j] = w[o + j]
    /\ \A i \in 1 .. o : w[i] \in st

FramesInOrder(ws, st, w) ==
    \A k \in 1 .. Len(ws) : \E o \in 0 .. Len(w) : Stretch(ws[k].frames, o, st, w)

\* The answers to what is in flight, and the frames that are not answered yet.
Link(flying, wire, st) ==
    /\ \A j \in 1 .. Len(wire.answers) :
          \/ /\ wire.answers[j].kind = "ack" /\ j <= Len(flying)
             /\ wire.answers[j].event = flying[j] /\ flying[j] \in st
          \/ wire.answers[j].kind = "error" /\ j = Len(wire.answers) /\ ~wire.reads
    /\ wire.reads =>
          /\ Len(wire.answers) + Len(wire.frames) = Len(flying)
          /\ \A j \in 1 .. Len(wire.frames) : wire.frames[j] = flying[Len(wire.answers) + j]
    /\ ~wire.reads => wire.frames = <<>>

Linked(s, ws, st) == s.socket = "open" => ws # <<>> /\ Link(s.inFlight, ws[Len(ws)], st)

Good(s, ws, st, w, told) ==
    /\ Typed(s, ws, st, w, told)
    /\ Queued(s, st, w) /\ InFlight(s) /\ Told(s, w, told)
    /\ FramesInOrder(ws, st, w) /\ Linked(s, ws, st)

IInv == Good(sink, wires, stored, written, resolved)

-----------------------------------------------------------------------------
(* Lemmas about sequences and about the data on a connection.              *)

\* Two adjacent stretches of a sequence.
LEMMA Stretches ==
  ASSUME NEW q \in Seq(Events), NEW fl \in Seq(Events), NEW upto \in Nat,
         Len(fl) < upto, upto <= Len(q), \A i \in 1 .. Len(fl) : fl[i] = q[i]
  PROVE  /\ SubSeq(q, Len(fl) + 1, upto) \in Seq(Events)
         /\ Len(SubSeq(q, Len(fl) + 1, upto)) = upto - Len(fl)
         /\ SubSeq(q, 1, upto) \in Seq(Events) /\ Len(SubSeq(q, 1, upto)) = upto
         /\ \A i \in 1 .. upto : SubSeq(q, 1, upto)[i] = q[i]
         /\ SubSeq(q, 1, upto) = fl \o SubSeq(q, Len(fl) + 1, upto)
<1> DEFINE more == SubSeq(q, Len(fl) + 1, upto)
           all  == SubSeq(q, 1, upto)
           both == fl \o more
<1>1. Len(fl) \in Nat
  OBVIOUS
<1>2. /\ more \in Seq(Events) /\ Len(more) = upto - Len(fl)
      /\ \A i \in 1 .. upto - Len(fl) : more[i] = q[Len(fl) + i]
  BY <1>1
<1>3. /\ all \in Seq(Events) /\ Len(all) = upto
      /\ \A i \in 1 .. upto : all[i] = q[i]
  BY <1>1
<1> HIDE DEF more, all
<1>4. /\ both \in Seq(Events) /\ Len(both) = Len(fl) + Len(more)
      /\ \A i \in 1 .. Len(fl) + Len(more) :
             both[i] = IF i <= Len(fl) THEN fl[i] ELSE more[i - Len(fl)]
  BY <1>2, ConcatProperties
<1> HIDE DEF both
<1>5. \A i \in 1 .. upto : both[i] = all[i]
  <2> TAKE i \in 1 .. upto
  <2>1. CASE i <= Len(fl)
    <3>1. i \in 1 .. Len(fl) /\ i \in 1 .. Len(fl) + Len(more)
      BY <2>1, <1>1, <1>2
    <3> QED BY <2>1, <3>1, <1>3, <1>4
  <2>2. CASE i > Len(fl)
    <3>1. i - Len(fl) \in 1 .. upto - Len(fl) /\ Len(fl) + (i - Len(fl)) = i
      BY <2>2, <1>1
    <3>2. both[i] = more[i - Len(fl)]
      BY <2>2, <1>1, <1>2, <1>4
    <3> QED BY <3>1, <3>2, <1>2, <1>3
  <2> QED BY <2>1, <2>2, <1>1
<1>6. all = both
  BY <1>1, <1>2, <1>3, <1>4, <1>5, SeqEqual
<1> QED BY <1>2, <1>3, <1>6 DEF more, all, both

\* The frames of a connection after more was written to it.
FramesWith(wire, more) == IF wire.reads THEN wire.frames \o more ELSE wire.frames

\* What is sent follows what is in flight and what is on the connection.
LEMMA LinkExtends ==
  ASSUME NEW st, NEW fl \in Seq(Events), NEW more \in Seq(Events), NEW wire \in WireType,
         NEW frames, Link(fl, wire, st), frames = FramesWith(wire, more)
  PROVE  /\ frames \in Seq(Events)
         /\ Link(fl \o more, [frames |-> frames, answers |-> wire.answers,
                              reads |-> wire.reads], st)
<1> DEFINE new == [frames |-> frames, answers |-> wire.answers, reads |-> wire.reads]
           a == Len(wire.answers)
           f == Len(wire.frames)
           n == Len(fl)
           m == Len(more)
           both == fl \o more
<1>1. /\ wire.frames \in Seq(Events) /\ wire.answers \in Seq(AnswerType)
      /\ wire.reads \in BOOLEAN
  BY DEF WireType
<1>2. a \in Nat /\ f \in Nat /\ n \in Nat /\ m \in Nat
  BY <1>1
<1>3. /\ both \in Seq(Events) /\ Len(both) = n + m
      /\ \A i \in 1 .. n + m : both[i] = IF i <= n THEN fl[i] ELSE more[i - n]
  BY ConcatProperties
<1> HIDE DEF both
<1>4. CASE ~wire.reads
  <2>1. frames = wire.frames /\ wire.frames = <<>>
    BY <1>4 DEF Link, FramesWith
  <2>2. \A j \in 1 .. a :
          \/ /\ wire.answers[j].kind = "ack" /\ j <= n
             /\ wire.answers[j].event = fl[j] /\ fl[j] \in st
          \/ wire.answers[j].kind = "error" /\ j = a /\ ~wire.reads
    BY DEF Link
  <2> HIDE DEF a, n, m
  <2>3. \A j \in 1 .. a : j <= n => j <= n + m /\ both[j] = fl[j]
    BY <1>2, <1>3
  <2>4. \A j \in 1 .. a :
          \/ /\ wire.answers[j].kind = "ack" /\ j <= n + m
             /\ wire.answers[j].event = both[j] /\ both[j] \in st
          \/ wire.answers[j].kind = "error" /\ j = a /\ ~wire.reads
    BY <2>2, <2>3
  <2> QED BY <2>1, <2>4, <1>1, <1>3, <1>4 DEF Link, a, both
<1>5. CASE wire.reads
  <2>1. /\ frames \in Seq(Events) /\ Len(frames) = f + m
        /\ \A i \in 1 .. f + m : frames[i] = IF i <= f THEN wire.frames[i] ELSE more[i - f]
    BY <1>1, <1>5, ConcatProperties DEF FramesWith
  <2>2. \A j \in 1 .. a : /\ wire.answers[j].kind = "ack" /\ j <= n
                          /\ wire.answers[j].event = fl[j] /\ fl[j] \in st
    BY <1>5 DEF Link
  <2>3. a + f = n /\ \A j \in 1 .. f : wire.frames[j] = fl[a + j]
    BY <1>5 DEF Link
  <2> HIDE DEF a, f, n, m
  <2>4. \A j \in 1 .. a : j <= n + m /\ both[j] = fl[j]
    BY <2>2, <1>2, <1>3
  <2>5. \A j \in 1 .. f + m : frames[j] = both[a + j]
    <3> TAKE j \in 1 .. f + m
    <3>1. a + j \in 1 .. n + m
      BY <1>2, <2>3
    <3>2. CASE j <= f
      <4>1. a + j <= n /\ j \in 1 .. f
        BY <3>2, <1>2, <2>3
      <4> QED BY <4>1, <3>1, <3>2, <2>1, <2>3, <1>3
    <3>3. CASE j > f
      <4>1. ~(a + j <= n) /\ (a + j) - n = j - f
        BY <3>3, <1>2, <2>3
      <4>2. frames[j] = more[j - f]
        BY <3>3, <2>1, <1>2
      <4>3. both[a + j] = more[(a + j) - n]
        BY <4>1, <3>1, <1>3
      <4> QED BY <4>1, <4>2, <4>3
    <3> QED BY <3>2, <3>3, <1>2
  <2>6. a + (f + m) = n + m
    BY <2>3, <1>2
  <2> QED BY <2>1, <2>2, <2>4, <2>5, <2>6, <1>3, <1>5 DEF Link, a, both
<1> QED BY <1>4, <1>5, <1>1

\* What is on the open connection comes after durable events only.
LEMMA LinkedFrames ==
  ASSUME NEW s \in SinkType, NEW wire \in WireType, NEW st, NEW w \in Seq(Events),
         Queued(s, st, w), InFlight(s), Link(s.inFlight, wire, st)
  PROVE  \E o \in 0 .. Len(w) : Stretch(wire.frames, o, st, w)
<1> DEFINE a == Len(wire.answers)
           f == Len(wire.frames)
           n == Len(s.inFlight)
           d == Done(s, w)
           lw == Len(w)
           lq == Len(s.queue)
<1>1. /\ wire.frames \in Seq(Events) /\ wire.answers \in Seq(AnswerType)
      /\ s.inFlight \in Seq(Events) /\ s.queue \in Seq(Events) /\ wire.reads \in BOOLEAN
  BY DEF WireType, SinkType
<1>2. a \in Nat /\ f \in Nat /\ n \in Nat /\ lw \in Nat /\ lq \in Nat
  BY <1>1
<1>3. d = lw - lq /\ lq <= lw /\ n <= lq
  BY DEF Queued, Done, InFlight
<1>4. CASE ~wire.reads
  <2>1. wire.frames = <<>>
    BY <1>4 DEF Link
  <2>2. Stretch(wire.frames, 0, st, w)
    BY <2>1, <1>2 DEF Stretch
  <2> QED BY <2>2, <1>2
<1>5. CASE wire.reads
  <2>1. /\ a + f = n /\ \A j \in 1 .. f : wire.frames[j] = s.inFlight[a + j]
        /\ \A j \in 1 .. a : j <= n /\ s.inFlight[j] \in st
    BY <1>5 DEF Link
  <2>2. /\ \A i \in 1 .. lq : s.queue[i] = w[d + i]
        /\ \A i \in 1 .. d : w[i] \in st
        /\ \A i \in 1 .. n : s.inFlight[i] = s.queue[i]
    BY DEF Queued, InFlight
  <2>3. \A i \in 1 .. n : s.inFlight[i] = w[d + i]
    <3> HIDE DEF n, lq, d
    <3> QED BY <2>2, <1>2, <1>3
  <2>4. /\ d + a \in 0 .. lw /\ (d + a) + f <= lw
    <3> HIDE DEF a, f, n, lq, d, lw
    <3> QED BY <2>1, <1>2, <1>3
  <2>5. \A j \in 1 .. f : wire.frames[j] = w[(d + a) + j]
    <3> HIDE DEF a, f, n, lq, d, lw
    <3> TAKE j \in 1 .. f
    <3>1. a + j \in 1 .. n /\ d + (a + j) = (d + a) + j
      BY <2>1, <1>2, <1>3
    <3> QED BY <3>1, <2>1, <2>3
  <2>6. \A i \in 1 .. d + a : w[i] \in st
    <3> HIDE DEF a, f, n, lq, d, lw
    <3> TAKE i \in 1 .. d + a
    <3>1. CASE i <= d
      BY <3>1, <2>2, <1>2, <1>3
    <3>2. CASE i > d
      <4>1. i - d \in 1 .. a /\ i - d \in 1 .. n /\ d + (i - d) = i
        BY <3>2, <2>1, <1>2, <1>3
      <4> QED BY <4>1, <2>1, <2>3
    <3> QED BY <3>1, <3>2, <1>2, <1>3
  <2>7. Stretch(wire.frames, d + a, st, w)
    BY <2>4, <2>5, <2>6 DEF Stretch
  <2> QED BY <2>4, <2>7
<1> QED BY <1>4, <1>5, <1>1

-----------------------------------------------------------------------------
(* The invariant.                                                          *)
LEMMA InitInvariant == Init => IInv
<1> SUFFICES ASSUME Init PROVE IInv
  OBVIOUS
<1>1. Typed(sink, wires, stored, written, resolved)
  BY DEF Init, Typed, SinkType
<1> QED
  BY <1>1 DEF Init, IInv, Good, Queued, Done, InFlight, Told, FramesInOrder, Linked

\* flush sends a stretch of the queue, and keeps its order.
LEMMA FlushKeeps ==
  ASSUME NEW s, NEW ws, NEW st, NEW w, NEW told, Good(s, ws, st, w, told), Flush(s, ws)
  PROVE  Good(sink', wires', st, w, told) /\ sink'.queue = s.queue
<1> USE DEF Good
<1>1. CASE s.socket # "open" \/ ~s.writable \/ Len(s.inFlight) >= Window(s.queue)
  BY <1>1 DEF Flush
<1>2. CASE ~(s.socket # "open" \/ ~s.writable \/ Len(s.inFlight) >= Window(s.queue))
  <2>1. PICK upto \in Len(s.inFlight) + 1 .. Window(s.queue), wr \in BOOLEAN :
          /\ sink' = [s EXCEPT !.inFlight = SubSeq(s.queue, 1, upto), !.writable = wr]
          /\ wires' = IF ws[Len(ws)].reads
                      THEN [ws EXCEPT ![Len(ws)].frames =
                               @ \o SubSeq(s.queue, Len(s.inFlight) + 1, upto)]
                      ELSE ws
    BY <1>2 DEF Flush
  <2>2. /\ upto \in Nat /\ Len(s.inFlight) < upto /\ upto <= Len(s.queue)
        /\ s.queue \in Seq(Events) /\ s.inFlight \in Seq(Events) /\ s \in SinkType
    BY SinkAssumption DEF Window, Typed, SinkType
  <2>3. /\ Len(ws) \in Nat /\ Len(ws) >= 1 /\ DOMAIN ws = 1 .. Len(ws)
        /\ ws[Len(ws)] \in WireType /\ ws \in Seq(WireType)
        /\ Link(s.inFlight, ws[Len(ws)], st) /\ s.socket = "open"
    BY <1>2 DEF Typed, Linked
  <2> DEFINE more   == SubSeq(s.queue, Len(s.inFlight) + 1, upto)
             flying == SubSeq(s.queue, 1, upto)
             wire   == ws[Len(ws)]
             frames == FramesWith(wire, more)
             new    == [frames |-> frames, answers |-> wire.answers, reads |-> wire.reads]
  <2>4. /\ more \in Seq(Events) /\ flying \in Seq(Events) /\ Len(flying) = upto
        /\ \A i \in 1 .. upto : flying[i] = s.queue[i]
        /\ flying = s.inFlight \o more
    BY <2>2, Stretches, ZenonT(30) DEF InFlight
  <2>5. frames \in Seq(Events) /\ Link(flying, new, st)
    <3> HIDE DEF more, flying, wire, frames
    <3>1. wire \in WireType /\ Link(s.inFlight, wire, st)
      BY <2>3 DEF wire
    <3>2. frames = FramesWith(wire, more)
      BY DEF frames
    <3> QED BY <3>1, <3>2, <2>2, <2>4, LinkExtends
  <2>6. wires' = [ws EXCEPT ![Len(ws)] = new]
    <3>1. CASE wire.reads
      <4>1. wires' = [ws EXCEPT ![Len(ws)] = [wire EXCEPT !.frames = frames]]
        BY <3>1, <2>1 DEF FramesWith
      <4> HIDE DEF wire, frames
      <4>2. wire \in WireType
        BY <2>3 DEF wire
      <4>3. [wire EXCEPT !.frames = frames] = new
        BY <4>2 DEF WireType
      <4> QED BY <4>1, <4>3
    <3>2. CASE ~wire.reads
      <4>1. new = wire
        BY <3>2, <2>3 DEF FramesWith, WireType
      <4> HIDE DEF new
      <4> QED BY <4>1, <3>2, <2>1, <2>3
    <3> QED BY <3>1, <3>2
  <2>7. new \in WireType
    BY <2>5, <2>3 DEF WireType
  <2> HIDE DEF more, flying, new
  <2>8. /\ wires' \in Seq(WireType) /\ Len(wires') = Len(ws)
        /\ wires'[Len(ws)] = new /\ \A k \in 1 .. Len(ws) : k # Len(ws) => wires'[k] = ws[k]
    BY <2>6, <2>7, <2>3, ExceptSeq
  <2>9. /\ sink' \in SinkType /\ sink'.queue = s.queue /\ sink'.inFlight = flying
        /\ sink'.socket = s.socket /\ sink'.waiters = s.waiters
    BY <2>1, <2>2, <2>4 DEF SinkType, flying
  <2>10. Queued(sink', st, w) /\ Told(sink', w, told) /\ InFlight(sink')
    BY <2>2, <2>3, <2>4, <2>9 DEF Queued, Told, Done, InFlight
  <2>11. Typed(sink', wires', st, w, told) /\ Linked(sink', wires', st)
    <3>1. Len(wires') >= 1
      BY <2>3, <2>8
    <3>2. wires' # <<>>
      BY <3>1, EmptySeq
    <3> QED BY <3>2, <2>5, <2>8, <2>9 DEF Typed, Linked
  <2>12. FramesInOrder(wires', st, w)
    <3>1. \E o \in 0 .. Len(w) : Stretch(new.frames, o, st, w)
      BY <2>5, <2>7, <2>9, <2>10, LinkedFrames DEF Typed
    <3>2. \A k \in 1 .. Len(wires') : k = Len(ws) \/ wires'[k] = ws[k]
      BY <2>8
    <3> QED BY <3>1, <3>2, <2>8 DEF FramesInOrder
  <2> QED BY <2>9, <2>10, <2>11, <2>12
<1> QED BY <1>1, <1>2

-----------------------------------------------------------------------------
(* receive.                                                                *)
LEMMA ReceiveLineType ==
  ASSUME NEW s \in SinkType, NEW frame
  PROVE  ReceiveLine(s, frame) \in SinkType
<1>1. CASE frame.kind = "ack" /\ s.inFlight # <<>> /\ frame.event = Head(s.inFlight)
  <2> DEFINE q == IF s.queue # <<>> /\ Head(s.queue) = frame.event THEN Tail(s.queue) ELSE s.queue
             f == Tail(s.inFlight)
  <2>1. q \in Seq(Events) /\ f \in Seq(Events)
    BY <1>1, HeadTailProperties DEF SinkType
  <2>2. ReceiveLine(s, frame) = [s EXCEPT !.queue = q, !.inFlight = f]
    BY <1>1 DEF ReceiveLine
  <2> HIDE DEF q, f
  <2> QED BY <2>1, <2>2 DEF SinkType
<1>2. CASE ~(frame.kind = "ack" /\ s.inFlight # <<>> /\ frame.event = Head(s.inFlight))
  BY <1>2 DEF ReceiveLine, SinkType
<1> QED BY <1>1, <1>2

\* The lines are taken one after the other.
LEMMA ReceiveLinesSteps ==
  ASSUME NEW n \in Nat, sink \in SinkType
  PROVE  \E f : /\ ReceiveLines(n) = f[n] /\ f[0] = sink
                /\ \A i \in 1 .. n : f[i] = ReceiveLine(f[i - 1], wires[Current].answers[i])
<1> DEFINE Lines(g) == [i \in 0 .. n |-> IF i = 0 THEN sink
                                  ELSE ReceiveLine(g[i - 1], wires[Current].answers[i])]
           after == CHOOSE g : g = Lines(g)
           step == [i \in 1 .. n |-> [s \in SinkType |-> ReceiveLine(s, wires[Current].answers[i])]]
<1>1. ReceiveLines(n) = after[n]
  BY DEF ReceiveLines
<1>2. step \in [1 .. n -> [SinkType -> SinkType]]
  BY ReceiveLineType
<1>3. PICK f \in [0 .. n -> SinkType] : f[0] = sink /\ \A i \in 1 .. n : f[i] = step[i][f[i - 1]]
  <2> HIDE DEF step
  <2> QED BY <1>2, Iterate
<1>4. f = Lines(f)
  <2>1. ASSUME NEW i \in 0 .. n PROVE f[i] = Lines(f)[i]
    <3>1. CASE i = 0
      BY <3>1, <1>3
    <3>2. CASE i # 0
      <4>1. i \in 1 .. n /\ f[i - 1] \in SinkType
        BY <3>2, <1>3
      <4> QED BY <4>1, <3>2, <1>3
    <3> QED BY <3>1, <3>2
  <2> QED BY <2>1, <1>3
<1>5. after = Lines(after)
  <2> HIDE DEF Lines
  <2> QED BY <1>4
<1>6. after[0] = sink /\ \A i \in 1 .. n :
         after[i] = ReceiveLine(after[i - 1], wires[Current].answers[i])
  <2> HIDE DEF after
  <2> QED BY <1>5
<1> QED BY <1>1, <1>6

\* The sink when the first m events in flight are acknowledged.
Taken(s, m) == [s EXCEPT !.queue = SubSeq(s.queue, m + 1, Len(s.queue)),
                         !.inFlight = SubSeq(s.inFlight, m + 1, Len(s.inFlight))]

LEMMA TakenFields ==
  ASSUME NEW s \in SinkType, InFlight(s), NEW m \in 0 .. Len(s.inFlight)
  PROVE  /\ Taken(s, m) \in SinkType
         /\ Taken(s, m).queue = SubSeq(s.queue, m + 1, Len(s.queue))
         /\ Taken(s, m).inFlight = SubSeq(s.inFlight, m + 1, Len(s.inFlight))
         /\ Taken(s, m).socket = s.socket /\ Taken(s, m).waiters = s.waiters
         /\ Len(Taken(s, m).queue) = Len(s.queue) - m
         /\ \A i \in 1 .. Len(s.queue) - m : Taken(s, m).queue[i] = s.queue[m + i]
         /\ Len(Taken(s, m).inFlight) = Len(s.inFlight) - m
         /\ \A i \in 1 .. Len(s.inFlight) - m : Taken(s, m).inFlight[i] = s.inFlight[m + i]
<1> DEFINE q == SubSeq(s.queue, m + 1, Len(s.queue))
           f == SubSeq(s.inFlight, m + 1, Len(s.inFlight))
<1>1. s.queue \in Seq(Events) /\ s.inFlight \in Seq(Events)
  BY DEF SinkType
<1>2. Len(s.queue) \in Nat /\ Len(s.inFlight) \in Nat /\ Len(s.inFlight) <= Len(s.queue)
  BY <1>1 DEF InFlight
<1>3. /\ q \in Seq(Events) /\ Len(q) = Len(s.queue) - m
      /\ \A i \in 1 .. Len(s.queue) - m : q[i] = s.queue[m + i]
  BY <1>1, <1>2
<1>4. /\ f \in Seq(Events) /\ Len(f) = Len(s.inFlight) - m
      /\ \A i \in 1 .. Len(s.inFlight) - m : f[i] = s.inFlight[m + i]
  BY <1>1, <1>2
<1>5. Taken(s, m) = [s EXCEPT !.queue = q, !.inFlight = f]
  BY DEF Taken
<1> HIDE DEF q, f
<1>6. /\ Taken(s, m) \in SinkType /\ Taken(s, m).queue = q /\ Taken(s, m).inFlight = f
      /\ Taken(s, m).socket = s.socket /\ Taken(s, m).waiters = s.waiters
  BY <1>3, <1>4, <1>5 DEF SinkType
<1> QED BY <1>3, <1>4, <1>6 DEF q, f

LEMMA TakenNone ==
  ASSUME NEW s \in SinkType
  PROVE  Taken(s, 0) = s
<1>1. s.queue \in Seq(Events) /\ s.inFlight \in Seq(Events)
  BY DEF SinkType
<1>2. /\ SubSeq(s.queue, 1, Len(s.queue)) = s.queue
      /\ SubSeq(s.inFlight, 1, Len(s.inFlight)) = s.inFlight
  BY <1>1, SubSeqFull
<1>3. /\ 0 + 1 = 1
  OBVIOUS
<1>4. Taken(s, 0) = [s EXCEPT !.queue = s.queue, !.inFlight = s.inFlight]
  BY <1>2, <1>3 DEF Taken
<1> QED BY <1>4 DEF SinkType

\* An ack for the first event in flight takes it from the queue.
LEMMA AckTakes ==
  ASSUME NEW s \in SinkType, InFlight(s), NEW m \in 1 .. Len(s.inFlight), NEW frame,
         frame.kind = "ack", frame.event = s.inFlight[m]
  PROVE  ReceiveLine(Taken(s, m - 1), frame) = Taken(s, m)
<1> DEFINE r == Taken(s, m - 1)
           t == Taken(s, m)
           nq == Len(s.queue)
           nf == Len(s.inFlight)
<1>1. s.queue \in Seq(Events) /\ s.inFlight \in Seq(Events) /\ nq \in Nat /\ nf \in Nat /\ nf <= nq
  BY DEF SinkType, InFlight
<1>2. /\ m - 1 \in 0 .. nf /\ m \in 1 .. nf /\ m \in 1 .. nq /\ nf \in m .. nf /\ nq \in m .. nq
      /\ (m - 1) + 1 = m
  BY <1>1
<1>3. /\ r.queue = SubSeq(s.queue, m, nq) /\ r.inFlight = SubSeq(s.inFlight, m, nf)
      /\ Len(r.queue) = nq - (m - 1) /\ Len(r.inFlight) = nf - (m - 1)
      /\ r \in SinkType
  <2> HIDE DEF nq, nf, r
  <2>1. m - 1 \in 0 .. Len(s.inFlight)
    BY <1>2 DEF nf
  <2> QED BY <2>1, <1>2, TakenFields DEF nq, nf, r
<1>4. /\ Head(SubSeq(s.queue, m, nq)) = s.queue[m]
      /\ Tail(SubSeq(s.queue, m, nq)) = SubSeq(s.queue, m + 1, nq)
      /\ Head(SubSeq(s.inFlight, m, nf)) = s.inFlight[m]
      /\ Tail(SubSeq(s.inFlight, m, nf)) = SubSeq(s.inFlight, m + 1, nf)
  BY <1>1, <1>2, HeadTailOfSubSeq
<1>5. r.queue # <<>> /\ r.inFlight # <<>>
  BY <1>1, <1>2, <1>3, EmptySeq
<1>6. s.inFlight[m] = s.queue[m]
  BY <1>2 DEF InFlight
<1>7. ReceiveLine(r, frame) = [r EXCEPT !.queue = Tail(r.queue), !.inFlight = Tail(r.inFlight)]
  BY <1>3, <1>4, <1>5, <1>6 DEF ReceiveLine
<1>8. ReceiveLine(r, frame) = [r EXCEPT !.queue = SubSeq(s.queue, m + 1, nq),
                                       !.inFlight = SubSeq(s.inFlight, m + 1, nf)]
  BY <1>3, <1>4, <1>7
<1>9. [r EXCEPT !.queue = SubSeq(s.queue, m + 1, nq), !.inFlight = SubSeq(s.inFlight, m + 1, nf)]
        = [s EXCEPT !.queue = SubSeq(s.queue, m + 1, nq), !.inFlight = SubSeq(s.inFlight, m + 1, nf)]
  BY DEF Taken, SinkType
<1> QED BY <1>8, <1>9 DEF Taken

\* What the first n answers do to the sink: n events are taken, or n - 1 and then
\* the sink gives the connection up for the error that ends it.
LEMMA ReceivedLines ==
  ASSUME IInv, sink.socket = "open", NEW n \in 1 .. Len(wires[Current].answers)
  PROVE  \/ /\ n <= Len(sink.inFlight) /\ \A j \in 1 .. n : sink.inFlight[j] \in stored
            /\ ReceiveLines(n) = Taken(sink, n)
         \/ /\ n = Len(wires[Current].answers)
            /\ n - 1 <= Len(sink.inFlight) /\ \A j \in 1 .. n - 1 : sink.inFlight[j] \in stored
            /\ ReceiveLines(n) = [Taken(sink, n - 1) EXCEPT !.socket = "destroyed"]
<1> DEFINE answers == wires[Current].answers
           fl == sink.inFlight
           Acked(j) == answers[j].kind = "ack" /\ j <= Len(fl) /\ answers[j].event = fl[j] /\ fl[j] \in stored
<1>1. /\ sink \in SinkType /\ InFlight(sink) /\ fl \in Seq(Events) /\ Len(fl) \in Nat
      /\ wires # <<>> /\ wires \in Seq(WireType) /\ Link(fl, wires[Current], stored)
  BY DEF IInv, Good, Typed, Linked, SinkType, Current
<1>2. Len(answers) \in Nat
  <2>1. wires[Current] \in WireType
    BY <1>1, EmptySeq DEF Current
  <2> QED BY <2>1 DEF WireType
<1>3. \A j \in 1 .. Len(answers) : Acked(j) \/ (answers[j].kind = "error" /\ j = Len(answers))
  <2> DEFINE wire == wires[Current]
  <2>1. Link(fl, wire, stored)
    BY <1>1
  <2> HIDE DEF wire, fl
  <2>2. \A j \in 1 .. Len(wire.answers) :
          \/ wire.answers[j].kind = "ack" /\ j <= Len(fl) /\ wire.answers[j].event = fl[j] /\ fl[j] \in stored
          \/ wire.answers[j].kind = "error" /\ j = Len(wire.answers)
    BY <2>1 DEF Link
  <2> QED BY <2>2 DEF wire, fl
<1>4. PICK f : /\ ReceiveLines(n) = f[n] /\ f[0] = sink
               /\ \A i \in 1 .. n : f[i] = ReceiveLine(f[i - 1], answers[i])
  <2>1. n \in Nat
    BY <1>2
  <2> QED BY <1>1, <2>1, ReceiveLinesSteps
<1> HIDE DEF answers
<1>5. ASSUME NEW m \in 0 .. n, \A j \in 1 .. m : Acked(j)
      PROVE  f[m] = Taken(sink, m) /\ m <= Len(fl)
  <2> DEFINE T == {i \in 0 .. m : f[i] = Taken(sink, i) /\ i <= Len(fl)}
  <2>1. 0 \in T
    BY <1>1, <1>4, TakenNone
  <2>2. ASSUME NEW i \in 1 .. m, i - 1 \in T PROVE i \in T
    <3>1. f[i] = ReceiveLine(Taken(sink, i - 1), answers[i])
      BY <1>4, <2>2
    <3>2. Acked(i) /\ i \in 1 .. Len(fl)
      BY <1>1, <1>5
    <3>3. f[i] = Taken(sink, i)
      BY <1>1, <3>1, <3>2, AckTakes
    <3> QED BY <3>2, <3>3
  <2>3. m \in T
    <3> HIDE DEF T
    <3>1. m \in Nat
      BY <1>2 DEF answers
    <3>2. \A i \in 0 .. m : i \in T
      BY <2>1, <2>2, <3>1, UpTo
    <3> QED BY <3>1, <3>2
  <2> QED BY <2>3
<1>6. CASE Acked(n)
  <2>1. \A j \in 1 .. n : Acked(j)
    BY <1>2, <1>3, <1>6 DEF answers
  <2> QED BY <1>4, <1>5, <2>1
<1>7. CASE ~Acked(n)
  <2>1. n = Len(answers) /\ answers[n].kind = "error"
    BY <1>3, <1>7 DEF answers
  <2>2. \A j \in 1 .. n - 1 : Acked(j)
    BY <1>2, <1>3, <2>1
  <2>3. f[n - 1] = Taken(sink, n - 1) /\ n - 1 <= Len(fl)
    BY <1>5, <2>2
  <2>4. f[n] = ReceiveLine(Taken(sink, n - 1), answers[n])
    BY <1>4, <2>3
  <2>5. f[n] = [Taken(sink, n - 1) EXCEPT !.socket = "destroyed"]
    BY <2>1, <2>4 DEF ReceiveLine
  <2> QED BY <1>4, <2>1, <2>2, <2>3, <2>5 DEF answers
<1> QED BY <1>6, <1>7

\* The invariant for the sink when the first m events in flight were taken.
LEMMA TakenKeeps ==
  ASSUME NEW s \in SinkType, NEW t \in SinkType, NEW st, NEW w \in Seq(Events), NEW told,
         told \subseteq Nat, NEW woken \in SUBSET s.waiters,
         Queued(s, st, w), InFlight(s), Told(s, w, told),
         NEW m \in 0 .. Len(s.inFlight), \A j \in 1 .. m : s.inFlight[j] \in st,
         t.queue = Taken(s, m).queue, t.inFlight = Taken(s, m).inFlight,
         t.socket \in {"open", "destroyed"}, t.waiters = s.waiters \ woken,
         woken # {} => t.queue = <<>>
  PROVE  Queued(t, st, w) /\ InFlight(t) /\ Told(t, w, told \cup woken)
<1> DEFINE nq == Len(s.queue)
           nf == Len(s.inFlight)
           lw == Len(w)
<1>1. /\ nq \in Nat /\ nf \in Nat /\ lw \in Nat /\ nf <= nq /\ nq <= lw
      /\ Done(s, w) = lw - nq /\ m <= nf /\ m \in Nat
  BY DEF SinkType, InFlight, Queued, Done
<1>2. /\ Len(t.queue) = nq - m /\ \A i \in 1 .. nq - m : t.queue[i] = s.queue[m + i]
      /\ Len(t.inFlight) = nf - m /\ \A i \in 1 .. nf - m : t.inFlight[i] = s.inFlight[m + i]
  BY TakenFields
<1>3. Done(t, w) = (lw - nq) + m
  BY <1>1, <1>2 DEF Done
<1>4. Queued(t, st, w)
  <2>1. \A i \in 1 .. nq - m : t.queue[i] = w[((lw - nq) + m) + i]
    <3> TAKE i \in 1 .. nq - m
    <3>1. m + i \in 1 .. nq /\ (lw - nq) + (m + i) = ((lw - nq) + m) + i
      BY <1>1
    <3>2. s.queue[m + i] = w[(lw - nq) + (m + i)]
      BY <3>1, <1>1 DEF Queued
    <3> QED BY <3>1, <3>2, <1>2
  <2>2. \A i \in 1 .. (lw - nq) + m : w[i] \in st
    <3> TAKE i \in 1 .. (lw - nq) + m
    <3>1. CASE i <= lw - nq
      BY <3>1, <1>1 DEF Queued
    <3>2. CASE i > lw - nq
      <4>1. /\ i - (lw - nq) \in 1 .. m /\ i - (lw - nq) \in 1 .. nf /\ i - (lw - nq) \in 1 .. nq
            /\ (lw - nq) + (i - (lw - nq)) = i
        <5> HIDE DEF lw, nq, nf
        <5> QED BY <3>2, <1>1
      <4>2. s.inFlight[i - (lw - nq)] = s.queue[i - (lw - nq)]
        BY <4>1 DEF InFlight
      <4>3. s.queue[i - (lw - nq)] = w[(lw - nq) + (i - (lw - nq))]
        BY <4>1, <1>1 DEF Queued
      <4> QED BY <4>1, <4>2, <4>3
    <3> QED BY <3>1, <3>2, <1>1
  <2>3. Len(t.queue) <= lw
    BY <1>1, <1>2
  <2> QED BY <1>2, <1>3, <2>1, <2>2, <2>3 DEF Queued
<1>5. InFlight(t)
  <2>1. \A i \in 1 .. nf - m : t.inFlight[i] = t.queue[i]
    <3> TAKE i \in 1 .. nf - m
    <3>1. m + i \in 1 .. nf /\ i \in 1 .. nq - m
      BY <1>1, SMTT(30)
    <3> QED BY <3>1, <1>2 DEF InFlight
  <2>2. Len(t.inFlight) <= Len(t.queue)
    BY <1>1, <1>2
  <2> QED BY <1>2, <2>1, <2>2 DEF InFlight
<1>6. Told(t, w, told \cup woken)
  <2>1. \A n \in told : n <= (lw - nq) + m
    BY <1>1 DEF Told
  <2>2. ASSUME NEW n \in woken PROVE n <= (lw - nq) + m
    <3>1. nq - m = 0 /\ n <= lw /\ n \in Nat
      BY <1>2, <2>2 DEF Told, SinkType
    <3> QED BY <3>1, <1>1
  <2>3. \A n \in t.waiters : n <= lw
    BY DEF Told
  <2> QED BY <1>3, <2>1, <2>2, <2>3 DEF Told
<1> QED BY <1>4, <1>5, <1>6

\* The rest of the answers, and what is still in flight.
LEMMA LinkTakes ==
  ASSUME NEW st, NEW fl \in Seq(Events), NEW rest \in Seq(Events), NEW wire \in WireType,
         NEW left \in Seq(AnswerType), Link(fl, wire, st),
         NEW m \in 0 .. Len(fl), m <= Len(wire.answers),
         Len(rest) = Len(fl) - m, \A i \in 1 .. Len(fl) - m : rest[i] = fl[m + i],
         Len(left) = Len(wire.answers) - m,
         \A i \in 1 .. Len(wire.answers) - m : left[i] = wire.answers[m + i],
         NEW new, new.frames = wire.frames, new.answers = left, new.reads = wire.reads
  PROVE  Link(rest, new, st)
<1> DEFINE a == Len(wire.answers)
           f == Len(wire.frames)
           n == Len(fl)
<1>1. a \in Nat /\ f \in Nat /\ n \in Nat
  BY DEF WireType
<1>2. \A j \in 1 .. a :
          \/ /\ wire.answers[j].kind = "ack" /\ j <= n
             /\ wire.answers[j].event = fl[j] /\ fl[j] \in st
          \/ wire.answers[j].kind = "error" /\ j = a /\ ~wire.reads
  BY DEF Link
<1>3. wire.reads => a + f = n /\ \A j \in 1 .. f : wire.frames[j] = fl[a + j]
  BY DEF Link
<1>4. Len(rest) = n - m /\ Len(left) = a - m /\ m <= a /\ m <= n /\ m \in Nat
  OBVIOUS
<1>5. \A i \in 1 .. n - m : rest[i] = fl[m + i]
  OBVIOUS
<1>6. \A i \in 1 .. a - m : left[i] = wire.answers[m + i]
  OBVIOUS
<1>7. ~wire.reads => wire.frames = <<>>
  BY DEF Link
<1> HIDE DEF a, f, n
<1>8. \A j \in 1 .. a - m :
          \/ /\ left[j].kind = "ack" /\ j <= n - m
             /\ left[j].event = rest[j] /\ rest[j] \in st
          \/ left[j].kind = "error" /\ j = a - m /\ ~wire.reads
  <2> TAKE j \in 1 .. a - m
  <2>1. m + j \in 1 .. a
    BY <1>1, <1>4
  <2>2. CASE wire.answers[m + j].kind = "ack" /\ m + j <= n
             /\ wire.answers[m + j].event = fl[m + j] /\ fl[m + j] \in st
    <3>1. j \in 1 .. n - m
      BY <2>2, <1>1, <1>4
    <3>2. rest[j] = fl[m + j] /\ left[j] = wire.answers[m + j]
      BY <3>1, <1>5, <1>6
    <3> QED BY <2>2, <3>1, <3>2, <1>4
  <2>3. CASE wire.answers[m + j].kind = "error" /\ m + j = a /\ ~wire.reads
    BY <2>3, <1>1, <1>4, <1>6
  <2> QED BY <1>2, <2>1, <2>2, <2>3
<1>9. wire.reads => /\ (a - m) + f = n - m
                    /\ \A j \in 1 .. f : wire.frames[j] = rest[(a - m) + j]
  <2> HAVE wire.reads
  <2>1. (a - m) + f = n - m
    <3>1. a + f = n
      BY <1>3
    <3> QED BY <3>1, <1>1, <1>4
  <2>2. ASSUME NEW j \in 1 .. f PROVE wire.frames[j] = rest[(a - m) + j]
    <3> a + f = n
      BY <1>3
    <3>1. (a - m) + j \in 1 .. n - m /\ m + ((a - m) + j) = a + j
      BY <1>1, <1>4
    <3> QED BY <3>1, <1>3, <1>5
  <2> QED BY <2>1, <2>2
<1> QED BY <1>4, <1>7, <1>8, <1>9 DEF Link, f

\* Frames that stay, or are lost, and more that is stored.
LEMMA FramesKept ==
  ASSUME NEW ws \in Seq(WireType), NEW ws2 \in Seq(WireType), NEW st, NEW st2, NEW w \in Seq(Events),
         FramesInOrder(ws, st, w), st \subseteq st2, Len(ws2) = Len(ws),
         \A k \in 1 .. Len(ws) : ws2[k].frames = ws[k].frames \/ ws2[k].frames = <<>>
  PROVE  FramesInOrder(ws2, st2, w)
<1> SUFFICES ASSUME NEW k \in 1 .. Len(ws)
             PROVE  \E o \in 0 .. Len(w) : Stretch(ws2[k].frames, o, st2, w)
  BY DEF FramesInOrder
<1>1. CASE ws2[k].frames = ws[k].frames
  BY <1>1, ZenonT(30) DEF FramesInOrder, Stretch
<1>2. CASE ws2[k].frames = <<>>
  BY <1>2 DEF Stretch
<1> QED BY <1>1, <1>2

-----------------------------------------------------------------------------
(* Every action keeps the invariant.                                       *)

\* Changes of the sink that touch neither the queue nor the connections.
LEMMA SinkKeeps ==
  ASSUME NEW s, NEW ws, NEW st, NEW w, NEW told, Good(s, ws, st, w, told),
         NEW t \in SinkType, t.queue = s.queue, t.waiters \subseteq 0 .. Len(w),
         t.inFlight \in {s.inFlight, <<>>},
         t.socket \in {"none", "connecting"} => t.inFlight = <<>>,
         t.socket = "open" => s.socket = "open" /\ t.inFlight = s.inFlight
  PROVE  Good(t, ws, st, w, told)
<1>1. Queued(t, st, w) /\ Told(t, w, told)
  <2>1. Done(t, w) = Done(s, w)
    BY DEF Done
  <2>2. \A n \in t.waiters : n <= Len(w)
    BY DEF Good, Typed
  <2> QED BY <2>1, <2>2 DEF Good, Queued, Told
<1>2. Len(s.queue) \in Nat
  BY DEF Good, Typed, SinkType
<1>3. InFlight(t)
  BY <1>2 DEF Good, InFlight
<1> QED BY <1>1, <1>3 DEF Good, Typed, Linked

LEMMA Waiters ==
  ASSUME NEW s, NEW ws, NEW st, NEW w, NEW told, Good(s, ws, st, w, told)
  PROVE  s \in SinkType /\ w \in Seq(Events) /\ Len(w) \in Nat /\ s.waiters \subseteq 0 .. Len(w)
BY DEF Good, Typed, Told, SinkType

LEMMA KeptByClose == IInv /\ (Close \/ Reconnect \/ ConnectFails \/ ConnectionLost \/ PeerClosed) => IInv'
<1> SUFFICES ASSUME IInv, Close \/ Reconnect \/ ConnectFails \/ ConnectionLost \/ PeerClosed
             PROVE  IInv'
  OBVIOUS
<1>1. /\ sink \in SinkType /\ Len(written) \in Nat /\ sink.waiters \subseteq 0 .. Len(written)
      /\ sink.socket \in {"none", "connecting"} => sink.inFlight = <<>>
  BY Waiters DEF IInv, Good, InFlight
<1>2. UNCHANGED <<wires, stored, written, resolved>>
  BY DEF Close, Reconnect, ConnectFails, ConnectionLost, PeerClosed
<1>3. PICK so \in {"none", "connecting", "open", "destroyed"}, cl \in BOOLEAN, ti \in BOOLEAN :
        /\ sink' = [sink EXCEPT !.closed = cl, !.timer = ti, !.socket = so]
        /\ so \in {"none", "connecting"} => sink.socket \in {"none", "connecting"}
        /\ so = "open" => sink.socket = "open"
  <2>1. CASE Close
    <3>1. sink' = [sink EXCEPT !.closed = TRUE, !.timer = FALSE,
                               !.socket = IF sink.socket = "none" THEN "none" ELSE "destroyed"]
      BY <2>1 DEF Close
    <3> QED BY <3>1
  <2>2. CASE Reconnect
    <3>1. sink' = [sink EXCEPT !.closed = sink.closed, !.timer = FALSE,
               !.socket = IF sink.closed \/ sink.socket # "none" THEN sink.socket ELSE "connecting"]
      BY <2>2, <1>1 DEF Reconnect, SinkType
    <3>2. sink.closed \in BOOLEAN /\ sink.socket \in {"none", "connecting", "open", "destroyed"}
      BY <1>1 DEF SinkType
    <3>3. CASE sink.closed \/ sink.socket # "none"
      BY <3>1, <3>2, <3>3
    <3>4. CASE ~(sink.closed \/ sink.socket # "none")
      BY <3>1, <3>2, <3>4
    <3> QED BY <3>3, <3>4
  <2>3. CASE ConnectFails \/ ConnectionLost \/ PeerClosed
    <3>1. /\ sink' = [sink EXCEPT !.closed = sink.closed, !.timer = sink.timer, !.socket = "destroyed"]
          /\ sink.closed \in BOOLEAN /\ sink.timer \in BOOLEAN
      BY <2>3, <1>1 DEF ConnectFails, ConnectionLost, PeerClosed, SinkType
    <3> QED BY <3>1
  <2> QED BY <2>1, <2>2, <2>3
<1>4. /\ sink' \in SinkType /\ sink'.queue = sink.queue /\ sink'.inFlight = sink.inFlight
      /\ sink'.waiters = sink.waiters /\ sink'.socket = so
  BY <1>1, <1>3 DEF SinkType
<1> QED BY <1>1, <1>2, <1>3, <1>4, SinkKeeps DEF IInv

LEMMA KeptByWaiting == IInv /\ (WhenIdle \/ (\E n \in sink.waiters : WaitTimesOut(n))) => IInv'
<1> SUFFICES ASSUME IInv, WhenIdle \/ (\E n \in sink.waiters : WaitTimesOut(n)) PROVE IInv'
  OBVIOUS
<1>1. /\ sink \in SinkType /\ Len(written) \in Nat /\ sink.waiters \subseteq 0 .. Len(written)
      /\ sink.socket \in {"none", "connecting"} => sink.inFlight = <<>>
  BY Waiters DEF IInv, Good, InFlight
<1>2. UNCHANGED <<wires, stored, written>>
  BY DEF WhenIdle, WaitTimesOut
<1>3. CASE WhenIdle /\ sink.queue = <<>>
  <2>1. resolved' = resolved \cup {Len(written)} /\ UNCHANGED sink
    BY <1>3 DEF WhenIdle
  <2>2. Told(sink, written, resolved') /\ resolved' \subseteq Nat
    <3>1. Done(sink, written) = Len(written)
      BY <1>1, <1>3 DEF Done
    <3>2. resolved \subseteq Nat /\ Told(sink, written, resolved)
      BY DEF IInv, Good, Typed
    <3> DEFINE lw == Len(written)
    <3>3. lw \in Nat /\ resolved' = resolved \cup {lw} /\ Done(sink, written) = lw
      BY <1>1, <2>1, <3>1
    <3>4. \A n \in resolved : n <= lw
      BY <3>1, <3>2 DEF Told
    <3>5. \A n \in sink.waiters : n <= lw
      BY <3>2 DEF Told
    <3> HIDE DEF lw
    <3>6. resolved' \subseteq Nat /\ \A n \in resolved' : n <= lw
      BY <3>2, <3>3, <3>4
    <3> QED BY <3>3, <3>5, <3>6 DEF Told, lw
  <2> QED BY <1>2, <2>1, <2>2 DEF IInv, Good, Typed
<1>4. CASE ~(WhenIdle /\ sink.queue = <<>>)
  <2>1. PICK left : UNCHANGED resolved /\ sink' = [sink EXCEPT !.waiters = left]
                    /\ left \subseteq 0 .. Len(written)
    BY <1>1, <1>4 DEF WhenIdle, WaitTimesOut
  <2>2. /\ sink' \in SinkType /\ sink'.queue = sink.queue /\ sink'.inFlight = sink.inFlight
        /\ sink'.waiters = left /\ sink'.socket = sink.socket
    BY <1>1, <2>1 DEF SinkType
  <2> QED BY <1>1, <1>2, <2>1, <2>2, SinkKeeps DEF IInv
<1> QED BY <1>3, <1>4

LEMMA KeptByDrain == IInv /\ Drain => IInv'
<1> SUFFICES ASSUME IInv, Drain PROVE IInv'
  OBVIOUS
<1> DEFINE t == [sink EXCEPT !.writable = TRUE]
<1>1. /\ sink \in SinkType /\ sink.waiters \subseteq 0 .. Len(written) /\ sink.socket = "open"
  BY Waiters DEF IInv, Drain
<1>2. /\ t \in SinkType /\ t.queue = sink.queue /\ t.inFlight = sink.inFlight
      /\ t.waiters = sink.waiters /\ t.socket = sink.socket
  BY <1>1 DEF SinkType
<1>3. Flush(t, wires) /\ UNCHANGED <<stored, written, resolved>>
  BY DEF Drain
<1> HIDE DEF t
<1>4. Good(t, wires, stored, written, resolved)
  BY <1>1, <1>2, SinkKeeps DEF IInv
<1>5. Good(sink', wires', stored, written, resolved)
  BY <1>3, <1>4, FlushKeeps
<1> QED BY <1>3, <1>5 DEF IInv

LEMMA KeptByWrite == \A e \in Events : IInv /\ Write(e) => IInv'
<1> SUFFICES ASSUME NEW e \in Events, IInv, Write(e) PROVE IInv'
  OBVIOUS
<1> DEFINE q == Append(sink.queue, e)
           w == Append(written, e)
           t == [sink EXCEPT !.queue = q]
<1>1. /\ sink \in SinkType /\ sink.waiters \subseteq 0 .. Len(written)
      /\ sink.queue \in Seq(Events) /\ written \in Seq(Events)
      /\ Len(written) \in Nat /\ Len(sink.queue) \in Nat
  BY Waiters DEF IInv, SinkType
<1>2. /\ q \in Seq(Events) /\ Len(q) = Len(sink.queue) + 1 /\ q[Len(sink.queue) + 1] = e
      /\ \A i \in 1 .. Len(sink.queue) : q[i] = sink.queue[i]
  BY <1>1
<1>3. /\ w \in Seq(Events) /\ Len(w) = Len(written) + 1 /\ w[Len(written) + 1] = e
      /\ \A i \in 1 .. Len(written) : w[i] = written[i]
  BY <1>1
<1>4. Flush(t, wires) /\ written' = w /\ UNCHANGED <<stored, resolved>>
  BY DEF Write
<1> HIDE DEF q, w
<1>5. /\ t \in SinkType /\ t.queue = q /\ t.inFlight = sink.inFlight
      /\ t.waiters = sink.waiters /\ t.socket = sink.socket
  BY <1>1, <1>2 DEF SinkType
<1> HIDE DEF t
<1>6. Done(t, w) = Done(sink, written)
  <2>1. Done(t, w) = (Len(written) + 1) - (Len(sink.queue) + 1)
    BY <1>2, <1>3, <1>5 DEF Done
  <2>2. \A a, b \in Nat : (a + 1) - (b + 1) = a - b
    OBVIOUS
  <2>3. (Len(written) + 1) - (Len(sink.queue) + 1) = Len(written) - Len(sink.queue)
    BY <1>1, <2>2
  <2> QED BY <2>1, <2>3 DEF Done
<1>7. Queued(t, stored, w)
  <2> DEFINE lq == Len(sink.queue)
             lw == Len(written)
  <2>1. lq <= lw /\ Done(t, w) = lw - lq
    <3>1. Len(sink.queue) <= Len(written)
      BY DEF IInv, Good, Queued
    <3> QED BY <3>1, <1>6 DEF Done
  <2>2. \A i \in 1 .. lq : sink.queue[i] = written[(lw - lq) + i]
    BY DEF IInv, Good, Queued, Done
  <2>3. \A i \in 1 .. lw - lq : written[i] \in stored
    BY DEF IInv, Good, Queued, Done
  <2>4. lq \in Nat /\ lw \in Nat
    BY <1>1
  <2>5. Len(q) = lq + 1 /\ q[lq + 1] = e /\ \A i \in 1 .. lq : q[i] = sink.queue[i]
    BY <1>2
  <2>6. Len(w) = lw + 1 /\ w[lw + 1] = e /\ \A i \in 1 .. lw : w[i] = written[i]
    BY <1>3
  <2> HIDE DEF lq, lw
  <2>7. \A i \in 1 .. lq + 1 : q[i] = w[(lw - lq) + i]
    <3> TAKE i \in 1 .. lq + 1
    <3>1. CASE i = lq + 1
      <4>1. (lw - lq) + i = lw + 1
        BY <3>1, <2>4
      <4> QED BY <3>1, <4>1, <2>5, <2>6
    <3>2. CASE i # lq + 1
      <4>1. i \in 1 .. lq /\ (lw - lq) + i \in 1 .. lw
        BY <3>2, <2>1, <2>4
      <4> QED BY <4>1, <2>2, <2>5, <2>6
    <3> QED BY <3>1, <3>2
  <2>8. \A i \in 1 .. lw - lq : w[i] \in stored
    <3> TAKE i \in 1 .. lw - lq
    <3>1. i \in 1 .. lw
      BY <2>1, <2>4
    <3> QED BY <3>1, <2>3, <2>6
  <2>9. lq + 1 <= lw + 1
    BY <2>1, <2>4
  <2> QED BY <2>1, <2>5, <2>6, <2>7, <2>8, <2>9, <1>5 DEF Queued
<1>8. InFlight(t)
  <2>1. \A i \in 1 .. Len(sink.inFlight) : sink.inFlight[i] = q[i]
    BY <1>1, <1>2 DEF IInv, Good, InFlight, SinkType
  <2>2. Len(sink.inFlight) <= Len(q)
    BY <1>1, <1>2 DEF IInv, Good, InFlight, SinkType
  <2> QED BY <1>5, <2>1, <2>2 DEF IInv, Good, InFlight
<1>9. Told(t, w, resolved)
  <2>1. \A n \in t.waiters : n <= Len(w)
    BY <1>1, <1>3, <1>5
  <2>2. \A n \in resolved : n <= Done(sink, written)
    BY DEF IInv, Good, Told
  <2> QED BY <1>6, <2>1, <2>2 DEF Told
<1>10. FramesInOrder(wires, stored, w)
  <2> SUFFICES ASSUME NEW k \in 1 .. Len(wires)
               PROVE  \E o \in 0 .. Len(w) : Stretch(wires[k].frames, o, stored, w)
    BY DEF FramesInOrder
  <2>1. PICK o \in 0 .. Len(written) : Stretch(wires[k].frames, o, stored, written)
    BY DEF IInv, Good, FramesInOrder
  <2>2. Len(wires[k].frames) \in Nat
    BY DEF IInv, Good, Typed, WireType
  <2>3. Stretch(wires[k].frames, o, stored, w)
    <3> DEFINE f == wires[k].frames
               lf == Len(f)
               lw == Len(written)
    <3>1. /\ o + lf <= lw /\ \A i \in 1 .. o : written[i] \in stored
          /\ \A j \in 1 .. lf : f[j] = written[o + j]
      BY <2>1 DEF Stretch
    <3>2. Len(w) = lw + 1 /\ \A i \in 1 .. lw : w[i] = written[i]
      BY <1>3
    <3>3. lw \in Nat /\ lf \in Nat /\ o \in 0 .. lw
      BY <1>1, <2>2
    <3> HIDE DEF f, lf, lw
    <3>4. o + lf <= lw + 1
      BY <3>1, <3>3
    <3>5. \A i \in 1 .. o : w[i] \in stored
      BY <3>1, <3>2, <3>3
    <3>6. ASSUME NEW j \in 1 .. lf PROVE f[j] = w[o + j]
      <4>1. o + j \in 1 .. lw
        BY <3>1, <3>3
      <4> QED BY <4>1, <3>1, <3>2
    <3> QED BY <3>2, <3>4, <3>5, <3>6 DEF Stretch, f, lf
  <2> QED BY <1>1, <1>3, <2>3
<1>11. Good(t, wires, stored, w, resolved)
  BY <1>3, <1>5, <1>7, <1>8, <1>9, <1>10 DEF IInv, Good, Typed, Linked
<1>12. Good(sink', wires', stored, w, resolved)
  BY <1>4, <1>11, FlushKeeps
<1> QED BY <1>4, <1>12 DEF IInv

\* The new connection carries nothing yet, and nothing is in flight.
LEMMA KeptByConnected == IInv /\ Connected => IInv'
<1> SUFFICES ASSUME IInv, Connected PROVE IInv'
  OBVIOUS
<1> DEFINE fresh == [frames |-> <<>>, answers |-> <<>>, reads |-> TRUE]
           ws == Append(wires, fresh)
<1>1. PICK wr \in BOOLEAN : Flush([sink EXCEPT !.socket = "open", !.writable = wr], ws)
  BY DEF Connected
<1>2. UNCHANGED <<stored, written, resolved>> /\ sink.socket = "connecting"
  BY DEF Connected
<1>3. /\ sink \in SinkType /\ sink.inFlight = <<>> /\ wires \in Seq(WireType) /\ Len(wires) \in Nat
  BY <1>2 DEF IInv, Good, Typed, InFlight
<1>4. fresh \in WireType
  BY DEF WireType
<1> DEFINE t == [sink EXCEPT !.socket = "open", !.writable = wr]
<1>5. /\ t \in SinkType /\ t.queue = sink.queue /\ t.inFlight = <<>>
      /\ t.waiters = sink.waiters /\ t.socket = "open"
  BY <1>3 DEF SinkType
<1>6. Queued(t, stored, written) /\ Told(t, written, resolved) /\ InFlight(t)
  BY <1>3, <1>5 DEF IInv, Good, Queued, Told, Done, InFlight
<1>7. Link(<<>>, fresh, stored)
  BY DEF Link
<1>8. FramesInOrder(<<fresh>>, stored, written)
  <2>1. Stretch(<<>>, 0, stored, written) /\ Len(written) \in Nat
    BY DEF Stretch, IInv, Good, Typed
  <2> QED BY <2>1 DEF FramesInOrder
<1> HIDE DEF fresh, t
<1>9. /\ ws \in Seq(WireType) /\ Len(ws) = Len(wires) + 1 /\ ws[Len(wires) + 1] = fresh
      /\ \A k \in 1 .. Len(wires) : ws[k] = wires[k]
  BY <1>3, <1>4
<1> HIDE DEF ws
<1>10. FramesInOrder(ws, stored, written)
  <2> SUFFICES ASSUME NEW k \in 1 .. Len(wires) + 1
               PROVE  \E o \in 0 .. Len(written) : Stretch(ws[k].frames, o, stored, written)
    BY <1>9 DEF FramesInOrder
  <2>1. CASE k = Len(wires) + 1
    <3>1. \E o \in 0 .. Len(written) : Stretch(fresh.frames, o, stored, written)
      BY <1>8 DEF FramesInOrder
    <3> QED BY <2>1, <3>1, <1>9
  <2>2. CASE k # Len(wires) + 1
    <3>1. k \in 1 .. Len(wires)
      BY <2>2, <1>3
    <3> QED BY <3>1, <1>9 DEF IInv, Good, FramesInOrder
  <2> QED BY <2>1, <2>2
<1>11. Linked(t, ws, stored)
  <2>1. ws # <<>>
    BY <1>3, <1>9, EmptySeq
  <2>2. Link(t.inFlight, ws[Len(ws)], stored)
    BY <1>5, <1>7, <1>9
  <2> QED BY <2>1, <2>2 DEF Linked
<1>12. Good(t, ws, stored, written, resolved)
  BY <1>5, <1>6, <1>9, <1>10, <1>11 DEF IInv, Good, Typed
<1>13. Good(sink', wires', stored, written, resolved)
  BY <1>1, <1>12, FlushKeeps DEF t
<1> QED BY <1>2, <1>13 DEF IInv

\* A function of the positions of a sequence is a sequence of the same length.
LEMMA SameLength ==
  ASSUME NEW n \in Nat, NEW X, NEW f \in [1 .. n -> X]
  PROVE  f \in Seq(X) /\ Len(f) = n
<1>1. f \in Seq(X)
  BY SeqDef
<1> QED BY <1>1, LenProperties

LEMMA KeptBySocketClosed == IInv /\ SocketClosed => IInv'
<1> SUFFICES ASSUME IInv, SocketClosed PROVE IInv'
  OBVIOUS
<1>1. /\ sink \in SinkType /\ sink.waiters \subseteq 0 .. Len(written)
      /\ wires \in Seq(WireType) /\ written \in Seq(Events)
  BY Waiters DEF IInv, Good, Typed
<1> DEFINE ti == sink.timer \/ ~sink.closed
<1>2. /\ sink' = [sink EXCEPT !.socket = "none", !.inFlight = <<>>, !.writable = TRUE, !.timer = ti]
      /\ wires' = [k \in DOMAIN wires |-> [wires[k] EXCEPT !.answers = <<>>]]
      /\ UNCHANGED <<stored, written, resolved>>
  BY DEF SocketClosed
<1>3. ti \in BOOLEAN
  BY <1>1 DEF SinkType
<1> HIDE DEF ti
<1>4. /\ sink' \in SinkType /\ sink'.queue = sink.queue /\ sink'.inFlight = <<>>
      /\ sink'.waiters = sink.waiters /\ sink'.socket = "none"
  <2>1. <<>> \in Seq(Events)
    OBVIOUS
  <2>2. sink' \in SinkType
    BY <1>1, <1>2, <1>3, <2>1 DEF SinkType
  <2> QED BY <1>1, <1>2, <2>2 DEF SinkType
<1>5. Good(sink', wires, stored, written, resolved)
  BY <1>1, <1>4, SinkKeeps DEF IInv
<1>6. /\ wires' \in Seq(WireType) /\ Len(wires') = Len(wires)
      /\ \A k \in 1 .. Len(wires) : wires'[k].frames = wires[k].frames
  <2>1. ASSUME NEW k \in 1 .. Len(wires)
        PROVE  /\ [wires[k] EXCEPT !.answers = <<>>] \in WireType
               /\ [wires[k] EXCEPT !.answers = <<>>].frames = wires[k].frames
    <3>1. wires[k] \in WireType /\ <<>> \in Seq(AnswerType)
      BY <1>1
    <3> QED BY <3>1 DEF WireType
  <2>2. DOMAIN wires = 1 .. Len(wires) /\ Len(wires) \in Nat
    BY <1>1
  <2>3. wires' \in [1 .. Len(wires) -> WireType]
    BY <1>2, <2>1, <2>2
  <2>4. wires' \in Seq(WireType) /\ Len(wires') = Len(wires)
    <3> QED BY <2>2, <2>3, SameLength
  <2> QED BY <1>2, <2>1, <2>2, <2>4
<1>7. FramesInOrder(wires', stored, written)
  BY <1>1, <1>6, FramesKept DEF IInv, Good
<1> QED BY <1>2, <1>4, <1>5, <1>6, <1>7 DEF IInv, Good, Typed, Linked

\* The frames of a connection that the server no longer reads are gone.
LEMMA KeptByServerStops == IInv /\ ServerStops => IInv'
<1> SUFFICES ASSUME IInv, ServerStops PROVE IInv'
  OBVIOUS
<1>1. wires \in Seq(WireType) /\ written \in Seq(Events)
  BY DEF IInv, Good, Typed
<1>2. /\ wires' = [k \in DOMAIN wires |-> [wires[k] EXCEPT !.frames = <<>>, !.reads = FALSE]]
      /\ UNCHANGED <<sink, stored, written, resolved>>
  BY DEF ServerStops
<1>3. /\ wires' \in Seq(WireType) /\ Len(wires') = Len(wires)
      /\ \A k \in 1 .. Len(wires) : /\ wires'[k].frames = <<>> /\ ~wires'[k].reads
                                    /\ wires'[k].answers = wires[k].answers
  <2>1. ASSUME NEW k \in 1 .. Len(wires)
        PROVE  LET wire == [wires[k] EXCEPT !.frames = <<>>, !.reads = FALSE]
               IN  /\ wire \in WireType /\ wire.frames = <<>> /\ ~wire.reads
                   /\ wire.answers = wires[k].answers
    <3>1. wires[k] \in WireType /\ <<>> \in Seq(Events)
      BY <1>1
    <3> QED BY <3>1 DEF WireType
  <2>2. DOMAIN wires = 1 .. Len(wires) /\ Len(wires) \in Nat
    BY <1>1
  <2>3. wires' \in [1 .. Len(wires) -> WireType]
    BY <1>2, <2>1, <2>2
  <2>4. wires' \in Seq(WireType) /\ Len(wires') = Len(wires)
    <3> QED BY <2>2, <2>3, SameLength
  <2> QED BY <1>2, <2>1, <2>2, <2>4
<1>4. FramesInOrder(wires', stored, written)
  BY <1>1, <1>3, FramesKept DEF IInv, Good
<1>5. ASSUME sink.socket = "open" PROVE wires' # <<>> /\ Link(sink.inFlight, wires'[Len(wires')], stored)
  <2>1. wires # <<>> /\ Link(sink.inFlight, wires[Len(wires)], stored)
    BY <1>5 DEF IInv, Good, Linked
  <2>2. Len(wires) \in 1 .. Len(wires) /\ Len(wires') # 0
    BY <2>1, <1>1, <1>3, EmptySeq
  <2>3. Link(sink.inFlight, wires'[Len(wires)], stored)
    BY <2>1, <2>2, <1>3 DEF Link
  <2> QED BY <2>2, <2>3, <1>3, EmptySeq
<1> QED BY <1>2, <1>3, <1>4, <1>5 DEF IInv, Good, Typed, Linked

\* The answers that were read are to the events that are taken.
LEMMA KeptByReceive ==
  \A n \in 1 .. Len(wires[Current].answers) : IInv /\ Receive(n) => IInv'
<1> SUFFICES ASSUME NEW n \in 1 .. Len(wires[Current].answers), IInv, Receive(n) PROVE IInv'
  OBVIOUS
<1> DEFINE after == ReceiveLines(n)
           woken == IF after.queue = <<>> /\ sink.queue # <<>> THEN sink.waiters ELSE {}
           t     == [after EXCEPT !.waiters = @ \ woken]
           wire  == wires[Len(wires)]
           left  == SubSeq(wire.answers, n + 1, Len(wire.answers))
           new   == [wire EXCEPT !.answers = left]
           ws    == [wires EXCEPT ![Len(wires)] = new]
<1>1. /\ sink.socket = "open" /\ Flush(t, [wires EXCEPT ![Len(wires)].answers = SubSeq(@, n + 1, Len(@))])
      /\ resolved' = resolved \cup woken /\ UNCHANGED <<stored, written>>
  BY DEF Receive, Current
<1>2. /\ sink \in SinkType /\ wires \in Seq(WireType) /\ written \in Seq(Events)
      /\ resolved \subseteq Nat /\ InFlight(sink) /\ sink.inFlight \in Seq(Events)
      /\ Queued(sink, stored, written) /\ Told(sink, written, resolved) /\ stored \subseteq Events
      /\ FramesInOrder(wires, stored, written)
  BY DEF IInv, Good, Typed, SinkType
<1>3. /\ wires # <<>> /\ Link(sink.inFlight, wire, stored)
  BY <1>1 DEF IInv, Good, Linked
<1>4. Len(wires) \in 1 .. Len(wires) /\ wire \in WireType
  BY <1>2, <1>3, EmptySeq
<1>5. wire.answers \in Seq(AnswerType) /\ Len(wire.answers) \in Nat /\ n \in 1 .. Len(wire.answers)
  BY <1>4 DEF WireType, Current
<1>6. /\ left \in Seq(AnswerType) /\ Len(left) = Len(wire.answers) - n
      /\ \A i \in 1 .. Len(wire.answers) - n : left[i] = wire.answers[n + i]
  BY <1>5
<1> HIDE DEF left
<1>7. /\ new \in WireType /\ new.frames = wire.frames /\ new.answers = left
      /\ new.reads = wire.reads
  BY <1>4, <1>6 DEF WireType
<1>8. Flush(t, ws)
  BY <1>1 DEF left
<1> HIDE DEF new
<1>9. /\ ws \in Seq(WireType) /\ Len(ws) = Len(wires) /\ ws[Len(wires)] = new
      /\ \A k \in 1 .. Len(wires) : ws[k].frames = wires[k].frames
  BY <1>2, <1>4, <1>7, ExceptSeq
<1> HIDE DEF ws
<1>10. FramesInOrder(ws, stored, written) /\ ws # <<>>
  <2>1. FramesInOrder(ws, stored, written)
    BY <1>2, <1>9, FramesKept
  <2>2. Len(ws) # 0
    BY <1>4, <1>9
  <2> QED BY <2>1, <2>2, EmptySeq
<1>11. PICK m \in 0 .. Len(sink.inFlight), so \in {"open", "destroyed"} :
          /\ \A j \in 1 .. m : sink.inFlight[j] \in stored
          /\ after = [Taken(sink, m) EXCEPT !.socket = so]
          /\ so = "open" => m = n
  <2>1. Len(sink.inFlight) \in Nat
    BY <1>2
  <2>2. CASE /\ n <= Len(sink.inFlight) /\ \A j \in 1 .. n : sink.inFlight[j] \in stored
             /\ after = Taken(sink, n)
    <3>1. n \in 0 .. Len(sink.inFlight)
      BY <2>1, <2>2, <1>5
    <3>2. Taken(sink, n) \in SinkType /\ Taken(sink, n).socket = "open"
      BY <3>1, <1>1, <1>2, TakenFields
    <3>3. Taken(sink, n) = [Taken(sink, n) EXCEPT !.socket = "open"]
      BY <3>2 DEF SinkType
    <3> QED BY <2>2, <3>1, <3>3
  <2>3. CASE /\ n - 1 <= Len(sink.inFlight) /\ \A j \in 1 .. n - 1 : sink.inFlight[j] \in stored
             /\ after = [Taken(sink, n - 1) EXCEPT !.socket = "destroyed"]
    <3>1. n - 1 \in 0 .. Len(sink.inFlight)
      BY <2>1, <2>3, <1>5
    <3> QED BY <2>3, <3>1
  <2> QED BY <1>1, <2>2, <2>3, ReceivedLines
<1> HIDE DEF after
<1>12. /\ Taken(sink, m) \in SinkType /\ Taken(sink, m).waiters = sink.waiters
       /\ Len(Taken(sink, m).inFlight) = Len(sink.inFlight) - m
       /\ \A i \in 1 .. Len(sink.inFlight) - m : Taken(sink, m).inFlight[i] = sink.inFlight[m + i]
  BY <1>2, TakenFields
<1>13. /\ woken \in SUBSET sink.waiters /\ (woken # {} => after.queue = <<>>)
  OBVIOUS
<1> HIDE DEF woken
<1>14. /\ t \in SinkType /\ t.queue = Taken(sink, m).queue /\ t.inFlight = Taken(sink, m).inFlight
       /\ t.socket = so /\ t.waiters = sink.waiters \ woken /\ (woken # {} => t.queue = <<>>)
  BY <1>11, <1>12, <1>13 DEF SinkType
<1> HIDE DEF t
<1>15. Queued(t, stored, written) /\ InFlight(t) /\ Told(t, written, resolved \cup woken)
  BY <1>2, <1>11, <1>13, <1>14, TakenKeeps
<1>16. Linked(t, ws, stored)
  <2> SUFFICES ASSUME so = "open" PROVE Link(t.inFlight, new, stored)
    BY <1>9, <1>10, <1>14 DEF Linked
  <2>1. m = n /\ t.inFlight \in Seq(Events)
    BY <1>11, <1>14 DEF SinkType
  <2> DEFINE rest == t.inFlight
             fl == sink.inFlight
  <2>2. /\ fl \in Seq(Events) /\ rest \in Seq(Events) /\ n \in 0 .. Len(fl)
        /\ Len(rest) = Len(fl) - n /\ \A i \in 1 .. Len(fl) - n : rest[i] = fl[n + i]
    BY <2>1, <1>2, <1>12, <1>14
  <2>3. n <= Len(wire.answers) /\ Link(fl, wire, stored)
    BY <1>3, <1>5
  <2> HIDE DEF wire, rest, fl
  <2>4. Link(rest, new, stored)
    BY <2>2, <2>3, <1>4, <1>6, <1>7, LinkTakes
  <2> QED BY <2>4 DEF rest
<1>17. Good(t, ws, stored, written, resolved \cup woken)
  BY <1>2, <1>9, <1>10, <1>13, <1>14, <1>15, <1>16 DEF Good, Typed, SinkType
<1>18. Good(sink', wires', stored, written, resolved \cup woken)
  BY <1>8, <1>17, FlushKeeps
<1> QED BY <1>1, <1>18 DEF IInv

\* The server answers the first frame: with an ack for the event in flight that
\* it holds, or with the error that ends the connection.
LEMMA LinkAnswered ==
  ASSUME NEW st, NEW fl \in Seq(Events), NEW wire \in WireType, Link(fl, wire, st),
         wire.frames # <<>>, NEW kind \in {"ack", "error"}, NEW st2, st \subseteq st2,
         kind = "ack" => Head(wire.frames) \in st2,
         NEW new, new.answers = Append(wire.answers, Frame(kind, Head(wire.frames))),
         new.reads = (kind = "ack"),
         new.frames = IF kind = "ack" THEN Tail(wire.frames) ELSE <<>>
  PROVE  Link(fl, new, st2)
<1> DEFINE a == Len(wire.answers)
           f == Len(wire.frames)
           n == Len(fl)
           e == Head(wire.frames)
           answers == Append(wire.answers, Frame(kind, e))
           frames == Tail(wire.frames)
<1>1. wire.frames \in Seq(Events) /\ wire.answers \in Seq(AnswerType) /\ wire.reads \in BOOLEAN
  BY DEF WireType
<1>2. /\ a \in Nat /\ f \in Nat /\ n \in Nat /\ f >= 1 /\ e = wire.frames[1]
      /\ Len(frames) = f - 1 /\ \A i \in 1 .. f - 1 : frames[i] = wire.frames[i + 1]
  BY <1>1, EmptySeq, HeadTailProperties
<1>3. /\ Len(answers) = a + 1 /\ answers[a + 1] = Frame(kind, e)
      /\ \A i \in 1 .. a : answers[i] = wire.answers[i]
  BY <1>1
<1>4. /\ wire.reads /\ a + f = n /\ \A j \in 1 .. f : wire.frames[j] = fl[a + j]
      /\ \A j \in 1 .. a : /\ wire.answers[j].kind = "ack" /\ j <= n
                           /\ wire.answers[j].event = fl[j] /\ fl[j] \in st
  BY DEF Link
<1>5. new.answers = answers /\ new.frames = (IF kind = "ack" THEN frames ELSE <<>>)
      /\ (kind = "ack" => e \in st2)
  OBVIOUS
<1>6. Frame(kind, e).kind = kind /\ Frame(kind, e).event = e
  BY DEF Frame
<1> HIDE DEF a, f, n, e, answers, frames
<1>7. e = fl[a + 1] /\ a + 1 <= n
  BY <1>2, <1>4
<1>8. \A j \in 1 .. a : /\ answers[j].kind = "ack" /\ j <= n
                        /\ answers[j].event = fl[j] /\ fl[j] \in st2
  BY <1>3, <1>4
<1>9. /\ answers[a + 1].kind = kind /\ answers[a + 1].event = fl[a + 1]
      /\ kind = "ack" => fl[a + 1] \in st2
  BY <1>3, <1>5, <1>6, <1>7
<1>10. \A j \in 1 .. a + 1 :
          \/ /\ answers[j].kind = "ack" /\ j <= n
             /\ answers[j].event = fl[j] /\ fl[j] \in st2
          \/ answers[j].kind = "error" /\ j = a + 1 /\ kind # "ack"
  <2> TAKE j \in 1 .. a + 1
  <2>1. j \in 1 .. a \/ j = a + 1
    BY <1>2
  <2> QED BY <2>1, <1>7, <1>8, <1>9
<1>11. kind = "ack" => /\ (a + 1) + (f - 1) = n
                       /\ \A j \in 1 .. f - 1 : frames[j] = fl[(a + 1) + j]
  <2>1. (a + 1) + (f - 1) = n
    BY <1>2, <1>4
  <2>2. ASSUME NEW j \in 1 .. f - 1 PROVE frames[j] = fl[(a + 1) + j]
    <3>1. j + 1 \in 1 .. f /\ a + (j + 1) = (a + 1) + j
      BY <1>2
    <3>2. frames[j] = wire.frames[j + 1]
      BY <1>2
    <3>3. wire.frames[j + 1] = fl[a + (j + 1)]
      BY <1>4, <3>1
    <3> QED BY <3>1, <3>2, <3>3
  <2> QED BY <2>1, <2>2
<1>12. CASE kind = "ack"
  <2>1. new.reads /\ new.frames = frames /\ new.answers = answers
    BY <1>5, <1>12
  <2>2. \A j \in 1 .. a + 1 : /\ answers[j].kind = "ack" /\ j <= n
                             /\ answers[j].event = fl[j] /\ fl[j] \in st2
    BY <1>10, <1>12
  <2> QED BY <2>1, <2>2, <1>2, <1>3, <1>11, <1>12 DEF Link, n
<1>13. CASE kind # "ack"
  <2>1. ~new.reads /\ new.frames = <<>> /\ new.answers = answers
    BY <1>5, <1>13
  <2> QED BY <2>1, <1>3, <1>10 DEF Link, n
<1> QED BY <1>12, <1>13

\* The event of the first frame comes after durable events only.
LEMMA StretchTail ==
  ASSUME NEW frames \in Seq(Events), frames # <<>>, NEW w \in Seq(Events), NEW st,
         NEW o \in 0 .. Len(w), Stretch(frames, o, st, w)
  PROVE  /\ Head(frames) = w[o + 1] /\ o + 1 \in 1 .. Len(w)
         /\ Stretch(Tail(frames), o + 1, st \cup {Head(frames)}, w)
<1> DEFINE f == Len(frames)
           lw == Len(w)
           rest == Tail(frames)
           st2 == st \cup {Head(frames)}
<1>1. /\ f \in Nat /\ f >= 1 /\ lw \in Nat /\ Head(frames) = frames[1]
      /\ Len(rest) = f - 1 /\ \A i \in 1 .. f - 1 : rest[i] = frames[i + 1]
  BY EmptySeq, HeadTailProperties
<1>2. /\ o + f <= lw /\ \A j \in 1 .. f : frames[j] = w[o + j]
      /\ \A i \in 1 .. o : w[i] \in st
  BY DEF Stretch
<1>3. o \in 0 .. lw /\ Head(frames) \in st2 /\ st \subseteq st2
  OBVIOUS
<1> HIDE DEF f, lw, rest, st2
<1>4. Head(frames) = w[o + 1] /\ o + 1 \in 1 .. lw
  BY <1>1, <1>2, <1>3
<1>5. (o + 1) + (f - 1) <= lw
  BY <1>1, <1>2, <1>3
<1>6. ASSUME NEW j \in 1 .. f - 1 PROVE rest[j] = w[(o + 1) + j]
  <2>1. j + 1 \in 1 .. f /\ o + (j + 1) = (o + 1) + j
    BY <1>1, <1>3
  <2> QED BY <2>1, <1>1, <1>2
<1>7. \A i \in 1 .. o + 1 : w[i] \in st2
  <2> TAKE i \in 1 .. o + 1
  <2>1. i \in 1 .. o \/ i = o + 1
    BY <1>3
  <2> QED BY <2>1, <1>2, <1>3, <1>4
<1>8. Stretch(rest, o + 1, st2, w)
  BY <1>1, <1>5, <1>6, <1>7 DEF Stretch, lw
<1> QED BY <1>4, <1>8 DEF rest, st2, lw

LEMMA KeptByHandle == \A k \in DOMAIN wires : IInv /\ Handle(k) => IInv'
<1> SUFFICES ASSUME NEW k \in DOMAIN wires, IInv, Handle(k) PROVE IInv'
  OBVIOUS
<1> DEFINE wire == wires[k]
           e == Head(wire.frames)
<1>1. /\ sink \in SinkType /\ wires \in Seq(WireType) /\ written \in Seq(Events)
      /\ stored \subseteq Events /\ resolved \subseteq Nat /\ sink.inFlight \in Seq(Events)
  BY DEF IInv, Good, Typed, SinkType
<1>2. /\ k \in 1 .. Len(wires) /\ wire \in WireType /\ Len(wires) \in Nat
  BY <1>1
<1>3. wire.frames \in Seq(Events) /\ wire.answers \in Seq(AnswerType) /\ wire.frames # <<>>
  BY <1>2 DEF WireType, Handle
<1>4. e \in Events /\ Tail(wire.frames) \in Seq(Events)
  BY <1>3, HeadTailProperties
<1> DEFINE Handled(kind) == [frames  |-> IF kind = "ack" THEN Tail(wire.frames) ELSE <<>>,
                             answers |-> Answered(k, Frame(kind, e)), reads |-> kind = "ack"]
<1>5. PICK kind \in {"ack", "error"} :
         /\ wires' = [wires EXCEPT ![k] = Handled(kind)]
         /\ stored' = (IF kind = "ack" THEN stored \cup {e} ELSE stored)
         /\ UNCHANGED <<sink, written, resolved>>
  BY DEF Handle
<1> DEFINE new == Handled(kind)
<1>6. /\ Answered(k, Frame(kind, e)) \in Seq(AnswerType)
      /\ k = Len(wires) /\ sink.socket = "open" =>
            Answered(k, Frame(kind, e)) = Append(wire.answers, Frame(kind, e))
  <2>1. Frame(kind, e) \in AnswerType
    BY <1>4 DEF Frame, AnswerType
  <2> QED BY <2>1, <1>3 DEF Answered, Current
<1>7. /\ new \in WireType /\ new.answers = Answered(k, Frame(kind, e))
      /\ new.frames = (IF kind = "ack" THEN Tail(wire.frames) ELSE <<>>)
      /\ new.reads = (kind = "ack")
  <2>1. <<>> \in Seq(Events)
    OBVIOUS
  <2> QED BY <2>1, <1>4, <1>5, <1>6 DEF WireType
<1> HIDE DEF new
<1>8. /\ wires' \in Seq(WireType) /\ Len(wires') = Len(wires) /\ wires'[k] = new
      /\ \A i \in 1 .. Len(wires) : i # k => wires'[i] = wires[i]
  BY <1>1, <1>2, <1>5, <1>7, ExceptSeq DEF new
<1>9. stored \subseteq stored' /\ stored' \subseteq Events /\ (kind = "ack" => e \in stored')
  BY <1>1, <1>4, <1>5
<1> HIDE DEF wire, e
<1>10. Queued(sink, stored', written) /\ InFlight(sink) /\ Told(sink, written, resolved)
  BY <1>9 DEF IInv, Good, Queued
<1>11. FramesInOrder(wires', stored', written)
  <2> SUFFICES ASSUME NEW i \in 1 .. Len(wires)
               PROVE  \E o \in 0 .. Len(written) : Stretch(wires'[i].frames, o, stored', written)
    BY <1>8 DEF FramesInOrder
  <2>1. PICK o \in 0 .. Len(written) : Stretch(wires[i].frames, o, stored, written)
    BY DEF IInv, Good, FramesInOrder
  <2>2. CASE i # k
    <3>1. Stretch(wires'[i].frames, o, stored', written)
      BY <2>1, <2>2, <1>8, <1>9 DEF Stretch
    <3> QED BY <3>1
  <2>3. CASE i = k /\ kind = "ack"
    <3>1. /\ o + 1 \in 1 .. Len(written)
          /\ Stretch(Tail(wire.frames), o + 1, stored \cup {e}, written)
      BY <2>1, <2>3, <1>1, <1>3, StretchTail DEF wire, e
    <3>2. o + 1 \in 0 .. Len(written)
      BY <3>1
    <3>3. Stretch(wires'[i].frames, o + 1, stored', written)
      BY <3>1, <2>3, <1>5, <1>7, <1>8
    <3> QED BY <3>2, <3>3
  <2>4. CASE i = k /\ kind # "ack"
    <3>1. wires'[i].frames = <<>> /\ Len(written) \in Nat
      BY <2>4, <1>1, <1>7, <1>8
    <3>2. Stretch(wires'[i].frames, 0, stored', written)
      BY <3>1 DEF Stretch
    <3> QED BY <3>1, <3>2
  <2> QED BY <2>2, <2>3, <2>4
<1>12. Linked(sink, wires', stored')
  <2> SUFFICES ASSUME sink.socket = "open"
               PROVE  wires' # <<>> /\ Link(sink.inFlight, wires'[Len(wires)], stored')
    BY <1>8 DEF Linked
  <2>1. Link(sink.inFlight, wires[Len(wires)], stored)
    BY DEF IInv, Good, Linked
  <2>2. wires' # <<>>
    BY <1>2, <1>8, EmptySeq
  <2>3. CASE k # Len(wires)
    <3>1. wires'[Len(wires)] = wires[Len(wires)]
      BY <2>3, <1>2, <1>8
    <3>2. Link(sink.inFlight, wires[Len(wires)], stored')
      BY <2>1, <1>9 DEF Link
    <3> QED BY <2>2, <3>1, <3>2
  <2>4. CASE k = Len(wires)
    <3>1. /\ Link(sink.inFlight, wire, stored) /\ wires'[Len(wires)] = new
          /\ new.answers = Append(wire.answers, Frame(kind, e))
      BY <2>1, <2>4, <1>6, <1>7, <1>8 DEF wire
    <3>2. e = Head(wire.frames) /\ wire \in WireType
      BY <1>2 DEF e, wire
    <3>3. /\ new.answers = Append(wire.answers, Frame(kind, Head(wire.frames)))
          /\ new.reads = (kind = "ack")
          /\ new.frames = (IF kind = "ack" THEN Tail(wire.frames) ELSE <<>>)
          /\ (kind = "ack" => Head(wire.frames) \in stored')
      BY <3>1, <3>2, <1>7, <1>9
    <3>4. sink.inFlight \in Seq(Events) /\ wire.frames # <<>> /\ stored \subseteq stored'
      BY <1>1, <1>3, <1>9
    <3>5. wire \in WireType /\ Link(sink.inFlight, wire, stored)
      BY <3>1, <3>2
    <3>6. Link(sink.inFlight, new, stored')
      BY <3>3, <3>4, <3>5, LinkAnswered
    <3> QED BY <2>2, <3>1, <3>6
  <2> QED BY <2>3, <2>4
<1> QED BY <1>1, <1>5, <1>8, <1>9, <1>10, <1>11, <1>12 DEF IInv, Good, Typed

LEMMA NextInvariant == IInv /\ [Next]_vars => IInv'
<1> SUFFICES ASSUME IInv, [Next]_vars PROVE IInv'
  OBVIOUS
<1>1. CASE Caller
  BY <1>1, KeptByWrite, KeptByWaiting DEF Caller
<1>2. CASE Close \/ Reconnect \/ ConnectFails \/ ConnectionLost \/ PeerClosed
  BY <1>2, KeptByClose
<1>3. CASE Connected
  BY <1>3, KeptByConnected
<1>4. CASE Receives
  <2>1. PICK n : n \in 1 .. (IF wires = <<>> THEN 0 ELSE Len(wires[Current].answers)) /\ Receive(n)
    BY <1>4 DEF Receives
  <2>2. n \in 1 .. Len(wires[Current].answers)
    BY <2>1 DEF Receive
  <2> QED BY <2>1, <2>2, KeptByReceive
<1>5. CASE Drain
  BY <1>5, KeptByDrain
<1>6. CASE SocketClosed
  BY <1>6, KeptBySocketClosed
<1>7. CASE Handles
  BY <1>7, KeptByHandle DEF Handles
<1>8. CASE ServerStops
  BY <1>8, KeptByServerStops
<1>9. CASE UNCHANGED vars
  BY <1>9 DEF vars, IInv
<1> QED BY <1>1, <1>2, <1>3, <1>4, <1>5, <1>6, <1>7, <1>8, <1>9 DEF Next

-----------------------------------------------------------------------------
\* Everything the sink and its connections hold is a stretch of what was
\* written, and everything that has left the queue is durable.
THEOREM Invariant == Spec => []IInv
<1>1. Init => IInv
  BY InitInvariant
<1>2. IInv /\ [Next]_vars => IInv'
  BY NextInvariant
<1> QED BY <1>1, <1>2, PTL DEF Spec

\* When whenIdle resolves, everything written before it was called is durable.
THEOREM IdleIsDurable == Spec => []IdleMeansStored
<1>1. IInv => IdleMeansStored
  <2> SUFFICES ASSUME IInv, NEW n \in resolved, NEW i \in 1 .. n PROVE written[i] \in stored
    BY DEF IdleMeansStored
  <2>1. n \in Nat /\ n <= Done(sink, written)
    BY DEF IInv, Good, Typed, Told
  <2>2. Done(sink, written) \in Int
    BY DEF IInv, Good, Typed, SinkType, Done
  <2>3. i \in 1 .. Done(sink, written)
    BY <2>1, <2>2
  <2> QED BY <2>3 DEF IInv, Good, Queued
<1> QED BY <1>1, Invariant, PTL

-----------------------------------------------------------------------------
(* The sink implements AckedSink.                                          *)

LEMMA FlushQueue ==
  ASSUME NEW s \in SinkType, NEW ws, Flush(s, ws)
  PROVE  sink'.queue = s.queue
BY DEF Flush, SinkType

LEMMA WritePromised ==
  \A e \in Events : IInv /\ Write(e) => Promise!Write(e)
<1> SUFFICES ASSUME NEW e \in Events, IInv, Write(e) PROVE Promise!Write(e)
  OBVIOUS
<1> DEFINE q == Append(sink.queue, e)
           t == [sink EXCEPT !.queue = q]
<1>1. Flush(t, wires) /\ UNCHANGED stored
  BY DEF Write
<1>2. sink \in SinkType /\ q \in Seq(Events)
  BY DEF IInv, Good, Typed, SinkType
<1> HIDE DEF q
<1>3. t \in SinkType /\ t.queue = q
  BY <1>2 DEF SinkType
<1> HIDE DEF t
<1>4. sink'.queue = q
  BY <1>1, <1>3, FlushQueue
<1> QED BY <1>1, <1>4 DEF Promise!Write, q

\* Events leave the queue only when they are durable.
LEMMA ReceivePromised ==
  \A n \in 1 .. Len(wires[Current].answers) :
     IInv /\ Receive(n) => \/ \E m \in 1 .. Len(sink.queue) : Promise!Acknowledge(m)
                           \/ UNCHANGED <<sink.queue, stored>>
<1> SUFFICES ASSUME NEW n \in 1 .. Len(wires[Current].answers), IInv, Receive(n)
             PROVE  \/ \E m \in 1 .. Len(sink.queue) : Promise!Acknowledge(m)
                    \/ UNCHANGED <<sink.queue, stored>>
  OBVIOUS
<1>1. /\ sink \in SinkType /\ InFlight(sink) /\ sink.queue \in Seq(Events)
      /\ Len(sink.inFlight) \in Nat /\ Len(sink.queue) \in Nat /\ sink.socket = "open"
  BY DEF IInv, Good, Typed, SinkType, Receive
<1> DEFINE after == ReceiveLines(n)
<1>2. PICK woken, ws : Flush([after EXCEPT !.waiters = @ \ woken], ws) /\ UNCHANGED stored
  BY DEF Receive
<1>3. PICK m \in 0 .. Len(sink.inFlight) :
         /\ \A j \in 1 .. m : sink.inFlight[j] \in stored
         /\ after \in SinkType /\ after.queue = SubSeq(sink.queue, m + 1, Len(sink.queue))
  <2>1. ASSUME NEW m \in 0 .. Len(sink.inFlight), NEW r,
               r \in {Taken(sink, m), [Taken(sink, m) EXCEPT !.socket = "destroyed"]}
        PROVE  r \in SinkType /\ r.queue = SubSeq(sink.queue, m + 1, Len(sink.queue))
    <3>1. /\ Taken(sink, m) \in SinkType
          /\ Taken(sink, m).queue = SubSeq(sink.queue, m + 1, Len(sink.queue))
      BY <1>1, TakenFields
    <3> HIDE DEF after
    <3> QED BY <2>1, <3>1 DEF SinkType
  <2>2. n \in Nat /\ n >= 1
    <3>1. wires[Current].answers \in Seq(AnswerType)
      <4>1. wires \in Seq(WireType) /\ wires # <<>>
        BY <1>1 DEF IInv, Good, Typed, Linked
      <4>2. wires[Current] \in WireType
        BY <4>1, EmptySeq DEF Current
      <4> QED BY <4>2 DEF WireType
    <3> QED BY <3>1
  <2> HIDE DEF after
  <2>3. CASE /\ n <= Len(sink.inFlight) /\ \A j \in 1 .. n : sink.inFlight[j] \in stored
             /\ after = Taken(sink, n)
    <3>1. n \in 0 .. Len(sink.inFlight)
      BY <2>2, <2>3, <1>1
    <3> QED BY <3>1, <2>1, <2>3
  <2>4. CASE /\ n - 1 <= Len(sink.inFlight) /\ \A j \in 1 .. n - 1 : sink.inFlight[j] \in stored
             /\ after = [Taken(sink, n - 1) EXCEPT !.socket = "destroyed"]
    <3>1. n - 1 \in 0 .. Len(sink.inFlight)
      BY <2>2, <2>4, <1>1
    <3> QED BY <3>1, <2>1, <2>4
  <2> QED BY <1>1, <2>3, <2>4, ReceivedLines DEF after
<1> HIDE DEF after
<1> DEFINE t == [after EXCEPT !.waiters = @ \ woken]
<1>4. t \in SinkType /\ t.queue = after.queue
  BY <1>3 DEF SinkType
<1> HIDE DEF t
<1>5. sink'.queue = after.queue
  BY <1>2, <1>4, FlushQueue DEF t
<1>6. CASE m = 0
  <2>1. sink'.queue = SubSeq(sink.queue, 1, Len(sink.queue))
    BY <1>3, <1>5, <1>6
  <2> QED BY <2>1, <1>1, <1>2, SubSeqFull
<1>7. CASE m # 0
  <2>1. m \in 1 .. Len(sink.queue) /\ \A j \in 1 .. m : sink.queue[j] \in stored
    <3>1. Len(sink.inFlight) <= Len(sink.queue)
      BY <1>1 DEF InFlight
    <3>2. m \in 1 .. Len(sink.queue) /\ \A j \in 1 .. m : j \in 1 .. Len(sink.inFlight)
      BY <1>1, <1>7, <3>1
    <3>3. \A j \in 1 .. Len(sink.inFlight) : sink.inFlight[j] = sink.queue[j]
      BY <1>1 DEF InFlight
    <3> QED BY <1>3, <3>2, <3>3
  <2>2. Promise!Acknowledge(m)
    BY <2>1, <1>2, <1>3, <1>5 DEF Promise!Acknowledge
  <2> QED BY <2>1, <2>2
<1> QED BY <1>6, <1>7

\* The server stores the first event that is not durable yet, whichever
\* connection it reads it from.
LEMMA HandlePromised ==
  \A k \in DOMAIN wires : IInv /\ Handle(k) => Promise!Store \/ UNCHANGED <<sink.queue, stored>>
<1> SUFFICES ASSUME NEW k \in DOMAIN wires, IInv, Handle(k), stored' # stored
             PROVE  Promise!Store
  BY DEF Handle
<1> DEFINE e  == Head(wires[k].frames)
           lw == Len(written)
           lq == Len(sink.queue)
<1>1. /\ e \notin Rejected /\ stored' = stored \cup {e} /\ e \notin stored
      /\ sink' = sink /\ wires[k].frames # <<>>
  BY DEF Handle
<1>2. /\ sink.queue \in Seq(Events) /\ written \in Seq(Events) /\ wires[k].frames \in Seq(Events)
      /\ k \in 1 .. Len(wires) /\ lw \in Nat /\ lq \in Nat
  <2>1. wires \in Seq(WireType) /\ sink \in SinkType /\ written \in Seq(Events)
    BY DEF IInv, Good, Typed
  <2>2. wires[k] \in WireType /\ k \in 1 .. Len(wires)
    BY <2>1
  <2> QED BY <2>1, <2>2 DEF SinkType, WireType
<1>3. PICK o \in 0 .. lw : Stretch(wires[k].frames, o, stored, written)
  BY <1>2 DEF IInv, Good, FramesInOrder
<1>4. /\ e = written[o + 1] /\ o + 1 \in 1 .. lw
  BY <1>1, <1>2, <1>3, StretchTail
<1>5. \A i \in 1 .. o : written[i] \in stored
  BY <1>3 DEF Stretch
<1>6. /\ lq <= lw /\ \A i \in 1 .. lq : sink.queue[i] = written[(lw - lq) + i]
      /\ \A i \in 1 .. lw - lq : written[i] \in stored
  BY DEF IInv, Good, Queued, Done
<1> DEFINE i == (o + 1) - (lw - lq)
<1> HIDE DEF e, lw, lq
<1>7. /\ i \in 1 .. lq /\ (lw - lq) + i = o + 1
  <2>1. ~(o + 1 \in 1 .. lw - lq)
    BY <1>1, <1>4, <1>6
  <2>2. o \in Nat /\ o + 1 <= lw
    BY <1>2, <1>4
  <2> QED BY <1>2, <1>6, <2>1, <2>2
<1>8. \A j \in 1 .. i - 1 : sink.queue[j] \in stored
  <2> TAKE j \in 1 .. i - 1
  <2>1. j \in 1 .. lq /\ (lw - lq) + j \in 1 .. o
    BY <1>2, <1>6, <1>7
  <2> QED BY <2>1, <1>5, <1>6
<1>9. sink.queue[i] = e
  BY <1>4, <1>6, <1>7
<1>10. i \in DOMAIN sink.queue
  <2>1. DOMAIN sink.queue = 1 .. lq
    BY <1>2 DEF lq
  <2> QED BY <2>1, <1>7
<1> HIDE DEF i
<1> QED BY <1>1, <1>8, <1>9, <1>10 DEF Promise!Store, RefusesRejected

\* What the adapters take the sink for is what the sink does, whatever is lost
\* or replayed on the way: events leave the queue at its head and only once they
\* are durable, and become durable in the order they were written.
THEOREM Implementation == Spec => ImplementsAckedSink
<1>1. Init => Promise!Init
  BY DEF Init, Promise!Init
<1>2. IInv /\ [Next]_vars => [Promise!Next]_Promise!vars
  <2> SUFFICES ASSUME IInv, [Next]_vars PROVE [Promise!Next]_Promise!vars
    OBVIOUS
  <2> SUFFICES Promise!Next \/ UNCHANGED <<sink.queue, stored>>
    BY DEF Promise!vars
  <2>1. CASE \E e \in Events : Write(e)
    BY <2>1, WritePromised DEF Promise!Next
  <2>2. CASE Receives
    <3>1. PICK n : n \in 1 .. (IF wires = <<>> THEN 0 ELSE Len(wires[Current].answers)) /\ Receive(n)
      BY <2>2 DEF Receives
    <3>2. n \in 1 .. Len(wires[Current].answers)
      BY <3>1 DEF Receive
    <3> QED BY <3>1, <3>2, ReceivePromised DEF Promise!Next
  <2>3. CASE Handles
    BY <2>3, HandlePromised DEF Handles, Promise!Next
  <2>4. CASE \/ Close \/ Reconnect \/ ConnectFails \/ ConnectionLost \/ PeerClosed \/ WhenIdle
             \/ (\E n \in sink.waiters : WaitTimesOut(n)) \/ SocketClosed \/ ServerStops
    <3>1. sink \in SinkType
      BY DEF IInv, Good, Typed
    <3> QED BY <2>4, <3>1 DEF Close, Reconnect, ConnectFails, ConnectionLost, PeerClosed, WhenIdle,
                              WaitTimesOut, SocketClosed, ServerStops, SinkType
  <2>5. CASE Drain \/ Connected
    <3>1. sink \in SinkType
      BY DEF IInv, Good, Typed
    <3>2. PICK s, ws : /\ Flush(s, ws) /\ s \in SinkType /\ s.queue = sink.queue
                       /\ UNCHANGED stored
      <4>1. CASE Drain
        <5>1. /\ [sink EXCEPT !.writable = TRUE] \in SinkType
              /\ [sink EXCEPT !.writable = TRUE].queue = sink.queue
          BY <3>1 DEF SinkType
        <5> QED BY <4>1, <5>1 DEF Drain
      <4>2. CASE Connected
        <5>1. \A w \in BOOLEAN :
                 /\ [sink EXCEPT !.socket = "open", !.writable = w] \in SinkType
                 /\ [sink EXCEPT !.socket = "open", !.writable = w].queue = sink.queue
          BY <3>1 DEF SinkType
        <5> QED BY <4>2, <5>1 DEF Connected
      <4> QED BY <2>5, <4>1, <4>2
    <3> QED BY <3>2, FlushQueue
  <2>6. CASE UNCHANGED vars
    BY <2>6 DEF vars
  <2> QED BY <2>1, <2>2, <2>3, <2>4, <2>5, <2>6 DEF Next, Caller
<1> QED BY <1>1, <1>2, Invariant, PTL DEF Spec, ImplementsAckedSink, Promise!Spec

-----------------------------------------------------------------------------
(* The plugin in the Harness, DshObserver.                                 *)

\* What the operations of the chains hold.
Sendables == (UNION {RecordEvents(s) \cup Announcements(s) : s \in Sessions})
             \cup {RuntimeEvent(s, k, kind) : s \in Sessions, k \in Nat, kind \in Kinds}
Facts == [kind : Kinds \cup {"session", "event"}, s : Sessions, l : Nat]
Items == Sendables \cup (SUBSET Sessions) \cup Facts
OpNames == Kinds \cup {"fact", "announce", "announceAgent", "accept", "consider", "emit", "write",
                       "advance", "advanceTo", "adopt", "adopted", "status",
                       "list", "read", "agents", "open"}
Ops == [op : OpNames, s : Sessions, l : Nat, event : Seq(Items)]

Lines(s) == Start[s] .. Len(Log[s])
Recorded == UNION {RecordEvents(s) : s \in Sessions}
Given(W, s, l) == ToSet(EventsOf(s, l)) \subseteq W
Past(W, s, l) == Given(W, s, l) \/ \E u \in Start[s] .. l : Unmappable(s, u)

Plugs == [running : BOOLEAN, bootstrapping : BOOLEAN, pending : Seq(Facts), boot : Seq(Ops),
          work : Seq(Ops), facts : Seq(Facts), cursor : [Sessions -> Nat],
          announced : SUBSET Sessions, blocked : SUBSET Sessions, counter : Nat,
          lost : BOOLEAN, unread : BOOLEAN, overlap : BOOLEAN]
PluginTypeOK ==
    /\ ses \in [Sessions -> [n : Nat, saved : Nat, live : BOOLEAN, agent : BOOLEAN,
                             status : Statuses \cup {"none"}]]
    /\ plug \in Plugs
    /\ queue \in Seq(Sendables) /\ durable \subseteq Sendables

SessionOK(h, s) ==
    /\ h.saved <= h.n /\ h.n <= Len(Log[s])
    /\ h.n > 0 => h.saved >= Start[s] - 1
    /\ ~h.live => h.saved = h.n
    /\ h.live => h.n > 0
    /\ h.agent => h.live /\ h.status \in Statuses
SessionsOK == \A s \in Sessions : SessionOK(ses[s], s)

\* The facts and the operations that there can be; h is what is known of the
\* sessions.
FactOK(h, f) == /\ f.s \in Sessions /\ h[f.s].n > 0
                /\ f.kind = "event" => f.l \in Lines(f.s)
OpOK(h, o) ==
    /\ o.op \notin {"list", "agents", "open"} => h[o.s].n > 0
    /\ o.op \in {"accept", "consider", "emit"} => o.l \in Lines(o.s)
    /\ o.op \in {"advance", "advanceTo", "adopted", "adopt"} => o.l >= Start[o.s]
    /\ o.op = "write" =>
          /\ o.event # <<>>
          /\ o.event[1] \in Sendables
          /\ IF o.l = 0 THEN o.event[1] \notin Recorded
                        ELSE o.l \in Lines(o.s) /\ o.event = EventsOf(o.s, o.l)
    /\ o.op = "status" => h[o.s].status \in Statuses
    /\ o.op = "fact" => o.event # <<>> /\ o.event[1] \in Facts /\ FactOK(h, o.event[1])
    /\ o.op = "list" => o.event # <<>> /\ o.event[1] \in SUBSET Sessions
Chained(h, C) ==
    \A i \in DOMAIN C :
       /\ OpOK(h, C[i])
       /\ C[i].op = "write" /\ C[i].l > 0 => i < Len(C) /\ C[i + 1].op = "advance"

\* An operation on the way to the event of a record, and one in front of which
\* the events of the earlier records are given, or on the way before it.
Active(o) == \/ o.op \in {"consider", "emit"}
             \/ o.op = "write" /\ o.l > 0
Covers(o, s, l) == o.op \in {"accept", "consider", "emit", "write"} /\ o.s = s /\ o.l = l
Bounds == {"emit", "write", "advance", "advanceTo", "adopted", "adopt"}
Ordered(C, W, B) ==
    \A i \in DOMAIN C : C[i].op \in Bounds /\ C[i].s \notin B =>
       \A k \in Start[C[i].s] .. C[i].l - 1 :
          Given(W, C[i].s, k) \/ \E j \in 1 .. i - 1 : Covers(C[j], C[i].s, k)

\* A fact, or an operation that leads to the event of a record.
Pledges(h, o, s, l) ==
    \/ Covers(o, s, l)
    \/ o.op = "adopt" /\ o.s = s /\ o.l <= l
    \/ o.op = "fact" /\ o.event[1] = Fact("event", s, l)
    \/ o.op = "read" /\ o.s = s /\ l <= h[s].saved
    \/ o.op = "list" /\ s \notin o.event[1] /\ l <= h[s].saved
InChain(h, C, s, l) == \E i \in DOMAIN C : Pledges(h, C[i], s, l)
InFacts(F, s, l) == \E i \in DOMAIN F : F[i] = Fact("event", s, l)

-----------------------------------------------------------------------------
ChainsOK ==
    /\ Chained(ses, plug.boot) /\ Chained(ses, plug.work)
    /\ \A i \in DOMAIN plug.pending : FactOK(ses, plug.pending[i])
    /\ \A i \in DOMAIN plug.facts : FactOK(ses, plug.facts[i])
Endings == {"list", "read", "adopted"}
Rests == {"read", "agents", "open"}
EndsOK(C) ==
    \A i, j \in DOMAIN C : i < j => /\ C[i].op \in Endings => C[j].op \in Rests
                                    /\ C[i].op # "open"
\* A delivery neither adopts nor opens.
Plain(C) == \A i \in DOMAIN C : C[i].op \notin Endings \cup {"open"}
CursorOK(c, W, B) ==
    \A s \in Sessions : /\ c[s] >= Start[s]
                        /\ s \notin B => \A k \in Start[s] .. c[s] - 1 : Given(W, s, k)
InOrder == Ordered(plug.boot, Sent, plug.blocked) /\ Ordered(plug.work, Sent, plug.blocked)
Calm(C, s) == \A i \in DOMAIN C : ~(Active(C[i]) /\ C[i].s = s)
AllPast(W, s) == \A k \in Lines(s) : Past(W, s, k)
BlockedOK ==
    \A s \in plug.blocked :
       \/ AllPast(Sent, s)
       \/ Len(queue) >= QueueLimit
       \/ Calm(plug.boot, s) /\ Calm(plug.work, s)
SentInOrder ==
    \A s \in Sessions : \A l \in Lines(s) : \A e \in ToSet(EventsOf(s, l)) : \A k \in Start[s] .. l - 1 :
       /\ e \in durable => Past(durable, s, k)
       /\ \A i \in DOMAIN queue :
             queue[i] = e => Past(durable \cup {queue[j] : j \in 1 .. i - 1}, s, k)
Promised(s, l) ==
    \/ Given(Sent, s, l)
    \/ InChain(ses, plug.boot, s, l) \/ InChain(ses, plug.work, s, l)
    \/ InFacts(plug.facts, s, l) \/ InFacts(plug.pending, s, l)
AllPromised ==
    plug.running /\ ~plug.lost /\ ~plug.unread =>
       \A s \in Sessions \ plug.blocked : \A l \in Start[s] .. ses[s].n : Promised(s, l)

PInv == /\ PluginTypeOK /\ SessionsOK /\ ChainsOK
        /\ EndsOK(plug.boot) /\ EndsOK(plug.work) /\ Plain(plug.work)
        /\ (~plug.bootstrapping => plug.pending = <<>>)
        /\ CursorOK(plug.cursor, Sent, plug.blocked)
        /\ InOrder /\ BlockedOK /\ SentInOrder /\ AllPromised

-----------------------------------------------------------------------------
(* Operations and chains.                                                  *)

LEMMA DomLen == ASSUME NEW S, NEW C \in Seq(S) PROVE DOMAIN C = 1 .. Len(C) /\ Len(C) \in Nat
OBVIOUS

LEMMA Suffix ==
  ASSUME NEW S, NEW C \in Seq(S), NEW n \in 0 .. Len(C)
  PROVE  LET E == SubSeq(C, n + 1, Len(C))
         IN  /\ E \in Seq(S) /\ Len(E) = Len(C) - n /\ DOMAIN E = 1 .. Len(C) - n
             /\ DOMAIN C = 1 .. Len(C) /\ Len(C) \in Nat
             /\ \A i \in 1 .. Len(C) - n : E[i] = C[n + i] /\ n + i \in DOMAIN C
<1> DEFINE a == n + 1
           z == Len(C)
           E == SubSeq(C, a, z)
<1>1. n \in Nat /\ z \in Nat /\ n <= z /\ a = n + 1 /\ DOMAIN C = 1 .. z /\ \A i \in a .. z : C[i] \in S
  OBVIOUS
<1> HIDE DEF a, z
<1>2. a \in Int /\ z \in Int /\ z - a + 1 = z - n
  BY <1>1
<1>3. (a <= z \/ z - n = 0) /\ (a > z => z - n = 0)
  BY <1>1
<1>4. /\ E \in Seq(S) /\ Len(E) = IF a <= z THEN z - a + 1 ELSE 0
      /\ \A i \in 1 .. z - a + 1 : E[i] = C[a + i - 1]
  BY <1>1, <1>2, SubSeqProperties
<1> HIDE DEF E
<1>5. Len(E) = z - n
  BY <1>1, <1>2, <1>3, <1>4
<1>6. DOMAIN E = 1 .. z - n
  BY <1>4, <1>5, DomLen
<1>7. \A i \in 1 .. z - n : a + i - 1 = n + i /\ n + i \in 1 .. z
  BY <1>1
<1>8. \A i \in 1 .. z - n : E[i] = C[n + i] /\ n + i \in DOMAIN C
  BY <1>1, <1>2, <1>4, <1>7
<1> QED BY <1>1, <1>4, <1>5, <1>6, <1>8 DEF E, a, z

LEMMA Glued ==
  ASSUME NEW S, NEW C \in Seq(S), NEW x \in S
  PROVE  LET E == C \o <<x>>
         IN  /\ E \in Seq(S) /\ Len(E) = Len(C) + 1 /\ DOMAIN E = 1 .. Len(C) + 1 /\ E[Len(C) + 1] = x
             /\ Len(C) \in Nat /\ DOMAIN C = 1 .. Len(C) /\ \A i \in 1 .. Len(C) : E[i] = C[i]
OBVIOUS

\* What takes the place of the first operation.
LEMMA Splice ==
  ASSUME NEW S, NEW C \in Seq(S), C # <<>>, NEW D \in Seq(S)
  PROVE  LET E == D \o Tail(C)
         IN  /\ E \in Seq(S) /\ Len(E) = Len(D) + Len(C) - 1
             /\ \A i \in 1 .. Len(D) : E[i] = D[i]
             /\ \A i \in 2 .. Len(C) : E[Len(D) + i - 1] = C[i]
             /\ Head(C) = C[1] /\ Len(C) >= 1 /\ Head(C) \in S /\ Tail(C) \in Seq(S)
             /\ Len(Tail(C)) = Len(C) - 1 /\ \A i \in 1 .. Len(C) - 1 : Tail(C)[i] = C[i + 1]
<1>1. Len(C) \in Nat /\ Len(C) >= 1 /\ Len(D) \in Nat /\ Tail(C) \in Seq(S) /\ Len(Tail(C)) = Len(C) - 1
  OBVIOUS
<1>2. \A i \in 1 .. Len(C) - 1 : Tail(C)[i] = C[i + 1]
  BY <1>1
<1>3. D \o Tail(C) \in Seq(S) /\ Len(D \o Tail(C)) = Len(D) + Len(C) - 1
  BY <1>1
<1>4. \A i \in 1 .. Len(D) : (D \o Tail(C))[i] = D[i]
  BY <1>1
<1>5. ASSUME NEW i \in 2 .. Len(C) PROVE (D \o Tail(C))[Len(D) + i - 1] = C[i]
  BY <1>1, <1>2
<1> QED BY <1>1, <1>2, <1>3, <1>4, <1>5

LEMMA NewOp ==
  ASSUME NEW op \in OpNames, NEW s \in Sessions, NEW l \in Nat
  PROVE  /\ Op(op, s, l) \in Ops /\ Op(op, s, l).op = op /\ Op(op, s, l).s = s /\ Op(op, s, l).l = l
         /\ \A x \in Items : LET o == [Op(op, s, l) EXCEPT !.event = <<x>>]
                             IN  /\ o \in Ops /\ o.op = op /\ o.s = s /\ o.l = l
                                 /\ o.event = <<x>> /\ o.event # <<>> /\ o.event[1] = x
<1>1. Op(op, s, l) \in Ops
  BY DEF Op, Ops
<1>2. ASSUME NEW x \in Items
      PROVE  [Op(op, s, l) EXCEPT !.event = <<x>>] = [op |-> op, s |-> s, l |-> l, event |-> <<x>>]
  BY DEF Op
<1>3. ASSUME NEW x \in Items PROVE [op |-> op, s |-> s, l |-> l, event |-> <<x>>] \in Ops
  <2>1. <<x>> \in Seq(Items)
    OBVIOUS
  <2> QED BY <2>1 DEF Ops
<1>4. \A x : <<x>> # <<>> /\ <<x>>[1] = x
  OBVIOUS
<1>5. Op(op, s, l).op = op /\ Op(op, s, l).s = s /\ Op(op, s, l).l = l
  BY DEF Op
<1> HIDE DEF Ops, OpNames, Items
<1> QED BY <1>1, <1>2, <1>3, <1>4, <1>5

LEMMA NewWriteOp ==
  ASSUME NEW s \in Sessions, NEW l \in Nat, NEW e \in Sendables
  PROVE  LET w == WriteOp(s, l, e)
         IN  w \in Ops /\ w.op = "write" /\ w.s = s /\ w.l = l /\ w.event = <<e>>
<1>1. e \in Items /\ "write" \in OpNames
  BY DEF Items, OpNames
<1> QED BY <1>1, NewOp DEF WriteOp

LEMMA NewWrite ==
  ASSUME NEW s \in Sessions, NEW l \in Nat, NEW e \in Sendables
  PROVE  LET w == WriteOp(s, l, e)
         IN  /\ w \in Ops /\ w.op = "write" /\ w.s = s /\ w.l = l /\ w.event = <<e>> /\ w.event # <<>>
             /\ w.event[1] = e /\ Writes(s, l, <<e>>) = <<w>>
<1>2. LET w == WriteOp(s, l, e)
      IN  w \in Ops /\ w.op = "write" /\ w.s = s /\ w.l = l /\ w.event = <<e>>
  BY NewWriteOp
<1>3. Writes(s, l, <<e>>) = <<WriteOp(s, l, e)>>
  BY DEF Writes
<1>4. <<e>> # <<>> /\ <<e>>[1] = e
  OBVIOUS
<1> QED BY <1>2, <1>3, <1>4

LEMMA NewWrites ==
  ASSUME NEW s \in Sessions, NEW l \in Nat, NEW events \in Seq(Sendables)
  PROVE  /\ Writes(s, l, events) \in Seq(Ops) /\ Len(Writes(s, l, events)) = Len(events)
         /\ \A i \in 1 .. Len(events) :
               LET o == Writes(s, l, events)[i]
               IN  o.op = "write" /\ o.s = s /\ o.l = l /\ o.event = <<events[i]>>
<1>1. ASSUME NEW i \in 1 .. Len(events)
      PROVE  LET o == WriteOp(s, l, events[i])
             IN  o \in Ops /\ o.op = "write" /\ o.s = s /\ o.l = l /\ o.event = <<events[i]>>
  <2>1. events[i] \in Items /\ "write" \in OpNames
    BY DEF Items, OpNames
  <2> QED BY <2>1, NewOp DEF WriteOp
<1>2. Writes(s, l, events) = [i \in 1 .. Len(events) |-> WriteOp(s, l, events[i])] /\ Len(events) \in Nat
  BY DEF Writes
<1>3. Writes(s, l, events) \in Seq(Ops) /\ Len(Writes(s, l, events)) = Len(events)
  BY <1>1, <1>2
<1> QED BY <1>1, <1>2, <1>3

LEMMA InSplice ==
  ASSUME NEW C \in Seq(Ops), C # <<>>, NEW D \in Seq(Ops), NEW i \in DOMAIN (D \o Tail(C))
  PROVE  \/ i \in 1 .. Len(D) /\ (D \o Tail(C))[i] = D[i]
         \/ \E j \in 2 .. Len(C) : i = Len(D) + j - 1 /\ (D \o Tail(C))[i] = C[j]
<1>1. LET E == D \o Tail(C)
      IN  /\ E \in Seq(Ops) /\ Len(E) = Len(D) + Len(C) - 1
          /\ \A k \in 1 .. Len(D) : E[k] = D[k]
          /\ \A k \in 2 .. Len(C) : E[Len(D) + k - 1] = C[k]
  BY Splice
<1> DEFINE E == D \o Tail(C)
<1> HIDE DEF E
<1>2. i \in 1 .. Len(E) /\ Len(E) = Len(D) + Len(C) - 1 /\ Len(D) \in Nat /\ Len(C) \in Nat
  <2>1. E \in Seq(Ops) /\ i \in DOMAIN E
    BY <1>1 DEF E
  <2> QED BY <2>1, <1>1 DEF E
<1>3. CASE i \in 1 .. Len(D)
  BY <1>1, <1>3
<1>4. CASE i \notin 1 .. Len(D)
  <2>1. i - Len(D) + 1 \in 2 .. Len(C) /\ i = Len(D) + (i - Len(D) + 1) - 1
    BY <1>2, <1>4
  <2>2. (D \o Tail(C))[i] = C[i - Len(D) + 1]
    BY <1>1, <2>1
  <2> QED BY <2>1, <2>2
<1> QED BY <1>3, <1>4

LEMMA ChainedSplice ==
  ASSUME NEW C \in Seq(Ops), C # <<>>, NEW D \in Seq(Ops), NEW h, Chained(h, C), Chained(h, D)
  PROVE  Chained(h, D \o Tail(C))
<1> DEFINE E == D \o Tail(C)
<1>1. /\ E \in Seq(Ops) /\ Len(E) = Len(D) + Len(C) - 1 /\ Len(C) >= 1
      /\ \A k \in 1 .. Len(D) : E[k] = D[k]
      /\ \A k \in 2 .. Len(C) : E[Len(D) + k - 1] = C[k]
  BY Splice
<1>2. ASSUME NEW i \in DOMAIN E
      PROVE  OpOK(h, E[i]) /\ (E[i].op = "write" /\ E[i].l > 0 => i < Len(E) /\ E[i + 1].op = "advance")
  <2> HIDE DEF E
  <2>0. /\ DOMAIN D = 1 .. Len(D) /\ Len(D) \in Nat /\ DOMAIN C = 1 .. Len(C) /\ Len(C) \in Nat
    BY DomLen
  <2>1. CASE i \in 1 .. Len(D) /\ E[i] = D[i]
    <3>1. OpOK(h, E[i]) /\ (E[i].op = "write" /\ E[i].l > 0 => i < Len(D) /\ D[i + 1].op = "advance")
      BY <2>0, <2>1 DEF Chained
    <3>2. i < Len(D) => E[i + 1] = D[i + 1] /\ i < Len(E)
      BY <2>0, <2>1, <1>1
    <3> QED BY <3>1, <3>2
  <2>2. CASE \E j \in 2 .. Len(C) : i = Len(D) + j - 1 /\ E[i] = C[j]
    <3>1. PICK j \in 2 .. Len(C) : i = Len(D) + j - 1 /\ E[i] = C[j]
      BY <2>2
    <3>2. OpOK(h, E[i]) /\ (E[i].op = "write" /\ E[i].l > 0 => j < Len(C) /\ C[j + 1].op = "advance")
      BY <2>0, <3>1 DEF Chained
    <3>3. j < Len(C) => E[i + 1] = C[j + 1] /\ i < Len(E)
      <4>1. j < Len(C) => j + 1 \in 2 .. Len(C) /\ i + 1 = Len(D) + (j + 1) - 1 /\ i < Len(E)
        BY <2>0, <3>1, <1>1
      <4> QED BY <4>1, <1>1
    <3> QED BY <3>2, <3>3
  <2> QED BY <2>1, <2>2, InSplice DEF E
<1> HIDE DEF E
<1> QED BY <1>2 DEF Chained, E

LEMMA EndsSplice ==
  ASSUME NEW C \in Seq(Ops), C # <<>>, NEW D \in Seq(Ops), EndsOK(C), EndsOK(D),
         \A i \in DOMAIN D : D[i].op # "open" /\ (D[i].op \in Endings => C[1].op \in Endings)
  PROVE  EndsOK(D \o Tail(C))
<1> DEFINE E == D \o Tail(C)
<1>0. /\ DOMAIN D = 1 .. Len(D) /\ Len(D) \in Nat /\ DOMAIN C = 1 .. Len(C) /\ Len(C) \in Nat
  BY DomLen
<1>1. ASSUME NEW i \in DOMAIN E, NEW j \in DOMAIN E, i < j
      PROVE  (E[i].op \in Endings => E[j].op \in Rests) /\ E[i].op # "open"
  <2> HIDE DEF E
  <2>1. \/ i \in 1 .. Len(D) /\ E[i] = D[i]
        \/ \E m \in 2 .. Len(C) : i = Len(D) + m - 1 /\ E[i] = C[m]
    BY InSplice DEF E
  <2>2. \/ j \in 1 .. Len(D) /\ E[j] = D[j]
        \/ \E m \in 2 .. Len(C) : j = Len(D) + m - 1 /\ E[j] = C[m]
    BY InSplice DEF E
  <2>3. CASE i \in 1 .. Len(D) /\ E[i] = D[i]
    <3>1. CASE j \in 1 .. Len(D) /\ E[j] = D[j]
      BY <2>3, <3>1, <1>0, <1>1 DEF EndsOK
    <3>2. CASE \E m \in 2 .. Len(C) : j = Len(D) + m - 1 /\ E[j] = C[m]
      <4>1. PICK m \in 2 .. Len(C) : E[j] = C[m]
        BY <3>2
      <4>2. m \in DOMAIN C /\ 1 \in DOMAIN C /\ 1 < m
        BY <1>0
      <4>3. C[1].op \in Endings => C[m].op \in Rests
        BY <4>2 DEF EndsOK
      <4> QED BY <2>3, <4>1, <4>3, <1>0
    <3> QED BY <2>2, <3>1, <3>2
  <2>4. CASE \E m \in 2 .. Len(C) : i = Len(D) + m - 1 /\ E[i] = C[m]
    <3>1. PICK m \in 2 .. Len(C) : i = Len(D) + m - 1 /\ E[i] = C[m]
      BY <2>4
    <3>2. PICK q \in 2 .. Len(C) : j = Len(D) + q - 1 /\ E[j] = C[q]
      BY <2>2, <3>1, <1>0, <1>1
    <3>3. m < q /\ m \in DOMAIN C /\ q \in DOMAIN C
      BY <3>1, <3>2, <1>0, <1>1
    <3> QED BY <3>1, <3>2, <3>3 DEF EndsOK
  <2> QED BY <2>1, <2>3, <2>4
<1> HIDE DEF E
<1> QED BY <1>1 DEF EndsOK, E

LEMMA PlainSplice ==
  ASSUME NEW C \in Seq(Ops), C # <<>>, NEW D \in Seq(Ops), Plain(C), Plain(D)
  PROVE  Plain(D \o Tail(C))
<1> DEFINE E == D \o Tail(C)
<1>1. ASSUME NEW i \in DOMAIN E PROVE E[i].op \notin Endings \cup {"open"}
  <2> HIDE DEF E
  <2>1. \/ i \in 1 .. Len(D) /\ E[i] = D[i]
        \/ \E j \in 2 .. Len(C) : i = Len(D) + j - 1 /\ E[i] = C[j]
    BY InSplice DEF E
  <2> QED BY <2>1, DomLen DEF Plain
<1> HIDE DEF E
<1> QED BY <1>1 DEF Plain, E

LEMMA OrderedSplice ==
  ASSUME NEW C \in Seq(Ops), C # <<>>, NEW D \in Seq(Ops),
         NEW W, NEW W2, NEW B, NEW B2, W \subseteq W2, B \subseteq B2,
         Ordered(C, W, B), Ordered(D, W2, B2),
         \A s \in Sessions \ B2 : \A k \in Nat \ {0} : Covers(C[1], s, k) =>
             Given(W2, s, k) \/ \E j \in DOMAIN D : Covers(D[j], s, k)
  PROVE  Ordered(D \o Tail(C), W2, B2)
<1> DEFINE E == D \o Tail(C)
<1>0. /\ DOMAIN D = 1 .. Len(D) /\ Len(D) \in Nat /\ DOMAIN C = 1 .. Len(C) /\ Len(C) \in Nat
  BY DomLen
<1>1. /\ E \in Seq(Ops) /\ Len(E) = Len(D) + Len(C) - 1 /\ Len(C) >= 1
      /\ \A k \in 1 .. Len(D) : E[k] = D[k]
      /\ \A k \in 2 .. Len(C) : E[Len(D) + k - 1] = C[k]
  BY Splice
<1>2. ASSUME NEW i \in DOMAIN E, E[i].op \in Bounds, E[i].s \notin B2,
             NEW k \in Start[E[i].s] .. E[i].l - 1
      PROVE  Given(W2, E[i].s, k) \/ \E j \in 1 .. i - 1 : Covers(E[j], E[i].s, k)
  <2> HIDE DEF E
  <2>1. \/ i \in 1 .. Len(D) /\ E[i] = D[i]
        \/ \E m \in 2 .. Len(C) : i = Len(D) + m - 1 /\ E[i] = C[m]
    BY InSplice DEF E
  <2>2. CASE i \in 1 .. Len(D) /\ E[i] = D[i]
    <3>1. Given(W2, D[i].s, k) \/ \E j \in 1 .. i - 1 : Covers(D[j], D[i].s, k)
      BY <2>2, <1>0, <1>2 DEF Ordered
    <3>2. \A j \in 1 .. i - 1 : E[j] = D[j]
      BY <2>2, <1>0, <1>1
    <3> QED BY <2>2, <3>1, <3>2
  <2>3. CASE \E m \in 2 .. Len(C) : i = Len(D) + m - 1 /\ E[i] = C[m]
    <3>1. PICK m \in 2 .. Len(C) : i = Len(D) + m - 1 /\ E[i] = C[m]
      BY <2>3
    <3> DEFINE s == C[m].s
    <3>2. Given(W, s, k) \/ \E j \in 1 .. m - 1 : Covers(C[j], s, k)
      BY <3>1, <1>0, <1>2 DEF Ordered
    <3>3. Given(W, s, k) => Given(W2, s, k)
      BY DEF Given
    <3>4. ASSUME NEW j \in 1 .. m - 1, Covers(C[j], s, k)
          PROVE  Given(W2, s, k) \/ \E n \in 1 .. i - 1 : Covers(E[n], s, k)
      <4>1. s \in Sessions \ B2
        <5>1. C[m] \in Ops
          BY <3>1
        <5> QED BY <5>1, <1>2, <3>1 DEF Ops
      <4>2. CASE j = 1
        <5>0. k \in Nat \ {0}
          <6>1. C[m] \in Ops /\ E[i] = C[m]
            BY <3>1
          <6>2. Start[s] \in Nat /\ Start[s] >= 2 /\ C[m].l \in Nat
            BY <4>1, <6>1, DshAssumption DEF Ops
          <6> QED BY <6>1, <6>2, <1>2
        <5>1. Given(W2, s, k) \/ \E n \in DOMAIN D : Covers(D[n], s, k)
          BY <4>1, <4>2, <3>4, <5>0
        <5>2. \A n \in 1 .. Len(D) : n \in 1 .. i - 1 /\ E[n] = D[n]
          BY <3>1, <1>0, <1>1
        <5> QED BY <5>1, <5>2, <1>0
      <4>3. CASE j # 1
        <5>1. j \in 2 .. Len(C) /\ Len(D) + j - 1 \in 1 .. i - 1
          BY <3>1, <1>0, <4>3
        <5>2. E[Len(D) + j - 1] = C[j]
          BY <5>1, <1>1
        <5> QED BY <5>1, <5>2, <3>4
      <4> QED BY <4>2, <4>3
    <3> QED BY <3>1, <3>2, <3>3, <3>4
  <2> QED BY <2>1, <2>2, <2>3
<1> HIDE DEF E
<1> QED BY <1>2 DEF Ordered, E

LEMMA CalmSplice ==
  ASSUME NEW C \in Seq(Ops), C # <<>>, NEW D \in Seq(Ops), NEW s, Calm(C, s), Calm(D, s)
  PROVE  Calm(D \o Tail(C), s)
<1> DEFINE E == D \o Tail(C)
<1>1. ASSUME NEW i \in DOMAIN E PROVE ~(Active(E[i]) /\ E[i].s = s)
  <2> HIDE DEF E
  <2>1. \/ i \in 1 .. Len(D) /\ E[i] = D[i]
        \/ \E j \in 2 .. Len(C) : i = Len(D) + j - 1 /\ E[i] = C[j]
    BY InSplice DEF E
  <2> QED BY <2>1, DomLen DEF Calm
<1> HIDE DEF E
<1> QED BY <1>1 DEF Calm, E

LEMMA PledgeSplice ==
  ASSUME NEW C \in Seq(Ops), C # <<>>, NEW D \in Seq(Ops), NEW h, NEW s, NEW l, InChain(h, C, s, l),
         ~Pledges(h, C[1], s, l) \/ InChain(h, D, s, l)
  PROVE  InChain(h, D \o Tail(C), s, l)
<1> DEFINE E == D \o Tail(C)
<1>0. /\ DOMAIN D = 1 .. Len(D) /\ Len(D) \in Nat /\ DOMAIN C = 1 .. Len(C) /\ Len(C) \in Nat
  BY DomLen
<1>1. /\ E \in Seq(Ops) /\ Len(E) = Len(D) + Len(C) - 1 /\ Len(C) >= 1
      /\ \A k \in 1 .. Len(D) : E[k] = D[k]
      /\ \A k \in 2 .. Len(C) : E[Len(D) + k - 1] = C[k]
  BY Splice
<1> HIDE DEF E
<1>2. DOMAIN E = 1 .. Len(E)
  BY <1>1
<1>3. CASE InChain(h, D, s, l)
  <2>1. PICK i \in DOMAIN D : Pledges(h, D[i], s, l)
    BY <1>3 DEF InChain
  <2>2. i \in DOMAIN E /\ E[i] = D[i]
    BY <1>0, <1>1, <1>2
  <2> QED BY <2>1, <2>2 DEF InChain, E
<1>4. CASE ~Pledges(h, C[1], s, l)
  <2>1. PICK j \in DOMAIN C : Pledges(h, C[j], s, l)
    BY DEF InChain
  <2>2. j \in 2 .. Len(C)
    BY <2>1, <1>0, <1>4
  <2>3. Len(D) + j - 1 \in DOMAIN E /\ E[Len(D) + j - 1] = C[j]
    BY <1>0, <1>1, <1>2, <2>2
  <2> QED BY <2>1, <2>3 DEF InChain, E
<1> QED BY <1>3, <1>4

\* A list of lists in one: its elements are theirs, and each of theirs is in it.
LEMMA Flattened ==
  ASSUME NEW S, NEW lists \in Seq(Seq(S))
  PROVE  /\ FlattenSeq(lists) \in Seq(S)
         /\ \A j \in DOMAIN lists : \A e \in ToSet(lists[j]) : \E i \in DOMAIN FlattenSeq(lists) :
               FlattenSeq(lists)[i] = e
<1> DEFINE n == Len(lists)
           Is(f, k) == f = [i \in 1 .. k |-> IF i = 1 THEN lists[i] ELSE f[i - 1] \o lists[i]]
           T == {k \in 0 .. n : \E f : Is(f, k)}
           flat == CHOOSE f : Is(f, n)
           Holds(a, k) == /\ a \in Seq(S)
                          /\ \A j \in 1 .. k : \A e \in ToSet(lists[j]) : \E i \in DOMAIN a : a[i] = e
<1>1. n \in Nat /\ \A i \in 1 .. n : lists[i] \in Seq(S)
  OBVIOUS
<1>2. CASE n = 0
  <2>1. FlattenSeq(lists) = lists /\ lists = <<>>
    BY <1>2 DEF FlattenSeq
  <2> QED BY <2>1
<1>3. CASE n > 0
  <2>1. Is([i \in 1 .. 0 |-> 0], 0)
    OBVIOUS
  <2>2. ASSUME NEW k \in 1 .. n, k - 1 \in T PROVE k \in T
    <3>1. PICK f : Is(f, k - 1)
      BY <2>2
    <3> DEFINE h == [i \in 1 .. k |-> IF i < k THEN f[i] ELSE IF k = 1 THEN lists[k] ELSE f[k - 1] \o lists[k]]
    <3>2. ASSUME NEW i \in 1 .. k PROVE h[i] = IF i = 1 THEN lists[i] ELSE h[i - 1] \o lists[i]
      <4>1. CASE i < k
        <5>1. i \in 1 .. k - 1 /\ (i # 1 => i - 1 \in 1 .. k /\ i - 1 < k)
          BY <4>1
        <5>2. f[i] = IF i = 1 THEN lists[i] ELSE f[i - 1] \o lists[i]
          BY <3>1, <5>1
        <5> QED BY <4>1, <5>1, <5>2
      <4>2. CASE i = k
        <5>1. i # 1 => i - 1 \in 1 .. k /\ i - 1 < k
          BY <4>2
        <5> QED BY <4>2, <5>1
      <4> QED BY <4>1, <4>2
    <3>3. Is(h, k)
      BY <3>2
    <3> HIDE DEF h, Is
    <3> QED BY <2>2, <3>3
  <2>3. 0 \in T
    <3> HIDE DEF Is
    <3> QED BY <1>1, <2>1
  <2>4. n \in T
    <3> HIDE DEF T, n
    <3>1. \A i \in 0 .. n : i \in T
      BY <1>1, <2>2, <2>3, UpTo
    <3> QED BY <1>1, <3>1
  <2>5. Is(flat, n)
    <3> HIDE DEF Is
    <3> QED BY <2>4
  <2>6. FlattenSeq(lists) = flat[n]
    BY <1>3 DEF FlattenSeq
  <2> HIDE DEF flat
  <2> DEFINE G == {k \in 0 .. n : k = 0 \/ Holds(flat[k], k)}
  <2>7. ASSUME NEW k \in 1 .. n, k - 1 \in G PROVE k \in G
    <3>1. flat[k] = IF k = 1 THEN lists[k] ELSE flat[k - 1] \o lists[k]
      BY <2>5
    <3>2. CASE k = 1
      <4>1. flat[k] = lists[1] /\ lists[1] \in Seq(S)
        BY <1>1, <3>1, <3>2
      <4>2. \A e \in ToSet(lists[1]) : \E i \in DOMAIN lists[1] : lists[1][i] = e
        BY DEF ToSet
      <4> QED BY <3>2, <4>1, <4>2
    <3>3. CASE k # 1
      <4>1. Holds(flat[k - 1], k - 1) /\ lists[k] \in Seq(S)
        BY <1>1, <2>7, <3>3
      <4> DEFINE a == flat[k - 1]
                 b == lists[k]
      <4>2. flat[k] = a \o b
        BY <3>1, <3>3, Zenon
      <4>3. /\ a \in Seq(S) /\ b \in Seq(S) /\ a \o b \in Seq(S)
            /\ Len(a \o b) = Len(a) + Len(b) /\ Len(a) \in Nat /\ Len(b) \in Nat
            /\ DOMAIN a = 1 .. Len(a) /\ DOMAIN b = 1 .. Len(b) /\ DOMAIN (a \o b) = 1 .. Len(a) + Len(b)
            /\ \A i \in 1 .. Len(a) : (a \o b)[i] = a[i]
            /\ \A i \in 1 .. Len(b) : (a \o b)[Len(a) + i] = b[i]
        <5>1. a \in Seq(S) /\ b \in Seq(S)
          BY <4>1
        <5> HIDE DEF a, b
        <5> QED BY <5>1
      <4>4. \A j \in 1 .. k - 1 : \A e \in ToSet(lists[j]) : \E i \in DOMAIN a : a[i] = e
        BY <4>1
      <4>5. \A e \in ToSet(lists[k]) : \E i \in DOMAIN b : b[i] = e
        BY DEF ToSet
      <4> HIDE DEF a, b
      <4>6. ASSUME NEW j \in 1 .. k, NEW e \in ToSet(lists[j])
            PROVE  \E i \in DOMAIN (a \o b) : (a \o b)[i] = e
        <5>1. CASE j = k
          <6>1. PICK i \in DOMAIN b : b[i] = e
            BY <4>5, <5>1
          <6>2. Len(a) + i \in DOMAIN (a \o b) /\ (a \o b)[Len(a) + i] = e
            BY <4>3, <6>1
          <6> QED BY <6>2
        <5>2. CASE j # k
          <6>1. j \in 1 .. k - 1
            BY <5>2
          <6>2. PICK i \in DOMAIN a : a[i] = e
            BY <4>4, <6>1
          <6>3. i \in DOMAIN (a \o b) /\ (a \o b)[i] = e
            BY <4>3, <6>2
          <6> QED BY <6>3
        <5> QED BY <5>1, <5>2
      <4>7. Holds(flat[k], k)
        BY <4>2, <4>3, <4>6
      <4> QED BY <4>7
    <3> QED BY <3>2, <3>3
  <2>8. n \in G
    <3>1. 0 \in G
      BY <1>1
    <3> HIDE DEF G, n
    <3>2. \A i \in 0 .. n : i \in G
      BY <1>1, <2>7, <3>1, UpTo
    <3> QED BY <1>1, <3>2
  <2>9. Holds(flat[n], n)
    BY <1>3, <2>8
  <2>10. DOMAIN lists = 1 .. n
    OBVIOUS
  <2> HIDE DEF n
  <2> QED BY <2>6, <2>9, <2>10
<1> QED BY <1>1, <1>2, <1>3

-----------------------------------------------------------------------------
(* What an operation does to the chain it heads.                           *)

\* An operation at the head of its chain: everything in front of it is given.
Ready(o) == /\ o \in Ops /\ OpOK(ses, o)
            /\ o.op \in Bounds /\ o.s \notin plug.blocked =>
                  \A k \in Start[o.s] .. o.l - 1 : Given(Sent, o.s, k)

\* The operations D may take the place of o, and p that of the observer: they
\* lead to what o led to, and nothing is done early.
Takes(o, D, p) ==
    /\ D \in Seq(Ops) /\ Chained(ses, D) /\ Ordered(D, Sent, p.blocked)
    /\ \A i \in DOMAIN D : D[i].op \notin Endings \cup {"open"}
    /\ \A s \in Sessions \ p.blocked : \A k :
          /\ Covers(o, s, k) => Given(Sent, s, k) \/ \E j \in DOMAIN D : Covers(D[j], s, k)
          /\ k \in Start[s] .. ses[s].n /\ Pledges(ses, o, s, k) => Given(Sent, s, k) \/ InChain(ses, D, s, k)
    /\ plug.blocked \subseteq p.blocked /\ p.blocked \subseteq Sessions
    /\ \A s \in p.blocked : \/ AllPast(Sent, s)
                            \/ s \in plug.blocked /\ (Calm(D, s) \/ (Active(o) /\ o.s = s))
    /\ p.cursor \in [Sessions -> Nat] /\ CursorOK(p.cursor, Sent, p.blocked)
    /\ p.announced \subseteq Sessions /\ p.counter \in Nat
    /\ p = [plug EXCEPT !.announced = p.announced, !.blocked = p.blocked, !.cursor = p.cursor,
                        !.counter = p.counter]

\* Operations that neither come after others nor lead to an event.
LEMMA Light ==
  ASSUME NEW h, NEW D \in Seq(Ops), \A i \in DOMAIN D : OpOK(h, D[i]) /\ (D[i].op \in Bounds => D[i].l = 0)
  PROVE  /\ Chained(h, D)
         /\ \A W, B : Ordered(D, W, B)
<1>1. ASSUME NEW i \in DOMAIN D
      PROVE  /\ ~(D[i].op = "write" /\ D[i].l > 0)
             /\ \A k \in Start[D[i].s] .. D[i].l - 1 : D[i].op \notin Bounds
  <2>1. D[i] \in Ops
    OBVIOUS
  <2>2. D[i].s \in Sessions /\ D[i].l \in Nat
    BY <2>1 DEF Ops
  <2>3. Start[D[i].s] \in Nat /\ Start[D[i].s] >= 2
    BY <2>2, DshAssumption
  <2>4. D[i].op \in Bounds => D[i].l = 0
    OBVIOUS
  <2>5. "write" \in Bounds
    BY DEF Bounds
  <2>6. D[i].l = 0 => \A k \in Start[D[i].s] .. D[i].l - 1 : FALSE
    BY <2>2, <2>3
  <2> QED BY <2>4, <2>5, <2>6, <2>2
<1> QED BY <1>1 DEF Chained, Ordered

LEMMA Announcing ==
  ASSUME NEW s \in Sessions, ses[s].n > 0, NEW n \in 1 .. Len(Log[s]), NEW a \in BOOLEAN
  PROVE  LET D == Writes(s, 0, Announced(s, n, a))
         IN  /\ D \in Seq(Ops)
             /\ \A i \in DOMAIN D : D[i].op = "write" /\ D[i].l = 0 /\ D[i].s = s /\ OpOK(ses, D[i])
<1> DEFINE events == Announced(s, n, a)
           D == Writes(s, 0, events)
<1>1. events \in Seq(Announcements(s)) /\ n \in DOMAIN Log[s]
  BY DshAssumption, EventsAssumption
<1>2. Announcements(s) \subseteq Sendables /\ \A e \in Announcements(s) : e \notin Recorded
  <2>1. \A t \in Sessions : RecordEvents(t) \cap Announcements(s) = {}
    BY EventsAssumption
  <2>2. \A e \in Announcements(s) : e \in RecordEvents(s) \cup Announcements(s)
    OBVIOUS
  <2>3. Announcements(s) \subseteq Sendables
    <3> DEFINE all == {RecordEvents(t) \cup Announcements(t) : t \in Sessions}
    <3>1. RecordEvents(s) \cup Announcements(s) \in all
      OBVIOUS
    <3>2. UNION all \subseteq Sendables
      BY DEF Sendables
    <3> HIDE DEF all
    <3> QED BY <2>2, <3>1, <3>2
  <2>4. ASSUME NEW e \in Announcements(s) PROVE e \notin Recorded
    <3>1. \A t \in Sessions : e \notin RecordEvents(t)
      BY <2>1
    <3> QED BY <3>1 DEF Recorded
  <2> QED BY <2>3, <2>4
<1> HIDE DEF events
<1>3. events \in Seq(Sendables) /\ \A i \in 1 .. Len(events) : events[i] \in Sendables /\ events[i] \notin Recorded
  BY <1>1, <1>2
<1>4. /\ D \in Seq(Ops) /\ Len(D) = Len(events)
      /\ \A i \in 1 .. Len(events) : D[i].op = "write" /\ D[i].s = s /\ D[i].l = 0 /\ D[i].event = <<events[i]>>
  BY <1>3, NewWrites
<1> HIDE DEF D
<1>5. ASSUME NEW i \in DOMAIN D PROVE OpOK(ses, D[i])
  <2>1. D[i].op = "write" /\ D[i].s = s /\ D[i].l = 0 /\ D[i].event = <<events[i]>> /\ i \in 1 .. Len(events)
    BY <1>4
  <2> QED BY <2>1, <1>3 DEF OpOK
<1>6. DOMAIN D = 1 .. Len(events)
  BY <1>4
<1> QED BY <1>4, <1>5, <1>6 DEF D, events

LEMMA SessionFacts ==
  ASSUME PluginTypeOK, SessionsOK, NEW s \in Sessions
  PROVE  /\ ses[s].n \in Nat /\ ses[s].saved \in Nat /\ ses[s].n <= Len(Log[s]) /\ ses[s].saved <= ses[s].n
         /\ Start[s] \in Nat /\ Start[s] >= 2 /\ Start[s] <= Len(Log[s]) + 1 /\ Len(Log[s]) \in Nat
         /\ ses[s].n > 0 => ses[s].saved >= Start[s] - 1
         /\ ses[s].n > 0 => ses[s].n \in 1 .. Len(Log[s])
         /\ plug.cursor[s] \in Nat /\ plug.counter \in Nat /\ plug.blocked \subseteq Sessions
         /\ plug.announced \subseteq Sessions /\ plug.cursor \in [Sessions -> Nat]
<1>1. plug.cursor \in [Sessions -> Nat] /\ plug.counter \in Nat /\ plug.blocked \subseteq Sessions
      /\ plug.announced \subseteq Sessions
  BY DEF PluginTypeOK, Plugs
<1>2. ses[s].n \in Nat /\ ses[s].saved \in Nat
  BY DEF PluginTypeOK
<1>3. Start[s] \in Nat /\ Start[s] >= 2 /\ Start[s] <= Len(Log[s]) + 1 /\ Len(Log[s]) \in Nat
  BY DshAssumption
<1> QED BY <1>1, <1>2, <1>3 DEF SessionsOK, SessionOK

\* Of two facts or operations of this kind each leads to nothing, and nothing is blocked.
LEMMA TakesLight ==
  ASSUME PluginTypeOK, SessionsOK, CursorOK(plug.cursor, Sent, plug.blocked),
         NEW o, NEW D \in Seq(Ops), NEW A \in SUBSET Sessions, NEW c \in Nat,
         \A i \in DOMAIN D : /\ OpOK(ses, D[i]) /\ (D[i].op \in Bounds => D[i].l = 0)
                             /\ ~Active(D[i]) /\ D[i].op \notin Endings \cup {"open"},
         \A s \in Sessions \ plug.blocked : \A k :
            /\ Covers(o, s, k) => Given(Sent, s, k) \/ \E j \in DOMAIN D : Covers(D[j], s, k)
            /\ k \in Start[s] .. ses[s].n /\ Pledges(ses, o, s, k) => Given(Sent, s, k) \/ InChain(ses, D, s, k)
  PROVE  Takes(o, D, [plug EXCEPT !.announced = A, !.counter = c])
<1> DEFINE p == [plug EXCEPT !.announced = A, !.counter = c]
<1>1. Chained(ses, D) /\ Ordered(D, Sent, plug.blocked)
  BY Light
<1>2. \A s : Calm(D, s)
  BY DEF Calm
<1>3. /\ plug.blocked \subseteq Sessions /\ plug.cursor \in [Sessions -> Nat]
      /\ p.announced = A /\ p.counter = c /\ p.blocked = plug.blocked /\ p.cursor = plug.cursor
  BY DEF PluginTypeOK, Plugs
<1>4. p = [plug EXCEPT !.announced = A, !.blocked = plug.blocked, !.cursor = plug.cursor, !.counter = c]
  BY DEF PluginTypeOK, Plugs
<1>5. p = [plug EXCEPT !.announced = p.announced, !.blocked = p.blocked, !.cursor = p.cursor,
                       !.counter = p.counter]
  <2> HIDE DEF p
  <2> QED BY <1>3, <1>4
<1> HIDE DEF p
<1>6. Takes(o, D, p)
  <2>1. \A i \in DOMAIN D : D[i].op \notin Endings \cup {"open"}
    OBVIOUS
  <2>2. \A s \in p.blocked : \/ AllPast(Sent, s)
                             \/ s \in plug.blocked /\ (Calm(D, s) \/ (Active(o) /\ o.s = s))
    BY <1>2, <1>3
  <2>3. p.cursor \in [Sessions -> Nat] /\ CursorOK(p.cursor, Sent, p.blocked)
    BY <1>3
  <2> QED BY <1>1, <1>3, <1>5, <2>1, <2>2, <2>3 DEF Takes
<1> QED BY <1>6 DEF p

LEMMA Same ==
  ASSUME PluginTypeOK
  PROVE  /\ plug = [plug EXCEPT !.announced = plug.announced, !.counter = plug.counter]
         /\ plug.counter \in Nat /\ plug.announced \in SUBSET Sessions
         /\ \A A : [plug EXCEPT !.announced = A] = [plug EXCEPT !.announced = A, !.counter = plug.counter]
         /\ \A c : [plug EXCEPT !.counter = c] = [plug EXCEPT !.announced = plug.announced, !.counter = c]
BY DEF PluginTypeOK, Plugs

LEMMA NoOps == <<>> \in Seq(Ops) /\ DOMAIN <<>> = {}
OBVIOUS

LEMMA IdleWrite ==
  ASSUME NEW o, o.op = "write", o.l = 0
  PROVE  ~Active(o) /\ o.op \notin Endings \cup {"open"}
BY DEF Active, Endings

LEMMA TakesAnnounce ==
  ASSUME PluginTypeOK, SessionsOK, CursorOK(plug.cursor, Sent, plug.blocked), NEW o, Ready(o),
         o.op \in {"announce", "announceAgent"}
  PROVE  Takes(o, Does(plug, o), Changes(plug, o))
<1> DEFINE s == o.s
           a == o.op = "announceAgent"
           D == Does(plug, o)
<1>1. s \in Sessions /\ ses[s].n > 0 /\ a \in BOOLEAN
  BY DEF Ready, Ops, OpOK
<1>2. ses[s].n \in 1 .. Len(Log[s])
  BY <1>1, SessionFacts
<1>3. D = IF s \in plug.announced THEN <<>> ELSE Writes(s, 0, Announced(s, ses[s].n, a))
  BY DEF Does, Announces, Kinds, Statuses
<1>4. Changes(plug, o) = [plug EXCEPT !.announced = plug.announced \cup {s}, !.counter = plug.counter]
  <2>1. Changes(plug, o) = [plug EXCEPT !.announced = plug.announced \cup {s}]
    BY DEF Changes, Kinds, Statuses
  <2> QED BY <2>1, Same
<1>5. D \in Seq(Ops) /\ \A i \in DOMAIN D : D[i].op = "write" /\ D[i].l = 0 /\ D[i].s = s /\ OpOK(ses, D[i])
  <2> HIDE DEF D, a
  <2>1. CASE s \in plug.announced
    BY <1>3, <2>1, NoOps
  <2>2. CASE s \notin plug.announced
    <3> DEFINE E == Writes(s, 0, Announced(s, ses[s].n, a))
    <3>1. E \in Seq(Ops) /\ \A i \in DOMAIN E : E[i].op = "write" /\ E[i].l = 0 /\ E[i].s = s /\ OpOK(ses, E[i])
      <4> DEFINE n == ses[s].n
      <4>1. n \in 1 .. Len(Log[s]) /\ s \in Sessions /\ ses[s].n > 0 /\ a \in BOOLEAN
        BY <1>1, <1>2
      <4> HIDE DEF n, s, a
      <4>2. LET F == Writes(s, 0, Announced(s, n, a))
            IN  /\ F \in Seq(Ops)
                /\ \A i \in DOMAIN F : F[i].op = "write" /\ F[i].l = 0 /\ F[i].s = s /\ OpOK(ses, F[i])
        BY <4>1, Announcing
      <4> QED BY <4>2 DEF n
    <3>2. D = E
      BY <1>3, <2>2
    <3> HIDE DEF E
    <3> QED BY <3>1, <3>2
  <2> QED BY <2>1, <2>2
<1>6. \A k, t : ~Covers(o, t, k) /\ ~Pledges(ses, o, t, k)
  BY DEF Covers, Pledges
<1>7. plug.announced \cup {s} \in SUBSET Sessions /\ plug.counter \in Nat
  BY <1>1, Same
<1>8. \A i \in DOMAIN D : ~Active(D[i]) /\ D[i].op \notin Endings \cup {"open"}
  <2> TAKE i \in DOMAIN D
  <2> DEFINE d == D[i]
  <2>1. d.op = "write" /\ d.l = 0
    BY <1>5
  <2> HIDE DEF d, D
  <2>2. ~Active(d) /\ d.op \notin Endings \cup {"open"}
    BY <2>1, IdleWrite
  <2> QED BY <2>2 DEF d
<1> HIDE DEF D
<1>9. Takes(o, D, [plug EXCEPT !.announced = plug.announced \cup {s}, !.counter = plug.counter])
  BY <1>5, <1>6, <1>7, <1>8, TakesLight
<1> QED BY <1>4, <1>9 DEF D

LEMMA OneOp ==
  ASSUME NEW o \in Ops
  PROVE  <<o>> \in Seq(Ops) /\ DOMAIN <<o>> = {1} /\ <<o>>[1] = o /\ Len(<<o>>) = 1
OBVIOUS

LEMMA Single ==
  ASSUME NEW C \in Seq(Ops), Len(C) = 1
  PROVE  C = <<C[1]>> /\ C[1] \in Ops
OBVIOUS

LEMMA Pair ==
  ASSUME NEW o \in Ops, NEW o2 \in Ops
  PROVE  <<o>> \o <<o2>> = <<o, o2>>
<1> DEFINE a == <<o>>
           b == <<o2>>
           c == <<o, o2>>
<1>1. a \in Seq(Ops) /\ b \in Seq(Ops) /\ Len(a) = 1 /\ Len(b) = 1 /\ a[1] = o /\ b[1] = o2
  OBVIOUS
<1>2. c \in Seq(Ops) /\ Len(c) = 2 /\ c[1] = o /\ c[2] = o2
  OBVIOUS
<1> HIDE DEF a, b, c
<1>3. a \o b \in Seq(Ops) /\ Len(a \o b) = 2 /\ (a \o b)[1] = o /\ (a \o b)[2] = o2
  <2>1. /\ a \o b \in Seq(Ops) /\ Len(a \o b) = Len(a) + Len(b)
        /\ \A i \in 1 .. Len(a) + Len(b) : (a \o b)[i] = IF i <= Len(a) THEN a[i] ELSE b[i - Len(a)]
    BY <1>1, ConcatProperties
  <2>2. 1 \in 1 .. Len(a) + Len(b) /\ 2 \in 1 .. Len(a) + Len(b) /\ 2 - Len(a) = 1 /\ Len(a) = 1
    BY <1>1
  <2> QED BY <1>1, <2>1, <2>2
<1>4. \A i \in 1 .. 2 : (a \o b)[i] = c[i]
  BY <1>2, <1>3
<1>5. a \o b = c
  BY <1>2, <1>3, <1>4
<1> QED BY <1>5 DEF a, b, c

LEMMA TwoOps ==
  ASSUME NEW o \in Ops, NEW o2 \in Ops
  PROVE  /\ <<o, o2>> \in Seq(Ops) /\ DOMAIN <<o, o2>> = {1, 2} /\ <<o, o2>>[1] = o /\ <<o, o2>>[2] = o2
         /\ Len(<<o, o2>>) = 2
OBVIOUS

LEMMA TakesAccept ==
  ASSUME PluginTypeOK, SessionsOK, CursorOK(plug.cursor, Sent, plug.blocked), BlockedOK, NEW o, Ready(o),
         o.op = "accept"
  PROVE  Takes(o, Does(plug, o), Changes(plug, o))
<1> DEFINE D == Does(plug, o)
           a == Op("announce", o.s, 0)
           b == Op("consider", o.s, o.l)
<1>1. o.s \in Sessions /\ ses[o.s].n > 0 /\ o.l \in Nat /\ o.l \in Lines(o.s)
  BY DEF Ready, Ops, OpOK
<1>2. Changes(plug, o) = plug
  BY DEF Changes, Kinds, Statuses
<1>3. D = IF o.s \in plug.blocked THEN <<>> ELSE <<a, b>>
  BY DEF Does, Kinds, Statuses
<1>4. CASE o.s \in plug.blocked
  <2>1. D = <<>>
    BY <1>3, <1>4
  <2>2. \A s \in Sessions \ plug.blocked : \A k : ~Covers(o, s, k) /\ ~Pledges(ses, o, s, k)
    BY <1>4 DEF Covers, Pledges
  <2>3. Takes(o, <<>>, [plug EXCEPT !.announced = plug.announced, !.counter = plug.counter])
    BY <2>2, NoOps, Same, TakesLight
  <2> QED BY <1>2, <2>1, <2>3, Same
<1>5. CASE o.s \notin plug.blocked
  <2>1. D = <<a, b>>
    BY <1>3, <1>5
  <2>2. /\ a \in Ops /\ a.op = "announce" /\ a.s = o.s /\ a.l = 0
        /\ b \in Ops /\ b.op = "consider" /\ b.s = o.s /\ b.l = o.l
    <3>1. "announce" \in OpNames /\ "consider" \in OpNames
      BY DEF OpNames
    <3> QED BY <1>1, <3>1, NewOp
  <2>3. OpOK(ses, a) /\ OpOK(ses, b)
    BY <1>1, <2>2 DEF OpOK
  <2> HIDE DEF a, b, D
  <2>4. /\ D \in Seq(Ops) /\ DOMAIN D = {1, 2} /\ D[1] = a /\ D[2] = b /\ Len(D) = 2
    BY <2>1, <2>2, TwoOps
  <2>5. Chained(ses, D)
    BY <2>2, <2>3, <2>4 DEF Chained
  <2>6. Ordered(D, Sent, plug.blocked)
    BY <2>2, <2>4 DEF Ordered, Bounds
  <2>7. \A i \in DOMAIN D : D[i].op \notin Endings \cup {"open"}
    BY <2>2, <2>4 DEF Endings
  <2>8. \A s, k : Covers(o, s, k) => \E j \in DOMAIN D : Covers(D[j], s, k)
    BY <2>2, <2>4 DEF Covers
  <2>9. \A s, k : Pledges(ses, o, s, k) => InChain(ses, D, s, k)
    <3>1. \A s, k : Pledges(ses, o, s, k) => Covers(o, s, k)
      BY DEF Pledges
    <3> QED BY <2>8, <3>1 DEF Pledges, InChain
  <2>10. \A s \in plug.blocked : Calm(D, s)
    BY <1>5, <2>2, <2>4 DEF Calm
  <2>11. /\ plug.blocked \subseteq Sessions /\ plug.cursor \in [Sessions -> Nat] /\ plug.announced \subseteq Sessions
         /\ plug.counter \in Nat
         /\ plug = [plug EXCEPT !.announced = plug.announced, !.blocked = plug.blocked,
                                !.cursor = plug.cursor, !.counter = plug.counter]
    BY DEF PluginTypeOK, Plugs
  <2>12. Takes(o, D, plug)
    BY <2>4, <2>5, <2>6, <2>7, <2>8, <2>9, <2>10, <2>11 DEF Takes
  <2> QED BY <1>2, <2>12 DEF D
<1> QED BY <1>4, <1>5

\* The records from first to last are accepted before the next operation.
LEMMA AcceptsFrom ==
  ASSUME PluginTypeOK, SessionsOK, NEW s \in Sessions, ses[s].n > 0, NEW first \in Nat, NEW last \in Nat,
         first >= Start[s], first <= last + 1, last <= Len(Log[s])
  PROVE  LET D == AcceptAll(s, first, last)
         IN  /\ D \in Seq(Ops) /\ Len(D) = last + 1 - first
             /\ \A i \in DOMAIN D : /\ D[i].op = "accept" /\ D[i].s = s /\ D[i].l = first + i - 1
                                    /\ OpOK(ses, D[i])
<1> DEFINE n == last + 1 - first
<1>0. n \in Nat /\ first + n = last + 1
  OBVIOUS
<1> HIDE DEF n
<1>1. ASSUME NEW i \in 1 .. n
      PROVE  LET o == Op("accept", s, first + i - 1)
             IN  o \in Ops /\ o.op = "accept" /\ o.s = s /\ o.l = first + i - 1 /\ OpOK(ses, o)
  <2> DEFINE l == first + i - 1
             o == Op("accept", s, l)
  <2>1. l \in Nat /\ l \in Lines(s) /\ "accept" \in OpNames
    BY <1>0, SessionFacts DEF Lines, OpNames
  <2> HIDE DEF l
  <2>2. o \in Ops /\ o.op = "accept" /\ o.s = s /\ o.l = l
    BY <2>1, NewOp
  <2> HIDE DEF o
  <2>3. OpOK(ses, o)
    BY <2>1, <2>2 DEF OpOK
  <2> QED BY <2>2, <2>3 DEF l, o
<1> DEFINE D == [i \in 1 .. n |-> Op("accept", s, first + i - 1)]
<1>2. D \in Seq(Ops) /\ Len(D) = n /\ DOMAIN D = 1 .. n /\ \A i \in 1 .. n : D[i] = Op("accept", s, first + i - 1)
  <2>1. \A i \in 1 .. n : Op("accept", s, first + i - 1) \in Ops
    BY <1>1
  <2> QED BY <1>0, <2>1
<1>3. AcceptAll(s, first, last) = D
  BY DEF AcceptAll, n
<1> HIDE DEF D
<1>4. \A i \in 1 .. n : /\ D[i].op = "accept" /\ D[i].s = s /\ D[i].l = first + i - 1
                        /\ OpOK(ses, D[i])
  BY <1>1, <1>2
<1> QED BY <1>2, <1>3, <1>4 DEF n

\* Records that are accepted and then an operation for which they had to be:
\* it has all of them in front of it.
LEMMA AcceptsThen ==
  ASSUME PluginTypeOK, SessionsOK, NEW s \in Sessions, ses[s].n > 0, NEW first \in Nat, NEW last \in Nat,
         first >= Start[s], first <= last + 1, last <= Len(Log[s]),
         s \notin plug.blocked => \A k \in Start[s] .. first - 1 : Given(Sent, s, k),
         NEW o \in Ops, OpOK(ses, o), o.s = s, o.l = last + 1, o.op # "write"
  PROVE  LET D == AcceptAll(s, first, last) \o <<o>>
         IN  /\ D \in Seq(Ops) /\ Len(D) = last + 2 - first /\ D[Len(D)] = o
             /\ \A i \in 1 .. Len(D) - 1 : D[i].op = "accept" /\ D[i].s = s
             /\ Chained(ses, D) /\ Ordered(D, Sent, plug.blocked)
             /\ \A k \in first .. last : \E j \in DOMAIN D : Covers(D[j], s, k)
<1> DEFINE n == last + 1 - first
           A == AcceptAll(s, first, last)
           D == A \o <<o>>
<1>0. n \in Nat /\ first + n = last + 1 /\ last + 2 - first = n + 1
  OBVIOUS
<1>1. /\ A \in Seq(Ops) /\ Len(A) = n
      /\ \A i \in DOMAIN A : /\ A[i].op = "accept" /\ A[i].s = s /\ A[i].l = first + i - 1
                             /\ OpOK(ses, A[i])
  BY AcceptsFrom
<1> HIDE DEF A, n
<1>2. /\ D \in Seq(Ops) /\ Len(D) = n + 1 /\ D[n + 1] = o /\ DOMAIN D = 1 .. n + 1
      /\ \A i \in 1 .. n : D[i] = A[i] /\ i \in DOMAIN A
  <2>1. /\ D \in Seq(Ops) /\ Len(D) = Len(A) + 1 /\ D[Len(A) + 1] = o /\ DOMAIN D = 1 .. Len(A) + 1
        /\ DOMAIN A = 1 .. Len(A) /\ \A i \in 1 .. Len(A) : D[i] = A[i]
    BY <1>1, Glued
  <2> HIDE DEF D
  <2> QED BY <1>1, <2>1
<1> HIDE DEF D
<1>3. \A i \in 1 .. n : /\ D[i].op = "accept" /\ D[i].s = s /\ D[i].l = first + i - 1
                        /\ OpOK(ses, D[i])
  BY <1>1, <1>2
<1>4. Chained(ses, D)
  BY <1>0, <1>2, <1>3 DEF Chained
<1>5. ASSUME NEW k \in first .. last PROVE \E j \in 1 .. n : Covers(D[j], s, k)
  <2>1. k - first + 1 \in 1 .. n /\ first + (k - first + 1) - 1 = k
    BY <1>0
  <2>2. Covers(D[k - first + 1], s, k)
    BY <1>3, <2>1 DEF Covers
  <2> QED BY <2>1, <2>2
<1>6. Ordered(D, Sent, plug.blocked)
  <2>1. ASSUME NEW i \in DOMAIN D, D[i].op \in Bounds, D[i].s \notin plug.blocked, NEW k \in Start[D[i].s] .. D[i].l - 1
        PROVE  Given(Sent, D[i].s, k) \/ \E j \in 1 .. i - 1 : Covers(D[j], D[i].s, k)
    <3>1. i = n + 1
      <4>1. \A m \in 1 .. n : D[m].op \notin Bounds
        BY <1>3 DEF Bounds
      <4>2. i \in 1 .. n + 1
        BY <1>2, <2>1
      <4> QED BY <1>0, <4>1, <4>2, <2>1
    <3>2. D[i].s = s /\ D[i].l = last + 1 /\ k \in Start[s] .. last /\ s \notin plug.blocked /\ Start[s] \in Nat
      BY <1>2, <2>1, <3>1, SessionFacts
    <3>3. CASE k \in Start[s] .. first - 1
      BY <3>2, <3>3
    <3>4. CASE k \in first .. last
      BY <1>0, <3>1, <3>2, <3>4, <1>5
    <3> QED BY <3>2, <3>3, <3>4
  <2> QED BY <2>1 DEF Ordered
<1>7. \A k \in first .. last : \E j \in DOMAIN D : Covers(D[j], s, k)
  <2>1. 1 .. n \subseteq DOMAIN D
    BY <1>2, <1>0
  <2> QED BY <1>5, <2>1
<1>8. Len(D) = last + 2 - first /\ D[Len(D)] = o /\ \A i \in 1 .. Len(D) - 1 : D[i].op = "accept" /\ D[i].s = s
  <2>1. Len(D) - 1 = n
    BY <1>0, <1>2
  <2> QED BY <1>0, <1>2, <1>3, <2>1
<1> QED BY <1>2, <1>4, <1>6, <1>7, <1>8 DEF D, A

LEMMA TakesConsider ==
  ASSUME PluginTypeOK, SessionsOK, CursorOK(plug.cursor, Sent, plug.blocked), BlockedOK, NEW o, Ready(o),
         o.op = "consider"
  PROVE  Takes(o, Does(plug, o), Changes(plug, o))
<1> DEFINE s == o.s
           c == plug.cursor[s]
           D == Does(plug, o)
           last == o.l - 1
<1>1. s \in Sessions /\ ses[s].n > 0 /\ o.l \in Nat /\ o.l \in Lines(s)
  BY DEF Ready, Ops, OpOK
<1>2. Changes(plug, o) = plug
  BY DEF Changes, Kinds, Statuses
<1>3. D = IF o.l < c THEN <<>>
          ELSE AcceptAll(s, c, last) \o <<Op("emit", s, o.l)>>
  BY DEF Does, Considers, Kinds, Statuses
<1>4. c \in Nat /\ c >= Start[s] /\ (s \notin plug.blocked => \A k \in Start[s] .. c - 1 : Given(Sent, s, k))
  BY <1>1, SessionFacts DEF CursorOK
<1>5. CASE o.l < c
  <2>1. D = <<>>
    BY <1>3, <1>5
  <2>2. \A t \in Sessions \ plug.blocked : \A k : Covers(o, t, k) \/ Pledges(ses, o, t, k) => Given(Sent, t, k)
    <3>1. \A t, k : Covers(o, t, k) \/ Pledges(ses, o, t, k) => t = s /\ k = o.l
      BY DEF Covers, Pledges
    <3>2. s \notin plug.blocked => Given(Sent, s, o.l)
      BY <1>1, <1>4, <1>5 DEF Lines
    <3> QED BY <3>1, <3>2
  <2>3. Takes(o, <<>>, [plug EXCEPT !.announced = plug.announced, !.counter = plug.counter])
    BY <2>2, NoOps, Same, TakesLight
  <2> QED BY <1>2, <2>1, <2>3, Same
<1>6. CASE ~(o.l < c)
  <2>1. D = AcceptAll(s, c, last) \o <<Op("emit", s, o.l)>>
    BY <1>3, <1>6
  <2>2. last \in Nat /\ o.l = last + 1 /\ c <= last + 1 /\ last <= Len(Log[s])
    BY <1>1, <1>4, <1>6, SessionFacts DEF Lines
  <2> DEFINE e == Op("emit", s, o.l)
  <2>3. e \in Ops /\ e.op = "emit" /\ e.s = s /\ e.l = o.l
    <3>1. "emit" \in OpNames
      BY DEF OpNames
    <3> QED BY <1>1, <3>1, NewOp
  <2> HIDE DEF e
  <2>4. OpOK(ses, e)
    BY <1>1, <2>3 DEF OpOK
  <2> HIDE DEF c, last, s
  <2>5. LET E == AcceptAll(s, c, last) \o <<e>>
        IN  /\ E \in Seq(Ops) /\ Len(E) = last + 2 - c /\ E[Len(E)] = e
            /\ \A i \in 1 .. Len(E) - 1 : E[i].op = "accept" /\ E[i].s = s
            /\ Chained(ses, E) /\ Ordered(E, Sent, plug.blocked)
            /\ \A k \in c .. last : \E j \in DOMAIN E : Covers(E[j], s, k)
    <3>1. c >= Start[s] /\ c <= last + 1 /\ c \in Nat /\ last \in Nat /\ s \in Sessions /\ ses[s].n > 0
      BY <1>1, <1>4, <2>2
    <3>2. s \notin plug.blocked => \A k \in Start[s] .. c - 1 : Given(Sent, s, k)
      BY <1>4
    <3>3. e \in Ops /\ OpOK(ses, e) /\ e.s = s /\ e.l = last + 1 /\ e.op # "write"
      BY <2>2, <2>3, <2>4
    <3> QED BY <3>1, <3>2, <3>3, <2>2, AcceptsThen
  <2>6. /\ D \in Seq(Ops) /\ Len(D) >= 1 /\ D[Len(D)] = e
        /\ \A i \in 1 .. Len(D) - 1 : D[i].op = "accept" /\ D[i].s = s
        /\ Chained(ses, D) /\ Ordered(D, Sent, plug.blocked)
    BY <1>4, <2>1, <2>2, <2>5 DEF e
  <2> HIDE DEF D
  <2>7. DOMAIN D = 1 .. Len(D) /\ Len(D) \in Nat /\ Len(D) \in DOMAIN D
    BY <2>6
  <2>8. \A t, k : Covers(o, t, k) \/ Pledges(ses, o, t, k) => \E j \in DOMAIN D : Covers(D[j], t, k)
    <3>1. \A t, k : Covers(o, t, k) \/ Pledges(ses, o, t, k) => t = s /\ k = o.l
      BY DEF Covers, Pledges, s
    <3>2. Covers(D[Len(D)], s, o.l)
      BY <2>2, <2>3, <2>6, <2>7 DEF Covers
    <3> QED BY <2>7, <3>1, <3>2
  <2>9. \A i \in DOMAIN D : D[i].op \notin Endings \cup {"open"} /\ D[i].s = s
    BY <2>2, <2>3, <2>6, <2>7 DEF Endings
  <2>10. \A t : t # s => Calm(D, t)
    BY <2>9 DEF Calm
  <2>11. Active(o) /\ o.s = s
    BY DEF Active, s
  <2>12. \A t, k : Pledges(ses, o, t, k) => InChain(ses, D, t, k)
    BY <2>8 DEF InChain, Pledges
  <2>13. /\ plug.blocked \subseteq Sessions /\ plug.cursor \in [Sessions -> Nat] /\ plug.announced \subseteq Sessions
         /\ plug.counter \in Nat
         /\ plug = [plug EXCEPT !.announced = plug.announced, !.blocked = plug.blocked,
                                !.cursor = plug.cursor, !.counter = plug.counter]
    BY DEF PluginTypeOK, Plugs
  <2>14. Takes(o, D, plug)
    BY <2>6, <2>8, <2>9, <2>10, <2>11, <2>12, <2>13 DEF Takes
  <2> QED BY <1>2, <2>14 DEF D
<1> QED BY <1>5, <1>6

LEMMA PlugType ==
  ASSUME PluginTypeOK
  PROVE  /\ plug.blocked \subseteq Sessions /\ plug.cursor \in [Sessions -> Nat] /\ plug.announced \subseteq Sessions
         /\ plug.counter \in Nat
         /\ plug = [plug EXCEPT !.announced = plug.announced, !.blocked = plug.blocked,
                                !.cursor = plug.cursor, !.counter = plug.counter]
         /\ \A B : LET p == [plug EXCEPT !.blocked = B]
                   IN  /\ p.blocked = B /\ p.announced = plug.announced /\ p.cursor = plug.cursor
                       /\ p.counter = plug.counter
                       /\ p = [plug EXCEPT !.announced = plug.announced, !.blocked = B,
                                           !.cursor = plug.cursor, !.counter = plug.counter]
         /\ \A c : LET p == [plug EXCEPT !.cursor = c]
                   IN  /\ p.blocked = plug.blocked /\ p.announced = plug.announced /\ p.cursor = c
                       /\ p.counter = plug.counter
                       /\ p = [plug EXCEPT !.announced = plug.announced, !.blocked = plug.blocked,
                                           !.cursor = c, !.counter = plug.counter]
BY DEF PluginTypeOK, Plugs

LEMMA EventsOfRecord ==
  ASSUME NEW s \in Sessions, NEW l \in Lines(s)
  PROVE  /\ l \in Nat /\ l >= 2 /\ l <= Len(Log[s]) /\ Start[s] \in Nat /\ Len(Log[s]) \in Nat
         /\ \/ EventsOf(s, l) = <<>> /\ ToSet(EventsOf(s, l)) = {}
            \/ \E e \in Sendables \cap Recorded : EventsOf(s, l) = <<e>> /\ ToSet(EventsOf(s, l)) = {e}
<1>1. l \in 2 .. Len(Log[s]) /\ Start[s] \in Nat /\ Len(Log[s]) \in Nat
  BY DshAssumption DEF Lines
<1>2. EventsOf(s, l) \in {<<>>} \cup {<<e>> : e \in RecordEvents(s)}
  BY <1>1, EventsAssumption
<1>3. RecordEvents(s) \subseteq Sendables \cap Recorded
  <2> DEFINE all == {RecordEvents(t) \cup Announcements(t) : t \in Sessions}
  <2>1. RecordEvents(s) \cup Announcements(s) \in all
    OBVIOUS
  <2>2. UNION all \subseteq Sendables
    BY DEF Sendables
  <2>3. RecordEvents(s) \subseteq Sendables
    <3> HIDE DEF all
    <3> QED BY <2>1, <2>2
  <2> QED BY <2>3 DEF Recorded
<1>4. \A e : ToSet(<<e>>) = {e}
  BY DEF ToSet
<1>5. ToSet(<<>>) = {}
  BY DEF ToSet
<1> QED BY <1>1, <1>2, <1>3, <1>4, <1>5

LEMMA TakesEmit ==
  ASSUME PluginTypeOK, SessionsOK, CursorOK(plug.cursor, Sent, plug.blocked), BlockedOK, NEW o, Ready(o),
         o.op = "emit"
  PROVE  Takes(o, Does(plug, o), Changes(plug, o))
<1> DEFINE s == o.s
           l == o.l
           D == Does(plug, o)
<1>1. s \in Sessions /\ ses[s].n > 0 /\ l \in Nat /\ l \in Lines(s) /\ Start[s] \in Nat
  BY DshAssumption DEF Ready, Ops, OpOK
<1>2. s \notin plug.blocked => \A k \in Start[s] .. l - 1 : Given(Sent, s, k)
  BY DEF Ready, Bounds
<1>3. \A t, k : Covers(o, t, k) \/ Pledges(ses, o, t, k) => t = s /\ k = l
  BY DEF Covers, Pledges
<1>4. Active(o)
  BY DEF Active
<1>5. CASE Unmappable(s, l)
  <2> DEFINE B == plug.blocked \cup {s}
             p == [plug EXCEPT !.blocked = B]
  <2>1. D = <<>>
    BY <1>5 DEF Does, Kinds, Statuses
  <2>2. Changes(plug, o) = p
    BY <1>5 DEF Changes, Kinds, Statuses
  <2>3. /\ p.blocked = B /\ p.announced = plug.announced /\ p.cursor = plug.cursor /\ p.counter = plug.counter
        /\ p = [plug EXCEPT !.announced = p.announced, !.blocked = p.blocked,
                            !.cursor = p.cursor, !.counter = p.counter]
    BY PlugType
  <2>4. s \notin plug.blocked => AllPast(Sent, s)
    <3>1. SUFFICES ASSUME s \notin plug.blocked, NEW k \in Lines(s) PROVE Past(Sent, s, k)
      BY DEF AllPast
    <3>2. CASE k \in Start[s] .. l - 1
      BY <1>2, <3>1, <3>2 DEF Past
    <3>3. CASE k \notin Start[s] .. l - 1
      <4>1. l \in Start[s] .. k
        BY <1>1, <3>3 DEF Lines
      <4> QED BY <1>5, <4>1 DEF Past
    <3> QED BY <3>2, <3>3
  <2>5. \A t \in B : AllPast(Sent, t) \/ (t \in plug.blocked /\ Calm(<<>>, t))
    BY <2>4, NoOps DEF Calm
  <2>6. CursorOK(plug.cursor, Sent, B)
    BY DEF CursorOK
  <2>7. \A C \in {<<>>} : Chained(ses, C) /\ Ordered(C, Sent, B)
    BY NoOps DEF Chained, Ordered
  <2>8. \A t \in Sessions \ B : \A k : ~Covers(o, t, k) /\ ~Pledges(ses, o, t, k)
    BY <1>3
  <2> HIDE DEF p, B, s, l, D
  <2>9. plug.blocked \subseteq B /\ B \subseteq Sessions
    BY <1>1, PlugType DEF B
  <2>10. Takes(o, <<>>, p)
    BY <2>3, <2>5, <2>6, <2>7, <2>8, <2>9, NoOps, PlugType DEF Takes
  <2> QED BY <2>1, <2>2, <2>10 DEF D
<1>6. CASE ~Unmappable(s, l)
  <2> DEFINE a == Op("advance", s, l + 1)
             V == Writes(s, l, EventsOf(s, l))
  <2>1. D = V \o <<a>>
    BY <1>6 DEF Does, Kinds, Statuses
  <2>2. Changes(plug, o) = plug
    BY <1>6 DEF Changes, Kinds, Statuses
  <2>3. a \in Ops /\ a.op = "advance" /\ a.s = s /\ a.l = l + 1 /\ OpOK(ses, a)
    <3>1. a \in Ops /\ a.op = "advance" /\ a.s = s /\ a.l = l + 1
      <4>1. "advance" \in OpNames
        BY DEF OpNames
      <4> QED BY <1>1, <4>1, NewOp
    <3> HIDE DEF a
    <3> QED BY <1>1, <3>1 DEF OpOK, Lines
  <2>4. \/ V = <<>> /\ Given(Sent, s, l)
        \/ \E w \in Ops : V = <<w>> /\ w.op = "write" /\ w.s = s /\ w.l = l /\ OpOK(ses, w)
    <3>1. CASE EventsOf(s, l) = <<>> /\ ToSet(EventsOf(s, l)) = {}
      <4>1. V = <<>>
        BY <3>1 DEF Writes
      <4> QED BY <3>1, <4>1 DEF Given
    <3>2. CASE \E e \in Sendables \cap Recorded : EventsOf(s, l) = <<e>> /\ ToSet(EventsOf(s, l)) = {e}
      <4>1. PICK e \in Sendables \cap Recorded : EventsOf(s, l) = <<e>>
        BY <3>2
      <4> DEFINE w == WriteOp(s, l, e)
      <4>2. /\ w \in Ops /\ w.op = "write" /\ w.s = s /\ w.l = l /\ w.event = <<e>> /\ w.event # <<>>
            /\ w.event[1] = e /\ Writes(s, l, <<e>>) = <<w>>
        BY <1>1, <4>1, NewWrite
      <4>3. V = <<w>>
        BY <4>1, <4>2
      <4> HIDE DEF w, V
      <4>4. OpOK(ses, w)
        <5>1. w.event = EventsOf(s, l) /\ w.event[1] \in Sendables /\ l # 0
          BY <1>1, <4>1, <4>2, EventsOfRecord
        <5> QED BY <1>1, <4>2, <5>1 DEF OpOK
      <4> QED BY <4>2, <4>3, <4>4
    <3> QED BY <1>1, <3>1, <3>2, EventsOfRecord
  <2> HIDE DEF V, a, D
  <2>5. /\ D \in Seq(Ops) /\ Chained(ses, D) /\ Ordered(D, Sent, plug.blocked)
        /\ \A i \in DOMAIN D : D[i].op \notin Endings \cup {"open"} /\ D[i].s = s
        /\ s \notin plug.blocked => Given(Sent, s, l) \/ \E j \in DOMAIN D : Covers(D[j], s, l)
    <3>1. CASE V = <<>> /\ Given(Sent, s, l)
      <4>1. D = <<a>> /\ D \in Seq(Ops) /\ DOMAIN D = {1} /\ D[1] = a /\ Len(D) = 1
        BY <2>1, <2>3, <3>1, OneOp
      <4>2. Chained(ses, D)
        BY <2>3, <4>1 DEF Chained
      <4>3. Ordered(D, Sent, plug.blocked)
        <5>1. s \notin plug.blocked => \A k \in Start[s] .. l : Given(Sent, s, k)
          BY <1>1, <1>2, <3>1
        <5> QED BY <1>1, <2>3, <4>1, <5>1 DEF Ordered
      <4> QED BY <2>3, <3>1, <4>1, <4>2, <4>3 DEF Endings
    <3>2. CASE \E w \in Ops : V = <<w>> /\ w.op = "write" /\ w.s = s /\ w.l = l /\ OpOK(ses, w)
      <4>1. PICK w \in Ops : V = <<w>> /\ w.op = "write" /\ w.s = s /\ w.l = l /\ OpOK(ses, w)
        BY <3>2
      <4>2. D = <<w, a>> /\ D \in Seq(Ops) /\ DOMAIN D = {1, 2} /\ D[1] = w /\ D[2] = a /\ Len(D) = 2
        <5>1. <<w>> \o <<a>> = <<w, a>>
          BY <2>3, Pair
        <5> QED BY <2>1, <2>3, <4>1, <5>1, TwoOps
      <4>3. Chained(ses, D)
        BY <2>3, <4>1, <4>2 DEF Chained
      <4>4. Covers(D[1], s, l)
        BY <4>1, <4>2 DEF Covers
      <4>5. Ordered(D, Sent, plug.blocked)
        <5>1. ASSUME s \notin plug.blocked, NEW k \in Start[s] .. l
              PROVE  Given(Sent, s, k) \/ (k = l /\ Covers(D[1], s, k))
          BY <1>1, <1>2, <5>1, <4>4
        <5>2. ASSUME NEW i \in DOMAIN D, D[i].s \notin plug.blocked, NEW k \in Start[D[i].s] .. D[i].l - 1
              PROVE  Given(Sent, D[i].s, k) \/ \E j \in 1 .. i - 1 : Covers(D[j], D[i].s, k)
          <6>1. D[i].s = s /\ s \notin plug.blocked
            BY <5>2, <2>3, <4>1, <4>2
          <6>2. CASE i = 1
            BY <1>2, <4>1, <4>2, <5>2, <6>1, <6>2
          <6>3. CASE i = 2
            <7>1. k \in Start[s] .. l
              BY <1>1, <2>3, <4>2, <5>2, <6>1, <6>3
            <7> QED BY <5>1, <6>1, <6>3, <7>1
          <6> QED BY <4>2, <6>2, <6>3
        <5> QED BY <5>2 DEF Ordered
      <4> QED BY <2>3, <4>1, <4>2, <4>3, <4>4, <4>5 DEF Endings
    <3> QED BY <2>4, <3>1, <3>2
  <2>6. \A t : t # s => Calm(D, t)
    BY <2>5 DEF Calm
  <2>7. \A t \in Sessions \ plug.blocked : \A k :
          /\ Covers(o, t, k) => Given(Sent, t, k) \/ \E j \in DOMAIN D : Covers(D[j], t, k)
          /\ Pledges(ses, o, t, k) => Given(Sent, t, k) \/ InChain(ses, D, t, k)
    BY <1>3, <2>5 DEF InChain, Pledges
  <2>8. Takes(o, D, plug)
    BY <1>4, <2>5, <2>6, <2>7, PlugType DEF Takes
  <2> QED BY <2>2, <2>8 DEF D
<1> QED BY <1>5, <1>6

LEMMA RuntimeNotRecorded ==
  ASSUME NEW s \in Sessions, NEW k \in Nat, NEW kind \in Kinds
  PROVE  RuntimeEvent(s, k, kind) \in Sendables \ Recorded
<1>1. RuntimeEvent(s, k, kind) \in Sendables
  BY DEF Sendables
<1>2. RuntimeEvent(s, k, kind).body.type = kind
  BY DEF RuntimeEvent
<1>3. \A t \in Sessions : \A e \in RecordEvents(t) : e.body.type \notin Kinds
  BY EventsAssumption
<1> QED BY <1>1, <1>2, <1>3 DEF Recorded

LEMMA TakesStatus ==
  ASSUME PluginTypeOK, SessionsOK, CursorOK(plug.cursor, Sent, plug.blocked), NEW o, Ready(o),
         o.op \in Kinds \cup {"status"}
  PROVE  Takes(o, Does(plug, o), Changes(plug, o))
<1> DEFINE kind == IF o.op = "status" THEN ses[o.s].status ELSE o.op
           k == plug.counter + 1
           w == WriteOp(o.s, 0, RuntimeEvent(o.s, k, kind))
           D == Does(plug, o)
<1>1. o.s \in Sessions /\ ses[o.s].n > 0 /\ kind \in Kinds /\ k \in Nat
  <2>1. k \in Nat
    BY DEF PluginTypeOK, Plugs
  <2>2. o.s \in Sessions /\ ses[o.s].n > 0 /\ (o.op = "status" => ses[o.s].status \in Statuses)
    BY DEF Ready, Ops, OpOK, Kinds, Statuses
  <2>3. kind \in Kinds
    BY <2>2 DEF Kinds, Statuses
  <2> QED BY <2>1, <2>2, <2>3
<1>2. D = <<w>>
  BY DEF Does, Kinds, Statuses
<1>3. Changes(plug, o) = [plug EXCEPT !.announced = plug.announced, !.counter = k]
  <2>1. Changes(plug, o) = [plug EXCEPT !.counter = k]
    BY DEF Changes, Kinds, Statuses
  <2> QED BY <2>1, Same
<1> HIDE DEF kind, k, D
<1>4. RuntimeEvent(o.s, k, kind) \in Sendables \ Recorded
  BY <1>1, RuntimeNotRecorded
<1>5. /\ w \in Ops /\ w.op = "write" /\ w.s = o.s /\ w.l = 0 /\ w.event # <<>>
      /\ w.event[1] = RuntimeEvent(o.s, k, kind)
  <2> DEFINE e == RuntimeEvent(o.s, k, kind)
  <2>1. e \in Sendables /\ o.s \in Sessions /\ 0 \in Nat
    BY <1>1, <1>4
  <2> HIDE DEF e
  <2>2. WriteOp(o.s, 0, e) \in Ops /\ WriteOp(o.s, 0, e).op = "write" /\ WriteOp(o.s, 0, e).s = o.s
        /\ WriteOp(o.s, 0, e).l = 0 /\ WriteOp(o.s, 0, e).event = <<e>>
    BY <2>1, NewWriteOp
  <2>3. <<e>> # <<>> /\ <<e>>[1] = e
    OBVIOUS
  <2> QED BY <2>2, <2>3 DEF e
<1> HIDE DEF w
<1>6. OpOK(ses, w) /\ ~Active(w) /\ w.op \notin Endings \cup {"open"}
  BY <1>1, <1>4, <1>5, IdleWrite DEF OpOK
<1>7. D \in Seq(Ops) /\ DOMAIN D = {1} /\ D[1] = w
  BY <1>2, <1>5, OneOp
<1>8. \A t, m : ~Covers(o, t, m) /\ ~Pledges(ses, o, t, m)
  BY DEF Covers, Pledges, Kinds, Statuses
<1>9. Takes(o, D, [plug EXCEPT !.announced = plug.announced, !.counter = k])
  <2>1. \A i \in DOMAIN D : /\ OpOK(ses, D[i]) /\ (D[i].op \in Bounds => D[i].l = 0)
                            /\ ~Active(D[i]) /\ D[i].op \notin Endings \cup {"open"}
    BY <1>5, <1>6, <1>7
  <2>2. plug.announced \in SUBSET Sessions /\ k \in Nat
    BY <1>1, Same
  <2> QED BY <1>7, <1>8, <2>1, <2>2, TakesLight
<1> QED BY <1>3, <1>9 DEF D

LEMMA MaxOfTwo == ASSUME NEW a \in Nat, NEW b \in Nat PROVE Max({a, b}) = IF a >= b THEN a ELSE b
BY DEF Max

\* An operation that does nothing but move the cursor.
LEMMA TakesMove ==
  ASSUME PluginTypeOK, SessionsOK, CursorOK(plug.cursor, Sent, plug.blocked), NEW o, Ready(o),
         o.op \in {"advance", "advanceTo", "adopted"}
  PROVE  Takes(o, Does(plug, o), Changes(plug, o))
<1> DEFINE s == o.s
           to == IF o.op = "advanceTo" THEN Max({plug.cursor[s], o.l}) ELSE o.l
           c == [plug.cursor EXCEPT ![s] = to]
           p == [plug EXCEPT !.cursor = c]
<1>1. s \in Sessions /\ o.l \in Nat /\ o.l >= Start[s] /\ Start[s] \in Nat /\ plug.cursor[s] \in Nat
  BY DshAssumption, SessionFacts DEF Ready, Ops, OpOK
<1>2. Does(plug, o) = <<>>
  BY DEF Does, Kinds, Statuses
<1>3. Changes(plug, o) = p
  BY PlugType DEF Changes, Kinds, Statuses, PluginTypeOK, Plugs
<1>4. to \in Nat /\ to \in {plug.cursor[s], o.l}
  BY <1>1, MaxOfTwo
<1>5. s \notin plug.blocked => \A k \in Start[s] .. o.l - 1 : Given(Sent, s, k)
  BY DEF Ready, Bounds
<1>6. /\ p.blocked = plug.blocked /\ p.announced = plug.announced /\ p.cursor = c /\ p.counter = plug.counter
      /\ p = [plug EXCEPT !.announced = p.announced, !.blocked = p.blocked,
                          !.cursor = p.cursor, !.counter = p.counter]
  <2> HIDE DEF c
  <2> QED BY PlugType
<1>7. c \in [Sessions -> Nat] /\ c[s] = to /\ \A t \in Sessions : t # s => c[t] = plug.cursor[t]
  BY <1>1, <1>4, PlugType
<1>8. CursorOK(c, Sent, plug.blocked)
  <2> HIDE DEF to, c, p, s
  <2> SUFFICES ASSUME NEW t \in Sessions
               PROVE  c[t] >= Start[t] /\ (t \notin plug.blocked => \A k \in Start[t] .. c[t] - 1 : Given(Sent, t, k))
    BY DEF CursorOK
  <2>1. CASE t = s
    <3>1. plug.cursor[s] >= Start[s] /\ (s \notin plug.blocked => \A k \in Start[s] .. plug.cursor[s] - 1 : Given(Sent, s, k))
      BY <1>1 DEF CursorOK
    <3>2. CASE to = o.l
      BY <1>1, <1>5, <1>7, <2>1, <3>2
    <3>3. CASE to = plug.cursor[s]
      BY <1>7, <2>1, <3>1, <3>3
    <3> QED BY <1>4, <3>2, <3>3
  <2>2. CASE t # s
    BY <1>7, <2>2 DEF CursorOK
  <2> QED BY <2>1, <2>2
<1>9. \A t, k : ~Covers(o, t, k) /\ ~Pledges(ses, o, t, k)
  BY DEF Covers, Pledges
<1>10. \A C \in {<<>>} : Chained(ses, C) /\ Ordered(C, Sent, plug.blocked) /\ \A t : Calm(C, t)
  BY NoOps DEF Chained, Ordered, Calm
<1> HIDE DEF p, c, to, s
<1>11. Takes(o, <<>>, p)
  BY <1>6, <1>7, <1>8, <1>9, <1>10, NoOps, PlugType DEF Takes
<1> QED BY <1>2, <1>3, <1>11

LEMMA TakesAdopt ==
  ASSUME PluginTypeOK, SessionsOK, CursorOK(plug.cursor, Sent, plug.blocked), NEW o, Ready(o),
         o.op = "adopt"
  PROVE  Takes(o, Does(plug, o), Changes(plug, o))
<1> DEFINE s == o.s
           l == o.l
           D == Does(plug, o)
           a == Op("accept", s, l)
           b == Op("adopt", s, l + 1)
           c == Op("advanceTo", s, l)
<1>1. s \in Sessions /\ ses[s].n > 0 /\ l \in Nat /\ l >= Start[s] /\ Start[s] \in Nat /\ ses[s].n \in Nat
      /\ ses[s].n <= Len(Log[s]) /\ Len(Log[s]) \in Nat
  BY SessionFacts DEF Ready, Ops, OpOK
<1>2. s \notin plug.blocked => \A k \in Start[s] .. l - 1 : Given(Sent, s, k)
  BY DEF Ready, Bounds
<1>3. Changes(plug, o) = plug
  BY DEF Changes, Kinds, Statuses
<1>4. D = IF l <= ses[s].n THEN <<a, b>> ELSE <<c>>
  BY DEF Does, Kinds, Statuses
<1>5. \A t, k : ~Covers(o, t, k) /\ (Pledges(ses, o, t, k) => t = s /\ l <= k)
  BY DEF Covers, Pledges
<1>6. /\ a \in Ops /\ a.op = "accept" /\ a.s = s /\ a.l = l
      /\ b \in Ops /\ b.op = "adopt" /\ b.s = s /\ b.l = l + 1
      /\ c \in Ops /\ c.op = "advanceTo" /\ c.s = s /\ c.l = l
  <2>1. "accept" \in OpNames /\ "adopt" \in OpNames /\ "advanceTo" \in OpNames /\ l + 1 \in Nat
    BY <1>1 DEF OpNames
  <2> HIDE DEF l, s
  <2> QED BY <1>1, <2>1, NewOp
<1> HIDE DEF a, b, c, D, l, s
<1>7. OpOK(ses, b) /\ OpOK(ses, c)
  <2>1. OpOK(ses, b)
    <3>1. b.l >= Start[b.s] /\ ses[b.s].n > 0
      <4>1. b.s = s /\ b.l = l + 1
        BY <1>6
      <4>2. l + 1 >= Start[s]
        BY <1>1
      <4>3. b.l >= Start[s]
        BY <4>1, <4>2
      <4>4. Start[b.s] = Start[s] /\ ses[b.s] = ses[s]
        BY <4>1
      <4> QED BY <1>1, <4>3, <4>4
    <3> QED BY <1>6, <3>1 DEF OpOK
  <2>2. OpOK(ses, c)
    <3>1. c.l >= Start[c.s] /\ ses[c.s].n > 0
      BY <1>1, <1>6
    <3> QED BY <1>6, <3>1 DEF OpOK
  <2> QED BY <2>1, <2>2
<1>8. CASE l <= ses[s].n
  <2>1. OpOK(ses, a)
    <3>1. a.l \in Lines(a.s) /\ ses[a.s].n > 0
      BY <1>1, <1>6, <1>8 DEF Lines
    <3> QED BY <1>6, <3>1 DEF OpOK
  <2>2. D = <<a, b>> /\ D \in Seq(Ops) /\ DOMAIN D = {1, 2} /\ D[1] = a /\ D[2] = b /\ Len(D) = 2
    BY <1>4, <1>6, <1>8, TwoOps
  <2>3. Chained(ses, D)
    BY <1>6, <1>7, <2>1, <2>2 DEF Chained
  <2>4. Covers(D[1], s, l)
    BY <1>6, <2>2 DEF Covers
  <2>5. Ordered(D, Sent, plug.blocked)
    <3>1. ASSUME NEW i \in DOMAIN D, D[i].op \in Bounds, D[i].s \notin plug.blocked,
                 NEW k \in Start[D[i].s] .. D[i].l - 1
          PROVE  Given(Sent, D[i].s, k) \/ \E j \in 1 .. i - 1 : Covers(D[j], D[i].s, k)
      <4>1. i = 2
        BY <1>6, <2>2, <3>1 DEF Bounds
      <4>2. D[i].s = s /\ k \in Start[s] .. l /\ s \notin plug.blocked
        <5>1. D[i] = b
          BY <2>2, <4>1
        <5>2. D[i].s = s /\ D[i].l - 1 = l
          BY <1>1, <1>6, <5>1
        <5> QED BY <3>1, <5>2
      <4>3. CASE k = l
        BY <2>4, <4>1, <4>2, <4>3
      <4>4. CASE k # l
        <5>1. k \in Start[s] .. l - 1
          BY <1>1, <4>2, <4>4
        <5> QED BY <1>2, <4>2, <5>1
      <4> QED BY <4>3, <4>4
    <3> QED BY <3>1 DEF Ordered
  <2>6. \A i \in DOMAIN D : D[i].op \notin Endings \cup {"open"} /\ ~Active(D[i])
    BY <1>6, <2>2 DEF Endings, Active
  <2>7. \A t : Calm(D, t)
    BY <2>6 DEF Calm
  <2>8. \A t, k : k \in Nat /\ Pledges(ses, o, t, k) => InChain(ses, D, t, k)
    <3>1. ASSUME NEW t, NEW k \in Nat, Pledges(ses, o, t, k) PROVE InChain(ses, D, t, k)
      <4>1. t = s /\ l <= k
        BY <1>5, <3>1
      <4>2. CASE k = l
        BY <2>2, <2>4, <4>1, <4>2 DEF InChain, Pledges
      <4>3. CASE k # l
        <5>1. Pledges(ses, D[2], t, k)
          <6>1. D[2].op = "adopt" /\ D[2].s = t /\ D[2].l <= k
            BY <1>1, <1>6, <2>2, <4>1, <4>3
          <6> QED BY <6>1 DEF Pledges
        <5> QED BY <2>2, <5>1 DEF InChain
      <4> QED BY <4>2, <4>3
    <3> QED BY <3>1
  <2>9. \A t \in Sessions : \A k \in Start[t] .. ses[t].n : k \in Nat
    BY SessionFacts
  <2>10. Takes(o, D, plug)
    BY <1>5, <2>2, <2>3, <2>5, <2>6, <2>7, <2>8, <2>9, PlugType DEF Takes
  <2> QED BY <1>3, <2>10 DEF D
<1>9. CASE ~(l <= ses[s].n)
  <2>1. D = <<c>> /\ D \in Seq(Ops) /\ DOMAIN D = {1} /\ D[1] = c /\ Len(D) = 1
    BY <1>4, <1>6, <1>9, OneOp
  <2>2. Chained(ses, D)
    BY <1>6, <1>7, <2>1 DEF Chained
  <2>3. Ordered(D, Sent, plug.blocked)
    BY <1>2, <1>6, <2>1 DEF Ordered
  <2>4. \A i \in DOMAIN D : D[i].op \notin Endings \cup {"open"} /\ ~Active(D[i])
    BY <1>6, <2>1 DEF Endings, Active
  <2>5. \A t : Calm(D, t)
    BY <2>4 DEF Calm
  <2>6. \A t \in Sessions : \A k \in Start[t] .. ses[t].n : ~Pledges(ses, o, t, k)
    BY <1>1, <1>5, <1>9
  <2>7. Takes(o, D, plug)
    BY <1>5, <2>1, <2>2, <2>3, <2>4, <2>5, <2>6, PlugType DEF Takes
  <2> QED BY <1>3, <2>7 DEF D
<1> QED BY <1>8, <1>9

\* What becomes of a fact: for an event, its acceptance.
LEMMA Accepted ==
  ASSUME NEW f \in Facts, FactOK(ses, f)
  PROVE  /\ Accepts(f) \in Seq(Ops)
         /\ \A i \in DOMAIN Accepts(f) :
               LET d == Accepts(f)[i]
               IN  OpOK(ses, d) /\ d.op \notin Bounds /\ ~Active(d) /\ d.op \notin Endings \cup {"open"}
         /\ \A s, l : f = Fact("event", s, l) => \E j \in DOMAIN Accepts(f) : Covers(Accepts(f)[j], s, l)
<1> DEFINE D == Accepts(f)
           Fits(d) == /\ d \in Ops /\ OpOK(ses, d) /\ d.op \notin Bounds /\ ~Active(d)
                      /\ d.op \notin Endings \cup {"open"}
<1>1. /\ f.s \in Sessions /\ f.l \in Nat /\ f.kind \in Kinds \cup {"session", "event"} /\ ses[f.s].n > 0
      /\ f.kind = "event" => f.l \in Lines(f.s)
  BY DEF Facts, FactOK
<1>2. ASSUME NEW op \in Kinds \cup {"announce", "announceAgent"}
      PROVE  Fits(Op(op, f.s, 0))
  <2> DEFINE d == Op(op, f.s, 0)
  <2>1. d \in Ops /\ d.op = op /\ d.s = f.s
    <3>1. op \in OpNames /\ 0 \in Nat
      BY <1>2 DEF OpNames, Kinds
    <3> QED BY <1>1, <3>1, NewOp
  <2> HIDE DEF d
  <2>2. OpOK(ses, d)
    BY <1>1, <1>2, <2>1 DEF OpOK, Kinds, Statuses
  <2>3. d.op \notin Bounds /\ ~Active(d) /\ d.op \notin Endings \cup {"open"}
    BY <1>2, <2>1 DEF Bounds, Active, Endings, Kinds, Statuses
  <2> QED BY <2>1, <2>2, <2>3 DEF d
<1>3. CASE f.kind = "event"
  <2> DEFINE d == Op("accept", f.s, f.l)
  <2>1. d \in Ops /\ d.op = "accept" /\ d.s = f.s /\ d.l = f.l
    <3>1. "accept" \in OpNames
      BY DEF OpNames
    <3> QED BY <1>1, <3>1, NewOp
  <2>2. D = <<d>>
    BY <1>3 DEF Accepts
  <2> HIDE DEF d, D
  <2>3. D \in Seq(Ops) /\ DOMAIN D = {1} /\ D[1] = d
    BY <2>1, <2>2, OneOp
  <2>4. Fits(d)
    BY <1>1, <1>3, <2>1 DEF OpOK, Bounds, Active, Endings
  <2>5. \A s, l : f = Fact("event", s, l) => Covers(d, s, l)
    BY <2>1 DEF Fact, Covers
  <2> QED BY <2>3, <2>4, <2>5 DEF D
<1>4. CASE f.kind \in {"session", "disposed"}
  <2> DEFINE d == Op(IF f.kind = "session" THEN "announce" ELSE "disposed", f.s, 0)
  <2>1. D = <<d>>
    BY <1>4 DEF Accepts
  <2>2. Fits(d)
    BY <1>2 DEF Kinds
  <2>3. \A s, l : f # Fact("event", s, l)
    BY <1>4 DEF Fact
  <2> HIDE DEF d, D
  <2>4. D \in Seq(Ops) /\ DOMAIN D = {1} /\ D[1] = d
    BY <2>1, <2>2, OneOp
  <2> QED BY <2>2, <2>3, <2>4 DEF D
<1>5. CASE f.kind \in Statuses
  <2> DEFINE a == Op("announceAgent", f.s, 0)
             b == Op(f.kind, f.s, 0)
  <2>1. D = <<a, b>>
    BY <1>5 DEF Accepts, Statuses
  <2>2. Fits(a) /\ Fits(b)
    BY <1>2, <1>5 DEF Kinds
  <2>3. \A s, l : f # Fact("event", s, l)
    BY <1>5 DEF Fact, Statuses
  <2> HIDE DEF a, b, D
  <2>4. D \in Seq(Ops) /\ DOMAIN D = {1, 2} /\ D[1] = a /\ D[2] = b
    BY <2>1, <2>2, TwoOps
  <2> QED BY <2>2, <2>3, <2>4 DEF D
<1> QED BY <1>1, <1>3, <1>4, <1>5 DEF Kinds

LEMMA TakesFact ==
  ASSUME PluginTypeOK, SessionsOK, CursorOK(plug.cursor, Sent, plug.blocked), NEW o, Ready(o),
         o.op = "fact"
  PROVE  Takes(o, Does(plug, o), Changes(plug, o))
<1> DEFINE f == o.event[1]
           D == Accepts(f)
<1>1. f \in Facts /\ FactOK(ses, f)
  BY DEF Ready, OpOK
<1>2. Changes(plug, o) = plug /\ Does(plug, o) = D
  BY DEF Changes, Does, Kinds, Statuses
<1>3. \A s, k : ~Covers(o, s, k) /\ (Pledges(ses, o, s, k) => f = Fact("event", s, k))
  BY DEF Covers, Pledges
<1> HIDE DEF f
<1>4. /\ D \in Seq(Ops)
      /\ \A i \in DOMAIN D : /\ OpOK(ses, D[i]) /\ D[i].op \notin Bounds
                              /\ ~Active(D[i]) /\ D[i].op \notin Endings \cup {"open"}
      /\ \A s, k : f = Fact("event", s, k) => \E j \in DOMAIN D : Covers(D[j], s, k)
  BY <1>1, Accepted
<1> HIDE DEF D
<1>5. \A s, k : Pledges(ses, o, s, k) => InChain(ses, D, s, k)
  BY <1>3, <1>4 DEF Pledges, InChain
<1>6. Takes(o, D, [plug EXCEPT !.announced = plug.announced, !.counter = plug.counter])
  BY <1>3, <1>4, <1>5, Same, TakesLight
<1> QED BY <1>2, <1>6, Same

LEMMA TakesAgents ==
  ASSUME PluginTypeOK, SessionsOK, CursorOK(plug.cursor, Sent, plug.blocked), NEW o, Ready(o),
         o.op = "agents"
  PROVE  Takes(o, Does(plug, o), Changes(plug, o))
<1> DEFINE S == {d \in Ops : d.op \in {"announceAgent", "status"} /\ OpOK(ses, d)}
           Briefs(s) == IF ses[s].agent THEN <<Op("announceAgent", s, 0), Op("status", s, 0)>> ELSE <<>>
           lists == [i \in DOMAIN Order |-> Briefs(Order[i])]
           D == FlattenSeq(lists)
<1>1. Changes(plug, o) = plug /\ Does(plug, o) = D
  BY DEF Changes, Does, Kinds, Statuses
<1>2. ASSUME NEW s \in Sessions PROVE Briefs(s) \in Seq(S)
  <2>1. CASE ses[s].agent
    <3> DEFINE a == Op("announceAgent", s, 0)
               b == Op("status", s, 0)
    <3>1. ses[s].n > 0 /\ ses[s].status \in Statuses
      BY <2>1 DEF SessionsOK, SessionOK
    <3>2. a \in Ops /\ a.op = "announceAgent" /\ a.s = s /\ b \in Ops /\ b.op = "status" /\ b.s = s
      <4>1. "announceAgent" \in OpNames /\ "status" \in OpNames /\ 0 \in Nat
        BY DEF OpNames
      <4> QED BY <4>1, NewOp
    <3>3. Briefs(s) = <<a, b>>
      BY <2>1
    <3> HIDE DEF a, b
    <3>4. OpOK(ses, a) /\ OpOK(ses, b)
      BY <3>1, <3>2 DEF OpOK
    <3>5. a \in S /\ b \in S
      BY <3>2, <3>4
    <3> HIDE DEF S
    <3>6. <<a, b>> \in Seq(S)
      BY <3>5
    <3> QED BY <3>3, <3>6
  <2>2. CASE ~ses[s].agent
    <3>1. Briefs(s) = <<>>
      BY <2>2
    <3> QED BY <3>1
  <2> QED BY <2>1, <2>2
<1>3. lists \in Seq(Seq(S))
  <2>1. Order \in Seq(Sessions)
    BY DshAssumption
  <2>2. DOMAIN Order = 1 .. Len(Order) /\ Len(Order) \in Nat /\ \A i \in 1 .. Len(Order) : Order[i] \in Sessions
    BY <2>1
  <2>3. \A i \in 1 .. Len(Order) : Briefs(Order[i]) \in Seq(S)
    BY <1>2, <2>2
  <2> HIDE DEF Briefs, S
  <2> QED BY <2>2, <2>3
<1>4. D \in Seq(S)
  <2> HIDE DEF lists, S
  <2> QED BY <1>3, Flattened
<1> HIDE DEF D, lists
<1>5. D \in Seq(Ops) /\ \A i \in DOMAIN D : D[i] \in S
  BY <1>4
<1>6. ASSUME NEW i \in DOMAIN D
      PROVE  /\ OpOK(ses, D[i]) /\ (D[i].op \in Bounds => D[i].l = 0)
             /\ ~Active(D[i]) /\ D[i].op \notin Endings \cup {"open"}
  <2>1. OpOK(ses, D[i]) /\ D[i].op \in {"announceAgent", "status"}
    BY <1>5
  <2> HIDE DEF S
  <2> QED BY <2>1 DEF Bounds, Active, Endings
<1>7. \A s, k : ~Covers(o, s, k) /\ ~Pledges(ses, o, s, k)
  BY DEF Covers, Pledges
<1>8. Takes(o, D, [plug EXCEPT !.announced = plug.announced, !.counter = plug.counter])
  BY <1>5, <1>6, <1>7, Same, TakesLight
<1> QED BY <1>1, <1>8, Same DEF D

\* Every operation that neither waits nor writes nor opens.
LEMMA TakenSteps ==
  ASSUME PluginTypeOK, SessionsOK, CursorOK(plug.cursor, Sent, plug.blocked), BlockedOK, NEW o, Ready(o),
         o.op \notin Waiting \cup {"write", "open"}
  PROVE  Takes(o, Does(plug, o), Changes(plug, o))
<1>1. o.op \in OpNames
  BY DEF Ready, Ops
<1> QED BY <1>1, TakesAnnounce, TakesAccept, TakesConsider, TakesEmit, TakesStatus, TakesMove, TakesAdopt,
           TakesFact, TakesAgents DEF OpNames, Waiting

-----------------------------------------------------------------------------
(* The steps of the chains.                                                *)

LEMMA HeadReady ==
  ASSUME NEW C \in Seq(Ops), C # <<>>, Chained(ses, C), Ordered(C, Sent, plug.blocked)
  PROVE  Ready(C[1]) /\ Head(C) = C[1] /\ 1 \in DOMAIN C /\ C[1] \in Ops
<1>1. 1 \in DOMAIN C /\ C[1] \in Ops /\ Head(C) = C[1]
  OBVIOUS
<1>2. OpOK(ses, C[1])
  BY <1>1 DEF Chained
<1>3. C[1].op \in Bounds /\ C[1].s \notin plug.blocked =>
         \A k \in Start[C[1].s] .. C[1].l - 1 : Given(Sent, C[1].s, k)
  <2>1. C[1].op \in Bounds /\ C[1].s \notin plug.blocked =>
           \A k \in Start[C[1].s] .. C[1].l - 1 :
              Given(Sent, C[1].s, k) \/ \E j \in 1 .. 1 - 1 : Covers(C[j], C[1].s, k)
    BY <1>1 DEF Ordered
  <2> QED BY <2>1
<1> QED BY <1>1, <1>2, <1>3 DEF Ready

LEMMA OrderedMore ==
  ASSUME NEW C, NEW W, NEW W2, NEW B, NEW B2, W \subseteq W2, B \subseteq B2, Ordered(C, W, B)
  PROVE  Ordered(C, W2, B2)
BY DEF Ordered, Given

\* What a chain is after its first operation was done, X being either of the chains.
LEMMA TakenChain ==
  ASSUME PInv, NEW C \in {plug.boot, plug.work}, NEW X \in {plug.boot, plug.work}, C # <<>>,
         NEW D, NEW p, Takes(C[1], D, p)
  PROVE  LET E == D \o Tail(C)
         IN  /\ E \in Seq(Ops) /\ Chained(ses, E) /\ (EndsOK(C) => EndsOK(E)) /\ (Plain(C) => Plain(E))
             /\ Ordered(E, Sent, p.blocked) /\ Ordered(X, Sent, p.blocked)
             /\ \A s \in p.blocked : \/ AllPast(Sent, s) \/ Len(queue) >= QueueLimit
                                     \/ Calm(E, s) /\ Calm(X, s)
             /\ \A s \in Sessions \ p.blocked : \A l \in Start[s] .. ses[s].n :
                   InChain(ses, C, s, l) => Given(Sent, s, l) \/ InChain(ses, E, s, l)
<1>1. /\ C \in Seq(Ops) /\ X \in Seq(Ops) /\ Chained(ses, C) /\ Ordered(C, Sent, plug.blocked)
      /\ Ordered(X, Sent, plug.blocked)
  BY DEF PInv, PluginTypeOK, Plugs, ChainsOK, InOrder
<1>2. D \in Seq(Ops) /\ Chained(ses, D) /\ Ordered(D, Sent, p.blocked) /\ plug.blocked \subseteq p.blocked
  BY DEF Takes
<1>3. D \o Tail(C) \in Seq(Ops)
  BY <1>1, <1>2, Splice
<1>4. Chained(ses, D \o Tail(C))
  BY <1>1, <1>2, ChainedSplice
<1>5. ASSUME EndsOK(C) PROVE EndsOK(D \o Tail(C))
  <2>1. \A i \in DOMAIN D : D[i].op \notin Endings \cup {"open"}
    BY DEF Takes
  <2>2. EndsOK(D)
    BY <2>1 DEF EndsOK
  <2> QED BY <1>1, <1>2, <1>5, <2>1, <2>2, EndsSplice
<1>6. Ordered(D \o Tail(C), Sent, p.blocked)
  <2>1. \A s \in Sessions \ p.blocked : \A k : Covers(C[1], s, k) =>
           Given(Sent, s, k) \/ \E j \in DOMAIN D : Covers(D[j], s, k)
    BY DEF Takes
  <2> QED BY <1>1, <1>2, <2>1, OrderedSplice
<1>7. Ordered(X, Sent, p.blocked)
  BY <1>1, <1>2, OrderedMore
<1>8. ASSUME NEW s \in p.blocked, ~AllPast(Sent, s), ~(Len(queue) >= QueueLimit)
      PROVE  Calm(D \o Tail(C), s) /\ Calm(X, s)
  <2>1. s \in plug.blocked /\ (Calm(D, s) \/ (Active(C[1]) /\ C[1].s = s))
    BY <1>8 DEF Takes
  <2>2. Calm(C, s) /\ Calm(X, s)
    BY <1>8, <2>1 DEF PInv, BlockedOK
  <2>3. 1 \in DOMAIN C
    BY <1>1
  <2>4. Calm(D, s)
    BY <2>1, <2>2, <2>3 DEF Calm
  <2> QED BY <1>1, <1>2, <2>2, <2>4, CalmSplice
<1>9. ASSUME NEW s \in Sessions \ p.blocked, NEW l \in Start[s] .. ses[s].n, InChain(ses, C, s, l),
             ~Given(Sent, s, l)
      PROVE  InChain(ses, D \o Tail(C), s, l)
  <2>1. ~Pledges(ses, C[1], s, l) \/ InChain(ses, D, s, l)
    BY <1>9 DEF Takes
  <2> QED BY <1>1, <1>2, <1>9, <2>1, PledgeSplice
<1>10. ASSUME Plain(C) PROVE Plain(D \o Tail(C))
  <2>1. Plain(D)
    BY DEF Takes, Plain
  <2> QED BY <1>1, <1>2, <1>10, <2>1, PlainSplice
<1> QED BY <1>3, <1>4, <1>5, <1>6, <1>7, <1>8, <1>9, <1>10

\* The observer with another chain, p being what else has changed.
WithBoot(p, C) == [p EXCEPT !.boot = C]
WithWork(p, C) == [p EXCEPT !.work = C]
LEMMA ChainsBoot ==
  ASSUME PluginTypeOK, NEW o, NEW D, NEW p, Takes(o, D, p), NEW C \in Seq(Ops), NEW q, q = WithBoot(p, C)
  PROVE  /\ q.boot = C /\ q.work = plug.work /\ q.pending = plug.pending /\ q.facts = plug.facts
         /\ q.blocked = p.blocked /\ q.cursor = p.cursor /\ q.bootstrapping = plug.bootstrapping
         /\ q.running = plug.running /\ q.lost = plug.lost /\ q.unread = plug.unread
         /\ q \in Plugs
<1> DEFINE a == p.announced
           b == p.blocked
           c == p.cursor
           n == p.counter
<1>1. /\ a \subseteq Sessions /\ b \subseteq Sessions /\ c \in [Sessions -> Nat] /\ n \in Nat
      /\ p = [plug EXCEPT !.announced = a, !.blocked = b, !.cursor = c, !.counter = n]
  BY DEF Takes
<1> HIDE DEF a, b, c, n
<1>2. p.blocked = b /\ p.cursor = c
  BY DEF b, c
<1>3. q = [plug EXCEPT !.announced = a, !.blocked = b, !.cursor = c, !.counter = n, !.boot = C]
  BY <1>1 DEF WithBoot
<1> QED BY <1>1, <1>2, <1>3 DEF PluginTypeOK, Plugs

LEMMA ChainsWork ==
  ASSUME PluginTypeOK, NEW o, NEW D, NEW p, Takes(o, D, p), NEW C \in Seq(Ops), NEW q, q = WithWork(p, C)
  PROVE  /\ q.work = C /\ q.boot = plug.boot /\ q.pending = plug.pending /\ q.facts = plug.facts
         /\ q.blocked = p.blocked /\ q.cursor = p.cursor /\ q.bootstrapping = plug.bootstrapping
         /\ q.running = plug.running /\ q.lost = plug.lost /\ q.unread = plug.unread
         /\ q \in Plugs
<1> DEFINE a == p.announced
           b == p.blocked
           c == p.cursor
           n == p.counter
<1>1. /\ a \subseteq Sessions /\ b \subseteq Sessions /\ c \in [Sessions -> Nat] /\ n \in Nat
      /\ p = [plug EXCEPT !.announced = a, !.blocked = b, !.cursor = c, !.counter = n]
  BY DEF Takes
<1> HIDE DEF a, b, c, n
<1>2. p.blocked = b /\ p.cursor = c
  BY DEF b, c
<1>3. q = [plug EXCEPT !.announced = a, !.blocked = b, !.cursor = c, !.counter = n, !.work = C]
  BY <1>1 DEF WithWork
<1> QED BY <1>1, <1>2, <1>3 DEF PluginTypeOK, Plugs

LEMMA BootStepKeeps ==
  ASSUME PInv, plug.boot # <<>>, NEW D, NEW p, Takes(plug.boot[1], D, p), OnlyPlug,
         plug' = [p EXCEPT !.boot = D \o Tail(plug.boot)]
  PROVE  PInv'
<1> DEFINE E == D \o Tail(plug.boot)
<1>0. ses' = ses /\ queue' = queue /\ durable' = durable /\ Sent' = Sent
  BY DEF OnlyPlug, Sent
<1>1. /\ E \in Seq(Ops) /\ Chained(ses, E) /\ (EndsOK(plug.boot) => EndsOK(E))
      /\ Ordered(E, Sent, p.blocked) /\ Ordered(plug.work, Sent, p.blocked)
      /\ \A s \in p.blocked : \/ AllPast(Sent, s) \/ Len(queue) >= QueueLimit
                              \/ Calm(E, s) /\ Calm(plug.work, s)
      /\ \A s \in Sessions \ p.blocked : \A l \in Start[s] .. ses[s].n :
            InChain(ses, plug.boot, s, l) => Given(Sent, s, l) \/ InChain(ses, E, s, l)
  BY TakenChain
<1>2. /\ plug.blocked \subseteq p.blocked /\ CursorOK(p.cursor, Sent, p.blocked)
  BY DEF Takes
<1> HIDE DEF E
<1>3. /\ plug'.boot = E /\ plug'.work = plug.work /\ plug'.pending = plug.pending /\ plug'.facts = plug.facts
      /\ plug'.blocked = p.blocked /\ plug'.cursor = p.cursor /\ plug'.bootstrapping = plug.bootstrapping
      /\ plug'.running = plug.running /\ plug'.lost = plug.lost /\ plug'.unread = plug.unread
      /\ PluginTypeOK'
  <2>1. PluginTypeOK
    BY DEF PInv
  <2>2. plug' = WithBoot(p, E)
    BY DEF E, WithBoot
  <2> DEFINE q == plug'
  <2>3. q = WithBoot(p, E) /\ E \in Seq(Ops)
    BY <1>1, <2>2
  <2> HIDE DEF q
  <2>4. /\ q.boot = E /\ q.work = plug.work /\ q.pending = plug.pending /\ q.facts = plug.facts
        /\ q.blocked = p.blocked /\ q.cursor = p.cursor /\ q.bootstrapping = plug.bootstrapping
        /\ q.running = plug.running /\ q.lost = plug.lost /\ q.unread = plug.unread
        /\ q \in Plugs
    BY <2>1, <2>3, ChainsBoot
  <2> QED BY <1>0, <2>1, <2>4 DEF PluginTypeOK, q
<1>4. SessionsOK'
  BY <1>0 DEF PInv, SessionsOK
<1>5. ChainsOK'
  BY <1>0, <1>1, <1>3 DEF PInv, ChainsOK
<1>6. EndsOK(plug.boot)' /\ EndsOK(plug.work)' /\ Plain(plug.work)' /\ (~plug.bootstrapping => plug.pending = <<>>)'
  BY <1>1, <1>3 DEF PInv
<1>7. CursorOK(plug.cursor, Sent, plug.blocked)'
  BY <1>0, <1>2, <1>3
<1>8. InOrder'
  BY <1>0, <1>1, <1>3 DEF InOrder
<1>9. BlockedOK'
  BY <1>0, <1>1, <1>3 DEF BlockedOK
<1>10. SentInOrder'
  BY <1>0 DEF PInv, SentInOrder
<1>11. AllPromised'
  <2>1. AllPromised
    BY DEF PInv
  <2> QED BY <1>0, <1>1, <1>2, <1>3, <2>1 DEF AllPromised, Promised
<1> QED BY <1>3, <1>4, <1>5, <1>6, <1>7, <1>8, <1>9, <1>10, <1>11 DEF PInv

LEMMA DeliverStepKeeps ==
  ASSUME PInv, plug.work # <<>>, NEW D, NEW p, Takes(plug.work[1], D, p), OnlyPlug,
         plug' = [p EXCEPT !.work = D \o Tail(plug.work)]
  PROVE  PInv'
<1> DEFINE E == D \o Tail(plug.work)
<1>0. ses' = ses /\ queue' = queue /\ durable' = durable /\ Sent' = Sent
  BY DEF OnlyPlug, Sent
<1>1. /\ E \in Seq(Ops) /\ Chained(ses, E) /\ (EndsOK(plug.work) => EndsOK(E))
      /\ (Plain(plug.work) => Plain(E))
      /\ Ordered(E, Sent, p.blocked) /\ Ordered(plug.boot, Sent, p.blocked)
      /\ \A s \in p.blocked : \/ AllPast(Sent, s) \/ Len(queue) >= QueueLimit
                              \/ Calm(E, s) /\ Calm(plug.boot, s)
      /\ \A s \in Sessions \ p.blocked : \A l \in Start[s] .. ses[s].n :
            InChain(ses, plug.work, s, l) => Given(Sent, s, l) \/ InChain(ses, E, s, l)
  BY TakenChain
<1>2. /\ plug.blocked \subseteq p.blocked /\ CursorOK(p.cursor, Sent, p.blocked)
  BY DEF Takes
<1> HIDE DEF E
<1>3. /\ plug'.work = E /\ plug'.boot = plug.boot /\ plug'.pending = plug.pending /\ plug'.facts = plug.facts
      /\ plug'.blocked = p.blocked /\ plug'.cursor = p.cursor /\ plug'.bootstrapping = plug.bootstrapping
      /\ plug'.running = plug.running /\ plug'.lost = plug.lost /\ plug'.unread = plug.unread
      /\ PluginTypeOK'
  <2>1. PluginTypeOK
    BY DEF PInv
  <2>2. plug' = WithWork(p, E)
    BY DEF E, WithWork
  <2> DEFINE q == plug'
  <2>3. q = WithWork(p, E) /\ E \in Seq(Ops)
    BY <1>1, <2>2
  <2> HIDE DEF q
  <2>4. /\ q.work = E /\ q.boot = plug.boot /\ q.pending = plug.pending /\ q.facts = plug.facts
        /\ q.blocked = p.blocked /\ q.cursor = p.cursor /\ q.bootstrapping = plug.bootstrapping
        /\ q.running = plug.running /\ q.lost = plug.lost /\ q.unread = plug.unread
        /\ q \in Plugs
    BY <2>1, <2>3, ChainsWork
  <2> QED BY <1>0, <2>1, <2>4 DEF PluginTypeOK, q
<1>4. SessionsOK'
  BY <1>0 DEF PInv, SessionsOK
<1>5. ChainsOK'
  BY <1>0, <1>1, <1>3 DEF PInv, ChainsOK
<1>6. EndsOK(plug.boot)' /\ EndsOK(plug.work)' /\ Plain(plug.work)' /\ (~plug.bootstrapping => plug.pending = <<>>)'
  BY <1>1, <1>3 DEF PInv
<1>7. CursorOK(plug.cursor, Sent, plug.blocked)'
  BY <1>0, <1>2, <1>3
<1>8. InOrder'
  BY <1>0, <1>1, <1>3 DEF InOrder
<1>9. BlockedOK'
  BY <1>0, <1>1, <1>3 DEF BlockedOK
<1>10. SentInOrder'
  BY <1>0 DEF PInv, SentInOrder
<1>11. AllPromised'
  <2>1. AllPromised
    BY DEF PInv
  <2> QED BY <1>0, <1>1, <1>2, <1>3, <2>1 DEF AllPromised, Promised
<1> QED BY <1>3, <1>4, <1>5, <1>6, <1>7, <1>8, <1>9, <1>10, <1>11 DEF PInv

-----------------------------------------------------------------------------
(* Writes.                                                                 *)

LEMMA Rest ==
  ASSUME NEW C \in Seq(Ops), C # <<>>
  PROVE  <<>> \o Tail(C) = Tail(C) /\ Tail(C) \in Seq(Ops)
<1>1. Tail(C) \in Seq(Ops)
  OBVIOUS
<1> DEFINE T == Tail(C)
<1> HIDE DEF T
<1>2. T \in Seq(Ops)
  BY <1>1 DEF T
<1>3. <<>> \o T = T
  BY <1>2
<1> QED BY <1>1, <1>3 DEF T

LEMMA Nothing ==
  /\ \A h, W, B : Chained(h, <<>>) /\ Ordered(<<>>, W, B)
  /\ EndsOK(<<>>) /\ Plain(<<>>) /\ \A s : Calm(<<>>, s)
BY NoOps DEF Chained, Ordered, EndsOK, Plain, Calm

\* A chain without its first operation.
LEMMA Dropped ==
  ASSUME NEW C \in Seq(Ops), C # <<>>, NEW h, NEW W, NEW W2, NEW B, NEW B2, W \subseteq W2, B \subseteq B2,
         Chained(h, C), Ordered(C, W, B), EndsOK(C),
         \A s \in Sessions \ B2 : \A k \in Nat \ {0} : Covers(C[1], s, k) => Given(W2, s, k)
  PROVE  /\ Tail(C) \in Seq(Ops) /\ Chained(h, Tail(C)) /\ Ordered(Tail(C), W2, B2) /\ EndsOK(Tail(C))
         /\ Plain(C) => Plain(Tail(C))
         /\ \A s : Calm(C, s) => Calm(Tail(C), s)
         /\ \A s, l : InChain(h, C, s, l) /\ ~Pledges(h, C[1], s, l) => InChain(h, Tail(C), s, l)
<1>1. <<>> \o Tail(C) = Tail(C) /\ Tail(C) \in Seq(Ops)
  BY Rest
<1>2. Chained(h, <<>> \o Tail(C))
  BY NoOps, Nothing, ChainedSplice
<1>3. Ordered(<<>> \o Tail(C), W2, B2)
  BY NoOps, Nothing, OrderedSplice
<1>4. EndsOK(<<>> \o Tail(C))
  BY NoOps, Nothing, EndsSplice
<1>5. \A s : Calm(C, s) => Calm(<<>> \o Tail(C), s)
  BY NoOps, Nothing, CalmSplice
<1>6. \A s, l : InChain(h, C, s, l) /\ ~Pledges(h, C[1], s, l) => InChain(h, <<>> \o Tail(C), s, l)
  BY NoOps, PledgeSplice
<1>7. Plain(C) => Plain(<<>> \o Tail(C))
  BY NoOps, Nothing, PlainSplice
<1> QED BY <1>1, <1>2, <1>3, <1>4, <1>5, <1>6, <1>7

LEMMA OneRecord ==
  ASSUME NEW s \in Sessions, NEW l \in Lines(s), NEW e \in ToSet(EventsOf(s, l))
  PROVE  /\ e \in Recorded
         /\ \A t \in Sessions : \A m \in Lines(t) : e \in ToSet(EventsOf(t, m)) => s = t /\ l = m
<1>1. e \in Recorded
  BY EventsOfRecord
<1>2. ASSUME NEW t \in Sessions, NEW m \in Lines(t), e \in ToSet(EventsOf(t, m)) PROVE s = t /\ l = m
  <2>1. l \in 2 .. Len(Log[s]) /\ m \in 2 .. Len(Log[t])
    BY DshAssumption DEF Lines
  <2>2. s # t \/ l # m => ToSet(EventsOf(s, l)) \cap ToSet(EventsOf(t, m)) = {}
    BY <2>1, EventsAssumption
  <2> QED BY <1>2, <2>2
<1> QED BY <1>1, <1>2

\* In front of the write of a record's event everything is sent or past.
LEMMA WriteInOrder ==
  ASSUME PInv, NEW C \in {plug.boot, plug.work}, C # <<>>, C[1].op = "write", Len(queue) < QueueLimit,
         NEW s \in Sessions, NEW l \in Lines(s), C[1].event[1] \in ToSet(EventsOf(s, l)),
         NEW k \in Start[s] .. l - 1
  PROVE  Past(Sent, s, k)
<1> DEFINE o == C[1]
<1>1. /\ C \in Seq(Ops) /\ Chained(ses, C) /\ Ordered(C, Sent, plug.blocked)
      /\ Calm(plug.boot, s) /\ Calm(plug.work, s) => Calm(C, s)
  BY DEF PInv, PluginTypeOK, Plugs, ChainsOK, InOrder
<1>2. o \in Ops /\ OpOK(ses, o) /\ 1 \in DOMAIN C
      /\ (o.s \notin plug.blocked => \A j \in Start[o.s] .. o.l - 1 : Given(Sent, o.s, j))
  BY <1>1, HeadReady DEF Ready, Bounds
<1>3. o.event[1] \in Recorded /\ \A t \in Sessions : \A m \in Lines(t) :
         o.event[1] \in ToSet(EventsOf(t, m)) => s = t /\ l = m
  BY OneRecord
<1>4. o.l # 0 /\ o.s \in Sessions /\ o.l \in Lines(o.s) /\ o.event = EventsOf(o.s, o.l) /\ o.event # <<>> /\ o.l \in Nat
  BY <1>2, <1>3 DEF OpOK, Ops
<1>5. o.event[1] \in ToSet(EventsOf(o.s, o.l))
  <2>1. o.event \in Seq(Items)
    BY <1>2 DEF Ops
  <2>2. o.event[1] \in ToSet(o.event)
    <3> DEFINE v == o.event
    <3>1. v \in Seq(Items) /\ v # <<>>
      BY <1>4, <2>1
    <3> HIDE DEF v
    <3>2. 1 \in DOMAIN v
      BY <3>1
    <3>3. v[1] \in ToSet(v)
      BY <3>2 DEF ToSet
    <3> QED BY <3>3 DEF v
  <2> QED BY <1>4, <2>2
<1>6. o.s = s /\ o.l = l
  BY <1>3, <1>4, <1>5
<1>7. CASE s \notin plug.blocked
  BY <1>2, <1>6, <1>7 DEF Past
<1>8. CASE s \in plug.blocked
  <2>1. Active(o)
    BY <1>4 DEF Active
  <2>2. ~Calm(C, s)
    BY <1>2, <1>6, <2>1 DEF Calm
  <2>3. queue \in Seq(Sendables) /\ QueueLimit \in Nat
    BY DshAssumption DEF PInv, PluginTypeOK
  <2>4. AllPast(Sent, s)
    BY <1>1, <1>8, <2>2, <2>3 DEF PInv, BlockedOK
  <2>5. k \in Lines(s)
    BY DshAssumption DEF Lines
  <2> QED BY <2>4, <2>5 DEF AllPast
<1> QED BY <1>7, <1>8

LEMMA Sending ==
  ASSUME queue \in Seq(Sendables), NEW e \in Sendables, queue' = Append(queue, e), durable' = durable
  PROVE  /\ queue' \in Seq(Sendables) /\ Len(queue') = Len(queue) + 1 /\ queue'[Len(queue) + 1] = e
         /\ \A i \in 1 .. Len(queue) : queue'[i] = queue[i]
         /\ Len(queue) \in Nat /\ DOMAIN queue = 1 .. Len(queue) /\ DOMAIN queue' = 1 .. Len(queue) + 1
         /\ Sent \subseteq Sent' /\ e \in Sent'
         /\ Sent = durable \cup {queue[j] : j \in 1 .. Len(queue)}
<1>1. /\ queue' \in Seq(Sendables) /\ Len(queue') = Len(queue) + 1 /\ queue'[Len(queue) + 1] = e
      /\ \A i \in 1 .. Len(queue) : queue'[i] = queue[i]
      /\ Len(queue) \in Nat /\ DOMAIN queue = 1 .. Len(queue) /\ DOMAIN queue' = 1 .. Len(queue) + 1
  OBVIOUS
<1>2. ToSet(queue) = {queue[j] : j \in 1 .. Len(queue)}
  BY <1>1 DEF ToSet
<1>3. ToSet(queue') = {queue'[j] : j \in 1 .. Len(queue) + 1}
  BY <1>1 DEF ToSet
<1>4. ToSet(queue) \subseteq ToSet(queue') /\ e \in ToSet(queue')
  BY <1>1, <1>2, <1>3
<1> QED BY <1>1, <1>2, <1>4 DEF Sent

LEMMA SentFurther ==
  ASSUME PInv, NEW C \in {plug.boot, plug.work}, C # <<>>, C[1].op = "write", Len(queue) < QueueLimit,
         C[1].event[1] \in Sendables, queue' = Append(queue, C[1].event[1]), durable' = durable
  PROVE  SentInOrder'
<1> DEFINE x == C[1].event[1]
           n == Len(queue)
           Fed(i) == durable \cup {queue'[j] : j \in 1 .. i - 1}
<1>1. queue \in Seq(Sendables)
  BY DEF PInv, PluginTypeOK
<1>2. /\ queue' \in Seq(Sendables) /\ Len(queue') = n + 1 /\ queue'[n + 1] = x
      /\ \A i \in 1 .. n : queue'[i] = queue[i]
      /\ n \in Nat /\ DOMAIN queue = 1 .. n /\ DOMAIN queue' = 1 .. n + 1
      /\ Sent = durable \cup {queue[j] : j \in 1 .. n}
  BY <1>1, Sending
<1>3. ASSUME NEW s \in Sessions, NEW l \in Lines(s), NEW e \in ToSet(EventsOf(s, l)), NEW k \in Start[s] .. l - 1
      PROVE  /\ e \in durable => Past(durable, s, k)
             /\ \A i \in 1 .. n + 1 :
                   queue'[i] = e => Past(Fed(i), s, k)
  <2>1. /\ e \in durable => Past(durable, s, k)
        /\ \A i \in 1 .. n :
              queue[i] = e => Past(durable \cup {queue[j] : j \in 1 .. i - 1}, s, k)
    BY <1>2 DEF PInv, SentInOrder
  <2>2. ASSUME NEW i \in 1 .. n, queue'[i] = e
        PROVE  Past(Fed(i), s, k)
    <3>1. queue[i] = e /\ Past(durable \cup {queue[j] : j \in 1 .. i - 1}, s, k)
      BY <1>2, <2>1, <2>2
    <3>2. {queue'[j] : j \in 1 .. i - 1} = {queue[j] : j \in 1 .. i - 1}
      <4>1. \A j \in 1 .. i - 1 : queue'[j] = queue[j]
        BY <1>2
      <4> QED BY <4>1
    <3> QED BY <3>1, <3>2
  <2>3. ASSUME queue'[n + 1] = e
        PROVE  Past(Fed(n + 1), s, k)
    <3>1. x = e
      BY <1>2, <2>3
    <3>2. Past(Sent, s, k)
      BY <3>1, WriteInOrder
    <3>3. {queue'[j] : j \in 1 .. n + 1 - 1} = {queue[j] : j \in 1 .. n}
      <4>1. \A j \in 1 .. n : queue'[j] = queue[j]
        BY <1>2
      <4>2. 1 .. n + 1 - 1 = 1 .. n
        BY <1>2
      <4> QED BY <4>1, <4>2
    <3>4. Fed(n + 1) = Sent
      BY <1>2, <3>3
    <3> HIDE DEF Fed
    <3> QED BY <3>2, <3>4
  <2> HIDE DEF Fed
  <2>4. ASSUME NEW i \in 1 .. n + 1, queue'[i] = e
        PROVE  Past(Fed(i), s, k)
    <3>1. CASE i \in 1 .. n
      BY <2>2, <2>4, <3>1
    <3>2. CASE i = n + 1
      BY <2>3, <2>4, <3>2
    <3> QED BY <1>2, <3>1, <3>2
  <2> QED BY <2>1, <2>4
<1> QED BY <1>2, <1>3 DEF SentInOrder

\* What a chain is after the sink took its event, X being either of the chains.
LEMMA WrittenChain ==
  ASSUME PInv, NEW C \in {plug.boot, plug.work}, NEW X \in {plug.boot, plug.work}, C # <<>>,
         C[1].op = "write", Len(queue) < QueueLimit,
         queue' = Append(queue, C[1].event[1]), durable' = durable
  PROVE  LET E == Tail(C)
         IN  /\ E \in Seq(Ops) /\ Chained(ses, E) /\ (EndsOK(C) => EndsOK(E)) /\ (Plain(C) => Plain(E))
             /\ Ordered(E, Sent', plug.blocked) /\ Ordered(X, Sent', plug.blocked)
             /\ \A s \in plug.blocked : AllPast(Sent', s) \/ (Calm(E, s) /\ Calm(X, s))
             /\ \A s \in Sessions \ plug.blocked : \A l \in Start[s] .. ses[s].n :
                   InChain(ses, C, s, l) => Given(Sent', s, l) \/ InChain(ses, E, s, l)
             /\ Sent \subseteq Sent' /\ queue' \in Seq(Sendables) /\ SentInOrder'
             /\ CursorOK(plug.cursor, Sent', plug.blocked)
<1> DEFINE o == C[1]
           e == o.event[1]
<1>1. /\ C \in Seq(Ops) /\ X \in Seq(Ops) /\ Chained(ses, C) /\ Ordered(C, Sent, plug.blocked)
      /\ Ordered(X, Sent, plug.blocked) /\ queue \in Seq(Sendables) /\ QueueLimit \in Nat
      /\ plug.blocked \subseteq Sessions /\ EndsOK(C)
  BY DshAssumption DEF PInv, PluginTypeOK, Plugs, ChainsOK, InOrder
<1>2. /\ o \in Ops /\ OpOK(ses, o) /\ e \in Sendables
      /\ o.l # 0 => o.l \in Lines(o.s) /\ o.event = EventsOf(o.s, o.l)
  BY <1>1, HeadReady DEF Ready, OpOK
<1> HIDE DEF e
<1>3. queue' \in Seq(Sendables) /\ Sent \subseteq Sent' /\ e \in Sent' /\ Len(queue) \in Nat
  BY <1>1, <1>2, Sending DEF e
<1>4. SentInOrder'
  BY <1>2, SentFurther DEF e
<1>5. \A s \in Sessions : \A k \in Nat \ {0} : Covers(o, s, k) => Given(Sent', s, k)
  <2>1. ASSUME NEW s \in Sessions, NEW k \in Nat \ {0}, Covers(o, s, k) PROVE Given(Sent', s, k)
    <3>1. o.s = s /\ o.l = k /\ k \in Lines(s) /\ o.event = EventsOf(s, k)
      BY <1>2, <2>1 DEF Covers
    <3>2. ToSet(EventsOf(s, k)) \subseteq {e}
      <4>1. CASE EventsOf(s, k) = <<>> /\ ToSet(EventsOf(s, k)) = {}
        BY <4>1
      <4>2. CASE \E x \in Sendables \cap Recorded : EventsOf(s, k) = <<x>> /\ ToSet(EventsOf(s, k)) = {x}
        <5>1. PICK x : EventsOf(s, k) = <<x>> /\ ToSet(EventsOf(s, k)) = {x}
          BY <4>2
        <5>2. <<x>>[1] = x
          OBVIOUS
        <5>3. e = x
          BY <3>1, <5>1, <5>2 DEF e
        <5> QED BY <5>1, <5>3
      <4> QED BY <3>1, <4>1, <4>2, EventsOfRecord
    <3> QED BY <1>3, <3>2 DEF Given
  <2> QED BY <2>1
<1>6. /\ Tail(C) \in Seq(Ops) /\ Chained(ses, Tail(C)) /\ Ordered(Tail(C), Sent', plug.blocked) /\ EndsOK(Tail(C))
      /\ Plain(C) => Plain(Tail(C))
      /\ \A s : Calm(C, s) => Calm(Tail(C), s)
      /\ \A s, l : InChain(ses, C, s, l) /\ ~Pledges(ses, o, s, l) => InChain(ses, Tail(C), s, l)
  BY <1>1, <1>3, <1>5, Dropped
<1>7. Ordered(X, Sent', plug.blocked)
  BY <1>1, <1>3, OrderedMore
<1>8. ASSUME NEW s \in plug.blocked PROVE AllPast(Sent', s) \/ (Calm(Tail(C), s) /\ Calm(X, s))
  <2>1. AllPast(Sent, s) => AllPast(Sent', s)
    BY <1>3 DEF AllPast, Past, Given
  <2>2. AllPast(Sent, s) \/ (Calm(C, s) /\ Calm(X, s))
    BY <1>1, <1>3 DEF PInv, BlockedOK
  <2> QED BY <1>6, <2>1, <2>2
<1>9. ASSUME NEW s \in Sessions \ plug.blocked, NEW l \in Start[s] .. ses[s].n, InChain(ses, C, s, l)
      PROVE  Given(Sent', s, l) \/ InChain(ses, Tail(C), s, l)
  <2>1. l \in Nat \ {0}
    <3>1. Start[s] \in Nat /\ Start[s] >= 2 /\ ses[s].n \in Nat
      BY SessionFacts DEF PInv
    <3> QED BY <3>1
  <2>2. CASE Pledges(ses, o, s, l)
    <3>1. Covers(o, s, l)
      BY <2>2 DEF Pledges
    <3> QED BY <1>5, <2>1, <3>1
  <2>3. CASE ~Pledges(ses, o, s, l)
    BY <1>6, <1>9, <2>3
  <2> QED BY <2>2, <2>3
<1>10. CursorOK(plug.cursor, Sent', plug.blocked)
  BY <1>3 DEF PInv, CursorOK, Given
<1> QED BY <1>3, <1>4, <1>6, <1>7, <1>8, <1>9, <1>10

\* A write that throws at a record: the record's cursor stays, the session is blocked.
LEMMA CaughtRecord ==
  ASSUME PInv, NEW C \in Seq(Ops), C # <<>>, C[1].op = "write", C[1].l > 0,
         Chained(ses, C), Ordered(C, Sent, plug.blocked), EndsOK(C)
  PROVE  LET E == Tail(Tail(C))
             B == plug.blocked \cup {C[1].s}
         IN  /\ E \in Seq(Ops) /\ Chained(ses, E) /\ EndsOK(E) /\ (Plain(C) => Plain(E)) /\ Ordered(E, Sent, B)
             /\ \A s \in Sessions \ B : \A l : InChain(ses, C, s, l) => InChain(ses, E, s, l)
<1> DEFINE T == Tail(C)
           B == plug.blocked \cup {C[1].s}
<1>1. \A s \in Sessions \ B : \A l : ~Covers(C[1], s, l) /\ ~Pledges(ses, C[1], s, l)
  BY DEF Covers, Pledges
<1>2. /\ T \in Seq(Ops) /\ Chained(ses, T) /\ Ordered(T, Sent, B) /\ EndsOK(T) /\ (Plain(C) => Plain(T))
      /\ \A s, l : InChain(ses, C, s, l) /\ ~Pledges(ses, C[1], s, l) => InChain(ses, T, s, l)
  <2> HIDE DEF B
  <2>1. plug.blocked \subseteq B
    BY DEF B
  <2> QED BY <1>1, <2>1, Dropped
<1>3. 1 \in DOMAIN C /\ 1 < Len(C) /\ C[2].op = "advance"
  <2>1. 1 \in DOMAIN C
    OBVIOUS
  <2>2. 1 < Len(C) /\ C[1 + 1].op = "advance"
    BY <2>1 DEF Chained
  <2> QED BY <2>1, <2>2
<1>4. T # <<>> /\ T[1] = C[2]
  <2>1. Len(Tail(C)) = Len(C) - 1 /\ \A i \in 1 .. Len(C) - 1 : Tail(C)[i] = C[i + 1]
    BY NoOps, Splice
  <2>2. Len(C) \in Nat /\ 1 \in 1 .. Len(C) - 1
    BY <1>3
  <2>3. T[1] = C[1 + 1] /\ Len(T) # 0
    BY <2>1, <2>2
  <2> HIDE DEF T
  <2>4. T # <<>>
    BY <2>3
  <2>5. T[1] = C[2]
    BY <2>3
  <2> QED BY <2>4, <2>5
<1>5. \A s, l : ~Covers(T[1], s, l) /\ ~Pledges(ses, T[1], s, l)
  BY <1>3, <1>4 DEF Covers, Pledges
<1> HIDE DEF T, B
<1>6. /\ Tail(T) \in Seq(Ops) /\ Chained(ses, Tail(T)) /\ Ordered(Tail(T), Sent, B) /\ EndsOK(Tail(T))
      /\ Plain(T) => Plain(Tail(T))
      /\ \A s, l : InChain(ses, T, s, l) /\ ~Pledges(ses, T[1], s, l) => InChain(ses, Tail(T), s, l)
  BY <1>2, <1>4, <1>5, Dropped
<1>7. \A s \in Sessions \ B : \A l : InChain(ses, C, s, l) => InChain(ses, Tail(T), s, l)
  BY <1>1, <1>2, <1>5, <1>6
<1> QED BY <1>2, <1>6, <1>7 DEF T, B

LEMMA Least ==
  ASSUME NEW n \in Nat, NEW S \in SUBSET (1 .. n), S # {}
  PROVE  Min(S) \in S
<1> DEFINE below == {pair \in Nat \X Nat : pair[1] < pair[2]}
<1>1. IsWellFoundedOn(below, Nat) /\ S \subseteq Nat
  BY NatLessThanWellFounded DEF OpToRel
<1>2. PICK i \in S : \A j \in S : ~(<<j, i>> \in below)
  <2> HIDE DEF below
  <2> QED BY <1>1, WFMin
<1>3. ASSUME NEW j \in S PROVE i <= j
  <2>1. i \in Nat /\ j \in Nat /\ ~(<<j, i>> \in below)
    BY <1>1, <1>2
  <2>2. j < i => <<j, i>> \in below
    BY <2>1
  <2> QED BY <2>1, <2>2
<1> QED BY <1>3 DEF Min

\* A write that throws elsewhere: the chain ends, or goes on after the adoption
\* of the session, where nothing depends on what was sent.
LEMMA CaughtOther ==
  ASSUME NEW C \in Seq(Ops), NEW h, Chained(h, C), EndsOK(C), NEW o, o.l = 0
  PROVE  LET E == Caught(o, C)
         IN  E \in Seq(Ops) /\ Chained(h, E) /\ EndsOK(E) /\ (Plain(C) => Plain(E)) /\ \A W, B : Ordered(E, W, B)
<1> DEFINE A == {i \in DOMAIN C : C[i].op = "adopted"}
           m == Min(A)
           E == SubSeq(C, m + 1, Len(C))
<1>1. Caught(o, C) = IF A = {} THEN <<>> ELSE E
  BY DEF Caught
<1>2. CASE A = {}
  BY <1>1, <1>2, NoOps, Nothing
<1>3. CASE A # {}
  <2>1. DOMAIN C = 1 .. Len(C) /\ Len(C) \in Nat
    BY DomLen
  <2>2. m \in A
    <3> DEFINE n == Len(C)
    <3>1. n \in Nat /\ A \in SUBSET (1 .. n)
      BY <2>1
    <3> HIDE DEF A, n
    <3> QED BY <1>3, <3>1, Least
  <2> HIDE DEF m
  <2>3. m \in 1 .. Len(C) /\ C[m].op = "adopted"
    BY <2>1, <2>2
  <2>4. /\ E \in Seq(Ops) /\ Len(E) = Len(C) - m /\ DOMAIN E = 1 .. Len(C) - m
        /\ \A i \in 1 .. Len(C) - m : E[i] = C[m + i]
    <3>1. m \in 0 .. Len(C)
      BY <2>1, <2>3
    <3> QED BY <3>1, Suffix
  <2> HIDE DEF E, A
  <2>5. ASSUME NEW i \in DOMAIN E PROVE OpOK(h, E[i]) /\ E[i].op \in Rests
    <3>1. m + i \in DOMAIN C /\ m \in DOMAIN C /\ m < m + i /\ E[i] = C[m + i]
      BY <2>1, <2>3, <2>4
    <3>2. C[m].op \in Endings
      BY <2>3 DEF Endings
    <3> QED BY <3>1, <3>2 DEF Chained, EndsOK
  <2>6. Chained(h, E) /\ \A W, B : Ordered(E, W, B)
    BY <2>5 DEF Chained, Ordered, Rests, Bounds
  <2>7. EndsOK(E)
    <3>1. ASSUME NEW i \in DOMAIN E, NEW j \in DOMAIN E, i < j
          PROVE  (E[i].op \in Endings => E[j].op \in Rests) /\ E[i].op # "open"
      <4>1. m + i \in DOMAIN C /\ m + j \in DOMAIN C /\ m + i < m + j /\ E[i] = C[m + i] /\ E[j] = C[m + j]
        BY <2>1, <2>3, <2>4, <3>1
      <4> QED BY <4>1 DEF EndsOK
    <3> QED BY <3>1 DEF EndsOK
  <2>8. Plain(C) => Plain(E)
    <3>1. \A i \in DOMAIN E : m + i \in DOMAIN C /\ E[i] = C[m + i]
      BY <2>1, <2>3, <2>4
    <3> QED BY <3>1 DEF Plain
  <2> QED BY <1>1, <1>3, <2>4, <2>6, <2>7, <2>8
<1> QED BY <1>2, <1>3

\* What a chain is after the sink was too full for its event.
LEMMA Overfull ==
  ASSUME PInv, NEW C \in {plug.boot, plug.work}, NEW X \in {plug.boot, plug.work}, C # <<>>,
         C[1].op = "write"
  PROVE  LET E == Caught(C[1], Tail(C))
             B == IF C[1].l > 0 THEN plug.blocked \cup {C[1].s} ELSE plug.blocked
         IN  /\ E \in Seq(Ops) /\ Chained(ses, E) /\ EndsOK(E) /\ (Plain(C) => Plain(E))
             /\ B \subseteq Sessions /\ plug.blocked \subseteq B
             /\ Ordered(E, Sent, B) /\ Ordered(X, Sent, B) /\ CursorOK(plug.cursor, Sent, B)
             /\ C[1].l > 0 => \A s \in Sessions \ B : \A l : InChain(ses, C, s, l) => InChain(ses, E, s, l)
<1> DEFINE o == C[1]
<1>1. /\ C \in Seq(Ops) /\ X \in Seq(Ops) /\ Chained(ses, C) /\ Ordered(C, Sent, plug.blocked)
      /\ Ordered(X, Sent, plug.blocked) /\ EndsOK(C) /\ plug.blocked \subseteq Sessions
      /\ CursorOK(plug.cursor, Sent, plug.blocked)
  BY DEF PInv, PluginTypeOK, Plugs, ChainsOK, InOrder
<1>2. o.s \in Sessions /\ o.l \in Nat
  BY <1>1, HeadReady DEF Ops
<1>3. CASE o.l > 0
  <2> DEFINE B == plug.blocked \cup {o.s}
             E == Tail(Tail(C))
  <2>1. /\ E \in Seq(Ops) /\ Chained(ses, E) /\ EndsOK(E) /\ (Plain(C) => Plain(E)) /\ Ordered(E, Sent, B)
        /\ \A s \in Sessions \ B : \A l : InChain(ses, C, s, l) => InChain(ses, E, s, l)
    BY <1>1, <1>3, CaughtRecord
  <2>2. Caught(o, Tail(C)) = E
    BY <1>3 DEF Caught
  <2>3. Ordered(X, Sent, B)
    <3>1. plug.blocked \subseteq B
      OBVIOUS
    <3> HIDE DEF B
    <3> QED BY <1>1, <3>1, OrderedMore
  <2>4. CursorOK(plug.cursor, Sent, B)
    BY <1>1 DEF CursorOK
  <2> QED BY <1>1, <1>2, <1>3, <2>1, <2>2, <2>3, <2>4
<1>4. CASE ~(o.l > 0)
  <2>1. o.l = 0
    BY <1>2, <1>4
  <2>2. Tail(C) \in Seq(Ops) /\ Chained(ses, Tail(C)) /\ EndsOK(Tail(C)) /\ (Plain(C) => Plain(Tail(C)))
    <3>1. \A s \in Sessions \ plug.blocked : \A k \in Nat \ {0} : ~Covers(o, s, k)
      BY <2>1 DEF Covers
    <3> QED BY <1>1, <3>1, Dropped
  <2>3. LET E == Caught(o, Tail(C))
        IN  /\ E \in Seq(Ops) /\ Chained(ses, E) /\ EndsOK(E) /\ (Plain(Tail(C)) => Plain(E))
            /\ \A W, B : Ordered(E, W, B)
    BY <2>1, <2>2, CaughtOther
  <2> QED BY <1>1, <1>4, <2>2, <2>3
<1> QED BY <1>3, <1>4

\* The observer with other chains.
Replacing(C, X, B, lost) == [plug EXCEPT !.boot = C, !.work = X, !.blocked = B, !.lost = lost]
LEMMA Replaced ==
  ASSUME PluginTypeOK, NEW C \in Seq(Ops), NEW X \in Seq(Ops), NEW B \in SUBSET Sessions, NEW lost \in BOOLEAN,
         NEW q, q = Replacing(C, X, B, lost)
  PROVE  /\ q.boot = C /\ q.work = X /\ q.blocked = B /\ q.lost = lost
         /\ q.pending = plug.pending /\ q.facts = plug.facts /\ q.cursor = plug.cursor
         /\ q.bootstrapping = plug.bootstrapping /\ q.running = plug.running /\ q.unread = plug.unread
         /\ q \in Plugs
BY DEF PluginTypeOK, Plugs, Replacing

\* The chains were C and X are now E and X: what of it PInv says, in a state
\* that knows the same sessions.
LEMMA ChainsKeep ==
  ASSUME PInv, NEW E, NEW X, NEW B, NEW q, q = plug',
         ses' = ses, Sent \subseteq Sent', queue' \in Seq(Sendables), durable' \subseteq Sendables,
         q.boot = E, q.work = X, q.blocked = B, q.pending = plug.pending, q.facts = plug.facts,
         q.bootstrapping = plug.bootstrapping, q.running = plug.running, plug.unread => q.unread,
         q \in Plugs, plug.lost => q.lost, plug.blocked \subseteq B,
         Chained(ses, E), Chained(ses, X), EndsOK(E), EndsOK(X), Plain(X), Ordered(E, Sent', B), Ordered(X, Sent', B),
         CursorOK(q.cursor, Sent', B), SentInOrder',
         \A s \in B : AllPast(Sent', s) \/ Len(queue') >= QueueLimit \/ (Calm(E, s) /\ Calm(X, s)),
         ~q.lost /\ ~q.unread => \A s \in Sessions \ B : \A l \in Start[s] .. ses[s].n :
            InChain(ses, plug.boot, s, l) \/ InChain(ses, plug.work, s, l) =>
               Given(Sent', s, l) \/ InChain(ses, E, s, l) \/ InChain(ses, X, s, l)
  PROVE  PInv'
<1>1. PluginTypeOK'
  BY DEF PInv, PluginTypeOK
<1>2. SessionsOK'
  BY DEF PInv, SessionsOK
<1>3. ChainsOK'
  BY DEF PInv, ChainsOK
<1>4. EndsOK(plug.boot)' /\ EndsOK(plug.work)' /\ Plain(plug.work)' /\ (~plug.bootstrapping => plug.pending = <<>>)'
  BY DEF PInv
<1>5. CursorOK(plug.cursor, Sent, plug.blocked)' /\ InOrder'
  BY DEF InOrder
<1>6. BlockedOK'
  BY DEF BlockedOK
<1>7. AllPromised'
  <2>1. SUFFICES ASSUME q.running, ~q.lost, ~q.unread, NEW s \in Sessions \ B, NEW l \in Start[s] .. ses[s].n
                 PROVE  \/ Given(Sent', s, l) \/ InChain(ses, E, s, l) \/ InChain(ses, X, s, l)
                        \/ InFacts(q.facts, s, l) \/ InFacts(q.pending, s, l)
    BY DEF AllPromised, Promised
  <2>2. Promised(s, l)
    BY <2>1 DEF PInv, AllPromised
  <2>3. Given(Sent, s, l) => Given(Sent', s, l)
    BY DEF Given
  <2> QED BY <2>1, <2>2, <2>3 DEF Promised
<1> QED BY <1>1, <1>2, <1>3, <1>4, <1>5, <1>6, <1>7 DEF PInv

LEMMA BootWriteKeeps ==
  ASSUME PInv, BootWrite
  PROVE  PInv'
<1> DEFINE C == plug.boot
           o == C[1]
           X == plug.work
           q == plug'
<1>1. /\ C \in Seq(Ops) /\ C # <<>> /\ Head(C) = o /\ o.op = "write" /\ X \in Seq(Ops) /\ ses' = ses
      /\ Chained(ses, X) /\ EndsOK(C) /\ EndsOK(X) /\ Plain(plug.work) /\ plug.blocked \subseteq Sessions /\ plug.lost \in BOOLEAN
      /\ queue \in Seq(Sendables) /\ durable \subseteq Sendables /\ PluginTypeOK /\ o.l \in Nat
      /\ QueueLimit \in Nat /\ Len(queue) \in Nat
  <2>1. C \in Seq(Ops) /\ C # <<>> /\ Head(C).op = "write"
    BY DEF BootWrite, PInv, PluginTypeOK, Plugs
  <2>2. Head(C) = o /\ o \in Ops
    BY <2>1
  <2>3. queue \in Seq(Sendables)
    BY DEF PInv, PluginTypeOK
  <2>4. o.l \in Nat
    BY <2>2 DEF Ops
  <2>5. X \in Seq(Ops) /\ plug.blocked \subseteq Sessions /\ plug.lost \in BOOLEAN
    BY DEF PInv, PluginTypeOK, Plugs
  <2>6. Chained(ses, X) /\ EndsOK(C) /\ EndsOK(X) /\ Plain(plug.work) /\ durable \subseteq Sendables /\ PluginTypeOK /\ ses' = ses
    BY DEF BootWrite, PInv, PluginTypeOK, ChainsOK
  <2>7. QueueLimit \in Nat /\ Len(queue) \in Nat
    BY <2>3, DshAssumption
  <2> QED BY <2>1, <2>2, <2>3, <2>4, <2>5, <2>6, <2>7
<1>2. CASE Len(queue) >= QueueLimit
  <2> DEFINE E == Caught(o, Tail(C))
             B == IF o.l > 0 THEN plug.blocked \cup {o.s} ELSE plug.blocked
             lost == IF o.l > 0 THEN plug.lost ELSE TRUE
  <2>1. /\ E \in Seq(Ops) /\ Chained(ses, E) /\ EndsOK(E) /\ (Plain(C) => Plain(E))
        /\ B \subseteq Sessions /\ plug.blocked \subseteq B
        /\ Ordered(E, Sent, B) /\ Ordered(X, Sent, B) /\ CursorOK(plug.cursor, Sent, B)
        /\ o.l > 0 => \A s \in Sessions \ B : \A l : InChain(ses, C, s, l) => InChain(ses, E, s, l)
    BY <1>1, Overfull
  <2>2. queue' = queue /\ durable' = durable /\ Sent' = Sent /\ plug' = [Throws(plug, o) EXCEPT !.boot = E]
    BY <1>1, <1>2 DEF BootWrite, Sent
  <2>3. plug' = [plug EXCEPT !.boot = E, !.work = X, !.blocked = B, !.lost = lost]
    <3> HIDE DEF E
    <3> QED BY <1>1, <2>2 DEF Throws, PluginTypeOK, Plugs
  <2>4. lost \in BOOLEAN /\ (plug.lost => lost) /\ (~lost => o.l > 0)
    BY <1>1
  <2> HIDE DEF E, B, lost, q, X
  <2>5. /\ q.boot = E /\ q.work = X /\ q.blocked = B /\ q.lost = lost
        /\ q.pending = plug.pending /\ q.facts = plug.facts /\ q.cursor = plug.cursor
        /\ q.bootstrapping = plug.bootstrapping /\ q.running = plug.running /\ q.unread = plug.unread
        /\ q \in Plugs
    <3>1. q = Replacing(E, X, B, lost)
      BY <2>3 DEF q, Replacing
    <3> QED BY <1>1, <2>1, <2>4, <3>1, Replaced
  <2>6. SentInOrder'
    BY <2>2 DEF PInv, SentInOrder
  <2>7. \A s \in B : Len(queue') >= QueueLimit
    BY <1>2, <2>2
  <2>8. Sent \subseteq Sent' /\ queue' \in Seq(Sendables) /\ durable' \subseteq Sendables
    BY <1>1, <2>2
  <2>9. Ordered(E, Sent', B) /\ Ordered(X, Sent', B) /\ CursorOK(q.cursor, Sent', B)
    BY <2>1, <2>2, <2>5
  <2>10. ~q.lost => \A s \in Sessions \ B : \A l \in Start[s] .. ses[s].n :
            InChain(ses, plug.boot, s, l) \/ InChain(ses, plug.work, s, l) =>
               Given(Sent', s, l) \/ InChain(ses, E, s, l) \/ InChain(ses, X, s, l)
    BY <2>1, <2>4, <2>5 DEF X
  <2>11. q = plug' /\ (plug.lost => q.lost)
    BY <2>4, <2>5 DEF q
  <2>12. Plain(X)
    BY <1>1 DEF X
  <2> HIDE DEF X
  <2> QED BY <1>1, <2>1, <2>5, <2>6, <2>7, <2>8, <2>9, <2>10, <2>11, <2>12, ChainsKeep
<1>3. CASE ~(Len(queue) >= QueueLimit)
  <2> DEFINE E == Tail(C)
             B == plug.blocked
  <2>1. Len(queue) < QueueLimit /\ queue' = Append(queue, o.event[1]) /\ durable' = durable
        /\ plug' = [plug EXCEPT !.boot = E]
    BY <1>1, <1>3 DEF BootWrite, Sink!Write
  <2>2. /\ E \in Seq(Ops) /\ Chained(ses, E) /\ (EndsOK(C) => EndsOK(E)) /\ (Plain(C) => Plain(E))
        /\ Ordered(E, Sent', B) /\ Ordered(X, Sent', B)
        /\ \A s \in B : AllPast(Sent', s) \/ (Calm(E, s) /\ Calm(X, s))
        /\ \A s \in Sessions \ B : \A l \in Start[s] .. ses[s].n :
              InChain(ses, C, s, l) => Given(Sent', s, l) \/ InChain(ses, E, s, l)
        /\ Sent \subseteq Sent' /\ queue' \in Seq(Sendables) /\ SentInOrder'
        /\ CursorOK(plug.cursor, Sent', B)
    BY <1>1, <2>1, WrittenChain
  <2>3. plug' = [plug EXCEPT !.boot = E, !.work = X, !.blocked = B, !.lost = plug.lost]
    <3> HIDE DEF E
    <3> QED BY <1>1, <2>1 DEF PluginTypeOK, Plugs
  <2> HIDE DEF E, B, q, X
  <2>4. /\ q.boot = E /\ q.work = X /\ q.blocked = B /\ q.lost = plug.lost
        /\ q.pending = plug.pending /\ q.facts = plug.facts /\ q.cursor = plug.cursor
        /\ q.bootstrapping = plug.bootstrapping /\ q.running = plug.running /\ q.unread = plug.unread
        /\ q \in Plugs
    <3>1. q = Replacing(E, X, B, plug.lost)
      BY <2>3 DEF q, Replacing
    <3>2. B \in SUBSET Sessions
      BY <1>1 DEF B
    <3> QED BY <1>1, <2>2, <3>1, <3>2, Replaced
  <2>5. plug.blocked \subseteq B /\ durable' \subseteq Sendables
    BY <1>1, <2>1 DEF B
  <2> QED BY <1>1, <2>2, <2>4, <2>5, ChainsKeep DEF q, X
<1> QED BY <1>2, <1>3

LEMMA DeliverWriteKeeps ==
  ASSUME PInv, DeliverWrite
  PROVE  PInv'
<1> DEFINE C == plug.work
           o == C[1]
           X == plug.boot
           q == plug'
<1>1. /\ C \in Seq(Ops) /\ C # <<>> /\ Head(C) = o /\ o.op = "write" /\ X \in Seq(Ops) /\ ses' = ses
      /\ Chained(ses, X) /\ EndsOK(C) /\ EndsOK(X) /\ Plain(plug.work) /\ plug.blocked \subseteq Sessions /\ plug.lost \in BOOLEAN
      /\ queue \in Seq(Sendables) /\ durable \subseteq Sendables /\ PluginTypeOK /\ o.l \in Nat
      /\ QueueLimit \in Nat /\ Len(queue) \in Nat
  <2>1. C \in Seq(Ops) /\ C # <<>> /\ Head(C).op = "write"
    BY DEF DeliverWrite, PInv, PluginTypeOK, Plugs
  <2>2. Head(C) = o /\ o \in Ops
    BY <2>1
  <2>3. queue \in Seq(Sendables)
    BY DEF PInv, PluginTypeOK
  <2>4. o.l \in Nat
    BY <2>2 DEF Ops
  <2>5. X \in Seq(Ops) /\ plug.blocked \subseteq Sessions /\ plug.lost \in BOOLEAN
    BY DEF PInv, PluginTypeOK, Plugs
  <2>6. Chained(ses, X) /\ EndsOK(C) /\ EndsOK(X) /\ Plain(plug.work) /\ durable \subseteq Sendables /\ PluginTypeOK /\ ses' = ses
    BY DEF DeliverWrite, PInv, PluginTypeOK, ChainsOK
  <2>7. QueueLimit \in Nat /\ Len(queue) \in Nat
    BY <2>3, DshAssumption
  <2> QED BY <2>1, <2>2, <2>3, <2>4, <2>5, <2>6, <2>7
<1>2. CASE Len(queue) >= QueueLimit
  <2> DEFINE E == Caught(o, Tail(C))
             B == IF o.l > 0 THEN plug.blocked \cup {o.s} ELSE plug.blocked
             lost == IF o.l > 0 THEN plug.lost ELSE TRUE
  <2>1. /\ E \in Seq(Ops) /\ Chained(ses, E) /\ EndsOK(E) /\ (Plain(C) => Plain(E))
        /\ B \subseteq Sessions /\ plug.blocked \subseteq B
        /\ Ordered(E, Sent, B) /\ Ordered(X, Sent, B) /\ CursorOK(plug.cursor, Sent, B)
        /\ o.l > 0 => \A s \in Sessions \ B : \A l : InChain(ses, C, s, l) => InChain(ses, E, s, l)
    BY <1>1, Overfull
  <2>2. queue' = queue /\ durable' = durable /\ Sent' = Sent /\ plug' = [Throws(plug, o) EXCEPT !.work = E]
    BY <1>1, <1>2 DEF DeliverWrite, Sent
  <2>3. plug' = [plug EXCEPT !.boot = X, !.work = E, !.blocked = B, !.lost = lost]
    <3> HIDE DEF E
    <3> QED BY <1>1, <2>2 DEF Throws, PluginTypeOK, Plugs
  <2>4. lost \in BOOLEAN /\ (plug.lost => lost) /\ (~lost => o.l > 0)
    BY <1>1
  <2> HIDE DEF E, B, lost, q, X
  <2>5. /\ q.boot = X /\ q.work = E /\ q.blocked = B /\ q.lost = lost
        /\ q.pending = plug.pending /\ q.facts = plug.facts /\ q.cursor = plug.cursor
        /\ q.bootstrapping = plug.bootstrapping /\ q.running = plug.running /\ q.unread = plug.unread
        /\ q \in Plugs
    <3>1. q = Replacing(X, E, B, lost)
      BY <2>3 DEF q, Replacing
    <3> QED BY <1>1, <2>1, <2>4, <3>1, Replaced
  <2>6. SentInOrder'
    BY <2>2 DEF PInv, SentInOrder
  <2>7. \A s \in B : Len(queue') >= QueueLimit
    BY <1>2, <2>2
  <2>8. Sent \subseteq Sent' /\ queue' \in Seq(Sendables) /\ durable' \subseteq Sendables
    BY <1>1, <2>2
  <2>9. Ordered(E, Sent', B) /\ Ordered(X, Sent', B) /\ CursorOK(q.cursor, Sent', B)
    BY <2>1, <2>2, <2>5
  <2>10. ~q.lost => \A s \in Sessions \ B : \A l \in Start[s] .. ses[s].n :
            InChain(ses, plug.boot, s, l) \/ InChain(ses, plug.work, s, l) =>
               Given(Sent', s, l) \/ InChain(ses, X, s, l) \/ InChain(ses, E, s, l)
    BY <2>1, <2>4, <2>5 DEF X
  <2>11. q = plug' /\ (plug.lost => q.lost)
    BY <2>4, <2>5 DEF q
  <2>12. Plain(E)
    BY <1>1, <2>1
  <2> HIDE DEF X
  <2> QED BY <1>1, <2>1, <2>5, <2>6, <2>7, <2>8, <2>9, <2>10, <2>11, <2>12, ChainsKeep
<1>3. CASE ~(Len(queue) >= QueueLimit)
  <2> DEFINE E == Tail(C)
             B == plug.blocked
  <2>1. Len(queue) < QueueLimit /\ queue' = Append(queue, o.event[1]) /\ durable' = durable
        /\ plug' = [plug EXCEPT !.work = E]
    BY <1>1, <1>3 DEF DeliverWrite, Sink!Write
  <2>2. /\ E \in Seq(Ops) /\ Chained(ses, E) /\ (EndsOK(C) => EndsOK(E)) /\ (Plain(C) => Plain(E))
        /\ Ordered(E, Sent', B) /\ Ordered(X, Sent', B)
        /\ \A s \in B : AllPast(Sent', s) \/ (Calm(E, s) /\ Calm(X, s))
        /\ \A s \in Sessions \ B : \A l \in Start[s] .. ses[s].n :
              InChain(ses, C, s, l) => Given(Sent', s, l) \/ InChain(ses, E, s, l)
        /\ Sent \subseteq Sent' /\ queue' \in Seq(Sendables) /\ SentInOrder'
        /\ CursorOK(plug.cursor, Sent', B)
    BY <1>1, <2>1, WrittenChain
  <2>3. plug' = [plug EXCEPT !.boot = X, !.work = E, !.blocked = B, !.lost = plug.lost]
    <3> HIDE DEF E
    <3> QED BY <1>1, <2>1 DEF PluginTypeOK, Plugs
  <2> HIDE DEF E, B, q, X
  <2>4. /\ q.boot = X /\ q.work = E /\ q.blocked = B /\ q.lost = plug.lost
        /\ q.pending = plug.pending /\ q.facts = plug.facts /\ q.cursor = plug.cursor
        /\ q.bootstrapping = plug.bootstrapping /\ q.running = plug.running /\ q.unread = plug.unread
        /\ q \in Plugs
    <3>1. q = Replacing(X, E, B, plug.lost)
      BY <2>3 DEF q, Replacing
    <3>2. B \in SUBSET Sessions
      BY <1>1 DEF B
    <3> QED BY <1>1, <2>2, <3>1, <3>2, Replaced
  <2>5. plug.blocked \subseteq B /\ durable' \subseteq Sendables
    BY <1>1, <2>1 DEF B
  <2> QED BY <1>1, <2>2, <2>4, <2>5, ChainsKeep DEF q, X
<1> QED BY <1>2, <1>3

-----------------------------------------------------------------------------
(* The other steps of the observer.                                        *)

LEMMA BootStepInv ==
  ASSUME PInv, BootStep
  PROVE  PInv'
<1> DEFINE o == plug.boot[1]
<1>1. plug.boot \in Seq(Ops) /\ plug.boot # <<>> /\ Chained(ses, plug.boot)
      /\ Ordered(plug.boot, Sent, plug.blocked)
  BY DEF BootStep, PInv, PluginTypeOK, Plugs, ChainsOK, InOrder
<1>2. Ready(o) /\ Head(plug.boot) = o
  BY <1>1, HeadReady
<1>3. /\ o.op \notin Waiting \cup {"write", "open"} /\ OnlyPlug
      /\ plug' = [Changes(plug, o) EXCEPT !.boot = Does(plug, o) \o Tail(plug.boot)]
  BY <1>2 DEF BootStep
<1>4. Takes(o, Does(plug, o), Changes(plug, o))
  BY <1>2, <1>3, TakenSteps DEF PInv
<1> HIDE DEF o
<1> DEFINE D == Does(plug, o)
           p == Changes(plug, o)
<1>5. Takes(plug.boot[1], D, p) /\ plug' = [p EXCEPT !.boot = D \o Tail(plug.boot)]
  BY <1>3, <1>4 DEF o
<1> HIDE DEF D, p
<1> QED BY <1>1, <1>3, <1>5, BootStepKeeps

LEMMA DeliverStepInv ==
  ASSUME PInv, DeliverStep
  PROVE  PInv'
<1> DEFINE o == plug.work[1]
<1>1. plug.work \in Seq(Ops) /\ plug.work # <<>> /\ Chained(ses, plug.work)
      /\ Ordered(plug.work, Sent, plug.blocked) /\ Plain(plug.work)
  BY DEF DeliverStep, PInv, PluginTypeOK, Plugs, ChainsOK, InOrder
<1>2. Ready(o) /\ Head(plug.work) = o /\ 1 \in DOMAIN plug.work
  BY <1>1, HeadReady
<1>3. /\ o.op # "write" /\ OnlyPlug
      /\ plug' = [Changes(plug, o) EXCEPT !.work = Does(plug, o) \o Tail(plug.work)]
  BY <1>2 DEF DeliverStep
<1>4. Takes(o, Does(plug, o), Changes(plug, o))
  <2>1. o.op \notin Waiting \cup {"write", "open"}
    BY <1>1, <1>2, <1>3 DEF Plain, Endings, Waiting
  <2> QED BY <1>2, <2>1, TakenSteps DEF PInv
<1> HIDE DEF o
<1> DEFINE D == Does(plug, o)
           p == Changes(plug, o)
<1>5. Takes(plug.work[1], D, p) /\ plug' = [p EXCEPT !.work = D \o Tail(plug.work)]
  BY <1>3, <1>4 DEF o
<1> HIDE DEF D, p
<1> QED BY <1>1, <1>3, <1>5, DeliverStepKeeps

\* The observer that takes up a fact.
TakingUp(C, F) == [plug EXCEPT !.work = C, !.facts = F]
LEMMA TakenUp ==
  ASSUME PluginTypeOK, NEW C \in Seq(Ops), NEW F \in Seq(Facts), NEW q, q = TakingUp(C, F)
  PROVE  /\ q.boot = plug.boot /\ q.work = C /\ q.blocked = plug.blocked /\ q.lost = plug.lost
         /\ q.pending = plug.pending /\ q.facts = F /\ q.cursor = plug.cursor
         /\ q.bootstrapping = plug.bootstrapping /\ q.running = plug.running /\ q.unread = plug.unread
         /\ q \in Plugs
BY DEF PluginTypeOK, Plugs, TakingUp

LEMMA TakeFactInv ==
  ASSUME PInv, TakeFact
  PROVE  PInv'
<1> DEFINE F == plug.facts
           f == Head(F)
           G == Tail(F)
           D == Accepts(f)
           q == plug'
<1>0. ses' = ses /\ queue' = queue /\ durable' = durable /\ Sent' = Sent
  BY DEF TakeFact, OnlyPlug, Sent
<1>1. F \in Seq(Facts) /\ F # <<>> /\ plug.work = <<>> /\ PluginTypeOK
  BY DEF TakeFact, PInv, PluginTypeOK, Plugs
<1>2. /\ f \in Facts /\ f = F[1] /\ 1 \in DOMAIN F /\ G \in Seq(Facts) /\ DOMAIN F = 1 .. Len(F)
      /\ DOMAIN G = 1 .. Len(F) - 1 /\ Len(F) \in Nat
      /\ \A i \in 1 .. Len(F) - 1 : G[i] = F[i + 1]
  BY <1>1
<1>3. \A i \in DOMAIN F : FactOK(ses, F[i])
  BY DEF PInv, ChainsOK
<1>4. /\ D \in Seq(Ops)
      /\ \A i \in DOMAIN D : /\ OpOK(ses, D[i]) /\ D[i].op \notin Bounds
                             /\ ~Active(D[i]) /\ D[i].op \notin Endings \cup {"open"}
      /\ \A s, l : f = Fact("event", s, l) => \E j \in DOMAIN D : Covers(D[j], s, l)
  <2>1. FactOK(ses, f)
    BY <1>2, <1>3
  <2> QED BY <1>2, <2>1, Accepted
<1>5. q = TakingUp(D, G)
  BY DEF TakeFact, TakingUp
<1> HIDE DEF D, f, F, G
<1>6. Chained(ses, D) /\ \A W, B : Ordered(D, W, B)
  BY <1>4, Light
<1>7. EndsOK(D) /\ Plain(D) /\ \A s : Calm(D, s)
  BY <1>4 DEF EndsOK, Plain, Calm
<1> HIDE DEF q
<1>8. /\ q.boot = plug.boot /\ q.work = D /\ q.blocked = plug.blocked /\ q.lost = plug.lost
      /\ q.pending = plug.pending /\ q.facts = G /\ q.cursor = plug.cursor
      /\ q.bootstrapping = plug.bootstrapping /\ q.running = plug.running /\ q.unread = plug.unread
      /\ q \in Plugs
  <2>1. G \in Seq(Facts) /\ D \in Seq(Ops) /\ PluginTypeOK
    BY <1>1, <1>2, <1>4
  <2> QED BY <1>5, <2>1, TakenUp
<1>9. PluginTypeOK'
  BY <1>0, <1>1, <1>8 DEF PluginTypeOK, q
<1>10. SessionsOK' /\ SentInOrder'
  BY <1>0 DEF PInv, SessionsOK, SentInOrder
<1>11. ChainsOK'
  <2>1. \A i \in DOMAIN G : FactOK(ses, G[i])
    BY <1>2, <1>3
  <2> QED BY <1>0, <1>6, <1>8, <2>1 DEF PInv, ChainsOK, q
<1>12. EndsOK(plug.boot)' /\ EndsOK(plug.work)' /\ Plain(plug.work)' /\ (~plug.bootstrapping => plug.pending = <<>>)'
  BY <1>7, <1>8 DEF PInv, q
<1>13. CursorOK(plug.cursor, Sent, plug.blocked)' /\ InOrder'
  BY <1>0, <1>6, <1>8 DEF PInv, InOrder, q
<1>14. BlockedOK'
  <2>1. BlockedOK
    BY DEF PInv
  <2> QED BY <1>0, <1>7, <1>8, <2>1 DEF BlockedOK, q
<1>15. AllPromised'
  <2>1. SUFFICES ASSUME q.running, ~q.lost, ~q.unread, NEW s \in Sessions \ q.blocked, NEW l \in Start[s] .. ses[s].n
                 PROVE  \/ Given(Sent, s, l) \/ InChain(ses, q.boot, s, l) \/ InChain(ses, q.work, s, l)
                        \/ InFacts(q.facts, s, l) \/ InFacts(q.pending, s, l)
    BY <1>0 DEF AllPromised, Promised, q
  <2>2. Promised(s, l)
    BY <1>8, <2>1 DEF PInv, AllPromised
  <2>3. ~InChain(ses, plug.work, s, l)
    BY <1>1 DEF InChain
  <2>4. ASSUME InFacts(F, s, l) PROVE InChain(ses, D, s, l) \/ InFacts(G, s, l)
    <3>1. PICK i \in DOMAIN F : F[i] = Fact("event", s, l)
      BY <2>4 DEF InFacts
    <3>2. CASE i = 1
      <4>1. \E j \in DOMAIN D : Covers(D[j], s, l)
        BY <1>2, <1>4, <3>1, <3>2
      <4> QED BY <4>1 DEF InChain, Pledges
    <3>3. CASE i # 1
      <4>1. i - 1 \in 1 .. Len(F) - 1 /\ (i - 1) + 1 = i
        <5>1. i \in 1 .. Len(F) /\ Len(F) \in Nat
          BY <1>2
        <5> QED BY <3>3, <5>1
      <4>2. i - 1 \in DOMAIN G /\ G[i - 1] = F[i]
        BY <1>2, <4>1
      <4> QED BY <3>1, <4>2 DEF InFacts
    <3> QED BY <3>2, <3>3
  <2> QED BY <1>8, <2>2, <2>3, <2>4 DEF Promised, F
<1> QED BY <1>9, <1>10, <1>11, <1>12, <1>13, <1>14, <1>15 DEF PInv

\* The observer that opens the delivery.
Opening(C) == [plug EXCEPT !.bootstrapping = FALSE, !.pending = <<>>, !.boot = C]
LEMMA Opened ==
  ASSUME PluginTypeOK, NEW C \in Seq(Ops), NEW q, q = Opening(C)
  PROVE  /\ q.boot = C /\ q.work = plug.work /\ q.blocked = plug.blocked /\ q.lost = plug.lost
         /\ q.pending = <<>> /\ q.facts = plug.facts /\ q.cursor = plug.cursor
         /\ q.bootstrapping = FALSE /\ q.running = plug.running /\ q.unread = plug.unread
         /\ q \in Plugs
<1>1. <<>> \in Seq(Facts)
  OBVIOUS
<1> QED BY <1>1 DEF PluginTypeOK, Plugs, Opening

\* An operation with something else than an event.
Holding(op, s, x) == [Op(op, s, 0) EXCEPT !.event = <<x>>]
LEMMA NewHolding ==
  ASSUME NEW op \in OpNames, NEW s \in Sessions, NEW x \in Items
  PROVE  LET o == Holding(op, s, x)
         IN  /\ o \in Ops /\ o.op = op /\ o.s = s /\ o.l = 0
             /\ o.event = <<x>> /\ o.event # <<>> /\ o.event[1] = x
<1>1. 0 \in Nat
  OBVIOUS
<1> QED BY <1>1, NewOp DEF Holding

LEMMA OpenDeliveryInv ==
  ASSUME PInv, OpenDelivery
  PROVE  PInv'
<1> DEFINE P == plug.pending
           Briefs(f) == Holding("fact", f.s, f)
           D == [i \in DOMAIN P |-> Briefs(P[i])]
           q == plug'
<1>0. ses' = ses /\ queue' = queue /\ durable' = durable /\ Sent' = Sent
  BY DEF OpenDelivery, OnlyPlug, Sent
<1>1. P \in Seq(Facts) /\ plug.boot \in Seq(Ops) /\ PluginTypeOK
  BY DEF PInv, PluginTypeOK, Plugs
<1>2. \A i \in DOMAIN P : FactOK(ses, P[i]) /\ P[i] \in Facts
  BY <1>1 DEF PInv, ChainsOK
<1>3. ASSUME NEW f \in Facts, FactOK(ses, f)
      PROVE  LET o == Briefs(f)
             IN  /\ o \in Ops /\ o.op = "fact" /\ o.s = f.s /\ o.l = 0 /\ o.event[1] = f /\ OpOK(ses, o)
  <2> DEFINE o == Briefs(f)
  <2>1. f.s \in Sessions /\ ses[f.s].n > 0
    BY <1>3 DEF FactOK
  <2>2. o \in Ops /\ o.op = "fact" /\ o.s = f.s /\ o.l = 0 /\ o.event # <<>> /\ o.event[1] = f
    <3>1. "fact" \in OpNames /\ f \in Items
      BY DEF OpNames, Items
    <3> QED BY <2>1, <3>1, NewHolding
  <2> HIDE DEF o
  <2>3. OpOK(ses, o)
    BY <1>3, <2>1, <2>2 DEF OpOK
  <2> QED BY <2>2, <2>3 DEF o
<1>4. D \in Seq(Ops) /\ DOMAIN D = DOMAIN P /\ \A i \in DOMAIN D : D[i] = Briefs(P[i])
  <2>1. \A i \in DOMAIN P : Briefs(P[i]) \in Ops
    BY <1>2, <1>3
  <2>2. DOMAIN P = 1 .. Len(P) /\ Len(P) \in Nat
    BY <1>1
  <2> HIDE DEF Briefs, P
  <2> QED BY <2>1, <2>2
<1>5. q = Opening(D)
  BY DEF OpenDelivery, Opening, Holding
<1> HIDE DEF Briefs, D
<1>6. \A i \in DOMAIN D : /\ D[i].op = "fact" /\ D[i].l = 0 /\ D[i].event[1] = P[i] /\ OpOK(ses, D[i])
  BY <1>2, <1>3, <1>4
<1> HIDE DEF q, P
<1>7. Chained(ses, D) /\ \A W, B : Ordered(D, W, B)
  BY <1>4, <1>6, Light DEF Bounds
<1>8. EndsOK(D) /\ \A s : Calm(D, s)
  BY <1>6 DEF EndsOK, Calm, Endings, Active
<1>9. /\ q.boot = D /\ q.work = plug.work /\ q.blocked = plug.blocked /\ q.lost = plug.lost
      /\ q.pending = <<>> /\ q.facts = plug.facts /\ q.cursor = plug.cursor
      /\ q.bootstrapping = FALSE /\ q.running = plug.running /\ q.unread = plug.unread
      /\ q \in Plugs
  BY <1>1, <1>4, <1>5, Opened
<1>10. PluginTypeOK'
  BY <1>0, <1>1, <1>9 DEF PluginTypeOK, q
<1>11. SessionsOK' /\ SentInOrder'
  BY <1>0 DEF PInv, SessionsOK, SentInOrder
<1>12. ChainsOK'
  BY <1>0, <1>7, <1>9 DEF PInv, ChainsOK, q
<1>13. EndsOK(plug.boot)' /\ EndsOK(plug.work)' /\ Plain(plug.work)' /\ (~plug.bootstrapping => plug.pending = <<>>)'
  BY <1>8, <1>9 DEF PInv, q
<1>14. CursorOK(plug.cursor, Sent, plug.blocked)' /\ InOrder'
  BY <1>0, <1>7, <1>9 DEF PInv, InOrder, q
<1>15. BlockedOK'
  <2>1. BlockedOK
    BY DEF PInv
  <2> QED BY <1>0, <1>8, <1>9, <2>1 DEF BlockedOK, q
<1>16. \A s, l : ~InChain(ses, plug.boot, s, l)
  <2>1. plug.boot # <<>> /\ Head(plug.boot).op = "open"
    BY DEF OpenDelivery
  <2>2. 1 \in DOMAIN plug.boot /\ plug.boot[1].op = "open" /\ DOMAIN plug.boot = 1 .. Len(plug.boot) /\ Len(plug.boot) \in Nat
    BY <1>1, <2>1
  <2>3. \A i \in DOMAIN plug.boot : ~(1 < i)
    BY <2>2 DEF PInv, EndsOK
  <2>4. \A i \in DOMAIN plug.boot : i = 1
    BY <2>2, <2>3
  <2> QED BY <2>2, <2>4 DEF InChain, Pledges, Covers
<1>17. AllPromised'
  <2>1. SUFFICES ASSUME q.running, ~q.lost, ~q.unread, NEW s \in Sessions \ q.blocked, NEW l \in Start[s] .. ses[s].n
                 PROVE  \/ Given(Sent, s, l) \/ InChain(ses, q.boot, s, l) \/ InChain(ses, q.work, s, l)
                        \/ InFacts(q.facts, s, l) \/ InFacts(q.pending, s, l)
    BY <1>0 DEF AllPromised, Promised, q
  <2>2. Promised(s, l)
    BY <1>9, <2>1 DEF PInv, AllPromised
  <2>3. ASSUME InFacts(P, s, l) PROVE InChain(ses, D, s, l)
    <3>1. PICK i \in DOMAIN P : P[i] = Fact("event", s, l)
      BY <2>3 DEF InFacts
    <3>2. i \in DOMAIN D /\ Pledges(ses, D[i], s, l)
      BY <1>4, <1>6, <3>1 DEF Pledges
    <3> QED BY <3>2 DEF InChain
  <2> QED BY <1>9, <1>16, <2>2, <2>3 DEF Promised, P
<1> QED BY <1>10, <1>11, <1>12, <1>13, <1>14, <1>15, <1>17 DEF PInv

\* The observer with other operations of start-up.
Booting(C, a, u) == [plug EXCEPT !.boot = C, !.announced = a, !.unread = u]
LEMMA Booted ==
  ASSUME PluginTypeOK, NEW C \in Seq(Ops), NEW a \in SUBSET Sessions, NEW u \in BOOLEAN, NEW q, q = Booting(C, a, u)
  PROVE  /\ q.boot = C /\ q.work = plug.work /\ q.blocked = plug.blocked /\ q.lost = plug.lost
         /\ q.pending = plug.pending /\ q.facts = plug.facts /\ q.cursor = plug.cursor
         /\ q.bootstrapping = plug.bootstrapping /\ q.running = plug.running /\ q.unread = u
         /\ q \in Plugs
BY DEF PluginTypeOK, Plugs, Booting

\* A wait of start-up ends: what follows in place of it leads where it led, and
\* nothing in it is done early.
LEMMA WaitEnds ==
  ASSUME PInv, plug.boot # <<>>, plug.boot[1].op \in Endings, NEW D \in Seq(Ops), NEW a \in SUBSET Sessions,
         NEW u \in BOOLEAN, ses' = ses, queue' = queue, durable' = durable,
         plug' = Booting(D \o Tail(plug.boot), a, u), plug.unread => u,
         Chained(ses, D), Ordered(D, Sent, plug.blocked), EndsOK(D), \A s : Calm(D, s),
         \A i \in DOMAIN D : D[i].op # "open", \A s, k : ~Covers(plug.boot[1], s, k),
         ~u => \A s \in Sessions \ plug.blocked : \A l \in Start[s] .. ses[s].n :
                  Pledges(ses, plug.boot[1], s, l) => InChain(ses, D, s, l)
  PROVE  PInv'
<1> DEFINE C == plug.boot
           E == D \o Tail(C)
           q == plug'
<1>0. Sent' = Sent
  BY DEF Sent
<1>1. /\ C \in Seq(Ops) /\ C # <<>> /\ Chained(ses, C) /\ EndsOK(C) /\ Ordered(C, Sent, plug.blocked)
      /\ PluginTypeOK /\ queue \in Seq(Sendables) /\ durable \subseteq Sendables
  BY DEF PInv, PluginTypeOK, Plugs, ChainsOK, InOrder
<1> HIDE DEF C
<1>2. E \in Seq(Ops)
  BY <1>1, Splice
<1>3. Chained(ses, E)
  BY <1>1, ChainedSplice
<1>4. EndsOK(E)
  BY <1>1, EndsSplice DEF C
<1>5. Ordered(E, Sent, plug.blocked)
  <2>1. \A s \in Sessions \ plug.blocked : \A k \in Nat \ {0} : Covers(C[1], s, k) =>
           Given(Sent, s, k) \/ \E j \in DOMAIN D : Covers(D[j], s, k)
    BY DEF C
  <2> QED BY <1>1, <2>1, OrderedSplice
<1>6. \A s : Calm(C, s) => Calm(E, s)
  BY <1>1, CalmSplice
<1>7. \A s, l : InChain(ses, C, s, l) /\ (~Pledges(ses, C[1], s, l) \/ InChain(ses, D, s, l)) => InChain(ses, E, s, l)
  BY <1>1, PledgeSplice
<1>8. q = Booting(E, a, u)
  BY DEF C
<1> HIDE DEF E, q
<1>9. /\ q.boot = E /\ q.work = plug.work /\ q.blocked = plug.blocked /\ q.lost = plug.lost
      /\ q.pending = plug.pending /\ q.facts = plug.facts /\ q.cursor = plug.cursor
      /\ q.bootstrapping = plug.bootstrapping /\ q.running = plug.running /\ q.unread = u
      /\ q \in Plugs
  BY <1>1, <1>2, <1>8, Booted
<1> DEFINE X == plug.work
           B == plug.blocked
<1>10. /\ Chained(ses, X) /\ EndsOK(X) /\ Plain(X) /\ Ordered(E, Sent', B) /\ Ordered(X, Sent', B)
       /\ CursorOK(q.cursor, Sent', B) /\ SentInOrder'
  <2>1. SentInOrder'
    BY <1>0 DEF PInv, SentInOrder
  <2> QED BY <1>0, <1>5, <1>9, <2>1 DEF PInv, ChainsOK, InOrder
<1>11. \A s \in B : AllPast(Sent', s) \/ Len(queue') >= QueueLimit \/ (Calm(E, s) /\ Calm(X, s))
  <2>1. BlockedOK
    BY DEF PInv
  <2> QED BY <1>0, <1>6, <2>1 DEF BlockedOK, C
<1>12. ~q.lost /\ ~q.unread => \A s \in Sessions \ B : \A l \in Start[s] .. ses[s].n :
            InChain(ses, plug.boot, s, l) \/ InChain(ses, plug.work, s, l) =>
               Given(Sent', s, l) \/ InChain(ses, E, s, l) \/ InChain(ses, X, s, l)
  BY <1>7, <1>9 DEF C
<1>13. Sent \subseteq Sent' /\ queue' \in Seq(Sendables) /\ durable' \subseteq Sendables /\ B \subseteq B
  BY <1>0, <1>1
<1>14. q = plug' /\ (plug.lost => q.lost) /\ (plug.unread => q.unread) /\ q.work = X /\ q.blocked = B
  BY <1>9 DEF q
<1> HIDE DEF X, B
<1> QED BY <1>3, <1>4, <1>9, <1>10, <1>11, <1>12, <1>13, <1>14, ChainsKeep DEF B

\* One list per session, in the order of the sessions.
Gathered(f) == FlattenSeq([i \in DOMAIN Order |-> f[Order[i]]])
LEMMA PerSession ==
  ASSUME NEW S, NEW f \in [Sessions -> Seq(S)]
  PROVE  /\ Gathered(f) \in Seq(S)
         /\ \A s \in Sessions : \A e \in ToSet(f[s]) : \E i \in DOMAIN Gathered(f) : Gathered(f)[i] = e
<1> DEFINE D == Gathered(f)
           lists == [i \in DOMAIN Order |-> f[Order[i]]]
<1>1. Order \in Seq(Sessions) /\ ToSet(Order) = Sessions
  BY DshAssumption
<1>2. lists \in Seq(Seq(S)) /\ DOMAIN lists = DOMAIN Order
  <2>1. DOMAIN Order = 1 .. Len(Order) /\ Len(Order) \in Nat /\ \A i \in 1 .. Len(Order) : Order[i] \in Sessions
    BY <1>1
  <2>2. \A i \in 1 .. Len(Order) : f[Order[i]] \in Seq(S)
    BY <2>1
  <2> QED BY <2>1, <2>2
<1>3. \A i \in DOMAIN Order : lists[i] = f[Order[i]]
  OBVIOUS
<1> HIDE DEF lists
<1>4. /\ FlattenSeq(lists) \in Seq(S)
      /\ \A j \in DOMAIN lists : \A e \in ToSet(lists[j]) : \E i \in DOMAIN FlattenSeq(lists) :
            FlattenSeq(lists)[i] = e
  BY <1>2, Flattened
<1>5. \A s \in Sessions : \E j \in DOMAIN Order : Order[j] = s
  BY <1>1 DEF ToSet
<1>6. D = FlattenSeq(lists)
  BY DEF lists, Gathered
<1>7. ASSUME NEW s \in Sessions, NEW e \in ToSet(f[s]) PROVE \E i \in DOMAIN D : D[i] = e
  <2>1. PICK j \in DOMAIN Order : Order[j] = s
    BY <1>5
  <2>2. j \in DOMAIN lists /\ e \in ToSet(lists[j])
    BY <1>2, <1>3, <2>1
  <2> QED BY <1>4, <1>6, <2>2
<1> QED BY <1>4, <1>6, <1>7

LEMMA ListPersistedInv ==
  ASSUME PInv, ListPersisted
  PROVE  PInv'
<1> DEFINE C == plug.boot
           cold == {s \in Sessions : ses[s].n > 0 /\ s \notin C[1].event[1]}
           S == {o \in Ops : o.op = "read" /\ o.l = 0 /\ OpOK(ses, o)}
           Reads(s) == IF s \in cold THEN <<Op("read", s, 0)>> ELSE <<>>
           f == [s \in Sessions |-> Reads(s)]
           D == Gathered(f)
<1>1. /\ C \in Seq(Ops) /\ C # <<>> /\ Head(C) = C[1] /\ C[1].op = "list" /\ PluginTypeOK /\ SessionsOK
      /\ plug.announced \in SUBSET Sessions /\ plug.unread \in BOOLEAN
      /\ ses' = ses /\ queue' = queue /\ durable' = durable
  <2>1. C \in Seq(Ops) /\ C # <<>> /\ Head(C).op = "list" /\ PluginTypeOK /\ SessionsOK
    BY DEF ListPersisted, PInv, PluginTypeOK, Plugs
  <2>2. plug.announced \in SUBSET Sessions /\ plug.unread \in BOOLEAN
    BY DEF PInv, PluginTypeOK, Plugs
  <2> QED BY <2>1, <2>2 DEF ListPersisted, OnlyPlug
<1>2. ASSUME NEW s \in cold PROVE Op("read", s, 0) \in S /\ Op("read", s, 0).s = s
  <2> DEFINE o == Op("read", s, 0)
  <2>1. o \in Ops /\ o.op = "read" /\ o.s = s /\ o.l = 0
    <3>1. "read" \in OpNames /\ 0 \in Nat /\ s \in Sessions
      BY DEF OpNames
    <3> QED BY <3>1, NewOp
  <2> HIDE DEF o
  <2>2. OpOK(ses, o)
    BY <2>1 DEF OpOK
  <2> QED BY <2>1, <2>2 DEF o
<1>3. f \in [Sessions -> Seq(S)]
  <2> SUFFICES ASSUME NEW s \in Sessions PROVE Reads(s) \in Seq(S)
    OBVIOUS
  <2>1. s \in cold => Op("read", s, 0) \in S
    BY <1>2
  <2> HIDE DEF S, cold
  <2> QED BY <2>1
<1>4. D \in Seq(S) /\ \A s \in Sessions : \A e \in ToSet(f[s]) : \E i \in DOMAIN D : D[i] = e
  <2> HIDE DEF f, S
  <2> QED BY <1>3, PerSession
<1>5. \A s \in cold : \E i \in DOMAIN D : D[i] = Op("read", s, 0)
  <2>1. \A s \in cold : s \in Sessions /\ Op("read", s, 0) \in ToSet(f[s])
    BY DEF ToSet
  <2> HIDE DEF f, cold, D
  <2> QED BY <1>4, <2>1
<1>6. plug' = Booting(D \o Tail(C), plug.announced, plug.unread)
  <2>1. [i \in DOMAIN Order |-> f[Order[i]]] = [i \in DOMAIN Order |-> Reads(Order[i])]
    <3>1. \A i \in DOMAIN Order : Order[i] \in Sessions
      BY DshAssumption
    <3> QED BY <3>1
  <2>2. plug' = [plug EXCEPT !.boot = FlattenSeq([i \in DOMAIN Order |-> Reads(Order[i])]) \o Tail(plug.boot)]
    BY <1>1 DEF ListPersisted
  <2>3. plug' = [plug EXCEPT !.boot = D \o Tail(C)]
    BY <2>1, <2>2 DEF Gathered
  <2> HIDE DEF D, C
  <2> QED BY <1>1, <2>3 DEF Booting, PluginTypeOK, Plugs
<1> HIDE DEF D, f
<1>7. D \in Seq(Ops) /\ \A i \in DOMAIN D : D[i].op = "read" /\ D[i].l = 0 /\ OpOK(ses, D[i])
  BY <1>4
<1>8. Chained(ses, D) /\ Ordered(D, Sent, plug.blocked)
  BY <1>7, Light DEF Bounds
<1>9. EndsOK(D) /\ (\A s : Calm(D, s)) /\ \A i \in DOMAIN D : D[i].op # "open"
  BY <1>7 DEF EndsOK, Endings, Rests, Calm, Active
<1>10. ASSUME NEW s \in Sessions, NEW l \in Start[s] .. ses[s].n, Pledges(ses, C[1], s, l)
       PROVE  InChain(ses, D, s, l)
  <2>1. s \notin C[1].event[1] /\ l <= ses[s].saved
    BY <1>1, <1>10 DEF Pledges, Covers
  <2>2. s \in cold
    BY <1>1, <2>1, SessionFacts
  <2>3. PICK i \in DOMAIN D : D[i] = Op("read", s, 0)
    BY <1>5, <2>2
  <2>4. Pledges(ses, D[i], s, l)
    BY <1>2, <1>7, <2>1, <2>2, <2>3 DEF Pledges
  <2> QED BY <2>4 DEF InChain
<1>11. C[1].op \in Endings /\ \A s, k : ~Covers(C[1], s, k)
  BY <1>1 DEF Endings, Covers
<1> HIDE DEF S, cold
<1> QED BY <1>1, <1>6, <1>7, <1>8, <1>9, <1>10, <1>11, WaitEnds

LEMMA Joined ==
  ASSUME NEW D \in Seq(Ops), NEW E \in Seq(Ops), NEW h, NEW W, NEW B,
         Chained(h, D), Chained(h, E), Ordered(D, W, B), Ordered(E, W, B)
  PROVE  /\ D \o E \in Seq(Ops) /\ Len(D \o E) = Len(D) + Len(E)
         /\ \A i \in 1 .. Len(D) : (D \o E)[i] = D[i]
         /\ \A i \in 1 .. Len(E) : (D \o E)[Len(D) + i] = E[i]
         /\ Chained(h, D \o E) /\ Ordered(D \o E, W, B)
<1> DEFINE C == D \o E
<1>1. /\ C \in Seq(Ops) /\ Len(C) = Len(D) + Len(E) /\ DOMAIN C = 1 .. Len(D) + Len(E)
      /\ Len(D) \in Nat /\ Len(E) \in Nat /\ DOMAIN D = 1 .. Len(D) /\ DOMAIN E = 1 .. Len(E)
      /\ \A i \in 1 .. Len(D) : C[i] = D[i]
      /\ \A i \in 1 .. Len(E) : C[Len(D) + i] = E[i]
  OBVIOUS
<1> HIDE DEF C
<1>2. ASSUME NEW i \in DOMAIN C
      PROVE  \/ i \in 1 .. Len(D) /\ C[i] = D[i]
             \/ \E j \in 1 .. Len(E) : i = Len(D) + j /\ C[i] = E[j]
  <2>1. CASE i \in 1 .. Len(D)
    BY <1>1, <2>1
  <2>2. CASE i \notin 1 .. Len(D)
    <3>1. i - Len(D) \in 1 .. Len(E) /\ i = Len(D) + (i - Len(D))
      BY <1>1, <2>2
    <3> QED BY <1>1, <3>1
  <2> QED BY <2>1, <2>2
<1>3. Chained(h, C)
  <2>1. ASSUME NEW i \in DOMAIN C
        PROVE  OpOK(h, C[i]) /\ (C[i].op = "write" /\ C[i].l > 0 => i < Len(C) /\ C[i + 1].op = "advance")
    <3>1. CASE i \in 1 .. Len(D) /\ C[i] = D[i]
      <4>1. OpOK(h, C[i]) /\ (C[i].op = "write" /\ C[i].l > 0 => i < Len(D) /\ D[i + 1].op = "advance")
        BY <1>1, <3>1 DEF Chained
      <4>2. i < Len(D) => C[i + 1] = D[i + 1] /\ i < Len(C)
        BY <1>1, <3>1
      <4> QED BY <4>1, <4>2
    <3>2. CASE \E j \in 1 .. Len(E) : i = Len(D) + j /\ C[i] = E[j]
      <4>1. PICK j \in 1 .. Len(E) : i = Len(D) + j /\ C[i] = E[j]
        BY <3>2
      <4>2. OpOK(h, C[i]) /\ (C[i].op = "write" /\ C[i].l > 0 => j < Len(E) /\ E[j + 1].op = "advance")
        BY <1>1, <4>1 DEF Chained
      <4>3. j < Len(E) => C[i + 1] = E[j + 1] /\ i < Len(C)
        <5>1. j < Len(E) => j + 1 \in 1 .. Len(E) /\ i + 1 = Len(D) + (j + 1) /\ i < Len(C)
          <6>1. Len(D) \in Nat /\ Len(E) \in Nat /\ Len(C) = Len(D) + Len(E)
            BY <1>1
          <6>2. j \in Nat /\ j >= 1 /\ j <= Len(E)
            BY <4>1, <6>1
          <6> QED BY <4>1, <6>1, <6>2
        <5> QED BY <1>1, <5>1
      <4> QED BY <4>2, <4>3
    <3> QED BY <1>2, <3>1, <3>2
  <2> QED BY <2>1 DEF Chained
<1>4. Ordered(C, W, B)
  <2>1. ASSUME NEW i \in DOMAIN C, C[i].op \in Bounds, C[i].s \notin B, NEW k \in Start[C[i].s] .. C[i].l - 1
        PROVE  Given(W, C[i].s, k) \/ \E j \in 1 .. i - 1 : Covers(C[j], C[i].s, k)
    <3>1. CASE i \in 1 .. Len(D) /\ C[i] = D[i]
      <4>1. Given(W, D[i].s, k) \/ \E j \in 1 .. i - 1 : Covers(D[j], D[i].s, k)
        BY <1>1, <2>1, <3>1 DEF Ordered
      <4>2. \A j \in 1 .. i - 1 : C[j] = D[j]
        BY <1>1, <3>1
      <4> QED BY <3>1, <4>1, <4>2
    <3>2. CASE \E j \in 1 .. Len(E) : i = Len(D) + j /\ C[i] = E[j]
      <4>1. PICK j \in 1 .. Len(E) : i = Len(D) + j /\ C[i] = E[j]
        BY <3>2
      <4>2. Given(W, E[j].s, k) \/ \E m \in 1 .. j - 1 : Covers(E[m], E[j].s, k)
        BY <1>1, <2>1, <4>1 DEF Ordered
      <4>3. \A m \in 1 .. j - 1 : Len(D) + m \in 1 .. i - 1 /\ C[Len(D) + m] = E[m]
        BY <1>1, <4>1
      <4> QED BY <4>1, <4>2, <4>3
    <3> QED BY <1>2, <3>1, <3>2
  <2> QED BY <2>1 DEF Ordered
<1> QED BY <1>1, <1>3, <1>4 DEF C

\* The observer at its start.
Starting(C) == [plug EXCEPT !.running = TRUE, !.boot = C]
LEMMA Started ==
  ASSUME PluginTypeOK, NEW C \in Seq(Ops), NEW q, q = Starting(C)
  PROVE  /\ q.boot = C /\ q.work = plug.work /\ q.blocked = plug.blocked /\ q.lost = plug.lost
         /\ q.pending = plug.pending /\ q.facts = plug.facts /\ q.cursor = plug.cursor
         /\ q.bootstrapping = plug.bootstrapping /\ q.running = TRUE /\ q.unread = plug.unread
         /\ q \in Plugs
BY DEF PluginTypeOK, Plugs, Starting

LEMMA ThreeOps ==
  ASSUME NEW a \in Ops, NEW b \in Ops, NEW c \in Ops
  PROVE  /\ <<a, b, c>> \in Seq(Ops) /\ DOMAIN <<a, b, c>> = 1 .. 3 /\ Len(<<a, b, c>>) = 3
         /\ <<a, b, c>>[1] = a /\ <<a, b, c>>[2] = b /\ <<a, b, c>>[3] = c
OBVIOUS

LEMMA StartPluginInv ==
  ASSUME PInv, StartPlugin
  PROVE  PInv'
<1> DEFINE live == {s \in Sessions : ses[s].live}
           S == {o \in Ops : OpOK(ses, o) /\ (o.op = "announce" \/ (o.op = "adopt" /\ o.l = Start[o.s]))}
           Adopts(s) == IF s \in live THEN <<Op("announce", s, 0), Op("adopt", s, Start[s])>> ELSE <<>>
           f == [s \in Sessions |-> Adopts(s)]
           F == Gathered(f)
           a == Holding("list", Order[1], live)
           b == Op("agents", Order[1], 0)
           c == Op("open", Order[1], 0)
           T == <<a, b, c>>
           E == F \o T
           q == plug'
<1>0. ses' = ses /\ queue' = queue /\ durable' = durable /\ Sent' = Sent
  BY DEF StartPlugin, OnlyPlug, Sent
<1>1. PluginTypeOK /\ SessionsOK
  BY DEF PInv
<1>2. ASSUME NEW s \in live
      PROVE  LET x == Op("announce", s, 0)
                 y == Op("adopt", s, Start[s])
             IN  x \in S /\ y \in S /\ y.op = "adopt" /\ y.s = s /\ y.l = Start[s] /\ <<x, y>> \in Seq(S)
  <2> DEFINE x == Op("announce", s, 0)
             n == Start[s]
             y == Op("adopt", s, n)
  <2>1. s \in Sessions /\ ses[s].n > 0 /\ n \in Nat
    BY <1>1, SessionFacts DEF SessionsOK, SessionOK
  <2> HIDE DEF n
  <2>2. x \in Ops /\ x.op = "announce" /\ x.s = s /\ y \in Ops /\ y.op = "adopt" /\ y.s = s /\ y.l = n
    <3>1. "announce" \in OpNames /\ "adopt" \in OpNames /\ 0 \in Nat
      BY DEF OpNames
    <3> QED BY <2>1, <3>1, NewOp
  <2> HIDE DEF x, y
  <2>3. OpOK(ses, x) /\ OpOK(ses, y)
    BY <2>1, <2>2 DEF OpOK, n
  <2>4. x \in S /\ y \in S
    BY <2>2, <2>3 DEF n
  <2> HIDE DEF S
  <2>5. <<x, y>> \in Seq(S)
    BY <2>4
  <2> QED BY <2>2, <2>4, <2>5 DEF x, y, n
<1>3. f \in [Sessions -> Seq(S)]
  <2> SUFFICES ASSUME NEW s \in Sessions PROVE Adopts(s) \in Seq(S)
    OBVIOUS
  <2> HIDE DEF S, live
  <2> QED BY <1>2
<1>4. F \in Seq(S) /\ \A s \in Sessions : \A e \in ToSet(f[s]) : \E i \in DOMAIN F : F[i] = e
  <2> HIDE DEF f, S
  <2> QED BY <1>3, PerSession
<1>5. \A s \in live : \E i \in DOMAIN F : F[i] = Op("adopt", s, Start[s])
  <2>1. \A x, y : y \in ToSet(<<x, y>>)
    <3> TAKE x, y
    <3>1. 2 \in DOMAIN <<x, y>> /\ <<x, y>>[2] = y
      OBVIOUS
    <3> QED BY <3>1 DEF ToSet
  <2>2. \A s \in live : s \in Sessions /\ Op("adopt", s, Start[s]) \in ToSet(f[s])
    BY <2>1
  <2> HIDE DEF f, live, F
  <2> QED BY <1>4, <2>2
<1>6. Order[1] \in Sessions
  <2>1. Order \in Seq(Sessions) /\ Sessions # {} /\ ToSet(Order) = Sessions
    BY DshAssumption
  <2>2. DOMAIN Order # {}
    BY <2>1 DEF ToSet
  <2> QED BY <2>1, <2>2
<1>7. /\ a \in Ops /\ a.op = "list" /\ a.event # <<>> /\ a.event[1] = live
      /\ b \in Ops /\ b.op = "agents" /\ c \in Ops /\ c.op = "open"
  <2>1. "list" \in OpNames /\ "agents" \in OpNames /\ "open" \in OpNames /\ 0 \in Nat
    BY DEF OpNames
  <2>2. live \in Items
    BY DEF Items
  <2> HIDE DEF live
  <2>3. a \in Ops /\ a.op = "list" /\ a.event # <<>> /\ a.event[1] = live
    BY <1>6, <2>1, <2>2, NewHolding
  <2>4. b \in Ops /\ b.op = "agents" /\ c \in Ops /\ c.op = "open"
    BY <1>6, <2>1, NewOp
  <2> QED BY <2>3, <2>4
<1>8. q = Starting(E)
  <2>1. [i \in DOMAIN Order |-> f[Order[i]]] = [i \in DOMAIN Order |-> Adopts(Order[i])]
    <3>1. \A i \in DOMAIN Order : Order[i] \in Sessions
      BY DshAssumption
    <3> QED BY <3>1
  <2>2. plug' = [plug EXCEPT !.running = TRUE,
                    !.boot = FlattenSeq([i \in DOMAIN Order |-> Adopts(Order[i])]) \o <<a, b, c>>]
    BY DEF StartPlugin, Holding
  <2> HIDE DEF f, Adopts, a, b, c
  <2> QED BY <2>1, <2>2 DEF Gathered, Starting
<1> HIDE DEF F, f, a, b, c
<1>9. OpOK(ses, a) /\ OpOK(ses, b) /\ OpOK(ses, c)
  <2>1. a.event[1] \in SUBSET Sessions
    BY <1>7
  <2> QED BY <1>7, <2>1 DEF OpOK
<1>10. /\ T \in Seq(Ops) /\ DOMAIN T = 1 .. 3 /\ Len(T) = 3 /\ T[1] = a /\ T[2] = b /\ T[3] = c
  BY <1>7, ThreeOps
<1> HIDE DEF T
<1>11. Chained(ses, T) /\ Ordered(T, Sent, plug.blocked)
  <2>1. \A i \in DOMAIN T : OpOK(ses, T[i]) /\ T[i].op \in {"list", "agents", "open"}
    BY <1>7, <1>9, <1>10
  <2> QED BY <2>1 DEF Chained, Ordered, Bounds
<1>12. F \in Seq(Ops) /\ \A i \in DOMAIN F : /\ F[i] \in Ops /\ OpOK(ses, F[i])
                                             /\ F[i].op = "announce" \/ (F[i].op = "adopt" /\ F[i].l = Start[F[i].s])
  BY <1>4
<1>13. Chained(ses, F) /\ Ordered(F, Sent, plug.blocked)
  <2>1. ASSUME NEW i \in DOMAIN F PROVE F[i].op \in Bounds => Start[F[i].s] .. F[i].l - 1 = {}
    <3>1. F[i].s \in Sessions
      BY <1>12 DEF Ops
    <3>2. Start[F[i].s] \in Nat
      BY <3>1, DshAssumption
    <3> QED BY <1>12, <3>2 DEF Bounds
  <2> QED BY <1>12, <2>1 DEF Chained, Ordered
<1>14. /\ E \in Seq(Ops) /\ Len(E) = Len(F) + 3
       /\ \A i \in 1 .. Len(F) : E[i] = F[i]
       /\ \A i \in 1 .. 3 : E[Len(F) + i] = T[i]
       /\ Chained(ses, E) /\ Ordered(E, Sent, plug.blocked)
  <2>1. /\ F \in Seq(Ops) /\ T \in Seq(Ops) /\ Chained(ses, F) /\ Chained(ses, T)
        /\ Ordered(F, Sent, plug.blocked) /\ Ordered(T, Sent, plug.blocked)
    BY <1>10, <1>11, <1>12, <1>13
  <2>2. /\ F \o T \in Seq(Ops) /\ Len(F \o T) = Len(F) + Len(T)
        /\ \A i \in 1 .. Len(F) : (F \o T)[i] = F[i]
        /\ \A i \in 1 .. Len(T) : (F \o T)[Len(F) + i] = T[i]
        /\ Chained(ses, F \o T) /\ Ordered(F \o T, Sent, plug.blocked)
    BY <2>1, Joined
  <2> QED BY <1>10, <2>2
<1> HIDE DEF E
<1>15. /\ DOMAIN E = 1 .. Len(F) + 3 /\ DOMAIN F = 1 .. Len(F) /\ Len(F) \in Nat
       /\ E[Len(F) + 1] = a /\ E[Len(F) + 2] = b /\ E[Len(F) + 3] = c
  BY <1>10, <1>12, <1>14
<1>16. \A i \in DOMAIN E : \/ i \in DOMAIN F /\ E[i].op \in {"announce", "adopt"}
                           \/ i = Len(F) + 1 /\ E[i].op = "list"
                           \/ i = Len(F) + 2 /\ E[i].op = "agents"
                           \/ i = Len(F) + 3 /\ E[i].op = "open"
  BY <1>7, <1>12, <1>14, <1>15
<1>17. EndsOK(E) /\ \A s : Calm(E, s)
  <2>1. ASSUME NEW i \in DOMAIN E, NEW j \in DOMAIN E, i < j
        PROVE  (E[i].op \in Endings => E[j].op \in Rests) /\ E[i].op # "open"
    BY <1>15, <1>16, <2>1 DEF Endings, Rests
  <2>2. \A i \in DOMAIN E : ~Active(E[i])
    BY <1>16 DEF Active
  <2> QED BY <2>1, <2>2 DEF EndsOK, Calm
<1> HIDE DEF q
<1>18. /\ q.boot = E /\ q.work = plug.work /\ q.blocked = plug.blocked /\ q.lost = plug.lost
       /\ q.pending = plug.pending /\ q.facts = plug.facts /\ q.cursor = plug.cursor
       /\ q.bootstrapping = plug.bootstrapping /\ q.running = TRUE /\ q.unread = plug.unread
       /\ q \in Plugs
  BY <1>1, <1>8, <1>14, Started
<1>19. PluginTypeOK'
  BY <1>0, <1>1, <1>18 DEF PluginTypeOK, q
<1>20. SessionsOK' /\ SentInOrder'
  BY <1>0 DEF PInv, SessionsOK, SentInOrder
<1>21. ChainsOK'
  BY <1>0, <1>14, <1>18 DEF PInv, ChainsOK, q
<1>22. EndsOK(plug.boot)' /\ EndsOK(plug.work)' /\ Plain(plug.work)' /\ (~plug.bootstrapping => plug.pending = <<>>)'
  BY <1>17, <1>18 DEF PInv, q
<1>23. CursorOK(plug.cursor, Sent, plug.blocked)' /\ InOrder'
  BY <1>0, <1>14, <1>18 DEF PInv, InOrder, q
<1>24. BlockedOK'
  <2>1. BlockedOK
    BY DEF PInv
  <2> QED BY <1>0, <1>17, <1>18, <2>1 DEF BlockedOK, q
<1>25. ASSUME NEW s \in Sessions, NEW l \in Start[s] .. ses[s].n PROVE InChain(ses, E, s, l)
  <2>1. Start[s] \in Nat /\ ses[s].n \in Nat
    BY <1>1, SessionFacts
  <2>2. CASE s \in live
    <3>1. PICK i \in DOMAIN F : F[i] = Op("adopt", s, Start[s])
      BY <1>5, <2>2
    <3>2. F[i].op = "adopt" /\ F[i].s = s /\ F[i].l = Start[s]
      BY <1>2, <2>2, <3>1
    <3>3. i \in DOMAIN E /\ E[i] = F[i]
      BY <1>14, <1>15
    <3>4. Pledges(ses, E[i], s, l)
      BY <2>1, <3>2, <3>3 DEF Pledges
    <3> QED BY <3>3, <3>4 DEF InChain
  <2>3. CASE s \notin live
    <3>1. l <= ses[s].saved
      BY <1>1, <2>3 DEF SessionsOK, SessionOK
    <3>2. Len(F) + 1 \in DOMAIN E /\ E[Len(F) + 1] = a
      BY <1>15
    <3>3. Pledges(ses, E[Len(F) + 1], s, l)
      BY <1>7, <2>3, <3>1, <3>2 DEF Pledges
    <3> QED BY <3>2, <3>3 DEF InChain
  <2> QED BY <2>2, <2>3
<1>26. AllPromised'
  BY <1>0, <1>18, <1>25 DEF AllPromised, Promised, q
<1> QED BY <1>19, <1>20, <1>21, <1>22, <1>23, <1>24, <1>26 DEF PInv

\* What a chain that has read a session goes on with.
LEMMA AdoptedChain ==
  ASSUME PInv, NEW s \in Sessions, ses[s].n > 0, NEW m \in ses[s].saved .. ses[s].n
  PROVE  LET V == IF s \in plug.announced THEN <<>> ELSE Writes(s, 0, Announced(s, m, FALSE))
             Z == AcceptAll(s, Start[s], m) \o <<Op("adopted", s, m + 1)>>
         IN  /\ V \in Seq(Ops) /\ AcceptAll(s, Start[s], m) \in Seq(Ops) /\ <<Op("adopted", s, m + 1)>> \in Seq(Ops)
             /\ V \o Z \in Seq(Ops) /\ Chained(ses, V \o Z) /\ Ordered(V \o Z, Sent, plug.blocked) /\ EndsOK(V \o Z)
             /\ \A t : Calm(V \o Z, t)
             /\ \A i \in DOMAIN (V \o Z) : (V \o Z)[i].op # "open"
             /\ \A l \in Start[s] .. m : InChain(ses, V \o Z, s, l)
<1> DEFINE V == IF s \in plug.announced THEN <<>> ELSE Writes(s, 0, Announced(s, m, FALSE))
           A == AcceptAll(s, Start[s], m)
           ad == Op("adopted", s, m + 1)
           Z == A \o <<ad>>
           D == V \o Z
<1>1. PluginTypeOK /\ SessionsOK
  BY DEF PInv
<1>2. /\ m \in Nat /\ m >= 1 /\ m <= Len(Log[s]) /\ Start[s] \in Nat /\ Start[s] <= m + 1 /\ m \in 1 .. Len(Log[s])
      /\ ses[s].saved <= m
  BY <1>1, SessionFacts
<1>3. V \in Seq(Ops) /\ \A i \in DOMAIN V : V[i].op = "write" /\ V[i].l = 0 /\ OpOK(ses, V[i])
  <2> DEFINE U == Writes(s, 0, Announced(s, m, FALSE))
  <2>1. U \in Seq(Ops) /\ \A i \in DOMAIN U : U[i].op = "write" /\ U[i].l = 0 /\ U[i].s = s /\ OpOK(ses, U[i])
    BY <1>2, Announcing
  <2> HIDE DEF U
  <2>2. V = <<>> \/ V = U
    BY DEF U
  <2> HIDE DEF V
  <2> QED BY <2>1, <2>2, NoOps
<1>4. ad \in Ops /\ ad.op = "adopted" /\ ad.s = s /\ ad.l = m + 1
  <2> DEFINE n == m + 1
  <2>1. "adopted" \in OpNames /\ n \in Nat
    BY <1>2 DEF OpNames
  <2> HIDE DEF n
  <2>2. LET o == Op("adopted", s, n) IN o \in Ops /\ o.op = "adopted" /\ o.s = s /\ o.l = n
    BY <2>1, NewOp
  <2> QED BY <2>2 DEF n
<1> HIDE DEF ad, V
<1>5. OpOK(ses, ad)
  <2>1. ad.l >= Start[ad.s] /\ ses[ad.s].n > 0
    BY <1>2, <1>4
  <2> QED BY <1>4, <2>1 DEF OpOK
<1>6. /\ Z \in Seq(Ops) /\ Len(Z) = m + 2 - Start[s] /\ Z[Len(Z)] = ad
      /\ \A i \in 1 .. Len(Z) - 1 : Z[i].op = "accept" /\ Z[i].s = s
      /\ Chained(ses, Z) /\ Ordered(Z, Sent, plug.blocked)
      /\ \A k \in Start[s] .. m : \E j \in DOMAIN Z : Covers(Z[j], s, k)
  <2> DEFINE first == Start[s]
  <2>1. first \in Nat /\ first >= Start[s] /\ first <= m + 1 /\ \A k \in Start[s] .. first - 1 : Given(Sent, s, k)
    BY <1>2
  <2> HIDE DEF first
  <2>2. LET Y == AcceptAll(s, first, m) \o <<ad>>
        IN  /\ Y \in Seq(Ops) /\ Len(Y) = m + 2 - first /\ Y[Len(Y)] = ad
            /\ \A i \in 1 .. Len(Y) - 1 : Y[i].op = "accept" /\ Y[i].s = s
            /\ Chained(ses, Y) /\ Ordered(Y, Sent, plug.blocked)
            /\ \A k \in first .. m : \E j \in DOMAIN Y : Covers(Y[j], s, k)
    <3>1. first >= Start[s] /\ first <= m + 1 /\ first \in Nat /\ m \in Nat /\ m <= Len(Log[s])
      BY <1>2, <2>1
    <3>2. s \notin plug.blocked => \A k \in Start[s] .. first - 1 : Given(Sent, s, k)
      BY <2>1
    <3>3. ad \in Ops /\ OpOK(ses, ad) /\ ad.s = s /\ ad.l = m + 1 /\ ad.op # "write"
      BY <1>4, <1>5
    <3> QED BY <1>1, <3>1, <3>2, <3>3, AcceptsThen
  <2> QED BY <2>2 DEF first
<1>7. A \in Seq(Ops)
  <2> DEFINE first == Start[s]
  <2>1. first \in Nat /\ first >= Start[s] /\ first <= m + 1
    BY <1>2
  <2> HIDE DEF first
  <2>2. AcceptAll(s, first, m) \in Seq(Ops)
    BY <1>1, <1>2, <2>1, AcceptsFrom
  <2> QED BY <2>2 DEF first
<1>8. <<ad>> \in Seq(Ops)
  BY <1>4, OneOp
<1> HIDE DEF Z, A
<1>9. Chained(ses, V) /\ Ordered(V, Sent, plug.blocked)
  BY <1>3, Light
<1>10. /\ D \in Seq(Ops) /\ Len(D) = Len(V) + Len(Z)
       /\ \A i \in 1 .. Len(V) : D[i] = V[i]
       /\ \A i \in 1 .. Len(Z) : D[Len(V) + i] = Z[i]
       /\ Chained(ses, D) /\ Ordered(D, Sent, plug.blocked)
  BY <1>3, <1>6, <1>9, Joined
<1> HIDE DEF D
<1>11. /\ DOMAIN D = 1 .. Len(V) + Len(Z) /\ DOMAIN V = 1 .. Len(V) /\ DOMAIN Z = 1 .. Len(Z)
       /\ Len(V) \in Nat /\ Len(Z) \in Nat
  BY <1>3, <1>6, <1>10
<1>12. ASSUME NEW i \in DOMAIN D
       PROVE  /\ ~Active(D[i]) /\ D[i].op # "open"
              /\ D[i].op \in Endings => i = Len(V) + Len(Z)
  <2>1. CASE i \in 1 .. Len(V)
    <3>1. D[i].op = "write" /\ D[i].l = 0
      BY <1>3, <1>10, <1>11, <2>1
    <3> QED BY <3>1, IdleWrite
  <2>2. CASE i \notin 1 .. Len(V)
    <3> DEFINE j == i - Len(V)
    <3>1. j \in 1 .. Len(Z) /\ i = Len(V) + j
      BY <1>11, <2>2
    <3> HIDE DEF j
    <3>2. D[i] = Z[j]
      BY <1>10, <3>1
    <3>3. CASE j = Len(Z)
      <4>1. D[i] = ad
        BY <1>6, <3>2, <3>3
      <4> QED BY <1>4, <3>1, <3>3, <4>1 DEF Active
    <3>4. CASE j # Len(Z)
      <4>1. j \in 1 .. Len(Z) - 1
        <5>1. Len(Z) \in Nat
          BY <1>11
        <5> QED BY <3>1, <3>4, <5>1
      <4>2. D[i].op = "accept"
        BY <1>6, <3>2, <4>1
      <4> QED BY <4>2 DEF Active, Endings
    <3> QED BY <3>3, <3>4
  <2> QED BY <2>1, <2>2
<1>13. EndsOK(D)
  <2>1. ASSUME NEW i \in DOMAIN D, NEW j \in DOMAIN D, i < j
        PROVE  D[i].op \notin Endings /\ D[i].op # "open"
    <3>1. i # Len(V) + Len(Z)
      BY <1>11, <2>1
    <3> QED BY <1>12, <3>1
  <2> QED BY <2>1 DEF EndsOK
<1>14. ASSUME NEW l \in Start[s] .. m PROVE InChain(ses, D, s, l)
  <2>1. PICK j \in DOMAIN Z : Covers(Z[j], s, l)
    BY <1>6
  <2>2. Len(V) + j \in DOMAIN D /\ D[Len(V) + j] = Z[j]
    BY <1>10, <1>11
  <2>3. Pledges(ses, D[Len(V) + j], s, l)
    BY <2>1, <2>2 DEF Pledges
  <2> QED BY <2>2, <2>3 DEF InChain
<1>15. \A t : Calm(D, t)
  BY <1>12 DEF Calm
<1> QED BY <1>3, <1>7, <1>8, <1>10, <1>12, <1>13, <1>14, <1>15 DEF V, A, ad, Z, D

LEMMA ReadPersistedInv ==
  ASSUME PInv, ReadPersisted
  PROVE  PInv'
<1> DEFINE C == plug.boot
           s == C[1].s
<1>1. /\ C \in Seq(Ops) /\ C # <<>> /\ Head(C) = C[1] /\ C[1].op = "read" /\ PluginTypeOK /\ SessionsOK
      /\ plug.announced \in SUBSET Sessions /\ plug.unread \in BOOLEAN
      /\ ses' = ses /\ queue' = queue /\ durable' = durable /\ s \in Sessions /\ ses[s].n > 0
  <2>1. C \in Seq(Ops) /\ C # <<>> /\ Head(C).op = "read" /\ PluginTypeOK /\ SessionsOK
        /\ Chained(ses, C) /\ Ordered(C, Sent, plug.blocked)
    BY DEF ReadPersisted, PInv, PluginTypeOK, Plugs, ChainsOK, InOrder
  <2>2. plug.announced \in SUBSET Sessions /\ plug.unread \in BOOLEAN
    BY DEF PInv, PluginTypeOK, Plugs
  <2>3. Head(C) = C[1] /\ C[1] \in Ops /\ OpOK(ses, C[1])
    BY <2>1, HeadReady DEF Ready
  <2>4. s \in Sessions /\ ses[s].n > 0
    BY <2>1, <2>3 DEF Ops, OpOK
  <2> QED BY <2>1, <2>2, <2>3, <2>4 DEF ReadPersisted
<1>2. C[1].op \in Endings /\ \A t, k : ~Covers(C[1], t, k) /\ (Pledges(ses, C[1], t, k) => t = s /\ k <= ses[s].saved)
  BY <1>1 DEF Endings, Covers, Pledges
<1>3. CASE \E m \in ses[s].saved .. ses[s].n :
             plug' = [plug EXCEPT !.announced = @ \cup {s},
                      !.boot = (IF s \in plug.announced THEN <<>>
                                ELSE Writes(s, 0, Announced(s, m, FALSE)))
                               \o AcceptAll(s, Start[s], m) \o <<Op("adopted", s, m + 1)>> \o Tail(@)]
  <2>1. PICK m \in ses[s].saved .. ses[s].n :
             plug' = [plug EXCEPT !.announced = @ \cup {s},
                      !.boot = (IF s \in plug.announced THEN <<>>
                                ELSE Writes(s, 0, Announced(s, m, FALSE)))
                               \o AcceptAll(s, Start[s], m) \o <<Op("adopted", s, m + 1)>> \o Tail(@)]
    BY <1>3
  <2> DEFINE V == IF s \in plug.announced THEN <<>> ELSE Writes(s, 0, Announced(s, m, FALSE))
             A == AcceptAll(s, Start[s], m)
             Y == <<Op("adopted", s, m + 1)>>
             Z == A \o Y
             D == V \o Z
  <2>2. /\ V \in Seq(Ops) /\ A \in Seq(Ops) /\ Y \in Seq(Ops)
        /\ D \in Seq(Ops) /\ Chained(ses, D) /\ Ordered(D, Sent, plug.blocked) /\ EndsOK(D)
        /\ (\A t : Calm(D, t))
        /\ \A i \in DOMAIN D : D[i].op # "open"
        /\ \A l \in Start[s] .. m : InChain(ses, D, s, l)
    <3> HIDE DEF s
    <3> QED BY <1>1, AdoptedChain
  <2>3. plug' = Booting(((V \o A) \o Y) \o Tail(C), plug.announced \cup {s}, plug.unread)
    <3> HIDE DEF s, C
    <3>1. plug' = [plug EXCEPT !.announced = @ \cup {s}, !.boot = ((V \o A) \o Y) \o Tail(plug.boot)]
      BY <2>1
    <3> HIDE DEF V, A, Y
    <3> QED BY <1>1, <3>1 DEF Booting, PluginTypeOK, Plugs, C
  <2>4. (V \o A) \o Y = D
    <3> HIDE DEF V, A, Y
    <3> QED BY <2>2, ConcatAssociative
  <2>5. plug.announced \cup {s} \in SUBSET Sessions
    BY <1>1
  <2>6. \A t \in Sessions \ plug.blocked : \A l \in Start[t] .. ses[t].n :
           Pledges(ses, C[1], t, l) => InChain(ses, D, t, l)
    <3>1. ASSUME NEW t \in Sessions, NEW l \in Start[t] .. ses[t].n, Pledges(ses, C[1], t, l)
          PROVE  InChain(ses, D, t, l)
      <4>1. t = s /\ l <= ses[s].saved
        BY <1>2, <3>1
      <4>2. ses[s].saved \in Nat /\ ses[s].n \in Nat /\ Start[s] \in Nat
        BY <1>1, SessionFacts
      <4>3. l \in Start[s] .. m
        BY <3>1, <4>1, <4>2
      <4> HIDE DEF D, s
      <4> QED BY <2>2, <4>1, <4>3
    <3> QED BY <3>1
  <2> DEFINE a == plug.announced \cup {s}
  <2>7. plug' = Booting(D \o Tail(C), a, plug.unread) /\ a \in SUBSET Sessions
    BY <2>3, <2>4, <2>5
  <2> HIDE DEF D, s, a
  <2> QED BY <1>1, <1>2, <2>2, <2>6, <2>7, WaitEnds
<1>4. CASE plug' = [plug EXCEPT !.boot = Tail(@), !.unread = TRUE]
  <2>1. <<>> \o Tail(C) = Tail(C)
    BY <1>1, Rest
  <2> DEFINE D == <<>>
             u == TRUE
  <2>2. plug' = Booting(D \o Tail(C), plug.announced, u)
    <3> DEFINE T == Tail(C)
    <3>1. plug' = [plug EXCEPT !.boot = T, !.unread = TRUE]
      BY <1>4
    <3> HIDE DEF T
    <3>2. plug' = Booting(T, plug.announced, u)
      BY <1>1, <3>1 DEF Booting, PluginTypeOK, Plugs
    <3> QED BY <2>1, <3>2 DEF T
  <2>3. /\ D \in Seq(Ops) /\ Chained(ses, D) /\ Ordered(D, Sent, plug.blocked) /\ EndsOK(D)
        /\ (\A t : Calm(D, t)) /\ (\A i \in DOMAIN D : D[i].op # "open") /\ u \in BOOLEAN /\ u
    BY NoOps, Nothing
  <2> HIDE DEF D, u
  <2> QED BY <1>1, <1>2, <2>2, <2>3, WaitEnds
<1> QED BY <1>1, <1>3, <1>4 DEF ReadPersisted

-----------------------------------------------------------------------------
(* The Harness and the sink.                                               *)

\* Sessions of which more is known: what held of the facts and the chains holds.
Further(h, g) ==
    \A s \in Sessions : /\ g[s].n > 0 => h[s].n > 0
                        /\ g[s].status \in Statuses => h[s].status \in Statuses
                        /\ g[s].saved <= h[s].saved
                        /\ g[s].saved \in Nat /\ h[s].saved \in Nat

LEMMA FactFurther ==
  ASSUME NEW h, NEW g, Further(h, g), NEW f, FactOK(g, f)
  PROVE  FactOK(h, f)
BY DEF FactOK, Further

LEMMA ChainedFurther ==
  ASSUME NEW h, NEW g, Further(h, g), NEW C \in Seq(Ops), Chained(g, C)
  PROVE  Chained(h, C)
<1>1. ASSUME NEW i \in DOMAIN C PROVE OpOK(h, C[i])
  <2> DEFINE o == C[i]
  <2>1. o \in Ops
    OBVIOUS
  <2>2. OpOK(g, o)
    BY DEF Chained
  <2> HIDE DEF o
  <2>3. o.s \in Sessions
    BY <2>1 DEF Ops
  <2>4. (g[o.s].n > 0 => h[o.s].n > 0) /\ (g[o.s].status \in Statuses => h[o.s].status \in Statuses)
    BY <2>3 DEF Further
  <2>5. o.op = "fact" => FactOK(h, o.event[1])
    BY <2>2, FactFurther DEF OpOK
  <2>6. OpOK(h, o)
    BY <2>2, <2>4, <2>5 DEF OpOK
  <2> QED BY <2>6 DEF o
<1> QED BY <1>1 DEF Chained

LEMMA InChainFurther ==
  ASSUME NEW h, NEW g, Further(h, g), NEW C, NEW s \in Sessions, NEW l \in Nat, InChain(g, C, s, l)
  PROVE  InChain(h, C, s, l)
<1>1. g[s].saved <= h[s].saved /\ g[s].saved \in Nat /\ h[s].saved \in Nat
  BY DEF Further
<1>2. l <= g[s].saved => l <= h[s].saved
  BY <1>1
<1>3. \A o : Pledges(g, o, s, l) => Pledges(h, o, s, l)
  BY <1>2 DEF Pledges
<1> QED BY <1>3 DEF InChain

LEMMA Appended ==
  ASSUME NEW F \in Seq(Facts), NEW f \in Facts
  PROVE  /\ Append(F, f) \in Seq(Facts)
         /\ \A i \in DOMAIN Append(F, f) : Append(F, f)[i] = f \/ (i \in DOMAIN F /\ Append(F, f)[i] = F[i])
         /\ \A s, l : InFacts(F, s, l) \/ f = Fact("event", s, l) => InFacts(Append(F, f), s, l)
<1> DEFINE G == Append(F, f)
           n == Len(F)
<1>1. /\ G \in Seq(Facts) /\ DOMAIN G = 1 .. n + 1 /\ DOMAIN F = 1 .. n /\ n \in Nat /\ G[n + 1] = f
      /\ \A i \in 1 .. n : G[i] = F[i]
  OBVIOUS
<1> HIDE DEF G, n
<1>2. \A i \in DOMAIN G : G[i] = f \/ (i \in DOMAIN F /\ G[i] = F[i])
  BY <1>1
<1>3. ASSUME NEW s, NEW l, InFacts(F, s, l) \/ f = Fact("event", s, l) PROVE InFacts(G, s, l)
  <2>1. CASE f = Fact("event", s, l)
    <3>1. n + 1 \in DOMAIN G /\ G[n + 1] = Fact("event", s, l)
      BY <1>1, <2>1
    <3> QED BY <3>1 DEF InFacts
  <2>2. CASE InFacts(F, s, l)
    <3>1. PICK i \in DOMAIN F : F[i] = Fact("event", s, l)
      BY <2>2 DEF InFacts
    <3>2. i \in DOMAIN G /\ G[i] = F[i]
      BY <1>1
    <3> QED BY <3>1, <3>2 DEF InFacts
  <2> QED BY <1>3, <2>1, <2>2
<1> QED BY <1>1, <1>2, <1>3 DEF G

\* The observer that has heard a fact.
Heard(P, F, o) == [plug EXCEPT !.pending = P, !.facts = F, !.overlap = o]
LEMMA HeardFields ==
  ASSUME PluginTypeOK, NEW P \in Seq(Facts), NEW F \in Seq(Facts), NEW o \in BOOLEAN, NEW q, q = Heard(P, F, o)
  PROVE  /\ q.boot = plug.boot /\ q.work = plug.work /\ q.blocked = plug.blocked /\ q.lost = plug.lost
         /\ q.pending = P /\ q.facts = F /\ q.cursor = plug.cursor
         /\ q.bootstrapping = plug.bootstrapping /\ q.running = plug.running /\ q.unread = plug.unread
         /\ q \in Plugs
BY DEF PluginTypeOK, Plugs, Heard

\* The lists of facts after one was heard.
LEMMA Hearing ==
  ASSUME PInv, NEW f \in Facts, Hear(f)
  PROVE  \E P \in Seq(Facts), F \in Seq(Facts), o \in BOOLEAN :
            /\ plug' = Heard(P, F, o)
            /\ \A i \in DOMAIN P : P[i] = f \/ (i \in DOMAIN plug.pending /\ P[i] = plug.pending[i])
            /\ \A i \in DOMAIN F : F[i] = f \/ (i \in DOMAIN plug.facts /\ F[i] = plug.facts[i])
            /\ \A s, l : InFacts(plug.pending, s, l) => InFacts(P, s, l)
            /\ \A s, l : InFacts(plug.facts, s, l) => InFacts(F, s, l)
            /\ plug.running => \A s, l : f = Fact("event", s, l) => InFacts(P, s, l) \/ InFacts(F, s, l)
            /\ ~plug.bootstrapping => P = plug.pending
<1> DEFINE P == plug.pending
           F == plug.facts
           o == plug.overlap
<1>1. P \in Seq(Facts) /\ F \in Seq(Facts) /\ o \in BOOLEAN /\ plug.boot \in Seq(Ops) /\ PluginTypeOK
  BY DEF PInv, PluginTypeOK, Plugs
<1> HIDE DEF P, F, o
<1>2. CASE ~plug.running
  <2>1. plug' = plug
    BY <1>2 DEF Hear
  <2>2. plug' = Heard(P, F, o)
    BY <1>1, <2>1 DEF PluginTypeOK, Plugs, Heard, P, F, o
  <2> QED BY <1>1, <1>2, <2>2 DEF P, F
<1>3. CASE plug.running /\ plug.bootstrapping
  <2>1. plug' = [plug EXCEPT !.pending = Append(P, f)]
    BY <1>3 DEF Hear, P
  <2> DEFINE G == Append(P, f)
  <2>2. /\ G \in Seq(Facts)
        /\ \A i \in DOMAIN G : G[i] = f \/ (i \in DOMAIN P /\ G[i] = P[i])
        /\ \A s, l : InFacts(P, s, l) \/ f = Fact("event", s, l) => InFacts(G, s, l)
    BY <1>1, Appended
  <2> HIDE DEF G
  <2>3. plug' = Heard(G, F, o)
    <3>1. plug' = [plug EXCEPT !.pending = G]
      BY <2>1 DEF G
    <3> QED BY <1>1, <3>1 DEF PluginTypeOK, Plugs, Heard, F, o
  <2> QED BY <1>1, <1>3, <2>2, <2>3 DEF P, F
<1>4. CASE plug.running /\ ~plug.bootstrapping
  <2> DEFINE G == Append(F, f)
             v == o \/ plug.boot # <<>>
  <2>1. plug' = [plug EXCEPT !.facts = G, !.overlap = v]
    BY <1>4 DEF Hear, F, o
  <2>2. /\ G \in Seq(Facts)
        /\ \A i \in DOMAIN G : G[i] = f \/ (i \in DOMAIN F /\ G[i] = F[i])
        /\ \A s, l : InFacts(F, s, l) \/ f = Fact("event", s, l) => InFacts(G, s, l)
    BY <1>1, Appended
  <2>3. v \in BOOLEAN
    OBVIOUS
  <2> HIDE DEF G, v
  <2>4. plug' = Heard(P, G, v)
    BY <1>1, <2>1 DEF PluginTypeOK, Plugs, Heard, P
  <2> QED BY <1>1, <1>4, <2>2, <2>3, <2>4 DEF P, F
<1> QED BY <1>2, <1>3, <1>4

LEMMA HearKeeps ==
  ASSUME PInv, NEW f \in Facts, Hear(f), NEW h, h = ses', Further(h, ses), SessionsOK', FactOK(h, f),
         h \in [Sessions -> [n : Nat, saved : Nat, live : BOOLEAN, agent : BOOLEAN, status : Statuses \cup {"none"}]],
         \A s \in Sessions : \A l \in Start[s] .. h[s].n : l <= ses[s].n \/ f = Fact("event", s, l)
  PROVE  PInv'
<1> DEFINE q == plug'
<1>0. queue' = queue /\ durable' = durable /\ Sent' = Sent
  BY DEF Hear, Sent
<1>1. PluginTypeOK
  BY DEF PInv
<1>2. PICK P \in Seq(Facts), F \in Seq(Facts), o \in BOOLEAN :
            /\ plug' = Heard(P, F, o)
            /\ \A i \in DOMAIN P : P[i] = f \/ (i \in DOMAIN plug.pending /\ P[i] = plug.pending[i])
            /\ \A i \in DOMAIN F : F[i] = f \/ (i \in DOMAIN plug.facts /\ F[i] = plug.facts[i])
            /\ \A s, l : InFacts(plug.pending, s, l) => InFacts(P, s, l)
            /\ \A s, l : InFacts(plug.facts, s, l) => InFacts(F, s, l)
            /\ plug.running => \A s, l : f = Fact("event", s, l) => InFacts(P, s, l) \/ InFacts(F, s, l)
            /\ ~plug.bootstrapping => P = plug.pending
  BY Hearing
<1>3. q = Heard(P, F, o)
  BY <1>2
<1> HIDE DEF q
<1>4. /\ q.boot = plug.boot /\ q.work = plug.work /\ q.blocked = plug.blocked /\ q.lost = plug.lost
      /\ q.pending = P /\ q.facts = F /\ q.cursor = plug.cursor
      /\ q.bootstrapping = plug.bootstrapping /\ q.running = plug.running /\ q.unread = plug.unread
      /\ q \in Plugs
  BY <1>1, <1>3, HeardFields
<1>5. PluginTypeOK'
  BY <1>0, <1>1, <1>4 DEF PluginTypeOK, q
<1>6. ChainsOK'
  <2>1. plug.boot \in Seq(Ops) /\ plug.work \in Seq(Ops) /\ Chained(ses, plug.boot) /\ Chained(ses, plug.work)
    BY DEF PInv, PluginTypeOK, Plugs, ChainsOK
  <2>2. Chained(h, plug.boot) /\ Chained(h, plug.work)
    BY <2>1, ChainedFurther
  <2>3. \A i \in DOMAIN P : FactOK(h, P[i])
    BY <1>2, FactFurther DEF PInv, ChainsOK
  <2>4. \A i \in DOMAIN F : FactOK(h, F[i])
    BY <1>2, FactFurther DEF PInv, ChainsOK
  <2> QED BY <1>4, <2>2, <2>3, <2>4 DEF ChainsOK, q
<1>7. EndsOK(plug.boot)' /\ EndsOK(plug.work)' /\ Plain(plug.work)' /\ (~plug.bootstrapping => plug.pending = <<>>)'
  BY <1>2, <1>4 DEF PInv, q
<1>8. CursorOK(plug.cursor, Sent, plug.blocked)' /\ InOrder'
  BY <1>0, <1>4 DEF PInv, InOrder, q
<1>9. BlockedOK'
  <2>1. BlockedOK
    BY DEF PInv
  <2> QED BY <1>0, <1>4, <2>1 DEF BlockedOK, q
<1>10. SentInOrder'
  BY <1>0 DEF PInv, SentInOrder
<1>11. AllPromised'
  <2>1. SUFFICES ASSUME q.running, ~q.lost, ~q.unread, NEW s \in Sessions \ q.blocked, NEW l \in Start[s] .. h[s].n
                 PROVE  \/ Given(Sent, s, l) \/ InChain(h, q.boot, s, l) \/ InChain(h, q.work, s, l)
                        \/ InFacts(q.facts, s, l) \/ InFacts(q.pending, s, l)
    BY <1>0 DEF AllPromised, Promised, q
  <2>2. CASE f = Fact("event", s, l)
    BY <1>2, <1>4, <2>1, <2>2
  <2>3. CASE l <= ses[s].n
    <3>1. l \in Nat /\ l \in Start[s] .. ses[s].n
      <4>1. Start[s] \in Nat /\ ses[s].n \in Nat /\ h[s].n \in Nat
        BY <1>1, SessionFacts DEF PInv
      <4> QED BY <2>3, <4>1
    <3>2. Promised(s, l)
      BY <1>4, <2>1, <3>1 DEF PInv, AllPromised
    <3>3. /\ InChain(ses, plug.boot, s, l) => InChain(h, plug.boot, s, l)
          /\ InChain(ses, plug.work, s, l) => InChain(h, plug.work, s, l)
      BY <3>1, InChainFurther
    <3> QED BY <1>2, <1>4, <3>2, <3>3 DEF Promised
  <2> QED BY <2>1, <2>2, <2>3
<1> QED BY <1>5, <1>6, <1>7, <1>8, <1>9, <1>10, <1>11 DEF PInv

LEMMA AFact ==
  ASSUME NEW kind \in Kinds \cup {"session", "event"}, NEW s \in Sessions, NEW l \in Nat
  PROVE  /\ Fact(kind, s, l) \in Facts /\ Fact(kind, s, l).kind = kind /\ Fact(kind, s, l).s = s /\ Fact(kind, s, l).l = l
BY DEF Fact, Facts

\* One session changes and the others stay.
Changed(t, r) == [ses EXCEPT ![t] = r]
Known == [n : Nat, saved : Nat, live : BOOLEAN, agent : BOOLEAN, status : Statuses \cup {"none"}]
LEMMA OneSession ==
  ASSUME PluginTypeOK, SessionsOK, NEW t \in Sessions, NEW r \in Known, SessionOK(r, t),
         r.n >= ses[t].n, r.saved >= ses[t].saved, ses[t].status \in Statuses => r.status \in Statuses,
         NEW h, h = Changed(t, r)
  PROVE  /\ h \in [Sessions -> Known] /\ h[t] = r /\ \A s \in Sessions \ {t} : h[s] = ses[s]
         /\ Further(h, ses)
         /\ \A s \in Sessions : SessionOK(h[s], s)
<1>1. ses \in [Sessions -> Known]
  BY DEF PluginTypeOK, Known
<1>2. h \in [Sessions -> Known] /\ h[t] = r /\ \A s \in Sessions \ {t} : h[s] = ses[s]
  BY <1>1 DEF Changed
<1>3. \A s \in Sessions : ses[s].n \in Nat /\ ses[s].saved \in Nat /\ h[s].n \in Nat /\ h[s].saved \in Nat
  BY <1>1, <1>2 DEF Known
<1>4. Further(h, ses)
  <2> SUFFICES ASSUME NEW s \in Sessions
               PROVE  /\ ses[s].n > 0 => h[s].n > 0
                      /\ ses[s].status \in Statuses => h[s].status \in Statuses
                      /\ ses[s].saved <= h[s].saved
                      /\ ses[s].saved \in Nat /\ h[s].saved \in Nat
    BY DEF Further
  <2>1. CASE s = t
    BY <1>2, <1>3, <2>1
  <2>2. CASE s # t
    <3>1. h[s] = ses[s]
      BY <1>2, <2>2
    <3> QED BY <1>3, <3>1
  <2> QED BY <2>1, <2>2
<1>5. ASSUME NEW s \in Sessions PROVE SessionOK(h[s], s)
  BY <1>2 DEF SessionsOK
<1> QED BY <1>2, <1>4, <1>5

LEMMA ChangeKeeps ==
  ASSUME PInv, NEW t \in Sessions, NEW r \in Known, SessionOK(r, t), NEW f \in Facts, Hear(f),
         r.n >= ses[t].n, r.saved >= ses[t].saved, ses[t].status \in Statuses => r.status \in Statuses,
         ses' = [ses EXCEPT ![t] = r], f.s = t, r.n > 0,
         f.kind = "event" => f.l \in Lines(t),
         \A l \in Start[t] .. r.n : l <= ses[t].n \/ f = Fact("event", t, l)
  PROVE  PInv'
<1> DEFINE h == ses'
<1>1. PluginTypeOK /\ SessionsOK
  BY DEF PInv
<1>0. h = Changed(t, r)
  BY DEF Changed
<1> HIDE DEF h
<1>2. /\ h \in [Sessions -> Known] /\ h[t] = r /\ \A s \in Sessions \ {t} : h[s] = ses[s]
      /\ Further(h, ses)
      /\ \A s \in Sessions : SessionOK(h[s], s)
  BY <1>0, <1>1, OneSession
<1>3. SessionsOK'
  BY <1>2 DEF SessionsOK, h
<1>4. FactOK(h, f)
  BY <1>2 DEF FactOK
<1>5. ASSUME NEW s \in Sessions, NEW l \in Start[s] .. h[s].n PROVE l <= ses[s].n \/ f = Fact("event", s, l)
  <2>1. CASE s = t
    BY <1>2, <2>1, <1>5
  <2>2. CASE s # t
    <3>1. h[s] = ses[s] /\ Start[s] \in Nat /\ ses[s].n \in Nat
      BY <1>1, <1>2, <2>2, SessionFacts
    <3> QED BY <1>5, <3>1
  <2> QED BY <2>1, <2>2
<1>6. h \in [Sessions -> [n : Nat, saved : Nat, live : BOOLEAN, agent : BOOLEAN, status : Statuses \cup {"none"}]]
  BY <1>2 DEF Known
<1>7. h = ses'
  BY DEF h
<1>8. \A s \in Sessions : \A l \in Start[s] .. h[s].n : l <= ses[s].n \/ f = Fact("event", s, l)
  BY <1>5
<1>9. Further(h, ses)
  BY <1>2
<1> QED BY <1>3, <1>4, <1>6, <1>7, <1>8, <1>9, HearKeeps

LEMMA SessionIs ==
  ASSUME PluginTypeOK, SessionsOK, NEW s \in Sessions
  PROVE  /\ ses[s] \in Known /\ ses \in [Sessions -> Known] /\ SessionOK(ses[s], s)
BY DEF PluginTypeOK, Known, SessionsOK

LEMMA OpenSessionInv ==
  ASSUME PInv, NEW s \in Sessions, OpenSession(s)
  PROVE  PInv'
<1> DEFINE m == Max({ses[s].n, Start[s] - 1})
           r == [ses[s] EXCEPT !.live = TRUE, !.n = m, !.saved = m]
           f == Fact("session", s, 0)
<1>1. PluginTypeOK /\ SessionsOK
  BY DEF PInv
<1>2. /\ ses[s].n \in Nat /\ ses[s].saved \in Nat /\ Start[s] \in Nat /\ Start[s] >= 2 /\ Start[s] <= Len(Log[s]) + 1
      /\ Len(Log[s]) \in Nat /\ ses[s].n <= Len(Log[s]) /\ ses[s].saved <= ses[s].n
  BY <1>1, SessionFacts
<1>3. m = IF ses[s].n >= Start[s] - 1 THEN ses[s].n ELSE Start[s] - 1
  BY <1>2, MaxOfTwo
<1>4. m \in Nat /\ m >= ses[s].n /\ m >= Start[s] - 1 /\ m > 0 /\ m <= Len(Log[s]) /\ (m = ses[s].n \/ m = Start[s] - 1)
  <2> HIDE DEF m
  <2> QED BY <1>2, <1>3
<1>5. ses[s] \in Known /\ ses \in [Sessions -> Known] /\ SessionOK(ses[s], s)
  BY <1>1, SessionIs
<1>6. ses' = [ses EXCEPT ![s] = r]
  BY <1>5 DEF OpenSession
<1>7. Hear(f) /\ f \in Facts /\ f.kind = "session" /\ f.s = s
  <2>1. "session" \in Kinds \cup {"session", "event"} /\ 0 \in Nat
    OBVIOUS
  <2>2. f \in Facts /\ f.kind = "session" /\ f.s = s
    BY <2>1, AFact
  <2> QED BY <2>2 DEF OpenSession
<1> HIDE DEF m, f
<1>8. /\ r \in Known /\ r.live /\ r.n = m /\ r.saved = m /\ r.agent = ses[s].agent /\ r.status = ses[s].status
  BY <1>4, <1>5 DEF Known
<1>9. SessionOK(r, s)
  <2> HIDE DEF r
  <2> QED BY <1>4, <1>5, <1>8 DEF SessionOK
<1> HIDE DEF r
<1>10. \A l \in Start[s] .. r.n : l <= ses[s].n \/ f = Fact("event", s, l)
  BY <1>2, <1>4, <1>8
<1>11. r.n >= ses[s].n /\ r.saved >= ses[s].saved /\ r.n > 0
  BY <1>2, <1>4, <1>8
<1> QED BY <1>6, <1>7, <1>8, <1>9, <1>10, <1>11, ChangeKeeps

LEMMA AppendRecordInv ==
  ASSUME PInv, NEW s \in Sessions, AppendRecord(s)
  PROVE  PInv'
<1> DEFINE m == ses[s].n + 1
           r == [ses[s] EXCEPT !.n = m]
           f == Fact("event", s, m)
<1>1. PluginTypeOK /\ SessionsOK
  BY DEF PInv
<1>2. /\ ses[s].n \in Nat /\ ses[s].saved \in Nat /\ Start[s] \in Nat /\ Start[s] >= 2 /\ Start[s] <= Len(Log[s]) + 1
      /\ Len(Log[s]) \in Nat /\ ses[s].n <= Len(Log[s]) /\ ses[s].saved <= ses[s].n
      /\ ses[s].n > 0 => ses[s].saved >= Start[s] - 1
  BY <1>1, SessionFacts
<1>3. ses[s] \in Known /\ ses \in [Sessions -> Known] /\ SessionOK(ses[s], s)
  BY <1>1, SessionIs
<1>4. ses[s].live /\ ses[s].n < Len(Log[s]) /\ ses' = [ses EXCEPT ![s] = r] /\ ses[s].n > 0
  BY <1>3 DEF AppendRecord, SessionOK
<1>5. m \in Nat /\ m > 0 /\ m <= Len(Log[s]) /\ m >= Start[s] /\ m >= ses[s].n /\ m \in Lines(s)
  <2>1. m = ses[s].n + 1
    OBVIOUS
  <2> HIDE DEF m, r, f
  <2>2. ses[s].saved >= Start[s] - 1
    BY <1>2, <1>4
  <2>3. m \in Nat /\ m > 0 /\ m <= Len(Log[s]) /\ m >= ses[s].n
    BY <1>2, <1>4, <2>1
  <2>4. m >= Start[s]
    BY <1>2, <2>1, <2>2
  <2> QED BY <1>2, <2>3, <2>4 DEF Lines
<1>6. Hear(f) /\ f \in Facts /\ f.kind = "event" /\ f.s = s /\ f.l = m
  <2>1. Hear(f)
    BY DEF AppendRecord
  <2>2. "event" \in Kinds \cup {"session", "event"} /\ m \in Nat
    BY <1>5
  <2> HIDE DEF m
  <2>3. f \in Facts /\ f.kind = "event" /\ f.s = s /\ f.l = m
    BY <2>2, AFact
  <2> QED BY <2>1, <2>3
<1>7. r \in Known /\ r.live = ses[s].live /\ r.n = m /\ r.saved = ses[s].saved /\ r.agent = ses[s].agent
      /\ r.status = ses[s].status
  BY <1>3, <1>5 DEF Known
<1>8. f = Fact("event", s, m)
  OBVIOUS
<1>9. \A l \in Start[s] .. m : l <= ses[s].n \/ l = m
  BY <1>2
<1> HIDE DEF m, r, f
<1>10. SessionOK(r, s)
  <2>1. r.saved <= r.n /\ (r.n > 0 => r.saved >= Start[s] - 1)
    BY <1>2, <1>4, <1>5, <1>7
  <2> QED BY <1>3, <1>4, <1>5, <1>7, <2>1 DEF SessionOK
<1>11. \A l \in Start[s] .. r.n : l <= ses[s].n \/ f = Fact("event", s, l)
  BY <1>7, <1>8, <1>9
<1>12. r.n >= ses[s].n /\ r.saved >= ses[s].saved /\ r.n > 0
  BY <1>2, <1>5, <1>7
<1> QED BY <1>4, <1>5, <1>6, <1>7, <1>10, <1>11, <1>12, ChangeKeeps

\* Of a session nothing changes but its agent.
LEMMA AgentKeeps ==
  ASSUME PInv, NEW s \in Sessions, NEW r \in Known, NEW f \in Facts, Hear(f), ses' = [ses EXCEPT ![s] = r],
         f.s = s, f.kind # "event", ses[s].n > 0, r.n = ses[s].n, r.saved = ses[s].saved, r.live = ses[s].live,
         ses[s].status \in Statuses => r.status \in Statuses, r.agent => r.live /\ r.status \in Statuses
  PROVE  PInv'
<1>1. PluginTypeOK /\ SessionsOK
  BY DEF PInv
<1>2. ses[s].n \in Nat /\ ses[s].saved \in Nat /\ Start[s] \in Nat
  BY <1>1, SessionFacts
<1>3. SessionOK(ses[s], s)
  BY <1>1 DEF SessionsOK
<1>4. SessionOK(r, s)
  BY <1>3 DEF SessionOK
<1>5. r.n >= ses[s].n /\ r.saved >= ses[s].saved /\ r.n > 0 /\ \A l \in Start[s] .. r.n : l <= ses[s].n
  BY <1>2
<1> QED BY <1>4, <1>5, ChangeKeeps

LEMMA SetStatusInv ==
  ASSUME PInv, NEW s \in Sessions, NEW status \in Statuses, SetStatus(s, status)
  PROVE  PInv'
<1> DEFINE r == [ses[s] EXCEPT !.agent = TRUE, !.status = status]
           f == Fact(status, s, 0)
<1>1. PluginTypeOK /\ SessionsOK
  BY DEF PInv
<1>2. ses[s] \in Known /\ ses \in [Sessions -> Known] /\ SessionOK(ses[s], s)
  BY <1>1, SessionIs
<1>3. ses[s].live /\ ses[s].n > 0 /\ ses' = [ses EXCEPT ![s] = r]
  BY <1>2 DEF SetStatus, SessionOK
<1>4. Hear(f) /\ f \in Facts /\ f.kind # "event" /\ f.s = s
  BY AFact DEF SetStatus, Kinds, Statuses
<1>5. r \in Known /\ r.live = ses[s].live /\ r.n = ses[s].n /\ r.saved = ses[s].saved /\ r.agent /\ r.status = status
  BY <1>2 DEF Known
<1> HIDE DEF r, f
<1> QED BY <1>3, <1>4, <1>5, AgentKeeps

LEMMA DisposeAgentInv ==
  ASSUME PInv, NEW s \in Sessions, DisposeAgent(s)
  PROVE  PInv'
<1> DEFINE r == [ses[s] EXCEPT !.agent = FALSE]
           f == Fact("disposed", s, 0)
<1>1. PluginTypeOK /\ SessionsOK
  BY DEF PInv
<1>2. ses[s] \in Known /\ ses \in [Sessions -> Known] /\ SessionOK(ses[s], s)
  BY <1>1, SessionIs
<1>3. ses[s].agent /\ ses[s].n > 0 /\ ses' = [ses EXCEPT ![s] = r]
  BY <1>2 DEF DisposeAgent, SessionOK
<1>4. Hear(f) /\ f \in Facts /\ f.kind # "event" /\ f.s = s
  BY AFact DEF DisposeAgent, Kinds, Statuses
<1>5. r \in Known /\ r.live = ses[s].live /\ r.n = ses[s].n /\ r.saved = ses[s].saved /\ ~r.agent
      /\ r.status = ses[s].status
  BY <1>2 DEF Known
<1> HIDE DEF r, f
<1> QED BY <1>3, <1>4, <1>5, AgentKeeps

\* An observer that does not run, and nothing in the queue.
LEMMA Halted ==
  ASSUME NEW c \in Nat, NEW q, q = Stopped(c)
  PROVE  /\ q \in Plugs /\ ~q.running /\ q.pending = <<>> /\ q.boot = <<>> /\ q.work = <<>> /\ q.facts = <<>>
         /\ q.cursor = Start /\ q.blocked = {} /\ q.counter = c
<1>1. Start \in [Sessions -> Nat] /\ <<>> \in Seq(Ops) /\ <<>> \in Seq(Facts)
  BY DshAssumption
<1> QED BY <1>1 DEF Plugs, Stopped

LEMMA HaltedKeeps ==
  ASSUME NEW q, NEW W, NEW h, q.cursor = Start, q.boot = <<>>, q.work = <<>>, q.pending = <<>>, q.facts = <<>>
  PROVE  /\ Chained(h, q.boot) /\ Chained(h, q.work) /\ EndsOK(q.boot) /\ EndsOK(q.work) /\ Plain(q.work)
         /\ DOMAIN q.pending = {} /\ DOMAIN q.facts = {}
         /\ CursorOK(q.cursor, W, q.blocked)
         /\ Ordered(q.boot, W, q.blocked) /\ Ordered(q.work, W, q.blocked)
<1>1. CursorOK(q.cursor, W, q.blocked)
  <2>1. \A s \in Sessions : Start[s] \in Nat /\ Start[s] .. Start[s] - 1 = {}
    BY DshAssumption
  <2>2. \A s \in Sessions : Start[s] >= Start[s]
    BY <2>1
  <2> QED BY <2>1, <2>2 DEF CursorOK
<1> QED BY <1>1, NoOps, Nothing

LEMMA RestartInv ==
  ASSUME PInv, RestartHarness
  PROVE  PInv'
<1> DEFINE q == plug'
           h == ses'
<1>1. PluginTypeOK /\ SessionsOK /\ plug.counter \in Nat
  <2>1. PluginTypeOK /\ SessionsOK
    BY DEF PInv
  <2> QED BY <2>1, PlugType
<1>2. q = Stopped(plug.counter)
  BY DEF RestartHarness
<1> HIDE DEF q
<1>3. /\ q \in Plugs /\ ~q.running /\ q.pending = <<>> /\ q.boot = <<>> /\ q.work = <<>> /\ q.facts = <<>>
      /\ q.cursor = Start /\ q.blocked = {} /\ q.counter = plug.counter
  BY <1>1, <1>2, Halted
<1>4. \A W, g : /\ Chained(g, q.boot) /\ Chained(g, q.work) /\ EndsOK(q.boot) /\ EndsOK(q.work) /\ Plain(q.work)
                /\ DOMAIN q.pending = {} /\ DOMAIN q.facts = {}
                /\ CursorOK(q.cursor, W, q.blocked)
                /\ Ordered(q.boot, W, q.blocked) /\ Ordered(q.work, W, q.blocked)
  BY <1>3, HaltedKeeps
<1>5. queue' = <<>> /\ durable' = durable
  BY DEF RestartHarness
<1>6. h = [s \in Sessions |-> [ses[s] EXCEPT !.saved = ses[s].n, !.live = FALSE, !.agent = FALSE]]
  BY DEF RestartHarness
<1> HIDE DEF h
<1>7. ASSUME NEW s \in Sessions
      PROVE  h[s] \in Known /\ SessionOK(h[s], s)
  <2> DEFINE r == [ses[s] EXCEPT !.saved = ses[s].n, !.live = FALSE, !.agent = FALSE]
  <2>1. ses[s] \in Known /\ SessionOK(ses[s], s) /\ h[s] = r
    BY <1>1, <1>6, SessionIs
  <2>2. r \in Known /\ r.n = ses[s].n /\ r.saved = ses[s].n /\ ~r.live /\ ~r.agent
    BY <2>1 DEF Known
  <2> HIDE DEF r
  <2>3. r.saved <= r.n
    BY <2>2 DEF Known
  <2>4. r.n <= Len(Log[s]) /\ (r.n > 0 => r.saved >= Start[s] - 1)
    <3>1. ses[s].n \in Nat /\ ses[s].saved \in Nat /\ Start[s] \in Nat
      BY <1>1, SessionFacts
    <3> QED BY <2>1, <2>2, <3>1 DEF SessionOK
  <2> QED BY <2>1, <2>2, <2>3, <2>4 DEF SessionOK
<1>8. PluginTypeOK'
  <2>1. h \in [Sessions -> Known]
    BY <1>6, <1>7
  <2> QED BY <1>1, <1>3, <1>5, <2>1 DEF PluginTypeOK, Known, q, h
<1>9. SessionsOK'
  BY <1>7 DEF SessionsOK, h
<1>10. ChainsOK'
  BY <1>4 DEF ChainsOK, q
<1>11. EndsOK(plug.boot)' /\ EndsOK(plug.work)' /\ Plain(plug.work)' /\ (~plug.bootstrapping => plug.pending = <<>>)'
  BY <1>3, <1>4 DEF q
<1>12. CursorOK(plug.cursor, Sent, plug.blocked)' /\ InOrder'
  BY <1>4 DEF InOrder, q
<1>13. BlockedOK' /\ AllPromised'
  BY <1>3 DEF BlockedOK, AllPromised, q
<1>14. SentInOrder'
  <2>1. DOMAIN queue' = {}
    BY <1>5
  <2> QED BY <1>5, <2>1 DEF PInv, SentInOrder
<1> QED BY <1>8, <1>9, <1>10, <1>11, <1>12, <1>13, <1>14 DEF PInv

LEMMA InitInv ==
  ASSUME PluginInit
  PROVE  PInv
<1>1. plug = Stopped(0) /\ queue = <<>> /\ durable = {}
  BY DEF PluginInit, Sink!Init
<1>2. /\ plug \in Plugs /\ ~plug.running /\ plug.pending = <<>> /\ plug.boot = <<>> /\ plug.work = <<>>
      /\ plug.facts = <<>> /\ plug.cursor = Start /\ plug.blocked = {}
  BY <1>1, Halted
<1>3. \A W, g : /\ Chained(g, plug.boot) /\ Chained(g, plug.work) /\ EndsOK(plug.boot) /\ EndsOK(plug.work)
                /\ Plain(plug.work) /\ DOMAIN plug.pending = {} /\ DOMAIN plug.facts = {}
                /\ CursorOK(plug.cursor, W, plug.blocked)
                /\ Ordered(plug.boot, W, plug.blocked) /\ Ordered(plug.work, W, plug.blocked)
  BY <1>2, HaltedKeeps
<1>4. ses = [s \in Sessions |-> [n |-> Persisted[s], saved |-> Persisted[s], live |-> FALSE,
                                 agent |-> FALSE, status |-> "none"]]
  BY DEF PluginInit
<1>5. ASSUME NEW s \in Sessions
      PROVE  ses[s] \in Known /\ SessionOK(ses[s], s)
  <2>1. /\ Start[s] \in Nat /\ Len(Log[s]) \in Nat /\ Start[s] >= 2 /\ Start[s] <= Len(Log[s]) + 1
        /\ Persisted[s] \in {0} \cup (Start[s] - 1 .. Len(Log[s]))
    BY DshAssumption
  <2>2. Persisted[s] \in Nat /\ Persisted[s] <= Len(Log[s]) /\ (Persisted[s] > 0 => Persisted[s] >= Start[s] - 1)
        /\ Persisted[s] <= Persisted[s]
    BY <2>1
  <2>3. /\ ses[s].n = Persisted[s] /\ ses[s].saved = Persisted[s] /\ ~ses[s].live /\ ~ses[s].agent
        /\ ses[s] \in Known
    BY <1>4, <2>2 DEF Known
  <2> QED BY <2>2, <2>3 DEF SessionOK
<1>6. PluginTypeOK
  BY <1>1, <1>2, <1>4, <1>5 DEF PluginTypeOK, Known
<1>7. SessionsOK
  BY <1>5 DEF SessionsOK
<1>8. ChainsOK /\ EndsOK(plug.boot) /\ EndsOK(plug.work) /\ Plain(plug.work)
      /\ (~plug.bootstrapping => plug.pending = <<>>)
  BY <1>2, <1>3 DEF ChainsOK
<1>9. CursorOK(plug.cursor, Sent, plug.blocked) /\ InOrder
  BY <1>3 DEF InOrder
<1>10. BlockedOK /\ AllPromised
  BY <1>2 DEF BlockedOK, AllPromised
<1>11. SentInOrder
  <2>1. DOMAIN queue = {}
    BY <1>1
  <2> QED BY <1>1, <2>1 DEF SentInOrder
<1> QED BY <1>6, <1>7, <1>8, <1>9, <1>10, <1>11 DEF PInv

-----------------------------------------------------------------------------
\* The order of what is sent, when more of it becomes durable.
LEMMA PastMore ==
  ASSUME NEW W, NEW V, W \subseteq V, NEW s, NEW k, Past(W, s, k)
  PROVE  Past(V, s, k)
BY DEF Past, Given

\* What the sink does to the queue leaves the observer as it is, if what is sent
\* stays the same.
LEMMA QueueKeeps ==
  ASSUME PInv, UNCHANGED <<ses, plug>>, Sent' = Sent, SentInOrder', queue' \in Seq(Sendables),
         durable' \subseteq Sendables,
         Len(queue') = Len(queue) \/ \A s \in Sessions : Calm(plug.boot, s) /\ Calm(plug.work, s)
  PROVE  PInv'
<1>0. ses' = ses /\ plug' = plug
  OBVIOUS
<1>1. PluginTypeOK' /\ SessionsOK' /\ ChainsOK'
  BY <1>0 DEF PInv, PluginTypeOK, SessionsOK, ChainsOK
<1>2. EndsOK(plug.boot)' /\ EndsOK(plug.work)' /\ Plain(plug.work)' /\ (~plug.bootstrapping => plug.pending = <<>>)'
  BY <1>0 DEF PInv
<1>3. CursorOK(plug.cursor, Sent, plug.blocked)' /\ InOrder'
  BY <1>0 DEF PInv, InOrder
<1>4. BlockedOK'
  <2>1. plug.blocked \subseteq Sessions
    BY PlugType DEF PInv
  <2>2. BlockedOK
    BY DEF PInv
  <2> QED BY <1>0, <2>1, <2>2 DEF BlockedOK
<1>5. AllPromised'
  BY <1>0 DEF PInv, AllPromised, Promised
<1> QED BY <1>1, <1>2, <1>3, <1>4, <1>5 DEF PInv

LEMMA SinkStoresInv ==
  ASSUME PInv, SinkStores
  PROVE  PInv'
<1>1. PICK i \in DOMAIN queue :
         /\ \A j \in 1 .. i - 1 : queue[j] \in durable
         /\ durable' = durable \cup {queue[i]} /\ queue' = queue
  BY DEF SinkStores, Sink!Store
<1>2. queue \in Seq(Sendables) /\ durable \subseteq Sendables
  BY DEF PInv, PluginTypeOK
<1>3. i \in 1 .. Len(queue) /\ Len(queue) \in Nat /\ DOMAIN queue = 1 .. Len(queue) /\ queue[i] \in Sendables
  BY <1>1, <1>2
<1>4. Sent' = Sent
  BY <1>1, <1>3 DEF Sent, ToSet
<1>5. SentInOrder'
  <2>1. SUFFICES ASSUME NEW s \in Sessions, NEW l \in Lines(s), NEW e \in ToSet(EventsOf(s, l)),
                        NEW k \in Start[s] .. l - 1
                 PROVE  /\ e \in durable' => Past(durable', s, k)
                        /\ \A m \in DOMAIN queue :
                              queue[m] = e => Past(durable' \cup {queue[j] : j \in 1 .. m - 1}, s, k)
    BY <1>1 DEF SentInOrder
  <2>2. /\ e \in durable => Past(durable, s, k)
        /\ \A m \in DOMAIN queue :
              queue[m] = e => Past(durable \cup {queue[j] : j \in 1 .. m - 1}, s, k)
    BY DEF PInv, SentInOrder
  <2>3. durable \subseteq durable'
    BY <1>1
  <2>4. CASE e \in durable
    BY <2>2, <2>3, <2>4, PastMore
  <2>5. CASE e = queue[i]
    <3>1. Past(durable \cup {queue[j] : j \in 1 .. i - 1}, s, k)
      BY <2>2, <2>5
    <3>2. (durable \cup {queue[j] : j \in 1 .. i - 1}) \subseteq durable'
      BY <1>1
    <3> QED BY <2>5, <3>1, <3>2, PastMore
  <2>6. ASSUME NEW m \in DOMAIN queue, queue[m] = e
        PROVE  Past(durable' \cup {queue[j] : j \in 1 .. m - 1}, s, k)
    <3>1. Past(durable \cup {queue[j] : j \in 1 .. m - 1}, s, k)
      BY <2>2, <2>6
    <3>2. (durable \cup {queue[j] : j \in 1 .. m - 1}) \subseteq (durable' \cup {queue[j] : j \in 1 .. m - 1})
      BY <2>3
    <3> QED BY <3>1, <3>2, PastMore
  <2> QED BY <1>1, <2>4, <2>5, <2>6
<1>6. UNCHANGED <<ses, plug>>
  BY DEF SinkStores
<1> QED BY <1>1, <1>2, <1>3, <1>4, <1>5, <1>6, QueueKeeps

\* Where both chains rest no event of a record is on its way.
LEMMA RestingCalm ==
  ASSUME PInv, Resting, NEW s
  PROVE  Calm(plug.boot, s) /\ Calm(plug.work, s)
<1> DEFINE C == plug.boot
<1>1. C \in Seq(Ops) /\ EndsOK(C)
  BY DEF PInv, PluginTypeOK, Plugs
<1>2. plug.work = <<>> /\ (C # <<>> => Head(C).op \in Waiting)
  BY DEF Resting
<1> HIDE DEF C
<1>3. Calm(C, s)
  <2>1. CASE C = <<>>
    BY <2>1, Nothing
  <2>2. CASE C # <<>>
    <3>1. 1 \in DOMAIN C /\ C[1].op \in Waiting /\ DOMAIN C = 1 .. Len(C) /\ Len(C) \in Nat
      BY <1>1, <1>2, <2>2
    <3>2. \A j \in DOMAIN C : C[j].op \in Rests \cup Waiting
      <4> SUFFICES ASSUME NEW j \in DOMAIN C PROVE C[j].op \in Rests \cup Waiting
        OBVIOUS
      <4>1. j = 1 \/ 1 < j
        BY <3>1
      <4>2. C[1].op \in Endings
        BY <3>1 DEF Waiting, Endings
      <4> QED BY <1>1, <3>1, <4>1, <4>2 DEF EndsOK
    <3>3. \A o : o.op \in Rests \cup Waiting => ~Active(o)
      BY DEF Rests, Waiting, Active
    <3> QED BY <3>2, <3>3 DEF Calm
  <2> QED BY <2>1, <2>2
<1> QED BY <1>2, <1>3, Nothing DEF C

LEMMA Shorter ==
  ASSUME queue \in Seq(Sendables), NEW n \in 1 .. Len(queue), queue' = SubSeq(queue, n + 1, Len(queue))
  PROVE  /\ queue' \in Seq(Sendables) /\ Len(queue') = Len(queue) - n /\ DOMAIN queue' = 1 .. Len(queue) - n
         /\ DOMAIN queue = 1 .. Len(queue) /\ Len(queue) \in Nat
         /\ \A i \in 1 .. Len(queue) - n : queue'[i] = queue[n + i] /\ n + i \in DOMAIN queue
<1>1. n \in 0 .. Len(queue)
  OBVIOUS
<1> QED BY <1>1, Suffix

LEMMA SinkAcknowledgesInv ==
  ASSUME PInv, SinkAcknowledges
  PROVE  PInv'
<1>1. PICK n \in 1 .. Len(queue) :
         /\ \A i \in 1 .. n : queue[i] \in durable
         /\ queue' = SubSeq(queue, n + 1, Len(queue)) /\ durable' = durable
  BY DEF SinkAcknowledges, Sink!Acknowledge
<1>2. queue \in Seq(Sendables) /\ durable \subseteq Sendables
  BY DEF PInv, PluginTypeOK
<1> DEFINE m == Len(queue)
<1>3. /\ queue' \in Seq(Sendables) /\ DOMAIN queue' = 1 .. m - n
      /\ DOMAIN queue = 1 .. m /\ m \in Nat /\ n \in Nat /\ n <= m
      /\ \A i \in 1 .. m - n : queue'[i] = queue[n + i] /\ n + i \in DOMAIN queue
  BY <1>1, <1>2, Shorter
<1> HIDE DEF m
<1>4. \A j \in 1 .. m : j \in 1 .. n \/ \E i \in 1 .. m - n : j = n + i
  <2> SUFFICES ASSUME NEW j \in 1 .. m, j \notin 1 .. n PROVE j - n \in 1 .. m - n /\ j = n + (j - n)
    OBVIOUS
  <2> QED BY <1>3
<1>5. Sent' = Sent
  <2>1. ToSet(queue') \subseteq ToSet(queue)
    BY <1>3 DEF ToSet
  <2>2. ToSet(queue) \subseteq durable \cup ToSet(queue')
    <3> SUFFICES ASSUME NEW j \in 1 .. m PROVE queue[j] \in durable \cup ToSet(queue')
      BY <1>3 DEF ToSet
    <3>1. CASE j \in 1 .. n
      BY <1>1, <3>1
    <3>2. CASE \E i \in 1 .. m - n : j = n + i
      <4>1. PICK i \in 1 .. m - n : j = n + i
        BY <3>2
      <4>2. queue[j] = queue'[i]
        BY <1>3, <4>1
      <4> QED BY <1>3, <4>2 DEF ToSet
    <3> QED BY <1>4, <3>1, <3>2
  <2> QED BY <1>1, <2>1, <2>2 DEF Sent
<1>6. SentInOrder'
  <2> DEFINE Fed(i) == durable \cup {queue[j] : j \in 1 .. i - 1}
             Left(i) == durable \cup {queue'[j] : j \in 1 .. i - 1}
  <2>1. ASSUME NEW i \in 1 .. m - n
        PROVE  Fed(n + i) \subseteq Left(i)
    <3>1. ASSUME NEW j \in 1 .. n + i - 1
          PROVE  queue[j] \in Left(i)
      <4>1. j \in 1 .. m
        BY <1>3
      <4>2. CASE j \in 1 .. n
        BY <1>1, <4>2
      <4>3. CASE \E x \in 1 .. m - n : j = n + x
        <5>1. PICK x \in 1 .. m - n : j = n + x
          BY <4>3
        <5>2. x \in 1 .. i - 1
          BY <1>3, <5>1
        <5>3. queue[j] = queue'[x]
          BY <1>3, <5>1
        <5> QED BY <5>2, <5>3
      <4> QED BY <1>4, <4>1, <4>2, <4>3
    <3>2. durable \subseteq Left(i)
      OBVIOUS
    <3> HIDE DEF Left
    <3> QED BY <3>1, <3>2
  <2>2. SUFFICES ASSUME NEW s \in Sessions, NEW l \in Lines(s), NEW e \in ToSet(EventsOf(s, l)),
                        NEW k \in Start[s] .. l - 1
                 PROVE  /\ e \in durable => Past(durable, s, k)
                        /\ \A i \in 1 .. m - n : queue'[i] = e => Past(Left(i), s, k)
    BY <1>1, <1>3 DEF SentInOrder
  <2>3. /\ e \in durable => Past(durable, s, k)
        /\ \A i \in DOMAIN queue : queue[i] = e => Past(Fed(i), s, k)
    BY DEF PInv, SentInOrder
  <2> HIDE DEF Fed, Left
  <2>4. ASSUME NEW i \in 1 .. m - n, queue'[i] = e
        PROVE  Past(Left(i), s, k)
    <3>1. n + i \in DOMAIN queue /\ queue[n + i] = e
      BY <1>3, <2>4
    <3>2. Past(Fed(n + i), s, k)
      BY <2>3, <3>1
    <3> QED BY <2>1, <3>2, PastMore
  <2> QED BY <2>3, <2>4
<1>7. UNCHANGED <<ses, plug>> /\ Resting
  BY DEF SinkAcknowledges
<1>8. \A s \in Sessions : Calm(plug.boot, s) /\ Calm(plug.work, s)
  BY <1>7, RestingCalm
<1> QED BY <1>1, <1>2, <1>3, <1>5, <1>6, <1>7, <1>8, QueueKeeps

LEMMA StandingInv ==
  ASSUME PInv, UNCHANGED pluginVars
  PROVE  PInv'
<1>1. ses' = ses /\ plug' = plug /\ queue' = queue /\ durable' = durable
  BY DEF pluginVars
<1>2. Sent' = Sent
  BY <1>1 DEF Sent
<1>3. SentInOrder' /\ queue' \in Seq(Sendables) /\ durable' \subseteq Sendables
  BY <1>1 DEF PInv, SentInOrder, PluginTypeOK
<1> QED BY <1>1, <1>2, <1>3, QueueKeeps

LEMMA PluginNextInv ==
  ASSUME PInv, [PluginNext]_pluginVars
  PROVE  PInv'
<1>1. CASE UNCHANGED pluginVars
  BY <1>1, StandingInv
<1>2. CASE StartPlugin \/ BootStep \/ ListPersisted \/ ReadPersisted \/ OpenDelivery \/ BootWrite
  <2>1. CASE StartPlugin
    BY <2>1, StartPluginInv
  <2>2. CASE BootStep
    BY <2>2, BootStepInv
  <2>3. CASE ListPersisted
    BY <2>3, ListPersistedInv
  <2>4. CASE ReadPersisted
    BY <2>4, ReadPersistedInv
  <2>5. CASE OpenDelivery
    BY <2>5, OpenDeliveryInv
  <2>6. CASE BootWrite
    BY <2>6, BootWriteKeeps
  <2> QED BY <1>2, <2>1, <2>2, <2>3, <2>4, <2>5, <2>6
<1>3. CASE TakeFact \/ DeliverStep \/ DeliverWrite
  <2>1. CASE TakeFact
    BY <2>1, TakeFactInv
  <2>2. CASE DeliverStep
    BY <2>2, DeliverStepInv
  <2>3. CASE DeliverWrite
    BY <2>3, DeliverWriteKeeps
  <2> QED BY <1>3, <2>1, <2>2, <2>3
<1>4. ASSUME NEW s \in Sessions,
             OpenSession(s) \/ AppendRecord(s) \/ DisposeAgent(s) \/ \E status \in Statuses : SetStatus(s, status)
      PROVE  PInv'
  <2>1. CASE OpenSession(s)
    BY <2>1, OpenSessionInv
  <2>2. CASE AppendRecord(s)
    BY <2>2, AppendRecordInv
  <2>3. CASE DisposeAgent(s)
    BY <2>3, DisposeAgentInv
  <2>4. CASE \E status \in Statuses : SetStatus(s, status)
    BY <2>4, SetStatusInv
  <2> QED BY <1>4, <2>1, <2>2, <2>3, <2>4
<1>5. CASE RestartHarness
  BY <1>5, RestartInv
<1>6. CASE SinkStores
  BY <1>6, SinkStoresInv
<1>7. CASE SinkAcknowledges
  BY <1>7, SinkAcknowledgesInv
<1> QED BY <1>1, <1>2, <1>3, <1>4, <1>5, <1>6, <1>7 DEF PluginNext

\* The invariant of the plugin: whatever stands in front of an operation that
\* writes a record's event covers the records before it, and every record of a
\* session is sent, or a fact or an operation leads to it.
THEOREM PluginInvariant == PluginSpec => []PInv
<1>1. PluginInit => PInv
  BY InitInv
<1>2. PInv /\ [PluginNext]_pluginVars => PInv'
  BY PluginNextInv
<1> QED BY <1>1, <1>2, PTL DEF PluginSpec

\* "An unknown required event refuses silent data loss": whatever start-up,
\* delivery, the Harness and the sink interleave, the events of a session become
\* durable in their order and without a hole, up to the first that cannot be
\* mapped.
THEOREM EventsWithoutHoles == PluginSpec => []NoHoles
<1>1. PInv => NoHoles
  <2> SUFFICES ASSUME PInv, NEW s \in Sessions, NEW l \in Start[s] .. Len(Log[s]),
                      ToSet(EventsOf(s, l)) \cap durable # {}, NEW k \in Start[s] .. l - 1
               PROVE  \/ ToSet(EventsOf(s, k)) \subseteq durable
                      \/ \E u \in Start[s] .. k : Unmappable(s, u)
    BY DEF NoHoles
  <2>1. PICK e \in ToSet(EventsOf(s, l)) : e \in durable
    OBVIOUS
  <2>2. l \in Lines(s)
    BY DEF Lines
  <2>3. Past(durable, s, k)
    BY <2>1, <2>2 DEF PInv, SentInOrder
  <2> QED BY <2>3 DEF Past, Given
<1> QED BY <1>1, PluginInvariant, PTL

\* "Race-free": whatever the Harness does while the observer adopts its history,
\* once start-up and delivery rest every record of a live session has been sent,
\* unless the session is blocked, a fact was lost to a full queue, or a session
\* could not be read.
THEOREM HistoryIsComplete == PluginSpec => []NothingMissed
<1>1. PInv => NothingMissed
  <2> SUFFICES ASSUME PInv, Quiet, ~plug.lost, ~plug.unread, NEW s \in Sessions \ plug.blocked, ses[s].live,
                      NEW l \in Start[s] .. ses[s].n, NEW e \in ToSet(EventsOf(s, l))
               PROVE  e.id \in Ids(Sent)
    BY DEF NothingMissed, Delivered
  <2>1. Promised(s, l)
    BY DEF PInv, AllPromised, Quiet
  <2>2. plug.boot = <<>> /\ plug.work = <<>> /\ plug.facts = <<>> /\ plug.pending = <<>>
    BY DEF PInv, Quiet
  <2>3. Given(Sent, s, l)
    <3>1. DOMAIN plug.boot = {} /\ DOMAIN plug.work = {} /\ DOMAIN plug.facts = {} /\ DOMAIN plug.pending = {}
      BY <2>2
    <3> QED BY <2>1, <3>1 DEF Promised, InChain, InFacts
  <2> QED BY <2>3 DEF Given, Ids
<1> QED BY <1>1, PluginInvariant, PTL

-----------------------------------------------------------------------------
(* The statuses of the agents.                                             *)

\* What gives a status of s, and what gives v, the present one.
RuntimeOf(e, s) == \E k \in Nat, kind \in Kinds : e = RuntimeEvent(s, k, kind)
Bears(o, s) ==
    \/ o.op \in Kinds \cup {"status"} /\ o.s = s
    \/ o.op = "write" /\ RuntimeOf(o.event[1], s)
    \/ o.op = "fact" /\ o.event[1].s = s /\ o.event[1].kind \in Kinds
    \/ o.op = "agents"
Tells(o, s, v) ==
    \/ o.op \in {v, "status", "agents"}
    \/ o.op = "write" /\ \E k \in Nat : o.event[1] = RuntimeEvent(s, k, v)
    \/ o.op = "fact" /\ o.event[1].kind = v
States(f, s) == f.s = s /\ f.kind \in Kinds

\* The last of the facts F that gives a status of s gives v; if there is none,
\* the last operation of the chain C that does; else the last that was sent, W.
Unheard(F, s) == \A i \in DOMAIN F : ~States(F[i], s)
LastHeard(F, s, v) ==
    \A i \in DOMAIN F : States(F[i], s) /\ (\A j \in DOMAIN F : j > i => ~States(F[j], s)) => F[i].kind = v
Silent(C, s) == \A i \in DOMAIN C : ~Bears(C[i], s)
LastTells(C, s, v) ==
    \A i \in DOMAIN C : Bears(C[i], s) /\ (\A j \in DOMAIN C : j > i => ~Bears(C[j], s)) => Tells(C[i], s, v)
LastSent(W, s, v) ==
    \E k \in Nat : /\ RuntimeEvent(s, k, v) \in W
                   /\ \A j \in Nat, kind \in Kinds : j > k => RuntimeEvent(s, j, kind) \notin W
IsCurrent(C, F, W, s, v) ==
    /\ LastHeard(F, s, v)
    /\ Unheard(F, s) => LastTells(C, s, v)
    /\ Unheard(F, s) /\ Silent(C, s) => LastSent(W, s, v)

\* A runtime event is written as soon as it is made, with the last number.
Numbered(C, W, c) ==
    \A i \in DOMAIN C : \A s \in Sessions, k \in Nat, kind \in Kinds :
       C[i].op = "write" /\ C[i].event[1] = RuntimeEvent(s, k, kind) =>
          i = 1 /\ k = c /\ \A t \in Sessions, x \in Kinds : RuntimeEvent(t, c, x) \notin W
StatusOK(C, F, W, c, h) ==
    /\ Numbered(C, W, c)
    /\ \A s \in Sessions : h[s].agent => IsCurrent(C, F, W, s, h[s].status)

\* The numbers of the runtime events in W and in the operations of C.
Counted(W, c) ==
    \A s \in Sessions, k \in Nat, kind \in Kinds : RuntimeEvent(s, k, kind) \in W => k \in 1 .. c
Tallied(C, c) ==
    \A i \in DOMAIN C : \A s \in Sessions, k \in Nat, kind \in Kinds :
       C[i].op = "write" /\ C[i].event[1] = RuntimeEvent(s, k, kind) => k \in 1 .. c

Early == plug.bootstrapping \/ plug.boot # <<>>
IdleOK == ~plug.running => /\ plug.boot = <<>> /\ plug.work = <<>> /\ plug.facts = <<>> /\ plug.pending = <<>>
                           /\ plug.bootstrapping
CountOK == Counted(Sent, plug.counter) /\ Tallied(plug.boot, plug.counter) /\ Tallied(plug.work, plug.counter)
\* While no fact is heard between the two chains, one of them is empty.
ChainOK ==
    plug.running /\ ~plug.lost /\ ~plug.overlap =>
       IF Early
       THEN /\ plug.work = <<>> /\ plug.facts = <<>>
            /\ StatusOK(plug.boot, plug.pending, Sent, plug.counter, ses)
       ELSE StatusOK(plug.work, plug.facts, Sent, plug.counter, ses)
SInv == IdleOK /\ CountOK /\ ChainOK

\* The operations D may take the place of o as to what they give of s.
Conveys(o, D, s, v) ==
    /\ Silent(D, s) \/ Bears(o, s)
    /\ Bears(o, s) /\ Tells(o, s, v) =>
          ~Silent(D, s) /\ \A i \in DOMAIN D : Bears(D[i], s) => Tells(D[i], s, v)

LEMMA Apart ==
  ASSUME NEW s, NEW t, NEW k, NEW j, NEW x, NEW y, RuntimeEvent(s, k, x) = RuntimeEvent(t, j, y)
  PROVE  s = t /\ k = j /\ x = y
<1>1. RuntimeEvent(s, k, x).id = <<s, k, x>> /\ RuntimeEvent(t, j, y).id = <<t, j, y>>
  BY DEF RuntimeEvent
<1>2. <<s, k, x>> = <<t, j, y>>
  BY <1>1
<1> QED BY <1>2

LEMMA CurrentSplice ==
  ASSUME NEW C \in Seq(Ops), C # <<>>, NEW D \in Seq(Ops), NEW F, NEW W, NEW s, NEW v,
         IsCurrent(C, F, W, s, v), Conveys(C[1], D, s, v)
  PROVE  IsCurrent(D \o Tail(C), F, W, s, v)
<1> DEFINE E == D \o Tail(C)
           n == Len(D)
           m == Len(C)
<1>1. /\ E \in Seq(Ops) /\ Len(E) = n + m - 1 /\ n \in Nat /\ m \in Nat /\ m >= 1
      /\ DOMAIN E = 1 .. n + m - 1 /\ DOMAIN C = 1 .. m /\ DOMAIN D = 1 .. n
      /\ \A i \in 1 .. n : E[i] = D[i]
      /\ \A i \in 2 .. m : E[n + i - 1] = C[i]
  BY Splice, DomLen
<1> HIDE DEF E, n, m
<1>2. \A j \in 2 .. m : n + j - 1 \in DOMAIN E
  BY <1>1
<1>3. \A i \in DOMAIN E : i \in 1 .. n \/ \E j \in 2 .. m : i = n + j - 1
  <2> SUFFICES ASSUME NEW i \in DOMAIN E, i \notin 1 .. n PROVE i - n + 1 \in 2 .. m /\ i = n + (i - n + 1) - 1
    OBVIOUS
  <2> QED BY <1>1
<1>0. \A j \in DOMAIN C : (j > 1 => j \in 2 .. m) /\ (j = 1 \/ j > 1)
  BY <1>1
<1>4. ASSUME Unheard(F, s) PROVE LastTells(E, s, v)
  <2>1. LastTells(C, s, v)
    BY <1>4 DEF IsCurrent
  <2>2. SUFFICES ASSUME NEW i \in DOMAIN E, Bears(E[i], s), \A j \in DOMAIN E : j > i => ~Bears(E[j], s)
                 PROVE  Tells(E[i], s, v)
    BY DEF LastTells
  <2>3. CASE i \in 1 .. n
    <3>1. \A j \in DOMAIN C : j > 1 => ~Bears(C[j], s)
      <4> SUFFICES ASSUME NEW j \in 2 .. m PROVE ~Bears(C[j], s)
        BY <1>0
      <4>1. n + j - 1 > i
        BY <1>1, <2>3
      <4> QED BY <1>1, <1>2, <2>2, <4>1
    <3>2. Bears(D[i], s) /\ i \in DOMAIN D /\ E[i] = D[i]
      BY <1>1, <2>2, <2>3
    <3>3. Bears(C[1], s)
      BY <3>2 DEF Conveys, Silent
    <3>4. Tells(C[1], s, v)
      <4>1. 1 \in DOMAIN C
        BY <1>1
      <4> QED BY <2>1, <3>1, <3>3, <4>1 DEF LastTells
    <3> QED BY <3>2, <3>3, <3>4 DEF Conveys
  <2>4. ASSUME NEW j \in 2 .. m, i = n + j - 1 PROVE Tells(E[i], s, v)
    <3>1. E[i] = C[j] /\ j \in DOMAIN C
      BY <1>1, <2>4
    <3>2. \A x \in DOMAIN C : x > j => ~Bears(C[x], s)
      <4> SUFFICES ASSUME NEW x \in 1 .. m, x > j PROVE ~Bears(C[x], s)
        BY <1>1
      <4>1. n + x - 1 > i /\ x \in 2 .. m
        BY <1>1, <2>4
      <4> QED BY <1>1, <1>2, <2>2, <4>1
    <3> QED BY <2>1, <2>2, <3>1, <3>2 DEF LastTells
  <2> QED BY <1>3, <2>3, <2>4
<1>5. ASSUME Unheard(F, s), Silent(E, s) PROVE LastSent(W, s, v)
  <2>1. LastTells(C, s, v)
    BY <1>5 DEF IsCurrent
  <2>2. \A j \in DOMAIN C : j > 1 => ~Bears(C[j], s)
    <3> SUFFICES ASSUME NEW j \in 2 .. m PROVE ~Bears(C[j], s)
      BY <1>0
    <3> QED BY <1>1, <1>2, <1>5 DEF Silent
  <2>3. Silent(D, s)
    <3> SUFFICES ASSUME NEW i \in 1 .. n PROVE ~Bears(D[i], s)
      BY <1>1 DEF Silent
    <3>1. i \in DOMAIN E
      BY <1>1
    <3> QED BY <1>1, <1>5, <3>1 DEF Silent
  <2>4. ~Bears(C[1], s)
    <3>1. 1 \in DOMAIN C
      BY <1>1
    <3>2. Bears(C[1], s) => Tells(C[1], s, v)
      BY <2>1, <2>2, <3>1 DEF LastTells
    <3> QED BY <2>3, <3>2 DEF Conveys
  <2>5. Silent(C, s)
    BY <1>0, <2>2, <2>4 DEF Silent
  <2> QED BY <1>5, <2>5 DEF IsCurrent
<1>6. LastHeard(F, s, v)
  BY DEF IsCurrent
<1> QED BY <1>4, <1>5, <1>6 DEF IsCurrent, E

LEMMA NumberedSplice ==
  ASSUME NEW C \in Seq(Ops), C # <<>>, NEW D \in Seq(Ops), NEW W, NEW c, NEW W2, NEW c2,
         Numbered(C, W, c), Numbered(D, W2, c2)
  PROVE  Numbered(D \o Tail(C), W2, c2)
<1> DEFINE E == D \o Tail(C)
<1>1. SUFFICES ASSUME NEW i \in DOMAIN E, NEW s \in Sessions, NEW k \in Nat, NEW kind \in Kinds,
                      E[i].op = "write", E[i].event[1] = RuntimeEvent(s, k, kind)
               PROVE  i = 1 /\ k = c2 /\ \A t \in Sessions, x \in Kinds : RuntimeEvent(t, c2, x) \notin W2
  BY DEF Numbered
<1>2. \/ i \in 1 .. Len(D) /\ E[i] = D[i]
      \/ \E j \in 2 .. Len(C) : i = Len(D) + j - 1 /\ E[i] = C[j]
  BY InSplice
<1>3. ASSUME NEW j \in 2 .. Len(C), E[i] = C[j] PROVE FALSE
  <2>1. j \in DOMAIN C /\ j # 1
    BY DomLen
  <2> QED BY <1>1, <1>3, <2>1 DEF Numbered
<1>4. CASE i \in 1 .. Len(D) /\ E[i] = D[i]
  <2>1. i \in DOMAIN D
    BY <1>4, DomLen
  <2> HIDE DEF E
  <2> QED BY <1>1, <1>4, <2>1 DEF Numbered
<1> QED BY <1>2, <1>3, <1>4

LEMMA TalliedSplice ==
  ASSUME NEW C \in Seq(Ops), C # <<>>, NEW D \in Seq(Ops), NEW c \in Nat, NEW c2 \in Nat, c <= c2,
         Tallied(C, c), Tallied(D, c2)
  PROVE  Tallied(D \o Tail(C), c2)
<1> DEFINE E == D \o Tail(C)
<1>1. SUFFICES ASSUME NEW i \in DOMAIN E, NEW s \in Sessions, NEW k \in Nat, NEW kind \in Kinds,
                      E[i].op = "write", E[i].event[1] = RuntimeEvent(s, k, kind)
               PROVE  k \in 1 .. c2
  BY DEF Tallied
<1>2. \/ i \in 1 .. Len(D) /\ E[i] = D[i]
      \/ \E j \in 2 .. Len(C) : i = Len(D) + j - 1 /\ E[i] = C[j]
  BY InSplice
<1>3. ASSUME NEW j \in 2 .. Len(C), E[i] = C[j] PROVE k \in 1 .. c2
  <2>1. j \in DOMAIN C
    BY DomLen
  <2>2. k \in 1 .. c
    BY <1>1, <1>3, <2>1 DEF Tallied
  <2> QED BY <2>2
<1>4. CASE i \in 1 .. Len(D) /\ E[i] = D[i]
  <2>1. i \in DOMAIN D
    BY <1>4, DomLen
  <2> HIDE DEF E
  <2> QED BY <1>1, <1>4, <2>1 DEF Tallied
<1> QED BY <1>2, <1>3, <1>4

LEMMA StatusSplice ==
  ASSUME NEW C \in Seq(Ops), C # <<>>, NEW D \in Seq(Ops), NEW F, NEW W, NEW c, NEW c2, NEW h,
         StatusOK(C, F, W, c, h), Numbered(D, W, c2),
         \A s \in Sessions : h[s].agent => Conveys(C[1], D, s, h[s].status)
  PROVE  StatusOK(D \o Tail(C), F, W, c2, h)
<1>1. Numbered(D \o Tail(C), W, c2)
  BY NumberedSplice DEF StatusOK
<1>2. ASSUME NEW s \in Sessions, h[s].agent PROVE IsCurrent(D \o Tail(C), F, W, s, h[s].status)
  BY <1>2, CurrentSplice DEF StatusOK
<1> QED BY <1>1, <1>2 DEF StatusOK

\* Operations that give no status.
Mute(o) == /\ o.op \notin Kinds \cup {"status", "fact", "agents"}
           /\ o.op = "write" => o.event[1].body.type \notin Kinds

LEMMA MuteOp ==
  ASSUME NEW o, Mute(o)
  PROVE  /\ \A s : ~Bears(o, s)
         /\ \A s : \A k \in Nat, kind \in Kinds : o.op = "write" => o.event[1] # RuntimeEvent(s, k, kind)
<1>1. \A s : \A k \in Nat, kind \in Kinds : RuntimeEvent(s, k, kind).body.type = kind
  BY DEF RuntimeEvent
<1>2. \A s : \A k \in Nat, kind \in Kinds : o.op = "write" => o.event[1] # RuntimeEvent(s, k, kind)
  BY <1>1 DEF Mute
<1>3. \A s : ~Bears(o, s)
  BY <1>2 DEF Mute, Bears, RuntimeOf
<1> QED BY <1>2, <1>3

LEMMA MuteChain ==
  ASSUME NEW D, \A i \in DOMAIN D : Mute(D[i])
  PROVE  /\ \A s : Silent(D, s)
         /\ \A W, c : Numbered(D, W, c)
         /\ \A c : Tallied(D, c)
         /\ \A o, s, v : ~Bears(o, s) => Conveys(o, D, s, v)
<1>0. ASSUME NEW i \in DOMAIN D
      PROVE  /\ \A s : ~Bears(D[i], s)
             /\ \A s \in Sessions, k \in Nat, kind \in Kinds :
                   ~(D[i].op = "write" /\ D[i].event[1] = RuntimeEvent(s, k, kind))
  <2> DEFINE d == D[i]
  <2>1. Mute(d)
    OBVIOUS
  <2> HIDE DEF d
  <2>2. \A s : ~Bears(d, s)
    BY <2>1, MuteOp
  <2>3. \A s \in Sessions, k \in Nat, kind \in Kinds : ~(d.op = "write" /\ d.event[1] = RuntimeEvent(s, k, kind))
    BY <2>1, MuteOp
  <2> QED BY <2>2, <2>3 DEF d
<1>1. \A i \in DOMAIN D : \A s : ~Bears(D[i], s)
  BY <1>0
<1>2. \A i \in DOMAIN D : \A s \in Sessions, k \in Nat, kind \in Kinds :
         ~(D[i].op = "write" /\ D[i].event[1] = RuntimeEvent(s, k, kind))
  BY <1>0
<1>3. \A s : Silent(D, s)
  BY <1>1 DEF Silent
<1>4. \A W, c : Numbered(D, W, c)
  BY <1>2 DEF Numbered
<1>5. \A c : Tallied(D, c)
  BY <1>2 DEF Tallied
<1> QED BY <1>3, <1>4, <1>5 DEF Conveys

\* The events of records and announcements are no statuses.
LEMMA MuteRecord ==
  ASSUME NEW o \in Ops, OpOK(ses, o), o.op = "write", o.l > 0
  PROVE  Mute(o)
<1>1. o.s \in Sessions /\ o.l \in Lines(o.s) /\ o.event = EventsOf(o.s, o.l) /\ o.event # <<>>
  <2>1. o.s \in Sessions /\ o.l \in Nat
    BY DEF Ops
  <2> QED BY <2>1 DEF OpOK
<1>2. PICK e \in Recorded : o.event = <<e>>
  BY <1>1, EventsOfRecord
<1>3. o.event[1] = e
  BY <1>2
<1>4. PICK t \in Sessions : e \in RecordEvents(t)
  BY DEF Recorded
<1>5. e.body.type \notin Kinds
  BY <1>4, EventsAssumption
<1> QED BY <1>3, <1>5 DEF Mute, Kinds, Statuses

LEMMA MuteAnnounced ==
  ASSUME NEW s \in Sessions, NEW n \in 1 .. Len(Log[s]), NEW a \in BOOLEAN
  PROVE  \A i \in DOMAIN Writes(s, 0, Announced(s, n, a)) : Mute(Writes(s, 0, Announced(s, n, a))[i])
<1> DEFINE events == Announced(s, n, a)
           D == Writes(s, 0, events)
<1>1. events \in Seq(Announcements(s)) /\ \A e \in Announcements(s) : e.body.type \notin Kinds
  BY DshAssumption, EventsAssumption
<1> HIDE DEF events
<1>2. /\ DOMAIN D = DOMAIN events
      /\ \A i \in DOMAIN D : D[i] = WriteOp(s, 0, events[i])
  BY DEF Writes
<1>3. \A i \in DOMAIN D : events[i] \in Announcements(s)
  BY <1>1, <1>2
<1>4. ASSUME NEW e \in Announcements(s) PROVE Mute(WriteOp(s, 0, e))
  <2> DEFINE w == WriteOp(s, 0, e)
  <2>1. w.op = "write" /\ w.event = <<e>>
    BY DEF WriteOp, Op
  <2> HIDE DEF w
  <2>2. w.event[1] = e
    BY <2>1
  <2> QED BY <1>1, <2>1, <2>2 DEF Mute, Kinds, Statuses, w
<1> HIDE DEF D
<1> QED BY <1>2, <1>3, <1>4 DEF D, events

Silences == {"announce", "announceAgent", "accept", "consider", "emit", "advance", "advanceTo", "adopted",
             "adopt", "list", "read", "open"}
LEMMA MuteName ==
  ASSUME NEW o, o.op \in Silences
  PROVE  Mute(o)
BY DEF Mute, Silences, Kinds, Statuses

LEMMA MuteGlued ==
  ASSUME NEW D \in Seq(Ops), NEW x \in Ops, \A i \in DOMAIN D : Mute(D[i]), Mute(x)
  PROVE  \A i \in DOMAIN (D \o <<x>>) : Mute((D \o <<x>>)[i])
<1> DEFINE E == D \o <<x>>
<1>1. /\ DOMAIN E = 1 .. Len(D) + 1 /\ E[Len(D) + 1] = x /\ Len(D) \in Nat /\ DOMAIN D = 1 .. Len(D)
      /\ \A i \in 1 .. Len(D) : E[i] = D[i]
  BY Glued
<1> HIDE DEF E
<1>2. \A i \in DOMAIN E : i \in 1 .. Len(D) \/ i = Len(D) + 1
  BY <1>1
<1>3. \A i \in DOMAIN E : Mute(E[i])
  BY <1>1, <1>2
<1> QED BY <1>3 DEF E

LEMMA MuteEmit ==
  ASSUME NEW o, Ready(o), o.op = "emit"
  PROVE  \A i \in DOMAIN Does(plug, o) : Mute(Does(plug, o)[i])
<1> DEFINE V == Writes(o.s, o.l, EventsOf(o.s, o.l))
           x == Op("advance", o.s, o.l + 1)
           D == Does(plug, o)
<1>1. o.s \in Sessions /\ o.l \in Nat /\ o.l \in Lines(o.s)
  BY DEF Ready, Ops, OpOK
<1>2. D = IF Unmappable(o.s, o.l) THEN <<>> ELSE V \o <<x>>
  BY DEF Does, Kinds, Statuses
<1>3. x \in Ops /\ Mute(x)
  <2>1. "advance" \in OpNames /\ o.l + 1 \in Nat /\ "advance" \in Silences
    BY <1>1 DEF OpNames, Silences
  <2>2. x \in Ops /\ x.op = "advance"
    BY <1>1, <2>1, NewOp
  <2> HIDE DEF x
  <2> QED BY <2>1, <2>2, MuteName
<1>4. CASE EventsOf(o.s, o.l) = <<>>
  <2>1. V = <<>>
    BY <1>4 DEF Writes
  <2> HIDE DEF V, x, D
  <2>2. V \in Seq(Ops) /\ \A i \in DOMAIN V : Mute(V[i])
    BY <2>1, NoOps
  <2>3. \A i \in DOMAIN (V \o <<x>>) : Mute((V \o <<x>>)[i])
    BY <1>3, <2>2, MuteGlued
  <2>4. CASE Unmappable(o.s, o.l)
    BY <1>2, <2>4, NoOps DEF D
  <2>5. CASE ~Unmappable(o.s, o.l)
    BY <1>2, <2>3, <2>5 DEF D
  <2> QED BY <2>4, <2>5
<1>5. ASSUME NEW e \in Sendables \cap Recorded, EventsOf(o.s, o.l) = <<e>>
      PROVE  \A i \in DOMAIN D : Mute(D[i])
  <2> DEFINE w == WriteOp(o.s, o.l, e)
  <2>1. w \in Ops /\ w.op = "write" /\ w.event[1] = e /\ V = <<w>>
    BY <1>1, <1>5, NewWrite
  <2>2. PICK t \in Sessions : e \in RecordEvents(t)
    BY DEF Recorded
  <2>3. e.body.type \notin Kinds
    BY <2>2, EventsAssumption
  <2> HIDE DEF w, V, x, D
  <2>4. Mute(w)
    BY <2>1, <2>3 DEF Mute, Kinds, Statuses
  <2>5. V \in Seq(Ops) /\ \A i \in DOMAIN V : Mute(V[i])
    BY <2>1, <2>4, OneOp
  <2>6. \A i \in DOMAIN (V \o <<x>>) : Mute((V \o <<x>>)[i])
    BY <1>3, <2>5, MuteGlued
  <2>7. CASE Unmappable(o.s, o.l)
    BY <1>2, <2>7, NoOps
  <2>8. CASE ~Unmappable(o.s, o.l)
    BY <1>2, <2>6, <2>8
  <2> QED BY <2>7, <2>8
<1> QED BY <1>1, <1>4, <1>5, EventsOfRecord

LEMMA MuteConsider ==
  ASSUME PluginTypeOK, SessionsOK, NEW o, Ready(o), o.op = "consider",
         CursorOK(plug.cursor, Sent, plug.blocked)
  PROVE  \A i \in DOMAIN Does(plug, o) : Mute(Does(plug, o)[i])
<1> DEFINE c == plug.cursor[o.s]
           last == o.l - 1
           V == AcceptAll(o.s, c, last)
           x == Op("emit", o.s, o.l)
           D == Does(plug, o)
<1>1. o.s \in Sessions /\ ses[o.s].n > 0 /\ o.l \in Nat /\ o.l \in Lines(o.s)
  BY DEF Ready, Ops, OpOK
<1>2. D = IF o.l < c THEN <<>> ELSE V \o <<x>>
  BY DEF Does, Considers, Kinds, Statuses
<1>3. x \in Ops /\ Mute(x)
  <2>1. "emit" \in OpNames /\ "emit" \in Silences
    BY DEF OpNames, Silences
  <2>2. x \in Ops /\ x.op = "emit"
    BY <1>1, <2>1, NewOp
  <2> HIDE DEF x
  <2> QED BY <2>1, <2>2, MuteName
<1>4. CASE o.l < c
  BY <1>2, <1>4, NoOps
<1>5. CASE ~(o.l < c)
  <2>1. c \in Nat /\ c >= Start[o.s] /\ last \in Nat /\ c <= last + 1 /\ last <= Len(Log[o.s])
    <3>1. c \in Nat /\ c >= Start[o.s] /\ Start[o.s] \in Nat /\ Start[o.s] >= 2 /\ Len(Log[o.s]) \in Nat
      BY <1>1, SessionFacts DEF CursorOK
    <3>2. o.l \in Nat /\ o.l >= Start[o.s] /\ o.l <= Len(Log[o.s])
      BY <1>1, <3>1 DEF Lines
    <3> QED BY <1>5, <3>1, <3>2
  <2> HIDE DEF c, last
  <2>2. V \in Seq(Ops) /\ \A i \in DOMAIN V : V[i].op = "accept"
    BY <1>1, <2>1, AcceptsFrom
  <2> HIDE DEF V
  <2>3. \A i \in DOMAIN V : Mute(V[i])
    <3>1. "accept" \in Silences
      BY DEF Silences
    <3> QED BY <2>2, <3>1, MuteName
  <2> HIDE DEF x, D
  <2>4. \A i \in DOMAIN (V \o <<x>>) : Mute((V \o <<x>>)[i])
    BY <1>3, <2>2, <2>3, MuteGlued
  <2> QED BY <1>2, <1>5, <2>4 DEF D
<1> QED BY <1>4, <1>5

LEMMA MuteTwo ==
  ASSUME NEW a \in OpNames \cap Silences, NEW b \in OpNames \cap Silences, NEW s \in Sessions,
         NEW l \in Nat, NEW m \in Nat
  PROVE  \A i \in DOMAIN <<Op(a, s, l), Op(b, s, m)>> : Mute(<<Op(a, s, l), Op(b, s, m)>>[i])
<1> DEFINE x == Op(a, s, l)
           y == Op(b, s, m)
<1>1. x \in Ops /\ x.op = a /\ y \in Ops /\ y.op = b
  BY NewOp
<1> HIDE DEF x, y
<1>2. Mute(x) /\ Mute(y)
  BY <1>1, MuteName
<1>3. \A i \in DOMAIN <<x, y>> : Mute(<<x, y>>[i])
  BY <1>1, <1>2, TwoOps
<1> QED BY <1>3 DEF x, y

LEMMA MuteDoes ==
  ASSUME PluginTypeOK, SessionsOK, CursorOK(plug.cursor, Sent, plug.blocked), NEW o, Ready(o),
         o.op \in {"announce", "announceAgent", "accept", "consider", "emit", "advance", "advanceTo", "adopted", "adopt"}
  PROVE  /\ \A i \in DOMAIN Does(plug, o) : Mute(Does(plug, o)[i])
         /\ Changes(plug, o).counter = plug.counter
<1> DEFINE D == Does(plug, o)
<1>0. o.s \in Sessions /\ o.l \in Nat /\ ses[o.s].n > 0
  BY DEF Ready, Ops, OpOK
<1>1. Changes(plug, o).counter = plug.counter
  BY DEF Changes, Kinds, Statuses, PluginTypeOK, Plugs
<1>2. CASE o.op \in {"announce", "announceAgent"}
  <2> DEFINE a == o.op = "announceAgent"
             n == ses[o.s].n
  <2>1. D = IF o.s \in plug.announced THEN <<>> ELSE Writes(o.s, 0, Announced(o.s, n, a))
    BY <1>2 DEF Does, Announces, Kinds, Statuses
  <2>2. n \in 1 .. Len(Log[o.s]) /\ a \in BOOLEAN
    BY <1>0, SessionFacts
  <2> HIDE DEF n, a, D
  <2>3. CASE o.s \in plug.announced
    BY <1>1, <2>1, <2>3, NoOps DEF D
  <2>4. CASE o.s \notin plug.announced
    <3>1. \A i \in DOMAIN Writes(o.s, 0, Announced(o.s, n, a)) : Mute(Writes(o.s, 0, Announced(o.s, n, a))[i])
      BY <1>0, <2>2, MuteAnnounced
    <3> QED BY <1>1, <2>1, <2>4, <3>1 DEF D
  <2> QED BY <2>3, <2>4
<1>3. CASE o.op = "accept"
  <2>1. D = IF o.s \in plug.blocked THEN <<>> ELSE <<Op("announce", o.s, 0), Op("consider", o.s, o.l)>>
    BY <1>3 DEF Does, Kinds, Statuses
  <2>2. "announce" \in OpNames \cap Silences /\ "consider" \in OpNames \cap Silences /\ 0 \in Nat
    BY DEF OpNames, Silences
  <2> HIDE DEF D
  <2>3. \A i \in DOMAIN D : Mute(D[i])
    BY <1>0, <2>1, <2>2, MuteTwo, NoOps
  <2> QED BY <1>1, <2>3 DEF D
<1>4. CASE o.op = "consider"
  BY <1>1, <1>4, MuteConsider
<1>5. CASE o.op = "emit"
  BY <1>1, <1>5, MuteEmit
<1>6. CASE o.op \in {"advance", "advanceTo", "adopted"}
  <2>1. D = <<>>
    BY <1>6 DEF Does, Kinds, Statuses
  <2> QED BY <1>1, <2>1, NoOps
<1>7. CASE o.op = "adopt"
  <2> DEFINE x == Op("advanceTo", o.s, o.l)
  <2>1. D = IF o.l <= ses[o.s].n THEN <<Op("accept", o.s, o.l), Op("adopt", o.s, o.l + 1)>> ELSE <<x>>
    BY <1>7 DEF Does, Kinds, Statuses
  <2>2. "accept" \in OpNames \cap Silences /\ "adopt" \in OpNames \cap Silences /\ o.l + 1 \in Nat
        /\ "advanceTo" \in OpNames \cap Silences
    BY <1>0 DEF OpNames, Silences
  <2>3. x \in Ops /\ Mute(x)
    <3>1. x \in Ops /\ x.op = "advanceTo"
      BY <1>0, <2>2, NewOp
    <3> HIDE DEF x
    <3> QED BY <2>2, <3>1, MuteName
  <2> HIDE DEF D, x
  <2>4. \A i \in DOMAIN <<x>> : Mute(<<x>>[i])
    BY <2>3, OneOp
  <2>5. \A i \in DOMAIN D : Mute(D[i])
    BY <1>0, <2>1, <2>2, <2>4, MuteTwo
  <2> QED BY <1>1, <2>5 DEF D
<1> QED BY <1>2, <1>3, <1>4, <1>5, <1>6, <1>7

\* A chain without writes numbers nothing.
LEMMA Unwritten ==
  ASSUME NEW D, \A i \in DOMAIN D : D[i].op # "write"
  PROVE  \A W, c : Numbered(D, W, c) /\ Tallied(D, c)
BY DEF Numbered, Tallied

\* What is done for a fact that gives a status gives it.
LEMMA AcceptsConveys ==
  ASSUME NEW f \in Facts, FactOK(ses, f)
  PROVE  /\ \A i \in DOMAIN Accepts(f) : Accepts(f)[i].op # "write"
         /\ \A s : Silent(Accepts(f), s) \/ States(f, s)
         /\ \A s : States(f, s) => /\ ~Silent(Accepts(f), s)
                                   /\ \A i \in DOMAIN Accepts(f) :
                                         Bears(Accepts(f)[i], s) => Tells(Accepts(f)[i], s, f.kind)
<1> DEFINE D == Accepts(f)
           Fits(d) == /\ d.op # "write"
                      /\ \A s : Bears(d, s) => States(f, s) /\ Tells(d, s, f.kind)
           Gives(d) == \A s : States(f, s) => Bears(d, s)
<1>1. f.s \in Sessions /\ f.l \in Nat /\ f.kind \in Kinds \cup {"session", "event"} /\ 0 \in Nat
  BY DEF Facts
<1>2. ASSUME NEW op \in OpNames \cap Silences, NEW l \in Nat
      PROVE  Op(op, f.s, l) \in Ops /\ Fits(Op(op, f.s, l))
  <2> DEFINE d == Op(op, f.s, l)
  <2>1. d \in Ops /\ d.op = op
    BY <1>1, <1>2, NewOp
  <2> HIDE DEF d
  <2>2. Mute(d)
    BY <2>1, <1>2, MuteName
  <2>3. \A s : ~Bears(d, s)
    BY <2>2, MuteOp
  <2>4. d.op # "write"
    BY <2>1, <1>2 DEF Silences
  <2> QED BY <2>1, <2>3, <2>4 DEF d
<1>3. ASSUME f.kind \in Kinds
      PROVE  Op(f.kind, f.s, 0) \in Ops /\ Fits(Op(f.kind, f.s, 0)) /\ Gives(Op(f.kind, f.s, 0))
  <2> DEFINE d == Op(f.kind, f.s, 0)
  <2>1. f.kind \in OpNames
    BY <1>3 DEF OpNames
  <2>2. d \in Ops /\ d.op = f.kind /\ d.s = f.s
    BY <1>1, <2>1, NewOp
  <2> HIDE DEF d
  <2>3. d.op # "write" /\ d.op # "fact" /\ d.op # "agents"
    BY <1>3, <2>2 DEF Kinds, Statuses
  <2>4. \A s : Bears(d, s) <=> d.s = s
    BY <1>3, <2>2, <2>3 DEF Bears
  <2>5. \A s : Tells(d, s, f.kind)
    BY <2>2 DEF Tells
  <2>6. \A s : States(f, s) <=> f.s = s
    BY <1>3 DEF States
  <2> QED BY <2>2, <2>3, <2>4, <2>5, <2>6 DEF d
<1>4. ASSUME NEW E \in Seq(Ops), E = D, \A i \in DOMAIN E : Fits(E[i]),
             f.kind \in Kinds => \E i \in DOMAIN E : Gives(E[i])
      PROVE  /\ \A i \in DOMAIN D : D[i].op # "write"
             /\ \A s : Silent(D, s) \/ States(f, s)
             /\ \A s : States(f, s) => /\ ~Silent(D, s)
                                       /\ \A i \in DOMAIN D : Bears(D[i], s) => Tells(D[i], s, f.kind)
  <2> HIDE DEF D
  <2>1. \A s : States(f, s) => f.kind \in Kinds
    BY DEF States
  <2>2. \A s : Silent(E, s) \/ States(f, s)
    BY <1>4 DEF Silent
  <2>3. \A s : States(f, s) => ~Silent(E, s)
    BY <1>4, <2>1 DEF Silent
  <2> QED BY <1>4, <2>2, <2>3
<1> HIDE DEF Fits, Gives
<1>5. CASE f.kind = "event"
  <2> DEFINE d == Op("accept", f.s, f.l)
  <2>1. D = <<d>>
    BY <1>5 DEF Accepts
  <2>2. "accept" \in OpNames \cap Silences
    BY DEF OpNames, Silences
  <2>3. d \in Ops /\ Fits(d)
    BY <1>1, <1>2, <2>2
  <2> HIDE DEF d, D
  <2>4. D \in Seq(Ops) /\ \A i \in DOMAIN D : Fits(D[i])
    BY <2>1, <2>3, OneOp
  <2>5. f.kind \notin Kinds
    BY <1>5 DEF Kinds, Statuses
  <2> QED BY <1>4, <2>4, <2>5 DEF D
<1>6. CASE f.kind = "session"
  <2> DEFINE d == Op("announce", f.s, 0)
  <2>1. D = <<d>>
    BY <1>6 DEF Accepts
  <2>2. "announce" \in OpNames \cap Silences
    BY DEF OpNames, Silences
  <2>3. d \in Ops /\ Fits(d)
    BY <1>1, <1>2, <2>2
  <2> HIDE DEF d, D
  <2>4. D \in Seq(Ops) /\ \A i \in DOMAIN D : Fits(D[i])
    BY <2>1, <2>3, OneOp
  <2>5. f.kind \notin Kinds
    BY <1>6 DEF Kinds, Statuses
  <2> QED BY <1>4, <2>4, <2>5 DEF D
<1>7. CASE f.kind = "disposed"
  <2> DEFINE d == Op(f.kind, f.s, 0)
  <2>1. D = <<d>>
    BY <1>7 DEF Accepts
  <2>2. f.kind \in Kinds
    BY <1>7 DEF Kinds
  <2>3. d \in Ops /\ Fits(d) /\ Gives(d)
    BY <1>3, <2>2
  <2> HIDE DEF d, D
  <2>4. D \in Seq(Ops) /\ (\A i \in DOMAIN D : Fits(D[i])) /\ \E i \in DOMAIN D : Gives(D[i])
    BY <2>1, <2>3, OneOp
  <2> QED BY <1>4, <2>4 DEF D
<1>8. CASE f.kind \in Statuses
  <2> DEFINE a == Op("announceAgent", f.s, 0)
             d == Op(f.kind, f.s, 0)
  <2>1. D = <<a, d>>
    BY <1>8 DEF Accepts, Statuses
  <2>2. f.kind \in Kinds /\ "announceAgent" \in OpNames \cap Silences
    BY <1>8 DEF Kinds, OpNames, Silences
  <2>3. a \in Ops /\ Fits(a) /\ d \in Ops /\ Fits(d) /\ Gives(d)
    BY <1>1, <1>2, <1>3, <2>2
  <2> HIDE DEF a, d, D
  <2>4. D \in Seq(Ops) /\ (\A i \in DOMAIN D : Fits(D[i])) /\ \E i \in DOMAIN D : Gives(D[i])
    BY <2>1, <2>3, TwoOps
  <2> QED BY <1>4, <2>4 DEF D
<1> QED BY <1>1, <1>5, <1>6, <1>7, <1>8 DEF Kinds

\* A status is numbered and written, under a number that nothing has.
LEMMA StatusConveys ==
  ASSUME PluginTypeOK, SessionsOK, NEW o, Ready(o), o.op \in Kinds \cup {"status"}, Counted(Sent, plug.counter)
  PROVE  /\ Numbered(Does(plug, o), Sent, plug.counter + 1) /\ Tallied(Does(plug, o), plug.counter + 1)
         /\ Changes(plug, o).counter = plug.counter + 1
         /\ \A s \in Sessions : ses[s].agent => Conveys(o, Does(plug, o), s, ses[s].status)
<1> DEFINE kind == IF o.op = "status" THEN ses[o.s].status ELSE o.op
           k == plug.counter + 1
           e == RuntimeEvent(o.s, k, kind)
           w == WriteOp(o.s, 0, e)
           D == Does(plug, o)
<1>1. o.s \in Sessions /\ kind \in Kinds /\ plug.counter \in Nat /\ k \in Nat /\ k > plug.counter
  <2>1. plug.counter \in Nat
    BY DEF PluginTypeOK, Plugs
  <2>2. o.s \in Sessions /\ (o.op = "status" => ses[o.s].status \in Statuses)
    BY DEF Ready, Ops, OpOK, Kinds, Statuses
  <2>3. kind \in Kinds
    BY <2>2 DEF Kinds, Statuses
  <2> QED BY <2>1, <2>2, <2>3
<1>2. D = <<w>>
  BY DEF Does, Kinds, Statuses
<1>3. Changes(plug, o).counter = k
  BY DEF Changes, Kinds, Statuses, PluginTypeOK, Plugs
<1>4. \A s \in Sessions : ses[s].agent => ses[s].status \in Statuses
  BY DEF SessionsOK, SessionOK
<1>5. \A s : ses[s].status = kind \/ o.op # "status" \/ s # o.s
  OBVIOUS
<1>6. o.op # "status" => kind = o.op
  OBVIOUS
<1>7. \A s \in Sessions : Bears(o, s) => o.s = s
  <2>1. o.op \notin {"write", "fact", "agents"}
    BY DEF Kinds, Statuses
  <2> QED BY <2>1 DEF Bears
<1>8. Bears(o, o.s)
  BY DEF Bears
<1> HIDE DEF kind, k, D
<1>9. w \in Ops /\ w.op = "write" /\ w.event[1] = e
  <2>1. e \in Sendables
    BY <1>1, RuntimeNotRecorded
  <2> HIDE DEF e
  <2>2. w \in Ops /\ w.op = "write" /\ w.event = <<e>>
    BY <1>1, <2>1, NewWriteOp
  <2>3. <<e>>[1] = e
    OBVIOUS
  <2> QED BY <2>2, <2>3
<1> HIDE DEF w
<1>10. D \in Seq(Ops) /\ DOMAIN D = {1} /\ D[1] = w
  BY <1>2, <1>9, OneOp
<1>11. \A s \in Sessions, j \in Nat, x \in Kinds : e = RuntimeEvent(s, j, x) => s = o.s /\ j = k /\ x = kind
  BY Apart
<1>12. \A t \in Sessions, x \in Kinds : RuntimeEvent(t, k, x) \notin Sent
  <2>1. k \notin 1 .. plug.counter
    BY <1>1
  <2> QED BY <1>1, <2>1 DEF Counted
<1>13. Numbered(D, Sent, k)
  BY <1>9, <1>10, <1>11, <1>12 DEF Numbered
<1>14. Tallied(D, k)
  <2>1. k \in 1 .. k
    BY <1>1
  <2> QED BY <1>9, <1>10, <1>11, <2>1 DEF Tallied
<1>15. ASSUME NEW s \in Sessions, ses[s].agent PROVE Conveys(o, D, s, ses[s].status)
  <2> DEFINE v == ses[s].status
  <2>0. v \in Statuses
    BY <1>4, <1>15
  <2>1. \A t \in Sessions : RuntimeOf(e, t) => t = o.s
    BY <1>11 DEF RuntimeOf
  <2>2. Bears(w, s) => s = o.s
    <3>1. w.op \notin Kinds \cup {"status", "fact", "agents"}
      BY <1>9 DEF Kinds, Statuses
    <3> QED BY <1>9, <2>1, <3>1 DEF Bears
  <2>3. CASE s # o.s
    <3>1. Silent(D, s)
      BY <1>10, <2>2, <2>3 DEF Silent
    <3>2. ~Bears(o, s)
      BY <1>7, <2>3
    <3> QED BY <3>1, <3>2 DEF Conveys
  <2>4. CASE s = o.s
    <3>1. Bears(w, s)
      <4>1. RuntimeOf(e, s)
        BY <1>1, <2>4 DEF RuntimeOf, e
      <4> QED BY <1>9, <4>1 DEF Bears
    <3>2. ASSUME Tells(o, s, v) PROVE Tells(w, s, v)
      <4>1. o.op \in {v, "status"}
        <5>1. o.op \notin {"write", "fact", "agents"}
          BY DEF Kinds, Statuses
        <5> QED BY <3>2, <5>1 DEF Tells
      <4>2. kind = v
        <5>1. CASE o.op = "status"
          BY <1>5, <2>4, <5>1
        <5>2. CASE o.op # "status"
          BY <1>6, <4>1, <5>2
        <5> QED BY <5>1, <5>2
      <4>3. e = RuntimeEvent(s, k, v)
        BY <2>4, <4>2 DEF e
      <4> QED BY <1>1, <1>9, <4>3 DEF Tells
    <3>3. Bears(o, s)
      BY <1>8, <2>4
    <3>4. ~Silent(D, s)
      BY <1>10, <3>1 DEF Silent
    <3> QED BY <1>10, <3>2, <3>3, <3>4 DEF Conveys
  <2> QED BY <2>3, <2>4
<1> QED BY <1>3, <1>13, <1>14, <1>15 DEF D, k

LEMMA FactConveys ==
  ASSUME PluginTypeOK, NEW o, Ready(o), o.op = "fact"
  PROVE  /\ \A i \in DOMAIN Does(plug, o) : Does(plug, o)[i].op # "write"
         /\ Changes(plug, o).counter = plug.counter
         /\ \A s : \A v \in Statuses : Conveys(o, Does(plug, o), s, v)
<1> DEFINE f == o.event[1]
           D == Accepts(f)
<1>1. f \in Facts /\ FactOK(ses, f)
  BY DEF Ready, OpOK
<1>2. Changes(plug, o) = plug /\ Does(plug, o) = D
  BY DEF Changes, Does, Kinds, Statuses
<1>3. \A s : Bears(o, s) <=> States(f, s)
  BY DEF Bears, States, Kinds, Statuses
<1>5. \A s : States(f, s) => f.kind \in Kinds
  BY DEF States
<1> HIDE DEF f
<1>6. /\ \A i \in DOMAIN D : D[i].op # "write"
      /\ \A s : Silent(D, s) \/ States(f, s)
      /\ \A s : States(f, s) => /\ ~Silent(D, s)
                                /\ \A i \in DOMAIN D : Bears(D[i], s) => Tells(D[i], s, f.kind)
  BY <1>1, AcceptsConveys
<1> HIDE DEF D
<1>7. ASSUME NEW s, NEW v \in Statuses PROVE Conveys(o, D, s, v)
  <2>1. Tells(o, s, v) => f.kind = v
    BY DEF Tells, Statuses, f
  <2> QED BY <1>3, <1>6, <2>1 DEF Conveys
<1> QED BY <1>2, <1>6, <1>7

\* Every agent's status is told.
LEMMA AgentsConveys ==
  ASSUME PluginTypeOK, SessionsOK, NEW o, Ready(o), o.op = "agents"
  PROVE  /\ \A i \in DOMAIN Does(plug, o) : Does(plug, o)[i].op # "write"
         /\ Changes(plug, o).counter = plug.counter
         /\ \A s \in Sessions : ses[s].agent => Conveys(o, Does(plug, o), s, ses[s].status)
<1> DEFINE S == {d \in Ops : d.op \in {"announceAgent", "status"}}
           Briefs(s) == IF ses[s].agent THEN <<Op("announceAgent", s, 0), Op("status", s, 0)>> ELSE <<>>
           lists == [i \in DOMAIN Order |-> Briefs(Order[i])]
           D == FlattenSeq(lists)
<1>1. Changes(plug, o) = plug /\ Does(plug, o) = D
  BY DEF Changes, Does, Kinds, Statuses
<1>2. ASSUME NEW s \in Sessions
      PROVE  /\ Briefs(s) \in Seq(S)
             /\ ses[s].agent => \E d \in ToSet(Briefs(s)) : d.op = "status" /\ d.s = s
  <2>1. CASE ses[s].agent
    <3> DEFINE a == Op("announceAgent", s, 0)
               b == Op("status", s, 0)
    <3>1. a \in Ops /\ a.op = "announceAgent" /\ b \in Ops /\ b.op = "status" /\ b.s = s
      <4>1. "announceAgent" \in OpNames /\ "status" \in OpNames /\ 0 \in Nat
        BY DEF OpNames
      <4> QED BY <4>1, NewOp
    <3>2. Briefs(s) = <<a, b>>
      BY <2>1
    <3> HIDE DEF a, b, Briefs
    <3>3. a \in S /\ b \in S
      BY <3>1
    <3> HIDE DEF S
    <3>4. <<a, b>> \in Seq(S) /\ b \in ToSet(<<a, b>>)
      BY <3>3 DEF ToSet
    <3> QED BY <3>1, <3>2, <3>4
  <2>2. CASE ~ses[s].agent
    <3>1. Briefs(s) = <<>>
      BY <2>2
    <3> QED BY <2>2, <3>1
  <2> QED BY <2>1, <2>2
<1>3. DOMAIN Order = 1 .. Len(Order) /\ Len(Order) \in Nat /\ \A i \in 1 .. Len(Order) : Order[i] \in Sessions
  <2>1. Order \in Seq(Sessions)
    BY DshAssumption
  <2> QED BY <2>1
<1>4. \A s \in Sessions : \E i \in DOMAIN Order : Order[i] = s
  BY DshAssumption DEF ToSet
<1>5. lists \in Seq(Seq(S)) /\ DOMAIN lists = DOMAIN Order /\ \A i \in DOMAIN Order : lists[i] = Briefs(Order[i])
  <2>1. \A i \in 1 .. Len(Order) : Briefs(Order[i]) \in Seq(S)
    BY <1>2, <1>3
  <2> HIDE DEF Briefs, S
  <2> QED BY <1>3, <2>1
<1> HIDE DEF lists, S, Briefs
<1>6. D \in Seq(S) /\ \A j \in DOMAIN lists : \A e \in ToSet(lists[j]) : \E i \in DOMAIN D : D[i] = e
  BY <1>5, Flattened
<1> HIDE DEF D
<1>7. \A i \in DOMAIN D : D[i] \in S
  BY <1>6
<1>8. \A i \in DOMAIN D : D[i].op \in {"announceAgent", "status"}
  BY <1>7 DEF S
<1>9. ASSUME NEW s \in Sessions, ses[s].agent PROVE Conveys(o, D, s, ses[s].status)
  <2> DEFINE v == ses[s].status
  <2>1. PICK j \in DOMAIN Order : Order[j] = s
    BY <1>4
  <2>2. PICK d \in ToSet(Briefs(s)) : d.op = "status" /\ d.s = s
    BY <1>2, <1>9
  <2>3. PICK i \in DOMAIN D : D[i] = d
    BY <1>5, <1>6, <2>1
  <2>4. Bears(D[i], s)
    BY <2>2, <2>3 DEF Bears
  <2>5. \A n \in DOMAIN D : Bears(D[n], s) => Tells(D[n], s, v)
    <3> SUFFICES ASSUME NEW n \in DOMAIN D, Bears(D[n], s) PROVE Tells(D[n], s, v)
      OBVIOUS
    <3>1. CASE D[n].op = "status"
      BY <3>1 DEF Tells
    <3>2. CASE D[n].op = "announceAgent"
      BY <3>2 DEF Bears, Kinds, Statuses
    <3> QED BY <1>8, <3>1, <3>2
  <2>6. Bears(o, s)
    BY DEF Bears
  <2> HIDE DEF v
  <2>7. Conveys(o, D, s, v)
    BY <2>4, <2>5, <2>6 DEF Conveys, Silent
  <2> QED BY <2>7 DEF v
<1>10. \A i \in DOMAIN D : D[i].op # "write"
  BY <1>8
<1> QED BY <1>1, <1>9, <1>10

\* What takes the place of an operation gives what it gave.
LEMMA StepConveys ==
  ASSUME PInv, NEW o, Ready(o), o.op \notin Waiting \cup {"write", "open"}, Counted(Sent, plug.counter)
  PROVE  LET D == Does(plug, o)
             c == Changes(plug, o).counter
         IN  /\ Numbered(D, Sent, c) /\ Tallied(D, c) /\ c \in Nat /\ plug.counter \in Nat /\ c >= plug.counter
             /\ \A s \in Sessions : ses[s].agent => Conveys(o, D, s, ses[s].status)
<1> DEFINE D == Does(plug, o)
           c == Changes(plug, o).counter
<1>1. PluginTypeOK /\ SessionsOK /\ CursorOK(plug.cursor, Sent, plug.blocked) /\ plug.counter \in Nat
  <2>1. PluginTypeOK /\ SessionsOK /\ CursorOK(plug.cursor, Sent, plug.blocked)
    BY DEF PInv
  <2> QED BY <2>1, PlugType
<1>2. \A s \in Sessions : ses[s].agent => ses[s].status \in Statuses
  BY <1>1 DEF SessionsOK, SessionOK
<1>3. o.op \in OpNames
  BY DEF Ready, Ops
<1>4. CASE o.op \in Kinds \cup {"status"}
  <2>1. plug.counter + 1 \in Nat /\ plug.counter + 1 >= plug.counter
    BY <1>1
  <2> QED BY <1>1, <1>4, <2>1, StatusConveys
<1>5. CASE o.op = "fact"
  <2>1. c = plug.counter /\ \A i \in DOMAIN D : D[i].op # "write"
    BY <1>1, <1>5, FactConveys
  <2>2. \A s \in Sessions : ses[s].agent => Conveys(o, D, s, ses[s].status)
    BY <1>1, <1>2, <1>5, FactConveys
  <2> HIDE DEF D, c
  <2>3. Numbered(D, Sent, c) /\ Tallied(D, c)
    BY <2>1, Unwritten
  <2>4. c \in Nat /\ c >= plug.counter
    BY <1>1, <2>1
  <2> QED BY <1>1, <2>2, <2>3, <2>4 DEF D, c
<1>6. CASE o.op = "agents"
  <2>1. c = plug.counter /\ \A i \in DOMAIN D : D[i].op # "write"
    BY <1>1, <1>6, AgentsConveys
  <2>2. \A s \in Sessions : ses[s].agent => Conveys(o, D, s, ses[s].status)
    BY <1>1, <1>6, AgentsConveys
  <2> HIDE DEF D, c
  <2>3. Numbered(D, Sent, c) /\ Tallied(D, c)
    BY <2>1, Unwritten
  <2>4. c \in Nat /\ c >= plug.counter
    BY <1>1, <2>1
  <2> QED BY <1>1, <2>2, <2>3, <2>4 DEF D, c
<1>7. CASE o.op \in {"announce", "announceAgent", "accept", "consider", "emit", "advance", "advanceTo", "adopted", "adopt"}
  <2>1. c = plug.counter /\ \A i \in DOMAIN D : Mute(D[i])
    BY <1>1, <1>7, MuteDoes
  <2>2. \A s : ~Bears(o, s)
    <3>1. o.op \in Silences
      BY <1>7 DEF Silences
    <3> QED BY <3>1, MuteName, MuteOp
  <2> HIDE DEF D, c
  <2>3. Numbered(D, Sent, c) /\ Tallied(D, c) /\ \A s, v : Conveys(o, D, s, v)
    BY <2>1, <2>2, MuteChain
  <2>4. c \in Nat /\ c >= plug.counter
    BY <1>1, <2>1
  <2> QED BY <1>1, <2>3, <2>4 DEF D, c
<1> QED BY <1>3, <1>4, <1>5, <1>6, <1>7 DEF OpNames, Waiting

LEMMA TalliedMore ==
  ASSUME NEW C, NEW c \in Nat, NEW c2 \in Nat, c <= c2
  PROVE  /\ Tallied(C, c) => Tallied(C, c2)
         /\ \A W : Counted(W, c) => Counted(W, c2)
<1>1. 1 .. c \subseteq 1 .. c2
  OBVIOUS
<1> QED BY <1>1 DEF Tallied, Counted

\* A step of start-up keeps the invariant if its chain goes on giving the statuses.
LEMMA BootGoesOn ==
  ASSUME PInv, SInv, plug.boot # <<>>, NEW q, q = plug', ses' = ses,
         q.work = plug.work, q.facts = plug.facts, q.pending = plug.pending, q.running = plug.running,
         q.bootstrapping = plug.bootstrapping, q.overlap = plug.overlap, plug.lost => q.lost,
         q.counter \in Nat, plug.counter \in Nat, q.counter >= plug.counter,
         Counted(Sent', q.counter), Tallied(q.boot, q.counter),
         ~q.lost /\ StatusOK(plug.boot, plug.pending, Sent, plug.counter, ses) =>
            StatusOK(q.boot, plug.pending, Sent', q.counter, ses)
  PROVE  SInv'
<1>1. plug.running
  BY DEF SInv, IdleOK
<1>2. IdleOK'
  BY <1>1 DEF IdleOK
<1>3. CountOK'
  <2>1. Tallied(plug.work, plug.counter)
    BY DEF SInv, CountOK
  <2>2. Tallied(plug.work, q.counter)
    BY <2>1, TalliedMore
  <2> QED BY <2>2 DEF CountOK
<1>4. ChainOK'
  <2>1. SUFFICES ASSUME ~q.lost, ~q.overlap
                 PROVE  IF q.bootstrapping \/ q.boot # <<>>
                        THEN /\ q.work = <<>> /\ q.facts = <<>>
                             /\ StatusOK(q.boot, q.pending, Sent', q.counter, ses)
                        ELSE StatusOK(q.work, q.facts, Sent', q.counter, ses)
    BY DEF ChainOK, Early
  <2>2. Early
    BY DEF Early
  <2>3. /\ plug.work = <<>> /\ plug.facts = <<>>
        /\ StatusOK(plug.boot, plug.pending, Sent, plug.counter, ses)
    BY <1>1, <2>1, <2>2 DEF SInv, ChainOK
  <2>4. StatusOK(q.boot, q.pending, Sent', q.counter, ses)
    BY <2>1, <2>3
  <2>5. ~q.bootstrapping => q.pending = <<>>
    BY DEF PInv
  <2> QED BY <2>3, <2>4, <2>5
<1> QED BY <1>2, <1>3, <1>4 DEF SInv

\* The same of a step of the delivery.
LEMMA WorkGoesOn ==
  ASSUME PInv, SInv, plug.work # <<>>, NEW q, q = plug', ses' = ses,
         q.boot = plug.boot, q.facts = plug.facts, q.pending = plug.pending, q.running = plug.running,
         q.bootstrapping = plug.bootstrapping, q.overlap = plug.overlap, plug.lost => q.lost,
         q.counter \in Nat, plug.counter \in Nat, q.counter >= plug.counter,
         Counted(Sent', q.counter), Tallied(q.work, q.counter),
         ~q.lost /\ StatusOK(plug.work, plug.facts, Sent, plug.counter, ses) =>
            StatusOK(q.work, plug.facts, Sent', q.counter, ses)
  PROVE  SInv'
<1>1. plug.running
  BY DEF SInv, IdleOK
<1>2. IdleOK'
  BY <1>1 DEF IdleOK
<1>3. CountOK'
  <2>1. Tallied(plug.boot, plug.counter)
    BY DEF SInv, CountOK
  <2>2. Tallied(plug.boot, q.counter)
    BY <2>1, TalliedMore
  <2> QED BY <2>2 DEF CountOK
<1>4. ChainOK'
  <2>1. SUFFICES ASSUME ~q.lost, ~q.overlap
                 PROVE  /\ ~(q.bootstrapping \/ q.boot # <<>>)
                        /\ StatusOK(q.work, q.facts, Sent', q.counter, ses)
    BY DEF ChainOK, Early
  <2>2. ~Early /\ StatusOK(plug.work, plug.facts, Sent, plug.counter, ses)
    BY <1>1, <2>1 DEF SInv, ChainOK
  <2> QED BY <2>1, <2>2 DEF Early
<1> QED BY <1>2, <1>3, <1>4 DEF SInv

LEMMA TakenNumber ==
  ASSUME PluginTypeOK, NEW o, NEW D, NEW p, Takes(o, D, p), NEW C \in Seq(Ops)
  PROVE  /\ WithBoot(p, C).counter = p.counter /\ WithBoot(p, C).overlap = plug.overlap
         /\ WithWork(p, C).counter = p.counter /\ WithWork(p, C).overlap = plug.overlap
         /\ p.counter \in Nat
<1> DEFINE a == p.announced
           b == p.blocked
           c == p.cursor
           n == p.counter
<1>1. n \in Nat /\ p = [plug EXCEPT !.announced = a, !.blocked = b, !.cursor = c, !.counter = n]
  BY DEF Takes
<1> HIDE DEF a, b, c, n
<1>2. p.counter = n
  BY DEF n
<1>3. /\ WithBoot(p, C) = [plug EXCEPT !.announced = a, !.blocked = b, !.cursor = c, !.counter = n, !.boot = C]
      /\ WithWork(p, C) = [plug EXCEPT !.announced = a, !.blocked = b, !.cursor = c, !.counter = n, !.work = C]
  BY <1>1 DEF WithBoot, WithWork
<1> QED BY <1>1, <1>2, <1>3 DEF PluginTypeOK, Plugs

LEMMA BootStepStatus ==
  ASSUME PInv, SInv, BootStep
  PROVE  SInv'
<1> DEFINE C == plug.boot
           o == C[1]
           D == Does(plug, o)
           p == Changes(plug, o)
           E == D \o Tail(C)
           q == plug'
<1>1. C \in Seq(Ops) /\ C # <<>> /\ Chained(ses, C) /\ Ordered(C, Sent, plug.blocked) /\ PluginTypeOK
  BY DEF BootStep, PInv, PluginTypeOK, Plugs, ChainsOK, InOrder
<1>2. Ready(o) /\ Head(C) = o
  BY <1>1, HeadReady
<1>3. o.op \notin Waiting \cup {"write", "open"} /\ q = WithBoot(p, E) /\ ses' = ses /\ Sent' = Sent
  BY <1>2 DEF BootStep, OnlyPlug, WithBoot, Sent
<1>4. Takes(o, D, p)
  BY <1>2, <1>3, TakenSteps DEF PInv
<1>5. Counted(Sent, plug.counter) /\ Tallied(C, plug.counter)
  BY DEF SInv, CountOK
<1>6. /\ Numbered(D, Sent, p.counter) /\ Tallied(D, p.counter) /\ p.counter \in Nat /\ plug.counter \in Nat
      /\ p.counter >= plug.counter
      /\ \A s \in Sessions : ses[s].agent => Conveys(o, D, s, ses[s].status)
  BY <1>2, <1>3, <1>5, StepConveys
<1> HIDE DEF D, p
<1>7. D \in Seq(Ops)
  BY <1>4 DEF Takes
<1>8. E \in Seq(Ops)
  BY <1>1, <1>7, Splice
<1>9. Tallied(E, p.counter)
  BY <1>1, <1>5, <1>6, <1>7, TalliedSplice
<1>10. StatusOK(C, plug.pending, Sent, plug.counter, ses) => StatusOK(E, plug.pending, Sent, p.counter, ses)
  BY <1>1, <1>6, <1>7, StatusSplice
<1> HIDE DEF q, E, o
<1>11. /\ q.boot = E /\ q.work = plug.work /\ q.pending = plug.pending /\ q.facts = plug.facts
       /\ q.bootstrapping = plug.bootstrapping /\ q.running = plug.running /\ q.lost = plug.lost
  BY <1>1, <1>3, <1>4, <1>8, ChainsBoot
<1>12. q.counter = p.counter /\ q.overlap = plug.overlap
  BY <1>1, <1>3, <1>4, <1>8, TakenNumber
<1>13. Counted(Sent, p.counter)
  BY <1>5, <1>6, TalliedMore
<1>14. q = plug'
  BY DEF q
<1> QED BY <1>1, <1>3, <1>6, <1>9, <1>10, <1>11, <1>12, <1>13, <1>14, BootGoesOn

LEMMA DeliverStepStatus ==
  ASSUME PInv, SInv, DeliverStep
  PROVE  SInv'
<1> DEFINE C == plug.work
           o == C[1]
           D == Does(plug, o)
           p == Changes(plug, o)
           E == D \o Tail(C)
           q == plug'
<1>1. /\ C \in Seq(Ops) /\ C # <<>> /\ Chained(ses, C) /\ Ordered(C, Sent, plug.blocked) /\ PluginTypeOK
      /\ Plain(C)
  BY DEF DeliverStep, PInv, PluginTypeOK, Plugs, ChainsOK, InOrder
<1>2. Ready(o) /\ Head(C) = o /\ 1 \in DOMAIN C
  BY <1>1, HeadReady
<1>3. o.op \notin Waiting \cup {"write", "open"} /\ q = WithWork(p, E) /\ ses' = ses /\ Sent' = Sent
  <2>1. o.op # "write" /\ q = WithWork(p, E) /\ ses' = ses /\ Sent' = Sent
    BY <1>2 DEF DeliverStep, OnlyPlug, WithWork, Sent
  <2> QED BY <1>1, <1>2, <2>1 DEF Plain, Endings, Waiting
<1>4. Takes(o, D, p)
  BY <1>2, <1>3, TakenSteps DEF PInv
<1>5. Counted(Sent, plug.counter) /\ Tallied(C, plug.counter)
  BY DEF SInv, CountOK
<1>6. /\ Numbered(D, Sent, p.counter) /\ Tallied(D, p.counter) /\ p.counter \in Nat /\ plug.counter \in Nat
      /\ p.counter >= plug.counter
      /\ \A s \in Sessions : ses[s].agent => Conveys(o, D, s, ses[s].status)
  BY <1>2, <1>3, <1>5, StepConveys
<1> HIDE DEF D, p
<1>7. D \in Seq(Ops)
  BY <1>4 DEF Takes
<1>8. E \in Seq(Ops)
  BY <1>1, <1>7, Splice
<1>9. Tallied(E, p.counter)
  BY <1>1, <1>5, <1>6, <1>7, TalliedSplice
<1>10. StatusOK(C, plug.facts, Sent, plug.counter, ses) => StatusOK(E, plug.facts, Sent, p.counter, ses)
  BY <1>1, <1>6, <1>7, StatusSplice
<1> HIDE DEF q, E, o
<1>11. /\ q.work = E /\ q.boot = plug.boot /\ q.pending = plug.pending /\ q.facts = plug.facts
       /\ q.bootstrapping = plug.bootstrapping /\ q.running = plug.running /\ q.lost = plug.lost
  BY <1>1, <1>3, <1>4, <1>8, ChainsWork
<1>12. q.counter = p.counter /\ q.overlap = plug.overlap
  BY <1>1, <1>3, <1>4, <1>8, TakenNumber
<1>13. Counted(Sent, p.counter)
  BY <1>5, <1>6, TalliedMore
<1>14. q = plug'
  BY DEF q
<1> QED BY <1>1, <1>3, <1>6, <1>9, <1>10, <1>11, <1>12, <1>13, <1>14, WorkGoesOn

\* A status is the last that was sent once it is, if no other is to come.
LEMMA WriteCurrent ==
  ASSUME NEW C \in Seq(Ops), C # <<>>, C[1].op = "write", NEW F, NEW W, NEW W2, W2 = W \cup {C[1].event[1]},
         NEW c \in Nat, Counted(W, c), Numbered(C, W, c), NEW s \in Sessions, NEW v \in Statuses,
         IsCurrent(C, F, W, s, v)
  PROVE  IsCurrent(Tail(C), F, W2, s, v)
<1> DEFINE o == C[1]
           e == o.event[1]
           T == Tail(C)
           m == Len(C)
<1>0. o.op \notin Kinds \cup {"status", "fact", "agents"} /\ o.op \notin {v, "status", "agents"} /\ v \in Kinds
  BY DEF Kinds, Statuses
<1>1. Bears(o, s) <=> RuntimeOf(e, s)
  BY <1>0 DEF Bears
<1>2. /\ T \in Seq(Ops) /\ m \in Nat /\ m >= 1 /\ DOMAIN C = 1 .. m /\ DOMAIN T = 1 .. m - 1
      /\ \A i \in 1 .. m - 1 : T[i] = C[i + 1]
      /\ <<>> \o T = T /\ <<>> \in Seq(Ops)
  <2>1. T \in Seq(Ops) /\ <<>> \o T = T
    BY Rest
  <2>2. Len(T) = m - 1 /\ \A i \in 1 .. m - 1 : T[i] = C[i + 1]
    BY Splice, NoOps
  <2> QED BY <2>1, <2>2, DomLen, NoOps
<1>3. 1 \in DOMAIN C
  BY <1>2
<1> HIDE DEF T, m, o
<1>4. LastHeard(F, s, v)
  BY DEF IsCurrent
<1>5. CASE ~Bears(o, s)
  <2>1. Silent(<<>>, s)
    BY NoOps DEF Silent
  <2>2. Conveys(C[1], <<>>, s, v)
    BY <1>5, <2>1 DEF Conveys, o
  <2>3. IsCurrent(<<>> \o Tail(C), F, W, s, v)
    BY <1>2, <2>2, CurrentSplice
  <2>4. IsCurrent(T, F, W, s, v)
    BY <1>2, <2>3 DEF T
  <2>5. ASSUME LastSent(W, s, v) PROVE LastSent(W2, s, v)
    <3>1. \A j \in Nat, kind \in Kinds : e # RuntimeEvent(s, j, kind)
      BY <1>1, <1>5 DEF RuntimeOf
    <3>2. \A j \in Nat, kind \in Kinds : RuntimeEvent(s, j, kind) \in W2 <=> RuntimeEvent(s, j, kind) \in W
      BY <3>1 DEF o
    <3> QED BY <1>0, <2>5, <3>2 DEF LastSent
  <2> QED BY <2>4, <2>5 DEF IsCurrent, T
<1>6. CASE Bears(o, s)
  <2>1. PICK k \in Nat, kind \in Kinds : e = RuntimeEvent(s, k, kind)
    BY <1>1, <1>6 DEF RuntimeOf
  <2>2. k = c
    BY <1>3, <2>1 DEF Numbered, o
  <2>3. ASSUME Unheard(F, s) PROVE LastTells(T, s, v)
    <3>1. LastTells(C, s, v)
      BY <2>3 DEF IsCurrent
    <3>2. SUFFICES ASSUME NEW i \in 1 .. m - 1, Bears(T[i], s), \A j \in DOMAIN T : j > i => ~Bears(T[j], s)
                   PROVE  Tells(T[i], s, v)
      BY <1>2 DEF LastTells
    <3>3. i + 1 \in DOMAIN C /\ T[i] = C[i + 1]
      BY <1>2
    <3>4. \A j \in DOMAIN C : j > i + 1 => ~Bears(C[j], s)
      <4> SUFFICES ASSUME NEW j \in 1 .. m, j > i + 1 PROVE ~Bears(C[j], s)
        BY <1>2
      <4>1. j - 1 \in 1 .. m - 1 /\ j - 1 > i /\ (j - 1) + 1 = j
        BY <1>2
      <4>2. T[j - 1] = C[j] /\ ~Bears(T[j - 1], s)
        BY <1>2, <3>2, <4>1
      <4> QED BY <4>2
    <3> QED BY <3>1, <3>2, <3>3, <3>4 DEF LastTells
  <2>4. ASSUME Unheard(F, s), Silent(T, s) PROVE LastSent(W2, s, v)
    <3>1. LastTells(C, s, v)
      BY <2>4 DEF IsCurrent
    <3>2. \A j \in DOMAIN C : j > 1 => ~Bears(C[j], s)
      <4> SUFFICES ASSUME NEW j \in 1 .. m, j > 1 PROVE ~Bears(C[j], s)
        BY <1>2
      <4>1. j - 1 \in 1 .. m - 1 /\ (j - 1) + 1 = j
        BY <1>2
      <4>2. T[j - 1] = C[j] /\ ~Bears(T[j - 1], s)
        BY <1>2, <2>4, <4>1 DEF Silent
      <4> QED BY <4>2
    <3>3. Tells(o, s, v)
      BY <1>3, <1>6, <3>1, <3>2 DEF LastTells, o
    <3>4. PICK n \in Nat : e = RuntimeEvent(s, n, v)
      BY <1>0, <3>3 DEF Tells
    <3>5. n = c
      BY <2>1, <2>2, <3>4, Apart
    <3>6. ASSUME NEW j \in Nat, NEW x \in Kinds, j > c PROVE RuntimeEvent(s, j, x) \notin W2
      <4>1. RuntimeEvent(s, j, x) \notin W
        <5>1. j \notin 1 .. c
          BY <3>6
        <5> QED BY <5>1 DEF Counted
      <4>2. RuntimeEvent(s, j, x) # e
        <5>1. RuntimeEvent(s, j, x) = e => j = n
          BY <3>4, Apart
        <5> QED BY <3>5, <3>6, <5>1
      <4> QED BY <4>1, <4>2 DEF o
    <3>7. RuntimeEvent(s, c, v) \in W2
      BY <3>4, <3>5 DEF o
    <3> QED BY <3>6, <3>7 DEF LastSent
  <2> QED BY <1>4, <2>3, <2>4 DEF IsCurrent, T
<1> QED BY <1>5, <1>6

LEMMA WriteStatus ==
  ASSUME NEW C \in Seq(Ops), C # <<>>, C[1].op = "write", NEW F, NEW W, NEW W2, W2 = W \cup {C[1].event[1]},
         NEW c \in Nat, Counted(W, c), Tallied(C, c), NEW h,
         \A s \in Sessions : h[s].agent => h[s].status \in Statuses
  PROVE  /\ Counted(W2, c) /\ Tallied(Tail(C), c)
         /\ StatusOK(C, F, W, c, h) => StatusOK(Tail(C), F, W2, c, h)
<1>1. <<>> \o Tail(C) = Tail(C) /\ <<>> \in Seq(Ops) /\ 1 \in DOMAIN C
  BY Rest, NoOps
<1>2. Numbered(<<>>, W2, c) /\ Tallied(<<>>, c)
  BY NoOps DEF Numbered, Tallied
<1>3. Counted(W2, c)
  BY <1>1 DEF Counted, Tallied
<1>4. Tallied(<<>> \o Tail(C), c)
  <2>1. c <= c
    OBVIOUS
  <2> QED BY <1>1, <1>2, <2>1, TalliedSplice
<1>5. ASSUME StatusOK(C, F, W, c, h) PROVE StatusOK(Tail(C), F, W2, c, h)
  <2>1. Numbered(C, W, c)
    BY <1>5 DEF StatusOK
  <2>2. Numbered(<<>> \o Tail(C), W2, c)
    BY <1>1, <1>2, <2>1, NumberedSplice
  <2>3. ASSUME NEW s \in Sessions, h[s].agent PROVE IsCurrent(Tail(C), F, W2, s, h[s].status)
    <3>1. IsCurrent(C, F, W, s, h[s].status) /\ h[s].status \in Statuses
      BY <1>5, <2>3 DEF StatusOK
    <3> QED BY <2>1, <3>1, WriteCurrent
  <2> QED BY <1>1, <2>2, <2>3 DEF StatusOK
<1> QED BY <1>1, <1>3, <1>4, <1>5

LEMMA TalliedIn ==
  ASSUME NEW C, NEW E, NEW c, \A i \in DOMAIN E : \E j \in DOMAIN C : E[i] = C[j], Tallied(C, c)
  PROVE  Tallied(E, c)
BY DEF Tallied

LEMMA CaughtTally ==
  ASSUME NEW C \in Seq(Ops), NEW o, o.l = 0, NEW D, D = Caught(o, C)
  PROVE  \A i \in DOMAIN D : \E j \in DOMAIN C : D[i] = C[j]
<1> DEFINE A == {i \in DOMAIN C : C[i].op = "adopted"}
           m == Min(A)
           E == SubSeq(C, m + 1, Len(C))
<1>1. D = IF A = {} THEN <<>> ELSE E
  BY DEF Caught
<1>2. CASE A = {}
  BY <1>1, <1>2, NoOps
<1>3. CASE A # {}
  <2>1. DOMAIN C = 1 .. Len(C) /\ Len(C) \in Nat
    BY DomLen
  <2>2. m \in A
    <3> DEFINE n == Len(C)
    <3>1. n \in Nat /\ A \in SUBSET (1 .. n)
      BY <2>1
    <3> HIDE DEF A, n
    <3> QED BY <1>3, <3>1, Least
  <2> HIDE DEF m
  <2>3. m \in 0 .. Len(C)
    BY <2>1, <2>2
  <2>4. DOMAIN E = 1 .. Len(C) - m /\ \A i \in 1 .. Len(C) - m : E[i] = C[m + i] /\ m + i \in DOMAIN C
    BY <2>3, Suffix
  <2> HIDE DEF E, A
  <2> QED BY <1>1, <1>3, <2>4
<1> QED BY <1>2, <1>3

\* A chain whose event the sink was too full for: it is a record's, or a fact is lost.
LEMMA OverfullStatus ==
  ASSUME PInv, NEW C \in Seq(Ops), C # <<>>, C[1].op = "write", Chained(ses, C), NEW c \in Nat, Tallied(C, c)
  PROVE  /\ Tallied(Caught(C[1], Tail(C)), c)
         /\ C[1].l > 0 => \A F, W, h : StatusOK(C, F, W, c, h) => StatusOK(Caught(C[1], Tail(C)), F, W, c, h)
<1> DEFINE o == C[1]
           T == Tail(C)
           m == Len(C)
<1>1. /\ T \in Seq(Ops) /\ m \in Nat /\ m >= 1 /\ DOMAIN C = 1 .. m /\ DOMAIN T = 1 .. m - 1
      /\ \A i \in 1 .. m - 1 : T[i] = C[i + 1]
      /\ <<>> \o T = T /\ <<>> \in Seq(Ops) /\ Len(T) = m - 1
  <2>1. T \in Seq(Ops) /\ <<>> \o T = T
    BY Rest
  <2>2. Len(T) = m - 1 /\ \A i \in 1 .. m - 1 : T[i] = C[i + 1]
    BY Splice, NoOps
  <2> QED BY <2>1, <2>2, DomLen, NoOps
<1>2. 1 \in DOMAIN C /\ o \in Ops /\ o.op = "write" /\ OpOK(ses, o)
  BY <1>1 DEF Chained
<1>3. o.l \in Nat
  BY <1>2 DEF Ops
<1>4. \A i \in DOMAIN T : \E j \in DOMAIN C : T[i] = C[j]
  <2> SUFFICES ASSUME NEW i \in 1 .. m - 1 PROVE i + 1 \in DOMAIN C /\ T[i] = C[i + 1]
    BY <1>1
  <2> QED BY <1>1
<1> HIDE DEF T, m, o
<1>5. Tallied(T, c)
  BY <1>4, TalliedIn
<1>6. CASE o.l = 0
  <2> DEFINE E == Caught(o, T)
  <2>0. E = Caught(o, T)
    OBVIOUS
  <2> HIDE DEF E
  <2>1. \A i \in DOMAIN E : \E j \in DOMAIN T : E[i] = T[j]
    BY <1>1, <1>6, <2>0, CaughtTally
  <2>2. Tallied(E, c)
    BY <1>5, <2>1, TalliedIn
  <2> QED BY <1>6, <2>2 DEF E, o, T
<1>7. CASE o.l > 0
  <2> DEFINE U == Tail(T)
  <2>1. Caught(o, T) = U
    BY <1>7 DEF Caught
  <2>2. 1 < m /\ C[2].op = "advance"
    <3>1. 1 < Len(C) /\ C[1 + 1].op = "advance"
      BY <1>2, <1>7 DEF Chained, o
    <3> QED BY <3>1 DEF m
  <2>3. T # <<>> /\ T[1] = C[2]
    <3>1. 1 \in 1 .. m - 1 /\ 1 + 1 = 2
      BY <1>1, <2>2
    <3>2. T[1] = C[2] /\ DOMAIN T # {}
      BY <1>1, <3>1
    <3> QED BY <3>2, NoOps
  <2>4. Mute(o) /\ Mute(T[1])
    <3>1. "advance" \in Silences
      BY DEF Silences
    <3> QED BY <1>2, <1>7, <2>2, <2>3, <3>1, MuteRecord, MuteName
  <2>5. \A s, v : Conveys(o, <<>>, s, v) /\ Conveys(T[1], <<>>, s, v)
    <3>1. \A s : ~Bears(o, s)
      BY <2>4, MuteOp
    <3>2. \A s : ~Bears(T[1], s)
      BY <2>4, MuteOp
    <3> QED BY <3>1, <3>2, NoOps DEF Conveys, Silent
  <2>6. \A W : Numbered(<<>>, W, c)
    BY NoOps DEF Numbered
  <2>7. <<>> \o U = U /\ U \in Seq(Ops) /\ \A i \in DOMAIN U : \E j \in DOMAIN T : U[i] = T[j]
    <3>1. <<>> \o U = U /\ U \in Seq(Ops)
      BY <1>1, <2>3, Rest
    <3>2. Len(U) = m - 2 /\ \A i \in 1 .. m - 2 : U[i] = T[i + 1]
      <4>1. Len(U) = Len(T) - 1 /\ \A i \in 1 .. Len(T) - 1 : U[i] = T[i + 1]
        BY <1>1, <2>3, Splice, NoOps
      <4>2. Len(T) - 1 = m - 2
        BY <1>1
      <4> QED BY <4>1, <4>2
    <3>3. DOMAIN U = 1 .. m - 2
      BY <3>1, <3>2, DomLen
    <3>4. \A i \in 1 .. m - 2 : i + 1 \in DOMAIN T
      BY <1>1
    <3> QED BY <3>1, <3>2, <3>3, <3>4
  <2>8. Tallied(U, c)
    <3> HIDE DEF U
    <3> QED BY <1>5, <2>7, TalliedIn
  <2>9. ASSUME NEW F, NEW W, NEW h, StatusOK(C, F, W, c, h) PROVE StatusOK(U, F, W, c, h)
    <3>1. StatusOK(<<>> \o Tail(C), F, W, c, h)
      BY <1>1, <2>5, <2>6, <2>9, StatusSplice DEF o
    <3>2. StatusOK(T, F, W, c, h)
      BY <1>1, <3>1 DEF T
    <3>3. StatusOK(<<>> \o Tail(T), F, W, c, h)
      BY <1>1, <2>3, <2>5, <2>6, <3>2, StatusSplice
    <3> QED BY <2>7, <3>3
  <2> HIDE DEF U
  <2> QED BY <2>1, <2>8, <2>9 DEF o, T
<1> QED BY <1>3, <1>6, <1>7

LEMMA StatusesKnown ==
  ASSUME PInv
  PROVE  /\ \A s \in Sessions : ses[s].agent => ses[s].status \in Statuses
         /\ plug.counter \in Nat /\ PluginTypeOK /\ SessionsOK
         /\ plug.boot \in Seq(Ops) /\ plug.work \in Seq(Ops) /\ Chained(ses, plug.boot) /\ Chained(ses, plug.work)
         /\ plug.pending \in Seq(Facts) /\ plug.facts \in Seq(Facts)
         /\ queue \in Seq(Sendables)
<1>1. \A s \in Sessions : ses[s].agent => ses[s].status \in Statuses
  BY DEF PInv, SessionsOK, SessionOK
<1>2. plug \in Plugs /\ PluginTypeOK /\ SessionsOK /\ queue \in Seq(Sendables)
  BY DEF PInv, PluginTypeOK
<1>3. Chained(ses, plug.boot) /\ Chained(ses, plug.work)
  BY DEF PInv, ChainsOK
<1> QED BY <1>1, <1>2, <1>3 DEF Plugs

LEMMA SentAlso ==
  ASSUME queue \in Seq(Sendables), NEW e \in Sendables, queue' = Append(queue, e), durable' = durable
  PROVE  Sent' = Sent \cup {e}
<1>1. /\ DOMAIN queue = 1 .. Len(queue) /\ DOMAIN queue' = 1 .. Len(queue) + 1 /\ Len(queue) \in Nat
      /\ queue'[Len(queue) + 1] = e /\ \A i \in 1 .. Len(queue) : queue'[i] = queue[i]
  BY Sending
<1>2. ToSet(queue) = {queue[j] : j \in 1 .. Len(queue)} /\ ToSet(queue') = {queue'[j] : j \in 1 .. Len(queue) + 1}
  BY <1>1 DEF ToSet
<1>3. \A i \in 1 .. Len(queue) + 1 : i \in 1 .. Len(queue) \/ i = Len(queue) + 1
  BY <1>1
<1>4. \A i \in 1 .. Len(queue) : i \in 1 .. Len(queue) + 1
  BY <1>1
<1>5. Len(queue) + 1 \in 1 .. Len(queue) + 1
  BY <1>1
<1>6. ToSet(queue') \subseteq ToSet(queue) \cup {e}
  BY <1>1, <1>2, <1>3
<1>7. ToSet(queue) \cup {e} \subseteq ToSet(queue')
  BY <1>1, <1>2, <1>4, <1>5
<1> QED BY <1>6, <1>7 DEF Sent

LEMMA BootWriteStatus ==
  ASSUME PInv, SInv, BootWrite
  PROVE  SInv'
<1> DEFINE C == plug.boot
           o == C[1]
           c == plug.counter
           E == Caught(o, Tail(C))
           T == Tail(C)
           e == o.event[1]
           q == plug'
<1>1. /\ C \in Seq(Ops) /\ C # <<>> /\ Head(C) = o /\ o.op = "write" /\ ses' = ses
      /\ Chained(ses, C) /\ PluginTypeOK /\ c \in Nat /\ plug \in Plugs
      /\ \A s \in Sessions : ses[s].agent => ses[s].status \in Statuses
  <2>1. C # <<>> /\ Head(C).op = "write" /\ ses' = ses
    BY DEF BootWrite
  <2>2. C \in Seq(Ops) /\ Chained(ses, C) /\ PluginTypeOK /\ c \in Nat
        /\ \A s \in Sessions : ses[s].agent => ses[s].status \in Statuses
    BY StatusesKnown
  <2>3. Head(C) = o
    BY <2>1, <2>2
  <2> QED BY <2>1, <2>2, <2>3 DEF PluginTypeOK
<1>2. Counted(Sent, c) /\ Tallied(C, c)
  BY DEF SInv, CountOK
<1>3. c >= c
  BY <1>1
<1>4. CASE Len(queue) >= QueueLimit
  <2>1. /\ Tallied(E, c)
        /\ o.l > 0 => \A F, W, h : StatusOK(C, F, W, c, h) => StatusOK(E, F, W, c, h)
    BY <1>1, <1>2, OverfullStatus
  <2>2. Sent' = Sent /\ q = [Throws(plug, o) EXCEPT !.boot = E]
    BY <1>1, <1>4 DEF BootWrite, Sent
  <2> HIDE DEF E
  <2>3. /\ q.boot = E /\ q.work = plug.work /\ q.facts = plug.facts /\ q.pending = plug.pending
        /\ q.running = plug.running /\ q.bootstrapping = plug.bootstrapping /\ q.overlap = plug.overlap
        /\ q.counter = c /\ (plug.lost => q.lost) /\ (~q.lost => o.l > 0)
    BY <1>1, <2>2 DEF Throws, Plugs
  <2>4. ~q.lost /\ StatusOK(plug.boot, plug.pending, Sent, plug.counter, ses) =>
           StatusOK(q.boot, plug.pending, Sent', q.counter, ses)
    BY <2>1, <2>2, <2>3
  <2> HIDE DEF o
  <2> QED BY <1>1, <1>2, <1>3, <2>1, <2>2, <2>3, <2>4, BootGoesOn
<1>5. CASE ~(Len(queue) >= QueueLimit)
  <2>1. queue' = Append(queue, e) /\ durable' = durable /\ q = [plug EXCEPT !.boot = T]
    BY <1>1, <1>5 DEF BootWrite, Sink!Write
  <2>2. e \in Sendables
    <3>1. 1 \in DOMAIN C
      BY <1>1
    <3> QED BY <1>1, <3>1 DEF Chained, OpOK
  <2> HIDE DEF e, T
  <2>3. Sent' = Sent \cup {e}
    BY <2>1, <2>2, StatusesKnown, SentAlso
  <2>4. /\ Counted(Sent', c) /\ Tallied(T, c)
        /\ StatusOK(C, plug.pending, Sent, c, ses) => StatusOK(T, plug.pending, Sent', c, ses)
    <3> DEFINE W == Sent
               W2 == Sent'
               h == ses
               F == plug.pending
    <3>1. C \in Seq(Ops) /\ C # <<>> /\ C[1].op = "write" /\ W2 = W \cup {C[1].event[1]} /\ c \in Nat
          /\ Counted(W, c) /\ Tallied(C, c) /\ \A s \in Sessions : h[s].agent => h[s].status \in Statuses
      BY <1>1, <1>2, <2>3 DEF e
    <3> HIDE DEF C, W, W2, h, F, c
    <3>2. /\ Counted(W2, c) /\ Tallied(Tail(C), c)
          /\ StatusOK(C, F, W, c, h) => StatusOK(Tail(C), F, W2, c, h)
      BY <3>1, WriteStatus
    <3> QED BY <3>2 DEF T, W, W2, h, F
  <2>5. /\ q.boot = T /\ q.work = plug.work /\ q.facts = plug.facts /\ q.pending = plug.pending
        /\ q.running = plug.running /\ q.bootstrapping = plug.bootstrapping /\ q.overlap = plug.overlap
        /\ q.counter = c /\ q.lost = plug.lost
    BY <1>1, <2>1 DEF Plugs
  <2> HIDE DEF o
  <2> QED BY <1>1, <1>3, <2>4, <2>5, BootGoesOn
<1> QED BY <1>4, <1>5

LEMMA DeliverWriteStatus ==
  ASSUME PInv, SInv, DeliverWrite
  PROVE  SInv'
<1> DEFINE C == plug.work
           o == C[1]
           c == plug.counter
           E == Caught(o, Tail(C))
           T == Tail(C)
           e == o.event[1]
           q == plug'
<1>1. /\ C \in Seq(Ops) /\ C # <<>> /\ Head(C) = o /\ o.op = "write" /\ ses' = ses
      /\ Chained(ses, C) /\ PluginTypeOK /\ c \in Nat /\ plug \in Plugs
      /\ \A s \in Sessions : ses[s].agent => ses[s].status \in Statuses
  <2>1. C # <<>> /\ Head(C).op = "write" /\ ses' = ses
    BY DEF DeliverWrite
  <2>2. C \in Seq(Ops) /\ Chained(ses, C) /\ PluginTypeOK /\ c \in Nat
        /\ \A s \in Sessions : ses[s].agent => ses[s].status \in Statuses
    BY StatusesKnown
  <2>3. Head(C) = o
    BY <2>1, <2>2
  <2> QED BY <2>1, <2>2, <2>3 DEF PluginTypeOK
<1>2. Counted(Sent, c) /\ Tallied(C, c)
  BY DEF SInv, CountOK
<1>3. c >= c
  BY <1>1
<1>4. CASE Len(queue) >= QueueLimit
  <2>1. /\ Tallied(E, c)
        /\ o.l > 0 => \A F, W, h : StatusOK(C, F, W, c, h) => StatusOK(E, F, W, c, h)
    BY <1>1, <1>2, OverfullStatus
  <2>2. Sent' = Sent /\ q = [Throws(plug, o) EXCEPT !.work = E]
    BY <1>1, <1>4 DEF DeliverWrite, Sent
  <2> HIDE DEF E
  <2>3. /\ q.work = E /\ q.boot = plug.boot /\ q.facts = plug.facts /\ q.pending = plug.pending
        /\ q.running = plug.running /\ q.bootstrapping = plug.bootstrapping /\ q.overlap = plug.overlap
        /\ q.counter = c /\ (plug.lost => q.lost) /\ (~q.lost => o.l > 0)
    BY <1>1, <2>2 DEF Throws, Plugs
  <2>4. ~q.lost /\ StatusOK(plug.work, plug.facts, Sent, plug.counter, ses) =>
           StatusOK(q.work, plug.facts, Sent', q.counter, ses)
    BY <2>1, <2>2, <2>3
  <2> HIDE DEF o
  <2> QED BY <1>1, <1>2, <1>3, <2>1, <2>2, <2>3, <2>4, WorkGoesOn
<1>5. CASE ~(Len(queue) >= QueueLimit)
  <2>1. queue' = Append(queue, e) /\ durable' = durable /\ q = [plug EXCEPT !.work = T]
    BY <1>1, <1>5 DEF DeliverWrite, Sink!Write
  <2>2. e \in Sendables
    <3>1. 1 \in DOMAIN C
      BY <1>1
    <3> QED BY <1>1, <3>1 DEF Chained, OpOK
  <2> HIDE DEF e, T
  <2>3. Sent' = Sent \cup {e}
    BY <2>1, <2>2, StatusesKnown, SentAlso
  <2>4. /\ Counted(Sent', c) /\ Tallied(T, c)
        /\ StatusOK(C, plug.facts, Sent, c, ses) => StatusOK(T, plug.facts, Sent', c, ses)
    <3> DEFINE W == Sent
               W2 == Sent'
               h == ses
               F == plug.facts
    <3>1. C \in Seq(Ops) /\ C # <<>> /\ C[1].op = "write" /\ W2 = W \cup {C[1].event[1]} /\ c \in Nat
          /\ Counted(W, c) /\ Tallied(C, c) /\ \A s \in Sessions : h[s].agent => h[s].status \in Statuses
      BY <1>1, <1>2, <2>3 DEF e
    <3> HIDE DEF C, W, W2, h, F, c
    <3>2. /\ Counted(W2, c) /\ Tallied(Tail(C), c)
          /\ StatusOK(C, F, W, c, h) => StatusOK(Tail(C), F, W2, c, h)
      BY <3>1, WriteStatus
    <3> QED BY <3>2 DEF T, W, W2, h, F
  <2>5. /\ q.work = T /\ q.boot = plug.boot /\ q.facts = plug.facts /\ q.pending = plug.pending
        /\ q.running = plug.running /\ q.bootstrapping = plug.bootstrapping /\ q.overlap = plug.overlap
        /\ q.counter = c /\ q.lost = plug.lost
    BY <1>1, <2>1 DEF Plugs
  <2> HIDE DEF o
  <2> QED BY <1>1, <1>3, <2>4, <2>5, WorkGoesOn
<1> QED BY <1>4, <1>5

\* A wait of start-up ends: no status is given by what follows in its place.
LEMMA WaitStatus ==
  ASSUME PInv, SInv, plug.boot # <<>>, plug.boot[1].op \in Silences, NEW D \in Seq(Ops),
         \A i \in DOMAIN D : Mute(D[i]), NEW a \in SUBSET Sessions, NEW u \in BOOLEAN,
         ses' = ses, queue' = queue, durable' = durable, plug' = Booting(D \o Tail(plug.boot), a, u)
  PROVE  SInv'
<1> DEFINE C == plug.boot
           E == D \o Tail(C)
           c == plug.counter
           q == plug'
<1>1. C \in Seq(Ops) /\ C # <<>> /\ PluginTypeOK /\ c \in Nat /\ plug \in Plugs
  BY StatusesKnown DEF PluginTypeOK
<1>2. Counted(Sent, c) /\ Tallied(C, c) /\ Sent' = Sent
  BY DEF SInv, CountOK, Sent
<1>3. \A s : ~Bears(C[1], s)
  BY MuteName, MuteOp
<1>4. Tallied(D, c) /\ (\A W : Numbered(D, W, c)) /\ \A s, v : Conveys(C[1], D, s, v)
  BY <1>3, MuteChain
<1>5. c <= c
  BY <1>1
<1>6. E \in Seq(Ops)
  BY <1>1, Splice
<1>7. Tallied(E, c)
  BY <1>1, <1>2, <1>4, <1>5, TalliedSplice
<1>8. StatusOK(C, plug.pending, Sent, c, ses) => StatusOK(E, plug.pending, Sent, c, ses)
  BY <1>1, <1>4, StatusSplice
<1> HIDE DEF E
<1>9. /\ q.boot = E /\ q.work = plug.work /\ q.facts = plug.facts /\ q.pending = plug.pending
      /\ q.running = plug.running /\ q.bootstrapping = plug.bootstrapping /\ q.overlap = plug.overlap
      /\ q.counter = c /\ q.lost = plug.lost
  <2>1. q = Booting(E, a, u)
    BY DEF E
  <2> QED BY <1>1, <2>1 DEF Booting, Plugs
<1> QED BY <1>1, <1>2, <1>5, <1>7, <1>8, <1>9, BootGoesOn

LEMMA ListPersistedStatus ==
  ASSUME PInv, SInv, ListPersisted
  PROVE  SInv'
<1> DEFINE C == plug.boot
           cold == {s \in Sessions : ses[s].n > 0 /\ s \notin C[1].event[1]}
           S == {o \in Ops : o.op = "read"}
           Reads(s) == IF s \in cold THEN <<Op("read", s, 0)>> ELSE <<>>
           f == [s \in Sessions |-> Reads(s)]
           D == Gathered(f)
<1>1. /\ C \in Seq(Ops) /\ C # <<>> /\ Head(C) = C[1] /\ C[1].op = "list" /\ PluginTypeOK
      /\ plug.announced \in SUBSET Sessions /\ plug.unread \in BOOLEAN
      /\ ses' = ses /\ queue' = queue /\ durable' = durable
  <2>1. C \in Seq(Ops) /\ C # <<>> /\ Head(C).op = "list" /\ PluginTypeOK
    BY DEF ListPersisted, PInv, PluginTypeOK, Plugs
  <2>2. plug.announced \in SUBSET Sessions /\ plug.unread \in BOOLEAN
    BY DEF PInv, PluginTypeOK, Plugs
  <2> QED BY <2>1, <2>2 DEF ListPersisted, OnlyPlug
<1>2. ASSUME NEW s \in Sessions PROVE Op("read", s, 0) \in S
  <2>1. "read" \in OpNames /\ 0 \in Nat
    BY DEF OpNames
  <2> QED BY <2>1, NewOp
<1>3. f \in [Sessions -> Seq(S)]
  <2> SUFFICES ASSUME NEW s \in Sessions PROVE Reads(s) \in Seq(S)
    OBVIOUS
  <2>1. Op("read", s, 0) \in S
    BY <1>2
  <2> HIDE DEF S, cold
  <2> QED BY <2>1
<1>4. D \in Seq(S)
  <2> HIDE DEF f, S
  <2> QED BY <1>3, PerSession
<1>5. plug' = Booting(D \o Tail(C), plug.announced, plug.unread)
  <2>1. [i \in DOMAIN Order |-> f[Order[i]]] = [i \in DOMAIN Order |-> Reads(Order[i])]
    <3>1. \A i \in DOMAIN Order : Order[i] \in Sessions
      BY DshAssumption
    <3> QED BY <3>1
  <2>2. plug' = [plug EXCEPT !.boot = FlattenSeq([i \in DOMAIN Order |-> Reads(Order[i])]) \o Tail(plug.boot)]
    BY <1>1 DEF ListPersisted
  <2>3. plug' = [plug EXCEPT !.boot = D \o Tail(C)]
    BY <2>1, <2>2 DEF Gathered
  <2> HIDE DEF D, C
  <2> QED BY <1>1, <2>3 DEF Booting, PluginTypeOK, Plugs
<1> HIDE DEF D, f
<1>6. D \in Seq(Ops) /\ \A i \in DOMAIN D : D[i].op = "read"
  BY <1>4
<1>7. "read" \in Silences /\ "list" \in Silences
  BY DEF Silences
<1>8. \A i \in DOMAIN D : Mute(D[i])
  BY <1>6, <1>7, MuteName
<1> HIDE DEF S, cold
<1> QED BY <1>1, <1>5, <1>6, <1>7, <1>8, WaitStatus

LEMMA MuteJoined ==
  ASSUME NEW V \in Seq(Ops), NEW Z \in Seq(Ops), \A i \in DOMAIN V : Mute(V[i]), \A i \in DOMAIN Z : Mute(Z[i])
  PROVE  \A i \in DOMAIN (V \o Z) : Mute((V \o Z)[i])
<1> DEFINE n == Len(V)
           m == Len(Z)
           E == V \o Z
<1>1. /\ DOMAIN E = 1 .. n + m /\ DOMAIN V = 1 .. n /\ DOMAIN Z = 1 .. m /\ n \in Nat /\ m \in Nat
      /\ \A i \in 1 .. n : E[i] = V[i]
      /\ \A i \in 1 .. m : E[n + i] = Z[i]
  OBVIOUS
<1> HIDE DEF E, n, m
<1>2. ASSUME NEW i \in 1 .. n + m PROVE Mute(E[i])
  <2>1. CASE i \in 1 .. n
    BY <1>1, <2>1
  <2>2. CASE i \notin 1 .. n
    <3>1. i - n \in 1 .. m /\ n + (i - n) = i
      BY <1>1, <2>2
    <3>2. E[i] = Z[i - n]
      BY <1>1, <3>1
    <3> QED BY <1>1, <3>1, <3>2
  <2> QED BY <2>1, <2>2
<1> QED BY <1>1, <1>2 DEF E

LEMMA ReadPersistedStatus ==
  ASSUME PInv, SInv, ReadPersisted
  PROVE  SInv'
<1> DEFINE C == plug.boot
           s == C[1].s
<1>1. /\ C \in Seq(Ops) /\ C # <<>> /\ Head(C) = C[1] /\ C[1].op = "read" /\ PluginTypeOK /\ SessionsOK
      /\ plug.announced \in SUBSET Sessions /\ plug.unread \in BOOLEAN
      /\ ses' = ses /\ queue' = queue /\ durable' = durable /\ s \in Sessions /\ ses[s].n > 0
  <2>1. C \in Seq(Ops) /\ C # <<>> /\ Head(C).op = "read" /\ PluginTypeOK /\ SessionsOK
        /\ Chained(ses, C) /\ Ordered(C, Sent, plug.blocked)
    BY DEF ReadPersisted, PInv, PluginTypeOK, Plugs, ChainsOK, InOrder
  <2>2. plug.announced \in SUBSET Sessions /\ plug.unread \in BOOLEAN
    BY DEF PInv, PluginTypeOK, Plugs
  <2>3. Head(C) = C[1] /\ C[1] \in Ops /\ OpOK(ses, C[1])
    BY <2>1, HeadReady DEF Ready
  <2>4. s \in Sessions /\ ses[s].n > 0
    BY <2>1, <2>3 DEF Ops, OpOK
  <2> QED BY <2>1, <2>2, <2>3, <2>4 DEF ReadPersisted
<1>2. C[1].op \in Silences
  BY <1>1 DEF Silences
<1>3. CASE \E m \in ses[s].saved .. ses[s].n :
             plug' = [plug EXCEPT !.announced = @ \cup {s},
                      !.boot = (IF s \in plug.announced THEN <<>>
                                ELSE Writes(s, 0, Announced(s, m, FALSE)))
                               \o AcceptAll(s, Start[s], m) \o <<Op("adopted", s, m + 1)>> \o Tail(@)]
  <2>1. PICK m \in ses[s].saved .. ses[s].n :
             plug' = [plug EXCEPT !.announced = @ \cup {s},
                      !.boot = (IF s \in plug.announced THEN <<>>
                                ELSE Writes(s, 0, Announced(s, m, FALSE)))
                               \o AcceptAll(s, Start[s], m) \o <<Op("adopted", s, m + 1)>> \o Tail(@)]
    BY <1>3
  <2> DEFINE V == IF s \in plug.announced THEN <<>> ELSE Writes(s, 0, Announced(s, m, FALSE))
             A == AcceptAll(s, Start[s], m)
             ad == Op("adopted", s, m + 1)
             Y == <<ad>>
             Z == A \o Y
             D == V \o Z
  <2>2. V \in Seq(Ops) /\ A \in Seq(Ops) /\ Y \in Seq(Ops) /\ D \in Seq(Ops)
    <3> HIDE DEF s
    <3> QED BY <1>1, AdoptedChain
  <2>3. plug' = Booting(((V \o A) \o Y) \o Tail(C), plug.announced \cup {s}, plug.unread)
    <3> HIDE DEF s, C
    <3>1. plug' = [plug EXCEPT !.announced = @ \cup {s}, !.boot = ((V \o A) \o Y) \o Tail(plug.boot)]
      BY <2>1
    <3> HIDE DEF V, A, Y
    <3> QED BY <1>1, <3>1 DEF Booting, PluginTypeOK, Plugs, C
  <2>4. (V \o A) \o Y = D
    <3> HIDE DEF V, A, Y
    <3> QED BY <2>2, ConcatAssociative
  <2>5. plug.announced \cup {s} \in SUBSET Sessions
    BY <1>1
  <2>6. /\ m \in Nat /\ m \in 1 .. Len(Log[s]) /\ m + 1 \in Nat /\ Start[s] \in Nat /\ Start[s] <= m + 1
        /\ m <= Len(Log[s])
    <3> HIDE DEF s
    <3> QED BY <1>1, SessionFacts
  <2>7. \A i \in DOMAIN V : Mute(V[i])
    <3> DEFINE U == Writes(s, 0, Announced(s, m, FALSE))
    <3>1. \A i \in DOMAIN U : Mute(U[i])
      <4> HIDE DEF s
      <4> QED BY <1>1, <2>6, MuteAnnounced
    <3>2. V = <<>> \/ V = U
      BY DEF U
    <3> HIDE DEF U, V
    <3> QED BY <3>1, <3>2, NoOps
  <2>8. \A i \in DOMAIN A : Mute(A[i])
    <3> DEFINE first == Start[s]
    <3>1. first \in Nat /\ first >= Start[s] /\ first <= m + 1
      BY <2>6
    <3> HIDE DEF first
    <3>2. \A i \in DOMAIN AcceptAll(s, first, m) : AcceptAll(s, first, m)[i].op = "accept"
      <4> HIDE DEF s
      <4> QED BY <1>1, <2>6, <3>1, AcceptsFrom
    <3>3. \A i \in DOMAIN A : A[i].op = "accept"
      BY <3>2 DEF first
    <3>4. "accept" \in Silences
      BY DEF Silences
    <3> HIDE DEF A
    <3> QED BY <3>3, <3>4, MuteName
  <2>9. ad \in Ops /\ Mute(ad)
    <3> DEFINE n == m + 1
    <3>1. "adopted" \in OpNames /\ n \in Nat /\ "adopted" \in Silences
      BY <2>6 DEF OpNames, Silences
    <3> HIDE DEF n, s
    <3>2. Op("adopted", s, n) \in Ops /\ Op("adopted", s, n).op = "adopted"
      BY <1>1, <3>1, NewOp
    <3>3. ad = Op("adopted", s, n)
      BY DEF n
    <3> HIDE DEF ad
    <3> QED BY <3>1, <3>2, <3>3, MuteName
  <2> HIDE DEF V, A, ad
  <2>10. \A i \in DOMAIN Z : Mute(Z[i])
    BY <2>2, <2>8, <2>9, MuteGlued
  <2>11. Z \in Seq(Ops)
    BY <2>2, <2>9, Glued
  <2> HIDE DEF Z
  <2>12. \A i \in DOMAIN D : Mute(D[i])
    BY <2>2, <2>7, <2>10, <2>11, MuteJoined
  <2> DEFINE a == plug.announced \cup {s}
  <2>13. plug' = Booting(D \o Tail(C), a, plug.unread) /\ a \in SUBSET Sessions
    BY <2>3, <2>4, <2>5
  <2> HIDE DEF D, s, a
  <2> QED BY <1>1, <1>2, <2>2, <2>12, <2>13, WaitStatus
<1>4. CASE plug' = [plug EXCEPT !.boot = Tail(@), !.unread = TRUE]
  <2>1. <<>> \o Tail(C) = Tail(C)
    BY <1>1, Rest
  <2> DEFINE D == <<>>
             u == TRUE
  <2>2. plug' = Booting(D \o Tail(C), plug.announced, u)
    <3> DEFINE T == Tail(C)
    <3>1. plug' = [plug EXCEPT !.boot = T, !.unread = TRUE]
      BY <1>4
    <3> HIDE DEF T
    <3>2. plug' = Booting(T, plug.announced, u)
      BY <1>1, <3>1 DEF Booting, PluginTypeOK, Plugs
    <3> QED BY <2>1, <3>2 DEF T
  <2>3. D \in Seq(Ops) /\ (\A i \in DOMAIN D : Mute(D[i])) /\ u \in BOOLEAN
    BY NoOps
  <2> HIDE DEF D, u
  <2> QED BY <1>1, <1>2, <2>2, <2>3, WaitStatus
<1> QED BY <1>1, <1>3, <1>4 DEF ReadPersisted

LEMMA JoinedOps ==
  ASSUME NEW V \in Seq(Ops), NEW Z \in Seq(Ops)
  PROVE  /\ V \o Z \in Seq(Ops) /\ DOMAIN (V \o Z) = 1 .. Len(V) + Len(Z) /\ Len(V) \in Nat /\ Len(Z) \in Nat
         /\ DOMAIN V = 1 .. Len(V) /\ DOMAIN Z = 1 .. Len(Z)
         /\ \A i \in 1 .. Len(V) : (V \o Z)[i] = V[i]
         /\ \A i \in 1 .. Len(Z) : (V \o Z)[Len(V) + i] = Z[i]
OBVIOUS

\* What start-up is to do: the agents are told of in it.
LEMMA StartsWith ==
  ASSUME PInv, StartPlugin
  PROVE  \E E \in Seq(Ops) : /\ plug' = Starting(E)
                             /\ \A i \in DOMAIN E : E[i].op = "agents" \/ Mute(E[i])
                             /\ \A i \in DOMAIN E : E[i].op # "write"
                             /\ \E i \in DOMAIN E : E[i].op = "agents"
<1> DEFINE live == {s \in Sessions : ses[s].live}
           S == {o \in Ops : o.op \in {"announce", "adopt"}}
           Adopts(s) == IF s \in live THEN <<Op("announce", s, 0), Op("adopt", s, Start[s])>> ELSE <<>>
           f == [s \in Sessions |-> Adopts(s)]
           F == Gathered(f)
           a == Holding("list", Order[1], live)
           b == Op("agents", Order[1], 0)
           c == Op("open", Order[1], 0)
           T == <<a, b, c>>
           E == F \o T
<1>1. ASSUME NEW s \in Sessions
      PROVE  <<Op("announce", s, 0), Op("adopt", s, Start[s])>> \in Seq(S)
  <2> DEFINE x == Op("announce", s, 0)
             n == Start[s]
             y == Op("adopt", s, n)
  <2>1. n \in Nat /\ "announce" \in OpNames /\ "adopt" \in OpNames /\ 0 \in Nat
    BY DshAssumption DEF OpNames
  <2> HIDE DEF n
  <2>2. x \in S /\ y \in S
    BY <2>1, NewOp
  <2> HIDE DEF x, y, S
  <2>3. <<x, y>> \in Seq(S)
    BY <2>2
  <2> QED BY <2>3 DEF x, y, n
<1>2. f \in [Sessions -> Seq(S)]
  <2> SUFFICES ASSUME NEW s \in Sessions PROVE Adopts(s) \in Seq(S)
    OBVIOUS
  <2> HIDE DEF S, live
  <2> QED BY <1>1
<1>3. F \in Seq(S)
  <2> HIDE DEF f, S
  <2> QED BY <1>2, PerSession
<1>4. Order[1] \in Sessions
  <2>1. Order \in Seq(Sessions) /\ Sessions # {} /\ ToSet(Order) = Sessions
    BY DshAssumption
  <2>2. DOMAIN Order # {}
    BY <2>1 DEF ToSet
  <2> QED BY <2>1, <2>2
<1>5. a \in Ops /\ a.op = "list" /\ b \in Ops /\ b.op = "agents" /\ c \in Ops /\ c.op = "open"
  <2>1. "list" \in OpNames /\ "agents" \in OpNames /\ "open" \in OpNames /\ 0 \in Nat
    BY DEF OpNames
  <2>2. live \in Items
    BY DEF Items
  <2> HIDE DEF live
  <2>3. a \in Ops /\ a.op = "list"
    BY <1>4, <2>1, <2>2, NewHolding
  <2>4. b \in Ops /\ b.op = "agents" /\ c \in Ops /\ c.op = "open"
    BY <1>4, <2>1, NewOp
  <2> QED BY <2>3, <2>4
<1>6. plug' = Starting(E)
  <2>1. [i \in DOMAIN Order |-> f[Order[i]]] = [i \in DOMAIN Order |-> Adopts(Order[i])]
    <3>1. \A i \in DOMAIN Order : Order[i] \in Sessions
      BY DshAssumption
    <3> QED BY <3>1
  <2>2. plug' = [plug EXCEPT !.running = TRUE,
                    !.boot = FlattenSeq([i \in DOMAIN Order |-> Adopts(Order[i])]) \o <<a, b, c>>]
    BY DEF StartPlugin, Holding
  <2> HIDE DEF f, Adopts, a, b, c
  <2> QED BY <2>1, <2>2 DEF Gathered, Starting
<1>7. F \in Seq(Ops) /\ \A i \in DOMAIN F : F[i].op \in {"announce", "adopt"}
  <2> HIDE DEF F
  <2> QED BY <1>3
<1> HIDE DEF F, f, a, b, c, S
<1>8. /\ T \in Seq(Ops) /\ DOMAIN T = 1 .. 3 /\ Len(T) = 3 /\ T[1] = a /\ T[2] = b /\ T[3] = c
  BY <1>5, ThreeOps
<1> HIDE DEF T
<1>9. /\ E \in Seq(Ops) /\ DOMAIN E = 1 .. Len(F) + 3 /\ Len(F) \in Nat /\ DOMAIN F = 1 .. Len(F)
      /\ \A i \in 1 .. Len(F) : E[i] = F[i]
      /\ \A i \in 1 .. 3 : E[Len(F) + i] = T[i]
  <2>1. F \in Seq(Ops) /\ T \in Seq(Ops) /\ Len(T) = 3
    BY <1>7, <1>8
  <2> QED BY <2>1, JoinedOps
<1> HIDE DEF E
<1>10. \A i \in DOMAIN E : E[i].op \in {"announce", "adopt", "list", "agents", "open"}
  <2> SUFFICES ASSUME NEW i \in 1 .. Len(F) + 3
               PROVE  E[i].op \in {"announce", "adopt", "list", "agents", "open"}
    BY <1>9
  <2>1. CASE i \in 1 .. Len(F)
    BY <1>7, <1>9, <2>1
  <2>2. CASE i \notin 1 .. Len(F)
    <3>1. i - Len(F) \in 1 .. 3 /\ Len(F) + (i - Len(F)) = i
      BY <1>9, <2>2
    <3>2. E[i] = T[i - Len(F)]
      BY <1>9, <3>1
    <3> QED BY <1>5, <1>8, <3>1, <3>2
  <2> QED BY <2>1, <2>2
<1>11. \E i \in DOMAIN E : E[i].op = "agents"
  <2>1. Len(F) + 2 \in DOMAIN E /\ E[Len(F) + 2] = b
    BY <1>8, <1>9
  <2> QED BY <1>5, <2>1
<1>12. \A i \in DOMAIN E : E[i].op = "agents" \/ Mute(E[i])
  BY <1>10, MuteName DEF Silences
<1>13. \A i \in DOMAIN E : E[i].op # "write"
  BY <1>10
<1> QED BY <1>6, <1>9, <1>11, <1>12, <1>13

LEMMA StartPluginStatus ==
  ASSUME PInv, SInv, StartPlugin
  PROVE  SInv'
<1> DEFINE q == plug'
           c == plug.counter
           O == <<>>
<1>0. ses' = ses /\ Sent' = Sent /\ ~plug.running
  BY DEF StartPlugin, OnlyPlug, Sent
<1>1. PICK E \in Seq(Ops) : /\ plug' = Starting(E)
                            /\ \A i \in DOMAIN E : E[i].op = "agents" \/ Mute(E[i])
                            /\ \A i \in DOMAIN E : E[i].op # "write"
                            /\ \E i \in DOMAIN E : E[i].op = "agents"
  BY StartsWith
<1>2. PluginTypeOK /\ plug \in Plugs
  BY StatusesKnown DEF PluginTypeOK
<1>3. plug.work = O /\ plug.facts = O /\ plug.pending = O /\ plug.bootstrapping
  BY <1>0 DEF SInv, IdleOK
<1>4. /\ q.boot = E /\ q.work = O /\ q.facts = O /\ q.pending = O /\ q.bootstrapping /\ q.running
      /\ q.counter = c
  BY <1>1, <1>2, <1>3 DEF Plugs, Starting
<1>5. DOMAIN O = {}
  BY NoOps
<1> HIDE DEF q, O
<1>6. Numbered(E, Sent, c) /\ Tallied(E, c)
  BY <1>1, Unwritten
<1>7. ASSUME NEW s \in Sessions, NEW v PROVE IsCurrent(E, O, Sent, s, v)
  <2>1. ASSUME NEW i \in DOMAIN E, Bears(E[i], s) PROVE Tells(E[i], s, v)
    <3>1. ~Mute(E[i])
      BY <2>1, MuteOp
    <3>2. E[i].op = "agents"
      BY <1>1, <3>1
    <3> QED BY <3>2 DEF Tells
  <2>2. LastTells(E, s, v)
    BY <2>1 DEF LastTells
  <2>3. ~Silent(E, s)
    BY <1>1 DEF Silent, Bears
  <2>4. LastHeard(O, s, v)
    BY <1>5 DEF LastHeard
  <2> QED BY <2>2, <2>3, <2>4 DEF IsCurrent
<1>8. StatusOK(E, O, Sent, c, ses)
  BY <1>6, <1>7 DEF StatusOK
<1>9. IdleOK' /\ CountOK'
  <2>1. Counted(Sent, c) /\ Tallied(O, c)
    BY <1>3 DEF SInv, CountOK
  <2> QED BY <1>0, <1>4, <1>6, <2>1 DEF IdleOK, CountOK, q
<1>10. ChainOK'
  BY <1>0, <1>4, <1>8 DEF ChainOK, Early, q, O
<1> QED BY <1>9, <1>10 DEF SInv

\* The pending facts follow, each as it was heard.
LEMMA OpensWith ==
  ASSUME PInv, OpenDelivery
  PROVE  /\ \E D \in Seq(Ops) : /\ plug' = Opening(D) /\ DOMAIN D = DOMAIN plug.pending
                                /\ \A i \in DOMAIN D : D[i].op = "fact" /\ D[i].event[1] = plug.pending[i]
         /\ \A s : Silent(plug.boot, s)
<1> DEFINE P == plug.pending
           Briefs(f) == Holding("fact", f.s, f)
           D == [i \in DOMAIN P |-> Briefs(P[i])]
           C == plug.boot
<1>1. P \in Seq(Facts) /\ C \in Seq(Ops)
  BY StatusesKnown
<1>2. ASSUME NEW f \in Facts
      PROVE  LET o == Briefs(f)
             IN  o \in Ops /\ o.op = "fact" /\ o.event[1] = f
  <2>1. f.s \in Sessions /\ "fact" \in OpNames /\ f \in Items
    BY DEF Facts, OpNames, Items
  <2> QED BY <2>1, NewHolding
<1>3. D \in Seq(Ops) /\ DOMAIN D = DOMAIN P /\ \A i \in DOMAIN D : D[i] = Briefs(P[i])
  <2>1. DOMAIN P = 1 .. Len(P) /\ Len(P) \in Nat /\ \A i \in DOMAIN P : P[i] \in Facts
    BY <1>1
  <2>2. \A i \in DOMAIN P : Briefs(P[i]) \in Ops
    BY <1>2, <2>1
  <2> HIDE DEF Briefs, P
  <2> QED BY <2>1, <2>2
<1>4. plug' = Opening(D)
  BY DEF OpenDelivery, Opening, Holding
<1>5. C # <<>> /\ Head(C).op = "open"
  BY DEF OpenDelivery
<1> HIDE DEF Briefs, D
<1>6. \A i \in DOMAIN D : D[i].op = "fact" /\ D[i].event[1] = P[i]
  <2>1. \A i \in DOMAIN P : P[i] \in Facts
    BY <1>1
  <2> QED BY <1>2, <1>3, <2>1
<1>7. ASSUME NEW s PROVE Silent(C, s)
  <2>1. EndsOK(C)
    BY DEF PInv
  <2> HIDE DEF C
  <2>2. 1 \in DOMAIN C /\ C[1].op = "open" /\ DOMAIN C = 1 .. Len(C) /\ Len(C) \in Nat
    BY <1>1, <1>5
  <2>3. \A i \in DOMAIN C : ~(1 < i)
    BY <2>1, <2>2 DEF EndsOK
  <2>4. \A i \in DOMAIN C : i = 1
    BY <2>2, <2>3
  <2>5. "open" \in Silences
    BY DEF Silences
  <2>6. ~Bears(C[1], s)
    BY <2>2, <2>5, MuteName, MuteOp
  <2> QED BY <2>4, <2>6 DEF Silent
<1> QED BY <1>3, <1>4, <1>6, <1>7

LEMMA OpenDeliveryStatus ==
  ASSUME PInv, SInv, OpenDelivery
  PROVE  SInv'
<1> DEFINE q == plug'
           c == plug.counter
           P == plug.pending
           B == plug.boot
           O == <<>>
<1>0. ses' = ses /\ Sent' = Sent /\ B # O /\ plug.running
  <2>1. ses' = ses /\ Sent' = Sent /\ B # O
    BY DEF OpenDelivery, OnlyPlug, Sent
  <2> QED BY <2>1 DEF SInv, IdleOK
<1>1. PICK D \in Seq(Ops) : /\ plug' = Opening(D) /\ DOMAIN D = DOMAIN plug.pending
                            /\ \A i \in DOMAIN D : D[i].op = "fact" /\ D[i].event[1] = plug.pending[i]
  BY OpensWith
<1>2. \A s : Silent(B, s)
  BY OpensWith
<1>3. PluginTypeOK /\ plug \in Plugs
  BY StatusesKnown DEF PluginTypeOK
<1>4. /\ q.boot = D /\ q.work = plug.work /\ q.facts = plug.facts /\ q.pending = O /\ ~q.bootstrapping
      /\ q.running = plug.running /\ q.counter = c /\ q.lost = plug.lost /\ q.overlap = plug.overlap
  BY <1>1, <1>3 DEF Plugs, Opening
<1>5. DOMAIN O = {}
  BY NoOps
<1> HIDE DEF q
<1>6. Numbered(D, Sent, c) /\ Tallied(D, c)
  BY <1>1, Unwritten
<1>7. ASSUME NEW s \in Sessions, NEW v \in Statuses, IsCurrent(B, P, Sent, s, v) PROVE IsCurrent(D, O, Sent, s, v)
  <2>1. ASSUME NEW i \in DOMAIN D PROVE (Bears(D[i], s) <=> States(P[i], s)) /\ (P[i].kind = v => Tells(D[i], s, v))
    <3>1. D[i].op = "fact" /\ D[i].event[1] = P[i]
      BY <1>1
    <3> QED BY <3>1 DEF Bears, Tells, States, Kinds, Statuses
  <2>2. LastHeard(P, s, v)
    BY <1>7 DEF IsCurrent
  <2>3. LastTells(D, s, v)
    BY <1>1, <2>1, <2>2 DEF LastHeard, LastTells
  <2>4. Silent(D, s) => Unheard(P, s)
    BY <1>1, <2>1 DEF Silent, Unheard
  <2>5. LastHeard(O, s, v)
    BY <1>5 DEF LastHeard
  <2> QED BY <1>2, <1>7, <2>3, <2>4, <2>5 DEF IsCurrent
<1>8. StatusOK(B, P, Sent, c, ses) => StatusOK(D, O, Sent, c, ses)
  BY <1>6, <1>7, StatusesKnown DEF StatusOK
<1>9. IdleOK' /\ CountOK'
  <2>1. Counted(Sent, c) /\ Tallied(plug.work, c)
    BY DEF SInv, CountOK
  <2> QED BY <1>0, <1>4, <1>6, <2>1 DEF IdleOK, CountOK, q
<1>10. ChainOK'
  <2>1. SUFFICES ASSUME ~q.lost, ~q.overlap
                 PROVE  IF D # <<>>
                        THEN /\ q.work = <<>> /\ q.facts = <<>>
                             /\ StatusOK(D, O, Sent, c, ses)
                        ELSE StatusOK(q.work, q.facts, Sent, c, ses)
    BY <1>0, <1>4 DEF ChainOK, Early, q
  <2>2. Early
    BY <1>0 DEF Early
  <2>3. /\ plug.work = <<>> /\ plug.facts = <<>>
        /\ StatusOK(B, P, Sent, c, ses)
    BY <1>0, <1>4, <2>1, <2>2 DEF SInv, ChainOK
  <2> QED BY <1>4, <1>8, <2>3
<1> QED BY <1>9, <1>10 DEF SInv

LEMMA TakeFactStatus ==
  ASSUME PInv, SInv, TakeFact
  PROVE  SInv'
<1> DEFINE F == plug.facts
           f == Head(F)
           G == Tail(F)
           D == Accepts(f)
           q == plug'
           c == plug.counter
           n == Len(F)
<1>0. ses' = ses /\ Sent' = Sent /\ plug.work = <<>> /\ F # <<>> /\ plug.running
  <2>1. ses' = ses /\ Sent' = Sent /\ plug.work = <<>> /\ F # <<>>
    BY DEF TakeFact, OnlyPlug, Sent
  <2> QED BY <2>1 DEF SInv, IdleOK
<1>1. F \in Seq(Facts) /\ PluginTypeOK /\ plug \in Plugs
  BY StatusesKnown DEF PluginTypeOK
<1>2. /\ f \in Facts /\ f = F[1] /\ 1 \in DOMAIN F /\ G \in Seq(Facts) /\ DOMAIN F = 1 .. n
      /\ DOMAIN G = 1 .. n - 1 /\ n \in Nat
      /\ \A i \in 1 .. n - 1 : G[i] = F[i + 1]
  BY <1>0, <1>1
<1>3. FactOK(ses, f)
  BY <1>2 DEF PInv, ChainsOK
<1>4. q = TakingUp(D, G)
  BY DEF TakeFact, TakingUp
<1> HIDE DEF f, F, G, n
<1>5. /\ \A i \in DOMAIN D : D[i].op # "write"
      /\ \A s : Silent(D, s) \/ States(f, s)
      /\ \A s : States(f, s) => /\ ~Silent(D, s)
                                /\ \A i \in DOMAIN D : Bears(D[i], s) => Tells(D[i], s, f.kind)
  BY <1>2, <1>3, AcceptsConveys
<1>6. D \in Seq(Ops)
  BY <1>2, <1>3, Accepted
<1> HIDE DEF D, q
<1>7. /\ q.boot = plug.boot /\ q.work = D /\ q.facts = G /\ q.pending = plug.pending
      /\ q.bootstrapping = plug.bootstrapping /\ q.running = plug.running /\ q.counter = c /\ q.lost = plug.lost
      /\ q.overlap = plug.overlap
  BY <1>1, <1>4 DEF Plugs, TakingUp
<1>8. Numbered(D, Sent, c) /\ Tallied(D, c)
  BY <1>5, Unwritten
<1>9. \A i \in DOMAIN F : i = 1 \/ (i - 1 \in DOMAIN G /\ G[i - 1] = F[i] /\ i > 1)
  <2> SUFFICES ASSUME NEW i \in 1 .. n, i # 1 PROVE i - 1 \in 1 .. n - 1 /\ (i - 1) + 1 = i /\ i > 1
    BY <1>2
  <2> QED BY <1>2
<1>10. \A i \in DOMAIN G : i + 1 \in DOMAIN F /\ G[i] = F[i + 1] /\ i + 1 > 1
  BY <1>2
<1>11. ASSUME NEW s \in Sessions, NEW v \in Statuses, IsCurrent(<<>>, F, Sent, s, v)
       PROVE  IsCurrent(D, G, Sent, s, v)
  <2>0. LastHeard(F, s, v)
    BY <1>11 DEF IsCurrent
  <2>1. LastHeard(G, s, v)
    <3> SUFFICES ASSUME NEW i \in DOMAIN G, States(G[i], s), \A j \in DOMAIN G : j > i => ~States(G[j], s)
                 PROVE  G[i].kind = v
      BY DEF LastHeard
    <3>1. i + 1 \in DOMAIN F /\ G[i] = F[i + 1] /\ i \in Nat
      BY <1>2, <1>10
    <3>2. ASSUME NEW j \in DOMAIN F, j > i + 1 PROVE ~States(F[j], s)
      <4>1. j \in Nat /\ j - 1 \in DOMAIN G /\ G[j - 1] = F[j]
        BY <1>2, <1>9, <3>1, <3>2
      <4>2. j - 1 > i
        BY <3>1, <3>2, <4>1
      <4> QED BY <4>1, <4>2
    <3> QED BY <2>0, <3>1, <3>2 DEF LastHeard
  <2>2. ASSUME Unheard(G, s), States(f, s) PROVE f.kind = v
    <3>1. \A j \in DOMAIN F : j > 1 => ~States(F[j], s)
      <4> SUFFICES ASSUME NEW j \in DOMAIN F, j > 1 PROVE ~States(F[j], s)
        OBVIOUS
      <4>1. j - 1 \in DOMAIN G /\ G[j - 1] = F[j]
        BY <1>2, <1>9
      <4> QED BY <2>2, <4>1 DEF Unheard
    <3> QED BY <1>2, <2>0, <2>2, <3>1 DEF LastHeard
  <2>3. Unheard(G, s) => LastTells(D, s, v)
    BY <1>5, <2>2 DEF LastTells, Silent
  <2>4. ASSUME Unheard(G, s), Silent(D, s) PROVE LastSent(Sent, s, v)
    <3>1. ~States(f, s)
      BY <1>5, <2>4
    <3>2. Unheard(F, s)
      BY <1>2, <1>9, <2>4, <3>1 DEF Unheard
    <3>3. Silent(<<>>, s)
      BY NoOps DEF Silent
    <3> QED BY <1>11, <3>2, <3>3 DEF IsCurrent
  <2> QED BY <2>1, <2>3, <2>4 DEF IsCurrent
<1>12. StatusOK(<<>>, F, Sent, c, ses) => StatusOK(D, G, Sent, c, ses)
  BY <1>8, <1>11, StatusesKnown DEF StatusOK
<1>13. IdleOK' /\ CountOK'
  <2>1. Counted(Sent, c) /\ Tallied(plug.boot, c)
    BY DEF SInv, CountOK
  <2> QED BY <1>0, <1>7, <1>8, <2>1 DEF IdleOK, CountOK, q
<1>14. ChainOK'
  <2>1. SUFFICES ASSUME ~q.lost, ~q.overlap
                 PROVE  ~Early /\ StatusOK(D, G, Sent, c, ses)
    BY <1>0, <1>7 DEF ChainOK, Early, q
  <2>2. ~Early /\ StatusOK(<<>>, F, Sent, c, ses)
    BY <1>0, <1>7, <2>1 DEF SInv, ChainOK, F
  <2> QED BY <1>12, <2>2
<1> QED BY <1>13, <1>14 DEF SInv

\* What is heard is the present status, or says nothing of it.
LEMMA HeardCurrent ==
  ASSUME NEW F \in Seq(Facts), NEW f \in Facts, NEW C, NEW W, NEW s, NEW v,
         (States(f, s) /\ f.kind = v) \/ (~States(f, s) /\ IsCurrent(C, F, W, s, v))
  PROVE  IsCurrent(C, Append(F, f), W, s, v)
<1> DEFINE G == Append(F, f)
           n == Len(F)
<1>1. /\ DOMAIN G = 1 .. n + 1 /\ DOMAIN F = 1 .. n /\ n \in Nat /\ G[n + 1] = f
      /\ \A i \in 1 .. n : G[i] = F[i]
  OBVIOUS
<1> HIDE DEF G, n
<1>2. n + 1 \in DOMAIN G /\ \A i \in DOMAIN G : i = n + 1 \/ (i \in DOMAIN F /\ i < n + 1)
  BY <1>1
<1>3. \A i \in DOMAIN F : i \in DOMAIN G /\ G[i] = F[i]
  BY <1>1
<1>4. CASE States(f, s) /\ f.kind = v
  <2>1. ~Unheard(G, s)
    BY <1>1, <1>2, <1>4 DEF Unheard
  <2>2. LastHeard(G, s, v)
    BY <1>1, <1>2, <1>4 DEF LastHeard
  <2> QED BY <2>1, <2>2 DEF IsCurrent, G
<1>5. CASE ~States(f, s) /\ IsCurrent(C, F, W, s, v)
  <2>1. Unheard(G, s) => Unheard(F, s)
    BY <1>3 DEF Unheard
  <2>2. LastHeard(G, s, v)
    <3> SUFFICES ASSUME NEW i \in DOMAIN G, States(G[i], s), \A j \in DOMAIN G : j > i => ~States(G[j], s)
                 PROVE  G[i].kind = v
      BY DEF LastHeard
    <3>1. i \in DOMAIN F /\ G[i] = F[i]
      BY <1>1, <1>2, <1>3, <1>5
    <3>2. \A j \in DOMAIN F : j > i => ~States(F[j], s)
      BY <1>3
    <3> QED BY <1>5, <3>1, <3>2 DEF IsCurrent, LastHeard
  <2> QED BY <1>5, <2>1, <2>2 DEF IsCurrent, G
<1> QED BY <1>4, <1>5

LEMMA HearStatus ==
  ASSUME PInv, SInv, NEW f \in Facts, Hear(f), NEW h, h = ses',
         \A s \in Sessions : h[s].agent =>
            \/ States(f, s) /\ f.kind = h[s].status
            \/ ~States(f, s) /\ ses[s].agent /\ ses[s].status = h[s].status
  PROVE  SInv'
<1> DEFINE q == plug'
           c == plug.counter
           P == plug.pending
           F == plug.facts
           B == plug.boot
           C == plug.work
<1>0. Sent' = Sent
  BY DEF Hear, Sent
<1>1. P \in Seq(Facts) /\ F \in Seq(Facts) /\ plug \in Plugs /\ B \in Seq(Ops) /\ plug.overlap \in BOOLEAN
  BY StatusesKnown DEF PluginTypeOK, Plugs
<1>2. Counted(Sent, c) /\ Tallied(B, c) /\ Tallied(C, c) /\ IdleOK
  BY DEF SInv, CountOK
<1>3. ASSUME NEW D, NEW G \in Seq(Facts), StatusOK(D, G, Sent, c, ses) PROVE StatusOK(D, Append(G, f), Sent, c, h)
  <2>1. ASSUME NEW s \in Sessions, h[s].agent PROVE IsCurrent(D, Append(G, f), Sent, s, h[s].status)
    <3>1. CASE States(f, s) /\ f.kind = h[s].status
      BY <3>1, HeardCurrent
    <3>2. CASE ~States(f, s) /\ ses[s].agent /\ ses[s].status = h[s].status
      <4>1. IsCurrent(D, G, Sent, s, h[s].status)
        BY <1>3, <3>2 DEF StatusOK
      <4> QED BY <3>2, <4>1, HeardCurrent
    <3> QED BY <2>1, <3>1, <3>2
  <2> QED BY <1>3, <2>1 DEF StatusOK
<1>4. CASE ~plug.running
  <2>1. q = plug
    BY <1>4 DEF Hear
  <2>2. IdleOK' /\ CountOK' /\ ChainOK'
    BY <1>0, <1>2, <1>4, <2>1 DEF IdleOK, CountOK, ChainOK
  <2> QED BY <2>2 DEF SInv
<1>5. CASE plug.running /\ plug.bootstrapping
  <2> DEFINE G == Append(P, f)
  <2>1. q = [plug EXCEPT !.pending = G]
    BY <1>5 DEF Hear
  <2> HIDE DEF G
  <2>2. /\ q.boot = B /\ q.work = C /\ q.facts = F /\ q.pending = G /\ q.bootstrapping /\ q.running
        /\ q.counter = c /\ q.lost = plug.lost /\ q.overlap = plug.overlap
    BY <1>1, <1>5, <2>1 DEF Plugs
  <2> HIDE DEF q
  <2>3. IdleOK' /\ CountOK'
    BY <1>0, <1>2, <2>2 DEF IdleOK, CountOK, q
  <2>4. ChainOK'
    <3>1. SUFFICES ASSUME ~q.lost, ~q.overlap
                   PROVE  C = <<>> /\ F = <<>> /\ StatusOK(B, G, Sent, c, h)
      BY <1>0, <2>2 DEF ChainOK, Early, q
    <3>2. Early
      BY <1>5 DEF Early
    <3>3. C = <<>> /\ F = <<>> /\ StatusOK(B, P, Sent, c, ses)
      BY <1>5, <2>2, <3>1, <3>2 DEF SInv, ChainOK
    <3> QED BY <1>1, <1>3, <3>3 DEF G
  <2> QED BY <2>3, <2>4 DEF SInv
<1>6. CASE plug.running /\ ~plug.bootstrapping
  <2> DEFINE G == Append(F, f)
             o == plug.overlap \/ B # <<>>
  <2>1. q = [plug EXCEPT !.facts = G, !.overlap = o]
    BY <1>6 DEF Hear
  <2> HIDE DEF G, o
  <2>2. /\ q.boot = B /\ q.work = C /\ q.facts = G /\ q.pending = P /\ ~q.bootstrapping /\ q.running
        /\ q.counter = c /\ q.lost = plug.lost /\ q.overlap = o
    BY <1>1, <1>6, <2>1 DEF Plugs
  <2> HIDE DEF q
  <2>3. IdleOK' /\ CountOK'
    BY <1>0, <1>2, <2>2 DEF IdleOK, CountOK, q
  <2>4. ChainOK'
    <3>1. SUFFICES ASSUME ~q.lost, ~plug.overlap, B = <<>>
                   PROVE  StatusOK(C, G, Sent, c, h)
      BY <1>0, <1>1, <2>2 DEF ChainOK, Early, q, o
    <3>2. ~Early
      BY <1>6, <3>1 DEF Early
    <3>3. StatusOK(C, F, Sent, c, ses)
      BY <1>6, <2>2, <3>1, <3>2 DEF SInv, ChainOK
    <3> QED BY <1>1, <1>3, <3>3 DEF G
  <2> QED BY <2>3, <2>4 DEF SInv
<1> QED BY <1>4, <1>5, <1>6

LEMMA ChangeStatus ==
  ASSUME PInv, SInv, NEW t \in Sessions, NEW r \in Known, NEW f \in Facts, Hear(f),
         ses' = [ses EXCEPT ![t] = r], f.s = t,
         r.agent => \/ f.kind \in Kinds /\ f.kind = r.status
                    \/ f.kind \notin Kinds /\ ses[t].agent /\ ses[t].status = r.status
  PROVE  SInv'
<1> DEFINE h == ses'
<1>1. h[t] = r /\ \A s \in Sessions \ {t} : h[s] = ses[s]
  BY StatusesKnown DEF PluginTypeOK
<1> HIDE DEF h
<1>2. ASSUME NEW s \in Sessions, h[s].agent
      PROVE  \/ States(f, s) /\ f.kind = h[s].status
             \/ ~States(f, s) /\ ses[s].agent /\ ses[s].status = h[s].status
  <2>1. CASE s = t
    BY <1>1, <1>2, <2>1 DEF States
  <2>2. CASE s # t
    BY <1>1, <1>2, <2>2 DEF States
  <2> QED BY <2>1, <2>2
<1>3. h = ses'
  BY DEF h
<1> QED BY <1>2, <1>3, HearStatus

LEMMA OpenSessionStatus ==
  ASSUME PInv, SInv, NEW s \in Sessions, OpenSession(s)
  PROVE  SInv'
<1> DEFINE m == Max({ses[s].n, Start[s] - 1})
           r == [ses[s] EXCEPT !.live = TRUE, !.n = m, !.saved = m]
           f == Fact("session", s, 0)
<1>1. PluginTypeOK /\ SessionsOK
  BY DEF PInv
<1>2. ses[s].n \in Nat /\ Start[s] \in Nat /\ Start[s] >= 2
  BY <1>1, SessionFacts
<1>3. m = IF ses[s].n >= Start[s] - 1 THEN ses[s].n ELSE Start[s] - 1
  BY <1>2, MaxOfTwo
<1>4. m \in Nat
  <2> HIDE DEF m
  <2> QED BY <1>2, <1>3
<1>5. ses[s] \in Known /\ ses \in [Sessions -> Known]
  BY <1>1, SessionIs
<1>6. ses' = [ses EXCEPT ![s] = r]
  BY <1>5 DEF OpenSession
<1>7. Hear(f) /\ f \in Facts /\ f.kind \notin Kinds /\ f.s = s
  <2>1. "session" \in Kinds \cup {"session", "event"} /\ 0 \in Nat
    OBVIOUS
  <2>2. f \in Facts /\ f.kind = "session" /\ f.s = s
    BY <2>1, AFact
  <2> QED BY <2>2 DEF OpenSession, Kinds, Statuses
<1> HIDE DEF m, f
<1>8. r \in Known /\ r.agent = ses[s].agent /\ r.status = ses[s].status
  BY <1>4, <1>5 DEF Known
<1> HIDE DEF r
<1> QED BY <1>6, <1>7, <1>8, ChangeStatus

LEMMA AppendRecordStatus ==
  ASSUME PInv, SInv, NEW s \in Sessions, AppendRecord(s)
  PROVE  SInv'
<1> DEFINE m == ses[s].n + 1
           r == [ses[s] EXCEPT !.n = m]
           f == Fact("event", s, m)
<1>1. PluginTypeOK /\ SessionsOK
  BY DEF PInv
<1>2. ses[s].n \in Nat
  BY <1>1, SessionFacts
<1>3. ses[s] \in Known /\ ses \in [Sessions -> Known]
  BY <1>1, SessionIs
<1>4. ses' = [ses EXCEPT ![s] = r]
  BY <1>3 DEF AppendRecord
<1>5. Hear(f) /\ f \in Facts /\ f.kind \notin Kinds /\ f.s = s
  <2>1. Hear(f)
    BY DEF AppendRecord
  <2>2. "event" \in Kinds \cup {"session", "event"} /\ m \in Nat
    BY <1>2
  <2> HIDE DEF m
  <2>3. f \in Facts /\ f.kind = "event" /\ f.s = s
    BY <2>2, AFact
  <2> QED BY <2>1, <2>3 DEF Kinds, Statuses
<1>6. m \in Nat
  BY <1>2
<1> HIDE DEF m, f
<1>7. r \in Known /\ r.agent = ses[s].agent /\ r.status = ses[s].status
  BY <1>3, <1>6 DEF Known
<1> HIDE DEF r
<1> QED BY <1>4, <1>5, <1>7, ChangeStatus

LEMMA SetStatusStatus ==
  ASSUME PInv, SInv, NEW s \in Sessions, NEW status \in Statuses, SetStatus(s, status)
  PROVE  SInv'
<1> DEFINE r == [ses[s] EXCEPT !.agent = TRUE, !.status = status]
           f == Fact(status, s, 0)
<1>1. PluginTypeOK /\ SessionsOK
  BY DEF PInv
<1>2. ses[s] \in Known /\ ses \in [Sessions -> Known]
  BY <1>1, SessionIs
<1>3. ses' = [ses EXCEPT ![s] = r]
  BY <1>2 DEF SetStatus
<1>4. Hear(f) /\ f \in Facts /\ f.kind \in Kinds /\ f.kind = status /\ f.s = s
  BY AFact DEF SetStatus, Kinds
<1>5. r \in Known /\ r.status = status
  BY <1>2 DEF Known
<1> HIDE DEF r, f
<1> QED BY <1>3, <1>4, <1>5, ChangeStatus

LEMMA DisposeAgentStatus ==
  ASSUME PInv, SInv, NEW s \in Sessions, DisposeAgent(s)
  PROVE  SInv'
<1> DEFINE r == [ses[s] EXCEPT !.agent = FALSE]
           f == Fact("disposed", s, 0)
<1>1. PluginTypeOK /\ SessionsOK
  BY DEF PInv
<1>2. ses[s] \in Known /\ ses \in [Sessions -> Known]
  BY <1>1, SessionIs
<1>3. ses' = [ses EXCEPT ![s] = r]
  BY <1>2 DEF DisposeAgent
<1>4. Hear(f) /\ f \in Facts /\ f.s = s
  BY AFact DEF DisposeAgent, Kinds
<1>5. r \in Known /\ ~r.agent
  BY <1>2 DEF Known
<1> HIDE DEF r, f
<1> QED BY <1>3, <1>4, <1>5, ChangeStatus

LEMMA RestartStatus ==
  ASSUME PInv, SInv, RestartHarness
  PROVE  SInv'
<1> DEFINE q == plug'
           c == plug.counter
<1>1. c \in Nat
  BY StatusesKnown
<1>2. q = Stopped(c) /\ queue' = <<>> /\ durable' = durable
  BY DEF RestartHarness
<1> HIDE DEF q
<1>3. /\ ~q.running /\ q.pending = <<>> /\ q.boot = <<>> /\ q.work = <<>> /\ q.facts = <<>> /\ q.counter = c
  BY <1>1, <1>2, Halted
<1>4. q.bootstrapping
  BY <1>2 DEF Stopped
<1>5. Sent' \subseteq Sent
  BY <1>2 DEF Sent, ToSet
<1>6. Counted(Sent', c)
  BY <1>5 DEF SInv, CountOK, Counted
<1>7. \A n : Tallied(<<>>, n)
  BY NoOps DEF Tallied
<1>8. IdleOK' /\ CountOK' /\ ChainOK'
  BY <1>3, <1>4, <1>6, <1>7 DEF IdleOK, CountOK, ChainOK, q
<1> QED BY <1>8 DEF SInv

\* The statuses depend on what is sent, not on whether it is acknowledged.
LEMMA SentStatus ==
  ASSUME SInv, ses' = ses, plug' = plug, Sent' = Sent
  PROVE  SInv'
<1>1. IdleOK' /\ CountOK'
  BY DEF SInv, IdleOK, CountOK
<1>2. ChainOK'
  BY DEF SInv, ChainOK, Early
<1> QED BY <1>1, <1>2 DEF SInv

LEMMA SinkStoresStatus ==
  ASSUME PInv, SInv, SinkStores
  PROVE  SInv'
<1>1. PICK i \in DOMAIN queue : durable' = durable \cup {queue[i]} /\ queue' = queue
  BY DEF SinkStores, Sink!Store
<1>2. Sent' = Sent
  BY <1>1 DEF Sent, ToSet
<1>3. ses' = ses /\ plug' = plug
  BY DEF SinkStores
<1> QED BY <1>2, <1>3, SentStatus

LEMMA SinkAcknowledgesStatus ==
  ASSUME PInv, SInv, SinkAcknowledges
  PROVE  SInv'
<1>1. PICK n \in 1 .. Len(queue) :
         /\ \A i \in 1 .. n : queue[i] \in durable
         /\ queue' = SubSeq(queue, n + 1, Len(queue)) /\ durable' = durable
  BY DEF SinkAcknowledges, Sink!Acknowledge
<1>2. queue \in Seq(Sendables)
  BY StatusesKnown
<1> DEFINE m == Len(queue)
<1>3. /\ DOMAIN queue' = 1 .. m - n
      /\ DOMAIN queue = 1 .. m /\ m \in Nat /\ n \in Nat /\ n <= m
      /\ \A i \in 1 .. m - n : queue'[i] = queue[n + i] /\ n + i \in DOMAIN queue
  BY <1>1, <1>2, Shorter
<1> HIDE DEF m
<1>4. ToSet(queue') \subseteq ToSet(queue)
  BY <1>3 DEF ToSet
<1>5. ASSUME NEW j \in 1 .. m PROVE queue[j] \in durable \cup ToSet(queue')
  <2>1. CASE j \in 1 .. n
    BY <1>1, <2>1
  <2>2. CASE j \notin 1 .. n
    <3>1. j - n \in 1 .. m - n /\ n + (j - n) = j
      BY <1>3, <2>2
    <3>2. queue[j] = queue'[j - n] /\ j - n \in DOMAIN queue'
      BY <1>3, <3>1
    <3> QED BY <3>2 DEF ToSet
  <2> QED BY <2>1, <2>2
<1>6. ToSet(queue) \subseteq durable \cup ToSet(queue')
  BY <1>3, <1>5 DEF ToSet
<1>7. Sent' = Sent
  BY <1>1, <1>4, <1>6 DEF Sent
<1>8. ses' = ses /\ plug' = plug
  BY DEF SinkAcknowledges
<1> QED BY <1>7, <1>8, SentStatus

LEMMA InitStatus ==
  ASSUME PluginInit
  PROVE  SInv
<1>1. plug = Stopped(0) /\ queue = <<>> /\ durable = {}
  BY DEF PluginInit, Sink!Init
<1>2. /\ ~plug.running /\ plug.pending = <<>> /\ plug.boot = <<>> /\ plug.work = <<>> /\ plug.facts = <<>>
      /\ plug.bootstrapping
  BY <1>1 DEF Stopped
<1>3. Sent = {}
  BY <1>1 DEF Sent, ToSet
<1>4. Counted(Sent, plug.counter)
  BY <1>3 DEF Counted
<1>5. \A n : Tallied(<<>>, n)
  BY NoOps DEF Tallied
<1> QED BY <1>2, <1>4, <1>5 DEF SInv, IdleOK, CountOK, ChainOK

LEMMA PluginNextStatus ==
  ASSUME PInv, SInv, [PluginNext]_pluginVars
  PROVE  SInv'
<1>1. CASE UNCHANGED pluginVars
  <2>1. ses' = ses /\ plug' = plug /\ Sent' = Sent
    BY <1>1 DEF pluginVars, Sent
  <2> QED BY <2>1, SentStatus
<1>2. CASE StartPlugin \/ BootStep \/ ListPersisted \/ ReadPersisted \/ OpenDelivery \/ BootWrite
  <2>1. CASE StartPlugin
    BY <2>1, StartPluginStatus
  <2>2. CASE BootStep
    BY <2>2, BootStepStatus
  <2>3. CASE ListPersisted
    BY <2>3, ListPersistedStatus
  <2>4. CASE ReadPersisted
    BY <2>4, ReadPersistedStatus
  <2>5. CASE OpenDelivery
    BY <2>5, OpenDeliveryStatus
  <2>6. CASE BootWrite
    BY <2>6, BootWriteStatus
  <2> QED BY <1>2, <2>1, <2>2, <2>3, <2>4, <2>5, <2>6
<1>3. CASE TakeFact \/ DeliverStep \/ DeliverWrite
  <2>1. CASE TakeFact
    BY <2>1, TakeFactStatus
  <2>2. CASE DeliverStep
    BY <2>2, DeliverStepStatus
  <2>3. CASE DeliverWrite
    BY <2>3, DeliverWriteStatus
  <2> QED BY <1>3, <2>1, <2>2, <2>3
<1>4. ASSUME NEW s \in Sessions,
             OpenSession(s) \/ AppendRecord(s) \/ DisposeAgent(s) \/ \E status \in Statuses : SetStatus(s, status)
      PROVE  SInv'
  <2>1. CASE OpenSession(s)
    BY <2>1, OpenSessionStatus
  <2>2. CASE AppendRecord(s)
    BY <2>2, AppendRecordStatus
  <2>3. CASE DisposeAgent(s)
    BY <2>3, DisposeAgentStatus
  <2>4. CASE \E status \in Statuses : SetStatus(s, status)
    BY <2>4, SetStatusStatus
  <2> QED BY <1>4, <2>1, <2>2, <2>3, <2>4
<1>5. CASE RestartHarness
  BY <1>5, RestartStatus
<1>6. CASE SinkStores
  BY <1>6, SinkStoresStatus
<1>7. CASE SinkAcknowledges
  BY <1>7, SinkAcknowledgesStatus
<1> QED BY <1>1, <1>2, <1>3, <1>4, <1>5, <1>6, <1>7 DEF PluginNext

\* The invariant of the statuses: of every agent the facts heard, the chain and
\* what is sent give, the first of them that gives one, the present status, and
\* the number of a runtime event is new when it is made.
THEOREM StatusInvariant == PluginSpec => []SInv
<1>1. PluginInit => SInv
  BY InitStatus
<1>2. PInv /\ SInv /\ [PluginNext]_pluginVars => SInv'
  BY PluginNextStatus
<1> QED BY <1>1, <1>2, PluginInvariant, PTL DEF PluginSpec

\* Whatever start-up, delivery, the Harness and the sink interleave, once all
\* rests the runtime event with the highest number that was sent of a session
\* with an agent gives the status its agent has, unless a fact was lost to a full
\* queue or heard while start-up was delivering the pending ones.
THEOREM LastStatusIsCurrent == PluginSpec => []StatusIsCurrent
<1>1. PInv /\ SInv => StatusIsCurrent
  <2> SUFFICES ASSUME PInv, SInv, Quiet, ~plug.lost, ~plug.overlap, NEW s \in Sessions, ses[s].agent
               PROVE  \E k \in 1 .. plug.counter :
                         /\ RuntimeEvent(s, k, ses[s].status) \in Sent
                         /\ \A j \in k + 1 .. plug.counter, kind \in Kinds : RuntimeEvent(s, j, kind) \notin Sent
    BY DEF StatusIsCurrent
  <2> DEFINE v == ses[s].status
             c == plug.counter
  <2>1. c \in Nat /\ v \in Kinds
    BY StatusesKnown DEF Kinds
  <2>2. StatusOK(<<>>, <<>>, Sent, c, ses)
    <3>1. plug.running /\ ~Early /\ plug.work = <<>> /\ plug.facts = <<>>
      BY DEF Quiet, Early
    <3> QED BY <3>1 DEF SInv, ChainOK
  <2>3. Unheard(<<>>, s) /\ Silent(<<>>, s)
    BY NoOps DEF Unheard, Silent
  <2>4. LastSent(Sent, s, v)
    BY <2>2, <2>3 DEF StatusOK, IsCurrent
  <2>5. PICK k \in Nat : /\ RuntimeEvent(s, k, v) \in Sent
                         /\ \A j \in Nat, kind \in Kinds : j > k => RuntimeEvent(s, j, kind) \notin Sent
    BY <2>4 DEF LastSent
  <2>6. k \in 1 .. c
    BY <2>1, <2>5 DEF SInv, CountOK, Counted
  <2>7. \A j \in k + 1 .. c : j \in Nat /\ j > k
    BY <2>1
  <2> QED BY <2>5, <2>6, <2>7
<1> QED BY <1>1, PluginInvariant, StatusInvariant, PTL
=============================================================================
