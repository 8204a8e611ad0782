----------------------------- MODULE NdjsonSink ------------------------------
(***************************************************************************)
(* NdjsonTcpSink of packages/adapter-runtime/src/ndjson-sink.ts, the       *)
(* transport every adapter writes its events to, with the connections to   *)
(* the ingest server it speaks to.                                         *)
(*                                                                         *)
(* Node runs one callback at a time, so each callback is one action:       *)
(* write, whenIdle and its timer, close, the reconnect timer, and the      *)
(* socket's connect, data, drain and close events.                         *)
(*                                                                         *)
(*   sink     the fields of NdjsonTcpSink.  socket is "none", "connecting",*)
(*            "open" or "destroyed" (destroyed, but its close event is     *)
(*            still to come); waiters holds, for every idleWaiters entry,  *)
(*            how many events had been written when whenIdle was called    *)
(*   wires    every connection so far, the last one being the sink's own:  *)
(*            frames the server has not read, frames the sink has not      *)
(*            read, and whether the server still reads.  The server may go *)
(*            on reading a connection the sink has given up                *)
(*   stored   the events the server has made durable (module Server)       *)
(*   written, resolved   history: what was written, in order, and the      *)
(*            waiters that whenIdle resolved                               *)
(*                                                                         *)
(* Bounds: MaxWrites, MaxWires.  The back-off delay is not modelled: the   *)
(* reconnect timer fires at any time.                                      *)
(***************************************************************************)
EXTENDS Naturals, SequencesExt

CONSTANTS Events,
          Rejected,        \* the events the server refuses
          MaxQueue, MaxInFlight,
          MaxWrites, MaxWires

ASSUME SinkAssumption ==
    /\ Rejected \subseteq Events
    /\ MaxQueue \in Nat /\ MaxWrites \in Nat /\ MaxWires \in Nat
    /\ MaxInFlight \in Nat \ {0}

VARIABLES sink, wires, stored, written, resolved
vars == <<sink, wires, stored, written, resolved>>

Current == Len(wires)
Frame(kind, e) == [kind |-> kind, event |-> e]

Init == /\ sink = [queue |-> <<>>, inFlight |-> <<>>, socket |-> "connecting",
                   writable |-> TRUE, timer |-> FALSE, closed |-> FALSE, waiters |-> {}]
        /\ wires = <<>>
        /\ stored = {}
        /\ written = <<>>
        /\ resolved = {}

-----------------------------------------------------------------------------
\* How many events may be in flight.
Window(queue) == IF Len(queue) < MaxInFlight THEN Len(queue) ELSE MaxInFlight

\* flush: write the queued events beyond the in-flight ones until the window is
\* full, the queue is exhausted, or the socket reports back-pressure (a write
\* may return false at any frame).  What is written to a connection that the
\* server has closed is lost.
Flush(s, ws) ==
    LET sent == Len(s.inFlight)
        room == Window(s.queue)
    IN  IF s.socket # "open" \/ ~s.writable \/ sent >= room
        THEN sink' = s /\ wires' = ws
        ELSE \E upto \in sent + 1 .. room, w \in BOOLEAN :
               /\ w => upto = room
               /\ sink' = [s EXCEPT !.inFlight = SubSeq(s.queue, 1, upto), !.writable = w]
               /\ wires' = IF ws[Len(ws)].reads
                           THEN [ws EXCEPT ![Len(ws)].frames =
                                   @ \o SubSeq(s.queue, sent + 1, upto)]
                           ELSE ws

Write(e) ==
    /\ ~sink.closed
    /\ Len(sink.queue) < MaxQueue
    /\ Len(written) < MaxWrites
    /\ Flush([sink EXCEPT !.queue = Append(@, e)], wires)
    /\ written' = Append(written, e)
    /\ UNCHANGED <<stored, resolved>>

\* Mutant: nothing in flight counts as idle.
WhenNothingInFlight ==
    /\ IF sink.inFlight = <<>>
       THEN resolved' = resolved \cup {Len(written)} /\ UNCHANGED sink
       ELSE sink' = [sink EXCEPT !.waiters = @ \cup {Len(written)}] /\ UNCHANGED resolved
    /\ UNCHANGED <<wires, stored, written>>

WhenIdle ==
    /\ IF sink.queue = <<>>
       THEN resolved' = resolved \cup {Len(written)} /\ UNCHANGED sink
       ELSE sink' = [sink EXCEPT !.waiters = @ \cup {Len(written)}] /\ UNCHANGED resolved
    /\ UNCHANGED <<wires, stored, written>>

\* The waiter's timer removes it and rejects the promise.
WaitTimesOut(w) ==
    /\ w \in sink.waiters
    /\ sink' = [sink EXCEPT !.waiters = @ \ {w}]
    /\ UNCHANGED <<wires, stored, written, resolved>>

\* close, after its wait for the queue to drain ended one way or the other.
Close ==
    /\ ~sink.closed
    /\ sink' = [sink EXCEPT !.closed = TRUE, !.timer = FALSE,
                            !.socket = IF @ = "none" THEN "none" ELSE "destroyed"]
    /\ UNCHANGED <<wires, stored, written, resolved>>

\* The reconnect timer: connect.
Reconnect ==
    /\ sink.timer
    /\ sink' = [sink EXCEPT !.timer = FALSE,
                            !.socket = IF sink.closed \/ @ # "none" THEN @ ELSE "connecting"]
    /\ UNCHANGED <<wires, stored, written, resolved>>

\* The connect event: hello, then the queue from its head.
Connected ==
    /\ sink.socket = "connecting"
    /\ Len(wires) < MaxWires
    /\ \E w \in BOOLEAN :
         Flush([sink EXCEPT !.socket = "open", !.writable = w],
               Append(wires, [frames |-> <<>>, answers |-> <<>>, reads |-> TRUE]))
    /\ UNCHANGED <<stored, written, resolved>>

ConnectFails ==
    /\ sink.socket = "connecting"
    /\ sink' = [sink EXCEPT !.socket = "destroyed"]
    /\ UNCHANGED <<wires, stored, written, resolved>>

\* Mutant: a rejected event is dropped.
ReceiveLineSkipping(s, frame) ==
    IF s.queue # <<>> /\ s.inFlight # <<>>
    THEN [s EXCEPT !.queue = Tail(@), !.inFlight = Tail(@)]
    ELSE [s EXCEPT !.socket = "destroyed"]

\* receive, for one line.  The loop goes on after destroy.
ReceiveLine(s, frame) ==
    IF frame.kind = "ack" /\ s.inFlight # <<>> /\ frame.event = Head(s.inFlight)
    THEN [s EXCEPT !.queue = IF @ # <<>> /\ Head(@) = frame.event THEN Tail(@) ELSE @,
                   !.inFlight = Tail(@)]
    ELSE [s EXCEPT !.socket = "destroyed"]

\* receive, for the first n lines that wait on the connection.
ReceiveLines(n) ==
    LET after[i \in 0 .. n] ==
            IF i = 0 THEN sink ELSE ReceiveLine(after[i - 1], wires[Current].answers[i])
    IN  after[n]

\* The data event with the first n lines that wait on the connection.  receive
\* flushes after every ack; flushing once after the last writes the same frames.
Receive(n) ==
    /\ sink.socket = "open"
    /\ n \in 1 .. Len(wires[Current].answers)
    /\ LET after == ReceiveLines(n)
           woken == IF after.queue = <<>> /\ sink.queue # <<>> THEN sink.waiters ELSE {}
       IN  /\ Flush([after EXCEPT !.waiters = @ \ woken],
                    [wires EXCEPT ![Current].answers = SubSeq(@, n + 1, Len(@))])
           /\ resolved' = resolved \cup woken
    /\ UNCHANGED <<stored, written>>

\* Mutant: the drain event does not flush.
DrainOnly ==
    /\ sink.socket = "open" /\ ~sink.writable
    /\ sink' = [sink EXCEPT !.writable = TRUE]
    /\ UNCHANGED <<wires, stored, written, resolved>>

Drain ==
    /\ sink.socket = "open" /\ ~sink.writable
    /\ Flush([sink EXCEPT !.writable = TRUE], wires)
    /\ UNCHANGED <<stored, written, resolved>>

\* The close event: forget what was in flight, and schedule a reconnect.
SocketClosed ==
    /\ sink.socket = "destroyed"
    /\ sink' = [sink EXCEPT !.socket = "none", !.inFlight = <<>>, !.writable = TRUE,
                            !.timer = @ \/ ~sink.closed]
    /\ wires' = [k \in DOMAIN wires |-> [wires[k] EXCEPT !.answers = <<>>]]
    /\ UNCHANGED <<stored, written, resolved>>

-----------------------------------------------------------------------------
(* The network and the server.                                             *)

\* The connection breaks; what the server answered on it may be lost, and the
\* server may still read what was sent.
ConnectionLost ==
    /\ sink.socket = "open"
    /\ Len(wires) < MaxWires
    /\ sink' = [sink EXCEPT !.socket = "destroyed"]
    /\ UNCHANGED <<wires, stored, written, resolved>>

\* The server closed the connection.
PeerClosed ==
    /\ sink.socket = "open"
    /\ ~wires[Current].reads
    /\ sink' = [sink EXCEPT !.socket = "destroyed"]
    /\ UNCHANGED <<wires, stored, written, resolved>>

\* A client handler of the server takes the next frame of its connection: the
\* event is made durable and acknowledged, or refused, and then the handler
\* returns and the rest of the connection is lost.  Nobody reads the answers on
\* a connection the sink has given up.
Answered(k, frame) ==
    IF k = Current /\ sink.socket = "open" THEN Append(wires[k].answers, frame) ELSE <<>>

Handle(k) ==
    /\ wires[k].frames # <<>>
    /\ LET e == Head(wires[k].frames)
       IN  \/ /\ e \in Rejected
              /\ wires' = [wires EXCEPT ![k] = [frames  |-> <<>>,
                                               answers |-> Answered(k, Frame("error", e)),
                                               reads   |-> FALSE]]
              /\ UNCHANGED stored
           \/ /\ e \notin Rejected
              /\ wires' = [wires EXCEPT ![k] = [frames  |-> Tail(@.frames),
                                               answers |-> Answered(k, Frame("ack", e)),
                                               reads   |-> TRUE]]
              /\ stored' = stored \cup {e}
    /\ UNCHANGED <<sink, written, resolved>>

\* The server stops between two frames, maybe after making an event durable
\* and before its ack is read.
ServerStops ==
    /\ Len(wires) < MaxWires
    /\ \E k \in DOMAIN wires : wires[k].reads
    /\ wires' = [k \in DOMAIN wires |-> [wires[k] EXCEPT !.frames = <<>>, !.reads = FALSE]]
    /\ UNCHANGED <<sink, stored, written, resolved>>

Caller == (\E e \in Events : Write(e)) \/ WhenIdle \/ (\E w \in sink.waiters : WaitTimesOut(w))
Receives == \E n \in 1 .. (IF wires = <<>> THEN 0 ELSE Len(wires[Current].answers)) : Receive(n)
Handles == \E k \in DOMAIN wires : Handle(k)
Next == \/ Caller \/ Close \/ Reconnect \/ Connected \/ ConnectFails \/ Receives
        \/ Drain \/ SocketClosed \/ ConnectionLost \/ PeerClosed \/ Handles \/ ServerStops

Spec == Init /\ [][Next]_vars

\* Node runs every callback whose event has come, the server reads what it is
\* sent, and connecting succeeds now and then.  Nothing makes a caller write,
\* wait or close, and nothing makes a connection fail.
Fairness == /\ WF_vars(Reconnect) /\ SF_vars(Connected) /\ WF_vars(Receives)
            /\ WF_vars(Drain) /\ WF_vars(SocketClosed) /\ WF_vars(PeerClosed)
            /\ WF_vars(Handles)
FairSpec == Spec /\ Fairness
-----------------------------------------------------------------------------
\* Across reconnects, replays and connections that were given up, an event
\* leaves the queue only after the server made it durable, and the server never
\* stores an event before the events queued ahead of it: the sink is what the
\* adapters take it for.
RefusesRejected(s, e) == e \in Rejected
Promise == INSTANCE AckedSink WITH queue <- sink.queue, Refuses <- RefusesRejected
ImplementsAckedSink == Promise!Spec

\* When whenIdle resolves, everything written before it was called is durable:
\* what the adapters' cursors rest on.
IdleMeansStored ==
    \A w \in resolved : \A i \in 1 .. w : written[i] \in stored

\* Whatever is written gets stored, unless the sink is closed or stands before
\* an event that the server refuses.
Delivers == sink.queue # <<>> ~>
               (sink.queue = <<>> \/ sink.closed \/ ToSet(sink.queue) \cap Rejected # {})
=============================================================================
