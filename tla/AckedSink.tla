------------------------------ MODULE AckedSink ------------------------------
(***************************************************************************)
(* What an AcknowledgedCanonicalEventSink promises to the adapters that    *)
(* write to it (packages/adapter-runtime/src/ndjson-sink.ts): events leave *)
(* the queue at its head, only once they are durable, and become durable   *)
(* in the order of the queue, so that an empty queue means that everything *)
(* written so far is durable.  NdjsonSink implements this module, and      *)
(* the observers are specified on top of it.                               *)
(*                                                                         *)
(*   queue    the events written and not yet acknowledged, in order        *)
(*   stored   the events the server has made durable                       *)
(***************************************************************************)
EXTENDS Naturals, Sequences

CONSTANTS Events,
          Refuses(_, _)     \* the server, having stored a set, refuses an event

VARIABLES queue, stored
vars == <<queue, stored>>

Init == queue = <<>> /\ stored = {}

Write(e) == queue' = Append(queue, e) /\ UNCHANGED stored

\* The first event of the queue that is not durable yet becomes durable.
Store ==
    \E i \in DOMAIN queue :
       /\ queue[i] \notin stored /\ ~Refuses(stored, queue[i])
       /\ \A j \in 1 .. i - 1 : queue[j] \in stored
       /\ stored' = stored \cup {queue[i]}
       /\ UNCHANGED queue

Acknowledge(n) ==
    /\ n \in 1 .. Len(queue)
    /\ \A i \in 1 .. n : queue[i] \in stored
    /\ queue' = SubSeq(queue, n + 1, Len(queue))
    /\ UNCHANGED stored

Next == (\E e \in Events : Write(e)) \/ Store \/ (\E n \in 1 .. Len(queue) : Acknowledge(n))
Spec == Init /\ [][Next]_vars
=============================================================================
