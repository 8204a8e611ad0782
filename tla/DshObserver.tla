----------------------------- MODULE DshObserver -----------------------------
(***************************************************************************)
(* DshObserver of packages/dsh-observer/src/observer.ts: a plugin inside   *)
(* the Harness process.  It attaches its listeners, adopts the sessions    *)
(* that are live and then those that are only persisted, tells the status  *)
(* of the agents, and lets the facts heard meanwhile follow; from then on  *)
(* each fact is delivered as it is heard.  Start-up and delivery are two   *)
(* chains of promises; both are lists of operations here, an operation     *)
(* being what one of them does up to an await.                             *)
(*                                                                         *)
(* The awaits of a sink that writes at once only give way to the Harness's *)
(* own promises, so that the sink hears from the server when both chains   *)
(* rest or start-up waits for the persistence.                             *)
(*                                                                         *)
(*   ses      per session the number of its records, the header included,  *)
(*            those of them that are persisted for certain, whether it is  *)
(*            live, whether it has an agent, and the status  *)
(*            its agent has or had last                                    *)
(*   plug     the observer: whether it runs, bootstrapping, the pending    *)
(*            facts, the operations of start-up and of the fact being      *)
(*            delivered, the facts to deliver, the next line of every      *)
(*            session (cursor), the sessions announced and blocked, and    *)
(*            the number of runtime events; and what has happened to it:   *)
(*            a fact lost to a full queue, a session that could not be     *)
(*            read, a fact heard while start-up delivers the pending ones  *)
(*   queue, durable   the sink, as AckedSink promises it                    *)
(*   used     facts of the Harness, restarts and failed reads so far       *)
(*                                                                         *)
(* Bounds: MaxFacts, MaxRestarts, MaxFailures.                             *)
(***************************************************************************)
EXTENDS Naturals, SequencesExt

CONSTANTS Sessions,
          Order,               \* the sessions in the order of the Harness's lists
          Log,                 \* per session its records, the header first
          Start,               \* per session the first line of its own (seedLength)
          Persisted,           \* per session its records at the beginning
          EventsOf(_, _),      \* session, line: the events of the record
          Announced(_, _, _),  \* session, records, agent given: its announcement
          Unmappable(_, _),    \* session, line: the record cannot be mapped
          QueueLimit,          \* the sink's maxQueue
          MaxFacts, MaxRestarts, MaxFailures

VARIABLES ses, plug, queue, durable, used
pluginVars == <<ses, plug, queue, durable, used>>

Statuses == {"idle", "running"}
Kinds == Statuses \cup {"disposed"}

\* runtimeEvent: what a session's agent does, numbered for the run.
RuntimeEvent(s, k, kind) ==
    [id |-> <<s, k, kind>>, body |-> [type |-> kind, about |-> 0, detail |-> FALSE]]

RecordEvents(s) == UNION {ToSet(EventsOf(s, l)) : l \in 2 .. Len(Log[s])}
Announcements(s) == UNION {ToSet(Announced(s, n, a)) : n \in DOMAIN Log[s], a \in BOOLEAN}
PluginEvents ==
    (UNION {RecordEvents(s) \cup Announcements(s) : s \in Sessions})
    \cup {RuntimeEvent(s, k, kind) :
             s \in Sessions, k \in 1 .. MaxFacts + (MaxRestarts + 1) * Cardinality(Sessions), kind \in Kinds}

\* A session is created with its seed, the records before its first own line.
ASSUME DshAssumption ==
    /\ Order \in Seq(Sessions) /\ Sessions # {} /\ ToSet(Order) = Sessions
    /\ Start \in [Sessions -> Nat]
    /\ \A s \in Sessions :
          /\ Len(Log[s]) \in Nat /\ DOMAIN Log[s] = 1 .. Len(Log[s])
          /\ Start[s] \in 2 .. Len(Log[s]) + 1
          /\ Persisted[s] \in {0} \cup (Start[s] - 1 .. Len(Log[s]))
    /\ QueueLimit \in Nat /\ MaxFacts \in Nat /\ MaxRestarts \in Nat /\ MaxFailures \in Nat

\* A record gives at most one event.  The ids, of a record's session and line, of
\* the announcement's session and of a runtime event's session, number and kind,
\* tell the events apart.
ASSUME EventsAssumption ==
    \A s \in Sessions :
       /\ \A n \in DOMAIN Log[s], a \in BOOLEAN : Announced(s, n, a) \in Seq(Announcements(s))
       /\ \A l \in 2 .. Len(Log[s]) : EventsOf(s, l) \in {<<>>} \cup {<<e>> : e \in RecordEvents(s)}
       /\ \A e \in RecordEvents(s) \cup Announcements(s) : e.body.type \notin Kinds
       /\ \A t \in Sessions : RecordEvents(s) \cap Announcements(t) = {}
       /\ \A t \in Sessions : \A l \in 2 .. Len(Log[s]), m \in 2 .. Len(Log[t]) :
             s # t \/ l # m => ToSet(EventsOf(s, l)) \cap ToSet(EventsOf(t, m)) = {}

\* The server refuses an event that it has with another body.
Refuses(s, e) == \E f \in s : f.id = e.id /\ f.body # e.body
Sink == INSTANCE AckedSink WITH Events <- PluginEvents, stored <- durable

Stopped(runtime) ==
    [running |-> FALSE, bootstrapping |-> TRUE, pending |-> <<>>, boot |-> <<>>, work |-> <<>>,
     facts |-> <<>>, cursor |-> Start, announced |-> {}, blocked |-> {}, counter |-> runtime,
     lost |-> FALSE, unread |-> FALSE, overlap |-> FALSE]

PluginInit ==
    /\ ses = [s \in Sessions |-> [n |-> Persisted[s], saved |-> Persisted[s], live |-> FALSE,
                                   agent |-> FALSE, status |-> "none"]]
    /\ plug = Stopped(0)
    /\ Sink!Init
    /\ used = [facts |-> 0, restarts |-> 0, failures |-> 0]
-----------------------------------------------------------------------------
(* The operations.  Each gives the operations that take its place, the     *)
(* change of the observer, or the event to write.                          *)
Op(op, s, l) == [op |-> op, s |-> s, l |-> l, event |-> <<>>]
WriteOp(s, l, e) == [Op("write", s, l) EXCEPT !.event = <<e>>]
Writes(s, l, events) == [i \in DOMAIN events |-> WriteOp(s, l, events[i])]

\* acceptPending.  A status fact carries the status in place of a line.
Accepts(fact) ==
    CASE fact.kind = "session"  -> <<Op("announce", fact.s, 0)>>
      [] fact.kind = "event"    -> <<Op("accept", fact.s, fact.l)>>
      [] fact.kind = "disposed" -> <<Op("disposed", fact.s, 0)>>
      [] OTHER -> <<Op("announceAgent", fact.s, 0), Op(fact.kind, fact.s, 0)>>

\* announce: once per run of the observer, with what is known of the session.
Announces(p, s, agent) ==
    IF s \in p.announced THEN <<>> ELSE Writes(s, 0, Announced(s, ses[s].n, agent))

\* The session's events in the lines first .. last, one after the other.
AcceptAll(s, first, last) == [i \in 1 .. last + 1 - first |-> Op("accept", s, first + i - 1)]

\* Mutant: a gap in front of an event is not filled.
ConsidersWithHoles(p, s, l) ==
    IF l < p.cursor[s] THEN <<>> ELSE <<Op("emit", s, l)>>

\* acceptSessionEvent after its announcement: an event before the cursor is
\* known; one beyond it waits for the session's events in between, after which
\* neither the cursor nor the block is looked at again.
Considers(p, s, l) ==
    CASE l < p.cursor[s] -> <<>>
      [] OTHER -> AcceptAll(s, p.cursor[s], l - 1) \o <<Op("emit", s, l)>>

\* The rest of a chain's operations after one that was done in step p.
Does(p, o) ==
    LET Status(kind) == <<WriteOp(o.s, 0, RuntimeEvent(o.s, p.counter + 1, kind))>>
    IN  CASE o.op = "fact" -> Accepts(o.event[1])
          [] o.op \in {"announce", "announceAgent"} -> Announces(p, o.s, o.op = "announceAgent")
          [] o.op = "accept" ->
                IF o.s \in p.blocked THEN <<>>
                ELSE <<Op("announce", o.s, 0), Op("consider", o.s, o.l)>>
          [] o.op = "consider" -> Considers(p, o.s, o.l)
          [] o.op = "emit" ->
                IF Unmappable(o.s, o.l) THEN <<>>
                ELSE Writes(o.s, o.l, EventsOf(o.s, o.l)) \o <<Op("advance", o.s, o.l + 1)>>
          [] o.op \in Kinds -> Status(o.op)
          [] o.op = "status" -> Status(ses[o.s].status)
          [] o.op = "adopt" -> IF o.l <= ses[o.s].n
                               THEN <<Op("accept", o.s, o.l), Op("adopt", o.s, o.l + 1)>>
                               ELSE <<Op("advanceTo", o.s, o.l)>>
          [] o.op = "agents" ->
                FlattenSeq([i \in DOMAIN Order |->
                              IF ses[Order[i]].agent
                              THEN <<Op("announceAgent", Order[i], 0), Op("status", Order[i], 0)>>
                              ELSE <<>>])
          [] OTHER -> <<>>

\* What an operation changes besides.
Changes(p, o) ==
    CASE o.op \in {"announce", "announceAgent"} -> [p EXCEPT !.announced = @ \cup {o.s}]
      [] o.op = "emit" /\ Unmappable(o.s, o.l) -> [p EXCEPT !.blocked = @ \cup {o.s}]
      [] o.op \in {"advance", "adopted"} -> [p EXCEPT !.cursor[o.s] = o.l]
      [] o.op = "advanceTo" -> [p EXCEPT !.cursor[o.s] = Max({@, o.l})]
      [] o.op \in Kinds \cup {"status"} -> [p EXCEPT !.counter = @ + 1]
      [] OTHER -> p

-----------------------------------------------------------------------------
(* The chains.                                                             *)
Waiting == {"list", "read"}
OnlyPlug == UNCHANGED <<ses, queue, durable, used>>

\* start: the listeners are attached and the live sessions listed at once.
StartPlugin ==
    LET live == {s \in Sessions : ses[s].live}
        Adopts(s) == IF s \in live THEN <<Op("announce", s, 0), Op("adopt", s, Start[s])>> ELSE <<>>
    IN  /\ ~plug.running
        /\ plug' = [plug EXCEPT !.running = TRUE,
                       !.boot = FlattenSeq([i \in DOMAIN Order |-> Adopts(Order[i])])
                                \o <<[Op("list", Order[1], 0) EXCEPT !.event = <<live>>],
                                     Op("agents", Order[1], 0), Op("open", Order[1], 0)>>]
        /\ OnlyPlug

\* An operation of start-up that neither waits nor writes nor opens.
BootStep ==
    /\ plug.boot # <<>>
    /\ LET o == Head(plug.boot)
       IN  /\ o.op \notin Waiting \cup {"write", "open"}
           /\ plug' = [Changes(plug, o) EXCEPT !.boot = Does(plug, o) \o Tail(plug.boot)]
    /\ OnlyPlug

\* sessionPersistence.list, or no persistence.
ListPersisted ==
    /\ plug.boot # <<>> /\ Head(plug.boot).op = "list"
    /\ LET cold == {s \in Sessions : ses[s].n > 0 /\ s \notin Head(plug.boot).event[1]}
           Reads(s) == IF s \in cold THEN <<Op("read", s, 0)>> ELSE <<>>
       IN  plug' = [plug EXCEPT !.boot = FlattenSeq([i \in DOMAIN Order |-> Reads(Order[i])]) \o Tail(@)]
    /\ OnlyPlug

\* readFrom returns what is persisted, of a session that has come alive since
\* maybe not all of it.  A session that cannot be read is left out.
ReadPersisted ==
    /\ plug.boot # <<>> /\ Head(plug.boot).op = "read"
    /\ LET s == Head(plug.boot).s
       IN  \/ \E m \in ses[s].saved .. ses[s].n :
                /\ plug' = [plug EXCEPT !.announced = @ \cup {s},
                      !.boot = (IF s \in plug.announced THEN <<>>
                                ELSE Writes(s, 0, Announced(s, m, FALSE)))
                               \o AcceptAll(s, Start[s], m) \o <<Op("adopted", s, m + 1)>> \o Tail(@)]
                /\ UNCHANGED used
           \/ /\ used.failures < MaxFailures
              /\ used' = [used EXCEPT !.failures = @ + 1]
              /\ plug' = [plug EXCEPT !.boot = Tail(@), !.unread = TRUE]
    /\ UNCHANGED <<ses, queue, durable>>

\* Mutant: what was heard before the agents were listed is dropped with them.
OpenAfresh ==
    /\ plug.boot # <<>> /\ Head(plug.boot).op = "open"
    /\ plug' = [plug EXCEPT !.bootstrapping = FALSE, !.pending = <<>>, !.boot = <<>>]
    /\ OnlyPlug

\* Bootstrapping is over: the pending facts follow.
OpenDelivery ==
    /\ plug.boot # <<>> /\ Head(plug.boot).op = "open"
    /\ plug' = [plug EXCEPT !.bootstrapping = FALSE, !.pending = <<>>,
                   !.boot = [i \in DOMAIN plug.pending |->
                               [Op("fact", plug.pending[i].s, 0) EXCEPT !.event = <<plug.pending[i]>>]]]
    /\ OnlyPlug

\* What a chain goes on with when a write throws.  acceptSessionEvent catches
\* what its own event throws and blocks the session.  The adoption of a
\* persisted session gives up that session; otherwise the chain ends, which in
\* delivery is the one of the fact.
Caught(o, rest) ==
    IF o.l > 0 THEN Tail(rest)
    ELSE LET adopted == {i \in DOMAIN rest : rest[i].op = "adopted"}
         IN  IF adopted = {} THEN <<>> ELSE SubSeq(rest, Min(adopted) + 1, Len(rest))
Throws(p, o) == IF o.l > 0 THEN [p EXCEPT !.blocked = @ \cup {o.s}] ELSE [p EXCEPT !.lost = TRUE]

BootWrite ==
    /\ plug.boot # <<>> /\ Head(plug.boot).op = "write"
    /\ LET o == Head(plug.boot)
           rest == Tail(plug.boot)
       IN  IF Len(queue) >= QueueLimit
           THEN /\ plug' = [Throws(plug, o) EXCEPT !.boot = Caught(o, rest)]
                /\ UNCHANGED <<queue, durable>>
           ELSE plug' = [plug EXCEPT !.boot = rest] /\ Sink!Write(o.event[1])
    /\ UNCHANGED <<ses, used>>

\* receive has chained the fact to the delivery of the one before.
TakeFact ==
    /\ plug.work = <<>> /\ plug.facts # <<>>
    /\ plug' = [plug EXCEPT !.work = Accepts(Head(plug.facts)), !.facts = Tail(@)]
    /\ OnlyPlug

DeliverStep ==
    /\ plug.work # <<>>
    /\ LET o == Head(plug.work)
       IN  /\ o.op # "write"
           /\ plug' = [Changes(plug, o) EXCEPT !.work = Does(plug, o) \o Tail(plug.work)]
    /\ OnlyPlug

DeliverWrite ==
    /\ plug.work # <<>> /\ Head(plug.work).op = "write"
    /\ LET o == Head(plug.work)
           rest == Tail(plug.work)
       IN  IF Len(queue) >= QueueLimit
           THEN /\ plug' = [Throws(plug, o) EXCEPT !.work = Caught(o, rest)]
                /\ UNCHANGED <<queue, durable>>
           ELSE plug' = [plug EXCEPT !.work = rest] /\ Sink!Write(o.event[1])
    /\ UNCHANGED <<ses, used>>

-----------------------------------------------------------------------------
(* The Harness and the sink.                                               *)

\* Mutant: the pending facts are kept in the reverse order.
HearReversed(fact) ==
    /\ used.facts < MaxFacts
    /\ used' = [used EXCEPT !.facts = @ + 1]
    /\ plug' = IF ~plug.running THEN plug
               ELSE IF plug.bootstrapping THEN [plug EXCEPT !.pending = <<fact>> \o @]
               ELSE [plug EXCEPT !.facts = Append(@, fact), !.overlap = @ \/ plug.boot # <<>>]
    /\ UNCHANGED <<queue, durable>>

\* receive: pending while start-up adopts, else delivered.
Hear(fact) ==
    /\ used.facts < MaxFacts
    /\ used' = [used EXCEPT !.facts = @ + 1]
    /\ plug' = IF ~plug.running THEN plug
               ELSE IF plug.bootstrapping THEN [plug EXCEPT !.pending = Append(@, fact)]
               ELSE [plug EXCEPT !.facts = Append(@, fact), !.overlap = @ \/ plug.boot # <<>>]
    /\ UNCHANGED <<queue, durable>>
Fact(kind, s, l) == [kind |-> kind, s |-> s, l |-> l]

\* A session is created, with its seed, or resumed with its records.
OpenSession(s) ==
    /\ ~ses[s].live
    /\ ses' = [ses EXCEPT ![s].live = TRUE, ![s].n = Max({@, Start[s] - 1}),
                           ![s].saved = Max({ses[s].n, Start[s] - 1})]
    /\ Hear(Fact("session", s, 0))

AppendRecord(s) ==
    /\ ses[s].live /\ ses[s].n < Len(Log[s])
    /\ ses' = [ses EXCEPT ![s].n = @ + 1]
    /\ Hear(Fact("event", s, ses[s].n + 1))

\* An agent is created or changes its status.
SetStatus(s, status) ==
    /\ ses[s].live
    /\ ses[s].agent => ses[s].status # status
    /\ ses' = [ses EXCEPT ![s].agent = TRUE, ![s].status = status]
    /\ Hear(Fact(status, s, 0))

DisposeAgent(s) ==
    /\ ses[s].agent
    /\ ses' = [ses EXCEPT ![s].agent = FALSE]
    /\ Hear(Fact("disposed", s, 0))

RestartHarness ==
    /\ used.restarts < MaxRestarts
    /\ used' = [used EXCEPT !.restarts = @ + 1]
    /\ ses' = [s \in Sessions |-> [ses[s] EXCEPT !.saved = ses[s].n, !.live = FALSE, !.agent = FALSE]]
    /\ plug' = Stopped(plug.counter)
    /\ queue' = <<>>
    /\ UNCHANGED durable

Resting == /\ plug.work = <<>> /\ plug.facts = <<>>
           /\ plug.boot # <<>> => Head(plug.boot).op \in Waiting

SinkStores == Resting /\ Sink!Store /\ UNCHANGED <<ses, plug, used>>
SinkAcknowledges ==
    /\ Resting
    /\ \E n \in 1 .. Len(queue) : Sink!Acknowledge(n)
    /\ UNCHANGED <<ses, plug, used>>

PluginNext ==
    \/ StartPlugin \/ BootStep \/ ListPersisted \/ ReadPersisted \/ OpenDelivery \/ BootWrite
    \/ TakeFact \/ DeliverStep \/ DeliverWrite
    \/ \E s \in Sessions : \/ OpenSession(s) \/ AppendRecord(s) \/ DisposeAgent(s)
                           \/ \E status \in Statuses : SetStatus(s, status)
    \/ RestartHarness \/ SinkStores \/ SinkAcknowledges

PluginSpec == PluginInit /\ [][PluginNext]_pluginVars
-----------------------------------------------------------------------------
Ids(events) == {e.id : e \in events}
Sent == durable \cup ToSet(queue)
Delivered(s, l) == \A e \in ToSet(EventsOf(s, l)) : e.id \in Ids(Sent)

Quiet == /\ plug.running /\ ~plug.bootstrapping
         /\ plug.boot = <<>> /\ plug.work = <<>> /\ plug.facts = <<>>

\* "Race-free": whatever the Harness does while the observer adopts its history,
\* every record of a live session has its event when all is delivered, unless
\* the session is blocked, a fact was lost to a full queue, or a session could
\* not be read.
NothingMissed ==
    Quiet /\ ~plug.lost /\ ~plug.unread =>
       \A s \in Sessions \ plug.blocked :
          ses[s].live => \A l \in Start[s] .. ses[s].n : Delivered(s, l)

\* "An unknown required event refuses silent data loss": the events of a session
\* are in the database in their order and without a hole, up to the first that
\* cannot be mapped.
NoHoles ==
    \A s \in Sessions : \A l \in Start[s] .. Len(Log[s]) :
       ToSet(EventsOf(s, l)) \cap durable # {} =>
          \A k \in Start[s] .. l - 1 :
             \/ ToSet(EventsOf(s, k)) \subseteq durable
             \/ \E u \in Start[s] .. k : Unmappable(s, u)

\* The last status that was sent is the agent's, unless facts were heard while
\* start-up was delivering the pending ones.
StatusIsCurrent ==
    Quiet /\ ~plug.lost /\ ~plug.overlap =>
       \A s \in Sessions : ses[s].agent =>
          \E k \in 1 .. plug.counter :
             /\ RuntimeEvent(s, k, ses[s].status) \in Sent
             /\ \A j \in k + 1 .. plug.counter, kind \in Kinds : RuntimeEvent(s, j, kind) \notin Sent

\* start: "Root/resumed history is safe to replay because canonical ids are
\* stable and the Rust store dedups."  Nothing that is sent again is refused.
ReplayIsSafe == \A e \in ToSet(queue) : ~Refuses(durable, e)
=============================================================================
