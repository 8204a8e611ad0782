---------------------------- MODULE TailObserver -----------------------------
(***************************************************************************)
(* The passive observers that tail transcripts by byte cursors:            *)
(* CodexPassiveObserver and AntigravityPassiveObserver, several of them    *)
(* writing to one sink, as their auto-discovery runs them.                 *)
(*                                                                         *)
(* An observer reads the records after its cursor, maps them to events,    *)
(* writes the events to the sink, waits until the sink is idle and then    *)
(* commits the new cursor to its state file.  Scans of one observer follow *)
(* one another (scanTail); every await in a scan is a step, and the agent  *)
(* writes its transcript, the server acknowledges and the process dies     *)
(* between any two of them.                                                *)
(*                                                                         *)
(*   agent    whose transcripts these are: its runtime, for every path the *)
(*            records it writes there in this order, and the capacity of   *)
(*            the sink its observers share                                 *)
(*   file     the transcripts                                              *)
(*   obs      per observer: the place its scan has reached, its state in   *)
(*            memory, the stat results the scan goes by, the events still  *)
(*            to write, and the state to commit                            *)
(*   saved    the state files                                              *)
(*   queue, stored   the sink, as AckedSink promises it                    *)
(*   used     edits of transcripts, crashes and timeouts so far            *)
(*                                                                         *)
(* Bounds: an agent's maxEdits; MaxFailures for crashes and timeouts       *)
(* together.                                                               *)
(***************************************************************************)
EXTENDS FileTail, SequencesExt

CONSTANTS Agents,              \* the agents: records of runtime, log, maxQueue and maxEdits
          NoMapping(_),        \* a runtime's mapper's state before the first record
          MapRecord(_, _, _, _),  \* runtime, mapper state, record, line: new state
                                  \* and events
          NoState,             \* no state in memory, or no state file
          MaxFailures

ASSUME ObserverAssumption ==
    /\ \A g \in Agents : g.runtime \in {"codex", "antigravity"}
    /\ MaxLines \in Nat \ {0}
    /\ MaxFailures \in Nat

VARIABLES agent, file, obs, saved, queue, stored, used
vars == <<agent, file, obs, saved, queue, stored, used>>

Paths == DOMAIN agent.log

\* The mapper takes one more line; its events carry their path and line, which
\* their ids are made of.
MapLine(g, p, before, line) ==
    LET mapped == MapRecord(g.runtime, before.mapping, g.log[p][line], line)
    IN  [mapping |-> mapped.mapping,
         events  |-> before.events \o
            [k \in DOMAIN mapped.events |->
               [path |-> p, line |-> line, body |-> mapped.events[k]]]]

\* The mapper over the lines from + 1 .. to of g's transcript at p, starting
\* from state m.
MapLinesOf(g, p, m, from, to) ==
    LET after[i \in from .. to] ==
            IF i = from THEN [mapping |-> m, events |-> <<>>]
            ELSE CHOOSE r \in {MapLine(g, p, before, i) : before \in {after[i - 1]}} : TRUE
    IN  after[to]

\* The first n lines of a transcript, and the events of whole transcripts.
FirstLines(g, p, n) == MapLinesOf(g, p, NoMapping(g.runtime), 0, n)
EventsOf == [g \in Agents |-> [p \in DOMAIN g.log |-> FirstLines(g, p, Len(g.log[p])).events]]
Events == UNION {UNION {ToSet(EventsOf[g][p]) : p \in DOMAIN g.log} : g \in Agents}

\* A transcript is a sequence of records, and a mapper returns a list of events.
IsList(s) == s \in Seq(ToSet(s))
ASSUME ListAssumption ==
    \A g \in Agents : \A p \in DOMAIN g.log :
       /\ IsList(g.log[p])
       /\ \A n \in 1 .. Len(g.log[p]) :
             IsList(MapRecord(g.runtime, FirstLines(g, p, n - 1).mapping, g.log[p][n], n).events)

MapLines(p, m, from, to) == MapLinesOf(agent, p, m, from, to)
AllEvents(p) == EventsOf[agent][p]
NeverRefuses(s, e) == FALSE
Sink == INSTANCE AckedSink WITH Refuses <- NeverRefuses

Resting == [pc |-> "idle", state |-> NoState, mtime |-> 0,
            stat |-> [id |-> 0, size |-> 0, mtime |-> 0], todo |-> <<>>, next |-> NoState]

Init == /\ agent \in Agents
        /\ file = [p \in Paths |-> [id |-> 0, n |-> 0, partial |-> FALSE, mtime |-> 0]]
        /\ obs = [p \in Paths |-> Resting]
        /\ saved = [p \in Paths |-> NoState]
        /\ Sink!Init
        /\ used = [edits |-> 0, failures |-> 0]

-----------------------------------------------------------------------------
(* One scan.                                                               *)

\* A scan is over, or has thrown: what is not committed is read again.
GiveUp(p) == obs' = [obs EXCEPT ![p] = [Resting EXCEPT !.state = obs[p].state]]
Unseen == UNCHANGED <<agent, file, saved, queue, stored, used>>

FreshState(id, mtime) == [id |-> id, lines |-> 0, mtime |-> mtime, mapping |-> NoMapping(agent.runtime)]

\* Codex reads the session's header from the start of the file and fails
\* without one; Antigravity takes the session from the path.
CanStart(p) == agent.runtime = "codex" => file[p].n > 0

\* ensureState: the state in memory, else the state file when it is about the
\* file of this identity, else a fresh state.
EnsureState(p) ==
    /\ obs[p].pc = "idle"
    /\ LET found == IF obs[p].state # NoState THEN obs[p].state
                    ELSE IF saved[p] # NoState /\ saved[p].id = file[p].id THEN saved[p]
                    ELSE FreshState(file[p].id, file[p].mtime)
       IN  \/ /\ obs[p].state = NoState /\ found # saved[p] /\ ~CanStart(p)
              /\ UNCHANGED obs
           \/ /\ obs[p].state # NoState \/ found = saved[p] \/ CanStart(p)
              /\ obs' = [obs EXCEPT ![p].state = found, ![p].pc = "stat"]
    /\ Unseen

\* Codex keeps no modification time: it compares with one it has just read.
CursorOf(p) ==
    [id    |-> obs[p].state.id,
     lines |-> obs[p].state.lines,
     mtime |-> IF agent.runtime = "codex" THEN obs[p].mtime ELSE obs[p].state.mtime]

StatForCursor(p) ==
    /\ obs[p].pc = "stat"
    /\ obs' = [obs EXCEPT ![p].pc = "tail", ![p].mtime = file[p].mtime]
    /\ Unseen

\* readCompleteFileTail with the cursor.  A reset starts from a fresh state and
\* tails again without a cursor.
TailStat(p) ==
    /\ obs[p].pc = "tail"
    /\ LET stat == Stat(file[p])
       IN  IF ~Replaced(CursorOf(p), stat)
           THEN obs' = [obs EXCEPT ![p].pc = "read", ![p].stat = stat]
           ELSE IF CanStart(p)
           THEN obs' = [obs EXCEPT ![p].pc = "retail",
                                   ![p].state = FreshState(stat.id, stat.mtime)]
           ELSE GiveUp(p)
    /\ Unseen

TailAgain(p) ==
    /\ obs[p].pc = "retail"
    /\ obs' = [obs EXCEPT ![p].pc = "read", ![p].stat = Stat(file[p])]
    /\ Unseen

\* Mutant: the mapper's state is not part of what is committed.
TailReadForgetful(p) ==
    /\ obs[p].pc = "read"
    /\ LET first == obs[p].state.lines
           last  == LastLine(first, obs[p].stat, file[p])
       IN  \/ last = first /\ GiveUp(p)
           \/ /\ last > first
              /\ \E mapped \in {MapLines(p, obs[p].state.mapping, first, last)} :
                    obs' = [obs EXCEPT ![p] =
                       [Resting EXCEPT !.state = obs[p].state,
                                       !.todo = mapped.events,
                                       !.next = [id |-> obs[p].stat.id, lines |-> last,
                                                 mtime |-> obs[p].stat.mtime,
                                                 mapping |-> NoMapping(agent.runtime)],
                                       !.pc = IF mapped.events = <<>> THEN "save" ELSE "write"]]
    /\ Unseen

\* The complete lines are read and mapped.
TailRead(p) ==
    /\ obs[p].pc = "read"
    /\ LET first == obs[p].state.lines
           last  == LastLine(first, obs[p].stat, file[p])
       IN  \/ last = first /\ GiveUp(p)
           \/ /\ last > first
              /\ \E mapped \in {MapLines(p, obs[p].state.mapping, first, last)} :
                    obs' = [obs EXCEPT ![p] =
                       [Resting EXCEPT !.state = obs[p].state,
                                       !.todo = mapped.events,
                                       !.next = [id |-> obs[p].stat.id, lines |-> last,
                                                 mtime |-> obs[p].stat.mtime,
                                                 mapping |-> mapped.mapping],
                                       !.pc = IF mapped.events = <<>> THEN "save" ELSE "write"]]
    /\ Unseen

\* write throws when the queue is full.
WriteEvent(p) ==
    /\ obs[p].pc = "write"
    /\ IF Len(queue) >= agent.maxQueue
       THEN GiveUp(p) /\ UNCHANGED <<queue, stored>>
       ELSE /\ Sink!Write(Head(obs[p].todo))
            /\ obs' = [obs EXCEPT ![p].todo = Tail(@),
                                  ![p].pc = IF Len(obs[p].todo) = 1 THEN "wait" ELSE "write"]
    /\ UNCHANGED <<agent, file, saved, used>>

\* whenIdle resolves ...
Acknowledged(p) ==
    /\ obs[p].pc = "wait"
    /\ queue = <<>>
    /\ obs' = [obs EXCEPT ![p].pc = "save"]
    /\ Unseen

\* Mutant: the cursor is committed although the wait failed.
TimesOutCommitting(p) ==
    /\ obs[p].pc = "wait"
    /\ used.failures < MaxFailures
    /\ used' = [used EXCEPT !.failures = @ + 1]
    /\ obs' = [obs EXCEPT ![p].pc = "save"]
    /\ UNCHANGED <<agent, file, saved, queue, stored>>

\* ... or rejects.  What was written stays in the queue.
TimesOut(p) ==
    /\ obs[p].pc = "wait"
    /\ used.failures < MaxFailures
    /\ used' = [used EXCEPT !.failures = @ + 1]
    /\ GiveUp(p)
    /\ UNCHANGED <<agent, file, saved, queue, stored>>

\* saveState replaces the state file atomically; the state in memory follows.
SaveState(p) ==
    /\ obs[p].pc = "save"
    /\ saved' = [saved EXCEPT ![p] = obs[p].next]
    /\ obs' = [obs EXCEPT ![p] = [Resting EXCEPT !.state = obs[p].next]]
    /\ UNCHANGED <<agent, file, queue, stored, used>>

-----------------------------------------------------------------------------
(* The sink, the agents and the process.                                   *)
SinkStores == Sink!Store /\ UNCHANGED <<agent, file, obs, saved, used>>

SinkAcknowledges ==
    /\ \E n \in 1 .. Len(queue) : Sink!Acknowledge(n)
    /\ UNCHANGED <<agent, file, obs, saved, used>>

\* The process that runs all observers and their sink is restarted.
Crash ==
    /\ used.failures < MaxFailures
    /\ used' = [used EXCEPT !.failures = @ + 1]
    /\ obs' = [p \in Paths |-> Resting]
    /\ queue' = <<>>
    /\ UNCHANGED <<agent, file, saved, stored>>

Edit(p, new) ==
    /\ used.edits < agent.maxEdits
    /\ used' = [used EXCEPT !.edits = @ + 1]
    /\ \E tick \in {0, 1} : file' = [file EXCEPT ![p] = [new EXCEPT !.mtime = @ + tick]]
    /\ UNCHANGED <<agent, obs, saved, queue, stored>>

\* The agent writes a line, or a part of it.
AppendLine(p) ==
    /\ file[p].n < Len(agent.log[p])
    /\ \/ Edit(p, [file[p] EXCEPT !.n = @ + 1, !.partial = FALSE])
       \/ ~file[p].partial /\ Edit(p, [file[p] EXCEPT !.partial = TRUE])

\* A transcript with lines is cut back, or replaced by a copy of a part of it.
Rewrite(p) ==
    \E m \in 0 .. file[p].n, id \in {file[p].id, file[p].id + 1} :
       /\ file[p].n > 0
       /\ m < file[p].n \/ id # file[p].id
       /\ Edit(p, [file[p] EXCEPT !.n = m, !.partial = FALSE, !.id = id])

Scan(p) == \/ EnsureState(p) \/ StatForCursor(p) \/ TailStat(p) \/ TailAgain(p)
           \/ TailRead(p) \/ WriteEvent(p) \/ SaveState(p)
Next == \/ \E p \in Paths : Scan(p) \/ Acknowledged(p) \/ TimesOut(p) \/ AppendLine(p) \/ Rewrite(p)
        \/ SinkStores \/ SinkAcknowledges \/ Crash

Spec == Init /\ [][Next]_vars

\* The timer starts scans for ever and every await but the last returns; the
\* sink delivers (NdjsonSink's Delivers), and a wait does not lose to its
\* timeout every time.  Nothing makes the agents write.
FairSpec == /\ Spec
            /\ \A p \in UNION {DOMAIN g.log : g \in Agents} :
                  WF_vars(p \in Paths /\ Scan(p)) /\ SF_vars(p \in Paths /\ Acknowledged(p))
            /\ WF_vars(SinkStores) /\ WF_vars(SinkAcknowledges)
-----------------------------------------------------------------------------
\* "commits its byte cursor only after ACK": a committed cursor never passes an
\* event that is not durable, so that a restart loses none, whatever was
\* truncated, replaced, timed out or crashed.
CursorBehindStored ==
    \A p \in Paths : saved[p] # NoState =>
       \A e \in ToSet(AllEvents(p)) : e.line <= saved[p].lines => e \in stored

\* Lines that are read again, after a timeout, a crash or a rewrite, give the
\* events they gave before: the server sees duplicates and never a conflict.
RereadGivesTheSame ==
    \A e \in ToSet(queue) \cup stored : e.path \in Paths /\ e \in ToSet(AllEvents(e.path))

\* Every complete line of a transcript reaches the database.
EveryLineArrives ==
    []<>(\A p \in Paths : \A e \in ToSet(AllEvents(p)) : e.line > file[p].n \/ e \in stored)
=============================================================================
