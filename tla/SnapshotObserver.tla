-------------------------- MODULE SnapshotObserver ---------------------------
(***************************************************************************)
(* The passive observers that map a session file as a whole and remember   *)
(* which events they have sent: PiPassiveObserver, whose files are         *)
(* branching session logs read through a cache of parsed lines, and        *)
(* DshPersistenceObserver, whose files are compressed and read at once.    *)
(*                                                                         *)
(* A scan compares the file's stat with the one of the last commit, loads  *)
(* and maps the file, writes the events not sent before, waits until the   *)
(* sink is idle and commits the stat together with the ids.  From the last *)
(* write on the commit is pending, and a scan that finds one only waits    *)
(* and commits.  Every await in a scan is a step.                          *)
(*                                                                         *)
(*   runtime  which of the two observers this is                           *)
(*   file     the session file                                             *)
(*   obs      the place the scan has reached, the state in memory and the  *)
(*            pending one, Pi's cache cursor, the stat results,            *)
(*            the events still to write and what to commit after them      *)
(*   saved    the state file                                               *)
(*   queue, stored   the sink, as AckedSink promises it                    *)
(*   used     edits, crashes and failures so far                           *)
(*                                                                         *)
(* Bounds: MaxEdits, MaxCrashes, MaxFailures.                              *)
(***************************************************************************)
EXTENDS FileTail, SequencesExt

CONSTANTS Runtimes,            \* the observers to check: "pi", "dsh"
          Log,                 \* per runtime the records of the file, in order
          Existing,            \* the records there before the observer starts
          Mapped(_, _, _),     \* runtime, log, n: the events of the first n records
          Broken(_, _, _),     \* runtime, log, n: whether they stop the observer
          NoState,             \* no state in memory, or no state file
          MaxQueue,
          MaxEdits, MaxCrashes, MaxFailures

ASSUME SnapshotAssumption ==
    /\ Runtimes \subseteq {"pi", "dsh"}
    /\ \A r \in Runtimes : Existing \in 0 .. Len(Log[r])
    /\ MaxLines \in Nat \ {0} /\ MaxQueue \in Nat
    /\ MaxEdits \in Nat /\ MaxCrashes \in Nat /\ MaxFailures \in Nat

\* A session file is a sequence of records, and a mapper returns a list of events.
IsList(s) == s \in Seq(ToSet(s))
ASSUME ListAssumption ==
    \A r \in Runtimes : /\ IsList(Log[r])
                        /\ \A n \in 1 .. Len(Log[r]) : IsList(Mapped(r, Log[r], n))

VARIABLES runtime, file, obs, saved, queue, stored, used
vars == <<runtime, file, obs, saved, queue, stored, used>>

\* What the file maps to when it has its first n records.
Contents == [r \in Runtimes |-> [n \in 0 .. Len(Log[r]) |->
                IF n = 0 THEN <<>> ELSE Mapped(r, Log[r], n)]]
EventsOf(n) == Contents[runtime][n]
Events == UNION {UNION {ToSet(Contents[r][n]) : n \in 0 .. Len(Log[r])} : r \in Runtimes}

Ids(events) == {e.id : e \in events}
ContentIds == [r \in Runtimes |-> [n \in 0 .. Len(Log[r]) |-> Ids(ToSet(Contents[r][n]))]]
FileIds(n) == ContentIds[runtime][n]

\* The server refuses an event that it has with another body.
Refuses(s, e) == \E f \in s : f.id = e.id /\ f.body # e.body
Sink == INSTANCE AckedSink

NoFile == [id |-> 0, size |-> 0, mtime |-> -1]
Resting == [pc |-> "idle", state |-> NoState, pending |-> NoState,
            cache |-> [id |-> 0, lines |-> 0, mtime |-> 0],
            snapshot |-> NoFile, stat |-> NoFile, todo |-> <<>>, next |-> NoState]

Init == /\ runtime \in Runtimes
        /\ file = [id |-> 0, n |-> Existing, partial |-> FALSE, mtime |-> 0]
        /\ obs = Resting
        /\ saved = NoState
        /\ Sink!Init
        /\ used = [edits |-> 0, crashes |-> 0, failures |-> 0]

-----------------------------------------------------------------------------
(* One scan.                                                               *)

\* The scan is over, or has thrown: memory keeps the state, a pending commit and
\* the cache.
Ended(o) == [Resting EXCEPT !.state = o.state, !.pending = o.pending, !.cache = o.cache]
Unseen == UNCHANGED <<runtime, file, saved, queue, stored, used>>

\* Mutant: a pending commit is taken for acknowledged.
BeginScanHasty ==
    /\ obs.pc = "idle"
    /\ obs' = [obs EXCEPT !.pc =
                 IF obs.pending # NoState THEN "save"
                 ELSE IF runtime = "pi" /\ obs.state = NoState THEN "load" ELSE "stat"]
    /\ Unseen

\* A pending commit comes first.  Pi makes sure of its state before it looks at
\* the file, DSH afterwards.
BeginScan ==
    /\ obs.pc = "idle"
    /\ obs' = [obs EXCEPT !.pc =
                 IF obs.pending # NoState THEN "wait"
                 ELSE IF runtime = "pi" /\ obs.state = NoState THEN "load" ELSE "stat"]
    /\ Unseen

\* Mutant: an append within the resolution of the clock goes unnoticed.
SameSnapshotByTime(s, t) == s.id = t.id /\ s.mtime = t.mtime
SameSnapshot(s, t) == s.id = t.id /\ s.size = t.size /\ s.mtime = t.mtime

\* What follows when both the snapshot and the state are there.
Compared(o) == IF SameSnapshot(o.snapshot, o.state.file) THEN Ended(o) ELSE [o EXCEPT !.pc = "load"]

TakeSnapshot ==
    /\ obs.pc = "stat"
    /\ LET o == [obs EXCEPT !.snapshot = Stat(file), !.pc = "load"]
       IN  obs' = IF o.state = NoState THEN o ELSE Compared(o)
    /\ Unseen

\* The events that the state does not count as sent, in their order.
Candidates(state, n) ==
    LET events == EventsOf(n)
        unsent[i \in 0 .. Len(events)] ==
            IF i = 0 THEN <<>>
            ELSE IF events[i].id \in state.ids THEN unsent[i - 1]
            ELSE Append(unsent[i - 1], events[i])
    IN  unsent[Len(events)]

\* Mutant: the stat is taken after the file is read.
LoadedLate(o, n) ==
    IF n = 0 THEN Ended(o)
    ELSE IF o.state = NoState THEN [o EXCEPT !.pc = "identify"]
    ELSE IF Broken(runtime, Log[runtime], n) THEN Ended(o)
    ELSE LET todo == Candidates(o.state, n)
             next == [file |-> Stat(file), ids |-> o.state.ids \cup Ids(ToSet(todo))]
         IN  IF todo = <<>> THEN [o EXCEPT !.pending = next, !.pc = "save"]
             ELSE [o EXCEPT !.todo = todo, !.next = next, !.pc = "write"]

\* The file is loaded up to line n: to learn which session it is, or to be
\* mapped.  Without a header, or with errors, the scan throws.
Loaded(o, n) ==
    IF n = 0 THEN Ended(o)
    ELSE IF o.state = NoState THEN [o EXCEPT !.pc = "identify"]
    ELSE IF Broken(runtime, Log[runtime], n) THEN Ended(o)
    ELSE LET todo == Candidates(o.state, n)
             next == [file |-> o.snapshot, ids |-> o.state.ids \cup Ids(ToSet(todo))]
         IN  IF todo = <<>> THEN [o EXCEPT !.pending = next, !.pc = "save"]
             ELSE [o EXCEPT !.todo = todo, !.next = next, !.pc = "write"]

\* PiIncrementalSessionCache.load tails the file until nothing is left.
CacheStat ==
    /\ obs.pc = "load" /\ runtime = "pi"
    /\ obs' = [obs EXCEPT !.pc = "read", !.stat = Stat(file)]
    /\ Unseen

CacheRead ==
    /\ obs.pc = "read"
    /\ LET first == IF Replaced(obs.cache, obs.stat) THEN 0 ELSE obs.cache.lines
           last == LastLine(first, obs.stat, file)
           o == [obs EXCEPT !.cache = [id |-> obs.stat.id, lines |-> last, mtime |-> obs.stat.mtime]]
       IN  obs' = IF last > first /\ 2 * last < obs.stat.size THEN [o EXCEPT !.pc = "load"]
                  ELSE Loaded(o, last)
    /\ Unseen

\* loadDshPersistence.  A file that ends inside a frame does not decompress; a
\* frame may also end inside a line, which is then reported and left out.
LoadWhole ==
    /\ obs.pc = "load" /\ runtime = "dsh"
    /\ \/ obs' = Loaded(obs, file.n)
       \/ file.partial /\ obs' = Ended(obs)
    /\ Unseen

\* ensureState: the state file, else a fresh state.
EnsureState ==
    /\ obs.pc = "identify"
    /\ LET o == [obs EXCEPT !.state = IF saved # NoState THEN saved ELSE [file |-> NoFile, ids |-> {}]]
       IN  obs' = IF runtime = "pi" THEN [o EXCEPT !.pc = "stat"] ELSE Compared(o)
    /\ Unseen

\* write throws when the queue is full.  The last one makes the commit pending.
WriteEvent ==
    /\ obs.pc = "write"
    /\ IF Len(queue) >= MaxQueue
       THEN obs' = Ended(obs) /\ UNCHANGED <<queue, stored>>
       ELSE /\ Sink!Write(Head(obs.todo))
            /\ obs' = IF Len(obs.todo) > 1 THEN [obs EXCEPT !.todo = Tail(@)]
                      ELSE [obs EXCEPT !.todo = <<>>, !.pending = obs.next, !.pc = "wait"]
    /\ UNCHANGED <<runtime, file, saved, used>>

\* whenIdle resolves ...
Acknowledged ==
    /\ obs.pc = "wait" /\ queue = <<>>
    /\ obs' = [obs EXCEPT !.pc = "save"]
    /\ Unseen

\* ... or rejects, or the state cannot be saved.  Waiting for a sink that stands
\* before a refused event always ends so, and is no failure that is counted.
Stuck == queue # <<>> /\ Refuses(stored, Head(queue))
WaitOrSaveFails ==
    /\ \/ obs.pc = "wait" /\ Stuck /\ UNCHANGED used
       \/ /\ obs.pc \in {"wait", "save"}
          /\ used.failures < MaxFailures
          /\ used' = [used EXCEPT !.failures = @ + 1]
    /\ obs' = Ended(obs)
    /\ UNCHANGED <<runtime, file, saved, queue, stored>>

\* saveState replaces the state file atomically; the state in memory follows.
SaveState ==
    /\ obs.pc = "save"
    /\ saved' = obs.pending
    /\ obs' = [Ended(obs) EXCEPT !.state = obs.pending, !.pending = NoState]
    /\ UNCHANGED <<runtime, file, queue, stored, used>>

-----------------------------------------------------------------------------
(* The sink, the agent and the process.                                    *)
SinkStores == Sink!Store /\ UNCHANGED <<runtime, file, obs, saved, used>>

SinkAcknowledges ==
    /\ \E n \in 1 .. Len(queue) : Sink!Acknowledge(n)
    /\ UNCHANGED <<runtime, file, obs, saved, used>>

Crash ==
    /\ used.crashes < MaxCrashes
    /\ used' = [used EXCEPT !.crashes = @ + 1]
    /\ obs' = Resting
    /\ queue' = <<>>
    /\ UNCHANGED <<runtime, file, saved, stored>>

Edit(new, tick) ==
    /\ used.edits < MaxEdits
    /\ used' = [used EXCEPT !.edits = @ + 1]
    /\ file' = [new EXCEPT !.mtime = @ + tick]
    /\ UNCHANGED <<runtime, obs, saved, queue, stored>>

\* The agent appends a record, or a part of it; the modification time may stay.
AppendRecord ==
    /\ file.n < Len(Log[runtime])
    /\ \E tick \in {0, 1} :
          \/ Edit([file EXCEPT !.n = @ + 1, !.partial = FALSE], tick)
          \/ ~file.partial /\ Edit([file EXCEPT !.partial = TRUE], tick)

\* The file is cut back or replaced by a copy of a part of it, at another time.
Rewrite ==
    \E m \in 0 .. file.n, id \in {file.id, file.id + 1} :
       /\ file.n > 0
       /\ m < file.n \/ id # file.id
       /\ Edit([file EXCEPT !.n = m, !.partial = FALSE, !.id = id], 1)

Scan == \/ BeginScan \/ TakeSnapshot \/ CacheStat \/ CacheRead \/ LoadWhole
        \/ EnsureState \/ WriteEvent \/ SaveState
Next == \/ Scan \/ Acknowledged \/ WaitOrSaveFails
        \/ SinkStores \/ SinkAcknowledges \/ Crash \/ AppendRecord \/ Rewrite

Spec == Init /\ [][Next]_vars

\* As in TailObserver.
FairSpec == /\ Spec
            /\ WF_vars(Scan) /\ SF_vars(Acknowledged)
            /\ WF_vars(SinkStores) /\ WF_vars(SinkAcknowledges)
-----------------------------------------------------------------------------
\* "ACK-gated cursor commits": an event that the state file counts as sent is
\* durable, whatever failed, crashed or was rewritten.
CommittedIsStored == saved # NoState => saved.ids \subseteq Ids(stored)

\* A file that looks as it did at the last commit is skipped: nothing that its
\* records map to may be missing then, although the file goes on changing
\* between the stat, the reads and the commit.
SkippedIsSent ==
    saved # NoState /\ saved.file = Stat(file) => FileIds(file.n) \subseteq saved.ids

\* The events of a session's active branch reach the database, unless the sink
\* stands before one that the server refuses, they are more than the queue holds,
\* or a Harness file never again ends with a whole frame.
EverythingArrives ==
    []<>( \/ FileIds(file.n) \subseteq Ids(stored)
          \/ Stuck
          \/ Len(EventsOf(file.n)) > MaxQueue
          \/ runtime = "dsh" /\ file.partial )
=============================================================================
