# Orchetrace in TLA+

Orchetrace records what coding agents do.  Adapters watch the agents (Codex,
Claude, Pi, DSH, Antigravity), turn what they see into *canonical events* and
send them over TCP to a local server.  The server keeps the events in SQLite,
groups sessions into *Runs* (a root session and everything it spawned), folds
every Run into a graph, and publishes the Runs as JSON files and live messages
that a web page, a terminal client and a desktop app show.

This directory specifies the parts of that system whose correctness depends on
order, concurrency and failure, checks them with TLC on small instances and
proves the central results with TLAPS.  Source paths are relative to the
repository; line numbers are in `PROJECT.json` under `map`.

## 1. The system

| component | state | operations | hard behaviour |
|---|---|---|---|
| ingest store (`crates/ingest`) | accepted events; Runs; parent and root of every session; pending count per source | `ingest`, `delete_session_tree`, rebuild, restore from a checkpoint | sessions arrive in any order; an event may join two Runs, close a cycle or contradict a lineage; the Runs are maintained incrementally |
| ingest server (`crates/cli/src/main.rs`) | the store under one mutex; data directory; optional NDJSON mirror; client threads | start-up, event, rename, delete, shutdown | durable steps with crashes between them, failing steps, answers after the mutex is released |
| event storage (`crates/storage`) | SQLite: events, checkpoint rows, catalog row | insert, delete, save and load checkpoint, scrub, retention, repair, diagnose | when a checkpoint may be trusted |
| adapter transport (`packages/adapter-runtime/src/ndjson-sink.ts`) | queue, in-flight window, socket, timers, idle waiters | `write`, `whenIdle`, `close`, socket callbacks | replay after reconnects, back-pressure, `whenIdle` racing a closing socket |
| file tail and adapter SDK (`packages/adapter-runtime`) | per-file cursor | poll, commit | files that grow, shrink or are replaced while they are read |
| passive observers (`packages/*-adapter`, `dsh-observer`) | cursor or snapshot in a state file, mapper state | scan, map, write, commit | crash between sending and committing a cursor; files that change during a scan |
| Harness plugin (`packages/dsh-observer/src/observer.ts`) | cursor per session, pending facts, two promise chains | start, receive, deliver, stop | facts heard while history is adopted |
| live bridges (Pi, Claude) | sockets, generations, pending commits | connect, forward, commit | generations of a live bridge |
| run fold (`crates/core`) | a Run's graph, metrics and timeline | fold, delta | independence of arrival order; events out of causal order; sums that saturate |
| live hub (`crates/cli/src/live.rs`) | subscriber channels | subscribe, broadcast | a change between "ready" and subscribing |
| web client (`apps/web`) | catalog, selected Run, refresh and reconnect timers | refresh, delta, select, time travel | overlapping refreshes, stale deltas |
| terminal client (`crates/cli/src/bin/orche.rs`) | catalog, shown Run, timeline, cursor, dialogs | reload, page, select, scrub, play, rename, delete | files that are rewritten between two reads; reloads while a dialog is open |
| managed observers (`crates/cli/src/bin/orche_managed.rs`) | the server and watchers that `orche` started | start, probe, control requests, end | a server of the desktop's in the way; children that exit |
| desktop supervision (`apps/desktop/src-tauri`) | managed child processes under mutexes | start, stop, refresh, repair | stop, start, repair and exit racing |
| protocol and privacy (`crates/protocol`) | none | validate, redact, fingerprint | the filter is applied again to what it has filtered |

How they interact.  An adapter reads records, maps them, calls `write` on its
`NdjsonTcpSink`, waits in `whenIdle` and only then commits its cursor.  The sink
sends frames and drops an event from its queue when the server acknowledges it.
A server thread per client parses a frame, takes the state mutex, runs
`IngestStore::ingest`, inserts into SQLite, appends to the mirror, saves the
checkpoint, replaces the Runs' files, commits by replacing the catalog,
broadcasts to the hub, releases the mutex and acknowledges.  Readers load files
without a lock, in the order catalog, snapshot or delta.

What must hold of each part:

* ingest store: the incremental projection equals a rebuild; what was accepted
  can be loaded again; every change is reported; deletes leave no orphan.
* server: an acknowledged event is durable; a confirmed delete stays; memory,
  database, checkpoint, files and mirror agree when no request is in progress;
  the catalog never announces what is not there; a restart repairs.
* transport: nothing dropped, reordered or declared idle before it is durable;
  everything written is delivered in the end.
* passive observers: what is committed as sent is durable, what is durable and
  committed is not sent again, and every record arrives.
* Harness plugin: no record of a session is missed or left out between two
  others, and the last status sent is the agent's.
* run fold: the published deltas give a reader the folded snapshot; what is
  folded is what a restart accepts; usage adds up over the tree.
* maintenance: a server has and writes nothing that its privacy policy forbids; a
  database that doctor calls healthy is; retention and deletion remove whole Runs.
* clients: what is shown is a state that was published, a pinned Run stays, and
  the last published state is shown in the end.
* supervision: no child is left without an owner, no repair runs beside a server of
  the desktop, and every command ends.

`PROJECT.json` lists the hazards behind these claims, each at its line.

## 2. The modules

| module | models | role |
|---|---|---|
| `Lineage` | the pure functions of the ingest store: `build_source_partition`, `resolve_root`, delete's closure | operators over sets of events, no state |
| `IngestStore` | the store record and what each method computes from it | operators |
| `Ingest` | the store as a state machine, one action per outcome of a call | checked, proved |
| `CatalogLog` | what the store promises: a log of events and the catalog of its content | abstract specification, implemented by `Ingest` |
| `Server` | start-up and the three handlers around memory, SQLite, files and mirror; crashes and faults | checked, proved |
| `AckedSink` | what the transport promises to its writers | abstract specification, implemented by `NdjsonSink` |
| `NdjsonSink` | the transport with connections and a server that answers in order | checked, proved |
| `FileTail` | `readCompleteFileTail`: when a file counts as replaced, what a read returns | operators |
| `TailObserver` | what the Codex and Antigravity passive observers share, over `FileTail` and `AckedSink`, with their state files | checked, proved |
| `TranscriptObservers` | `TailObserver` with the two mappers and Antigravity's mapper state | checked, proved |
| `SnapshotObserver` | the Pi and Harness passive observers, which map the file as a whole and remember the ids they have sent | checked, proved |
| `DshObserver` | the plugin inside the Harness: start-up, pending facts, delivery, over `AckedSink` | checked, proved |
| `CodexMapper`, `AntigravityMapper` | record to events; Antigravity's pending calls and open activation | operators |
| `PiMapper`, `DshMapper` | session to events: Pi's active branch and context; the Harness's records and announcements | operators |
| `RunFold` | `fold_events`: the snapshot of a Run as a function of its events | operators |
| `RunFeed` | `Ingest` with the snapshots and deltas it publishes and a reader that applies them as `run-delta.js` does | checked, proved |
| `Maintenance` | the database across runs of the server and the offline commands: privacy filter, scrub, mirror import, retention, checkpoint, doctor, repair | checked, proved |
| `Terminal` | the terminal client, and the server's rewriting of the files it reads | checked, proved |
| `Supervisor` | the desktop shell's and the terminal client's child processes | checked, proved |
| `IngestLemmas` | lemmas about `Lineage` and `IngestStore`, which the proofs of the store, the server and maintenance use | proofs |
| `IngestProofs`, `ServerProofs`, `SinkProofs`, `TailProofs`, `SnapshotProofs`, `MaintenanceProofs`, `SupervisorProofs` | theorems about the module of that name and the lemmas they rest on; `IngestProofs` is also about `RunFeed`, `TailProofs` about `TranscriptObservers`, the second part of `SinkProofs` about `DshObserver` and that of `SupervisorProofs` about `Terminal` (so their specifications are called `PluginSpec` and `ClientSpec`) | proofs |
| `MCIngest`, `MCServer`, `MCNdjsonSink`, `MCTailObserver`, `MCSnapshotObserver`, `MCDshObserver`, `MCRunFeed`, `MCMaintenance`, `MCTerminal`, `MCSupervisor` | instances | TLC |

How they build on one another: `IngestStore` extends `Lineage`; `Ingest`,
`Server` and `Maintenance` extend `IngestStore` in three directions (the store
alone, with its durable steps, with what happens to the database between
servers).  `RunFeed` composes `Ingest` with `RunFold`.  The observers stand on
`AckedSink`, which `NdjsonSink` implements.

### Ingest

A canonical event is a record of its id, source, session, optional parent
session and a *content*; `Valid` and `Folds` say which contents `validate` and
the fold accept.  The record `store` has the fields of `IngestStore`: `events`,
`runs` (each Run is the set of its events, which is what the fold is a function
of), `parents`, `roots` and `pending`.  `Ingest` has one action per way a call
can end: `Reject`, `Duplicate`, `Accept` (insert, then either
`rebuild_session_run` or `repartition_source`, then run deltas) and
`DeleteSessionTree`.  Iteration of parents and of delete's closure is written as
a bounded iteration over sets, never as a RECURSIVE operator, because the
modules are proved about.

### Server

`pc` is the place which the holder of the state mutex has reached, so
`pc = "idle"` means that nobody holds it.  Each durable effect is one action in
the code's order: `TakeEvent` or `RenameSession` or `DeleteSession` (memory),
`InsertDurably` (SQLite), `AppendMirror`, `SaveCheckpoint`, `WriteRun`,
`WriteDelta`, `WriteCatalog`, `RemoveRun`, and then `AnswerEvent` or
`RewriteMirror`.  The client is told in the step that releases the mutex, although
the code writes the frame after it: what a client may believe is what the server
could have answered, so `reply` holds the answers that were due, and an answer
that is lost or read late adds nothing.  `Crash` may come anywhere, loses memory
and can tear the mirror's last line; `Fault` is a step that returns an error,
after which the handler drops the connection and leaves everything as it is.
Start-up imports the mirror, rewrites it, restores the checkpoint when
`Restorable` holds and the catalog matches, or folds all events, saves, publishes
and prunes.

`reply` is a history: `acked`, the acknowledged events that have not been deleted
since, and `deleted`, the events of confirmed deletes that were not sent again.

### NdjsonSink

Node runs one callback at a time, so a callback is an action.  `wires` holds all
connections made so far; the server may still read one that the sink has given
up, which is how a replay and the original can both be on their way.  `Flush`
chooses nondeterministically after which frame the socket reports back-pressure.
The back-off delay is left out: the reconnect timer fires at any time.

### TailObserver and the mappers

The observers stand on the transport's promise (`AckedSink`) instead of its
detail: `NdjsonSink` is shown to implement it.  `obs[p].pc` is the await a scan
has reached; every await is a step, and the transcript is edited, the sink
stores and acknowledges, and the process restarts between any two of them.
Codex and Antigravity differ in three places, which `agent.runtime` selects: Codex
keeps no modification time and compares the one it has just read with another
`stat` (`StatForCursor`, `CursorOf`), it needs the header record to start
(`CanStart`), and it has no mapper state.  Anything that throws ends the scan
(`GiveUp`) with the state in memory unchanged; the next scan starts from it.

A transcript is the first `n` records of its path's log and maybe a part of the
next.  The agent appends, cuts back or replaces it, and a write need not change
the modification time.  One assumption is named here because a property rests
on it: a rewritten transcript holds the same records on the same lines (a copy
or a truncation, not another session).  Without it event ids clash and the
server refuses the events (hazard at `codex-adapter/src/mapper.ts:226`).

A record of a transcript is what the mapper looks at: its type, its status and
whether it has content.  Antigravity's `step_index` is taken to be the line, as
it is in the transcripts of the tests.

### SnapshotObserver

The two observers differ in where they look first (Pi at its state, the Harness
observer at the file's `stat`: `BeginScan`, `EnsureState`) and in how they load:
Pi's cache tails the file with `FileTail` until nothing is left (`CacheStat`,
`CacheRead`), the other decompresses it at once (`LoadWhole`), which fails on an
unfinished frame or finds an unfinished line.  From the last `write` on the
commit is pending and survives a timeout; a scan that finds one does nothing
else.  `Contents` is what the file maps to for every length, so that bodies that
change while the file grows (Pi's leaf and context, a late descriptor) are in
the model, and with them the events that the server refuses.

### DshObserver

Start-up and live delivery are two chains of promises that interleave at every
await.  Both are lists of operations in the state (`plug.boot`, `plug.work`):
an operation is what the code does up to an await, `Does` gives the operations
that replace it and `Changes` what it changes.  So the model can also say what a
throw leaves undone (`Caught`): an event of a session blocks the session, an
announcement ends the chain or the adoption of the persisted session it is part
of.  The sink accepts or throws at once, so the awaits of `write` let other
promises run but no I/O: the sink hears from the server when both chains rest or
start-up waits for the persistence (`Resting`).  The Harness creates and resumes
sessions, appends records and changes agents at any step.  Of the persistence it
is assumed that `readFrom` returns at least the records from before the session
was opened, and the seed of a new one whole.

### RunFold and RunFeed

`RunFold` is `fold_events` over records that hold what the fold reads; times,
sessions and ids are numbers in the order of the code's strings.  Its loops are
recursive functions over places: `after[i]` in `Accumulated` is what the loop over
the ordered events holds after the first `i`, `walk[i]` in `DepthOf` the way up
after `i` parents, `done[i]` in `PopulateSubtree` the agents after the last `i`
have added their usage to their parents'.  Sums saturate at
`MaxTokens` as `u64::saturating_add` does at its limit, and what an event lacks
is `None`.  `RunFeed` is `Ingest` with this content: after each call the reader's
`view` is what `applyRunSnapshotDelta` of the web client makes of the delta, or
the snapshot where there is no delta or it does not apply.  An `Option` of a delta
is the set of its value.  Its events are the
ones that make the order matter: a child whose events carry earlier times than
its root's, an event that names no parent, a tool's start that is later than its
finish, equal times and priorities, counters at the limit.

### Maintenance

`proc.pc` is the place of the one process that works on the database: a starting
server (scrub, import, retain, align, load, save, publish), a serving one, or a
command.  Each SQLite transaction and each writing of the files is an action, and
`Stop` may come between any two.  A command needs the server to be stopped, which
is how the program is meant to be used; the database would also admit both.  The
privacy filter is applied field by field as `sanitize_event` does, with its marks,
so that filtering twice is a case of the model and not an identity.  A running
server takes an event in one step here; `Server` has the parts.

`files` has the snapshots, the catalog and the delta files.  Start-up and commands
publish every Run without a delta (`main.rs:518`, `1279`), and the pruning that
follows takes away only the deltas of Runs that are no longer listed (`Listed`);
so a delta stays as the last event of its Run left it.  A delta is kept as the two
revisions between which it leads.  The field `by`, the start of the server that
wrote it, is history: it tells the properties which deltas a running server
answers for.

### Terminal

Every file read of the client and every file write of the server is a step.  A
Run's revision is the set of the times of its events; a snapshot of more than a
page holds only an overview and is completed from the pages.  `app` has the fields
of `App` that decide what is read and shown; `app.op` is what the reads are for.

A deleted Run may be published again with fewer events, as `README.md:176` expects
of a Runtime that keeps writing: nothing in the server remembers a deletion.
Three history fields tell the properties what happened: `past.lives` counts how
often a Run's files were removed, the `life` of a catalog entry is that count when
the entry was written, and `app.failed` says that the client has reported an error
and has read no snapshot since.  No guard of the model reads them.

Two limits.  `orche` decides by `event_count` and `last_activity_at` alone whether
the screen is out of date (`orche.rs:691`), so it keeps an older screen when a
newer revision, or after an error another Run's, agrees in both.  In the instance
no two different revisions do, and `CatchesUp` rests on that.  And Runs do not
join: a delete is of a Run's root session, which is what the repository's clients
ask for (`orche_managed.rs:210`, `desktop-bridge.js:75`); joins and the Runs they
remove are in `Ingest` and `Server`.

### Supervisor

The desktop runs its commands one after the other on its main thread (`desk.pc`)
and a repair on a thread of its own; the maintenance mutex is `desk.guard`.  The
server's way from booting over bound to up, draining and dead is its own process,
and so is every watcher; any of them exits at any step.  `orche` starts once,
probes the port, starts a server if nobody answers, attaches watchers and ends.
`MaxServes` bounds the servers that are started: beyond it the executable counts
as missing.  The shell itself does not die, and killing a child does not fail.

## 3. What the runs check

| run | question | bounds |
|---|---|---|
| `ingest` | Is the incremental store a rebuild, in every order of arrival, repetition and delete? Does it implement `CatalogLog`? | three sessions with every parent of each (all trees, cycles, conflicts), a second source, one unfoldable, one invalid and one altered event |
| `server` | Does everything survive a crash between any two steps and any one failing step, with a join of two Runs, a rename, deletes and an event that SQLite refuses?  Do memory, database, checkpoint, files and mirror agree between requests, or after a restart at the latest? | one source, two sessions that join, 5 offered events and a rename, 1 crash, 1 fault |
| `sink` | Are events lost, reordered or reported idle too early?  Is what was written stored in the end? | 3 events of which one is refused, 3 writes, window of 2, 2 connections |
| `tail_observers` | Does a cursor ever pass an event that is not durable; does a line give the same events however often, and in however many pieces, it is read; are the calls that wait those without a result; does every complete line arrive? | two Codex rollouts of 2 records on one sink, and five Antigravity transcripts of 2 or 3 records; 2 or 3 edits, queues of 5 to 22, 1 timeout or restart |
| `snapshot_observer` | Is what the state file counts as sent durable, is a file only skipped when all of it was sent, does the active branch arrive? | a Pi session of 4 records with a branch and a compaction, a Harness session of 4 with a late descriptor; 2 edits, a queue of 4, 1 crash, 1 failed wait or save |
| `dsh_observer` | Is any record missed or left out while history is adopted, and is the last status sent the agent's? | a persisted root with a record that cannot be mapped, a child with a seed; 3 facts, a queue of 2, 1 restart, 1 session that cannot be read |
| `run_feed` | Do the deltas give a reader the folded snapshot?  Is the fold's root the store's, so that a checkpoint can be restored?  Does usage add up, does a finished call stay finished? | a root, its child and the child's child, 9 events in every order, with deletes |
| `maintenance` | Does a server store, hold or write anything that its policy forbids?  Is doctor right?  Do retention and deletion leave orphans or take too much? | 4 sessions of one event each in two trees, 2 policies, 3 retentions, 2 servers and 1 command, each interrupted anywhere |
| `terminal` | Does the screen show the selected Run, at a revision that the catalog announced?  Does a pinned Run stay?  Is the last revision shown in the end? | 2 Runs of 3 and 2 revisions, pages of 2 entries, 3 publications (of a deleted Run too), 1 key or dialog |
| `supervisor` | Is a child left without an owner?  Does a repair run beside a server of the desktop?  Do watchers hold the token of their server until one exits by itself?  Does every command end? | 1 watcher, 3 servers, any number of commands, of exits and of repairs |
| `terminal_delete`, `maintenance_restart` | see findings | as `terminal`; one event, 2 servers |

Why these bounds are enough.  *Ingest*: a lineage conflict needs one session
with two parents, a cycle that is not a self-loop two sessions, and a subtree
that moves with its root three; a second source only has to share a session id.
*Server*: two Runs that become one are the smallest case in which a request
updates one Run and removes another, and one crash exposes every intermediate
state to start-up; after a start-up nothing is left of an earlier crash but the
files, the database and the mirror, which the next crash sees as well.
*Sink*: with a window of 2 and three writes the queue is longer than the window;
a second connection replays what the server may still read from the first.
*Observers*: two rollouts are enough to fill the queue for one another and to
make an idle sink mean more than the observer's own events, and an edit can come
at every step of a scan already with the first.  Two calls of one tool and their
results fit in three records; so do an edit and another call with two results,
an unfinished activation and a spawn.  *Snapshot*: one edit during a scan and one
after it separate the stat, the load and the commit in every way.  *Plugin*: of
three facts one can be heard before the adoption of its session, one while it is
adopted and one after it, and two events of the child fill the queue.
*Run feed*: depth two is the least at which an agent changes only through its
grandchild's usage, and every event is at some time the first, the last and in
the middle.  *Maintenance*: a second server sees all that the first, a crash and a
command left; a second tree older than the first one's youngest session tells
groups from sessions.  *Terminal*: a Run that grows over the size of a page while
it is read, a second one that arrives, and one key in every place between.
*Supervisor*: a third server is the first that is started while traces of two
others remain.

Deadlock is checked in all runs but `dsh_observer`, which rests when the Harness
has spent its facts.

Properties that hold only while nothing failed say so in their own text:
`IdleAgrees` and `CatalogCommits` speak of a server without a fault so far, and
with `RestartRepairs` of one that never failed to insert an event it holds in
memory (`InStep`).  `Delivers` excepts the events behind a refused one, which the
sink sends for ever (hazard at `mapper.ts:31`), and `EverythingArrives` a sink in
that state, a session of more new events than the queue holds, and a Harness file
that ends in the middle of a frame.  `NothingMissed` and `StatusIsCurrent` speak
of a plugin that lost nothing to a full queue.  `StatusIsCurrent` also excepts the
runs in which a fact is heard while start-up delivers the pending ones:
`bootstrapping` is already false then, the fact is delivered by the other chain,
and of two statuses of an agent the older one can be sent last (hazard at
`observer.ts:113`).  `ShownIsSelected` and `ShownCoversCatalog` except the time
between an error that the client reports and its next read of a snapshot, and
`PinnedStays` that read (section 4 says what it may do).  `ShownCoversCatalog` also
excepts a Run whose files were removed after the client's catalog was written:
deleted and published again, it may have fewer events than that catalog said,
until the next refresh reads the new one.  Without this exception TLC finds the
property violated.  `CatchesUp` excepts a client that has exited, which a file
that vanishes under a refresh makes it do (`orche.rs:648`).  `TokensAgree` speaks
of a desktop whose servers have not exited by themselves, and `RepairAlone` of
servers only: a watcher may outlive its server, and then a repair beside it.
`ServedIsClean` speaks of the deltas that the running server wrote, not of those
that an earlier one left (`RebuildIsClean` below).

Fairness (`sink`): Node runs each callback whose event has come (weak fairness
of the reconnect timer, received data, drain and close), the server thread reads
what it was sent, and connecting succeeds if it is tried again and again (strong
fairness; `ConnectFails` may come first any number of times).  Nothing makes a
caller write or close, and nothing makes a connection fail.  Failures are finite
because the number of connections is bounded; without that assumption nothing is
delivered, in the model or in reality.

Fairness (`tail_observers`, `snapshot_observer`): the interval timer starts scans
for ever and the awaits of file operations return (weak fairness of `Scan`); the
sink delivers, which is what `Delivers` shows; and of the waits for an idle sink,
not all end in a timeout (strong fairness of `Acknowledged`).  Nothing makes the
agent write or complete a line, and timeouts and crashes are finite.
`EveryLineArrives` also needs a queue with room for two readings of a file: with
less, TLC finds a schedule in which every scan fills the queue with repeated
events, throws and so never waits for it to drain.  The program's default is
50 000 events against reads of at most 8 MiB.

Fairness (`terminal`): the server finishes the writing it began, the client's
reads return and its refresh timer fires (weak fairness of `ServerStep`, `Read`,
`Answered` and `RefreshTick`); the server serves a request if its mutex is free
again and again (strong fairness of `ServeRequest`).  Nobody presses a key or
publishes.  Fairness (`supervisor`): a command and a repair that have begun go on
(weak fairness of `Command` and `RepairEnds`); the server does not have to answer,
drain or exit, which is why its time-out and the kill matter.

### Findings

* `terminal_delete` (`orche.rs:505`): the dialog that confirms a delete remembers
  no Run.  While it is open the client reloads, a Run that has just arrived takes
  the focus, and the confirmation deletes that one.
* `maintenance_restart` (`main.rs:491`): the privacy filter is applied to events
  read back from the mirror and does not map its own output to itself (the count
  of redacted fields shrinks when an inline secret and a sensitive key meet in an
  event).  The event conflicts with its stored self, and the server does not
  start.

The passing runs say what remains true in spite of this.  Five more disagreements
were met; four have a configuration that shows the trace (`tlc -config X.cfg M`):

* `MCMaintenanceRebuild.cfg` of `MCMaintenance` (`README.md:508`: a command that is
  given `--data-dir` also rebuilds the derived snapshots of Web and TUI):
  `RebuildIsClean` fails, because `refresh_projection` publishes the Runs without
  deltas (`main.rs:1279`) and the pruning leaves the delta files of listed Runs
  (`main.rs:1407`).  A server takes a prompt whose excerpt becomes a timeline entry
  (`crates/core/src/lib.rs:459`) and writes the delta; `otrace scrub` hides the
  excerpt in the database and the snapshot, and `deltas/run-*.json`, which desktop
  and web read, still has it.  A server that starts under a stricter policy leaves
  the delta as well (`main.rs:518`), until the Run's next event.
* `MCServerCommit.cfg` of `MCServer` (`main.rs:1310`, "Catalog is the commit
  point"): after a failed insert the adapter's retry is a duplicate in memory and
  new in SQLite; the catalog that is written lists a Run whose snapshot never was.
* From the same start, a delete saves the in-memory event count with the
  checkpoint (`main.rs:840`); after one more insert and a crash the count matches
  the database by coincidence and a wrong Run is restored.  `InStep` excepts this.
* `MCDshReplay.cfg` of `MCDshObserver` (`observer.ts:71`, "safe to replay because
  canonical ids are stable and the Rust store dedups"): a child that is announced
  before its descriptor is recorded is announced with the descriptor after a
  restart, under the same id, and the server refuses the event.
* `MCSupervisorAttach.cfg` of `MCSupervisor` (`README.md:293`, the watchers start
  with the managed ingest): when the server exits and is started again, a watcher
  that still runs keeps the old token and is refused.

## 4. What is proved

With TLAPS, for every value of the constants.  So the bounds of section 3 do not
limit these results: any sets of sources, sessions and events, any mapper, any
transcripts and policies, any number of connections, edits, crashes, failures and
commands.

| module | theorem | property | in words |
|---|---|---|---|
| `IngestProofs` | `TypeCorrect`, `IncrementalEqualsRebuild`, `RestartLoads` | `TypeOK`, `MatchesRebuild`, `AlwaysLoads` | the incremental projection is a rebuild, and what was accepted loads again |
| | `ChangesReported`, `DeltaBases`, `DeletesWholeTrees` | `ReportsEveryChange`, `DeltasStartFromPublished`, `DeleteLeavesNoOrphan` | what a call returns and removes |
| | `Implementation` | `ImplementsCatalogLog` | the store implements a log of events with the catalog of its content |
| | `DeltasAddUp`, `CheckpointsRestore`, `CallsStayFinished` | `ViewIsTheSnapshot`, `CheckpointIsRestorable`, `FinishedStaysFinished` | of `RunFeed`: deltas give the folded snapshot; the fold's root is the store's; a finished call stays finished |
| `ServerProofs` | `AcknowledgedDurable`, `DeletedForGood` | `AckedIsDurable`, `ConfirmedStaysDeleted` | what clients were told stays true, whatever crashes or fails |
| | `IdleServersAgree`, `CatalogAlwaysCommits` | `IdleAgrees`, `CatalogCommits` | until a step fails, through any crashes: memory, database, checkpoint, files and mirror agree between requests, and a catalog is the commit point |
| | `RestartsAgree` | (`RestartAgrees`) | after any crashes and failed steps a restart brings checkpoint, files, catalog and mirror in step with memory |
| `SinkProofs` | `IdleIsDurable`, `Implementation` | `IdleMeansStored`, `ImplementsAckedSink` | `whenIdle` never resolves early; the transport is an acknowledged queue |
| | `EventsWithoutHoles`, `HistoryIsComplete` | `NoHoles`, `NothingMissed` | of `DshObserver`: a session's events become durable in order and without a hole, and adoption misses no record, whatever interleaves |
| | `LastStatusIsCurrent` | `StatusIsCurrent` | of `DshObserver`: once all rests the last status that was sent of an agent is the one it has |
| `TailProofs` | `CursorsStayBehind`, `RereadsAgree` | `CursorBehindStored`, `RereadGivesTheSame` | a cursor never passes an event that is not durable; reading again, from wherever, gives the same events |
| | `WaitingCallsSurvive` | `WaitingCallsAreCommitted` | of `TranscriptObservers`: the committed state waits for the calls without a result, and for no others |
| `SnapshotProofs` | `CommittedStaysStored`, `NothingIsSkipped` | `CommittedIsStored`, `SkippedIsSent` | what is counted as sent is durable, and a file that is skipped was sent |
| `MaintenanceProofs` | `NothingHiddenIsServed`, `DoctorIsRight` | `ServedIsClean`, `HealthyIsTrue` | the policy holds of all that a server stores, mirrors, holds and publishes, its own deltas included; a healthy database is one |
| | `NobodyIsOrphaned`, `RetentionTakesTheOldest` | `NoOrphans`, `RetentionIsMinimal` | what retention and deletion may take |
| `SupervisorProofs` | `NoStrayChild`, `RepairIsAlone`, `TokensAlwaysAgree` | `NoStrays`, `RepairAlone`, `TokensAgree` | no child without an owner; no repair beside a server of the desktop; the watchers have its server's token as long as no server has exited by itself |
| | `ShownRunIsSelected`, `ShownRunIsCurrent`, `PinnedRunStays` | `ShownIsSelected`, `ShownCoversCatalog`, `PinnedStays` | of `Terminal`: the screen shows the selected Run, at the catalog's revision or a later one unless its files were removed since, and no read of a reload takes a pinned one away |

Each module also has its inductive invariant as a theorem (`Invariant`;
`CalmIsSound` for the calm server, `FeedInvariant` for the feed,
`PluginInvariant` for the Harness plugin, `ClientInvariant` for the terminal client), which TLC checked on the runs' instances
before it was proved.

Assumptions are the modules' named ASSUMEs, which TLC evaluates in each run: that
the bounds are numbers, that what stands for nothing (`NoParent`, `NoPid`) is not
something, that a log and what a mapper returns are lists
(`ListAssumption`), that the offered events are canonical events, their times and
session ids numbers and a retention limit a number or none
(`MaintenanceAssumption`), that what the fold sorts by is ordered
(`OrderAssumption`), that an announced spawn names its parent, as
`assertCanonicalLifecycleContract` demands of every adapter (`SpawnAssumption`:
without it `apply_event` would take a parent away that an earlier event gave), and
that `TranscriptObservers` maps with the two mappers that it names
(`MapperAssumption`).  Of the Harness it is assumed that it lists every session,
that a session has its seed and a record at most one event
(`DshAssumption`, `EventsAssumption`: the ids of `mapper.ts` tell records,
announcements and runtime events apart).  The ids of Runs and the times of events are numbers for the
terminal client (`TerminalAssumption`).  Nothing is assumed of the mappers'
content, of `Summary`, of the policies, or of the sizes of queues and windows.

### The arguments

*Ingest.*  The inductive invariant is type correctness, finiteness of the
accepted events, `MatchesRebuild` and `AlwaysLoads` together: an update may look
only at the affected roots because everything else is already as a rebuild would
have it (`MatchesRebuild`), and a rebuild is defined because no source fails
(`AlwaysLoads`).  `IngestLemmas` has the heart of it: adding an event that names
no new parent changes one Run; after one that does, only the roots in
`AffectedRoots` differ; removing a session tree changes no other root.

*Feed.*  `FeedInv` adds to the store's invariant that the reader's view is the
snapshot of every Run.  Two facts make it inductive.  The delta: two snapshots of
the right shape (`IsSnapshot`: every agent once, every agent listed in the order)
and their `SnapshotDelta` give back the second, for what is not in `upserted`
has not changed and what the timelines share is kept (`Common`, `Spliced`,
`AgentsAfter`, `Applied`).  The fold: its order is total, because the event id
decides at last (`BelowTotal`), so each event is passed once (`OrderedEvents`), and
after any number of events an agent shows as its parent what its events name and
as finished the calls that its events finished (`Fold`, `FoldedNext`), for any order
of their times.  From the first of these `FoldedRoot` gets the fold's root from
the lineage of the Run, which `MatchesRebuild` says is the store's; from the
second, a call that is finished in a set of events is finished in every larger one
(`FinishedOfEvents`).

*Server.*  Three invariants, by what they survive.  `IInv` survives everything:
to the two promises it adds the shapes of the records that change hands
(`Shapes`), that a job's events are in the database once its insert is done and
that a delete's are not (`JobEvents`), and that the mirror holds no deleted event
whenever it may still be imported (`MirrorUse`, `DeletedAreAbsent`).  An action
that answers is one of three (`Acknowledge`, `Confirm`, none), so the lemma
`AnswerKeeps` carries both promises over all of them at once.  `Sound` survives
crashes and lasts until a step fails: it says for each place of a request how far
memory (`MemorySound`), checkpoint (`CheckpointSound`), files (`FilesSound`) and
mirror (`MirrorSound`) have come.  A crash leaves an old checkpoint in a newer
database; it was made of events that are all still stored, because a delete
drops it, so one of as many events is one of the same events, and a restart uses
no other.  `Booting` says how far a restart has come, and assumes nothing of
what it found.

*Sink.*  `written` numbers the events.  The queue is the end of it, what is in
flight the beginning of the queue, and all before the queue is durable.  Frames
on a connection, also on one the sink has given up, are a stretch of `written`
with only durable events in front, so the server can store none out of turn.  On
the open connection the answers followed by the frames are what is in flight, in
the same order (`Link`); therefore an `ack` that is read is the one of the head
of the queue.  The refinement maps a received batch of answers to one
acknowledgement of several events.

*Harness plugin.*  The two chains are lists of operations, and a step puts some
operations in the place of the first.  `PInv` therefore says what a list owes, and
a lemma for each clause that putting a list that pays for the first operation in
its place keeps it (`OrderedSplice`, `PledgeSplice`, `EndsSplice`, `CalmSplice`);
`Takes` is what an operation has to be replaced by, and one lemma per operation
shows that `Does` does it.  For order (`Ordered`): in front of an operation that
emits, writes or moves the cursor, every earlier record is sent or has an
operation on its way, in any chain and for both at once; so what the sink takes
is past in `Sent`, and what is in the queue past in what stands before it
(`SentInOrder`).  A session that cannot be mapped or written is blocked while
operations of it are still under way, and these may write behind the gap: what
saves the order is that a throw of the sink means a full queue, which stays full
until both chains rest, and then no such operation is left (`BlockedOK`, `Calm`).
For completeness (`AllPromised`): a record that exists is sent, or pending, or some
operation leads to it; of a session that opens during adoption the listed records
are pledged by the list of live sessions or by the persistence, and all later ones
are facts (`Pledges`).  For the statuses an invariant of its own, `SInv`: look at
the facts to be delivered, from the last one on, then at the operations of the
chain, then at what is sent; the first that gives a status of an agent gives the
present one (`IsCurrent`).  Listing the agents gives whatever they have when it is
done, so start-up always passes (`Tells`); and a runtime event is numbered and
written by two adjacent operations, so the number is above all that are sent
(`Numbered`), unless both chains do so at once.  Until start-up is over, one chain
is empty (`ChainOK`), except in the runs that the property excepts.

*Tail observers.*  First the mapper: reading a transcript piece by piece, with the
state the last piece left, gives the events and the state of the first lines read
at once (`FirstLines`).  Then the observers: a state, in memory, pending or saved,
stands for the first `lines` lines of its transcript (`Stands`), and the events of
these lines are durable; those of the state to come are durable, queued or still
to be written.  An idle sink turns the second into the first.  Antigravity's waiting
calls follow: its state is a function of the lines behind the cursor, and each
call is announced and finished by events of these lines.

*Snapshot observers.*  A stat stands for a past of the file: every edit moves the
modification time on or, within one tick, makes the file longer (`Before`).
What is remembered with a stat covers all of the file if the file still has that
stat (`Covers`).  This is why the stat must be taken before the file is read: the
mutant `LoadedLate` breaks just this part.

*Maintenance.*  The database is sane (`Sane`): its events show only what the
policy of the last scrub allows, and a checkpoint was folded from events that are
all still stored.  `InStep` says how far the process has come since its start.
`Linked` is what retention and deletion need: the mirror, which an interrupted
command may leave ahead of the database, knows every link that the database
knows and has no conflict or cycle, so what it adds on import belonged to the
same trees.  `DeltasKnown` separates the deltas on disk: a server that is starting
has written none yet, and those of one that is up lead to events it stores.

*Supervisor.*  `Held`: every child that lives is recorded by the one who started
it, and no two records name one child.  `Excluded`: the maintenance mutex is held
by exactly one of the main thread and a repair.  `Recorded` and `Current`: a
watcher exists only beside a server and holds its token, until a server leaves by
itself.

*Terminal client.*  `FilesOK`: what the catalog on disk lists has a snapshot of
that revision or a later one (`Available`), because a snapshot is written before
the catalog and a catalog without the Run before its files are removed.  What a
client has read of a catalog is `Announced`: it is still available, or the Run's
files have been removed since, which `past.lives` remembers whether or not the Run
has been published again.  A step of the server keeps what is announced announced
(`Onward`), and revives nothing that was removed: only so does a revision on the
screen stay at or above the catalog's.  `InPlace` says what the
client may rely on between two of its steps: at rest and while it fetches pages it
shows what it has selected or has reported an error and read nothing since, and
while it waits for a snapshot the choice was made so that a Run that does not
follow is kept (`KeepsRun`).  The exception after an
error came out of the proof, and TLC shows why with three Runs, two keys and four
publications: under `auto` the reload that follows a rename selects a new Run,
which is deleted before its snapshot is read; the rename reports the error, the old
Run stays on the screen, the user pins it with `f`, and the next refresh leaves it
for a third Run, since `preferred_reload_run_index` goes by the selection and the
selected Run is gone (`orche.rs:680`).

### Only model-checked, and why

* Liveness (`Delivers`, `EveryLineArrives`, `EverythingArrives`, `CatchesUp`,
  `CommandsEnd`), which needs fairness and ENABLED.
* `RestartRepairs`, which says more than `RestartsAgree`: that the Runs in memory
  are those of the stored events.  It is not true for every value of the
  constants.  A checkpoint row is recognised by its Run's `RunSummary`
  (`crates/ingest/src/lib.rs:36`); if two checkpoints fail to be saved, one after
  a delete and one after the Run was sent again with other events of the same
  summary, the restart restores the old row.  The run allows one fault, for
  which it holds, and `RestartsAgree` leaves the Runs open.
* `SubtreeUsageIsSum` of `RunFold`: a sum over a tree, added up child by child with
  saturation, against a sum over a set.  Induction over numbers is not the
  obstacle (`UpTo` and `Least` in the proof modules derive it from least elements);
  this one goes over trees, and over the ways to split a sum.

## 5. Not modelled

* The live hub and the refresh protocol of the web page (`live.rs`, `app.js`), and
  with them the overlap of refreshes and the change that is published between the
  hub's "ready" and its subscription.  `RunFeed` covers what a delta must contain,
  `Terminal` what the order of the files must be.
* The Claude adapter, Pi's live bridge and its telemetry extension, discovery of
  transcript files, and start and stop of observers within a watcher.
* Of the terminal client: the replayed snapshot at the cursor, the agent tree and
  its selection, mouse regions, help, speed and drawing.
* Of the desktop: the death of the shell, logs and diagnostics, Claude's hooks,
  exports, commands that only read a file or forward a request.
* Of the server: the legacy single-run snapshot, export, the diagnostics bundle,
  connection set-up and authentication, argument parsing.
* Of the fold: durations, detail levels, the list of runtimes and all free text.
* Two processes on one database: a command beside a running server, the desktop's
  repair beside a server that `orche` started.
* Formats, rendering and styling, packaging, release scripts, benchmarks and
  generated tables.

What is worth proving next: that the sums of `RunFold` do not depend on the order
of the agents.
