------------------------------- MODULE Server --------------------------------
(***************************************************************************)
(* The ingest server of crates/cli/src/main.rs: serve's startup and the    *)
(* client handlers, around the in-memory store (crates/ingest) and the     *)
(* SQLite store (crates/storage).                                          *)
(*                                                                         *)
(* A client handler holds the state mutex from the call of ingest until    *)
(* the derived files are written, so at most one request is in progress;   *)
(* pc is the place its holder has reached, "idle" when nobody holds the    *)
(* mutex and "down" when no server runs.  Every durable effect is a step   *)
(* of its own and a crash may come between any two of them.  The answer is *)
(* written by the client's own thread after the mutex is released, or lost *)
(* in a crash: what it says counts as told as soon as the mutex is.        *)
(*                                                                         *)
(*   mem    the in-memory store (lost in a crash)                          *)
(*   db     SQLite: canonical events, the checkpoint (rows of              *)
(*          run_snapshots, the catalog row or NoCatalog, and the event     *)
(*          count both carry)                                              *)
(*   disk   the data directory and the event mirror: run snapshots, run    *)
(*          deltas, run-catalog.json, the mirror's whole lines, and        *)
(*          whether a crash left its last line torn                        *)
(*   job    the request in progress                                        *)
(*   reply  what clients are told: the events acknowledged and the events  *)
(*          of confirmed deletes, until they are deleted or sent again     *)
(*   used   crashes and faults so far, and whether memory was ever ahead   *)
(*          of the database: an event taken in memory was not inserted     *)
(*                                                                         *)
(* Bounds: MaxCrashes, MaxFaults.                                          *)
(***************************************************************************)
EXTENDS IngestStore, Functions

CONSTANTS Offered,       \* the events that clients may send
          Renames,       \* the metadata events that renames make
          Unstorable,    \* events whose source_seq does not fit SQLite INTEGER
          Summary(_),    \* RunSummary of the Run with these events
          MirrorOn,      \* serve was given --events
          Faults,        \* the steps that may return an I/O or SQLite error
          MaxCrashes, MaxFaults

ASSUME ServerAssumption ==
    /\ Offered \subseteq Event
    /\ Renames \subseteq {e \in Event : ~HasParent(e) /\ Valid(e)}
    /\ Unstorable \subseteq Offered
    /\ MirrorOn \in BOOLEAN
    /\ Faults \subseteq {"insert", "append", "checkpoint", "files", "remove"}
    /\ MaxCrashes \in Nat /\ MaxFaults \in Nat

VARIABLES mem, db, disk, pc, job, reply, used
vars == <<mem, db, disk, pc, job, reply, used>>

Nothing == [x \in {} |-> {}]
Dom(f, S) == [x \in DOMAIN f \cap S |-> f[x]]
Put(f, x, v) == [y \in DOMAIN f \cup {x} |-> IF y = x THEN v ELSE f[y]]

NoCatalog == Nothing            \* the catalog row of the checkpoint is missing

\* catalog_from_runs, with the number of events pending in all sources.
Catalog(s) ==
    [runs    |-> [r \in DOMAIN s.runs |-> Summary(s.runs[r])],
     pending |-> FoldFunction(LAMBDA m, n : m + n, 0, s.pending)]

Idle == [kind |-> "none", events |-> {}, runs |-> {}, deltas |-> {},
         base |-> Nothing, removed |-> {}]

Init == /\ mem = RebuildAll({})
        /\ db = [events |-> {}, rows |-> Nothing, catalog |-> NoCatalog, count |-> 0]
        /\ disk = [runs |-> Nothing, deltas |-> Nothing,
                   catalog |-> Catalog(RebuildAll({})), mirror |-> {}, torn |-> FALSE]
        /\ pc = "down"
        /\ job = Idle
        /\ reply = [acked |-> {}, deleted |-> {}]
        /\ used = [crashes |-> 0, faults |-> 0, ahead |-> FALSE]

-----------------------------------------------------------------------------
(* serve: startup.                                                         *)
Start ==
    /\ pc = "down"
    /\ pc' = IF MirrorOn THEN "import" ELSE "load"
    /\ UNCHANGED <<mem, db, disk, job, reply, used>>

\* read_events refuses the whole mirror when its last line is torn; otherwise
\* insert_events imports it in one transaction, unless an id is another event's.
ImportMirror ==
    /\ pc = "import"
    /\ IF disk.torn \/ ~UniqueIds(db.events \cup disk.mirror)
       THEN pc' = "down" /\ UNCHANGED db
       ELSE /\ pc' = "align"
            /\ db' = [db EXCEPT !.events = @ \cup disk.mirror]
    /\ UNCHANGED <<mem, disk, job, reply, used>>

\* The mirror is rewritten from the database before anything is served.
AlignMirror ==
    /\ pc = "align"
    /\ disk' = [disk EXCEPT !.mirror = db.events]
    /\ pc' = "load"
    /\ UNCHANGED <<mem, db, job, reply, used>>

\* load_checkpoint finds the catalog row and the rows of the same Runs, and
\* restore_runs finds for every root of the events a row of that size.
Restorable ==
    /\ db.catalog # NoCatalog
    /\ db.count = Cardinality(db.events)
    /\ DOMAIN db.rows = DOMAIN db.catalog.runs
    /\ \A src \in Sources : ~PartitionFails(db.events, src)
    /\ DOMAIN db.rows = RunIds(db.events)
    /\ \A r \in RunIds(db.events) :
          Cardinality(db.rows[r]) = Cardinality(GroupOf(FromSource(db.events, r[1]), r))

Restored == [RebuildAll(db.events) EXCEPT !.runs = db.rows]

\* The checkpointed Runs are used when the catalog they give is the
\* checkpointed one; otherwise the events are folded again.
LoadProjection ==
    /\ pc = "load"
    /\ LET restored == Restorable /\ Catalog(Restored) = db.catalog
           loaded   == IF restored THEN Restored ELSE RebuildAll(db.events)
       IN  IF restored \/ WellFormed(db.events)
           THEN /\ mem' = loaded
                /\ job' = [Idle EXCEPT !.kind = "startup", !.runs = DOMAIN loaded.runs]
                /\ pc' = "checkpoint"
           ELSE pc' = "down" /\ UNCHANGED <<mem, job>>
    /\ UNCHANGED <<db, disk, reply, used>>

-----------------------------------------------------------------------------
(* A client handler takes the mutex.                                       *)

\* ingest refuses the event: an error frame, and the connection is closed.
Refuse(e) ==
    /\ pc = "idle"
    /\ \/ ~Valid(e)
       \/ ConflictingDuplicate(mem, e)
       \/ e \notin mem.events /\ (ConflictsWithParent(mem, e) \/ UpdateFails(mem, e))
    /\ UNCHANGED vars

\* ingest takes a new event in memory; the handler goes on to the database.
Accepts(e) == /\ Valid(e) /\ ~ConflictingDuplicate(mem, e)
              /\ e \notin mem.events
              /\ ~ConflictsWithParent(mem, e) /\ ~UpdateFails(mem, e)

Take(e) ==
    LET update == InsertEvent(mem, e)
    IN  /\ mem' = update.store
        /\ job' = [kind    |-> "event",
                   events  |-> {e},
                   runs    |-> update.updated,
                   deltas  |-> update.updated,
                   base    |-> [r \in update.updated |-> DeltaBase(mem, e, r)],
                   removed |-> DOMAIN mem.runs \ DOMAIN update.store.runs]

\* Mutant: an event that memory knows is acknowledged at once.
TakeEventKnown(e) ==
    /\ pc = "idle"
    /\ \/ Accepts(e) /\ Take(e) /\ pc' = "insert"
       \/ /\ Valid(e) /\ e \in mem.events
          /\ job' = [Idle EXCEPT !.kind = "event", !.events = {e}]
          /\ pc' = "duplicate" /\ UNCHANGED mem
    /\ UNCHANGED <<db, disk, reply, used>>

\* An event frame: a new event, or one that memory knows already.
TakeEvent(e) ==
    /\ pc = "idle"
    /\ \/ Accepts(e) /\ Take(e)
       \/ /\ Valid(e) /\ e \in mem.events
          /\ job' = [Idle EXCEPT !.kind = "event", !.events = {e}]
          /\ UNCHANGED mem
    /\ pc' = "insert"
    /\ UNCHANGED <<db, disk, reply, used>>

\* control.session.rename: the server makes a metadata event with a fresh id
\* for the root session of a Run and then does what it does for any event;
\* session.renamed takes the place of the ack.
RenameSession(e) ==
    /\ pc = "idle"
    /\ KeyOf(e) \in DOMAIN mem.runs
    /\ e \notin db.events
    /\ Accepts(e) /\ Take(e)
    /\ pc' = "insert"
    /\ UNCHANGED <<db, disk, reply, used>>

\* The handler returns: the mutex is released and the client is told.
Answered == pc' = "idle" /\ job' = Idle

Acknowledge ==
    Answered /\ reply' = [reply EXCEPT !.acked = @ \cup job.events]

Confirm ==
    Answered /\ reply' = [reply EXCEPT !.deleted = @ \cup job.events]

\* EventStore::insert_event, in memory known or not.
InsertDurably ==
    /\ pc = "insert"
    /\ \E e \in job.events :
         /\ e \notin Unstorable
         /\ \A f \in db.events : f.id = e.id => f = e
         /\ db' = [db EXCEPT !.events = @ \cup {e}]
         /\ reply' = [reply EXCEPT !.deleted = @ \ {e}]
         /\ pc' = IF e \in db.events THEN "duplicate"
                  ELSE IF MirrorOn THEN "append" ELSE "checkpoint"
    /\ UNCHANGED <<mem, disk, job, used>>

\* SQLite refuses the event for good: the handler returns the error, and the
\* event stays in memory.
InsertRefused ==
    /\ pc = "insert"
    /\ \E e \in job.events : \/ e \in Unstorable
                             \/ \E f \in db.events : f.id = e.id /\ f # e
    /\ used' = [used EXCEPT !.ahead = TRUE]
    /\ pc' = "idle" /\ job' = Idle
    /\ UNCHANGED <<mem, db, disk, reply>>

\* Nothing new is durable: the derived state is left as it is.
AnswerDuplicate ==
    /\ pc = "duplicate"
    /\ Acknowledge
    /\ UNCHANGED <<mem, db, disk, used>>

AppendMirror ==
    /\ pc = "append"
    /\ disk' = [disk EXCEPT !.mirror = @ \cup job.events]
    /\ pc' = "checkpoint"
    /\ UNCHANGED <<mem, db, job, reply, used>>

\* EventStore::delete_session_tree: its recursive query closes over the events
\* of the source as IngestStore's loop does, but over the durable ones.
StorageTree(E, src, session) ==
    {e \in FromSource(E, src) : e.session \in SessionTree(E, src, session)}

\* The session is the root of a Run of the catalog; EventStore's and
\* IngestStore's delete_session_tree run one after the other.
DeleteSession(src, session) ==
    /\ pc = "idle"
    /\ <<src, session>> \in DOMAIN mem.runs
    /\ LET gone     == StorageTree(db.events, src, session)
           deletion == DeleteTree(mem, src, session)
       IN  /\ db' = [db EXCEPT !.events = @ \ gone,
                               !.catalog = IF gone = {} THEN @ ELSE NoCatalog]
           /\ mem' = deletion.store
           /\ job' = [Idle EXCEPT !.kind = "delete",
                                  !.events = gone,
                                  !.runs = deletion.updated,
                                  !.removed = OfSource(mem.runs, src) \ deletion.updated]
           /\ reply' = [reply EXCEPT !.acked = @ \ gone]
    /\ pc' = "checkpoint"
    /\ UNCHANGED <<disk, used>>

-----------------------------------------------------------------------------
(* What every accepted request and the startup end with.                   *)

\* save_checkpoint: rows for the updated Runs, none for Runs that the catalog
\* does not list, and one event count for all of them.  The count is the
\* database's, or after a delete the in-memory store's.
SaveCheckpoint ==
    /\ pc = "checkpoint"
    /\ LET rows == [r \in DOMAIN db.rows \cup job.runs |->
                       IF r \in job.runs THEN mem.runs[r] ELSE db.rows[r]]
       IN  db' = [db EXCEPT
                    !.rows    = Dom(rows, DOMAIN mem.runs),
                    !.catalog = Catalog(mem),
                    !.count   = IF job.kind = "delete" THEN Cardinality(mem.events)
                                ELSE Cardinality(db.events)]
    /\ pc' = "files"
    /\ UNCHANGED <<mem, disk, job, reply, used>>

\* persist_run_data writes the updated Runs' snapshots ...
WriteRun(r) ==
    /\ pc = "files"
    /\ r \in job.runs
    /\ disk' = [disk EXCEPT !.runs = Put(@, r, mem.runs[r])]
    /\ job' = [job EXCEPT !.runs = @ \ {r}]
    /\ UNCHANGED <<mem, db, pc, reply, used>>

\* ... then their deltas ...
WriteDelta(r) ==
    /\ pc = "files"
    /\ job.runs = {}
    /\ r \in job.deltas
    /\ disk' = [disk EXCEPT !.deltas = Put(@, r, [base |-> job.base[r], target |-> mem.runs[r]])]
    /\ job' = [job EXCEPT !.deltas = @ \ {r}]
    /\ UNCHANGED <<mem, db, pc, reply, used>>

\* Mutant: the catalog does not wait for the Runs.
WriteCatalogFirst ==
    /\ pc = "files"
    /\ disk' = [disk EXCEPT !.catalog = Catalog(mem)]
    /\ pc' = "remove"
    /\ UNCHANGED <<mem, db, job, reply, used>>

\* ... then the catalog, the commit point ...
WriteCatalog ==
    /\ pc = "files"
    /\ job.runs = {} /\ job.deltas = {}
    /\ disk' = [disk EXCEPT !.catalog = Catalog(mem)]
    /\ pc' = "remove"
    /\ UNCHANGED <<mem, db, job, reply, used>>

\* Mutant: the snapshot of a removed Run stays.
RemoveDelta(r) ==
    /\ pc = "remove"
    /\ r \in job.removed
    /\ disk' = [disk EXCEPT !.deltas = Dom(@, DOMAIN @ \ {r})]
    /\ job' = [job EXCEPT !.removed = @ \ {r}]
    /\ UNCHANGED <<mem, db, pc, reply, used>>

\* ... and removes the files of Runs that are gone.
RemoveRun(r) ==
    /\ pc = "remove"
    /\ r \in job.removed
    /\ disk' = [disk EXCEPT !.runs = Dom(@, DOMAIN @ \ {r}),
                            !.deltas = Dom(@, DOMAIN @ \ {r})]
    /\ job' = [job EXCEPT !.removed = @ \ {r}]
    /\ UNCHANGED <<mem, db, pc, reply, used>>

\* Mutant: unlisted files are not pruned.
ServeUnpruned ==
    /\ pc = "remove" /\ job.kind = "startup"
    /\ pc' = "idle" /\ job' = Idle
    /\ UNCHANGED <<mem, db, disk, reply, used>>

\* prune_unlisted_run_files at startup; then the listener is bound.
Serve ==
    /\ pc = "remove" /\ job.kind = "startup"
    /\ disk' = [disk EXCEPT !.runs = Dom(@, DOMAIN mem.runs),
                            !.deltas = Dom(@, DOMAIN mem.runs)]
    /\ pc' = "idle" /\ job' = Idle
    /\ UNCHANGED <<mem, db, reply, used>>

\* The updates are broadcast, the mutex is released, the event acknowledged.
AnswerEvent ==
    /\ pc = "remove" /\ job.kind = "event" /\ job.removed = {}
    /\ Acknowledge
    /\ UNCHANGED <<mem, db, disk, used>>

\* Mutant: the mirror keeps the deleted events.
KeepMirror ==
    /\ pc = "remove" /\ job.kind = "delete" /\ job.removed = {}
    /\ Confirm
    /\ UNCHANGED <<mem, db, disk, used>>

\* A delete rewrites the mirror from the database before it is confirmed.
RewriteMirror ==
    /\ pc = "remove" /\ job.kind = "delete" /\ job.removed = {}
    /\ disk' = IF MirrorOn THEN [disk EXCEPT !.mirror = db.events, !.torn = FALSE] ELSE disk
    /\ Confirm
    /\ UNCHANGED <<mem, db, used>>

-----------------------------------------------------------------------------
(* Faults and crashes.                                                     *)

\* append_event writes its line piecewise: one that does not finish may leave
\* a torn line.
TearMirror == \/ UNCHANGED disk
              \/ pc = "append" /\ disk' = [disk EXCEPT !.torn = TRUE]

\* A step returns an error: the handler drops the mutex and the connection.
\* What was done before stays done.
Fault ==
    /\ pc \in Faults
    /\ job.kind # "startup"
    /\ used.faults < MaxFaults
    /\ used' = [used EXCEPT !.faults = @ + 1, !.ahead = @ \/ pc = "insert"]
    /\ pc' = "idle" /\ job' = Idle
    /\ TearMirror
    /\ UNCHANGED <<mem, db, reply>>

\* The process dies: memory is lost.
Crash ==
    /\ pc # "down"
    /\ used.crashes < MaxCrashes
    /\ used' = [used EXCEPT !.crashes = @ + 1]
    /\ pc' = "down" /\ job' = Idle
    /\ mem' = RebuildAll({})
    /\ TearMirror
    /\ UNCHANGED <<db, reply>>

Startup == Start \/ ImportMirror \/ AlignMirror \/ LoadProjection \/ Serve
Request == \/ \E e \in Offered : Refuse(e) \/ TakeEvent(e)
           \/ \E e \in Renames : RenameSession(e)
           \/ \E src \in Sources, session \in Sessions : DeleteSession(src, session)
Persist == \/ InsertDurably \/ InsertRefused \/ AnswerDuplicate \/ AppendMirror
           \/ SaveCheckpoint \/ WriteCatalog \/ AnswerEvent \/ RewriteMirror
           \/ \E r \in DOMAIN mem.runs : WriteRun(r) \/ WriteDelta(r)
           \/ \E r \in job.removed : RemoveRun(r)
Next == Startup \/ Request \/ Persist \/ Fault \/ Crash

Spec == Init /\ [][Next]_vars
-----------------------------------------------------------------------------
\* No insert has failed so far.  After one, memory holds an event that the
\* database does not: a retry of the event is a duplicate in memory and new in
\* the database, so that the catalog lists a Run whose snapshot is not written
\* (CatalogIsCommitPoint fails), and a delete saves a checkpoint with memory's
\* count, which a restart may take for the database's.
InStep == ~used.ahead

\* An acknowledged event is in the database, whatever crashed or failed since,
\* until its session is deleted (main.rs: insert_event comes before the ack,
\* for an event that memory knows already too).
AckedIsDurable == reply.acked \subseteq db.events

\* Events of a confirmed delete come back only when a client sends them again,
\* not through the mirror or the checkpoint.
ConfirmedStaysDeleted == reply.deleted \cap db.events = {}

\* Memory, database, checkpoint, files and mirror all say the same.
Agreement ==
    /\ mem = RebuildAll(db.events)
    /\ Restorable /\ db.catalog = Catalog(mem) /\ db.rows = mem.runs
    /\ disk.catalog = Catalog(mem) /\ disk.runs = mem.runs
    /\ DOMAIN disk.deltas \subseteq DOMAIN mem.runs
    /\ MirrorOn => disk.mirror = db.events

\* Between requests everything agrees, as long as no step fails.
IdleAgrees == pc = "idle" /\ used.faults = 0 /\ InStep => Agreement

\* A restart repairs what failed steps left behind: when the server serves
\* again, everything agrees.
RestartRepairs ==
    [][ job.kind = "startup" /\ pc' = "idle" /\ InStep => Agreement' ]_vars

\* persist_run_data: "Catalog is the commit point: readers only see a revision
\* after its snapshot and delta exist."
SnapshotsThere ==
    \A r \in DOMAIN disk.catalog.runs :
       r \in DOMAIN disk.runs /\ Summary(disk.runs[r]) = disk.catalog.runs[r]
CatalogIsCommitPoint == [][ disk'.catalog # disk.catalog => SnapshotsThere' ]_vars

\* As long as no step fails the catalog is the commit point, whatever crashes.
CatalogCommits ==
    [][ used.faults = 0 /\ InStep /\ disk'.catalog # disk.catalog => SnapshotsThere' ]_vars

=============================================================================
