---------------------------- MODULE ServerProofs -----------------------------
(***************************************************************************)
(* Proofs about the ingest server for every set of events, with and        *)
(* without the mirror, for any number of crashes and of failing steps at   *)
(* any place.                                                              *)
(*                                                                         *)
(* IInv     holds whatever crashes or fails: what clients have been told   *)
(*          stays true.                                                    *)
(* Sound    holds until a step fails, whatever crashes: memory, database,  *)
(*          checkpoint, files and mirror are in step.                      *)
(* Booting  holds whatever crashes or fails: how far a restart has brought *)
(*          them back in step.                                             *)
(***************************************************************************)
EXTENDS Server, IngestLemmas

\* The records keep their fields.
Shapes ==
    /\ db = [events |-> db.events, rows |-> db.rows, catalog |-> db.catalog,
             count |-> db.count]
    /\ disk = [runs |-> disk.runs, deltas |-> disk.deltas, catalog |-> disk.catalog,
               mirror |-> disk.mirror, torn |-> disk.torn]
    /\ job = [kind |-> job.kind, events |-> job.events, runs |-> job.runs,
              deltas |-> job.deltas, base |-> job.base, removed |-> job.removed]
    /\ reply = [acked |-> reply.acked, deleted |-> reply.deleted]

\* Past insert_event the request's event is in the database; past the delete
\* its events are not.
Persisting == {"checkpoint", "files", "remove"}

JobEvents ==
    /\ pc = "insert" => job.kind = "event" /\ \E e : job.events = {e}
    /\ pc \in {"duplicate", "append"} => job.kind = "event" /\ job.events \subseteq db.events
    /\ pc \in Persisting /\ job.kind = "event" => job.events \subseteq db.events
    /\ pc \in Persisting /\ job.kind = "delete" => \A e \in job.events : e \notin db.events

\* Without --events there is no mirror to read or to write.
MirrorUse == ~MirrorOn => disk.mirror = {} /\ pc \notin {"import", "align", "append"}

\* What was confirmed deleted is neither in the database nor in the mirror that
\* the next start imports.
Absent(events) == \A e \in events : e \notin db.events /\ e \notin disk.mirror

DeletedAreAbsent == Absent(reply.deleted)

IInv == Shapes /\ JobEvents /\ MirrorUse /\ AckedIsDurable /\ DeletedAreAbsent

-----------------------------------------------------------------------------
LEMMA InitInvariant == Init => IInv
  BY DEF Init, IInv, Shapes, JobEvents, Persisting, MirrorUse, AckedIsDurable,
         DeletedAreAbsent, Absent, Idle

LEMMA StartupKeeps ==
  ASSUME IInv, Startup PROVE IInv'
<1> USE DEF IInv
<1>1. CASE Start
  BY <1>1 DEF Start, Shapes, JobEvents, Persisting, MirrorUse, AckedIsDurable,
              DeletedAreAbsent, Absent
<1>2. CASE ImportMirror
  <2>1. db'.events = db.events \/ db'.events = db.events \cup disk.mirror
    BY <1>2 DEF ImportMirror, Shapes
  <2>2. Shapes' BY <1>2 DEF ImportMirror, Shapes
  <2>3. JobEvents' BY <1>2 DEF ImportMirror, JobEvents, Persisting
  <2>4. MirrorUse' BY <1>2 DEF ImportMirror, MirrorUse
  <2>5. AckedIsDurable' BY <1>2, <2>1 DEF ImportMirror, AckedIsDurable
  <2>6. DeletedAreAbsent' BY <1>2, <2>1 DEF ImportMirror, DeletedAreAbsent, Absent
  <2> QED BY <2>2, <2>3, <2>4, <2>5, <2>6
<1>3. CASE AlignMirror
  <2>1. disk' = [runs |-> disk.runs, deltas |-> disk.deltas, catalog |-> disk.catalog,
                 mirror |-> db.events, torn |-> disk.torn]
    BY <1>3 DEF AlignMirror, Shapes
  <2> QED BY <1>3, <2>1 DEF AlignMirror, Shapes, JobEvents, Persisting, MirrorUse,
                 AckedIsDurable, DeletedAreAbsent, Absent
<1>4. CASE LoadProjection
  <2>1. /\ pc' \in {"checkpoint", "down"} /\ UNCHANGED <<db, disk, reply>>
        /\ UNCHANGED job \/ \E runs : job' = [Idle EXCEPT !.kind = "startup", !.runs = runs]
    BY <1>4 DEF LoadProjection
  <2>2. /\ pc' = "down" /\ UNCHANGED job
        \/ /\ job'.kind = "startup"
           /\ job' = [kind |-> job'.kind, events |-> job'.events, runs |-> job'.runs,
                      deltas |-> job'.deltas, base |-> job'.base, removed |-> job'.removed]
    BY <1>4 DEF LoadProjection, Idle
  <2>3. Shapes' BY <2>1, <2>2 DEF Shapes
  <2> QED BY <2>1, <2>2, <2>3 DEF JobEvents, Persisting, MirrorUse, AckedIsDurable,
                 DeletedAreAbsent, Absent
<1>5. CASE Serve
  <2>1. disk'.mirror = disk.mirror /\ Shapes'
    BY <1>5 DEF Serve, Shapes, Idle
  <2> QED BY <1>5, <2>1 DEF Serve, Idle, JobEvents, Persisting, MirrorUse,
                 AckedIsDurable, DeletedAreAbsent, Absent
<1> QED BY <1>1, <1>2, <1>3, <1>4, <1>5 DEF Startup

LEMMA RequestKeeps ==
  ASSUME IInv, Request PROVE IInv'
<1> USE DEF IInv
<1>1. ASSUME NEW e, Refuse(e) PROVE IInv'
  BY <1>1 DEF Refuse, vars, Shapes, JobEvents, Persisting, MirrorUse, AckedIsDurable,
              DeletedAreAbsent, Absent
<1>2. ASSUME NEW e, Take(e) \/ job' = [Idle EXCEPT !.kind = "event", !.events = {e}],
             pc' = "insert", UNCHANGED <<db, disk, reply>>
      PROVE  IInv'
  <2>1. /\ job'.kind = "event" /\ job'.events = {e}
        /\ job' = [kind |-> job'.kind, events |-> job'.events, runs |-> job'.runs,
                   deltas |-> job'.deltas, base |-> job'.base, removed |-> job'.removed]
    <3>1. CASE Take(e)
      BY <3>1 DEF Take
    <3>2. CASE job' = [Idle EXCEPT !.kind = "event", !.events = {e}]
      <4>1. job' = [kind |-> "event", events |-> {e}, runs |-> {}, deltas |-> {},
                    base |-> Nothing, removed |-> {}]
        BY <3>2 DEF Idle
      <4> QED BY <4>1
    <3> QED BY <1>2, <3>1, <3>2
  <2> QED BY <1>2, <2>1 DEF Shapes, JobEvents, Persisting, MirrorUse, AckedIsDurable,
                 DeletedAreAbsent, Absent
<1>3. ASSUME NEW e, TakeEvent(e) PROVE IInv'
  BY <1>2, <1>3 DEF TakeEvent
<1>4. ASSUME NEW e, RenameSession(e) PROVE IInv'
  BY <1>2, <1>4 DEF RenameSession
<1>5. ASSUME NEW src, NEW session, DeleteSession(src, session) PROVE IInv'
  <2> DEFINE gone == StorageTree(db.events, src, session)
  <2>1. /\ db' = [events |-> db.events \ gone, rows |-> db.rows, catalog |-> db'.catalog,
                  count |-> db.count]
        /\ reply' = [acked |-> reply.acked \ gone, deleted |-> reply.deleted]
        /\ UNCHANGED disk /\ pc' = "checkpoint"
    BY <1>5 DEF DeleteSession, Shapes
  <2>2. /\ job'.kind = "delete" /\ job'.events = gone
        /\ job' = [kind |-> job'.kind, events |-> job'.events, runs |-> job'.runs,
                   deltas |-> job'.deltas, base |-> job'.base, removed |-> job'.removed]
    BY <1>5 DEF DeleteSession, Idle
  <2> HIDE DEF gone
  <2>3. Shapes' BY <2>1, <2>2 DEF Shapes
  <2>4. JobEvents' BY <2>1, <2>2 DEF JobEvents, Persisting
  <2>5. MirrorUse' BY <2>1 DEF MirrorUse
  <2>6. AckedIsDurable' BY <2>1 DEF AckedIsDurable
  <2>7. DeletedAreAbsent' BY <2>1 DEF DeletedAreAbsent, Absent
  <2> QED BY <2>3, <2>4, <2>5, <2>6, <2>7
<1> QED BY <1>1, <1>3, <1>4, <1>5 DEF Request

\* The handler's last step: an event is acknowledged that is durable, a delete
\* confirmed whose events are absent.
LEMMA AnswerKeeps ==
  ASSUME IInv, db' = db,
         disk' = [runs |-> disk'.runs, deltas |-> disk'.deltas, catalog |-> disk'.catalog,
                  mirror |-> disk'.mirror, torn |-> disk'.torn],
         MirrorOn \/ disk' = disk,
         disk'.mirror = disk.mirror \/ disk'.mirror = db.events,
         \/ Acknowledge /\ job.events \subseteq db.events
         \/ Confirm /\ \A e \in job.events : e \notin db.events /\ e \notin disk'.mirror
  PROVE  IInv'
<1> USE DEF IInv
<1>1. pc' = "idle" /\ job' = Idle
  BY DEF Acknowledge, Confirm, Answered
<1>2. \/ /\ reply' = [acked |-> reply.acked \cup job.events, deleted |-> reply.deleted]
         /\ job.events \subseteq db.events
      \/ /\ reply' = [acked |-> reply.acked, deleted |-> reply.deleted \cup job.events]
         /\ \A e \in job.events : e \notin db.events /\ e \notin disk'.mirror
  BY DEF Acknowledge, Confirm, Shapes
<1>3. Shapes' BY <1>1, <1>2 DEF Shapes, Idle
<1>4. JobEvents' BY <1>1 DEF JobEvents, Persisting
<1>5. MirrorUse' BY <1>1 DEF MirrorUse
<1>6. AckedIsDurable' BY <1>2 DEF AckedIsDurable
<1>7. DeletedAreAbsent' BY <1>2 DEF DeletedAreAbsent, Absent
<1> QED BY <1>3, <1>4, <1>5, <1>6, <1>7

\* A step that changes neither the events nor the mirror nor the answers, and
\* keeps the request at work on the same events.
LEMMA QuietStep ==
  ASSUME IInv, Shapes',
         db'.events = db.events, disk'.mirror = disk.mirror, reply' = reply,
         \/ pc' \in {"idle", "down"}
         \/ /\ job'.kind = job.kind /\ job'.events = job.events
            /\ \/ pc' = pc
               \/ pc \in Persisting \cup {"append"} /\ pc' \in Persisting
  PROVE  IInv'
BY DEF IInv, JobEvents, Persisting, MirrorUse, AckedIsDurable, DeletedAreAbsent, Absent

LEMMA PersistKeeps ==
  ASSUME IInv, Persist PROVE IInv'
<1> USE DEF IInv
<1>1. CASE InsertDurably
  <2>1. PICK e \in job.events :
          /\ db' = [db EXCEPT !.events = @ \cup {e}]
          /\ reply' = [reply EXCEPT !.deleted = @ \ {e}]
          /\ pc' \in {"duplicate", "append", "checkpoint"}
          /\ pc' = "append" => MirrorOn
          /\ pc = "insert" /\ UNCHANGED <<mem, disk, job>>
    BY <1>1 DEF InsertDurably
  <2>2. /\ db' = [events |-> db.events \cup {e}, rows |-> db.rows, catalog |-> db.catalog,
                  count |-> db.count]
        /\ reply' = [acked |-> reply.acked, deleted |-> reply.deleted \ {e}]
    BY <2>1 DEF Shapes
  <2>3. job.kind = "event" /\ job.events = {e}
    BY <2>1 DEF JobEvents
  <2>4. Shapes' BY <2>1, <2>2 DEF Shapes
  <2>5. JobEvents' BY <2>1, <2>2, <2>3 DEF JobEvents, Persisting
  <2>6. MirrorUse' BY <2>1 DEF MirrorUse
  <2>7. AckedIsDurable' BY <2>2 DEF AckedIsDurable
  <2>8. DeletedAreAbsent' BY <2>1, <2>2 DEF DeletedAreAbsent, Absent
  <2> QED BY <2>4, <2>5, <2>6, <2>7, <2>8
<1>2. CASE InsertRefused
  <2>1. Shapes' BY <1>2 DEF InsertRefused, Shapes, Idle
  <2> QED BY <1>2, <2>1, QuietStep DEF InsertRefused
<1>3. CASE AnswerDuplicate
  <2>1. /\ pc = "duplicate" /\ Acknowledge /\ UNCHANGED <<db, disk>>
    BY <1>3 DEF AnswerDuplicate
  <2> QED BY <2>1, AnswerKeeps DEF JobEvents, Shapes
<1>4. CASE AppendMirror
  <2>1. /\ disk' = [runs |-> disk.runs, deltas |-> disk.deltas, catalog |-> disk.catalog,
                    mirror |-> disk.mirror \cup job.events, torn |-> disk.torn]
        /\ pc = "append" /\ pc' = "checkpoint" /\ UNCHANGED <<db, job, reply>>
    BY <1>4 DEF AppendMirror, Shapes
  <2>2. Shapes' BY <2>1 DEF Shapes
  <2>3. JobEvents' BY <2>1 DEF JobEvents, Persisting
  <2>4. DeletedAreAbsent' BY <2>1 DEF DeletedAreAbsent, Absent, JobEvents
  <2> QED BY <2>1, <2>2, <2>3, <2>4 DEF MirrorUse, AckedIsDurable
<1>5. CASE SaveCheckpoint
  <2>1. /\ db'.events = db.events /\ Shapes'
        /\ pc \in Persisting /\ pc' \in Persisting /\ UNCHANGED <<disk, job, reply>>
    BY <1>5 DEF SaveCheckpoint, Shapes, Persisting
  <2> QED BY <2>1, QuietStep
<1>6. ASSUME NEW r, WriteRun(r) \/ WriteDelta(r) \/ RemoveRun(r) PROVE IInv'
  <2>1. /\ disk'.mirror = disk.mirror /\ Shapes'
        /\ job'.kind = job.kind /\ job'.events = job.events
        /\ UNCHANGED <<db, pc, reply>>
    BY <1>6 DEF WriteRun, WriteDelta, RemoveRun, Shapes
  <2> QED BY <2>1, QuietStep
<1>7. CASE WriteCatalog
  <2>1. /\ disk'.mirror = disk.mirror /\ Shapes'
        /\ pc \in Persisting /\ pc' \in Persisting /\ UNCHANGED <<db, job, reply>>
    BY <1>7 DEF WriteCatalog, Shapes, Persisting
  <2> QED BY <2>1, QuietStep
<1>8. CASE AnswerEvent
  <2>1. /\ pc = "remove" /\ job.kind = "event" /\ Acknowledge /\ UNCHANGED <<db, disk>>
    BY <1>8 DEF AnswerEvent
  <2> QED BY <2>1, AnswerKeeps DEF JobEvents, Persisting, Shapes
<1>9. CASE RewriteMirror
  <2>1. /\ pc = "remove" /\ job.kind = "delete"
        /\ Confirm /\ db' = db
        /\ IF MirrorOn THEN disk' = [disk EXCEPT !.mirror = db.events, !.torn = FALSE]
           ELSE disk' = disk
    BY <1>9 DEF RewriteMirror
  <2>2. disk' = [runs |-> disk'.runs, deltas |-> disk'.deltas, catalog |-> disk'.catalog,
                 mirror |-> disk'.mirror, torn |-> disk'.torn]
    BY <2>1 DEF Shapes
  <2>3. IF MirrorOn THEN disk'.mirror = db.events ELSE disk' = disk
    BY <2>1 DEF Shapes
  <2>4. \A e \in job.events : e \notin db.events /\ e \notin disk'.mirror
    BY <2>1, <2>3 DEF JobEvents, Persisting, MirrorUse
  <2> QED BY <2>1, <2>2, <2>3, <2>4, AnswerKeeps
<1> QED BY <1>1, <1>2, <1>3, <1>4, <1>5, <1>6, <1>7, <1>8, <1>9 DEF Persist

LEMMA FailureKeeps ==
  ASSUME IInv, Fault \/ Crash PROVE IInv'
<1> USE DEF IInv
<1>1. disk'.mirror = disk.mirror
      /\ disk' = [runs |-> disk'.runs, deltas |-> disk'.deltas, catalog |-> disk'.catalog,
                  mirror |-> disk'.mirror, torn |-> disk'.torn]
  BY DEF Fault, Crash, TearMirror, Shapes
<1>2. CASE Fault
  <2>1. Shapes' BY <1>1, <1>2 DEF Fault, Shapes, Idle
  <2> QED BY <1>1, <1>2, <2>1, QuietStep DEF Fault
<1>3. CASE Crash
  <2>1. Shapes' BY <1>1, <1>3 DEF Crash, Shapes, Idle
  <2> QED BY <1>1, <1>3, <2>1, QuietStep DEF Crash
<1> QED BY <1>2, <1>3

LEMMA NextInvariant == IInv /\ [Next]_vars => IInv'
<1> SUFFICES ASSUME IInv, [Next]_vars PROVE IInv'
  OBVIOUS
<1>1. CASE UNCHANGED vars
  BY <1>1 DEF vars, IInv, Shapes, JobEvents, Persisting, MirrorUse, AckedIsDurable,
              DeletedAreAbsent, Absent
<1>2. CASE Next
  BY <1>2, StartupKeeps, RequestKeeps, PersistKeeps, FailureKeeps DEF Next
<1> QED BY <1>1, <1>2

\* What clients have been told stays true, whatever crashes or fails.
THEOREM Invariant == Spec => []IInv
<1>1. Init => IInv BY InitInvariant
<1>2. IInv /\ [Next]_vars => IInv' BY NextInvariant
<1> QED BY <1>1, <1>2, PTL DEF Spec

\* An acknowledged event stays in the database until its session is deleted:
\* handle_client acknowledges after insert_event, and a duplicate only after
\* insert_event has seen it too.
THEOREM AcknowledgedDurable == Spec => []AckedIsDurable
<1>1. IInv => AckedIsDurable BY DEF IInv
<1> QED BY <1>1, Invariant, PTL

\* The events of a confirmed delete do not come back through a restart: the
\* mirror is rewritten before session.deleted is sent.
THEOREM DeletedForGood == Spec => []ConfirmedStaysDeleted
<1>1. IInv => ConfirmedStaysDeleted
  BY DEF IInv, DeletedAreAbsent, Absent, ConfirmedStaysDeleted
<1> QED BY <1>1, Invariant, PTL

-----------------------------------------------------------------------------
(* While no step fails, whatever crashes, each place of a request says how *)
(* far memory, database, checkpoint, files and mirror have come.           *)
Calm == used.faults = 0 /\ InStep

\* The places at which a server has loaded its events.
Up == {"idle", "insert", "duplicate", "append", "checkpoint", "files", "remove"}

\* What the database holds loads, with what the mirror adds to it.
EventsSound ==
    /\ db.events \subseteq Event /\ IsFiniteSet(db.events) /\ WellFormed(db.events)
    /\ disk.mirror \subseteq Event /\ IsFiniteSet(disk.mirror)
    /\ WellFormed(db.events \cup disk.mirror)

\* Memory is the fold of the database, and of the event about to be inserted.
MemorySound ==
    /\ pc = "insert" =>
          /\ job.events \subseteq Event /\ WellFormed(db.events \cup job.events)
          /\ mem = RebuildAll(db.events \cup job.events)
          /\ job.events \subseteq db.events => job.runs = {} /\ job.removed = {}
    /\ pc \in Up \ {"insert"} => mem = RebuildAll(db.events)
    /\ pc \in {"idle", "duplicate"} =>
          job.runs = {} /\ job.removed = {} /\ job.kind # "startup"

\* The checkpoint is the one of these events.
Saved(E) ==
    /\ db.rows = RebuildAll(E).runs /\ db.catalog = Catalog(RebuildAll(E))
    /\ db.count = Cardinality(E)

\* All Runs but those that the job is to write are there already.
Covers(f) == \A r \in DOMAIN mem.runs \ job.runs : r \in DOMAIN f /\ f[r] = mem.runs[r]

IsFcn(f) == f = [x \in DOMAIN f |-> f[x]]

\* A checkpoint that a restart may find is one of events that are all still in
\* the database: one of as many events is one of the same events.
CheckpointSound ==
    /\ IsFcn(db.rows)
    /\ db.catalog # NoCatalog => \E E \in SUBSET db.events : Saved(E)
    /\ pc \in {"idle", "insert", "duplicate", "files", "remove"} => Saved(db.events)
    /\ pc \in {"insert", "append", "checkpoint"} => Covers(db.rows)

\* A Run's snapshot is as memory has it or about to be written, and no other
\* Run has files but those about to be removed.
FilesSound ==
    /\ IsFcn(disk.runs)
    /\ pc \in Up => /\ Covers(disk.runs)
                    /\ job.removed \cap DOMAIN mem.runs = {}
    /\ pc \in Up /\ job.kind # "startup" =>
          DOMAIN disk.runs \cup DOMAIN disk.deltas \subseteq DOMAIN mem.runs \cup job.removed
    /\ pc = "remove" => job.runs = {}
    /\ pc \in {"idle", "insert", "duplicate", "remove"} =>
          disk.catalog = Catalog(RebuildAll(db.events))

\* The mirror holds what the database does, but for the request's events.
MirrorSound ==
    MirrorOn =>
       /\ pc \in {"idle", "insert", "duplicate", "load"} => disk.mirror = db.events
       /\ pc = "append" => disk.mirror \cup job.events = db.events
       /\ pc \in Persisting /\ job.kind # "delete" => disk.mirror = db.events

Sound == EventsSound /\ MemorySound /\ CheckpointSound /\ FilesSound /\ MirrorSound

\* Whatever failed.
Counted == /\ used \in [crashes : Nat, faults : Nat, ahead : BOOLEAN]
           /\ IsFcn(db.rows) /\ IsFcn(disk.runs)

-----------------------------------------------------------------------------
LEMMA CatalogRuns ==
  ASSUME NEW s
  PROVE  Catalog(s).runs = [r \in DOMAIN s.runs |-> Summary(s.runs[r])] /\ Catalog(s) # NoCatalog
<1>1. Catalog(s).runs = [r \in DOMAIN s.runs |-> Summary(s.runs[r])]
  BY DEF Catalog
<1>2. DOMAIN Catalog(s) = {"runs", "pending"} /\ DOMAIN NoCatalog = {}
  BY DEF Catalog, NoCatalog, Nothing
<1> QED BY <1>1, <1>2

LEMMA RebuiltFields ==
  ASSUME NEW E
  PROVE  /\ RebuildAll(E).events = E /\ IsFcn(RebuildAll(E).runs)
         /\ DOMAIN RebuildAll(E).runs = RunIds(E)
<1>1. RebuildAll(E).events = E
  BY DEF RebuildAll
<1> QED BY <1>1, RebuiltRuns DEF IsFcn

LEMMA SoundInit == Init => Sound
<1> SUFFICES ASSUME Init PROVE Sound
  OBVIOUS
<1>1. /\ db.events = {} /\ disk.mirror = {} /\ pc = "down" /\ db.catalog = NoCatalog
      /\ db.rows = Nothing /\ disk.runs = Nothing /\ job.kind = "none"
  BY DEF Init, Idle
<1>2. IsFiniteSet({}) /\ {} \subseteq Event
  BY FS_EmptySet
<1>3. WellFormed({})
  BY EmptyWellFormed
<1>4. IsFcn(Nothing)
  BY DEF IsFcn, Nothing
<1>5. EventsSound
  BY <1>1, <1>2, <1>3 DEF EventsSound
<1>6. CheckpointSound /\ FilesSound
  BY <1>1, <1>4 DEF CheckpointSound, FilesSound, Up
<1>7. MemorySound /\ MirrorSound
  BY <1>1 DEF MemorySound, MirrorSound, Up, Persisting
<1> QED BY <1>5, <1>6, <1>7 DEF Sound

\* A step of which only the program counter is the matter.
LEMMA SoundStartup ==
  ASSUME IInv, Counted, Sound, Start \/ ImportMirror \/ AlignMirror PROVE Sound'
<1> USE DEF Sound
<1>1. CASE Start
  <2>1. pc' \in {"import", "load"} /\ (MirrorOn => pc' = "import") /\ UNCHANGED <<mem, db, disk, job>>
    BY <1>1 DEF Start
  <2> QED BY <2>1 DEF EventsSound, MemorySound, CheckpointSound, FilesSound, MirrorSound,
                     Up, Persisting, Saved, Covers, IsFcn
<1>2. CASE ImportMirror
  <2>1. /\ pc' \in {"down", "align"} /\ UNCHANGED <<mem, disk, job>>
        /\ db'.rows = db.rows /\ db'.catalog = db.catalog /\ db'.count = db.count
        /\ db'.events = db.events \/ db'.events = db.events \cup disk.mirror
    BY <1>2 DEF ImportMirror, IInv, Shapes
  <2>2. EventsSound'
    <3>1. IsFiniteSet(db.events \cup disk.mirror)
      BY FS_Union DEF EventsSound
    <3>2. (db.events \cup disk.mirror) \cup disk.mirror = db.events \cup disk.mirror
      OBVIOUS
    <3>3. CASE db'.events = db.events
      BY <2>1, <3>3 DEF EventsSound
    <3>4. CASE db'.events = db.events \cup disk.mirror
      BY <2>1, <3>1, <3>2, <3>4 DEF EventsSound
    <3> QED BY <2>1, <3>3, <3>4
  <2>3. CheckpointSound'
    <3>1. \A E : Saved(E)' = Saved(E)
      BY <2>1 DEF Saved
    <3> QED BY <2>1, <3>1 DEF CheckpointSound, IsFcn
  <2> QED BY <2>1, <2>2, <2>3 DEF MemorySound, FilesSound, MirrorSound, Up, Persisting, IsFcn
<1>3. CASE AlignMirror
  <2>1. /\ pc' = "load" /\ UNCHANGED <<mem, db, job>> /\ disk'.mirror = db.events
        /\ disk'.runs = disk.runs
    BY <1>3 DEF AlignMirror, IInv, Shapes
  <2>2. EventsSound'
    <3>1. db.events \cup db.events = db.events
      OBVIOUS
    <3> QED BY <2>1, <3>1 DEF EventsSound
  <2>3. CheckpointSound'
    BY <2>1 DEF CheckpointSound, IsFcn, Saved
  <2> QED BY <2>1, <2>2, <2>3 DEF MemorySound, FilesSound, MirrorSound, Up, Persisting, IsFcn
<1> QED BY <1>1, <1>2, <1>3

LEMMA SoundLoad == ASSUME IInv, Counted, Sound, LoadProjection PROVE Sound'
<1> DEFINE E == db.events
           restored == Restorable /\ Catalog(Restored) = db.catalog
           loaded == IF restored THEN Restored ELSE RebuildAll(E)
<1>1. loaded = RebuildAll(E)
  <2>1. CASE restored
    <3>1. PICK D \in SUBSET E : Saved(D)
      BY <2>1 DEF Restorable, Sound, CheckpointSound
    <3>2. Cardinality(D) = Cardinality(E) /\ IsFiniteSet(E)
      BY <2>1, <3>1 DEF Restorable, Saved, Sound, EventsSound
    <3>3. D = E
      BY <3>2, FS_Subset
    <3>4. db.rows = RebuildAll(E).runs
      BY <3>1, <3>3 DEF Saved
    <3>5. [RebuildAll(E) EXCEPT !.runs = RebuildAll(E).runs] = RebuildAll(E)
      BY DEF RebuildAll
    <3> QED BY <2>1, <3>4, <3>5 DEF Restored
  <2> QED BY <2>1
<1>2. /\ mem' = RebuildAll(E) /\ pc' = "checkpoint" /\ UNCHANGED <<db, disk>>
      /\ job'.kind = "startup" /\ job'.runs = DOMAIN mem'.runs /\ job'.removed = {}
  <2>1. WellFormed(E) /\ pc = "load"
    BY DEF LoadProjection, Sound, EventsSound
  <2>2. mem' = loaded /\ job' = [Idle EXCEPT !.kind = "startup", !.runs = DOMAIN loaded.runs]
        /\ pc' = "checkpoint" /\ UNCHANGED <<db, disk>>
    BY <2>1 DEF LoadProjection
  <2> QED BY <1>1, <2>2 DEF Idle
<1>3. pc = "load"
  BY DEF LoadProjection
<1>4. EventsSound'
  BY <1>2 DEF Sound, EventsSound
<1>5. MemorySound'
  BY <1>2 DEF MemorySound, Up
<1>6. CheckpointSound'
  BY <1>2 DEF Sound, CheckpointSound, Saved, Covers, IsFcn
<1>7. FilesSound'
  BY <1>2 DEF Sound, FilesSound, Covers, IsFcn, Up
<1>8. MirrorSound'
  BY <1>2, <1>3 DEF Sound, MirrorSound, Persisting
<1> QED BY <1>4, <1>5, <1>6, <1>7, <1>8 DEF Sound

\* A new event in memory: the Runs that it does not update are where they were.
LEMMA SoundTake ==
  ASSUME IInv, Counted, Sound, NEW e \in Event, pc = "idle", Accepts(e), Take(e), pc' = "insert",
         UNCHANGED <<db, disk>>
  PROVE  Sound'
<1> DEFINE E == db.events
           F == E \cup {e}
           upd == InsertEvent(RebuildAll(E), e).updated
<1>1. mem = RebuildAll(E) /\ job.runs = {} /\ job.removed = {} /\ IsFiniteSet(E) /\ WellFormed(E)
  BY DEF Sound, MemorySound, EventsSound, Up
<1>2. e \notin E /\ e.source \in Sources /\ ~ConflictingLineage(FromSource(E, e.source))
  BY <1>1, RebuiltFields DEF Accepts, Event, WellFormed, SourceLoads, PartitionFails, Fails
<1>3. WellFormed(F)
  BY <1>1, <1>2, AcceptedExactly DEF Accepts
<1>4. InsertEvent(RebuildAll(E), e).store = RebuildAll(F)
  BY <1>1, <1>2, InsertMatches
<1>5. /\ upd \subseteq RunIds(F)
      /\ \A r \in RunIds(F) \ upd :
            r \in RunIds(E) /\ RebuildAll(F).runs[r] = RebuildAll(E).runs[r]
  <2> HIDE DEF E
  <2> QED BY <1>2, InsertedRuns
<1>6. /\ mem' = RebuildAll(F) /\ job'.kind = "event" /\ job'.events = {e} /\ job'.runs = upd
      /\ job'.removed = RunIds(E) \ RunIds(F)
  <2>1. /\ mem' = RebuildAll(F) /\ job'.kind = "event" /\ job'.events = {e} /\ job'.runs = upd
        /\ job'.removed = DOMAIN RebuildAll(E).runs \ DOMAIN RebuildAll(F).runs
    BY <1>1, <1>4 DEF Take
  <2> HIDE DEF E, F
  <2> QED BY <2>1, RebuiltFields
<1>7. DOMAIN mem.runs = RunIds(E) /\ DOMAIN mem'.runs = RunIds(F)
  <2> HIDE DEF E, F
  <2> QED BY <1>1, <1>6, RebuiltFields
<1> HIDE DEF upd
<1>8. EventsSound'
  BY DEF Sound, EventsSound
<1>9. MemorySound'
  BY <1>2, <1>3, <1>6 DEF MemorySound, Up
<1>10. CheckpointSound'
  <2>1. Saved(E)
    BY DEF Sound, CheckpointSound
  <2>2. Covers(db.rows)'
    <3> HIDE DEF F
    <3> QED BY <2>1, <1>1, <1>5, <1>6, <1>7 DEF Covers, Saved
  <2>3. \A D : Saved(D)' = Saved(D)
    BY DEF Saved
  <2> QED BY <2>2, <2>3 DEF Sound, CheckpointSound, IsFcn
<1>11. FilesSound'
  <2>1. Covers(disk.runs)'
    <3> HIDE DEF F, E
    <3> QED BY <1>1, <1>5, <1>6, <1>7 DEF Covers, Sound, FilesSound, Up
  <2>2. DOMAIN disk.runs \cup DOMAIN disk.deltas \subseteq DOMAIN mem.runs
    BY <1>1 DEF Sound, FilesSound, MemorySound, Up
  <2> HIDE DEF F, E
  <2>3. /\ (job.removed \cap DOMAIN mem.runs = {})'
        /\ (DOMAIN disk.runs \cup DOMAIN disk.deltas \subseteq DOMAIN mem.runs \cup job.removed)'
    BY <1>6, <1>7, <2>2
  <2> QED BY <2>1, <2>3 DEF Sound, FilesSound, IsFcn, Up
<1>12. MirrorSound'
  BY DEF Sound, MirrorSound, Persisting
<1> QED BY <1>8, <1>9, <1>10, <1>11, <1>12 DEF Sound

\* An event that memory knows.
LEMMA SoundKnown ==
  ASSUME IInv, Counted, Sound, NEW e, pc = "idle", e \in mem.events,
         job' = [Idle EXCEPT !.kind = "event", !.events = {e}], pc' = "insert",
         UNCHANGED <<mem, db, disk>>
  PROVE  Sound'
<1>1. /\ mem = RebuildAll(db.events) /\ job.runs = {} /\ job.removed = {}
  BY DEF Sound, MemorySound, Up
<1>2. e \in db.events /\ db.events \cup {e} = db.events
  BY <1>1, RebuiltFields
<1>3. job'.kind = "event" /\ job'.events = {e} /\ job'.runs = {} /\ job'.removed = {}
  BY DEF Idle
<1>4. MemorySound'
  BY <1>1, <1>2, <1>3 DEF Sound, EventsSound, MemorySound, Up
<1>5. Saved(db.events) /\ \A D : Saved(D)' = Saved(D)
  BY DEF Sound, CheckpointSound, Saved
<1>6. CheckpointSound'
  BY <1>1, <1>3, <1>5 DEF Sound, CheckpointSound, Covers, Saved, IsFcn
<1>7. FilesSound'
  BY <1>1, <1>3 DEF Sound, FilesSound, MemorySound, Covers, IsFcn, Up
<1> QED BY <1>4, <1>6, <1>7 DEF Sound, EventsSound, MirrorSound, Persisting

LEMMA SoundRequest ==
  ASSUME IInv, Counted, Sound, Request PROVE Sound'
<1>1. ASSUME NEW e, Refuse(e) PROVE Sound'
  BY <1>1 DEF Refuse, vars, Sound, EventsSound, MemorySound, CheckpointSound, FilesSound, MirrorSound,
              Saved, Covers
<1>2. ASSUME NEW e \in Offered, TakeEvent(e) PROVE Sound'
  BY <1>2, SoundTake, SoundKnown, ServerAssumption DEF TakeEvent
<1>3. ASSUME NEW e \in Renames, RenameSession(e) PROVE Sound'
  BY <1>3, SoundTake, ServerAssumption DEF RenameSession
<1>4. ASSUME NEW src \in Sources, NEW session \in Sessions, DeleteSession(src, session) PROVE Sound'
  <2> DEFINE E == db.events
             F == E \ TreeEvents(E, src, session)
             d == DeleteTree(RebuildAll(E), src, session)
             gone == StorageTree(E, src, session)
  <2>1. /\ mem = RebuildAll(E) /\ job.runs = {} /\ job.removed = {} /\ pc = "idle"
        /\ IsFiniteSet(E) /\ WellFormed(E) /\ E \subseteq Event
    BY <1>4 DEF Sound, MemorySound, EventsSound, Up, DeleteSession
  <2>2. gone = TreeEvents(E, src, session)
    BY DEF StorageTree, TreeEvents
  <2>3. /\ d.store = RebuildAll(F)
        /\ OfSource(RebuildAll(E).runs, src) \ d.updated = RunIds(E) \ RunIds(F)
        /\ \A r \in RunIds(F) \ d.updated :
              r \in RunIds(E) /\ RebuildAll(F).runs[r] = RebuildAll(E).runs[r]
    <3>1. IsFiniteSet(E)
      BY <2>1
    <3> HIDE DEF E, gone
    <3> QED BY <3>1, DeletedRuns
  <2>4. /\ db'.events = F /\ db'.rows = db.rows /\ db'.count = db.count
        /\ db'.catalog = IF F = E THEN db.catalog ELSE NoCatalog
        /\ mem' = d.store /\ job'.kind = "delete" /\ job'.runs = d.updated
        /\ job'.removed = OfSource(RebuildAll(E).runs, src) \ d.updated
        /\ UNCHANGED disk /\ pc' = "checkpoint"
    <3>1. gone = {} <=> F = E
      BY <2>2 DEF TreeEvents, FromSource
    <3>2. db' = [events |-> F, rows |-> db.rows,
                 catalog |-> IF gone = {} THEN db.catalog ELSE NoCatalog, count |-> db.count]
      BY <1>4, <2>2 DEF DeleteSession, IInv, Shapes
    <3>3. /\ mem' = d.store /\ job'.kind = "delete" /\ job'.runs = d.updated
          /\ job'.removed = OfSource(RebuildAll(E).runs, src) \ d.updated
          /\ UNCHANGED disk /\ pc' = "checkpoint"
      BY <1>4, <2>1 DEF DeleteSession, Idle
    <3> HIDE DEF F, d, gone
    <3> QED BY <3>1, <3>2, <3>3
  <2>5. WellFormed(F) /\ IsFiniteSet(F) /\ F \subseteq E
    BY <2>1, DeleteKeepsWellFormed, FS_Subset
  <2> HIDE DEF d, F
  <2>6. DOMAIN mem.runs = RunIds(E) /\ DOMAIN mem'.runs = RunIds(F)
    <3> HIDE DEF E
    <3> QED BY <2>1, <2>3, <2>4, RebuiltFields
  <2>7. EventsSound'
    <3>1. F \cup disk.mirror = E \/ F \cup disk.mirror = F
      BY <2>1, <2>5 DEF Sound, MirrorSound, IInv, MirrorUse
    <3> QED BY <2>1, <2>4, <2>5, <3>1 DEF Sound, EventsSound
  <2>8. MemorySound'
    BY <2>3, <2>4 DEF MemorySound, Up
  <2>9. CheckpointSound'
    <3>1. Saved(E)
      BY <2>1 DEF Sound, CheckpointSound
    <3>2. Covers(db.rows)'
      BY <3>1, <2>1, <2>3, <2>4, <2>6 DEF Covers, Saved
    <3>3. db'.catalog # NoCatalog => \E D \in SUBSET F : Saved(D)'
      BY <3>1, <2>4 DEF Saved
    <3> QED BY <2>4, <3>2, <3>3 DEF Sound, CheckpointSound, IsFcn
  <2>10. FilesSound'
    <3>1. Covers(disk.runs)'
      <4> HIDE DEF E
      <4> QED BY <2>1, <2>3, <2>4, <2>6 DEF Covers, Sound, FilesSound, Up
    <3>2. DOMAIN disk.runs \cup DOMAIN disk.deltas \subseteq DOMAIN mem.runs
      BY <2>1 DEF Sound, FilesSound, MemorySound, Up
    <3>3. /\ (job.removed \cap DOMAIN mem.runs = {})'
          /\ (DOMAIN disk.runs \cup DOMAIN disk.deltas \subseteq DOMAIN mem.runs \cup job.removed)'
      BY <2>3, <2>4, <2>6, <3>2
    <3> QED BY <2>4, <3>1, <3>3 DEF Sound, FilesSound, IsFcn, Up
  <2>11. MirrorSound'
    BY <2>4 DEF MirrorSound, Persisting
  <2> QED BY <2>7, <2>8, <2>9, <2>10, <2>11 DEF Sound
<1> QED BY <1>1, <1>2, <1>3, <1>4 DEF Request

LEMMA SoundInsert == ASSUME IInv, Counted, Sound, InsertDurably PROVE Sound'
<1> DEFINE E == db.events
<1>1. PICK e \in job.events :
        /\ db' = [db EXCEPT !.events = @ \cup {e}]
        /\ pc' = IF e \in E THEN "duplicate" ELSE IF MirrorOn THEN "append" ELSE "checkpoint"
        /\ pc = "insert" /\ UNCHANGED <<mem, disk, job>>
  BY DEF InsertDurably
<1>2. /\ db'.events = E \cup {e} /\ db'.rows = db.rows /\ db'.catalog = db.catalog
      /\ db'.count = db.count
  BY <1>1 DEF IInv, Shapes
<1>3. job.kind = "event" /\ job.events = {e}
  BY <1>1 DEF IInv, JobEvents
<1>4. /\ e \in Event /\ WellFormed(E \cup {e}) /\ mem = RebuildAll(E \cup {e})
      /\ e \in E => job.runs = {} /\ job.removed = {}
  BY <1>1, <1>3 DEF Sound, MemorySound
<1>5. disk.mirror = E \/ disk.mirror = {}
  BY <1>1 DEF Sound, MirrorSound, IInv, MirrorUse
<1>6. EventsSound'
  <2>1. IsFiniteSet(E \cup {e})
    BY FS_AddElement DEF Sound, EventsSound
  <2>2. (E \cup {e}) \cup disk.mirror = E \cup {e}
    BY <1>5
  <2> QED BY <1>1, <1>2, <1>4, <2>1, <2>2 DEF Sound, EventsSound
<1>7. MemorySound'
  BY <1>1, <1>2, <1>3, <1>4 DEF MemorySound, Up
<1>8. e \in E => db' = db
  BY <1>1 DEF IInv, Shapes
<1>9. Saved(E) /\ \A D : Saved(D)' = Saved(D)
  BY <1>1, <1>2 DEF Sound, CheckpointSound, Saved
<1>10. CheckpointSound'
  BY <1>1, <1>2, <1>8, <1>9 DEF Sound, CheckpointSound, Covers, IsFcn
<1>11. FilesSound'
  BY <1>1, <1>3, <1>8 DEF Sound, FilesSound, Covers, IsFcn, Up
<1>12. MirrorSound'
  BY <1>1, <1>2, <1>3, <1>5, <1>8 DEF Sound, MirrorSound, Persisting
<1> QED BY <1>6, <1>7, <1>10, <1>11, <1>12 DEF Sound

\* When the last file is written and removed, everything agrees.
LEMMA FilesMatch ==
  ASSUME Counted, Sound, pc \in Up, job.runs = {}
  PROVE  /\ \A r \in DOMAIN mem.runs : r \in DOMAIN disk.runs /\ disk.runs[r] = mem.runs[r]
         /\ DOMAIN disk.runs \subseteq DOMAIN mem.runs => disk.runs = mem.runs
<1>1. \A r \in DOMAIN mem.runs : r \in DOMAIN disk.runs /\ disk.runs[r] = mem.runs[r]
  BY DEF Sound, FilesSound, Covers
<1>2. IsFcn(mem.runs)
  BY RebuiltFields DEF Sound, MemorySound, Up
<1> QED BY <1>1, <1>2 DEF Counted, IsFcn

\* The mutex is released with nothing left to do.
LEMMA SoundDone ==
  ASSUME IInv, Counted, Sound, pc \in {"duplicate", "remove"}, job.kind # "startup", job.removed = {},
         pc' = "idle", job' = Idle, UNCHANGED <<mem, db>>,
         disk'.runs = disk.runs, disk'.deltas = disk.deltas, disk'.catalog = disk.catalog,
         \/ disk'.mirror = disk.mirror /\ (job.kind = "event" \/ ~MirrorOn)
         \/ disk'.mirror = db.events
  PROVE  Sound'
<1>1. job'.kind = "none" /\ job'.runs = {} /\ job'.removed = {}
  BY DEF Idle
<1>2. job.runs = {} /\ mem = RebuildAll(db.events)
  BY DEF Sound, MemorySound, FilesSound, Up
<1>3. EventsSound'
  <2>1. db.events \cup db.events = db.events
    OBVIOUS
  <2> QED BY <2>1 DEF Sound, EventsSound
<1>4. MemorySound'
  BY <1>1, <1>2 DEF MemorySound, Up
<1>5. CheckpointSound'
  BY DEF Sound, CheckpointSound, Saved, IsFcn
<1>6. FilesSound'
  BY <1>1, <1>2 DEF Sound, FilesSound, Covers, IsFcn, Up
<1>7. MirrorSound'
  BY DEF Sound, MirrorSound, Persisting
<1> QED BY <1>3, <1>4, <1>5, <1>6, <1>7 DEF Sound

LEMMA SoundAppend == ASSUME IInv, Counted, Sound, AppendMirror PROVE Sound'
<1>1. /\ pc = "append" /\ pc' = "checkpoint" /\ UNCHANGED <<mem, db, job>> /\ MirrorOn
      /\ disk'.runs = disk.runs /\ disk'.deltas = disk.deltas /\ disk'.mirror = disk.mirror \cup job.events
  BY DEF AppendMirror, IInv, Shapes, MirrorUse
<1>2. disk'.mirror = db.events
  BY <1>1 DEF Sound, MirrorSound
<1>3. EventsSound'
  <2>1. db.events \cup db.events = db.events
    OBVIOUS
  <2> QED BY <1>1, <1>2, <2>1 DEF Sound, EventsSound
<1>4. MemorySound' /\ MirrorSound'
  BY <1>1, <1>2 DEF Sound, MemorySound, MirrorSound, Up, Persisting
<1>5. CheckpointSound' /\ FilesSound'
  BY <1>1 DEF Sound, CheckpointSound, FilesSound, Saved, Covers, IsFcn, Up
<1> QED BY <1>3, <1>4, <1>5 DEF Sound

LEMMA SoundCheckpoint == ASSUME IInv, Counted, Sound, SaveCheckpoint PROVE Sound'
<1> DEFINE E == db.events
           rows == [r \in DOMAIN db.rows \cup job.runs |->
                      IF r \in job.runs THEN mem.runs[r] ELSE db.rows[r]]
<1>1. /\ pc = "checkpoint" /\ pc' = "files" /\ UNCHANGED <<mem, disk, job>>
      /\ db'.events = E /\ db'.rows = Dom(rows, DOMAIN mem.runs) /\ db'.catalog = Catalog(mem)
      /\ db'.count = IF job.kind = "delete" THEN Cardinality(mem.events) ELSE Cardinality(E)
  BY DEF SaveCheckpoint, IInv, Shapes
<1>2. mem = RebuildAll(E) /\ mem.events = E /\ IsFcn(mem.runs)
  BY <1>1, RebuiltFields DEF Sound, MemorySound, Up
<1>3. Covers(db.rows)
  BY <1>1 DEF Sound, CheckpointSound
<1>4. db'.rows = mem.runs
  BY <1>1, <1>2, <1>3, ZenonT(30) DEF Dom, Covers, IsFcn
<1>5. Saved(E)'
  BY <1>1, <1>2, <1>4 DEF Saved
<1>6. EventsSound' /\ MemorySound' /\ MirrorSound'
  BY <1>1 DEF Sound, EventsSound, MemorySound, MirrorSound, Up, Persisting
<1>7. CheckpointSound'
  BY <1>1, <1>2, <1>4, <1>5 DEF CheckpointSound
<1>8. FilesSound'
  BY <1>1 DEF Sound, FilesSound, Covers, IsFcn, Up
<1> QED BY <1>6, <1>7, <1>8 DEF Sound

\* A file is written or removed.
LEMMA SoundFile ==
  ASSUME IInv, Counted, Sound,
         \/ \E r \in DOMAIN mem.runs : WriteRun(r) \/ WriteDelta(r)
         \/ \E r \in job.removed : RemoveRun(r)
         \/ WriteCatalog
  PROVE  Sound'
<1>1. /\ pc \in {"files", "remove"} /\ pc' \in {pc, "remove"} /\ UNCHANGED <<mem, db>>
      /\ job'.kind = job.kind /\ disk'.mirror = disk.mirror
  BY DEF WriteRun, WriteDelta, RemoveRun, WriteCatalog, IInv, Shapes
<1>2. EventsSound' /\ MemorySound' /\ MirrorSound' /\ CheckpointSound'
  BY <1>1 DEF Sound, EventsSound, MemorySound, MirrorSound, CheckpointSound, Up, Persisting, Saved, IsFcn
<1>3. ASSUME NEW r \in DOMAIN mem.runs, WriteRun(r) PROVE FilesSound'
  <2>1. /\ disk'.runs = Put(disk.runs, r, mem.runs[r]) /\ disk'.deltas = disk.deltas
        /\ job'.runs = job.runs \ {r} /\ job'.removed = job.removed /\ pc = "files" /\ pc' = "files"
        /\ UNCHANGED mem
    BY <1>3 DEF WriteRun, IInv, Shapes
  <2>2. Covers(disk.runs)'
    BY <2>1 DEF Sound, FilesSound, Covers, Put, Up
  <2>3. DOMAIN disk'.runs = DOMAIN disk.runs \cup {r} /\ IsFcn(disk'.runs)
    BY <2>1 DEF Put, IsFcn
  <2> QED BY <1>1, <2>1, <2>2, <2>3 DEF Sound, FilesSound, Up
<1>4. ASSUME NEW r \in DOMAIN mem.runs, WriteDelta(r) PROVE FilesSound'
  <2>1. /\ disk'.runs = disk.runs /\ DOMAIN disk'.deltas = DOMAIN disk.deltas \cup {r}
        /\ job'.runs = job.runs /\ job'.removed = job.removed /\ pc = "files" /\ pc' = "files"
        /\ UNCHANGED mem
    BY <1>4 DEF WriteDelta, Put, IInv, Shapes
  <2> QED BY <1>1, <2>1 DEF Sound, FilesSound, Covers, Up, IsFcn
<1>5. ASSUME NEW r \in job.removed, RemoveRun(r) PROVE FilesSound'
  <2>1. /\ disk'.runs = Dom(disk.runs, DOMAIN disk.runs \ {r})
        /\ disk'.deltas = Dom(disk.deltas, DOMAIN disk.deltas \ {r}) /\ disk'.catalog = disk.catalog
        /\ job'.runs = job.runs /\ job'.removed = job.removed \ {r} /\ pc = "remove" /\ pc' = "remove"
        /\ UNCHANGED <<mem, db>>
    BY <1>5 DEF RemoveRun, IInv, Shapes
  <2>2. r \notin DOMAIN mem.runs
    BY <2>1 DEF Sound, FilesSound, Up
  <2>3. /\ DOMAIN disk'.runs = DOMAIN disk.runs \ {r} /\ IsFcn(disk'.runs)
        /\ \A q \in DOMAIN disk'.runs : disk'.runs[q] = disk.runs[q]
        /\ DOMAIN disk'.deltas = DOMAIN disk.deltas \ {r}
    BY <2>1 DEF Dom, IsFcn
  <2>4. Covers(disk.runs)'
    BY <2>1, <2>2, <2>3 DEF Sound, FilesSound, Covers, Up
  <2> QED BY <1>1, <2>1, <2>3, <2>4 DEF Sound, FilesSound, Up
<1>6. ASSUME WriteCatalog PROVE FilesSound'
  <2>1. /\ disk'.runs = disk.runs /\ disk'.deltas = disk.deltas /\ disk'.catalog = Catalog(mem)
        /\ job.runs = {} /\ UNCHANGED <<mem, db, job>> /\ pc = "files" /\ pc' = "remove"
    BY <1>6 DEF WriteCatalog, IInv, Shapes
  <2>2. mem = RebuildAll(db.events)
    BY <2>1 DEF Sound, MemorySound, Up
  <2> QED BY <2>1, <2>2 DEF Sound, FilesSound, Covers, Up, IsFcn
<1> QED BY <1>2, <1>3, <1>4, <1>5, <1>6 DEF Sound

LEMMA SoundServe == ASSUME IInv, Counted, Sound, Serve PROVE Sound'
<1>1. /\ pc = "remove" /\ pc' = "idle" /\ job.kind = "startup" /\ job' = Idle /\ UNCHANGED <<mem, db>>
      /\ disk'.runs = Dom(disk.runs, DOMAIN mem.runs) /\ disk'.catalog = disk.catalog
      /\ disk'.deltas = Dom(disk.deltas, DOMAIN mem.runs) /\ disk'.mirror = disk.mirror
  BY DEF Serve, IInv, Shapes
<1>2. job.runs = {} /\ job'.kind = "none" /\ job'.runs = {} /\ job'.removed = {}
  BY <1>1 DEF Sound, FilesSound, Idle
<1>3. \A r \in DOMAIN mem.runs : r \in DOMAIN disk.runs /\ disk.runs[r] = mem.runs[r]
  BY <1>1, <1>2, FilesMatch DEF Up
<1>4. /\ DOMAIN disk'.runs = DOMAIN mem.runs /\ IsFcn(disk'.runs)
      /\ \A r \in DOMAIN mem.runs : disk'.runs[r] = mem.runs[r]
      /\ DOMAIN disk'.deltas \subseteq DOMAIN mem.runs
  BY <1>1, <1>3 DEF Dom, IsFcn
<1>5. FilesSound'
  BY <1>1, <1>2, <1>4 DEF Sound, FilesSound, Covers, Up
<1>6. EventsSound' /\ MemorySound' /\ MirrorSound' /\ CheckpointSound'
  BY <1>1, <1>2 DEF Sound, EventsSound, MemorySound, MirrorSound, CheckpointSound, Up, Persisting, Saved, IsFcn
<1> QED BY <1>5, <1>6 DEF Sound

LEMMA SoundCrash == ASSUME IInv, Counted, Sound, Crash PROVE Sound'
<1>1. /\ pc' = "down" /\ job' = Idle /\ UNCHANGED db
      /\ disk'.runs = disk.runs /\ disk'.mirror = disk.mirror
  BY DEF Crash, TearMirror, IInv, Shapes
<1>2. job'.kind = "none"
  BY <1>1 DEF Idle
<1> QED BY <1>1, <1>2 DEF Sound, EventsSound, MemorySound, CheckpointSound, FilesSound, MirrorSound,
               Saved, IsFcn, Up, Persisting

LEMMA UsedNext ==
  ASSUME Counted, Next PROVE UNCHANGED used \/ InsertRefused \/ Fault \/ Crash
<1>1. CASE Startup
  BY <1>1 DEF Startup, Start, ImportMirror, AlignMirror, LoadProjection, Serve
<1>2. CASE Request
  BY <1>2 DEF Request, Refuse, vars, TakeEvent, RenameSession, DeleteSession
<1>3. CASE Persist
  BY <1>3 DEF Persist, InsertDurably, AnswerDuplicate, AppendMirror, SaveCheckpoint, WriteCatalog,
              AnswerEvent, RewriteMirror, WriteRun, WriteDelta, RemoveRun
<1> QED BY <1>1, <1>2, <1>3 DEF Next

LEMMA MapsNext ==
  ASSUME IInv, Next
  PROVE  /\ db'.rows = db.rows \/ \E f, S : db'.rows = Dom(f, S)
         /\ \/ disk'.runs = disk.runs
            \/ \E f, S : disk'.runs = Dom(f, S)
            \/ \E f, x, v : disk'.runs = Put(f, x, v)
<1> USE DEF IInv, Shapes
<1>1. CASE Startup
  <2>1. CASE Start \/ ImportMirror \/ AlignMirror \/ LoadProjection
    BY <2>1 DEF Start, ImportMirror, AlignMirror, LoadProjection
  <2>2. CASE Serve
    <3>1. disk'.runs = Dom(disk.runs, DOMAIN mem.runs) /\ UNCHANGED db
      BY <2>2 DEF Serve
    <3> QED BY <3>1
  <2> QED BY <1>1, <2>1, <2>2 DEF Startup
<1>2. CASE Request
  BY <1>2 DEF Request, Refuse, vars, TakeEvent, RenameSession, DeleteSession
<1>3. CASE Fault \/ Crash
  BY <1>3 DEF Fault, Crash, TearMirror
<1>4. CASE InsertDurably \/ InsertRefused \/ AnswerDuplicate \/ AppendMirror \/ WriteCatalog
  BY <1>4 DEF InsertDurably, InsertRefused, AnswerDuplicate, AppendMirror, WriteCatalog
<1>5. CASE SaveCheckpoint
  <2> DEFINE rows == [r \in DOMAIN db.rows \cup job.runs |->
                        IF r \in job.runs THEN mem.runs[r] ELSE db.rows[r]]
  <2>1. db'.rows = Dom(rows, DOMAIN mem.runs) /\ UNCHANGED disk
    BY <1>5 DEF SaveCheckpoint
  <2> QED BY <2>1
<1>6. CASE AnswerEvent \/ RewriteMirror
  BY <1>6 DEF AnswerEvent, RewriteMirror
<1>7. ASSUME NEW r, WriteRun(r) \/ WriteDelta(r) \/ RemoveRun(r)
      PROVE  /\ UNCHANGED db
             /\ \/ disk'.runs = disk.runs
                \/ disk'.runs = Dom(disk.runs, DOMAIN disk.runs \ {r})
                \/ disk'.runs = Put(disk.runs, r, mem.runs[r])
  BY <1>7 DEF WriteRun, WriteDelta, RemoveRun
<1> QED BY <1>1, <1>2, <1>3, <1>4, <1>5, <1>6, <1>7 DEF Next, Persist

LEMMA CountedNext == ASSUME IInv, Counted, [Next]_vars PROVE Counted'
<1>1. CASE UNCHANGED vars
  BY <1>1 DEF vars, Counted, IsFcn
<1>2. CASE Next
  <2>1. used' \in [crashes : Nat, faults : Nat, ahead : BOOLEAN]
    <3>1. CASE InsertRefused
      BY <3>1 DEF InsertRefused, Counted
    <3>2. CASE Fault
      <4> DEFINE ahead == used.ahead \/ pc = "insert"
      <4>1. used' = [used EXCEPT !.faults = used.faults + 1, !.ahead = ahead]
        BY <3>2 DEF Fault
      <4>2. ahead \in BOOLEAN
        OBVIOUS
      <4>3. used.faults + 1 \in Nat
        BY DEF Counted
      <4> DEFINE faults == used.faults + 1
      <4> HIDE DEF ahead, faults
      <4>4. used' = [used EXCEPT !.faults = faults, !.ahead = ahead]
        BY <4>1 DEF faults
      <4>5. faults \in Nat
        BY <4>3 DEF faults
      <4> QED BY <4>2, <4>4, <4>5 DEF Counted
    <3>3. CASE Crash
      BY <3>3 DEF Crash, Counted
    <3> QED BY <1>2, <3>1, <3>2, <3>3, UsedNext DEF Counted
  <2>2. \A f, S : IsFcn(Dom(f, S))
    BY DEF IsFcn, Dom
  <2>3. \A f, x, v : IsFcn(Put(f, x, v))
    BY DEF IsFcn, Put
  <2>4. IsFcn(db'.rows) /\ IsFcn(disk'.runs)
    <3> HIDE DEF Next
    <3> QED BY <1>2, <2>2, <2>3, MapsNext DEF Counted
  <2> QED BY <2>1, <2>4 DEF Counted, IsFcn
<1> QED BY <1>1, <1>2

\* A step that no fault or refusal has preceded.
LEMMA SoundNext ==
  ASSUME IInv, Counted, Calm => Sound, [Next]_vars PROVE (Calm => Sound)'
<1>1. CASE UNCHANGED vars
  BY <1>1 DEF vars, Calm, InStep, Sound, EventsSound, MemorySound, CheckpointSound, FilesSound, MirrorSound,
              Saved, Covers
<1>2. CASE Next
  <2> SUFFICES ASSUME Calm' PROVE Sound'
    OBVIOUS
  <2>1. ~Fault /\ ~InsertRefused /\ Calm
    <3>1. ~InsertRefused
      BY DEF InsertRefused, Calm, InStep, Counted
    <3>2. ~Fault
      <4> SUFFICES ASSUME Fault PROVE FALSE
        OBVIOUS
      <4>1. used' = [used EXCEPT !.faults = @ + 1, !.ahead = @ \/ pc = "insert"]
        BY DEF Fault
      <4>2. used'.faults = used.faults + 1 /\ used.faults \in Nat
        BY <4>1 DEF Counted
      <4> QED BY <4>2 DEF Calm
    <3>3. UNCHANGED used \/ Crash
      BY <1>2, <3>1, <3>2, UsedNext
    <3>4. used'.faults = used.faults /\ used'.ahead = used.ahead
      BY <3>3 DEF Crash, Counted
    <3> QED BY <3>1, <3>2, <3>4 DEF Calm, InStep
  <2>2. Sound
    BY <2>1
  <2>3. CASE Startup
    BY <2>2, <2>3, SoundStartup, SoundLoad, SoundServe DEF Startup
  <2>4. CASE Request
    BY <2>2, <2>4, SoundRequest
  <2>5. CASE AnswerDuplicate \/ AnswerEvent \/ RewriteMirror
    <3>1. CASE AnswerDuplicate
      <4>1. pc = "duplicate" /\ job.kind = "event" /\ job.removed = {}
            /\ pc' = "idle" /\ job' = Idle /\ UNCHANGED <<mem, db, disk>>
        BY <2>2, <3>1 DEF AnswerDuplicate, Acknowledge, Answered, IInv, JobEvents, Sound, MemorySound
      <4> QED BY <2>2, <4>1, SoundDone
    <3>2. CASE AnswerEvent
      <4>1. pc = "remove" /\ job.kind = "event" /\ job.removed = {}
            /\ pc' = "idle" /\ job' = Idle /\ UNCHANGED <<mem, db, disk>>
        BY <3>2 DEF AnswerEvent, Acknowledge, Answered
      <4> QED BY <2>2, <4>1, SoundDone
    <3>3. CASE RewriteMirror
      <4>1. pc = "remove" /\ job.kind = "delete" /\ job.removed = {}
            /\ pc' = "idle" /\ job' = Idle /\ UNCHANGED <<mem, db>>
            /\ IF MirrorOn THEN disk' = [disk EXCEPT !.mirror = db.events, !.torn = FALSE] ELSE disk' = disk
        BY <3>3 DEF RewriteMirror, Confirm, Answered
      <4>2. /\ disk'.runs = disk.runs /\ disk'.deltas = disk.deltas /\ disk'.catalog = disk.catalog
            /\ disk'.mirror = db.events \/ (disk'.mirror = disk.mirror /\ ~MirrorOn)
        BY <4>1 DEF IInv, Shapes
      <4> QED BY <2>2, <4>1, <4>2, SoundDone
    <3> QED BY <2>5, <3>1, <3>2, <3>3
  <2>6. CASE InsertDurably \/ AppendMirror \/ SaveCheckpoint
    BY <2>2, <2>6, SoundInsert, SoundAppend, SoundCheckpoint
  <2>7. CASE \/ \E r \in DOMAIN mem.runs : WriteRun(r) \/ WriteDelta(r)
             \/ \E r \in job.removed : RemoveRun(r)
             \/ WriteCatalog
    BY <2>2, <2>7, SoundFile
  <2>8. CASE Crash
    BY <2>2, <2>8, SoundCrash
  <2> QED BY <1>2, <2>1, <2>3, <2>4, <2>5, <2>6, <2>7, <2>8 DEF Next, Persist
<1> QED BY <1>1, <1>2

LEMMA CountedInit == Init => Counted
<1>1. IsFcn(Nothing)
  BY DEF IsFcn, Nothing
<1> QED BY <1>1 DEF Init, Counted

\* What holds as long as no step has failed, whatever crashed.
THEOREM CalmIsSound == Spec => [](IInv /\ Counted /\ (Calm => Sound))
<1>1. Init => IInv /\ Counted /\ (Calm => Sound)
  BY InitInvariant, CountedInit, SoundInit
<1>2. IInv /\ Counted /\ (Calm => Sound) /\ [Next]_vars => (IInv /\ Counted /\ (Calm => Sound))'
  BY NextInvariant, CountedNext, SoundNext
<1> QED BY <1>1, <1>2, PTL DEF Spec

\* A saved projection of well-formed events can be restored.
LEMMA SavedRestores ==
  ASSUME WellFormed(db.events), Saved(db.events) PROVE Restorable
<1> DEFINE E == db.events
<1>1. \A src \in Sources : ~PartitionFails(E, src)
  BY DEF WellFormed, SourceLoads
<1>2. db.catalog # NoCatalog /\ DOMAIN db.catalog.runs = RunIds(E) /\ db.count = Cardinality(E)
  BY CatalogRuns, RebuiltFields DEF Saved
<1>3. DOMAIN db.rows = RunIds(E) /\ \A r \in RunIds(E) : db.rows[r] = GroupOf(FromSource(E, r[1]), r)
  <2> HIDE DEF E
  <2> QED BY RebuiltRuns, ZenonT(30) DEF Saved, E
<1> QED BY <1>1, <1>2, <1>3 DEF Restorable

\* Between requests memory, database, checkpoint, files and mirror agree as long
\* as no step fails, through any crashes and restarts.
THEOREM IdleServersAgree == Spec => []IdleAgrees
<1>1. IInv /\ Counted /\ (Calm => Sound) => IdleAgrees
  <2> SUFFICES ASSUME IInv, Counted, Sound, pc = "idle" PROVE Agreement
    BY DEF IdleAgrees, Calm
  <2>1. /\ mem = RebuildAll(db.events) /\ job.runs = {} /\ job.removed = {} /\ job.kind # "startup"
        /\ WellFormed(db.events) /\ Saved(db.events)
        /\ disk.catalog = Catalog(mem) /\ (MirrorOn => disk.mirror = db.events)
    BY DEF Sound, MemorySound, EventsSound, CheckpointSound, FilesSound, MirrorSound, Up
  <2>2. DOMAIN disk.runs \cup DOMAIN disk.deltas \subseteq DOMAIN mem.runs
    BY <2>1 DEF Sound, FilesSound, Up
  <2>3. disk.runs = mem.runs
    BY <2>1, <2>2, FilesMatch DEF Up
  <2>4. Restorable
    BY <2>1, SavedRestores
  <2> QED BY <2>1, <2>2, <2>3, <2>4 DEF Agreement, Saved
<1> QED BY <1>1, CalmIsSound, PTL

\* As long as no step fails, a catalog is written only when the snapshot of every
\* Run it lists is there and says what the catalog says.
THEOREM CatalogAlwaysCommits == Spec => CatalogCommits
<1> DEFINE Commits == used.faults = 0 /\ InStep /\ disk'.catalog # disk.catalog => SnapshotsThere'
<1>1. IInv /\ Counted /\ (Calm => Sound) /\ [Next]_vars => [Commits]_vars
  <2> SUFFICES ASSUME IInv, Counted, Calm, Sound, Next, disk'.catalog # disk.catalog
               PROVE  SnapshotsThere'
    BY DEF Calm
  <2>1. WriteCatalog
    <3> USE DEF IInv, Shapes
    <3>1. ~Startup
      BY DEF Startup, Start, ImportMirror, AlignMirror, LoadProjection, Serve
    <3>2. ~Request
      BY DEF Request, Refuse, vars, TakeEvent, RenameSession, DeleteSession
    <3>3. ~Fault /\ ~Crash
      BY DEF Fault, Crash, TearMirror
    <3>4. ~InsertDurably /\ ~InsertRefused /\ ~AnswerDuplicate /\ ~AppendMirror /\ ~SaveCheckpoint
          /\ ~AnswerEvent
      BY DEF InsertDurably, InsertRefused, AnswerDuplicate, AppendMirror, SaveCheckpoint, AnswerEvent
    <3>5. ~RewriteMirror
      BY DEF RewriteMirror
    <3>6. ASSUME NEW r PROVE ~WriteRun(r) /\ ~WriteDelta(r) /\ ~RemoveRun(r)
      BY DEF WriteRun, WriteDelta, RemoveRun
    <3> QED BY <3>1, <3>2, <3>3, <3>4, <3>5, <3>6 DEF Next, Persist
  <2>2. pc = "files" /\ job.runs = {} /\ disk'.runs = disk.runs /\ disk'.catalog = Catalog(mem)
    BY <2>1 DEF WriteCatalog, IInv, Shapes
  <2>3. \A r \in DOMAIN mem.runs : r \in DOMAIN disk.runs /\ disk.runs[r] = mem.runs[r]
    BY <2>2, FilesMatch DEF Up
  <2>4. disk'.catalog.runs = [r \in DOMAIN mem.runs |-> Summary(mem.runs[r])]
    BY <2>2, CatalogRuns
  <2>5. \A r \in DOMAIN mem.runs :
           r \in DOMAIN disk'.runs /\ Summary(disk'.runs[r]) = disk'.catalog.runs[r]
    BY <2>2, <2>3, <2>4
  <2> QED BY <2>4, <2>5 DEF SnapshotsThere
<1> QED BY <1>1, CalmIsSound, PTL DEF Spec, CatalogCommits

-----------------------------------------------------------------------------
(* Restarts after any failures.                                            *)

\* What serve may load: the rebuilt projection, but for a checkpointed Run the
\* snapshot that its row has, whose size is the Run's.
Loaded(s) ==
    /\ s = [RebuildAll(db.events) EXCEPT !.runs = s.runs] /\ IsFcn(s.runs)
    /\ DOMAIN s.runs = RunIds(db.events)
    /\ \A src \in Sources : ~PartitionFails(db.events, src)
    /\ \A r \in RunIds(db.events) :
          Cardinality(s.runs[r]) = Cardinality(GroupOf(FromSource(db.events, r[1]), r))

CheckpointHolds == db.rows = mem.runs /\ db.catalog = Catalog(mem) /\ db.count = Cardinality(db.events)

Booting ==
    /\ pc = "load" /\ MirrorOn => disk.mirror = db.events
    /\ job.kind = "startup" =>
          /\ pc \in Persisting /\ Loaded(mem) /\ job.removed = {} /\ job.deltas = {}
          /\ MirrorOn => disk.mirror = db.events
          /\ Covers(disk.runs)
          /\ pc = "checkpoint" => job.runs = DOMAIN mem.runs
          /\ pc \in {"files", "remove"} => CheckpointHolds
          /\ pc = "remove" => job.runs = {} /\ disk.catalog = Catalog(mem)

\* When the server serves again, whatever crashed or failed before, memory holds
\* the events of the database, the checkpoint can be restored, and checkpoint,
\* files, catalog and mirror are those of memory.
RestartAgrees ==
    [][ job.kind = "startup" /\ pc' = "idle" =>
          (/\ mem = [RebuildAll(db.events) EXCEPT !.runs = mem.runs]
           /\ Restorable /\ db.catalog = Catalog(mem) /\ db.rows = mem.runs
           /\ disk.catalog = Catalog(mem) /\ disk.runs = mem.runs
           /\ DOMAIN disk.deltas \subseteq DOMAIN mem.runs
           /\ MirrorOn => disk.mirror = db.events)' ]_vars

LEMMA LoadedProjection ==
  ASSUME IInv, Counted, LoadProjection, pc' # "down" PROVE Loaded(mem)' /\ job'.runs = DOMAIN mem'.runs
<1> DEFINE E == db.events
           R == RebuildAll(E)
<1>1. /\ UNCHANGED db
      /\ \/ Restorable /\ mem' = Restored
         \/ WellFormed(E) /\ mem' = R
      /\ job'.runs = DOMAIN mem'.runs
  BY DEF LoadProjection, Idle
<1>2. R = [R EXCEPT !.runs = R.runs] /\ IsFcn(R.runs) /\ DOMAIN R.runs = RunIds(E)
  <2>1. R = [R EXCEPT !.runs = R.runs]
    BY DEF RebuildAll
  <2> HIDE DEF E
  <2> QED BY <2>1, RebuiltFields
<1>3. CASE Restorable /\ mem' = Restored
  <2>1. mem' = [R EXCEPT !.runs = db.rows]
    BY <1>3 DEF Restored
  <2>2. mem'.runs = db.rows
    BY <2>1 DEF RebuildAll
  <2> QED BY <1>1, <1>3, <2>1, <2>2 DEF Loaded, Restorable, Counted, IsFcn
<1>4. CASE WellFormed(E) /\ mem' = R
  <2>1. \A src \in Sources : ~PartitionFails(E, src)
    BY <1>4 DEF WellFormed, SourceLoads
  <2>2. \A r \in RunIds(E) : R.runs[r] = GroupOf(FromSource(E, r[1]), r)
    <3> HIDE DEF E
    <3> QED BY RebuiltRuns
  <2> HIDE DEF R
  <2> QED BY <1>1, <1>2, <1>4, <2>1, <2>2 DEF Loaded, IsFcn, R
<1> QED BY <1>1, <1>3, <1>4

LEMMA BootingStartup == ASSUME IInv, Counted, Booting, Startup PROVE Booting'
<1>1. CASE Start \/ ImportMirror
  <2>1. pc \in {"down", "import"} /\ UNCHANGED job /\ (MirrorOn => pc' # "load")
    BY <1>1 DEF Start, ImportMirror
  <2> QED BY <2>1 DEF Booting, Persisting
<1>2. CASE AlignMirror
  <2>1. pc = "align" /\ UNCHANGED <<db, job>> /\ disk'.mirror = db.events
    BY <1>2 DEF AlignMirror, IInv, Shapes
  <2> QED BY <2>1 DEF Booting, Persisting
<1>3. CASE LoadProjection
  <2>1. CASE pc' = "down"
    <3>1. pc = "load" /\ UNCHANGED job
      BY <1>3, <2>1 DEF LoadProjection
    <3> QED BY <2>1, <3>1 DEF Booting, Persisting
  <2>2. CASE pc' # "down"
    <3>1. /\ pc = "load" /\ pc' = "checkpoint" /\ UNCHANGED <<db, disk>>
          /\ job'.removed = {} /\ job'.deltas = {}
      BY <1>3, <2>2 DEF LoadProjection, Idle
    <3>2. Loaded(mem)' /\ job'.runs = DOMAIN mem'.runs
      BY <1>3, <2>2, LoadedProjection
    <3>3. Covers(disk.runs)'
      BY <3>2 DEF Covers
    <3> QED BY <3>1, <3>2, <3>3 DEF Booting, Persisting
  <2> QED BY <2>1, <2>2
<1>4. CASE Serve
  <2>1. pc' = "idle" /\ job'.kind = "none"
    BY <1>4 DEF Serve, Idle
  <2> QED BY <2>1 DEF Booting
<1> QED BY <1>1, <1>2, <1>3, <1>4 DEF Startup

LEMMA BootingOther ==
  ASSUME IInv, Booting, Next, job'.kind # "startup", pc' # "load" PROVE Booting'
BY DEF Booting

LEMMA BootingPersist ==
  ASSUME IInv, Counted, Booting, Persist, job'.kind = "startup" PROVE Booting'
<1>1. CASE \/ InsertDurably \/ InsertRefused \/ AnswerDuplicate \/ AppendMirror \/ AnswerEvent \/ RewriteMirror
  <2>1. ~AnswerDuplicate /\ ~AnswerEvent /\ ~RewriteMirror /\ ~InsertRefused
    BY DEF AnswerDuplicate, AnswerEvent, RewriteMirror, InsertRefused, Acknowledge, Confirm, Answered, Idle
  <2>2. pc \in {"insert", "append"} /\ UNCHANGED job
    BY <1>1, <2>1 DEF InsertDurably, AppendMirror
  <2> QED BY <2>2 DEF IInv, JobEvents
<1>2. CASE SaveCheckpoint
  <2> DEFINE rows == [r \in DOMAIN db.rows \cup job.runs |->
                        IF r \in job.runs THEN mem.runs[r] ELSE db.rows[r]]
  <2>1. /\ pc = "checkpoint" /\ pc' = "files" /\ UNCHANGED <<mem, disk, job>>
        /\ db'.events = db.events /\ db'.rows = Dom(rows, DOMAIN mem.runs) /\ db'.catalog = Catalog(mem)
        /\ job.kind # "delete" => db'.count = Cardinality(db.events)
    BY <1>2 DEF SaveCheckpoint, IInv, Shapes
  <2>2. job.runs = DOMAIN mem.runs /\ IsFcn(mem.runs)
    BY <2>1 DEF Booting, Loaded
  <2>3. db'.rows = mem.runs
    <3> DEFINE dom == DOMAIN mem.runs
    <3>1. DOMAIN rows \cap dom = dom /\ \A r \in dom : rows[r] = mem.runs[r]
      BY <2>2
    <3>2. db'.rows = [r \in DOMAIN rows \cap dom |-> rows[r]]
      BY <2>1 DEF Dom
    <3> HIDE DEF rows
    <3>3. db'.rows = [r \in dom |-> mem.runs[r]]
      BY <3>1, <3>2
    <3> QED BY <2>2, <3>3 DEF IsFcn
  <2> QED BY <2>1, <2>3 DEF Booting, Loaded, Covers, CheckpointHolds, Persisting
<1>3. ASSUME NEW r \in DOMAIN mem.runs, WriteRun(r) PROVE Booting'
  <2>1. /\ disk'.runs = Put(disk.runs, r, mem.runs[r]) /\ disk'.mirror = disk.mirror
        /\ job'.runs = job.runs \ {r} /\ job'.removed = job.removed /\ job'.deltas = job.deltas
        /\ job'.kind = job.kind /\ pc = "files" /\ pc' = "files" /\ UNCHANGED <<mem, db>>
    BY <1>3 DEF WriteRun, IInv, Shapes
  <2>2. Covers(disk.runs)'
    BY <2>1 DEF Booting, Covers, Put
  <2> QED BY <2>1, <2>2 DEF Booting, Loaded, CheckpointHolds
<1>4. ASSUME NEW r, WriteDelta(r) \/ (r \in job.removed /\ RemoveRun(r)) PROVE Booting'
  <2>1. job.kind = "startup"
    BY <1>4 DEF WriteDelta, RemoveRun, IInv, Shapes
  <2> QED BY <1>4, <2>1 DEF WriteDelta, Booting
<1>5. CASE WriteCatalog
  <2>1. /\ disk'.runs = disk.runs /\ disk'.mirror = disk.mirror /\ disk'.catalog = Catalog(mem)
        /\ job.runs = {} /\ UNCHANGED <<mem, db, job>> /\ pc = "files" /\ pc' = "remove"
    BY <1>5 DEF WriteCatalog, IInv, Shapes
  <2> QED BY <2>1 DEF Booting, Loaded, Covers, CheckpointHolds, Persisting
<1> QED BY <1>1, <1>2, <1>3, <1>4, <1>5 DEF Persist

LEMMA BootingNext == ASSUME IInv, Counted, Booting, [Next]_vars PROVE Booting'
<1>1. CASE UNCHANGED vars
  BY <1>1 DEF vars, Booting, Loaded, Covers, CheckpointHolds
<1>2. CASE Startup
  BY <1>2, BootingStartup
<1>3. CASE Request
  <2>1. CASE \E e : Refuse(e)
    BY <1>1, <2>1 DEF Refuse
  <2>2. CASE ~\E e : Refuse(e)
    <3>1. ASSUME NEW e, TakeEvent(e) \/ RenameSession(e)
          PROVE  pc' # "load" /\ job'.kind # "startup"
      <4>1. pc' = "insert" /\ job'.kind = "event"
        <5>1. pc' = "insert" /\ (Take(e) \/ job' = [Idle EXCEPT !.kind = "event", !.events = {e}])
          BY <3>1 DEF TakeEvent, RenameSession
        <5>2. Take(e) => job'.kind = "event"
          BY DEF Take
        <5> QED BY <5>1, <5>2 DEF Idle
      <4> QED BY <4>1
    <3>2. ASSUME NEW src, NEW session, DeleteSession(src, session)
          PROVE  pc' # "load" /\ job'.kind # "startup"
      <4>1. pc' = "checkpoint" /\ job'.kind = "delete"
        BY <3>2 DEF DeleteSession, Idle
      <4> QED BY <4>1
    <3>3. pc' # "load" /\ job'.kind # "startup"
      BY <1>3, <2>2, <3>1, <3>2 DEF Request
    <3> QED BY <1>3, <3>3, BootingOther DEF Next
  <2> QED BY <2>1, <2>2
<1>4. CASE Persist
  <2>1. pc' # "load"
    BY <1>4 DEF Persist, InsertDurably, InsertRefused, AnswerDuplicate, AppendMirror, SaveCheckpoint,
                WriteCatalog, AnswerEvent, RewriteMirror, WriteRun, WriteDelta, RemoveRun, Acknowledge,
                Confirm, Answered
  <2> QED BY <1>4, <2>1, BootingOther, BootingPersist DEF Next
<1>5. CASE Fault \/ Crash
  <2>1. pc' # "load" /\ job'.kind # "startup"
    BY <1>5 DEF Fault, Crash, Idle
  <2> QED BY <1>5, <2>1, BootingOther DEF Next
<1> QED BY <1>1, <1>2, <1>3, <1>4, <1>5 DEF Next

\* A restart repairs what crashes and failed steps left behind: the server serves
\* from a checkpoint, files, a catalog and a mirror that say what memory says.
THEOREM RestartsAgree == Spec => RestartAgrees
<1> DEFINE Inv == IInv /\ Counted /\ Booting
           Agrees == /\ mem = [RebuildAll(db.events) EXCEPT !.runs = mem.runs]
                     /\ Restorable /\ db.catalog = Catalog(mem) /\ db.rows = mem.runs
                     /\ disk.catalog = Catalog(mem) /\ disk.runs = mem.runs
                     /\ DOMAIN disk.deltas \subseteq DOMAIN mem.runs
                     /\ MirrorOn => disk.mirror = db.events
<1>1. Init => Inv
  <2>1. Init => Booting
    BY DEF Init, Idle, Booting
  <2> QED BY <2>1, InitInvariant, CountedInit
<1>2. Inv /\ [Next]_vars => Inv'
  BY NextInvariant, CountedNext, BootingNext
<1>3. Inv /\ [Next]_vars => [job.kind = "startup" /\ pc' = "idle" => Agrees']_vars
  <2> SUFFICES ASSUME IInv, Counted, Booting, Next, job.kind = "startup", pc' = "idle" PROVE Agrees'
    OBVIOUS
  <2>1. Serve
    <3>1. pc \in Persisting /\ job.removed = {}
      BY DEF Booting
    <3>2. ~Request
      BY <3>1 DEF Persisting, Request, Refuse, TakeEvent, RenameSession, DeleteSession
    <3>3. ~Persist
      BY <3>1 DEF Persisting, Persist, InsertDurably, InsertRefused, AnswerDuplicate, AppendMirror,
                  SaveCheckpoint, WriteCatalog, AnswerEvent, RewriteMirror, WriteRun, WriteDelta, RemoveRun
    <3>4. ~Fault /\ ~Crash
      BY DEF Fault, Crash
    <3> QED BY <3>1, <3>2, <3>3, <3>4
            DEF Next, Startup, Start, ImportMirror, AlignMirror, LoadProjection, Persisting
  <2>2. /\ pc = "remove" /\ UNCHANGED <<mem, db>>
        /\ disk'.runs = Dom(disk.runs, DOMAIN mem.runs) /\ disk'.catalog = disk.catalog
        /\ disk'.deltas = Dom(disk.deltas, DOMAIN mem.runs) /\ disk'.mirror = disk.mirror
    BY <2>1 DEF Serve, IInv, Shapes
  <2>3. /\ Loaded(mem) /\ CheckpointHolds /\ job.runs = {} /\ disk.catalog = Catalog(mem)
        /\ Covers(disk.runs) /\ (MirrorOn => disk.mirror = db.events)
    BY <2>2 DEF Booting
  <2>4. disk'.runs = mem.runs /\ DOMAIN disk'.deltas \subseteq DOMAIN mem.runs
    BY <2>2, <2>3 DEF Covers, Loaded, Dom, IsFcn
  <2>5. Restorable'
    <3>1. db.catalog # NoCatalog /\ DOMAIN db.catalog.runs = DOMAIN mem.runs
      BY <2>3, CatalogRuns DEF CheckpointHolds
    <3> QED BY <2>2, <2>3, <3>1 DEF Restorable, Loaded, CheckpointHolds
  <2> QED BY <2>2, <2>3, <2>4, <2>5 DEF Loaded, CheckpointHolds
<1> QED BY <1>1, <1>2, <1>3, PTL DEF Spec, RestartAgrees
=============================================================================
