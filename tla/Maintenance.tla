----------------------------- MODULE Maintenance -----------------------------
(***************************************************************************)
(* The life of the database across runs of otrace serve and the offline    *)
(* commands: the privacy filter (crates/protocol/src/privacy.rs), scrub,   *)
(* retention, deletion, doctor and repair (crates/storage/src/lib.rs), and *)
(* the commands and the startup that call them (crates/cli/src/main.rs).   *)
(*                                                                         *)
(* One process at a time works on the database: the server, or a command   *)
(* while the server is stopped.  Every transaction and every write of the  *)
(* published files is a step; the process may die between any two.  A      *)
(* running server takes an event in one step (Server has its parts).       *)
(*                                                                         *)
(*   db      canonical events, their indexed columns, the fingerprint of   *)
(*           the last scrub, and the checkpoint (rows, catalog, count)     *)
(*   mirror  the JSONL file of serve --events                              *)
(*   files   the published Runs and catalog, and the delta that the last   *)
(*           event of a Run left, with the start of the server that wrote  *)
(*           it (by is history: the file does not tell)                    *)
(*   proc    the process: its place, what started it, its options, and the *)
(*           Runs it holds in memory                                       *)
(*   used    server starts and commands so far                             *)
(*                                                                         *)
(* The content of an event is a record: at (observed_at), data (the fields *)
(* of data and attributes, each "text", "secret" - a text with an inline   *)
(* secret -, "redacted" or "omitted"), ref (source_ref.location or None)   *)
(* and the marks of the filter: mode, redacted and omitted.                *)
(*                                                                         *)
(* Bounds: MaxStarts, MaxCommands.                                         *)
(***************************************************************************)
EXTENDS IngestStore

CONSTANTS Offered,      \* the events that adapters send, as they send them
          Policies,     \* privacy policies: [mode, keys], keys the sensitive ones
          ContentKeys,  \* is_content_key
          Retentions,   \* retention policies: [before, max], None where not set
          None, NoCatalog,
          MaxStarts, MaxCommands

\* Times and session ids are numbers: they are only compared.
ASSUME MaintenanceAssumption ==
    /\ Offered \subseteq Event /\ \A e \in Offered : e.content.at \in Nat
    /\ Sessions \subseteq Nat
    /\ \A p \in Retentions : p.max \in Nat \cup {None}
    /\ MaxStarts \in Nat /\ MaxCommands \in Nat

VARIABLES db, mirror, files, proc, used
vars == <<db, mirror, files, proc, used>>

-----------------------------------------------------------------------------
(* PrivacyPolicy::sanitize_event.                                          *)

\* An event captured as metadata only stays so under every policy.
ModeOf(p, c) == IF c.mode = "metadata-only" THEN c.mode ELSE p.mode

Omits(p, c, k) == ModeOf(p, c) = "metadata-only" /\ k \in ContentKeys \ p.keys

Redacts(p, c, k) == \/ k \in p.keys
                    \/ ~Omits(p, c, k) /\ c.data[k] = "secret"

SanitizedData(p, c) == [k \in DOMAIN c.data |-> IF Redacts(p, c, k) THEN "redacted"
                                                ELSE IF Omits(p, c, k) THEN "omitted"
                                                ELSE c.data[k]]

\* The marks are rewritten by every pass that finds something.
SanitizedContent(p, c) ==
    LET hidesRef == ModeOf(p, c) = "metadata-only" /\ c.ref # None
        redacted == Cardinality({k \in DOMAIN c.data : Redacts(p, c, k)})
        omitted  == Cardinality({k \in DOMAIN c.data : Omits(p, c, k)})
                        + (IF hidesRef THEN 1 ELSE 0)
    IN  [at       |-> c.at,
         data     |-> SanitizedData(p, c),
         ref      |-> IF hidesRef THEN "omitted" ELSE c.ref,
         mode     |-> ModeOf(p, c),
         redacted |-> IF redacted > 0 THEN redacted ELSE c.redacted,
         omitted  |-> IF omitted > 0 THEN omitted ELSE c.omitted]

Sanitize(p, e) == [e EXCEPT !.content = SanitizedContent(p, e.content)]

\* No field shows what the policy hides.
Clean(p, e) == /\ SanitizedData(p, e.content) = e.content.data
               /\ ModeOf(p, e.content) = "metadata-only" => e.content.ref \in {None, "omitted"}

-----------------------------------------------------------------------------
(* EventStore.                                                             *)
Identity(e) == [source |-> e.source, session |-> e.session, parent |-> e.parent,
                at |-> e.content.at]

\* The rows of canonical_events hold E: a row keeps the columns it was
\* inserted with, whatever becomes of its payload.
Store(d, E) ==
    [d EXCEPT !.events = E,
              !.columns = [i \in {e.id : e \in E} |->
                              IF i \in DOMAIN @ THEN @[i]
                              ELSE Identity(CHOOSE e \in E : e.id = i)]]

\* Mutant: the checkpoint survives.
KeepCheckpoint(d) == d

InvalidateCheckpoint(d) == [d EXCEPT !.rows = [r \in {} |-> {}], !.catalog = NoCatalog]
InvalidateCatalog(d) == [d EXCEPT !.catalog = NoCatalog]

Summary(E) == [events |-> Cardinality(E), times |-> {e.content.at : e \in E}]
Catalog(runs) == [r \in DOMAIN runs |-> Summary(runs[r])]

\* scrub: skipped when the last scrub had the same policy.
Scrub(d, p) ==
    LET events == {Sanitize(p, e) : e \in d.events}
        done   == IF events = d.events THEN d ELSE InvalidateCheckpoint(Store(d, events))
    IN  IF d.fingerprint = p THEN d ELSE [done EXCEPT !.fingerprint = p]

\* insert_events in one transaction: a payload that differs from the stored
\* one of its id takes the whole batch back.
Conflicts(d, E) == \E e \in E, f \in d.events \cup E : e.id = f.id /\ e # f
Insert(d, E) == Store(d, d.events \cup E)

\* delete_session_tree: the Runs' snapshots stay, the catalog goes.
Delete(d, src, session) ==
    LET gone == TreeEvents(d.events, src, session)
    IN  IF gone = {} THEN d ELSE InvalidateCatalog(Store(d, d.events \ gone))

\* Mutant: a session belongs to the parent it names, and no further.
StoredRootNear(k, E) ==
    IF k \in DOMAIN ParentsOf(E) /\ ParentsOf(E)[k] \in SessionsOf(E) THEN ParentsOf(E)[k] ELSE k

\* group_events_by_run and resolve_root, on all events: the last known
\* session on the way to the root (a session whose parent is not known is a
\* root here, though not in the ingest store).
StoredRoot(k, E) ==
    LET P    == ParentsOf(E)
        ends == {v \in Visited(k, SessionsOf(E), P) :
                    ~(v \in DOMAIN P /\ P[v] \in SessionsOf(E))}
    IN  CHOOSE v \in ends : TRUE

StoredGroup(E, root) == {e \in E : StoredRoot(KeyOf(e), E) = root}
StoredRoots(E) == {StoredRoot(k, E) : k \in SessionsOf(E)}
LastSeen(G) == CHOOSE t \in {e.content.at : e \in G} : \A e \in G : e.content.at <= t

\* The order in which groups go: by the last event's time, then by root.
Older(E, r, s) ==
    LET t == LastSeen(StoredGroup(E, r))
        u == LastSeen(StoredGroup(E, s))
    IN  t < u \/ (t = u /\ r[2] < s[2])

Expired(E, p) == IF p.before = None THEN {}
                 ELSE {r \in StoredRoots(E) : LastSeen(StoredGroup(E, r)) < p.before}

\* What is left when the expired Runs and those older than r are gone.
Remaining(E, p, r) ==
    {e \in E : LET root == StoredRoot(KeyOf(e), E)
               IN  root \notin Expired(E, p) /\ ~Older(E, root, r)}

\* Mutant: the Run that brings the number down to the maximum stays.
SurplusShort(E, p) ==
    IF p.max = None THEN {}
    ELSE {r \in StoredRoots(E) : Cardinality(Remaining(E, p, r) \ StoredGroup(E, r)) > p.max}

\* A Run goes as long as more than the maximum remain.
Surplus(E, p) ==
    IF p.max = None THEN {}
    ELSE {r \in StoredRoots(E) \ Expired(E, p) : Cardinality(Remaining(E, p, r)) > p.max}

\* apply_retention.
Retain(d, p) ==
    LET gone == UNION {StoredGroup(d.events, r) : r \in Expired(d.events, p) \cup Surplus(d.events, p)}
    IN  IF gone = {} THEN d ELSE InvalidateCheckpoint(Store(d, d.events \ gone))

\* save_checkpoint with all Runs of a store.
Save(d, runs) == [d EXCEPT !.rows = runs, !.catalog = Catalog(runs),
                           !.count = Cardinality(d.events)]

\* load_checkpoint finds the catalog and a row for each of its Runs.
Loadable(d) == d.catalog # NoCatalog /\ DOMAIN d.rows = DOMAIN d.catalog

\* diagnose: errors in the facts, and the state of the checkpoint.
HasErrors(d) == \E e \in d.events : ~Valid(e) \/ d.columns[e.id] # Identity(e)

CheckpointStatus(d) ==
    IF d.catalog = NoCatalog /\ DOMAIN d.rows = {}
    THEN IF d.events = {} THEN "not-required" ELSE "missing"
    ELSE IF ~Loadable(d) THEN "corrupt"
    ELSE IF d.count = Cardinality(d.events) THEN "healthy" ELSE "stale"

\* diagnose, and repair_derived_state: a checkpoint folded from the events.
Diagnosis(d) == [errors |-> HasErrors(d), checkpoint |-> CheckpointStatus(d)]
RepairDerivedState(d) == Save(d, CatalogOf(d.events))

\* serve: the checkpointed Runs, if they restore to their own catalog, or the
\* events folded again.
Restores(d) ==
    /\ CheckpointStatus(d) = "healthy"
    /\ DOMAIN d.rows = RunIds(d.events)
    /\ \A r \in DOMAIN d.rows : Cardinality(d.rows[r]) = Cardinality(CatalogOf(d.events)[r])
    /\ Catalog(d.rows) = d.catalog

Loaded(d) == IF Restores(d) THEN d.rows ELSE CatalogOf(d.events)
-----------------------------------------------------------------------------
NoRuns == [r \in {} |-> {}]
Stopped == [pc |-> "down", kind |-> "none", policy |-> None, retention |-> None, runs |-> NoRuns]

Init == /\ db = [events |-> {}, columns |-> NoRuns, fingerprint |-> None,
                 rows |-> NoRuns, catalog |-> NoCatalog, count |-> 0]
        /\ mirror = {}
        /\ files = [runs |-> NoRuns, catalog |-> NoRuns, deltas |-> NoRuns]
        /\ proc = Stopped
        /\ used = [starts |-> 0, commands |-> 0]

(* serve_command, up to the listener.                                      *)
Start(p, r) ==
    /\ proc.pc = "down" /\ used.starts < MaxStarts
    /\ used' = [used EXCEPT !.starts = @ + 1]
    /\ db' = Scrub(db, p)
    /\ proc' = [Stopped EXCEPT !.pc = "import", !.kind = "serve",
                               !.policy = p, !.retention = r]
    /\ UNCHANGED <<mirror, files>>

\* Mutant: the mirror is imported as it is.
ImportedRaw(p) == mirror

Imported(p) == {Sanitize(p, e) : e \in mirror}

ImportMirror ==
    /\ proc.pc = "import"
    /\ IF Conflicts(db, Imported(proc.policy))
       THEN proc' = Stopped /\ UNCHANGED db
       ELSE /\ db' = Insert(db, Imported(proc.policy))
            /\ proc' = [proc EXCEPT !.pc = "retain"]
    /\ UNCHANGED <<mirror, files, used>>

ApplyRetention ==
    /\ proc.pc = "retain"
    /\ db' = Retain(db, proc.retention)
    /\ proc' = [proc EXCEPT !.pc = "align"]
    /\ UNCHANGED <<mirror, files, used>>

AlignMirror ==
    /\ proc.pc = "align"
    /\ mirror' = db.events
    /\ proc' = [proc EXCEPT !.pc = "load"]
    /\ UNCHANGED <<db, files, used>>

LoadProjection ==
    /\ proc.pc = "load"
    /\ proc' = [proc EXCEPT !.pc = "save", !.runs = Loaded(db)]
    /\ UNCHANGED <<db, mirror, files, used>>

\* Both the startup and refresh_projection end with these two.
SaveProjection ==
    /\ proc.pc = "save"
    /\ db' = Save(db, proc.runs)
    /\ proc' = [proc EXCEPT !.pc = "publish"]
    /\ UNCHANGED <<mirror, files, used>>

\* prune_unlisted_run_files: a Run in the catalog keeps the delta it has.
Listed(deltas, runs) == [r \in DOMAIN deltas \cap DOMAIN runs |-> deltas[r]]

\* persist_run_data with every Run and no delta, then the pruning.
Publish ==
    /\ proc.pc = "publish"
    /\ files' = [runs    |-> proc.runs,
                 catalog |-> Catalog(proc.runs),
                 deltas  |-> Listed(files.deltas, proc.runs)]
    /\ proc' = IF proc.kind = "serve" THEN [proc EXCEPT !.pc = "up"] ELSE Stopped
    /\ UNCHANGED <<db, mirror, used>>

\* The Runs that ingest folds again: that of the event, and those that a
\* session joins or leaves.
Updated(runs, now, s) ==
    {r \in DOMAIN now : r \in DOMAIN runs =>
                            s \in now[r] \/ Cardinality(runs[r]) # Cardinality(now[r])}

\* run_deltas: each leads from what memory held to what it holds now.
RunDelta(runs, now, r) == [base   |-> IF r \in DOMAIN runs THEN runs[r] ELSE {},
                           target |-> now[r],
                           by     |-> used.starts]

\* A running server takes an event: filtered first, then compared with what
\* is stored under its id.  Deltas are written for updated Runs, and taken
\* away with removed ones.
Receive(e) ==
    LET s       == Sanitize(proc.policy, e)
        d       == Insert(db, {s})
        now     == CatalogOf(d.events)
        updated == Updated(proc.runs, now, s)
        runs    == [r \in DOMAIN now |-> IF r \in updated THEN now[r] ELSE proc.runs[r]]
        deltas  == [r \in updated \cup DOMAIN Listed(files.deltas, now) |->
                       IF r \in updated THEN RunDelta(proc.runs, now, r) ELSE files.deltas[r]]
    IN  /\ proc.pc = "up"
        /\ IF Conflicts(db, {s}) \/ s \in db.events \/ ~WellFormed(d.events)
           THEN UNCHANGED vars
           ELSE /\ db' = Save(d, runs)
                /\ mirror' = mirror \cup {s}
                /\ proc' = [proc EXCEPT !.runs = runs]
                /\ files' = [runs    |-> runs,
                             catalog |-> Catalog(runs),
                             deltas  |-> deltas]
                /\ UNCHANGED used

\* The process ends, by its own will or not.
Stop == /\ proc.pc # "down"
        /\ proc' = Stopped
        /\ UNCHANGED <<db, mirror, files, used>>

-----------------------------------------------------------------------------
(* The commands.  Each changes the database in one transaction and then,   *)
(* given --data-dir, refreshes the projection from the events.             *)
Command(d, dataDir) ==
    /\ proc.pc = "down" /\ used.commands < MaxCommands
    /\ used' = [used EXCEPT !.commands = @ + 1]
    /\ db' = d
    /\ proc' = IF dataDir THEN [Stopped EXCEPT !.pc = "save", !.kind = "command",
                                               !.runs = CatalogOf(d.events)]
               ELSE Stopped
    /\ UNCHANGED <<mirror, files>>

ScrubCommand(p, dataDir) == Command(Scrub(db, p), dataDir)
DeleteCommand(src, session, dataDir) == Command(Delete(db, src, session), dataDir)
PruneCommand(r, dataDir) == /\ r.before # None \/ r.max # None
                            /\ Command(Retain(db, r), dataDir)
RepairCommand(dataDir) == /\ ~Diagnosis(db).errors
                          /\ Command(RepairDerivedState(db), dataDir)

\* doctor only reads.
DoctorCommand == proc.pc = "down" /\ UNCHANGED vars

Serving == \/ \E p \in Policies, r \in Retentions : Start(p, r)
           \/ ImportMirror \/ ApplyRetention \/ AlignMirror \/ LoadProjection
           \/ SaveProjection \/ Publish \/ Stop
           \/ \E e \in Offered : Receive(e)
Offline == \/ \E p \in Policies, dataDir \in BOOLEAN : ScrubCommand(p, dataDir)
           \/ \E src \in Sources, session \in Sessions, dataDir \in BOOLEAN :
                  DeleteCommand(src, session, dataDir)
           \/ \E r \in Retentions, dataDir \in BOOLEAN : PruneCommand(r, dataDir)
           \/ \E dataDir \in BOOLEAN : RepairCommand(dataDir)
           \/ DoctorCommand
Next == Serving \/ Offline
Spec == Init /\ [][Next]_vars
-----------------------------------------------------------------------------
InRuns(runs) == UNION {runs[r] : r \in DOMAIN runs}

\* What a running server stores, mirrors, holds in memory and publishes in
\* snapshots and in the deltas it has written itself is clean under its
\* policy, whatever the policies of earlier servers and scrubs were and
\* wherever they were interrupted (serve_command's scrub and import, scrub's
\* fingerprint and its invalidation of the checkpoint).  A delta that an
\* earlier server wrote is left as it was: see RebuildIsClean.
OwnDeltas(n) == {r \in DOMAIN files.deltas : files.deltas[r].by = n}
ServedIsClean ==
    proc.pc = "up" =>
        \A e \in db.events \cup mirror \cup InRuns(proc.runs) \cup InRuns(files.runs)
                  \cup UNION {files.deltas[r].target : r \in OwnDeltas(used.starts)} :
            Clean(proc.policy, e)

\* A command that is given --data-dir rebuilds what readers of that directory
\* are shown (README.md:508): no snapshot, and no event that a delta adds,
\* shows what the last scrub has hidden (refresh_projection).
Added(deltas) == UNION {deltas[r].target \ deltas[r].base : r \in DOMAIN deltas}
RebuildIsClean ==
    [][Publish /\ proc.kind = "command" =>
          \A e \in InRuns(files'.runs) \cup Added(files'.deltas) : Clean(db.fingerprint, e)]_vars

\* The checkpoint that doctor calls healthy is the one that folding the
\* stored events gives: no order of scrubs, imports, prunes, deletes and
\* repairs leaves a stale one with the right count (diagnose_checkpoint,
\* invalidate_checkpoint).
HealthyIsTrue ==
    Diagnosis(db).checkpoint = "healthy" =>
        db.rows = CatalogOf(db.events) /\ db.catalog = Catalog(db.rows)

\* No step leaves an orphan: a session whose parent session was stored has it
\* still, or is gone too (apply_retention, delete_session_tree).
Kept(E, F) == \A e \in F : HasParent(e) /\ ParentKey(e) \in SessionsOf(E)
                               => ParentKey(e) \in SessionsOf(F)
NoOrphans == [][Kept(db.events, db'.events)]_vars

\* Retention at startup takes the oldest Runs first and no more than it must:
\* each Run it deletes had expired, or with it and the newer ones there were
\* more events than the maximum; and it leaves no more than the maximum.
MinimalRemoval(E, F, r) ==
    LET gone     == {k \in StoredRoots(E) : StoredGroup(E, k) \cap F = {}}
        newer(k) == UNION {StoredGroup(E, j) : j \in {j \in StoredRoots(E) : ~Older(E, j, k)}}
    IN  /\ r.max # None => Cardinality(F) <= r.max
        /\ \A k \in gone : \/ r.before # None /\ LastSeen(StoredGroup(E, k)) < r.before
                           \/ r.max # None /\ Cardinality(newer(k)) > r.max
        /\ \A k \in StoredRoots(E) \ gone : StoredGroup(E, k) \subseteq F
RetentionIsMinimal ==
    [][proc.pc = "retain" /\ proc'.pc = "align"
          => MinimalRemoval(db.events, db'.events, proc.retention)]_vars

\* A server finds in the mirror what the last one wrote there (README.md:329,
\* the events are deduplicated idempotently by their id).
MirrorImports == proc.pc = "import" => ~Conflicts(db, Imported(proc.policy))
=============================================================================
