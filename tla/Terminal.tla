------------------------------- MODULE Terminal ------------------------------
(***************************************************************************)
(* The terminal client (crates/cli/src/bin/orche.rs) and the files of the  *)
(* data directory it reads while the server rewrites them (persist_run_data *)
(* of crates/cli/src/main.rs).                                             *)
(*                                                                         *)
(* The client is one thread: it reads the catalog, then the snapshot of    *)
(* the Run it shows, then, for a paged timeline, the snapshot's paging and *)
(* one page after the other.  The server writes pages, snapshot and        *)
(* catalog, or catalog and removals, one file at a time.  Every read and   *)
(* every write is a step.                                                  *)
(*                                                                         *)
(* A Run's revision is the set of the times of its events, each of which   *)
(* leaves one timeline entry; its event_count is the size, its first and   *)
(* last activity the least and the greatest.  Agents, details, help, speed *)
(* and drawing are left out.                                               *)
(*                                                                         *)
(*   files  catalog (RunSummary sequence), snaps and pages by Run          *)
(*   job    what the server is writing                                     *)
(*   app    the client: App's fields, pc (its place: "idle", "exited" or   *)
(*          between two reads), op (what the reads are for)                *)
(*   past   publications and keys so far                                   *)
(*                                                                         *)
(* A deleted Run may be published again, with fewer events: a Runtime that *)
(* keeps writing is rediscovered (README.md:176), and nothing remembers    *)
(* the deletion.  Three history fields, which the code has not, tell the   *)
(* properties what happened: past.lives, how often a Run's files were      *)
(* removed, life in an entry of a catalog, that number when the entry was  *)
(* written, and app.failed, that the client has reported an error and has  *)
(* not read a snapshot since.                                              *)
(*                                                                         *)
(* Bounds: MaxPublishes, MaxKeys.                                          *)
(***************************************************************************)
EXTENDS Integers, Sequences, FiniteSets

CONSTANTS Runs,           \* run ids, ordered numbers
          Revisions,      \* Runs -> the revisions a Run may go through
          PageSize,       \* TIMELINE_PAGE_SIZE
          RenameTime,     \* the time of a rename's event, later than all others
          Nobody,         \* no Run
          MaxPublishes, MaxKeys

\* The ids of Runs and the times of events are numbers.
ASSUME TerminalAssumption ==
    /\ Runs \subseteq Nat /\ Nobody \notin Runs
    /\ \A r \in Runs : \A E \in Revisions[r] : E \subseteq Nat /\ IsFiniteSet(E)
    /\ RenameTime \in Nat
    /\ PageSize \in Nat \ {0}
    /\ MaxPublishes \in Nat /\ MaxKeys \in Nat

VARIABLES files, job, app, past
clientVars == <<files, job, app, past>>

First(E) == CHOOSE t \in E : \A u \in E : t <= u
Last(E) == CHOOSE t \in E : \A u \in E : u <= t
Put(f, k, v) == [x \in DOMAIN f \cup {k} |-> IF x = k THEN v ELSE f[x]]
Without(f, k) == [x \in DOMAIN f \ {k} |-> f[x]]
Ranked(S, Above(_, _)) ==
    [i \in 1..Cardinality(S) |-> CHOOSE x \in S : Cardinality({y \in S : Above(y, x)}) = i - 1]

Timeline(E) == Ranked(E, LAMBDA t, u : t < u)

\* catalog_from_runs: the latest activity first.
Catalog(snaps) ==
    Ranked({[run |-> r, count |-> Cardinality(snaps[r]), last |-> Last(snaps[r]),
             life |-> past.lives[r]] : r \in DOMAIN snaps},
           LAMBDA a, b : a.last > b.last \/ (a.last = b.last /\ a.run > b.run))

-----------------------------------------------------------------------------
(* The server's writes.                                                    *)
Paged(E) == Cardinality(E) > PageSize
PageCount(E) == IF Paged(E) THEN (Cardinality(E) + PageSize - 1) \div PageSize ELSE 0
Page(E, k) == LET end == IF k * PageSize > Cardinality(E) THEN Cardinality(E) ELSE k * PageSize
              IN  SubSeq(Timeline(E), (k - 1) * PageSize + 1, end)

\* The page where the delta's timeline.replace_from falls.
FirstPage(old, new) ==
    LET same == {n \in 0..Cardinality(old) : /\ n <= Cardinality(new)
                                             /\ SubSeq(Timeline(old), 1, n) = SubSeq(Timeline(new), 1, n)}
    IN  IF Paged(old) THEN Last(same) \div PageSize + 1 ELSE 1

Quiet == [stage |-> "none", run |-> Nobody, events |-> {}, page |-> 0]

\* persist_run_data: the pages from the first that changed, then the rest.
Publish(r, E) ==
    [stage |-> "pages", run |-> r, events |-> E,
     page |-> FirstPage(IF r \in DOMAIN files.snaps THEN files.snaps[r] ELSE {}, E)]

BeginPublish(r, E) ==
    LET old == IF r \in DOMAIN files.snaps THEN files.snaps[r] ELSE {}
    IN  /\ job = Quiet /\ past.publishes < MaxPublishes
        /\ ~ E \subseteq old
        /\ job' = Publish(r, old \cup E)
        /\ past' = [past EXCEPT !.publishes = @ + 1]
        /\ UNCHANGED <<files, app>>

\* persist_timeline_pages.
WritePage ==
    /\ job.stage = "pages"
    /\ IF job.page <= PageCount(job.events)
       THEN /\ files' = [files EXCEPT !.pages =
                   Put(@, job.run, Put(IF job.run \in DOMAIN @ THEN @[job.run] ELSE << >>,
                                       job.page, Page(job.events, job.page)))]
            /\ job' = [job EXCEPT !.page = @ + 1]
       ELSE job' = [job EXCEPT !.stage = "snapshot"] /\ UNCHANGED files
    /\ UNCHANGED <<app, past>>

WriteSnapshot ==
    /\ job.stage = "snapshot"
    /\ files' = [files EXCEPT !.snaps = Put(@, job.run, job.events)]
    /\ job' = [job EXCEPT !.stage = "catalog"]
    /\ UNCHANGED <<app, past>>

WriteCatalog ==
    /\ job.stage = "catalog"
    /\ files' = [files EXCEPT !.catalog = Catalog(IF job.events = {} THEN Without(files.snaps, job.run)
                                                  ELSE files.snaps)]
    /\ job' = IF job.events = {} THEN [job EXCEPT !.stage = "remove"] ELSE Quiet
    /\ UNCHANGED <<app, past>>

\* A delete: the catalog first, then the files.
BeginDelete(r) ==
    /\ job = Quiet /\ r \in DOMAIN files.snaps
    /\ job' = [Quiet EXCEPT !.stage = "catalog", !.run = r]
    /\ UNCHANGED <<files, past>>

RemoveFiles ==
    /\ job.stage = "remove"
    /\ files' = [files EXCEPT !.snaps = Without(@, job.run), !.pages = Without(@, job.run)]
    /\ job' = Quiet
    /\ past' = [past EXCEPT !.lives[job.run] = @ + 1]
    /\ UNCHANGED app

-----------------------------------------------------------------------------
(* The client.                                                             *)
HasRuns(a) == a.catalog # << >>
Summary(a) == a.catalog[a.index]

Times(a) == a.events \cup {a.timeline[i] : i \in DOMAIN a.timeline}
Start(a) == First(Times(a) \cup (IF Times(a) = {} THEN {0} ELSE {}))
End(a) == Last(Times(a) \cup {Start(a) + 1})

NotReading == [total |-> 0, left |-> 0, entries |-> << >>, next |-> 0]
NoDialog == [kind |-> "none", opened |-> Nobody]

EmptyState(a, catalog) ==
    [a EXCEPT !.catalog = catalog, !.index = 1, !.shown = Nobody, !.events = {},
              !.timeline = << >>, !.complete = TRUE, !.cursor = 0, !.playing = FALSE,
              !.follow = TRUE, !.auto = TRUE, !.dialog = NoDialog]

\* max_by_key: the last of the entries with the greatest key.
MostRecentOf(catalog, S) ==
    CHOOSE i \in S : \A j \in S : \/ catalog[j].last < catalog[i].last
                                  \/ /\ catalog[j].last = catalog[i].last
                                     /\ \/ catalog[j].count < catalog[i].count
                                        \/ catalog[j].count = catalog[i].count /\ j <= i

MostRecentRun(catalog) == MostRecentOf(catalog, DOMAIN catalog)

PositionOf(catalog, r) == {i \in DOMAIN catalog : catalog[i].run = r}

\* Mutant: a new Run takes the focus of a client that looks at the past too.
PreferredRunAlways(a, catalog) ==
    LET new == {i \in DOMAIN catalog : PositionOf(a.catalog, catalog[i].run) = {}}
        own == PositionOf(catalog, Summary(a).run)
    IN  IF new # {} THEN MostRecentOf(catalog, new)
        ELSE IF own # {} THEN CHOOSE i \in own : TRUE ELSE MostRecentRun(catalog)

\* preferred_reload_run_index.
PreferredRun(a, catalog) ==
    LET new == {i \in DOMAIN catalog : PositionOf(a.catalog, catalog[i].run) = {}}
        own == PositionOf(catalog, Summary(a).run)
    IN  IF a.auto /\ a.follow /\ new # {} THEN MostRecentOf(catalog, new)
        ELSE IF own # {} THEN CHOOSE i \in own : TRUE ELSE MostRecentRun(catalog)

\* Where an error leaves the client: the actions on sessions report it, all
\* other callers pass it on to main, which exits.
Failed(a) == [a EXCEPT !.pc = IF a.op \in {"renamed", "deleted"} THEN "idle" ELSE "exited",
                       !.failed = TRUE]

\* Mutant: a reload is due when the number of events differs.
ReloadByCount(a, manual) ==
    LET catalog == files.catalog
        next    == PreferredRun(a, catalog)
    IN  IF catalog = << >>
        THEN IF HasRuns(a) THEN EmptyState(a, catalog) ELSE [a EXCEPT !.catalog = catalog]
        ELSE IF ~HasRuns(a)
        THEN [a EXCEPT !.catalog = catalog, !.index = MostRecentRun(catalog), !.pc = "snapshot",
                       !.op = "first"]
        ELSE [a EXCEPT !.catalog = catalog, !.index = next,
                       !.pc = IF manual \/ catalog[next].count # Cardinality(a.events)
                              THEN "snapshot" ELSE "idle",
                       !.switch = catalog[next].run # Summary(a).run]

\* reload, up to the read of the snapshot.
Reload(a, manual) ==
    LET catalog == files.catalog
        next    == PreferredRun(a, catalog)
        switch  == catalog[next].run # Summary(a).run
        changed == \/ switch
                   \/ catalog[next].count # Cardinality(a.events)
                   \/ catalog[next].last # Last(a.events)
    IN  IF catalog = << >>
        THEN IF HasRuns(a) THEN EmptyState(a, catalog) ELSE [a EXCEPT !.catalog = catalog]
        ELSE IF ~HasRuns(a)
        THEN [a EXCEPT !.catalog = catalog, !.index = MostRecentRun(catalog), !.pc = "snapshot",
                       !.op = "first"]
        ELSE [a EXCEPT !.catalog = catalog, !.index = next,
                       !.pc = IF changed \/ manual THEN "snapshot" ELSE "idle",
                       !.switch = switch]

Installed(a, E) == [a EXCEPT !.shown = Summary(a).run, !.events = E, !.complete = ~Paged(E),
                             !.timeline = IF Paged(E) THEN << >> ELSE Timeline(E),
                             !.failed = FALSE]
AtLatest(a) == [a EXCEPT !.pc = "idle", !.cursor = End(a), !.follow = TRUE]

\* The end of reload: a client that follows moves to the end.
Reloaded(a) == [a EXCEPT !.pc = "idle", !.cursor = IF a.follow THEN End(a) ELSE @]

\* What reload is called for.
Reloads == {"tick", "key", "renamed"}

ReadSnapshot ==
    /\ app.pc = "snapshot"
    /\ IF Summary(app).run \notin DOMAIN files.snaps
       THEN app' = Failed(app)
       ELSE LET a == Installed(app, files.snaps[Summary(app).run])
            IN  app' = CASE app.op \in Reloads ->
                              IF ~app.switch /\ app.complete /\ ~a.complete
                              THEN [a EXCEPT !.pc = "paging"] ELSE Reloaded(a)
                         [] app.op = "launch" -> AtLatest(a)
                         [] app.op = "first"  -> [AtLatest(a) EXCEPT !.auto = TRUE]
                         [] app.op = "follow" -> [AtLatest(a) EXCEPT !.auto = TRUE, !.playing = FALSE]
                         [] OTHER -> [AtLatest(a) EXCEPT !.auto = FALSE, !.playing = FALSE]
    /\ UNCHANGED <<files, job, past>>

\* load_full_timeline: the paging of the snapshot as it is by now ...
ReadPaging ==
    /\ app.pc = "paging"
    /\ LET r == Summary(app).run
       IN  IF r \in DOMAIN files.snaps /\ Paged(files.snaps[r])
           THEN app' = [app EXCEPT !.pc = "page",
                           !.reading = [total |-> Cardinality(files.snaps[r]),
                                        left  |-> PageCount(files.snaps[r]), entries |-> << >>, next |-> 1]]
           ELSE app' = Failed(app)
    /\ UNCHANGED <<files, job, past>>

\* ... and its pages.
ReadPage ==
    /\ app.pc = "page" /\ app.reading.left > 0
    /\ LET r == Summary(app).run
           k == app.reading.next
       IN  IF r \in DOMAIN files.pages /\ k \in DOMAIN files.pages[r]
           THEN app' = [app EXCEPT !.reading = [@ EXCEPT !.entries = @ \o files.pages[r][k],
                                                         !.next = @ + 1, !.left = @ - 1]]
           ELSE app' = Failed(app)
    /\ UNCHANGED <<files, job, past>>

-----------------------------------------------------------------------------
(* Keys.                                                                   *)
Clamp(a, t) == IF t < Start(a) THEN Start(a) ELSE IF t > End(a) THEN End(a) ELSE t

Moved(a, t) == [a EXCEPT !.cursor = t, !.playing = FALSE, !.follow = (t = End(a)), !.auto = FALSE]

TogglePlay(a) ==
    IF ~HasRuns(a) THEN a
    ELSE IF a.playing THEN [a EXCEPT !.playing = FALSE]
    ELSE [a EXCEPT !.cursor = IF @ >= End(a) THEN Start(a) ELSE @,
                   !.playing = TRUE, !.follow = FALSE, !.auto = FALSE]

\* What a key does once the timeline it needs is there.
Act(a, key) ==
    CASE key = "left"   -> Moved(a, Clamp(a, a.cursor - 1))
      [] key = "right"  -> Moved(a, Clamp(a, a.cursor + 1))
      [] key = "home"   -> [Moved(a, Start(a)) EXCEPT !.follow = FALSE]
      [] key = "end"    -> [Moved(a, End(a)) EXCEPT !.follow = TRUE]
      [] key = "space"  -> TogglePlay(a)
      [] key \in {"select", "click"} /\ HasRuns(a) -> [a EXCEPT !.auto = FALSE]
      [] OTHER -> a
NeedsTimeline == {"enter", "click", "left", "home", "space"}

FinishTimeline ==
    /\ app.pc = "page" /\ app.reading.left = 0
    /\ LET a == [app EXCEPT !.timeline = app.reading.entries, !.complete = TRUE, !.pc = "idle",
                            !.reading = NotReading]
       IN  app' = IF Len(app.reading.entries) # app.reading.total THEN Failed(app)
                  ELSE IF app.op \in Reloads THEN Reloaded(a) ELSE Act(a, app.op)
    /\ UNCHANGED <<files, job, past>>

\* f: pins the Run of a client that follows, follows the newest otherwise.
Follow(a) ==
    IF a.auto /\ a.follow THEN [a EXCEPT !.auto = FALSE]
    ELSE IF ~HasRuns(a) THEN [a EXCEPT !.follow = TRUE, !.auto = TRUE]
    ELSE IF MostRecentRun(a.catalog) # a.index
    THEN [a EXCEPT !.index = MostRecentRun(a.catalog), !.pc = "snapshot", !.op = "follow"]
    ELSE [AtLatest(a) EXCEPT !.auto = TRUE, !.playing = FALSE]

ChangeRun(a, delta) ==
    IF ~HasRuns(a) THEN a
    ELSE [a EXCEPT !.index = ((@ - 1 + delta) % Len(a.catalog)) + 1, !.pc = "snapshot", !.op = "change"]

Pressed(a, key) ==
    CASE key = "f" -> Follow(a)
      [] key = "r" -> Reload([a EXCEPT !.op = "key"], TRUE)
      [] key = "[" -> ChangeRun(a, -1)
      [] key = "]" -> ChangeRun(a, 1)
      [] key = "e" -> IF HasRuns(a) THEN [a EXCEPT !.dialog = [kind |-> "rename", opened |-> Summary(a).run]]
                      ELSE a
      [] key = "d" -> IF HasRuns(a) THEN [a EXCEPT !.dialog = [kind |-> "delete", opened |-> Summary(a).run]]
                      ELSE a
      [] key \in NeedsTimeline /\ ~a.complete /\ HasRuns(a) -> [a EXCEPT !.pc = "paging", !.op = key]
      [] OTHER -> Act(a, key)
Keys == {"f", "r", "[", "]", "e", "d", "enter", "click", "left", "right", "home", "end", "space", "select"}

Press(key) ==
    /\ app.pc = "idle" /\ app.dialog = NoDialog /\ past.keys < MaxKeys
    /\ app' = Pressed(app, key)
    /\ past' = [past EXCEPT !.keys = @ + 1]
    /\ UNCHANGED <<files, job>>

CancelDialog ==
    /\ app.pc = "idle" /\ app.dialog # NoDialog
    /\ app' = [app EXCEPT !.dialog = NoDialog]
    /\ UNCHANGED <<files, job, past>>

\* The session acted on is the one shown when the dialog is confirmed; the
\* client waits for the server's answer.
ConfirmDialog ==
    /\ app.pc = "idle" /\ app.dialog # NoDialog
    /\ app' = [app EXCEPT !.dialog = NoDialog, !.pc = "request", !.target = Summary(app).run,
                          !.op = IF app.dialog.kind = "rename" THEN "renamed" ELSE "deleted"]
    /\ UNCHANGED <<files, job, past>>

Renamed(E) == E \cup {IF Last(E) < RenameTime THEN RenameTime ELSE Last(E) + 1}

\* The server takes the request when no other one holds its mutex: a rename
\* is one more event of the Run.
ServeRequest ==
    /\ app.pc = "request" /\ job = Quiet
    /\ IF app.target \notin DOMAIN files.snaps
       THEN app' = Failed(app) /\ UNCHANGED <<job, past>>
       ELSE /\ app' = [app EXCEPT !.pc = "awaiting"]
            /\ IF app.op = "deleted" THEN BeginDelete(app.target)
               ELSE /\ job' = Publish(app.target, Renamed(files.snaps[app.target]))
                    /\ UNCHANGED past
    /\ UNCHANGED files

Answered ==
    /\ app.pc = "awaiting" /\ job = Quiet
    /\ app' = IF app.op = "renamed" THEN Reload([app EXCEPT !.pc = "idle"], TRUE)
              ELSE IF files.catalog = << >> THEN [EmptyState(app, << >>) EXCEPT !.pc = "idle"]
              ELSE [app EXCEPT !.catalog = files.catalog, !.pc = "snapshot",
                               !.index = IF @ > Len(files.catalog) THEN Len(files.catalog) ELSE @]
    /\ UNCHANGED <<files, job, past>>

-----------------------------------------------------------------------------
(* tick: playback moves the cursor; the catalog is read again.             *)
PlayTick ==
    /\ app.pc = "idle" /\ app.playing
    /\ LET t == Clamp(app, app.cursor + 1)
       IN  app' = [app EXCEPT !.cursor = t, !.playing = t < End(app),
                              !.follow = IF t < End(app) THEN @ ELSE TRUE]
    /\ UNCHANGED <<files, job, past>>

\* Mutant: a client that looks at the past does not refresh.
RefreshTickFollowing ==
    /\ app.pc = "idle" /\ app.follow
    /\ app' = Reload([app EXCEPT !.op = "tick"], FALSE)
    /\ UNCHANGED <<files, job, past>>

RefreshTick ==
    /\ app.pc = "idle"
    /\ app' = Reload([app EXCEPT !.op = "tick"], FALSE)
    /\ UNCHANGED <<files, job, past>>

Closed == [catalog |-> << >>, index |-> 1, shown |-> Nobody, events |-> {}, timeline |-> << >>,
           complete |-> TRUE, cursor |-> 0, playing |-> FALSE, follow |-> TRUE, auto |-> TRUE,
           dialog |-> NoDialog, pc |-> "exited", op |-> "launch", switch |-> FALSE,
           target |-> Nobody, reading |-> NotReading, failed |-> FALSE]

\* load: orche is started, with --run or without.
Launch(r) ==
    /\ app.pc = "exited"
    /\ LET own == PositionOf(files.catalog, r)
           a   == [Closed EXCEPT !.catalog = files.catalog, !.auto = (r = Nobody)]
       IN  app' = IF files.catalog = << >> THEN [a EXCEPT !.pc = "idle"]
                  ELSE [a EXCEPT !.pc = "snapshot",
                                 !.index = IF own # {} THEN CHOOSE i \in own : TRUE
                                           ELSE MostRecentRun(files.catalog)]
    /\ UNCHANGED <<files, job, past>>

ClientInit ==
    /\ files = [catalog |-> << >>, snaps |-> [r \in {} |-> {}], pages |-> [r \in {} |-> << >>]]
    /\ job = Quiet
    /\ app = Closed
    /\ past = [publishes |-> 0, keys |-> 0, lives |-> [r \in Runs |-> 0]]

\* Mutant: the catalog is written before the snapshot.
ServerStepCatalogFirst ==
    \/ WritePage \/ RemoveFiles
    \/ job.events = {} /\ WriteCatalog
    \/ /\ job.stage = "snapshot"
       /\ files' = [files EXCEPT !.catalog = Catalog(Put(files.snaps, job.run, job.events))]
       /\ job' = [job EXCEPT !.stage = "late"]
       /\ UNCHANGED <<app, past>>
    \/ /\ job.stage = "late"
       /\ files' = [files EXCEPT !.snaps = Put(@, job.run, job.events)]
       /\ job' = Quiet
       /\ UNCHANGED <<app, past>>

ServerStep == WritePage \/ WriteSnapshot \/ WriteCatalog \/ RemoveFiles
Read == ReadSnapshot \/ ReadPaging \/ ReadPage \/ FinishTimeline
OtherClients == \/ \E r \in Runs : \E E \in Revisions[r] : BeginPublish(r, E)
                \/ \E r \in Runs : BeginDelete(r) /\ UNCHANGED app
User == \/ \E r \in Runs \cup {Nobody} : Launch(r)
        \/ \E key \in Keys : Press(key)
        \/ CancelDialog \/ ConfirmDialog

ClientNext ==
    \/ ServerStep \/ OtherClients \/ Read \/ User \/ ServeRequest \/ Answered
    \/ PlayTick \/ RefreshTick

\* The client's loop ticks and its reads return; the server finishes what it
\* began and takes the request that waits for its mutex.
ClientFairness ==
    /\ WF_clientVars(ServerStep) /\ WF_clientVars(Read) /\ WF_clientVars(RefreshTick)
    /\ SF_clientVars(ServeRequest) /\ WF_clientVars(Answered)
ClientSpec == ClientInit /\ [][ClientNext]_clientVars /\ ClientFairness
-----------------------------------------------------------------------------

\* Between two reads the snapshot on the screen is that of the Run that the
\* client has selected, whatever order catalog, keys and answers came in; only
\* an error that the client reported may leave another one until it reads again.
ShownIsSelected ==
    app.pc = "idle" /\ HasRuns(app) /\ ~app.failed => app.shown = Summary(app).run

\* A client sees a Run at the catalog's revision or a later one: "readers
\* only see a revision after its snapshot and delta exist" (main.rs:1310).
\* Not so when the Run was deleted after the client read the catalog: published
\* again it may have fewer events (README.md:176).
ShownCoversCatalog ==
    app.pc = "idle" /\ HasRuns(app) /\ ~app.failed
            /\ Summary(app).life = past.lives[Summary(app).run] =>
        Cardinality(app.events) >= Summary(app).count /\ Last(app.events) >= Summary(app).last

\* A Run that the user pinned stays on the screen through every read of a
\* reload, and a user who looks at the past stays there, as long as the catalog
\* lists the Run; only after an error, when a Run was selected that could not be
\* read, may the screen change.
PinnedStays ==
    [][app.pc \in {"snapshot", "paging", "page"} /\ app.op \in Reloads /\ ~app.failed
            /\ app.shown # Nobody /\ PositionOf(app.catalog, app.shown) # {} =>
           /\ ~(app.auto /\ app.follow) => app'.shown = app.shown
           /\ ~app.follow => app'.cursor = app.cursor]_clientVars

\* When nothing is published any more, the client shows the last revision.
CatchesUp ==
    <>[](\/ app.pc = "exited"
         \/ /\ app.catalog = files.catalog
            /\ HasRuns(app) => app.events = files.snaps[Summary(app).run])

\* The session deleted is the one the dialog was opened for (README.md:173:
\* d deletes the current session, after a confirmation).
ConfirmedIsDeleted ==
    [][app.dialog.kind = "delete" /\ app'.pc = "request" => app'.target = app.dialog.opened]_clientVars
=============================================================================
