------------------------------- MODULE Ingest --------------------------------
(***************************************************************************)
(* The ingest store as a state machine: crates/ingest/src/lib.rs, ingest   *)
(* and delete_session_tree.  Every call happens under the server's state   *)
(* mutex (crates/cli/src/main.rs), so one call is one step.                *)
(*   store    the store record of IngestStore                              *)
(*   outcome  what the last call returned: its kind, the Runs it reports   *)
(*            as updated and as removed, and the snapshot every run delta  *)
(*            was computed against ({} when there was none)                *)
(***************************************************************************)
EXTENDS IngestStore

CONSTANT Offered                    \* the events that may be sent
ASSUME OfferedAssumption == Offered \subseteq Event

VARIABLES store, outcome
vars == <<store, outcome>>

NoDelta == [r \in {} |-> {}]
Quiet(kind) == [kind |-> kind, updated |-> {}, removed |-> {}, base |-> NoDelta]

Init == store = RebuildAll({}) /\ outcome = Quiet("none")

\* validate, the duplicate check and the lineage check refuse before anything
\* is inserted; a failed update takes the event out again.
Reject(e) ==
    /\ \/ ~Valid(e)
       \/ ConflictingDuplicate(store, e)
       \/ e \notin store.events /\ ConflictsWithParent(store, e)
       \/ e \notin store.events /\ UpdateFails(store, e)
    /\ outcome' = Quiet("error")
    /\ UNCHANGED store

\* The same payload again: inserted is false and no Run is reported.
Duplicate(e) ==
    /\ Valid(e)
    /\ e \in store.events
    /\ outcome' = Quiet("duplicate")
    /\ UNCHANGED store

Accept(e) ==
    /\ Valid(e)
    /\ e \notin store.events
    /\ ~ConflictingDuplicate(store, e)
    /\ ~ConflictsWithParent(store, e)
    /\ ~UpdateFails(store, e)
    /\ LET update == InsertEvent(store, e)
       IN  /\ store' = update.store
           /\ outcome' = [kind    |-> "inserted",
                          updated |-> update.updated,
                          removed |-> DOMAIN store.runs \ DOMAIN update.store.runs,
                          base    |-> [r \in update.updated |-> DeltaBase(store, e, r)]]

DeleteSessionTree(src, session) ==
    IF TreeEvents(store.events, src, session) = {}
    THEN outcome' = Quiet("deleted") /\ UNCHANGED store
    ELSE LET deletion == DeleteTree(store, src, session)
         IN  /\ store' = deletion.store
             /\ outcome' = [kind    |-> "deleted",
                            updated |-> deletion.updated,
                            removed |-> OfSource(store.runs, src) \ deletion.updated,
                            base    |-> NoDelta]

Next == \/ \E e \in Offered : Reject(e) \/ Duplicate(e) \/ Accept(e)
        \/ \E src \in Sources, session \in Sessions : DeleteSessionTree(src, session)

Spec == Init /\ [][Next]_vars
-----------------------------------------------------------------------------
TypeOK == /\ IsStore(store)
          /\ outcome.kind \in {"none", "error", "duplicate", "inserted", "deleted"}
          /\ outcome.updated \subseteq SessionKey
          /\ outcome.removed \subseteq SessionKey

\* The incrementally maintained maps are the ones a rebuild from the events
\* gives (repartition_source, rebuild_session_run and delete_session_tree
\* against rebuild_all).
MatchesRebuild == store = RebuildAll(store.events)

\* A restart can always load the accepted events: from_events never fails on
\* what ingest let in.
AlwaysLoads == WellFormed(store.events)

\* The outcome names every Run the call changed: what is persisted from
\* updated_runs and removed_run_ids leaves no stale snapshot behind.
ReportsEveryChange ==
    [][ /\ \A r \in DOMAIN store'.runs :
              (r \notin DOMAIN store.runs \/ store'.runs[r] # store.runs[r])
                => r \in outcome'.updated
        /\ outcome'.removed = DOMAIN store.runs \ DOMAIN store'.runs
        /\ outcome'.updated \subseteq DOMAIN store'.runs ]_vars

\* A run delta starts from the snapshot that was current before the call, so a
\* reader holding that snapshot can apply it.
DeltasStartFromPublished ==
    [][ outcome'.kind = "inserted" =>
          \A r \in outcome'.updated :
             outcome'.base[r] = IF r \in DOMAIN store.runs THEN store.runs[r] ELSE {} ]_vars

\* Deleting a session tree leaves no session behind that names a deleted one
\* as its parent, turns no event pending and touches no other source.
DeleteLeavesNoOrphan ==
    [][ outcome'.kind = "deleted" =>
          LET gone == store.events \ store'.events
          IN  /\ \A e \in store'.events : \A d \in gone : ParentKey(e) # KeyOf(d)
              /\ \A e \in store'.events :
                    store'.roots[KeyOf(e)] = store.roots[KeyOf(e)]
              /\ \A r \in DOMAIN store.runs :
                    (\A d \in gone : d.source # r[1]) =>
                       r \in DOMAIN store'.runs /\ store'.runs[r] = store.runs[r] ]_vars

\* The store implements the log it promises, with the catalog of a rebuild.
Log == INSTANCE CatalogLog WITH
          log <- store.events, catalog <- store.runs, reply <- outcome.kind
ImplementsCatalogLog == Log!Spec
=============================================================================
