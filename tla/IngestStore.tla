----------------------------- MODULE IngestStore -----------------------------
(***************************************************************************)
(* The in-memory projection store of crates/ingest/src/lib.rs as pure      *)
(* functions on a store record: the events plus four derived maps that the *)
(* code keeps up to date incrementally.                                    *)
(*   events   the accepted canonical events                                *)
(*   parents  session -> parent session                                    *)
(*   roots    session -> root session or NoRoot         (session_roots)    *)
(*   runs     root session -> events of the Run         (runs)             *)
(*   pending  source -> events without a known root     (pending_by_source)*)
(* A Run id is the root's session key: make_run_id is injective in it.     *)
(***************************************************************************)
EXTENDS Lineage

IsMap(f, D, R) == /\ f = [k \in DOMAIN f |-> f[k]]
                  /\ DOMAIN f \subseteq D
                  /\ \A k \in DOMAIN f : f[k] \in R

IsStore(s) ==
    /\ s = [events |-> s.events, parents |-> s.parents, roots |-> s.roots,
            runs |-> s.runs, pending |-> s.pending]
    /\ \A e \in s.events : e \in Event
    /\ IsMap(s.parents, SessionKey, SessionKey)
    /\ IsMap(s.roots, SessionKey, SessionKey \cup {NoRoot})
    /\ IsMap(s.runs, SessionKey, SUBSET s.events)
    /\ IsMap(s.pending, Sources, Nat)

OfSource(f, src) == {k \in DOMAIN f : k[1] = src}

\* BTreeMap::retain(other sources) followed by extend(the partition's map).
ReplaceSource(f, src, g) ==
    [k \in (DOMAIN f \ OfSource(f, src)) \cup DOMAIN g |->
        IF k \in DOMAIN g THEN g[k] ELSE f[k]]

\* BTreeMap::insert on the pending map.
SetPending(pending, src, n) ==
    [x \in DOMAIN pending \cup {src} |-> IF x = src THEN n ELSE pending[x]]

-----------------------------------------------------------------------------
(* rebuild_all: every source partition from scratch.                       *)
RunIds(E) == UNION {DOMAIN BuildPartition(E, src).groups : src \in SourcesOf(E)}

RebuildAll(E) ==
    [events  |-> E,
     parents |-> [k \in ChildrenOf(E) |-> BuildPartition(E, k[1]).parents[k]],
     roots   |-> [k \in SessionsOf(E) |-> BuildPartition(E, k[1]).roots[k]],
     runs    |-> [r \in RunIds(E) |-> BuildPartition(E, r[1]).groups[r]],
     pending |-> [src \in SourcesOf(E) |-> BuildPartition(E, src).pending]]

\* catalog_from_runs: what a reader of the rebuilt store is shown.
CatalogOf(E) == RebuildAll(E).runs

-----------------------------------------------------------------------------
(* ingest: the checks made before the event is inserted.                   *)

\* Mutant: an event id is not compared with the known events.
ConflictingDuplicateUnseen(s, e) == FALSE

ConflictingDuplicate(s, e) == \E f \in s.events : f.id = e.id /\ f # e

ConflictsWithParent(s, e) == /\ HasParent(e)
                             /\ KeyOf(e) \in DOMAIN s.parents
                             /\ s.parents[KeyOf(e)] # ParentKey(e)

\* Mutant: only a new session changes the topology.
TopologyChangedByNewSession(s, e) == KeyOf(e) \notin DOMAIN s.roots

TopologyChanged(s, e) ==
    \/ KeyOf(e) \notin DOMAIN s.roots
    \/ /\ HasParent(e)
       /\ ~(KeyOf(e) \in DOMAIN s.parents /\ s.parents[KeyOf(e)] = ParentKey(e))

\* repartition_source: the roots whose Run may have changed.
OldRoot(s, k) == IF k \in DOMAIN s.roots THEN s.roots[k] ELSE NoRoot
NewRoot(p, k) == IF k \in DOMAIN p.roots THEN p.roots[k] ELSE NoRoot

AffectedRoots(s, p, src, inserted) ==
    LET moved == {k \in OfSource(s.roots, src) \cup DOMAIN p.roots :
                    OldRoot(s, k) # NewRoot(p, k)}
    IN  ({OldRoot(s, k) : k \in moved} \cup {NewRoot(p, k) : k \in moved}
          \cup {NewRoot(p, inserted)}) \ {NoRoot}

\* repartition_source after events.insert: s already holds the new event.
Repartition(s, src, inserted) ==
    LET p        == BuildPartition(s.events, src)
        affected == AffectedRoots(s, p, src, inserted)
        updated  == affected \cap DOMAIN p.groups
    IN  [store |->
           [events  |-> s.events,
            parents |-> ReplaceSource(s.parents, src, p.parents),
            roots   |-> ReplaceSource(s.roots, src, p.roots),
            runs    |-> [r \in (DOMAIN s.runs \ affected) \cup updated |->
                            IF r \in updated THEN p.groups[r] ELSE s.runs[r]],
            pending |-> SetPending(s.pending, src, p.pending)],
         updated |-> updated]

\* rebuild_session_run after events.insert: the topology is as it was, only
\* the Run of the event's own root is folded again.
RebuildSessionRun(s, src, session) ==
    LET root == s.roots[session]
    IN  IF root = NoRoot
        THEN [store   |-> [s EXCEPT !.pending =
                             SetPending(s.pending, src, s.pending[src] + 1)],
              updated |-> {}]
        ELSE [store   |-> [s EXCEPT !.runs =
                 [r \in DOMAIN s.runs \cup {root} |->
                    IF r = root
                    THEN {e \in FromSource(s.events, src) :
                            s.roots[KeyOf(e)] = root}
                    ELSE s.runs[r]]],
              updated |-> {root}]

\* The update that follows events.insert in ingest.
WithEvent(s, e) == [s EXCEPT !.events = s.events \cup {e}]

\* Mutant: a repartition reports the session's own Run only.
InsertEventUnreported(s, e) ==
    IF TopologyChanged(s, e)
    THEN [Repartition(WithEvent(s, e), e.source, KeyOf(e)) EXCEPT !.updated = @ \cap {KeyOf(e)}]
    ELSE RebuildSessionRun(WithEvent(s, e), e.source, KeyOf(e))

InsertEvent(s, e) ==
    IF TopologyChanged(s, e)
    THEN Repartition(WithEvent(s, e), e.source, KeyOf(e))
    ELSE RebuildSessionRun(WithEvent(s, e), e.source, KeyOf(e))

\* Mutant: the new partition is not checked.
UpdateFailsUnchecked(s, e) ==
    \E r \in InsertEvent(s, e).updated : ~Folds(InsertEvent(s, e).store.runs[r])

\* The update returns an error, and ingest takes the event out again: the new
\* partition is inconsistent, or a Run that has to be folded cannot be.
UpdateFails(s, e) ==
    LET update == InsertEvent(s, e)
    IN  \/ TopologyChanged(s, e) /\ PartitionFails(s.events \cup {e}, e.source)
        \/ \E r \in update.updated : ~Folds(update.store.runs[r])

\* Mutant: the snapshot of the event's own Run only.
PreviousRunOnly(s, e) == {OldRoot(s, KeyOf(e))} \cap DOMAIN s.runs

\* previous_affected_runs: the snapshots the run deltas are computed from.
PreviousRuns(s, e) ==
    IF TopologyChanged(s, e)
    THEN OfSource(s.runs, e.source)
    ELSE {s.roots[KeyOf(e)]} \cap DOMAIN s.runs

DeltaBase(s, e, r) == IF r \in PreviousRuns(s, e) THEN s.runs[r] ELSE {}

-----------------------------------------------------------------------------
(* delete_session_tree: drop the subtree, rebuild the source's partition.  *)
DeleteTree(s, src, session) ==
    LET left == s.events \ TreeEvents(s.events, src, session)
        p    == BuildPartition(left, src)
    IN  [store |->
           [events  |-> left,
            parents |-> ReplaceSource(s.parents, src, p.parents),
            roots   |-> ReplaceSource(s.roots, src, p.roots),
            runs    |-> ReplaceSource(s.runs, src, p.groups),
            pending |-> IF DOMAIN p.groups = {} /\ p.pending = 0
                        THEN [x \in DOMAIN s.pending \ {src} |-> s.pending[x]]
                        ELSE SetPending(s.pending, src, p.pending)],
         updated |-> DOMAIN p.groups]
=============================================================================
