------------------------------- MODULE RunFeed -------------------------------
(***************************************************************************)
(* The ingest store (Ingest) with what it publishes: after each call the   *)
(* snapshot of every updated Run, and for an inserted event the delta from *)
(* the previous snapshot.  A reader that holds a snapshot applies the      *)
(* delta; one that holds none, or cannot apply it, loads the snapshot.     *)
(* Loss and reordering between publishing and reading are left out.        *)
(*   view   Run -> the snapshot the reader shows                           *)
(***************************************************************************)
EXTENDS Ingest, RunFold

\* assertCanonicalLifecycleContract of packages/adapter-runtime: a spawn names
\* its parent.
ASSUME SpawnAssumption == \A e \in Offered : e.content.type = "AgentSpawned" => HasParent(e)

\* An Option is the set of its value.
Nothing == {}
Some(v) == {v}
UnwrapOr(option, default) == IF option = Nothing THEN default ELSE CHOOSE v \in option : TRUE

VARIABLE view
feedVars == <<store, outcome, view>>

-----------------------------------------------------------------------------
(* snapshot_delta and TimelineSplice of crates/ingest/src/lib.rs.          *)
AgentIdsOf(snapshot) == [i \in DOMAIN snapshot.agents |-> snapshot.agents[i].id]

\* The number of entries two timelines share from the start.
CommonLength(s, t) ==
    CHOOSE n \in 0..Len(s) :
        /\ n <= Len(t) /\ SubSeq(s, 1, n) = SubSeq(t, 1, n)
        /\ n = Len(s) \/ n = Len(t) \/ s[n + 1] # t[n + 1]

\* Mutant: an agent is sent when its own usage, status or outcome changed.
UpsertedByOwnState(previous, current) ==
    LET Own(a) == <<a.id, a.usage, a.status, a.outcome, a.tools, a.activations, a.parent>>
    IN  {a \in ToSet(current.agents) :
            \A b \in ToSet(previous.agents) : Own(a) # Own(b)}

UpsertedAgents(previous, current) == ToSet(current.agents) \ ToSet(previous.agents)

NewAgentOrder(previous, current) ==
    IF AgentIdsOf(previous) = AgentIdsOf(current) THEN Nothing ELSE Some(AgentIdsOf(current))

NewTimeline(previous, current) ==
    LET kept == CommonLength(previous.timeline, current.timeline)
    IN  IF previous.timeline = current.timeline THEN Nothing
        ELSE Some([replace_from |-> kept,
                   entries |-> SubSeq(current.timeline, kept + 1, Len(current.timeline))])

SnapshotDelta(previous, current) ==
    [base     |-> previous.event_count,
     target   |-> [root |-> current.root, event_count |-> current.event_count,
                   started |-> current.started, last |-> current.last],
     upserted |-> UpsertedAgents(previous, current),
     removed  |-> ToSet(AgentIdsOf(previous)) \ ToSet(AgentIdsOf(current)),
     order    |-> NewAgentOrder(previous, current),
     edges    |-> IF previous.edges = current.edges THEN Nothing ELSE Some(current.edges),
     timeline |-> NewTimeline(previous, current)]

-----------------------------------------------------------------------------
(* applyRunSnapshotDelta of apps/web/run-delta.js: Nothing when the delta   *)
(* does not fit the snapshot.                                              *)

\* Array.filter: the entries of s that are in S, in their order.
Filter(s, S) ==
    LET kept == {i \in DOMAIN s : s[i] \in S}
    IN  [k \in 1..Cardinality(kept) |->
           s[CHOOSE i \in kept : Cardinality({j \in kept : j < i}) = k - 1]]

\* timeline.slice(0, replaceFrom) and the new entries.
Splice(timeline, splice) == SubSeq(timeline, 1, splice.replace_from) \o splice.entries

ApplyRunSnapshotDelta(snapshot, delta) ==
    LET upserted == {a.id : a \in delta.upserted}
        kept     == {a \in ToSet(snapshot.agents) : a.id \notin delta.removed \cup upserted}
        agents   == kept \cup delta.upserted
        ids      == {a.id : a \in agents}
        order    == UnwrapOr(delta.order, Filter(AgentIdsOf(snapshot), ids))
        fits     == /\ delta.base = snapshot.event_count
                    /\ ToSet(order) \subseteq ids
                    /\ IF delta.order = Nothing THEN upserted \subseteq ToSet(order)
                       ELSE Cardinality(ToSet(order)) = Cardinality(ids)
                    /\ \A splice \in delta.timeline : splice.replace_from <= Len(snapshot.timeline)
    IN  IF ~fits THEN Nothing
        ELSE Some([root        |-> delta.target.root,
                   event_count |-> delta.target.event_count,
                   started     |-> delta.target.started,
                   last        |-> delta.target.last,
                   agents      |-> [i \in DOMAIN order |-> CHOOSE a \in agents : a.id = order[i]],
                   edges       |-> UnwrapOr(delta.edges, snapshot.edges),
                   timeline    |-> UnwrapOr({Splice(snapshot.timeline, splice) : splice \in delta.timeline},
                                            snapshot.timeline)])

-----------------------------------------------------------------------------
(* The state machine: a call of the store and what the reader makes of it. *)
Snapshots(s) == [r \in DOMAIN s.runs |-> FoldEvents(s.runs[r])]

\* A reader of Run r: an inserted event gives a delta unless the Run is new.
ReadRun(r, base, current) ==
    LET snapshot == FoldEvents(current)
        applied  == IF base = {} \/ r \notin DOMAIN view THEN Nothing
                    ELSE ApplyRunSnapshotDelta(view[r], SnapshotDelta(FoldEvents(base), snapshot))
    IN  UnwrapOr(applied, snapshot)

Read == view' = [r \in DOMAIN store'.runs |->
            IF r \notin outcome'.updated THEN view[r]
            ELSE ReadRun(r, IF r \in DOMAIN outcome'.base THEN outcome'.base[r] ELSE {},
                         store'.runs[r])]

FeedInit == Init /\ view = [r \in {} |-> Nothing]
FeedNext ==
    \/ \E e \in Offered : Accept(e) /\ Read
    \/ \E src \in Sources, session \in Sessions : DeleteSessionTree(src, session) /\ Read

FeedSpec == FeedInit /\ [][FeedNext]_feedVars
-----------------------------------------------------------------------------
\* Applying every delta in turn gives the snapshot that folding all events
\* anew gives, whatever the order of arrival: late, equal and early times, a
\* subtree that joins, an agent that moves in the order.
ViewIsTheSnapshot == view = Snapshots(store)

\* A checkpoint of the store is one that restore_runs accepts at the next
\* start: the root the fold finds among the agents is the root by which the
\* store partitioned the events, and the event count is the partition's.
RestoreRunsAccepts(s) ==
    \A r \in DOMAIN s.runs : /\ view[r].root = r[2]
                             /\ view[r].event_count = Cardinality(s.runs[r])
CheckpointIsRestorable == RestoreRunsAccepts(store)

\* The usage an agent shows for its subtree is the sum over the agent and
\* everything below it, up to saturation, whatever the order of their starts.
SumOf(S, f(_)) == MapThenFoldSet(LAMBDA x, y : x + y, 0, f, LAMBDA T : CHOOSE t \in T : TRUE, S)

Subtree(agents, a) ==
    LET ids     == {b.id : b \in agents}
        parents == [s \in {b.id : b \in {c \in agents : c.parent # NoParent}} |->
                      (CHOOSE b \in agents : b.id = s).parent]
    IN  {b \in agents : a.id \in Visited(b.id, ids, parents)}

SubtreeUsageIsSum ==
    \A r \in DOMAIN view : LET agents == ToSet(view[r].agents) IN
        \A a \in agents : \A k \in DOMAIN a.usage :
            a.subtree[k] = Saturated(SumOf(Subtree(agents, a), LAMBDA b : b.usage[k]))

\* A tool call that finished is never shown as running again: no later event,
\* a start that arrives or happens after the finish included, reopens it.
FinishedCalls(snapshot) ==
    UNION {{<<a.id, t>> : t \in {c \in DOMAIN a.tools : a.tools[c].ended # None}} :
             a \in ToSet(snapshot.agents)}

FinishedStaysFinished ==
    [][ outcome'.kind = "inserted" =>
          \A r \in DOMAIN view \cap DOMAIN view' :
              FinishedCalls(view[r]) \subseteq FinishedCalls(view'[r]) ]_feedVars
=============================================================================
