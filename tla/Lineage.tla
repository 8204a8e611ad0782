------------------------------- MODULE Lineage -------------------------------
(***************************************************************************)
(* Canonical events and the session lineage they spell out: the pure       *)
(* functions of crates/ingest/src/lib.rs that turn a set of events into    *)
(* Runs.                                                                   *)
(*                                                                         *)
(* A session is identified by its source (runtime plus source id) and its  *)
(* session id.  Any event may name the parent session of its own session;  *)
(* a root session is one whose events name no parent; a Run is the set of  *)
(* events of all sessions that lead to one root.  A session whose chain of *)
(* parents reaches a session nobody has seen yet is pending.               *)
(*                                                                         *)
(* Abstraction: everything an event carries besides its identity and its   *)
(* lineage is one value of Contents; a Run's snapshot is represented by    *)
(* the set of events it was folded from (fold_events sorts its input, so   *)
(* the snapshot is a function of that set).                                *)
(***************************************************************************)
EXTENDS Integers, FiniteSets

CONSTANTS Sources,          \* (runtime, source_id) pairs: SourceKey
          Sessions,         \* session ids
          EventIds,         \* event ids
          Contents,         \* the rest of an event's payload
          InvalidContents,  \* payloads that CanonicalEvent::validate refuses
          UnfoldableContents, \* valid, but apply_event misses a field it needs
          NoParent,         \* parent_session_id = None
          NoRoot            \* a root of None: the session is pending

ASSUME NoParentAssumption == NoParent \notin Sessions
ASSUME NoRootAssumption == NoRoot \notin Sources \X Sessions
ASSUME ContentsAssumption == InvalidContents \cup UnfoldableContents \subseteq Contents

SessionKey == Sources \X Sessions

Event == [id      : EventIds,
          source  : Sources,
          session : Sessions,
          parent  : Sessions \cup {NoParent},
          content : Contents]

KeyOf(e) == <<e.source, e.session>>
ParentKey(e) == <<e.source, e.parent>>
HasParent(e) == e.parent # NoParent
Valid(e) == e.content \notin InvalidContents

\* fold_events succeeds on a Run's events: every one has the fields that its
\* type requires (activation_id, status, outcome, call_id, name).
Folds(E) == \A e \in E : e.content \notin UnfoldableContents

FromSource(E, src) == {e \in E : e.source = src}
SourcesOf(E) == {e.source : e \in E}
SessionsOf(E) == {KeyOf(e) : e \in E}
ChildrenOf(E) == {KeyOf(e) : e \in {f \in E : HasParent(f)}}

\* Two events of one session name different parents.
ConflictingLineage(E) ==
    \E e, f \in E : /\ KeyOf(e) = KeyOf(f)
                    /\ HasParent(e) /\ HasParent(f)
                    /\ ParentKey(e) # ParentKey(f)

\* The parents map of a source partition: the first parent named wins, and
\* every other event agrees with it when there is no conflict.
ParentsOf(E) ==
    [k \in ChildrenOf(E) |->
        ParentKey(CHOOSE e \in E : KeyOf(e) = k /\ HasParent(e))]

\* Some session's walk towards its root comes back to a session it visited.
LineageCycle(S, P) ==
    \E C \in SUBSET S : /\ C # {}
                        /\ \A k \in C : k \in DOMAIN P /\ P[k] \in C

\* The sessions resolve_root's loop visits from k: the least set that holds k
\* and follows every parent that is a known session.
Visited(k, S, P) ==
    {v \in S : \A A \in SUBSET S :
        (/\ k \in A
         /\ \A a \in A : (a \in DOMAIN P /\ P[a] \in S) => P[a] \in A)
        => v \in A}

\* resolve_root on an acyclic lineage: the visited session without a parent,
\* or None when the walk stops below a session that is not known.
ResolveRoot(k, S, P) ==
    LET ends == {v \in Visited(k, S, P) : v \notin DOMAIN P}
    IN  IF ends = {} THEN NoRoot ELSE CHOOSE r \in ends : TRUE

\* build_source_partition on the events of one source: it refuses them, or
\* returns parents, roots, events grouped by root, and the number of events
\* whose root is not known yet.
Fails(own) == \/ ConflictingLineage(own)
              \/ LineageCycle(SessionsOf(own), ParentsOf(own))

RootsOf(own) ==
    [k \in SessionsOf(own) |-> ResolveRoot(k, SessionsOf(own), ParentsOf(own))]

RunRootsOf(own) == {RootsOf(own)[k] : k \in SessionsOf(own)} \ {NoRoot}

GroupOf(own, r) == {e \in own : RootsOf(own)[KeyOf(e)] = r}

Partition(own) ==
    [parents |-> ParentsOf(own),
     roots   |-> RootsOf(own),
     groups  |-> [r \in RunRootsOf(own) |-> GroupOf(own, r)],
     pending |-> Cardinality(GroupOf(own, NoRoot))]

PartitionFails(E, src) == Fails(FromSource(E, src))
BuildPartition(E, src) == Partition(FromSource(E, src))

\* What IngestStore::from_events needs of an event set to build a store:
\* collect_events, build_source_partition and fold_run all succeed.  Pending
\* events are not folded.
UniqueIds(E) == \A e, f \in E : e.id = f.id => e = f

SourceLoads(E, src) ==
    /\ ~PartitionFails(E, src)
    /\ \A r \in RunRootsOf(FromSource(E, src)) : Folds(GroupOf(FromSource(E, src), r))

WellFormed(E) == /\ \A e \in E : Valid(e)
                 /\ UniqueIds(E)
                 /\ \A src \in Sources : SourceLoads(E, src)

\* Mutant: the loop ends after one round.
SessionTreeOneRound(E, src, root) ==
    {root} \cup {e.session : e \in {f \in FromSource(E, src) : f.parent = root}}

\* delete_session_tree's fixed point: the session and everything below it.
SessionTree(E, src, root) ==
    {s \in Sessions : \A A \in SUBSET Sessions :
        (/\ root \in A
         /\ \A e \in FromSource(E, src) : e.parent \in A => e.session \in A)
        => s \in A}

TreeEvents(E, src, root) ==
    {e \in FromSource(E, src) : e.session \in SessionTree(E, src, root)}
=============================================================================
