---------------------------- MODULE IngestProofs -----------------------------
(***************************************************************************)
(* Theorems about Ingest, for every set of sources, sessions and events,   *)
(* and about RunFeed, for every content of the events.                     *)
(*                                                                         *)
(* MatchesRebuild is inductive only together with AlwaysLoads: an update   *)
(* that does not change the topology keeps the maps right because no two   *)
(* accepted events of a session name different parents.  AlwaysLoads in    *)
(* turn needs the maps to be right, because ingest decides from the maps   *)
(* what it refuses.  IInv states both, with the types and the finiteness   *)
(* that the pending counters need.                                         *)
(*                                                                         *)
(* The feed adds to this that every Run has been read as it is.  Its proof *)
(* follows the fold, which passes each event once, in an order that leaves *)
(* no two events alike, and so shows each agent's calls as the agent's     *)
(* events finished them; and then the delta, which turns any snapshot of   *)
(* the right shape into the next one.                                      *)
(***************************************************************************)
EXTENDS RunFeed, IngestLemmas, SequenceTheorems

IInv == /\ TypeOK
        /\ IsFiniteSet(store.events)
        /\ MatchesRebuild
        /\ AlwaysLoads

\* A rebuilt store has the type of a store.
LEMMA RebuiltType ==
    ASSUME NEW E, E \subseteq Event, IsFiniteSet(E)
    PROVE  /\ IsStore(RebuildAll(E))
           /\ RunIds(E) \subseteq SessionKey
           /\ RebuildAll(E).events = E
<1> DEFINE R == RebuildAll(E)
<1>1. \A x : FromSource(E, x) \subseteq E
  BY DEF FromSource
<1>2. SessionsOf(E) \subseteq SessionKey
  BY DEF SessionsOf, KeyOf, Event, SessionKey
<1>3. ChildrenOf(E) \subseteq SessionsOf(E)
  BY DEF ChildrenOf, SessionsOf
<1>4. /\ R = [events |-> R.events, parents |-> R.parents, roots |-> R.roots,
              runs |-> R.runs, pending |-> R.pending]
      /\ R.events = E
  BY DEF RebuildAll
<1>5. IsMap(R.parents, SessionKey, SessionKey)
  <2>1. R.parents = [k \in ChildrenOf(E) |-> BuildPartition(E, k[1]).parents[k]]
    BY DEF RebuildAll
  <2>2. ASSUME NEW k \in ChildrenOf(E)
        PROVE  BuildPartition(E, k[1]).parents[k] \in SessionKey
    <3> DEFINE own == FromSource(E, k[1])
               f   == CHOOSE x \in own : KeyOf(x) = k /\ HasParent(x)
    <3>1. k \in ChildrenOf(own)
      BY KeySource
    <3>2. f \in own /\ HasParent(f)
      BY <3>1 DEF ChildrenOf
    <3>3. BuildPartition(E, k[1]).parents[k] = ParentKey(f)
      BY <3>1 DEF BuildPartition, Partition, ParentsOf
    <3>4. f \in Event
      BY <1>1, <3>2
    <3> HIDE DEF f
    <3> QED BY <3>2, <3>3, <3>4 DEF Event, HasParent, ParentKey, SessionKey
  <2> QED BY <1>2, <1>3, <2>1, <2>2 DEF IsMap
<1>6. IsMap(R.roots, SessionKey, SessionKey \cup {NoRoot})
  <2>1. R.roots = [k \in SessionsOf(E) |-> BuildPartition(E, k[1]).roots[k]]
    BY DEF RebuildAll
  <2>2. ASSUME NEW k \in SessionsOf(E)
        PROVE  BuildPartition(E, k[1]).roots[k] \in SessionKey \cup {NoRoot}
    <3> DEFINE own == FromSource(E, k[1])
    <3>1. k \in SessionsOf(own)
      BY KeySource
    <3>2. BuildPartition(E, k[1]).roots[k] = ResolveRoot(k, SessionsOf(own), ParentsOf(own))
      BY <3>1 DEF BuildPartition, Partition, RootsOf
    <3>3. SessionsOf(own) \subseteq SessionKey
      BY <1>1, <1>2 DEF SessionsOf
    <3> QED BY <3>2, <3>3, RootType
  <2> QED BY <1>2, <2>1, <2>2 DEF IsMap
<1>7. RunIds(E) \subseteq SessionKey
  <2> SUFFICES ASSUME NEW r \in RunIds(E) PROVE r \in SessionKey
    OBVIOUS
  <2>1. r \in SessionsOf(FromSource(E, r[1]))
    BY RunIdsBySource, RunRootsAreSessions
  <2> QED BY <1>2, <2>1, KeySource
<1>8. IsMap(R.runs, SessionKey, SUBSET R.events)
  <2>1. \A r \in RunIds(E) : GroupOf(FromSource(E, r[1]), r) \in SUBSET E
    BY <1>1 DEF GroupOf
  <2>2. R.runs = [r \in RunIds(E) |-> GroupOf(FromSource(E, r[1]), r)]
    BY RebuiltRuns
  <2> QED BY <1>4, <1>7, <2>1, <2>2 DEF IsMap
<1>9. IsMap(R.pending, Sources, Nat)
  <2>1. R.pending = [x \in SourcesOf(E) |-> BuildPartition(E, x).pending]
    BY DEF RebuildAll
  <2>2. SourcesOf(E) \subseteq Sources
    BY DEF SourcesOf, Event
  <2>3. ASSUME NEW x
        PROVE  BuildPartition(E, x).pending \in Nat
    <3>1. GroupOf(FromSource(E, x), NoRoot) \subseteq E
      BY <1>1 DEF GroupOf
    <3>2. IsFiniteSet(GroupOf(FromSource(E, x), NoRoot))
      BY <3>1, FS_Subset
    <3> QED BY <3>2, FS_CardinalityType DEF BuildPartition, Partition
  <2> QED BY <2>1, <2>2, <2>3 DEF IsMap
<1> HIDE DEF R
<1>10. IsStore(R)
  BY <1>4, <1>5, <1>6, <1>8, <1>9 DEF IsStore
<1> QED BY <1>4, <1>7, <1>10 DEF R

\* The empty store can be loaded.
LEMMA InitInvariant == Init => IInv
<1> SUFFICES ASSUME Init PROVE IInv
  OBVIOUS
<1>1. store.events = {} /\ store = RebuildAll({})
  BY DEF Init, RebuildAll
<1>2. IsFiniteSet({}) /\ {} \subseteq Event
  BY FS_EmptySet
<1>3. WellFormed({})
  BY EmptyWellFormed
<1>4. outcome = Quiet("none")
  BY DEF Init
<1>5. TypeOK
  <2>1. IsStore(store)
    BY <1>1, <1>2, RebuiltType
  <2> QED BY <1>4, <2>1 DEF TypeOK, Quiet
<1> QED BY <1>1, <1>2, <1>3, <1>5 DEF IInv, MatchesRebuild, AlwaysLoads

\* What an accepted event does to a store that satisfies the invariant.
LEMMA AcceptedEvent ==
    ASSUME IInv, NEW e \in Offered, Accept(e)
    PROVE  LET E == store.events
               F == E \cup {e}
           IN  /\ e \notin E
               /\ store' = RebuildAll(F)
               /\ store'.events = F
               /\ F \subseteq Event /\ IsFiniteSet(F) /\ WellFormed(F)
               /\ outcome'.kind = "inserted"
               /\ outcome'.updated = InsertEvent(RebuildAll(E), e).updated
               /\ outcome'.updated \subseteq RunIds(F)
               /\ outcome'.removed = RunIds(E) \ RunIds(F)
               /\ \A r \in RunIds(F) \ outcome'.updated :
                    r \in RunIds(E) /\ RebuildAll(F).runs[r] = RebuildAll(E).runs[r]
<1> DEFINE E == store.events
           F == E \cup {e}
           upd == InsertEvent(RebuildAll(E), e).updated
           own == FromSource(E, e.source)
<1>1. store = RebuildAll(E) /\ IsFiniteSet(E) /\ WellFormed(E) /\ E \subseteq Event
  BY DEF IInv, MatchesRebuild, AlwaysLoads, TypeOK, IsStore
<1>2. e \in Event /\ e.source \in Sources
  BY OfferedAssumption DEF Event
<1>3. ~ConflictingLineage(own)
  BY <1>1, <1>2 DEF WellFormed, SourceLoads, PartitionFails, Fails
<1>4. /\ Valid(e) /\ e \notin E
      /\ ~ConflictingDuplicate(RebuildAll(E), e)
      /\ ~ConflictsWithParent(RebuildAll(E), e)
      /\ ~UpdateFails(RebuildAll(E), e)
  BY <1>1 DEF Accept
<1>5. WellFormed(F)
  BY <1>1, <1>2, <1>4, AcceptedExactly
<1>6. InsertEvent(RebuildAll(E), e).store = RebuildAll(F)
  BY <1>1, <1>3, <1>4, InsertMatches
<1>7. store' = RebuildAll(F)
  BY <1>1, <1>6 DEF Accept
<1>8. F \subseteq Event /\ IsFiniteSet(F)
  BY <1>1, <1>2, FS_AddElement
<1>9. RebuildAll(F).events = F
  BY DEF RebuildAll
<1>10. /\ outcome'.kind = "inserted"
       /\ outcome'.updated = upd
       /\ outcome'.removed = DOMAIN RebuildAll(E).runs \ DOMAIN RebuildAll(F).runs
  BY <1>1, <1>6 DEF Accept
<1>11. outcome'.removed = RunIds(E) \ RunIds(F)
  BY <1>10, RebuiltRuns
<1>12. /\ upd \subseteq RunIds(F)
       /\ \A r \in RunIds(F) \ upd :
             r \in RunIds(E) /\ RebuildAll(F).runs[r] = RebuildAll(E).runs[r]
  <2> HIDE DEF E
  <2> QED BY <1>3, InsertedRuns
<1> HIDE DEF upd, E, F
<1> QED BY <1>4, <1>5, <1>7, <1>8, <1>9, <1>10, <1>11, <1>12 DEF upd, E, F

\* What a delete does to a store that satisfies the invariant.
LEMMA DeletedTree ==
    ASSUME IInv, NEW src \in Sources, NEW session \in Sessions,
           DeleteSessionTree(src, session)
    PROVE  LET E == store.events
               F == E \ TreeEvents(E, src, session)
           IN  /\ store' = RebuildAll(F)
               /\ store'.events = F
               /\ F \subseteq Event /\ IsFiniteSet(F) /\ WellFormed(F)
               /\ outcome'.kind = "deleted"
               /\ outcome'.updated \subseteq {r \in RunIds(F) : r[1] = src}
               /\ outcome'.removed = RunIds(E) \ RunIds(F)
               /\ \A r \in RunIds(F) \ outcome'.updated :
                    r \in RunIds(E) /\ RebuildAll(F).runs[r] = RebuildAll(E).runs[r]
<1> DEFINE E == store.events
           F == E \ TreeEvents(E, src, session)
<1>1. store = RebuildAll(E) /\ IsFiniteSet(E) /\ WellFormed(E) /\ E \subseteq Event
  BY DEF IInv, MatchesRebuild, AlwaysLoads, TypeOK, IsStore
<1>2. F \subseteq Event /\ IsFiniteSet(F)
  BY <1>1, FS_Subset
<1>3. WellFormed(F)
  BY <1>1, DeleteKeepsWellFormed
<1>4. RebuildAll(F).events = F
  BY DEF RebuildAll
<1>6. CASE TreeEvents(E, src, session) = {}
  <2>1. F = E
    BY <1>6
  <2>2. store' = store /\ outcome' = Quiet("deleted")
    BY <1>6 DEF DeleteSessionTree
  <2> QED BY <1>1, <1>2, <1>3, <1>4, <2>1, <2>2 DEF Quiet
<1>7. CASE TreeEvents(E, src, session) # {}
  <2> DEFINE d == DeleteTree(RebuildAll(E), src, session)
  <2>1. /\ d.store = RebuildAll(F) /\ d.updated \subseteq {r \in RunIds(F) : r[1] = src}
        /\ OfSource(RebuildAll(E).runs, src) \ d.updated = RunIds(E) \ RunIds(F)
        /\ \A r \in RunIds(F) \ d.updated :
              r \in RunIds(E) /\ RebuildAll(F).runs[r] = RebuildAll(E).runs[r]
    <3> HIDE DEF E
    <3> QED BY <1>1, DeletedRuns
  <2>2. /\ store' = d.store
        /\ outcome' = [kind |-> "deleted", updated |-> d.updated,
                       removed |-> OfSource(RebuildAll(E).runs, src) \ d.updated,
                       base |-> NoDelta]
    BY <1>1, <1>7 DEF DeleteSessionTree
  <2> HIDE DEF d, E, F
  <2> QED BY <1>2, <1>3, <1>4, <2>1, <2>2 DEF E, F
<1> QED BY <1>6, <1>7

\* Every call preserves the invariant.
LEMMA NextInvariant == IInv /\ [Next]_vars => IInv'
<1> SUFFICES ASSUME IInv, [Next]_vars PROVE IInv'
  OBVIOUS
<1>1. ASSUME store' = store, outcome' = outcome
      PROVE  IInv'
  BY <1>1 DEF IInv, TypeOK, MatchesRebuild, AlwaysLoads
<1>2. ASSUME NEW kind \in {"none", "error", "duplicate", "inserted", "deleted"},
             store' = store, outcome' = Quiet(kind)
      PROVE  IInv'
  <2>1. TypeOK'
    BY <1>2 DEF IInv, TypeOK, Quiet
  <2> QED BY <1>2, <2>1 DEF IInv, MatchesRebuild, AlwaysLoads
<1>3. ASSUME NEW F, F \subseteq Event, IsFiniteSet(F), WellFormed(F),
             store' = RebuildAll(F), store'.events = F,
             outcome'.kind \in {"inserted", "deleted"},
             outcome'.updated \subseteq RunIds(F),
             outcome'.removed \subseteq RunIds(store.events)
      PROVE  IInv'
  <2>1. IsStore(store') /\ RunIds(F) \subseteq SessionKey
    BY <1>3, RebuiltType
  <2>2. RunIds(store.events) \subseteq SessionKey
    <3>1. store.events \subseteq Event /\ IsFiniteSet(store.events)
      BY DEF IInv, TypeOK, IsStore
    <3> QED BY <3>1, RebuiltType
  <2>3. TypeOK'
    BY <1>3, <2>1, <2>2 DEF TypeOK
  <2> QED BY <1>3, <2>3 DEF IInv, MatchesRebuild, AlwaysLoads
<1>4. ASSUME NEW e \in Offered, Reject(e)
      PROVE  IInv'
  BY <1>2, <1>4 DEF Reject
<1>5. ASSUME NEW e \in Offered, Duplicate(e)
      PROVE  IInv'
  BY <1>2, <1>5 DEF Duplicate
<1>6. ASSUME NEW e \in Offered, Accept(e)
      PROVE  IInv'
  <2> DEFINE F == store.events \cup {e}
  <2>1. /\ store' = RebuildAll(F) /\ store'.events = F
        /\ F \subseteq Event /\ IsFiniteSet(F) /\ WellFormed(F)
        /\ outcome'.kind = "inserted" /\ outcome'.updated \subseteq RunIds(F)
        /\ outcome'.removed = RunIds(store.events) \ RunIds(F)
    BY <1>6, AcceptedEvent
  <2> QED BY <1>3, <2>1
<1>7. ASSUME NEW src \in Sources, NEW session \in Sessions, DeleteSessionTree(src, session)
      PROVE  IInv'
  <2> DEFINE F == store.events \ TreeEvents(store.events, src, session)
  <2>1. /\ store' = RebuildAll(F) /\ store'.events = F
        /\ F \subseteq Event /\ IsFiniteSet(F) /\ WellFormed(F)
        /\ outcome'.kind = "deleted" /\ outcome'.updated \subseteq RunIds(F)
        /\ outcome'.removed = RunIds(store.events) \ RunIds(F)
    BY <1>7, DeletedTree
  <2> QED BY <1>3, <2>1
<1> QED BY <1>1, <1>4, <1>5, <1>6, <1>7 DEF Next, vars

\* The inductive invariant holds in every reachable state of the ingest store.
THEOREM Invariant == Spec => []IInv
<1>1. Init => IInv
  BY InitInvariant
<1>2. IInv /\ [Next]_vars => IInv'
  BY NextInvariant
<1> QED BY <1>1, <1>2, PTL DEF Spec

\* Type correctness of the ingest store.
THEOREM TypeCorrect == Spec => []TypeOK
<1>1. IInv => TypeOK
  BY DEF IInv
<1> QED BY <1>1, Invariant, PTL

\* The incrementally maintained projection always equals the projection that
\* rebuild_all computes from the accepted events.
THEOREM IncrementalEqualsRebuild == Spec => []MatchesRebuild
<1>1. IInv => MatchesRebuild
  BY DEF IInv
<1> QED BY <1>1, Invariant, PTL

\* The accepted events can always be loaded by from_events after a restart.
THEOREM RestartLoads == Spec => []AlwaysLoads
<1>1. IInv => AlwaysLoads
  BY DEF IInv
<1> QED BY <1>1, Invariant, PTL

-----------------------------------------------------------------------------
(* What a call may never do.                                               *)

\* The Runs of a store that satisfies the invariant.
LEMMA RunsOfStore ==
    ASSUME IInv
    PROVE  store = RebuildAll(store.events) /\ DOMAIN store.runs = RunIds(store.events)
<1>1. store = RebuildAll(store.events)
  BY DEF IInv, MatchesRebuild
<1>2. DOMAIN RebuildAll(store.events).runs = RunIds(store.events)
  BY RebuiltRuns
<1> QED BY <1>1, <1>2

\* A call names every Run it changed, and removes no Run without saying so:
\* what the server persists from the outcome leaves no stale Run behind.
THEOREM ChangesReported == Spec => ReportsEveryChange
<1> DEFINE Reported ==
        /\ \A r \in DOMAIN store'.runs :
              (r \notin DOMAIN store.runs \/ store'.runs[r] # store.runs[r])
                => r \in outcome'.updated
        /\ outcome'.removed = DOMAIN store.runs \ DOMAIN store'.runs
        /\ outcome'.updated \subseteq DOMAIN store'.runs
<1>1. ASSUME IInv, [Next]_vars
      PROVE  [Reported]_vars
  <2>1. ASSUME NEW kind, store' = store, outcome' = Quiet(kind)
        PROVE  Reported
    BY <2>1 DEF Quiet
  <2>2. ASSUME NEW E, NEW F, store = RebuildAll(E), store' = RebuildAll(F),
               outcome'.updated \subseteq RunIds(F),
               outcome'.removed = RunIds(E) \ RunIds(F),
               \A r \in RunIds(F) \ outcome'.updated :
                  r \in RunIds(E) /\ RebuildAll(F).runs[r] = RebuildAll(E).runs[r]
        PROVE  Reported
    <3>1. DOMAIN RebuildAll(E).runs = RunIds(E) /\ DOMAIN RebuildAll(F).runs = RunIds(F)
      BY RebuiltRuns
    <3> QED BY <2>2, <3>1
  <2>3. store = RebuildAll(store.events)
    BY <1>1, RunsOfStore
  <2>4. ASSUME NEW e \in Offered, Reject(e) \/ Duplicate(e)
        PROVE  Reported
    BY <2>1, <2>4 DEF Reject, Duplicate
  <2>5. ASSUME NEW e \in Offered, Accept(e)
        PROVE  Reported
    <3> DEFINE E == store.events
               F == E \cup {e}
    <3>1. /\ store' = RebuildAll(F) /\ outcome'.updated \subseteq RunIds(F)
          /\ outcome'.removed = RunIds(E) \ RunIds(F)
          /\ \A r \in RunIds(F) \ outcome'.updated :
                r \in RunIds(E) /\ RebuildAll(F).runs[r] = RebuildAll(E).runs[r]
      BY <1>1, <2>5, AcceptedEvent
    <3> HIDE DEF E, F, Reported
    <3> QED BY <2>2, <2>3, <3>1 DEF E
  <2>6. ASSUME NEW src \in Sources, NEW session \in Sessions,
               DeleteSessionTree(src, session)
        PROVE  Reported
    <3> DEFINE E == store.events
               F == E \ TreeEvents(E, src, session)
    <3>1. /\ store' = RebuildAll(F) /\ outcome'.updated \subseteq RunIds(F)
          /\ outcome'.removed = RunIds(E) \ RunIds(F)
          /\ \A r \in RunIds(F) \ outcome'.updated :
                r \in RunIds(E) /\ RebuildAll(F).runs[r] = RebuildAll(E).runs[r]
      BY <1>1, <2>6, DeletedTree
    <3> HIDE DEF E, F, Reported
    <3> QED BY <2>2, <2>3, <3>1 DEF E
  <2> HIDE DEF Reported
  <2> QED BY <1>1, <2>4, <2>5, <2>6 DEF Next, vars
<1> QED BY <1>1, Invariant, PTL DEF Spec, ReportsEveryChange

\* The snapshot an accepted event's deltas are computed from.
LEMMA AcceptedBases ==
  ASSUME IInv, NEW e \in Offered, Accept(e)
  PROVE  /\ DOMAIN outcome'.base = outcome'.updated
         /\ \A r \in outcome'.updated :
               outcome'.base[r] = IF r \in DOMAIN store.runs THEN store.runs[r] ELSE {}
<1> DEFINE E   == store.events
           upd == InsertEvent(store, e).updated
<1>1. /\ outcome'.updated = upd
      /\ outcome'.base = [r \in upd |-> DeltaBase(store, e, r)]
  BY DEF Accept
<1>2. store = RebuildAll(E) /\ DOMAIN store.runs = RunIds(E)
  BY RunsOfStore
<1>3. e.source \in Sources /\ WellFormed(E)
  BY OfferedAssumption DEF Event, IInv, AlwaysLoads
<1>4. ~ConflictingLineage(FromSource(E, e.source))
  BY <1>3 DEF WellFormed, SourceLoads, PartitionFails, Fails
<1>5. ASSUME NEW r \in upd, r \in DOMAIN store.runs
      PROVE  r \in PreviousRuns(store, e)
  <2>1. r[1] = e.source
    <3> HIDE DEF E
    <3> QED BY <1>2, <1>4, InsertUpdates
  <2>2. CASE TopologyChanged(store, e)
    BY <1>5, <2>1, <2>2 DEF PreviousRuns, OfSource
  <2>3. CASE ~TopologyChanged(store, e)
    <3>1. upd \subseteq {store.roots[KeyOf(e)]}
      <4> DEFINE s == WithEvent(store, e)
      <4>1. upd = RebuildSessionRun(s, e.source, KeyOf(e)).updated
        BY <2>3 DEF InsertEvent
      <4>2. s.roots = store.roots
        <5>1. WithEvent(RebuildAll(E), e).roots = RebuildAll(E).roots
          BY WithEventFields
        <5> HIDE DEF E
        <5> QED BY <1>2, <5>1
      <4> HIDE DEF s, upd
      <4> QED BY <4>1, <4>2 DEF RebuildSessionRun
    <3> QED BY <1>5, <2>3, <3>1 DEF PreviousRuns
  <2> QED BY <2>2, <2>3
<1>6. \A r \in PreviousRuns(store, e) : r \in DOMAIN store.runs
  BY DEF PreviousRuns, OfSource
<1> HIDE DEF upd
<1> QED BY <1>1, <1>5, <1>6 DEF DeltaBase

\* Every run delta starts from the snapshot that was current before the call.
THEOREM DeltaBases == Spec => DeltasStartFromPublished
<1> DEFINE Based ==
        outcome'.kind = "inserted" =>
          \A r \in outcome'.updated :
             outcome'.base[r] = IF r \in DOMAIN store.runs THEN store.runs[r] ELSE {}
<1>1. ASSUME IInv, [Next]_vars
      PROVE  [Based]_vars
  <2>1. ASSUME NEW e \in Offered, Reject(e) \/ Duplicate(e)
        PROVE  Based
    BY <2>1 DEF Reject, Duplicate, Quiet
  <2>2. ASSUME NEW e \in Offered, Accept(e)
        PROVE  Based
    BY <1>1, <2>2, AcceptedBases
  <2>3. ASSUME NEW src \in Sources, NEW session \in Sessions,
               DeleteSessionTree(src, session)
        PROVE  Based
    BY <1>1, <2>3, DeletedTree
  <2> HIDE DEF Based
  <2> QED BY <1>1, <2>1, <2>2, <2>3 DEF Next, vars
<1> QED BY <1>1, Invariant, PTL DEF Spec, DeltasStartFromPublished

\* After a delete no remaining event names a deleted session as its parent,
\* every remaining session keeps its root, and other sources keep their Runs.
THEOREM DeletesWholeTrees == Spec => DeleteLeavesNoOrphan
<1> DEFINE NoOrphan ==
        outcome'.kind = "deleted" =>
          LET gone == store.events \ store'.events
          IN  /\ \A e \in store'.events : \A d \in gone : ParentKey(e) # KeyOf(d)
              /\ \A e \in store'.events : store'.roots[KeyOf(e)] = store.roots[KeyOf(e)]
              /\ \A r \in DOMAIN store.runs :
                    (\A d \in gone : d.source # r[1]) =>
                       r \in DOMAIN store'.runs /\ store'.runs[r] = store.runs[r]
<1>1. ASSUME IInv, [Next]_vars
      PROVE  [NoOrphan]_vars
  <2>1. ASSUME NEW e \in Offered, Reject(e) \/ Duplicate(e)
        PROVE  NoOrphan
    BY <2>1 DEF Reject, Duplicate, Quiet
  <2>2. ASSUME NEW e \in Offered, Accept(e)
        PROVE  NoOrphan
    BY <2>2 DEF Accept
  <2>3. ASSUME NEW src \in Sources, NEW session \in Sessions,
               DeleteSessionTree(src, session)
        PROVE  NoOrphan
    <3> DEFINE E    == store.events
               tree == TreeEvents(E, src, session)
               F    == E \ tree
               kept == FromSource(F, src)
    <3>1. store' = RebuildAll(F) /\ store'.events = F
      BY <1>1, <2>3, DeletedTree
    <3>2. store = RebuildAll(E) /\ DOMAIN store.runs = RunIds(E)
      BY <1>1, RunsOfStore
    <3>3. (\A e \in E : e \in Event) /\ ~Fails(FromSource(E, src))
      BY <1>1 DEF IInv, TypeOK, IsStore, AlwaysLoads, WellFormed, SourceLoads, PartitionFails
    <3>4. tree \subseteq E
      BY DEF TreeEvents, FromSource
    <3>5. ASSUME NEW e \in F, NEW d \in E \ F
          PROVE  ParentKey(e) # KeyOf(d)
      <4>1. SUFFICES ASSUME ParentKey(e) = KeyOf(d) PROVE FALSE
        OBVIOUS
      <4>2. d \in tree
        OBVIOUS
      <4>3. d.source = src /\ d.session \in SessionTree(E, src, session)
        BY <4>2 DEF TreeEvents, FromSource
      <4>4. e.source = src /\ e.parent \in SessionTree(E, src, session)
        BY <4>1, <4>3 DEF ParentKey, KeyOf
      <4>5. e \in FromSource(E, src) /\ e \notin tree
        BY <4>4 DEF FromSource
      <4>6. \A x \in E : x.session \in Sessions
        BY <3>3 DEF Event
      <4> QED BY <4>4, <4>5, <4>6, TreeClosed
    <3>6. ASSUME NEW e \in F
          PROVE  RebuildAll(F).roots[KeyOf(e)] = RebuildAll(E).roots[KeyOf(e)]
      <4>1. \A G : \A k \in SessionsOf(G) : RebuildAll(G).roots[k] = RootsOf(FromSource(G, k[1]))[k]
        BY DEF RebuildAll, BuildPartition, Partition
      <4>2. KeyOf(e) \in SessionsOf(F) /\ KeyOf(e) \in SessionsOf(E) /\ KeyOf(e)[1] = e.source
        BY KeySource DEF SessionsOf
      <4>3. RootsOf(FromSource(F, e.source))[KeyOf(e)] = RootsOf(FromSource(E, e.source))[KeyOf(e)]
        <5>1. CASE e.source = src
          <6>1. KeyOf(e) \in SessionsOf(kept)
            BY <4>2, <5>1, KeySource
          <6>2. \A k \in SessionsOf(kept) : RootsOf(kept)[k] = RootsOf(FromSource(E, src))[k]
            <7> HIDE DEF E
            <7> QED BY <3>3, LineageLeft
          <6> QED BY <5>1, <6>1, <6>2
        <5>2. CASE e.source # src
          BY <5>2, KeptSources
        <5> QED BY <5>1, <5>2
      <4> QED BY <4>1, <4>2, <4>3
    <3>7. ASSUME NEW r \in RunIds(E), \A d \in E \ F : d.source # r[1]
          PROVE  r \in RunIds(F) /\ RebuildAll(F).runs[r] = RebuildAll(E).runs[r]
      <4>1. FromSource(F, r[1]) = FromSource(E, r[1])
        BY <3>7 DEF FromSource
      <4>2. r \in RunIds(F)
        BY <4>1, RunIdsBySource
      <4>3. RebuildAll(F).runs[r] = GroupOf(FromSource(F, r[1]), r)
            /\ RebuildAll(E).runs[r] = GroupOf(FromSource(E, r[1]), r)
        <5> HIDE DEF E, F
        <5> QED BY <4>2, RebuiltRuns
      <4> QED BY <4>1, <4>2, <4>3
    <3>8. DOMAIN RebuildAll(F).runs = RunIds(F)
      BY RebuiltRuns
    <3> HIDE DEF E, F
    <3> QED BY <3>1, <3>2, <3>5, <3>6, <3>7, <3>8 DEF E
  <2> HIDE DEF NoOrphan
  <2> QED BY <1>1, <2>1, <2>2, <2>3 DEF Next, vars
<1> QED BY <1>1, Invariant, PTL DEF Spec, DeleteLeavesNoOrphan

-----------------------------------------------------------------------------
(* The ingest store implements the catalog log.                            *)

\* Every call of the ingest store is a call of the log it promises.
LEMMA StepImplements ==
    ASSUME IInv, [Next]_vars
    PROVE  [Log!Next]_<<store.events, store.runs, outcome.kind>>
<1>1. store = RebuildAll(store.events) /\ IsFiniteSet(store.events)
      /\ WellFormed(store.events)
  BY DEF IInv, MatchesRebuild, AlwaysLoads
<1>2. \A e \in Offered : e.source \in Sources
  BY OfferedAssumption DEF Event
<1>3. ASSUME NEW e \in Offered, Reject(e)
      PROVE  Log!Refuse(e)
  <2>1. e \notin store.events
    <3>1. SUFFICES ASSUME e \in store.events PROVE FALSE
      OBVIOUS
    <3>2. Valid(e) /\ ~ConflictingDuplicate(store, e)
      BY <1>1, <3>1 DEF WellFormed, UniqueIds, ConflictingDuplicate
    <3> QED BY <1>3, <3>1, <3>2 DEF Reject
  <2>2. ~WellFormed(store.events \cup {e})
    BY <1>1, <1>2, <1>3, <2>1, AcceptedExactly DEF Reject
  <2>3. store' = store /\ outcome'.kind = "error"
    BY <1>3 DEF Reject, Quiet
  <2> QED BY <2>1, <2>2, <2>3 DEF Log!Refuse
<1>4. ASSUME NEW e \in Offered, Duplicate(e)
      PROVE  Log!Repeat(e)
  BY <1>4 DEF Duplicate, Quiet, Log!Repeat
<1>5. ASSUME NEW e \in Offered, Accept(e)
      PROVE  Log!Append(e)
  <2> DEFINE F == store.events \cup {e}
  <2>1. /\ e \notin store.events /\ store' = RebuildAll(F) /\ store'.events = F
        /\ WellFormed(F) /\ outcome'.kind = "inserted"
    BY <1>5, AcceptedEvent
  <2> QED BY <2>1 DEF Log!Append, CatalogOf
<1>6. ASSUME NEW src \in Sources, NEW session \in Sessions,
             DeleteSessionTree(src, session)
      PROVE  Log!Delete(src, session)
  <2> DEFINE F == store.events \ TreeEvents(store.events, src, session)
  <2>1. /\ store' = RebuildAll(F) /\ store'.events = F /\ outcome'.kind = "deleted"
    BY <1>6, DeletedTree
  <2> QED BY <2>1 DEF Log!Delete, CatalogOf
<1>7. ASSUME UNCHANGED vars
      PROVE  UNCHANGED <<store.events, store.runs, outcome.kind>>
  BY <1>7 DEF vars
<1> QED BY <1>3, <1>4, <1>5, <1>6, <1>7 DEF Next, Log!Next

\* The ingest store keeps the promise of CatalogLog: it accepts an event exactly
\* when a rebuild with it succeeds, and its catalog is the rebuilt one.
THEOREM Implementation == Spec => ImplementsCatalogLog
<1>1. Init => Log!Init
  <2>1. RebuildAll({}).events = {}
    BY DEF RebuildAll
  <2> QED BY <2>1 DEF Init, Log!Init, Quiet, CatalogOf
<1>2. IInv /\ [Next]_vars => [Log!Next]_<<store.events, store.runs, outcome.kind>>
  BY StepImplements
<1> QED BY <1>1, <1>2, Invariant, PTL DEF Spec, ImplementsCatalogLog, Log!Spec

-----------------------------------------------------------------------------
(* Sorting by tuples of numbers.                                           *)

\* Tuples of one length are compared at the first place where they differ.
LEMMA FirstDifference ==
  ASSUME NEW n \in Nat, NEW x, NEW y, NEW k \in 1 .. n, x[k] # y[k]
  PROVE  \E i \in 1 .. n : x[i] # y[i] /\ \A j \in 1 .. (i - 1) : x[j] = y[j]
<1> DEFINE T == {i \in 1 .. n : x[i] # y[i]}
<1>1. T \in SUBSET Nat /\ T # {}
  OBVIOUS
<1>2. PICK i \in T : \A m \in T : i <= m
  <2> HIDE DEF T
  <2> QED BY <1>1, Least
<1>3. ASSUME NEW j \in 1 .. (i - 1) PROVE x[j] = y[j]
  <2>1. j \in 1 .. n /\ ~(i <= j)
    BY <1>2
  <2> QED BY <1>2, <2>1
<1> QED BY <1>2, <1>3

Keys(n) == [1 .. n -> Int]

LEMMA BelowIrreflexive ==
  ASSUME NEW n \in Nat, NEW x \in Keys(n)
  PROVE  ~Below(x, x)
BY DEF Below, Keys

LEMMA BelowTransitive ==
  ASSUME NEW n \in Nat, NEW x \in Keys(n), NEW y \in Keys(n), NEW z \in Keys(n),
         Below(x, y), Below(y, z)
  PROVE  Below(x, z)
<1>1. PICK a \in 1 .. n : x[a] < y[a] /\ \A j \in 1 .. (a - 1) : x[j] = y[j]
  BY DEF Below, Keys
<1>2. PICK b \in 1 .. n : y[b] < z[b] /\ \A j \in 1 .. (b - 1) : y[j] = z[j]
  BY DEF Below, Keys
<1>3. DOMAIN x = 1 .. n /\ \A i \in 1 .. n : x[i] \in Int /\ y[i] \in Int /\ z[i] \in Int
  BY DEF Keys
<1>4. CASE a <= b
  <2>1. x[a] < z[a]
    <3>1. CASE a = b
      BY <1>1, <1>2, <1>3, <3>1
    <3>2. CASE a < b
      <4>1. a \in 1 .. (b - 1)
        BY <3>2
      <4>2. y[a] = z[a]
        BY <1>2, <4>1
      <4> QED BY <1>1, <1>3, <4>2
    <3> QED BY <1>4, <3>1, <3>2
  <2>2. ASSUME NEW j \in 1 .. (a - 1) PROVE x[j] = z[j]
    <3>1. j \in 1 .. (b - 1)
      BY <1>4
    <3> QED BY <1>1, <1>2, <3>1
  <2> QED BY <1>3, <2>1, <2>2 DEF Below
<1>5. CASE b < a
  <2>1. b \in 1 .. (a - 1)
    BY <1>5
  <2>2. x[b] < z[b]
    BY <1>1, <1>2, <2>1
  <2>3. ASSUME NEW j \in 1 .. (b - 1) PROVE x[j] = z[j]
    <3>1. j \in 1 .. (a - 1)
      BY <1>5
    <3> QED BY <1>1, <1>2, <3>1
  <2> QED BY <1>3, <2>2, <2>3 DEF Below
<1> QED BY <1>4, <1>5

LEMMA BelowTotal ==
  ASSUME NEW n \in Nat, NEW x \in Keys(n), NEW y \in Keys(n), x # y
  PROVE  Below(x, y) \/ Below(y, x)
<1>1. /\ DOMAIN x = 1 .. n /\ DOMAIN y = 1 .. n
      /\ \A i \in 1 .. n : x[i] \in Int /\ y[i] \in Int
  BY DEF Keys
<1>2. PICK k \in 1 .. n : x[k] # y[k]
  BY DEF Keys
<1>3. PICK i \in 1 .. n : x[i] # y[i] /\ \A j \in 1 .. (i - 1) : x[j] = y[j]
  BY <1>2, FirstDifference
<1>4. x[i] < y[i] \/ y[i] < x[i]
  BY <1>1, <1>3
<1>5. ASSUME x[i] < y[i] PROVE Below(x, y)
  BY <1>1, <1>3, <1>5 DEF Below
<1>6. ASSUME y[i] < x[i] PROVE Below(y, x)
  BY <1>1, <1>3, <1>6 DEF Below
<1> QED BY <1>4, <1>5, <1>6

\* Keys that no two elements share give every element a place of its own.
LEMMA Sorted ==
  ASSUME NEW D, IsFiniteSet(D), NEW n \in Nat, NEW key \in [D -> Keys(n)],
         \A e, f \in D : key[e] = key[f] => e = f
  PROVE  /\ Cardinality(D) \in Nat
         /\ SortedBy(key) \in [1 .. Cardinality(D) -> D]
         /\ \A i, j \in 1 .. Cardinality(D) : SortedBy(key)[i] = SortedBy(key)[j] => i = j
         /\ \A e \in D : \E i \in 1 .. Cardinality(D) : SortedBy(key)[i] = e
<1> DEFINE m        == Cardinality(D)
           lower(e) == {f \in D : Below(key[f], key[e])}
           rank     == [e \in D |-> Cardinality(lower(e))]
<1>1. m \in Nat
  BY FS_CardinalityType
<1>2. ASSUME NEW e \in D PROVE rank[e] \in 0 .. (m - 1)
  <2>1. lower(e) \in SUBSET D /\ e \notin lower(e)
    BY BelowIrreflexive
  <2>2. IsFiniteSet(lower(e)) /\ Cardinality(lower(e)) <= m /\ Cardinality(lower(e)) # m
    <3> HIDE DEF lower
    <3> QED BY <2>1, FS_Subset
  <2>3. Cardinality(lower(e)) \in Nat
    BY <2>2, FS_CardinalityType
  <2>4. rank[e] = Cardinality(lower(e))
    OBVIOUS
  <2> HIDE DEF lower, rank, m
  <2> QED BY <1>1, <2>2, <2>3, <2>4 DEF m
<1>3. ASSUME NEW e \in D, NEW f \in D, Below(key[e], key[f]) PROVE rank[e] < rank[f]
  <2>1. lower(e) \in SUBSET lower(f)
    <3> SUFFICES ASSUME NEW g \in lower(e) PROVE Below(key[g], key[f])
      OBVIOUS
    <3>1. g \in D /\ Below(key[g], key[e])
      OBVIOUS
    <3> QED BY <1>3, <3>1, BelowTransitive
  <2>2. e \in lower(f) /\ e \notin lower(e)
    BY <1>3, BelowIrreflexive
  <2>3. lower(f) \in SUBSET D
    OBVIOUS
  <2>4. rank[e] = Cardinality(lower(e)) /\ rank[f] = Cardinality(lower(f))
    OBVIOUS
  <2>5. rank[e] \in Nat /\ rank[f] \in Nat
    BY <1>2
  <2> HIDE DEF lower, rank
  <2>6. IsFiniteSet(lower(f))
    BY <2>3, FS_Subset
  <2>7. Cardinality(lower(e)) <= Cardinality(lower(f)) /\ Cardinality(lower(e)) # Cardinality(lower(f))
    BY <2>1, <2>2, <2>6, FS_Subset
  <2> QED BY <2>4, <2>5, <2>7
<1>4. ASSUME NEW e \in D, NEW f \in D, rank[e] = rank[f] PROVE e = f
  <2>1. SUFFICES ASSUME e # f PROVE FALSE
    OBVIOUS
  <2>2. Below(key[e], key[f]) \/ Below(key[f], key[e])
    BY <2>1, BelowTotal
  <2>3. rank[e] \in Nat /\ rank[f] \in Nat
    BY <1>2
  <2> HIDE DEF rank
  <2> QED BY <1>3, <1>4, <2>2, <2>3
<1> HIDE DEF rank
<1>5. rank \in [D -> 0 .. (m - 1)]
  BY <1>2 DEF rank
<1>6. rank \in Injection(D, 0 .. (m - 1))
  BY <1>4, <1>5 DEF Injection, IsInjective
<1>7. IsFiniteSet(0 .. (m - 1)) /\ Cardinality(0 .. (m - 1)) = m
  <2> HIDE DEF m
  <2>1. IsFiniteSet(0 .. (m - 1)) /\ Cardinality(0 .. (m - 1)) = IF 0 > m - 1 THEN 0 ELSE (m - 1) - 0 + 1
    BY <1>1, FS_Interval
  <2> QED BY <1>1, <2>1
<1>8. rank \in Surjection(D, 0 .. (m - 1))
  <2> DEFINE T == 0 .. (m - 1)
  <2>1. rank \in Injection(D, T) /\ IsFiniteSet(T) /\ Cardinality(T) = Cardinality(D)
    BY <1>6, <1>7
  <2> HIDE DEF T, m
  <2>2. rank \in Surjection(D, T)
    BY <2>1, FS_Injection
  <2> QED BY <2>2 DEF T
<1>9. ASSUME NEW i \in 1 .. m PROVE \E e \in D : rank[e] = i - 1
  <2>1. i - 1 \in 0 .. (m - 1)
    BY <1>1
  <2> QED BY <1>8, <2>1 DEF Surjection
<1> DEFINE s == SortedBy(key)
<1>10. s = [i \in 1 .. m |-> CHOOSE e \in D : rank[e] = i - 1]
  <2>1. DOMAIN key = D
    OBVIOUS
  <2>2. rank = [e \in D |-> Cardinality({f \in D : Below(key[f], key[e])})]
    BY DEF rank
  <2>3. s = [i \in 1 .. Cardinality(DOMAIN key) |-> CHOOSE e \in DOMAIN key :
               [x \in DOMAIN key |-> Cardinality({f \in DOMAIN key : Below(key[f], key[x])})][e] = i - 1]
    BY DEF SortedBy
  <2> HIDE DEF s
  <2> QED BY <2>1, <2>2, <2>3
<1>11. ASSUME NEW i \in 1 .. m PROVE s[i] \in D /\ rank[s[i]] = i - 1
  <2>1. s[i] = CHOOSE e \in D : rank[e] = i - 1
    BY <1>10
  <2> QED BY <1>9, <2>1
<1>12. ASSUME NEW e \in D PROVE \E i \in 1 .. m : s[i] = e
  <2>1. rank[e] \in 0 .. (m - 1)
    BY <1>5
  <2>2. rank[e] + 1 \in 1 .. m /\ (rank[e] + 1) - 1 = rank[e]
    BY <1>1, <2>1
  <2>3. s[rank[e] + 1] \in D /\ rank[s[rank[e] + 1]] = rank[e]
    BY <1>11, <2>2
  <2> QED BY <1>4, <2>2, <2>3
<1>13. ASSUME NEW i \in 1 .. m, NEW j \in 1 .. m, s[i] = s[j] PROVE i = j
  BY <1>1, <1>11, <1>13
<1>14. s \in [1 .. m -> D]
  <2> HIDE DEF s
  <2> QED BY <1>10, <1>11
<1> QED BY <1>1, <1>12, <1>13, <1>14

-----------------------------------------------------------------------------
(* One event and its agent.                                                *)

AgentFields == {"parent", "label", "mode", "status", "outcome", "priority", "started",
                "last", "activations", "tools", "usage"}

IsAgent(a) == /\ DOMAIN a = AgentFields
              /\ \A t \in DOMAIN a.tools : "ended" \in DOMAIN a.tools[t]

\* The calls of an agent that have finished.
Done(a) == {t \in DOMAIN a.tools : a.tools[t].ended # None}

LEMMA FreshAgent ==
  /\ IsAgent(NewAgent) /\ Done(NewAgent) = {}
  /\ NewAgent.parent = NoParent /\ NewAgent.started = None
<1>1. /\ DOMAIN NewAgent = AgentFields /\ NewAgent.tools = << >>
      /\ NewAgent.parent = NoParent /\ NewAgent.started = None
  BY DEF NewAgent, AgentFields
<1>2. DOMAIN << >> = {}
  OBVIOUS
<1> QED BY <1>1, <1>2 DEF IsAgent, Done

\* Writing a call of an agent.
WithCall(a, call, v) == [a EXCEPT !.tools = Put(a.tools, call, v)]

LEMMA PutCall ==
  ASSUME NEW a, IsAgent(a), NEW call, NEW v, "ended" \in DOMAIN v
  PROVE  LET b == WithCall(a, call, v)
         IN  /\ IsAgent(b) /\ b.parent = a.parent /\ b.started = a.started
             /\ Done(b) = (Done(a) \ {call}) \cup (IF v.ended # None THEN {call} ELSE {})
<1> DEFINE put == Put(a.tools, call, v)
           b   == [a EXCEPT !.tools = put]
<1>1. /\ DOMAIN put = DOMAIN a.tools \cup {call}
      /\ \A t \in DOMAIN put : put[t] = IF t = call THEN v ELSE a.tools[t]
  BY DEF Put
<1>2. /\ DOMAIN b = AgentFields /\ b.tools = put /\ b.parent = a.parent /\ b.started = a.started
  <2> HIDE DEF put
  <2> QED BY DEF IsAgent, AgentFields
<1> HIDE DEF put, b
<1>3. IsAgent(b)
  BY <1>1, <1>2 DEF IsAgent
<1>4. Done(b) = (Done(a) \ {call}) \cup (IF v.ended # None THEN {call} ELSE {})
  BY <1>1, <1>2 DEF Done
<1> QED BY <1>2, <1>3, <1>4 DEF b, put, WithCall

LEMMA StartedCall ==
  ASSUME NEW a, IsAgent(a), NEW c
  PROVE  LET b == StartTool(a, c)
         IN  IsAgent(b) /\ b.parent = a.parent /\ b.started = a.started /\ Done(b) = Done(a)
<1> DEFINE tool == Tool(a, c.call, c.name)
           v    == [tool EXCEPT !.name = c.name, !.started = c.at]
<1>1. "ended" \in DOMAIN tool /\ (tool.ended # None <=> c.call \in Done(a))
  BY DEF Tool, IsAgent, Done
<1>2. "ended" \in DOMAIN v /\ v.ended = tool.ended
  <2> HIDE DEF tool
  <2> QED BY <1>1
<1>3. StartTool(a, c) = WithCall(a, c.call, v)
  BY DEF StartTool, WithCall
<1> DEFINE b == WithCall(a, c.call, v)
<1> HIDE DEF v, tool
<1>4. /\ IsAgent(b) /\ b.parent = a.parent /\ b.started = a.started
      /\ Done(b) = (Done(a) \ {c.call}) \cup (IF v.ended # None THEN {c.call} ELSE {})
  BY <1>2, PutCall
<1>5. Done(b) = Done(a)
  <2> HIDE DEF b
  <2> QED BY <1>1, <1>2, <1>4
<1> HIDE DEF b
<1> QED BY <1>3, <1>4, <1>5 DEF b

LEMMA FinishedCall ==
  ASSUME NEW a, IsAgent(a), NEW c, c.at # None
  PROVE  LET b == FinishTool(a, c)
         IN  IsAgent(b) /\ b.parent = a.parent /\ b.started = a.started
             /\ Done(b) = Done(a) \cup {c.call}
<1> DEFINE name == NotNone(c.name, "tool")
           tool == Tool(a, c.call, name)
           v    == [tool EXCEPT !.name = name, !.ended = c.at, !.outcome = c.outcome]
<1>1. "ended" \in DOMAIN tool
  BY DEF Tool, IsAgent
<1>2. "ended" \in DOMAIN v /\ v.ended = c.at
  <2> HIDE DEF tool, name
  <2> QED BY <1>1
<1>3. FinishTool(a, c) = WithCall(a, c.call, v)
  BY DEF FinishTool, WithCall
<1> DEFINE b == WithCall(a, c.call, v)
<1> HIDE DEF v, tool, name
<1>4. /\ IsAgent(b) /\ b.parent = a.parent /\ b.started = a.started
      /\ Done(b) = (Done(a) \ {c.call}) \cup (IF v.ended # None THEN {c.call} ELSE {})
  BY <1>2, PutCall
<1>5. Done(b) = Done(a) \cup {c.call}
  <2> HIDE DEF b
  <2> QED BY <1>2, <1>4
<1> HIDE DEF b
<1> QED BY <1>3, <1>4, <1>5 DEF b

\* What the data of an event changes.
LEMMA AppliedData ==
  ASSUME NEW a, IsAgent(a), NEW e, e.content.at # None
  PROVE  LET b == ApplyData(a, e)
         IN  /\ IsAgent(b) /\ b.started = a.started
             /\ b.parent = IF e.content.type = "AgentSpawned" THEN e.parent ELSE a.parent
             /\ Done(b) = IF e.content.type = "ToolFinished" THEN Done(a) \cup {e.content.call}
                          ELSE Done(a)
<1> DEFINE c == e.content
           Kept(b) == IsAgent(b) /\ b.started = a.started /\ b.parent = a.parent /\ Done(b) = Done(a)
<1>1. ASSUME NEW b, DOMAIN b = AgentFields, b.started = a.started, b.parent = a.parent, b.tools = a.tools
      PROVE  Kept(b)
  BY <1>1 DEF IsAgent, Done
<1>2. DOMAIN a = AgentFields
  BY DEF IsAgent
<1> DEFINE i == ApplyIdentity(a, c)
<1>3. /\ DOMAIN i = AgentFields /\ i.started = a.started
      /\ i.parent = a.parent /\ i.tools = a.tools
  BY <1>2 DEF ApplyIdentity, AgentFields
<1>4. CASE c.type \in {"SessionDiscovered", "SessionMetadataChanged"}
  <2> DEFINE b == IF i.parent = NoParent THEN [i EXCEPT !.mode = "root"] ELSE i
  <2>1. ApplyData(a, e) = b
    BY <1>4 DEF ApplyData
  <2>2. /\ DOMAIN b = AgentFields /\ b.started = a.started
        /\ b.parent = a.parent /\ b.tools = a.tools
    <3> HIDE DEF i
    <3> QED BY <1>3 DEF AgentFields
  <2> HIDE DEF b
  <2> QED BY <1>1, <1>4, <2>1, <2>2
<1>5. CASE c.type = "AgentSpawned"
  <2> DEFINE b == [i EXCEPT !.parent = e.parent]
  <2>1. ApplyData(a, e) = b
    BY <1>5 DEF ApplyData
  <2>2. /\ DOMAIN b = AgentFields /\ b.started = a.started
        /\ b.parent = e.parent /\ b.tools = a.tools
    <3> HIDE DEF i
    <3> QED BY <1>3 DEF AgentFields
  <2>3. IsAgent(b) /\ Done(b) = Done(a)
    <3> HIDE DEF b
    <3> QED BY <2>2 DEF IsAgent, Done
  <2> HIDE DEF b
  <2> QED BY <1>5, <2>1, <2>2, <2>3
<1>6. CASE c.type = "ToolStarted"
  <2>1. ApplyData(a, e) = StartTool(a, c)
    BY <1>6 DEF ApplyData
  <2> QED BY <1>6, <2>1, StartedCall
<1>7. CASE c.type = "ToolFinished"
  <2>1. ApplyData(a, e) = FinishTool(a, c)
    BY <1>7 DEF ApplyData
  <2> QED BY <1>7, <2>1, FinishedCall
<1> DEFINE Other == {"AgentActivationStarted", "AgentActivationEnded", "AgentStatusChanged",
                     "AgentOutcomeRecorded", "AgentDisposed"}
           d == ApplyData(a, e)
<1>8. CASE c.type \in Other
  <2>1. CASE c.type = "AgentActivationStarted"
    <3>1. d = [a EXCEPT !.activations = Put(@, c.activation, Activation(a, c)), !.status = "running"]
      BY <2>1 DEF ApplyData, StartActivation
    <3>2. /\ DOMAIN d = AgentFields /\ d.started = a.started /\ d.parent = a.parent /\ d.tools = a.tools
      BY <1>2, <3>1 DEF AgentFields
    <3> HIDE DEF d
    <3> QED BY <1>1, <2>1, <3>2 DEF d
  <2>2. CASE c.type = "AgentActivationEnded"
    <3>1. d = EndActivation(a, c)
      BY <2>2 DEF ApplyData
    <3>2. /\ DOMAIN d = AgentFields /\ d.started = a.started /\ d.parent = a.parent /\ d.tools = a.tools
      <4> HIDE DEF d
      <4> QED BY <1>2, <3>1 DEF AgentFields, EndActivation
    <3> HIDE DEF d
    <3> QED BY <1>1, <2>2, <3>2 DEF d
  <2>3. CASE c.type = "AgentStatusChanged"
    <3>1. d = [a EXCEPT !.status = c.status]
      BY <2>3 DEF ApplyData
    <3>2. /\ DOMAIN d = AgentFields /\ d.started = a.started /\ d.parent = a.parent /\ d.tools = a.tools
      <4> HIDE DEF d
      <4> QED BY <1>2, <3>1 DEF AgentFields
    <3> HIDE DEF d
    <3> QED BY <1>1, <2>3, <3>2 DEF d
  <2>4. CASE c.type = "AgentOutcomeRecorded"
    <3>1. d = RecordOutcome(a, c)
      BY <2>4 DEF ApplyData
    <3>2. /\ DOMAIN d = AgentFields /\ d.started = a.started /\ d.parent = a.parent /\ d.tools = a.tools
      <4> HIDE DEF d
      <4> QED BY <1>2, <3>1 DEF AgentFields, RecordOutcome
    <3> HIDE DEF d
    <3> QED BY <1>1, <2>4, <3>2 DEF d
  <2>5. CASE c.type = "AgentDisposed"
    <3>1. d = IF a.status = "running" THEN [a EXCEPT !.status = "inactive"] ELSE a
      BY <2>5 DEF ApplyData
    <3>2. /\ DOMAIN d = AgentFields /\ d.started = a.started /\ d.parent = a.parent /\ d.tools = a.tools
      <4> HIDE DEF d
      <4> QED BY <1>2, <3>1 DEF AgentFields
    <3> HIDE DEF d
    <3> QED BY <1>1, <2>5, <3>2 DEF d
  <2> QED BY <1>8, <2>1, <2>2, <2>3, <2>4, <2>5
<1>9. CASE c.type \notin Other \cup {"SessionDiscovered", "SessionMetadataChanged", "AgentSpawned",
                                     "ToolStarted", "ToolFinished"}
  <2>1. d = a
    BY <1>9 DEF ApplyData
  <2> HIDE DEF d
  <2> QED BY <1>9, <2>1 DEF d
<1> QED BY <1>4, <1>5, <1>6, <1>7, <1>8, <1>9

\* What an event makes of its agent.
LEMMA AppliedEvent ==
  ASSUME NEW a, IsAgent(a), NEW e, e.content.at \in Int,
         e.content.type = "AgentSpawned" => HasParent(e),
         a.started = None \/ a.started \in Int
  PROVE  LET b == ApplyEvent(a, e)
         IN  /\ IsAgent(b) /\ b.started \in Int
             /\ b.parent = NoParent <=> a.parent = NoParent /\ ~HasParent(e)
             /\ Done(b) = IF e.content.type = "ToolFinished" THEN Done(a) \cup {e.content.call}
                          ELSE Done(a)
<1> DEFINE dated == [a EXCEPT !.started = Earlier(@, e.content.at), !.last = Later(@, e.content.at)]
           touched == AdoptParent(dated, e)
           counted == [touched EXCEPT !.usage = AddUsage(@, TokenUsage(e.content))]
<1>1. /\ DOMAIN dated = AgentFields /\ dated.tools = a.tools /\ dated.parent = a.parent
      /\ dated.started = Earlier(a.started, e.content.at)
  BY DEF IsAgent, AgentFields
<1>2. dated.started \in Int
  BY <1>1 DEF Earlier
<1>3. /\ DOMAIN touched = AgentFields /\ touched.tools = a.tools /\ touched.started = dated.started
      /\ touched.parent = IF a.parent = NoParent THEN e.parent ELSE a.parent
  <2> HIDE DEF dated
  <2> QED BY <1>1 DEF AdoptParent, AgentFields
<1>4. /\ DOMAIN counted = AgentFields /\ counted.tools = a.tools /\ counted.started = dated.started
      /\ counted.parent = IF a.parent = NoParent THEN e.parent ELSE a.parent
  <2> HIDE DEF touched
  <2> QED BY <1>3 DEF AgentFields
<1>5. ApplyEvent(a, e) = ApplyData(counted, e)
  BY DEF ApplyEvent
<1> HIDE DEF counted, touched, dated
<1>6. IsAgent(counted) /\ Done(counted) = Done(a)
  BY <1>4 DEF IsAgent, Done
<1>7. e.content.at # None
  BY OrderAssumption
<1> DEFINE b == ApplyData(counted, e)
<1>8. /\ IsAgent(b) /\ b.started = counted.started
      /\ b.parent = IF e.content.type = "AgentSpawned" THEN e.parent ELSE counted.parent
      /\ Done(b) = IF e.content.type = "ToolFinished" THEN Done(counted) \cup {e.content.call}
                   ELSE Done(counted)
  BY <1>6, <1>7, AppliedData
<1> HIDE DEF b
<1>9. b.parent = NoParent <=> a.parent = NoParent /\ ~HasParent(e)
  BY <1>4, <1>8 DEF HasParent
<1>10. b.started \in Int /\ Done(b) = IF e.content.type = "ToolFinished" THEN Done(a) \cup {e.content.call}
                   ELSE Done(a)
  BY <1>2, <1>4, <1>6, <1>8
<1> QED BY <1>5, <1>8, <1>9, <1>10 DEF b

-----------------------------------------------------------------------------
(* The events of a Run in the order of the fold.                           *)

\* Events of a Run, as the store holds them.
EventsOfRun(E) == /\ E \subseteq Event /\ IsFiniteSet(E) /\ UniqueIds(E)
                  /\ \A e \in E : e.content.type = "AgentSpawned" => HasParent(e)

\* The fold passes every event.
LEMMA OrderedEvents ==
  ASSUME NEW E, EventsOfRun(E)
  PROVE  /\ Cardinality(E) \in Nat
         /\ Ordered(E) \in [1 .. Cardinality(E) -> E]
         /\ \A e \in E : \E i \in 1 .. Cardinality(E) : Ordered(E)[i] = e
<1> DEFINE key == [e \in E |-> SortKey(e)]
<1>1. ASSUME NEW e \in E
      PROVE  SortKey(e) \in Keys(4) /\ SortKey(e)[4] = e.id
  <2>1. e.content.at \in Int /\ e.session \in Int /\ e.content.seq \in Int /\ e.id \in Int
    BY OrderAssumption DEF EventsOfRun, Event
  <2>2. \A w, x, y, z \in Int : <<w, x, y, z>> \in [1 .. 4 -> Int] /\ <<w, x, y, z>>[4] = z
    OBVIOUS
  <2> QED BY <2>1, <2>2 DEF SortKey, Keys
<1>2. key \in [E -> Keys(4)]
  BY <1>1
<1>3. ASSUME NEW e \in E, NEW f \in E, key[e] = key[f] PROVE e = f
  <2>1. SortKey(e) = SortKey(f)
    BY <1>3
  <2>2. e.id = f.id
    BY <1>1, <2>1
  <2> QED BY <2>2 DEF EventsOfRun, UniqueIds
<1>4. IsFiniteSet(E) /\ 4 \in Nat
  BY DEF EventsOfRun
<1> DEFINE o == SortedBy(key)
<1>5. Ordered(E) = o
  BY DEF Ordered
<1> HIDE DEF key
<1>6. /\ Cardinality(E) \in Nat /\ o \in [1 .. Cardinality(E) -> E]
      /\ \A e \in E : \E i \in 1 .. Cardinality(E) : o[i] = e
  BY <1>2, <1>3, <1>4, Sorted
<1> QED BY <1>5, <1>6

\* The accumulators before the first event.
Untouched(E) == [agents |-> [s \in AgentIds(E) |-> NewAgent], timeline |-> << >>]

\* The recursive function of Accumulated exists: the fold goes event by event.
LEMMA Fold ==
  ASSUME NEW E, IsFiniteSet(E)
  PROVE  \E f : /\ f[0] = Untouched(E)
                /\ \A i \in 1 .. Cardinality(E) : f[i] = FoldNext(f[i - 1], Ordered(E)[i])
                /\ Accumulated(E) = f[Cardinality(E)]
<1> DEFINE n == Cardinality(E)
           first == Untouched(E)
           next(acc, i) == FoldNext(acc, Ordered(E)[i])
           Is(f, k) == f = [i \in 0 .. k |-> IF i = 0 THEN first ELSE next(f[i - 1], i)]
           T == {k \in 0 .. n : \E f : Is(f, k)}
           after == CHOOSE f : Is(f, n)
<1>0. n \in Nat
  BY FS_CardinalityType
<1>1. Accumulated(E) = after[n]
  BY DEF Accumulated, Untouched
<1> HIDE DEF first, next, n
<1>2. Is([i \in 0 .. 0 |-> first], 0)
  OBVIOUS
<1>3. ASSUME NEW k \in 1 .. n, k - 1 \in T PROVE k \in T
  <2>1. PICK f : Is(f, k - 1)
    BY <1>3
  <2> DEFINE h == [i \in 0 .. k |-> IF i < k THEN f[i] ELSE next(f[k - 1], k)]
  <2>2. ASSUME NEW i \in 0 .. k PROVE h[i] = IF i = 0 THEN first ELSE next(h[i - 1], i)
    <3>1. CASE i < k
      <4>1. i \in 0 .. k - 1 /\ (i # 0 => i - 1 \in 0 .. k /\ i - 1 < k)
        BY <3>1
      <4>2. f[i] = IF i = 0 THEN first ELSE next(f[i - 1], i)
        BY <2>1, <4>1
      <4> QED BY <3>1, <4>1, <4>2
    <3>2. CASE i = k
      <4>1. i # 0 /\ i - 1 \in 0 .. k /\ i - 1 < k
        BY <3>2
      <4> QED BY <3>2, <4>1
    <3> QED BY <3>1, <3>2
  <2>3. Is(h, k)
    BY <2>2
  <2> HIDE DEF h, Is
  <2> QED BY <1>3, <2>3
<1>4. 0 \in T
  <2> HIDE DEF Is
  <2> QED BY <1>0, <1>2
<1>5. n \in T
  <2> HIDE DEF T
  <2>1. \A i \in 0 .. n : i \in T
    BY <1>0, <1>3, <1>4, UpTo
  <2> QED BY <1>0, <2>1
<1>6. Is(after, n)
  <2> HIDE DEF Is
  <2> QED BY <1>5
<1>7. after[0] = first /\ \A i \in 1 .. n : after[i] = next(after[i - 1], i)
  <2> HIDE DEF after
  <2> QED BY <1>0, <1>6
<1> HIDE DEF after
<1> QED BY <1>1, <1>7 DEF first, next, n

-----------------------------------------------------------------------------
(* Sequences, whatever they hold.                                          *)
IsSequence(s) == s \in Seq(ToSet(s))

LEMMA Sequence ==
  ASSUME NEW S, NEW s \in Seq(S)
  PROVE  IsSequence(s) /\ DOMAIN s = 1 .. Len(s) /\ Len(s) \in Nat
<1>1. Len(s) \in Nat /\ s \in [1 .. Len(s) -> S] /\ \A i \in 1 .. Len(s) : s[i] \in ToSet(s)
  BY DEF ToSet
<1>2. s \in [1 .. Len(s) -> ToSet(s)]
  BY <1>1
<1> QED BY <1>1, <1>2 DEF IsSequence

\* A function on 1 .. n is a sequence.
LEMMA SequenceOf ==
  ASSUME NEW n \in Nat, NEW f
  PROVE  LET s == [i \in 1 .. n |-> f[i]]
         IN  IsSequence(s) /\ Len(s) = n /\ DOMAIN s = 1 .. n
<1> DEFINE s == [i \in 1 .. n |-> f[i]]
           S == {f[i] : i \in 1 .. n}
<1>1. s \in [1 .. n -> S]
  OBVIOUS
<1>2. s \in Seq(S) /\ Len(s) = n
  <2> HIDE DEF S, s
  <2> QED BY <1>1
<1> HIDE DEF S, s
<1> QED BY <1>2, Sequence DEF s

LEMMA Appended == ASSUME NEW s, IsSequence(s), NEW x PROVE IsSequence(Append(s, x))
<1> DEFINE S == ToSet(s) \cup {x}
<1>1. Len(s) \in Nat /\ s \in [1 .. Len(s) -> ToSet(s)]
  BY DEF IsSequence
<1>2. s \in [1 .. Len(s) -> S]
  BY <1>1
<1>3. s \in Seq(S) /\ x \in S
  BY <1>1, <1>2
<1> HIDE DEF S
<1>4. Append(s, x) \in Seq(S)
  BY <1>3
<1> QED BY <1>4, Sequence

-----------------------------------------------------------------------------
(* What the fold has made of the events it passed.                         *)

FinishedIn(P, s) ==
    {e.content.call : e \in {f \in P : f.session = s /\ f.content.type = "ToolFinished"}}

\* The accumulators agents after the events P.
FoldOf(E, P, agents) ==
    /\ DOMAIN agents = AgentIds(E)
    /\ \A s \in AgentIds(E) :
          /\ IsAgent(agents[s])
          /\ agents[s].started = None \/ agents[s].started \in Int
          /\ (\E e \in P : e.session = s) => agents[s].started \in Int
          /\ agents[s].parent = NoParent <=> \A e \in P : e.session = s => ~HasParent(e)
          /\ Done(agents[s]) = FinishedIn(P, s)

LEMMA FoldedNext ==
  ASSUME NEW E, EventsOfRun(E), NEW P, NEW acc, FoldOf(E, P, acc.agents),
         IsSequence(acc.timeline), NEW e \in E
  PROVE  LET next == FoldNext(acc, e)
         IN  FoldOf(E, P \cup {e}, next.agents) /\ IsSequence(next.timeline)
<1> DEFINE Q     == P \cup {e}
           agent == ApplyEvent(acc.agents[e.session], e)
           entry == TimelineEntry(agent, e)
           agents == [acc.agents EXCEPT ![e.session] = agent]
           timeline == IF Silent(e.content) THEN acc.timeline ELSE Append(acc.timeline, entry)
<1>1. FoldNext(acc, e) = [agents |-> agents, timeline |-> timeline]
  BY DEF FoldNext
<1>2. IsSequence(timeline)
  <2> HIDE DEF entry
  <2> QED BY Appended
<1>3. e.session \in AgentIds(E)
  BY DEF AgentIds
<1> DEFINE a == acc.agents[e.session]
<1>4. /\ IsAgent(agent) /\ agent.started \in Int
      /\ agent.parent = NoParent <=> a.parent = NoParent /\ ~HasParent(e)
      /\ Done(agent) = IF e.content.type = "ToolFinished" THEN Done(a) \cup {e.content.call}
                       ELSE Done(a)
  <2>1. IsAgent(a) /\ (a.started = None \/ a.started \in Int)
    BY <1>3 DEF FoldOf
  <2>2. e.content.at \in Int /\ (e.content.type = "AgentSpawned" => HasParent(e))
    BY OrderAssumption DEF EventsOfRun, Event
  <2> HIDE DEF a
  <2> QED BY <2>1, <2>2, AppliedEvent DEF a
<1> HIDE DEF agent
<1>5. DOMAIN agents = AgentIds(E)
      /\ \A s \in AgentIds(E) : agents[s] = IF s = e.session THEN agent ELSE acc.agents[s]
  BY DEF FoldOf
<1> HIDE DEF agents
<1>6. ASSUME NEW s \in AgentIds(E), s # e.session
      PROVE  FinishedIn(Q, s) = FinishedIn(P, s)
  BY <1>6 DEF FinishedIn
<1>7. FinishedIn(Q, e.session) = IF e.content.type = "ToolFinished"
                                 THEN FinishedIn(P, e.session) \cup {e.content.call}
                                 ELSE FinishedIn(P, e.session)
  BY DEF FinishedIn
<1>8. ASSUME NEW s \in AgentIds(E)
      PROVE  /\ IsAgent(agents[s])
             /\ agents[s].started = None \/ agents[s].started \in Int
             /\ (\E x \in Q : x.session = s) => agents[s].started \in Int
             /\ agents[s].parent = NoParent <=> \A x \in Q : x.session = s => ~HasParent(x)
             /\ Done(agents[s]) = FinishedIn(Q, s)
  <2>1. CASE s = e.session
    <3>1. agents[s] = agent
      BY <1>5, <2>1
    <3>2. a.parent = NoParent <=> \A x \in P : x.session = s => ~HasParent(x)
      BY <1>3, <2>1 DEF FoldOf
    <3>3. Done(a) = FinishedIn(P, s)
      BY <1>3, <2>1 DEF FoldOf
    <3> HIDE DEF a
    <3> QED BY <1>4, <1>7, <2>1, <3>1, <3>2, <3>3
  <2>2. CASE s # e.session
    <3>1. agents[s] = acc.agents[s] /\ \A x \in Q : x.session = s => x \in P
      BY <1>5, <2>2
    <3>2. /\ IsAgent(acc.agents[s])
          /\ acc.agents[s].started = None \/ acc.agents[s].started \in Int
          /\ (\E x \in P : x.session = s) => acc.agents[s].started \in Int
          /\ acc.agents[s].parent = NoParent <=> \A x \in P : x.session = s => ~HasParent(x)
          /\ Done(acc.agents[s]) = FinishedIn(P, s)
      BY DEF FoldOf
    <3> QED BY <1>6, <2>2, <3>1, <3>2
  <2> QED BY <2>1, <2>2
<1>9. FoldOf(E, Q, agents)
  BY <1>5, <1>8 DEF FoldOf
<1> QED BY <1>1, <1>2, <1>9

\* The accumulators after the last event.
LEMMA FoldedEvents ==
  ASSUME NEW E, EventsOfRun(E)
  PROVE  FoldOf(E, E, Accumulated(E).agents) /\ IsSequence(Accumulated(E).timeline)
<1> DEFINE n == Cardinality(E)
           o == Ordered(E)
           passed(i) == {o[j] : j \in 1 .. i}
<1>1. /\ n \in Nat /\ o \in [1 .. n -> E] /\ \A e \in E : \E i \in 1 .. n : o[i] = e
  BY OrderedEvents
<1>2. PICK f : /\ f[0] = Untouched(E)
               /\ \A i \in 1 .. n : f[i] = FoldNext(f[i - 1], o[i])
               /\ Accumulated(E) = f[n]
  BY Fold DEF EventsOfRun
<1> HIDE DEF n, o
<1> DEFINE T == {i \in 0 .. n : FoldOf(E, passed(i), f[i].agents) /\ IsSequence(f[i].timeline)}
<1>3. 0 \in T
  <2>1. passed(0) = {}
    OBVIOUS
  <2>2. f[0].agents = [s \in AgentIds(E) |-> NewAgent] /\ f[0].timeline = << >>
    BY <1>2 DEF Untouched
  <2>3. FoldOf(E, {}, f[0].agents)
    BY <2>2, FreshAgent DEF FoldOf, FinishedIn
  <2>4. IsSequence(<< >>)
    BY DEF IsSequence
  <2>5. FoldOf(E, passed(0), f[0].agents) /\ IsSequence(f[0].timeline)
    BY <2>1, <2>2, <2>3, <2>4
  <2> HIDE DEF passed
  <2> QED BY <1>1, <2>5
<1>4. ASSUME NEW i \in 1 .. n, i - 1 \in T PROVE i \in T
  <2>1. o[i] \in E /\ f[i] = FoldNext(f[i - 1], o[i])
    BY <1>1, <1>2
  <2>2. passed(i) = passed(i - 1) \cup {o[i]}
    <3>1. \A j : j \in 1 .. i <=> j \in 1 .. (i - 1) \/ j = i
      OBVIOUS
    <3> QED BY <3>1
  <2>3. FoldOf(E, passed(i - 1), f[i - 1].agents) /\ IsSequence(f[i - 1].timeline)
    BY <1>4
  <2> DEFINE P   == passed(i - 1)
             acc == f[i - 1]
             e   == o[i]
  <2> HIDE DEF passed
  <2>4. FoldOf(E, P \cup {e}, FoldNext(acc, e).agents) /\ IsSequence(FoldNext(acc, e).timeline)
    <3>1. FoldOf(E, P, acc.agents) /\ IsSequence(acc.timeline) /\ e \in E
      BY <2>1, <2>3
    <3> HIDE DEF P, acc, e
    <3> QED BY <3>1, FoldedNext
  <2>5. FoldOf(E, passed(i), f[i].agents) /\ IsSequence(f[i].timeline)
    BY <2>1, <2>2, <2>4
  <2> QED BY <2>5
<1>5. n \in T
  <2> HIDE DEF T
  <2>1. \A i \in 0 .. n : i \in T
    BY <1>1, <1>3, <1>4, UpTo
  <2> QED BY <1>1, <2>1
<1>6. passed(n) = E
  BY <1>1
<1> HIDE DEF passed
<1> QED BY <1>2, <1>5, <1>6

-----------------------------------------------------------------------------
(* The agents of a snapshot, in their order.                               *)

\* depth_of counts: the recursive function of DepthOf exists, and every round
\* keeps the count or adds one.
LEMMA DepthIsNumber ==
  ASSUME NEW agents, IsFiniteSet(DOMAIN agents), NEW s
  PROVE  DepthOf(agents, s) \in Nat
<1> DEFINE most == Cardinality(DOMAIN agents) + 1
           first == [at |-> agents[s].parent, seen |-> {}, depth |-> 0]
           next(walk) == WalkUp(agents, walk)
           Is(f, k) == f = [i \in 0 .. k |-> IF i = 0 THEN first ELSE next(f[i - 1])]
           T == {k \in 0 .. most : \E f : Is(f, k)}
           walks == CHOOSE f : Is(f, most)
<1>1. most \in Nat
  BY FS_CardinalityType
<1>2. DepthOf(agents, s) = walks[most].depth
  BY DEF DepthOf
<1>3. first.depth \in Nat
  OBVIOUS
<1>4. ASSUME NEW walk, walk.depth \in Nat PROVE next(walk).depth \in Nat
  BY <1>4 DEF WalkUp
<1> HIDE DEF first, next, most
<1>5. Is([i \in 0 .. 0 |-> first], 0)
  OBVIOUS
<1>6. ASSUME NEW k \in 1 .. most, k - 1 \in T PROVE k \in T
  <2>1. PICK f : Is(f, k - 1)
    BY <1>6
  <2> DEFINE h == [i \in 0 .. k |-> IF i < k THEN f[i] ELSE next(f[k - 1])]
  <2>2. ASSUME NEW i \in 0 .. k PROVE h[i] = IF i = 0 THEN first ELSE next(h[i - 1])
    <3>1. CASE i < k
      <4>1. i \in 0 .. k - 1 /\ (i # 0 => i - 1 \in 0 .. k /\ i - 1 < k)
        BY <3>1
      <4>2. f[i] = IF i = 0 THEN first ELSE next(f[i - 1])
        BY <2>1, <4>1
      <4> QED BY <3>1, <4>1, <4>2
    <3>2. CASE i = k
      <4>1. i # 0 /\ i - 1 \in 0 .. k /\ i - 1 < k
        BY <3>2
      <4> QED BY <3>2, <4>1
    <3> QED BY <3>1, <3>2
  <2>3. Is(h, k)
    BY <2>2
  <2> HIDE DEF h, Is
  <2> QED BY <1>6, <2>3
<1>7. 0 \in T
  <2> HIDE DEF Is
  <2> QED BY <1>1, <1>5
<1>8. most \in T
  <2> HIDE DEF T
  <2>1. \A i \in 0 .. most : i \in T
    BY <1>1, <1>6, <1>7, UpTo
  <2> QED BY <1>1, <2>1
<1>9. Is(walks, most)
  <2> HIDE DEF Is
  <2> QED BY <1>8
<1>10. walks[0] = first /\ \A i \in 1 .. most : walks[i] = next(walks[i - 1])
  <2> HIDE DEF walks
  <2> QED BY <1>1, <1>9
<1> HIDE DEF walks
<1> DEFINE U == {i \in 0 .. most : walks[i].depth \in Nat}
<1>11. 0 \in U /\ \A i \in 1 .. most : i - 1 \in U => i \in U
  BY <1>1, <1>3, <1>4, <1>10
<1>12. most \in U
  <2> HIDE DEF U
  <2>1. \A i \in 0 .. most : i \in U
    BY <1>1, <1>11, UpTo
  <2> QED BY <1>1, <2>1
<1> QED BY <1>2, <1>12

\* The sessions of a Run are finitely many.
LEMMA FiniteAgents ==
  ASSUME NEW E, IsFiniteSet(E)
  PROVE  IsFiniteSet(AgentIds(E))
<1> DEFINE f == [e \in E |-> e.session]
<1>1. f \in Surjection(E, AgentIds(E))
  BY DEF Surjection, AgentIds
<1> HIDE DEF f
<1> QED BY <1>1, FS_Surjection

\* Every agent has one place in the order.
LEMMA OrderedAgents ==
  ASSUME NEW agents, IsFiniteSet(DOMAIN agents), DOMAIN agents \subseteq Int,
         \A s \in DOMAIN agents : agents[s].started \in Int
  PROVE  LET n == Cardinality(DOMAIN agents)
             o == AgentOrder(agents)
         IN  /\ n \in Nat
             /\ o \in [1 .. n -> DOMAIN agents]
             /\ \A i, j \in 1 .. n : o[i] = o[j] => i = j
             /\ \A s \in DOMAIN agents : \E i \in 1 .. n : o[i] = s
<1> DEFINE D == DOMAIN agents
           place(s) == <<DepthOf(agents, s), agents[s].started, s>>
           key == [s \in D |-> place(s)]
<1>1. ASSUME NEW s \in D PROVE place(s) \in Keys(3) /\ place(s)[3] = s
  <2>1. DepthOf(agents, s) \in Int /\ agents[s].started \in Int /\ s \in Int
    BY DepthIsNumber
  <2>2. \A x, y, z \in Int : <<x, y, z>> \in [1 .. 3 -> Int] /\ <<x, y, z>>[3] = z
    OBVIOUS
  <2> QED BY <2>1, <2>2 DEF Keys
<1>2. AgentOrder(agents) = SortedBy(key)
  BY DEF AgentOrder
<1> HIDE DEF place
<1>3. key \in [D -> Keys(3)] /\ \A e, f \in D : key[e] = key[f] => e = f
  BY <1>1
<1> HIDE DEF key
<1> QED BY <1>2, <1>3, Sorted

\* The subtree usage is written into the agents, and nothing else of them changes.
LEMMA Populated ==
  ASSUME NEW n \in Nat, NEW f, DOMAIN f = 1 .. n, f = [i \in 1 .. n |-> f[i]],
         \A i \in 1 .. n : {"id", "parent", "tools"} \subseteq DOMAIN f[i]
  PROVE  LET g == PopulateSubtree(f)
         IN  /\ DOMAIN g = 1 .. n /\ g = [i \in 1 .. n |-> g[i]]
             /\ \A i \in 1 .. n : /\ g[i].id = f[i].id
                                  /\ g[i].parent = f[i].parent
                                  /\ g[i].tools = f[i].tools
<1> DEFINE next(g, i) == AddToParent(g, n - i + 1)
           Is(h, k) == h = [i \in 0 .. k |-> IF i = 0 THEN f ELSE next(h[i - 1], i)]
           T == {k \in 0 .. n : \E h : Is(h, k)}
           done == CHOOSE h : Is(h, n)
           Kept(g) == /\ DOMAIN g = 1 .. n /\ g = [i \in 1 .. n |-> g[i]]
                      /\ \A i \in 1 .. n : /\ {"id", "parent", "tools"} \subseteq DOMAIN g[i]
                                           /\ g[i].id = f[i].id
                                           /\ g[i].parent = f[i].parent
                                           /\ g[i].tools = f[i].tools
<1>1. Len(f) = n
  <2>1. Len([i \in 1 .. n |-> f[i]]) = n
    BY SequenceOf
  <2> QED BY <2>1
<1>2. PopulateSubtree(f) = done[n]
  BY <1>1 DEF PopulateSubtree
<1>3. Kept(f)
  OBVIOUS
<1>4. ASSUME NEW g, Kept(g), NEW k PROVE Kept(AddToParent(g, k))
  <2> DEFINE h == AddToParent(g, k)
  <2>1. h = [i \in 1 .. n |-> IF g[i].id = g[k].parent
                              THEN [g[i] EXCEPT !.subtree = AddUsage(@, g[k].subtree)] ELSE g[i]]
    BY <1>4 DEF AddToParent
  <2>2. ASSUME NEW i \in 1 .. n
        PROVE  /\ {"id", "parent", "tools"} \subseteq DOMAIN h[i]
               /\ h[i].id = f[i].id /\ h[i].parent = f[i].parent /\ h[i].tools = f[i].tools
    <3>1. /\ {"id", "parent", "tools"} \subseteq DOMAIN g[i]
          /\ g[i].id = f[i].id /\ g[i].parent = f[i].parent /\ g[i].tools = f[i].tools
      BY <1>4
    <3>2. h[i] = g[i] \/ h[i] = [g[i] EXCEPT !.subtree = AddUsage(@, g[k].subtree)]
      BY <2>1
    <3> HIDE DEF h, Kept
    <3>3. CASE h[i] = g[i]
      BY <3>1, <3>3
    <3>4. CASE h[i] = [g[i] EXCEPT !.subtree = AddUsage(@, g[k].subtree)]
      BY <3>1, <3>4
    <3> QED BY <3>2, <3>3, <3>4
  <2>3. DOMAIN h = 1 .. n /\ h = [i \in 1 .. n |-> h[i]]
    BY <2>1
  <2>4. Kept(h)
    <3> HIDE DEF h
    <3> QED BY <2>2, <2>3
  <2> QED BY <2>4
<1>5. ASSUME NEW g, Kept(g), NEW i PROVE Kept(next(g, i))
  <2> HIDE DEF Kept
  <2> QED BY <1>4, <1>5
<1> HIDE DEF next, Kept
<1>6. Is([i \in 0 .. 0 |-> f], 0)
  OBVIOUS
<1>7. ASSUME NEW k \in 1 .. n, k - 1 \in T PROVE k \in T
  <2>1. PICK h : Is(h, k - 1)
    BY <1>7
  <2> DEFINE j == [i \in 0 .. k |-> IF i < k THEN h[i] ELSE next(h[k - 1], k)]
  <2>2. ASSUME NEW i \in 0 .. k PROVE j[i] = IF i = 0 THEN f ELSE next(j[i - 1], i)
    <3>1. CASE i < k
      <4>1. i \in 0 .. k - 1 /\ (i # 0 => i - 1 \in 0 .. k /\ i - 1 < k)
        BY <3>1
      <4>2. h[i] = IF i = 0 THEN f ELSE next(h[i - 1], i)
        BY <2>1, <4>1
      <4> QED BY <3>1, <4>1, <4>2
    <3>2. CASE i = k
      <4>1. i # 0 /\ i - 1 \in 0 .. k /\ i - 1 < k
        BY <3>2
      <4> QED BY <3>2, <4>1
    <3> QED BY <3>1, <3>2
  <2>3. Is(j, k)
    BY <2>2
  <2> HIDE DEF j, Is
  <2> QED BY <1>7, <2>3
<1>8. 0 \in T
  <2> HIDE DEF Is
  <2> QED BY <1>6
<1>9. n \in T
  <2> HIDE DEF T
  <2>1. \A i \in 0 .. n : i \in T
    BY <1>7, <1>8, UpTo
  <2> QED BY <2>1
<1>10. Is(done, n)
  <2> HIDE DEF Is
  <2> QED BY <1>9
<1>11. done[0] = f /\ \A i \in 1 .. n : done[i] = next(done[i - 1], i)
  <2> HIDE DEF done
  <2>1. \A i \in 0 .. n : done[i] = IF i = 0 THEN f ELSE next(done[i - 1], i)
    BY <1>10
  <2> QED BY <2>1
<1> HIDE DEF done
<1> DEFINE U == {i \in 0 .. n : Kept(done[i])}
<1>12. 0 \in U /\ \A i \in 1 .. n : i - 1 \in U => i \in U
  BY <1>3, <1>5, <1>11
<1>13. n \in U
  <2> HIDE DEF U
  <2>1. \A i \in 0 .. n : i \in U
    BY <1>12, UpTo
  <2> QED BY <2>1
<1> QED BY <1>2, <1>13 DEF Kept

-----------------------------------------------------------------------------
(* Snapshots.                                                              *)

\* A snapshot names each agent once.
IsSnapshot(x) ==
    /\ x = [root |-> x.root, event_count |-> x.event_count, started |-> x.started,
            last |-> x.last, agents |-> x.agents, edges |-> x.edges, timeline |-> x.timeline]
    /\ IsSequence(x.timeline) /\ IsSequence(x.agents)
    /\ \A i, j \in DOMAIN x.agents : x.agents[i].id = x.agents[j].id => i = j

\* What fold_events shows of its accumulators.
LEMMA FoldedSnapshot ==
  ASSUME NEW E, EventsOfRun(E)
  PROVE  LET x == FoldEvents(E)
             A == Accumulated(E).agents
         IN  /\ IsSnapshot(x)
             /\ x.event_count = Cardinality(E)
             /\ x.root = RootSession(A)
             /\ \A s \in AgentIds(E) : \E i \in DOMAIN x.agents :
                   x.agents[i].id = s
             /\ \A i \in DOMAIN x.agents : /\ x.agents[i].id \in AgentIds(E)
                                           /\ x.agents[i].tools = A[x.agents[i].id].tools
<1> DEFINE A == Accumulated(E).agents
           D == AgentIds(E)
           n == Cardinality(D)
           o == AgentOrder(A)
           shown == [i \in DOMAIN o |-> Finish(o[i], A[o[i]])]
           agents == PopulateSubtree(shown)
           timeline == SortTimeline(Accumulated(E).timeline)
           times == {e.content.at : e \in E}
           first == CHOOSE t \in times : \A u \in times : t <= u
           last  == CHOOSE t \in times : \A u \in times : t >= u
           x == [root |-> RootSession(A), event_count |-> Cardinality(E), started |-> first,
                 last |-> last, agents |-> agents, edges |-> EdgesOf(agents), timeline |-> timeline]
<1>1. FoldEvents(E) = x
  BY DEF FoldEvents
<1>2. FoldOf(E, E, A) /\ IsSequence(Accumulated(E).timeline)
  BY FoldedEvents
<1>3. DOMAIN A = D /\ \A s \in D : A[s].started \in Int
  BY <1>2 DEF FoldOf, AgentIds
<1>4. IsFiniteSet(D) /\ D \subseteq Int
  BY FiniteAgents, OrderAssumption DEF EventsOfRun, AgentIds, Event
<1> HIDE DEF A, D
<1>5. /\ n \in Nat /\ o \in [1 .. n -> D]
      /\ \A i, j \in 1 .. n : o[i] = o[j] => i = j
      /\ \A s \in D : \E i \in 1 .. n : o[i] = s
  BY <1>3, <1>4, OrderedAgents
<1> HIDE DEF n, o
<1>6. /\ DOMAIN shown = 1 .. n /\ shown = [i \in 1 .. n |-> shown[i]]
      /\ \A i \in 1 .. n : /\ {"id", "parent", "tools"} \subseteq DOMAIN shown[i]
                           /\ shown[i].id = o[i] /\ shown[i].tools = A[o[i]].tools
  BY <1>5 DEF Finish
<1> HIDE DEF shown
<1>7. /\ DOMAIN agents = 1 .. n /\ agents = [i \in 1 .. n |-> agents[i]]
      /\ \A i \in 1 .. n : agents[i].id = o[i] /\ agents[i].tools = A[o[i]].tools
  <2>0. /\ n \in Nat /\ DOMAIN shown = 1 .. n /\ shown = [i \in 1 .. n |-> shown[i]]
        /\ \A i \in 1 .. n : {"id", "parent", "tools"} \subseteq DOMAIN shown[i]
    BY <1>5, <1>6
  <2>1. /\ DOMAIN agents = 1 .. n /\ agents = [i \in 1 .. n |-> agents[i]]
        /\ \A i \in 1 .. n : /\ agents[i].id = shown[i].id
                             /\ agents[i].parent = shown[i].parent
                             /\ agents[i].tools = shown[i].tools
    BY ONLY <2>0, Populated
  <2> HIDE DEF agents
  <2> QED BY <1>6, <2>1
<1> HIDE DEF agents
<1>8. IsSequence(agents)
  <2>1. IsSequence([i \in 1 .. n |-> agents[i]])
    BY <1>5, SequenceOf
  <2> QED BY <1>7, <2>1
<1>9. IsSequence(timeline)
  <2> DEFINE t == Accumulated(E).timeline
             s == SortedBy([i \in DOMAIN t |-> <<t[i].at, t[i].session, t[i].kind, i>>])
             f == [i \in DOMAIN t |-> t[s[i]]]
  <2>1. timeline = f
    BY DEF SortTimeline
  <2>2. DOMAIN t = 1 .. Len(t) /\ Len(t) \in Nat
    BY <1>2, Sequence DEF IsSequence
  <2> HIDE DEF t, s
  <2>3. f = [i \in 1 .. Len(t) |-> f[i]]
    BY <2>2
  <2> HIDE DEF f
  <2>4. IsSequence([i \in 1 .. Len(t) |-> f[i]])
    BY <2>2, SequenceOf
  <2> HIDE DEF timeline
  <2> QED BY <2>1, <2>3, <2>4
<1> HIDE DEF timeline, first, last
<1>10. /\ x.agents = agents /\ x.timeline = timeline /\ x.event_count = Cardinality(E)
       /\ x.root = RootSession(A)
       /\ x = [root |-> x.root, event_count |-> x.event_count, started |-> x.started,
               last |-> x.last, agents |-> x.agents, edges |-> x.edges, timeline |-> x.timeline]
  OBVIOUS
<1> HIDE DEF x
<1>11. IsSnapshot(x)
  BY <1>5, <1>7, <1>8, <1>9, <1>10 DEF IsSnapshot
<1>12. /\ \A s \in D : \E i \in DOMAIN x.agents : x.agents[i].id = s
       /\ \A i \in DOMAIN x.agents : x.agents[i].id \in D /\ x.agents[i].tools = A[x.agents[i].id].tools
  BY <1>5, <1>7, <1>10
<1> QED BY <1>1, <1>10, <1>11, <1>12 DEF A, D

\* The finished calls of a snapshot are those of its events.
LEMMA FinishedOfEvents ==
  ASSUME NEW E, EventsOfRun(E)
  PROVE  FinishedCalls(FoldEvents(E))
           = {<<e.session, e.content.call>> : e \in {f \in E : f.content.type = "ToolFinished"}}
<1> DEFINE x == FoldEvents(E)
           A == Accumulated(E).agents
           calls == {<<e.session, e.content.call>> : e \in {f \in E : f.content.type = "ToolFinished"}}
<1>1. /\ \A s \in AgentIds(E) : \E i \in DOMAIN x.agents : x.agents[i].id = s
      /\ \A i \in DOMAIN x.agents : /\ x.agents[i].id \in AgentIds(E)
                                    /\ x.agents[i].tools = A[x.agents[i].id].tools
  BY FoldedSnapshot
<1>2. \A s \in AgentIds(E) : Done(A[s]) = FinishedIn(E, s)
  BY FoldedEvents DEF FoldOf
<1> HIDE DEF x, A
<1>3. FinishedCalls(x) = UNION {{<<a.id, t>> : t \in Done(a)} : a \in ToSet(x.agents)}
  BY DEF FinishedCalls, Done
<1>4. ASSUME NEW p \in FinishedCalls(x) PROVE p \in calls
  <2>1. PICK i \in DOMAIN x.agents : p \in {<<x.agents[i].id, t>> : t \in Done(x.agents[i])}
    BY <1>3 DEF ToSet
  <2>2. x.agents[i].id \in AgentIds(E) /\ Done(x.agents[i]) = FinishedIn(E, x.agents[i].id)
    BY <1>1, <1>2 DEF Done
  <2>3. PICK t \in FinishedIn(E, x.agents[i].id) : p = <<x.agents[i].id, t>>
    BY <2>1, <2>2
  <2>4. PICK e \in E : /\ e.session = x.agents[i].id /\ e.content.type = "ToolFinished"
                       /\ t = e.content.call
    BY <2>3 DEF FinishedIn
  <2> QED BY <2>3, <2>4
<1>5. ASSUME NEW p \in calls PROVE p \in FinishedCalls(x)
  <2>1. PICK e \in E : e.content.type = "ToolFinished" /\ p = <<e.session, e.content.call>>
    OBVIOUS
  <2>2. e.session \in AgentIds(E) /\ e.content.call \in FinishedIn(E, e.session)
    BY <2>1 DEF AgentIds, FinishedIn
  <2>3. PICK i \in DOMAIN x.agents : x.agents[i].id = e.session
    BY <1>1, <2>2
  <2>4. Done(x.agents[i]) = FinishedIn(E, e.session)
    BY <1>1, <1>2, <2>2, <2>3 DEF Done
  <2>5. x.agents[i] \in ToSet(x.agents) /\ p \in {<<x.agents[i].id, t>> : t \in Done(x.agents[i])}
    BY <2>1, <2>2, <2>3, <2>4 DEF ToSet
  <2> QED BY <1>3, <2>5
<1> HIDE DEF calls
<1>6. FinishedCalls(x) = calls
  BY <1>4, <1>5
<1> QED BY <1>6 DEF x, calls

\* One session whose events name no parent is the root of the snapshot.
LEMMA FoldedRoot ==
  ASSUME NEW E, EventsOfRun(E), NEW r \in AgentIds(E),
         \A s \in AgentIds(E) : s = r <=> \A e \in E : e.session = s => ~HasParent(e)
  PROVE  FoldEvents(E).root = r
<1> DEFINE A == Accumulated(E).agents
           roots == {s \in DOMAIN A : A[s].parent = NoParent}
<1>1. /\ DOMAIN A = AgentIds(E)
      /\ \A s \in AgentIds(E) : A[s].parent = NoParent <=> \A e \in E : e.session = s => ~HasParent(e)
  BY FoldedEvents DEF FoldOf
<1>2. roots = {r}
  BY <1>1
<1>3. RootSession(A) = CHOOSE x \in roots : \A s \in roots :
            s = x \/ Below(<<A[x].started, x>>, <<A[s].started, s>>)
  BY DEF RootSession
<1> HIDE DEF roots, A
<1>4. RootSession(A) = r
  BY <1>2, <1>3
<1> QED BY <1>4, FoldedSnapshot DEF A

-----------------------------------------------------------------------------
(* A delta takes the snapshot it starts from to the snapshot it was made   *)
(* for.                                                                    *)

\* Where two timelines part.
LEMMA Common ==
  ASSUME NEW s, IsSequence(s), NEW t, IsSequence(t)
  PROVE  LET n == CommonLength(s, t)
         IN  n \in 0 .. Len(s) /\ n <= Len(t) /\ SubSeq(s, 1, n) = SubSeq(t, 1, n)
<1> DEFINE Shared(n) == /\ n <= Len(t) /\ SubSeq(s, 1, n) = SubSeq(t, 1, n)
                        /\ n = Len(s) \/ n = Len(t) \/ s[n + 1] # t[n + 1]
           apart == {k \in Nat : k = Len(s) \/ k = Len(t) \/ s[k + 1] # t[k + 1]}
           S == ToSet(s) \cup ToSet(t)
<1>1. /\ Len(s) \in Nat /\ Len(t) \in Nat
      /\ \A i \in 1 .. Len(s) : s[i] \in S
      /\ \A i \in 1 .. Len(t) : t[i] \in S
  BY DEF IsSequence
<1>2. apart \in SUBSET Nat /\ Len(s) \in apart
  BY <1>1
<1>3. PICK n \in apart : \A m \in apart : n <= m
  <2> HIDE DEF apart
  <2> QED BY <1>2, Least
<1>4. n \in 0 .. Len(s) /\ n <= Len(t)
  <2>1. Len(t) \in apart
    BY <1>1
  <2>2. n <= Len(s) /\ n <= Len(t) /\ n \in Nat
    BY <1>2, <1>3, <2>1
  <2> QED BY <1>1, <2>2
<1>5. ASSUME NEW i \in 1 .. n PROVE s[i] = t[i]
  <2>1. i - 1 \in Nat /\ ~(n <= i - 1) /\ (i - 1) + 1 = i
    BY <1>4
  <2>2. i - 1 \notin apart
    BY <1>3, <2>1
  <2> QED BY <2>1, <2>2
<1> HIDE DEF S
<1>6. SubSeq(s, 1, n) = SubSeq(t, 1, n)
  <2>0. n \in Int /\ \A i \in 1 .. n : s[i] \in S /\ t[i] \in S
    BY <1>1, <1>4
  <2>1. /\ SubSeq(s, 1, n) \in Seq(S) /\ Len(SubSeq(s, 1, n)) = n
        /\ \A i \in 1 .. n : SubSeq(s, 1, n)[i] = s[i]
    <3>1. /\ SubSeq(s, 1, n) \in Seq(S)
          /\ Len(SubSeq(s, 1, n)) = IF 1 <= n THEN n - 1 + 1 ELSE 0
          /\ \A i \in 1 .. n - 1 + 1 : SubSeq(s, 1, n)[i] = s[1 + i - 1]
      BY <2>0, SubSeqProperties
    <3> QED BY <1>1, <1>4, <3>1
  <2>2. /\ SubSeq(t, 1, n) \in Seq(S) /\ Len(SubSeq(t, 1, n)) = n
        /\ \A i \in 1 .. n : SubSeq(t, 1, n)[i] = t[i]
    <3>1. /\ SubSeq(t, 1, n) \in Seq(S)
          /\ Len(SubSeq(t, 1, n)) = IF 1 <= n THEN n - 1 + 1 ELSE 0
          /\ \A i \in 1 .. n - 1 + 1 : SubSeq(t, 1, n)[i] = t[1 + i - 1]
      BY <2>0, SubSeqProperties
    <3> QED BY <1>1, <1>4, <3>1
  <2> QED BY <1>5, <2>1, <2>2, SeqEqual
<1>7. n = Len(s) \/ n = Len(t) \/ s[n + 1] # t[n + 1]
  BY <1>1, <1>3, <1>4
<1>8. n \in 0 .. Len(s) /\ Shared(n)
  BY <1>4, <1>6, <1>7
<1>9. CommonLength(s, t) = CHOOSE k \in 0 .. Len(s) : Shared(k)
  BY DEF CommonLength
<1>10. CommonLength(s, t) \in 0 .. Len(s) /\ Shared(CommonLength(s, t))
  <2> HIDE DEF Shared
  <2> QED BY <1>8, <1>9
<1> QED BY <1>10

\* The spliced timeline is the new one.
LEMMA Spliced ==
  ASSUME NEW s, IsSequence(s), NEW t, IsSequence(t)
  PROVE  LET n == CommonLength(s, t)
         IN  /\ n <= Len(s)
             /\ SubSeq(s, 1, n) \o SubSeq(t, n + 1, Len(t)) = t
<1> DEFINE n == CommonLength(s, t)
           S == ToSet(t)
<1>1. n \in 0 .. Len(s) /\ n <= Len(t) /\ SubSeq(s, 1, n) = SubSeq(t, 1, n)
  BY Common
<1>2. t \in Seq(S) /\ Len(t) \in Nat /\ Len(s) \in Nat
  BY DEF IsSequence
<1> HIDE DEF n, S
<1>3. 1 \in 1 .. Len(t) + 1 /\ n \in (1 - 1) .. Len(t) /\ Len(t) \in n .. Len(t)
  BY <1>1, <1>2
<1>4. SubSeq(t, 1, n) \o SubSeq(t, n + 1, Len(t)) = SubSeq(t, 1, Len(t))
  BY <1>2, <1>3, ConcatAdjacentSubSeq
<1>5. SubSeq(t, 1, Len(t)) = t
  BY <1>2, SubSeqFull
<1>6. n <= Len(s)
  BY <1>1, <1>2
<1> QED BY <1>1, <1>4, <1>5, <1>6 DEF n

\* A filter that keeps every entry keeps the sequence.
LEMMA KeptAll ==
  ASSUME NEW s, IsSequence(s), NEW S, ToSet(s) \subseteq S
  PROVE  Filter(s, S) = s
<1> DEFINE n == Len(s)
           kept == {i \in DOMAIN s : s[i] \in S}
           place(k) == CHOOSE i \in kept : Cardinality({j \in kept : j < i}) = k - 1
<1>1. n \in Nat /\ DOMAIN s = 1 .. n /\ s = [i \in 1 .. n |-> s[i]]
  BY DEF IsSequence
<1>2. kept = 1 .. n
  BY <1>1 DEF ToSet
<1>3. Cardinality(kept) = n
  <2> HIDE DEF n, kept
  <2>1. Cardinality(1 .. n) = IF 1 > n THEN 0 ELSE n - 1 + 1
    BY <1>1, FS_Interval
  <2> QED BY <1>1, <1>2, <2>1
<1>4. ASSUME NEW i \in 1 .. n PROVE Cardinality({j \in kept : j < i}) = i - 1
  <2> DEFINE lower == {j \in kept : j < i}
  <2>1. lower = 1 .. (i - 1) /\ i \in Nat /\ i >= 1
    BY <1>1, <1>2
  <2> HIDE DEF n, kept, lower
  <2>2. i - 1 \in Int /\ 1 \in Int
    OBVIOUS
  <2>3. Cardinality(1 .. (i - 1)) = IF 1 > i - 1 THEN 0 ELSE (i - 1) - 1 + 1
    BY <2>2, FS_Interval
  <2>4. Cardinality(lower) = i - 1
    BY <2>1, <2>3
  <2> QED BY <2>4 DEF lower
<1>5. ASSUME NEW k \in 1 .. n PROVE place(k) = k
  <2> DEFINE Is(i) == Cardinality({j \in kept : j < i}) = k - 1
  <2>1. \A i \in kept : Is(i) <=> i = k
    BY <1>2, <1>4
  <2>2. k \in kept /\ place(k) = CHOOSE i \in kept : Is(i)
    BY <1>2
  <2> HIDE DEF Is, kept, place
  <2> QED BY <2>1, <2>2
<1>6. Filter(s, S) = [k \in 1 .. Cardinality(kept) |-> s[place(k)]]
  BY DEF Filter
<1> HIDE DEF kept, place, n
<1> QED BY <1>1, <1>3, <1>5, <1>6

\* The agents a reader has after the delta: those it keeps and those sent.
LEMMA AgentsAfter ==
  ASSUME NEW p, IsSnapshot(p), NEW c, IsSnapshot(c)
  PROVE  LET delta    == SnapshotDelta(p, c)
             upserted == {a.id : a \in delta.upserted}
             kept     == {a \in ToSet(p.agents) : a.id \notin delta.removed \cup upserted}
         IN  kept \cup delta.upserted = ToSet(c.agents)
<1> DEFINE P == ToSet(p.agents)
           C == ToSet(c.agents)
           removed == ToSet(AgentIdsOf(p)) \ ToSet(AgentIdsOf(c))
           upserted == {a.id : a \in C \ P}
           kept == {a \in P : a.id \notin removed \cup upserted}
<1>1. /\ SnapshotDelta(p, c).upserted = C \ P
      /\ SnapshotDelta(p, c).removed = removed
  BY DEF SnapshotDelta, UpsertedAgents
<1>2. ToSet(AgentIdsOf(p)) = {a.id : a \in P} /\ ToSet(AgentIdsOf(c)) = {a.id : a \in C}
  BY DEF AgentIdsOf, ToSet
<1>3. /\ \A a, b \in P : a.id = b.id => a = b
      /\ \A a, b \in C : a.id = b.id => a = b
  BY DEF IsSnapshot, ToSet
<1> HIDE DEF P, C
<1>4. kept \cup (C \ P) = C
  BY <1>2, <1>3
<1> QED BY <1>1, <1>4 DEF P, C

\* Applying a delta.
LEMMA Applied ==
  ASSUME NEW p, IsSnapshot(p), NEW c, IsSnapshot(c)
  PROVE  ApplyRunSnapshotDelta(p, SnapshotDelta(p, c)) = {c}
<1> DEFINE delta    == SnapshotDelta(p, c)
           upserted == {a.id : a \in delta.upserted}
           kept     == {a \in ToSet(p.agents) : a.id \notin delta.removed \cup upserted}
           agents   == kept \cup delta.upserted
           ids      == {a.id : a \in agents}
           order    == UnwrapOr(delta.order, Filter(AgentIdsOf(p), ids))
           shown    == [i \in DOMAIN order |-> CHOOSE a \in agents : a.id = order[i]]
           edges    == UnwrapOr(delta.edges, p.edges)
           spliced  == {Splice(p.timeline, splice) : splice \in delta.timeline}
           timeline == UnwrapOr(spliced, p.timeline)
           fits     == /\ delta.base = p.event_count
                       /\ ToSet(order) \subseteq ids
                       /\ IF delta.order = Nothing THEN upserted \subseteq ToSet(order)
                          ELSE Cardinality(ToSet(order)) = Cardinality(ids)
                       /\ \A splice \in delta.timeline : splice.replace_from <= Len(p.timeline)
           after    == [root |-> delta.target.root, event_count |-> delta.target.event_count,
                        started |-> delta.target.started, last |-> delta.target.last,
                        agents |-> shown, edges |-> edges, timeline |-> timeline]
<1>1. ApplyRunSnapshotDelta(p, delta) = IF ~fits THEN Nothing ELSE Some(after)
  BY DEF ApplyRunSnapshotDelta
<1>2. agents = ToSet(c.agents)
  BY AgentsAfter
<1>3. /\ delta.base = p.event_count
      /\ delta.target = [root |-> c.root, event_count |-> c.event_count,
                         started |-> c.started, last |-> c.last]
      /\ delta.upserted = ToSet(c.agents) \ ToSet(p.agents)
      /\ delta.order = IF AgentIdsOf(p) = AgentIdsOf(c) THEN {} ELSE {AgentIdsOf(c)}
      /\ delta.edges = IF p.edges = c.edges THEN {} ELSE {c.edges}
      /\ delta.timeline = NewTimeline(p, c)
  BY DEF SnapshotDelta, UpsertedAgents, NewAgentOrder, Nothing, Some
<1> HIDE DEF delta
<1>4. \A option, default : /\ option = {} => UnwrapOr(option, default) = default
                           /\ \A v : option = {v} => UnwrapOr(option, default) = v
  BY DEF UnwrapOr, Nothing
<1>5. IsSequence(AgentIdsOf(p)) /\ DOMAIN AgentIdsOf(c) = DOMAIN c.agents
      /\ \A i \in DOMAIN c.agents : AgentIdsOf(c)[i] = c.agents[i].id
  <2> DEFINE n == Len(p.agents)
             f == AgentIdsOf(p)
  <2>1. n \in Nat /\ DOMAIN p.agents = 1 .. n
    BY DEF IsSnapshot, IsSequence
  <2>2. f = [i \in 1 .. n |-> f[i]]
    BY <2>1 DEF AgentIdsOf
  <2> HIDE DEF n, f
  <2>3. IsSequence([i \in 1 .. n |-> f[i]])
    BY <2>1, SequenceOf
  <2>4. IsSequence(f)
    BY <2>2, <2>3
  <2> QED BY <2>4 DEF AgentIdsOf, f
<1>6. ids = ToSet(AgentIdsOf(c))
  <2> HIDE DEF agents
  <2> QED BY <1>2, <1>5 DEF ToSet
<1> HIDE DEF agents, ids
<1>7. order = AgentIdsOf(c)
  <2>1. CASE AgentIdsOf(p) = AgentIdsOf(c)
    <3>1. delta.order = {} /\ ToSet(AgentIdsOf(p)) \subseteq ids
      BY <1>3, <1>6, <2>1
    <3>2. Filter(AgentIdsOf(p), ids) = AgentIdsOf(p)
      BY <1>5, <3>1, KeptAll
    <3> QED BY <1>4, <2>1, <3>1, <3>2
  <2>2. CASE AgentIdsOf(p) # AgentIdsOf(c)
    <3>1. delta.order = {AgentIdsOf(c)}
      BY <1>3, <2>2
    <3> QED BY <1>4, <3>1
  <2> QED BY <2>1, <2>2
<1> HIDE DEF order
<1>8. shown = c.agents
  <2>1. \A a, b \in ToSet(c.agents) : a.id = b.id => a = b
    BY DEF IsSnapshot, ToSet
  <2>2. ASSUME NEW i \in DOMAIN c.agents
        PROVE  (CHOOSE a \in agents : a.id = order[i]) = c.agents[i]
    <3>1. c.agents[i] \in ToSet(c.agents) /\ order[i] = c.agents[i].id
      BY <1>5, <1>7 DEF ToSet
    <3> QED BY <1>2, <2>1, <3>1
  <2>3. DOMAIN order = DOMAIN c.agents /\ c.agents = [i \in DOMAIN c.agents |-> c.agents[i]]
    BY <1>5, <1>7 DEF IsSnapshot, IsSequence
  <2> QED BY <2>2, <2>3
<1> HIDE DEF shown
<1>9. edges = c.edges
  BY <1>3, <1>4
<1> HIDE DEF edges
<1>10. timeline = c.timeline /\ \A splice \in delta.timeline : splice.replace_from <= Len(p.timeline)
  <2> DEFINE s == p.timeline
             t == c.timeline
             n == CommonLength(s, t)
             v == [replace_from |-> n, entries |-> SubSeq(t, n + 1, Len(t))]
  <2>1. n <= Len(s) /\ SubSeq(s, 1, n) \o SubSeq(t, n + 1, Len(t)) = t
    BY Spliced DEF IsSnapshot
  <2>2. delta.timeline = IF s = t THEN {} ELSE {v}
    BY <1>3 DEF NewTimeline, Nothing, Some
  <2>3. v.replace_from = n /\ Splice(s, v) = t
    BY <2>1 DEF Splice
  <2> HIDE DEF v, n
  <2>4. CASE s = t
    <3>1. delta.timeline = {} /\ spliced = {}
      BY <2>2, <2>4
    <3> HIDE DEF spliced
    <3> QED BY <1>4, <2>4, <3>1
  <2>5. CASE s # t
    <3>1. delta.timeline = {v} /\ spliced = {t}
      BY <2>2, <2>3, <2>5
    <3> HIDE DEF spliced
    <3> QED BY <1>4, <2>1, <2>3, <3>1
  <2> QED BY <2>4, <2>5
<1> HIDE DEF timeline
<1>11. fits
  <2>1. ToSet(order) = ids
    BY <1>6, <1>7
  <2>2. upserted \subseteq ids
    BY <1>2, <1>3 DEF ids
  <2> HIDE DEF upserted
  <2> QED BY <1>3, <1>10, <2>1, <2>2
<1>12. after = c
  <2>1. after = [root |-> c.root, event_count |-> c.event_count, started |-> c.started,
                 last |-> c.last, agents |-> c.agents, edges |-> c.edges, timeline |-> c.timeline]
    BY <1>3, <1>8, <1>9, <1>10
  <2> HIDE DEF after
  <2> QED BY <2>1 DEF IsSnapshot
<1> HIDE DEF fits, after
<1> QED BY <1>1, <1>11, <1>12 DEF Some, delta

-----------------------------------------------------------------------------
(* The feed of the store.                                                  *)

\* The Runs of a loaded event set.
LEMMA EventsOfRuns ==
  ASSUME NEW E, E \subseteq Offered, IsFiniteSet(E), WellFormed(E), NEW r \in RunIds(E)
  PROVE  /\ RebuildAll(E).runs[r] = GroupOf(FromSource(E, r[1]), r)
         /\ RebuildAll(E).runs[r] \subseteq E
         /\ EventsOfRun(RebuildAll(E).runs[r])
<1> DEFINE G == GroupOf(FromSource(E, r[1]), r)
<1>1. RebuildAll(E).runs[r] = G
  BY RebuiltRuns
<1>2. G \subseteq E
  BY DEF GroupOf, FromSource
<1> HIDE DEF G
<1>3. IsFiniteSet(G)
  BY <1>2, FS_Subset
<1>4. UniqueIds(G)
  BY <1>2 DEF WellFormed, UniqueIds
<1>5. G \subseteq Event /\ \A e \in G : e.content.type = "AgentSpawned" => HasParent(e)
  BY <1>2, OfferedAssumption, SpawnAssumption
<1> QED BY <1>1, <1>2, <1>3, <1>4, <1>5 DEF EventsOfRun, G

\* The fold finds the root by which the store grouped the events.
LEMMA RootOfRun ==
  ASSUME NEW E, E \subseteq Offered, IsFiniteSet(E), WellFormed(E), NEW r \in RunIds(E)
  PROVE  FoldEvents(RebuildAll(E).runs[r]).root = r[2]
<1> DEFINE own == FromSource(E, r[1])
           G   == GroupOf(own, r)
           S   == SessionsOf(own)
           P   == ParentsOf(own)
<1>1. RebuildAll(E).runs[r] = G /\ EventsOfRun(G)
  BY EventsOfRuns
<1>2. /\ G = {e \in own : RootsOf(own)[KeyOf(e)] = r}
      /\ DOMAIN P = ChildrenOf(own)
      /\ \A e \in own : KeyOf(e) \in S /\ KeyOf(e) = <<r[1], e.session>> /\ e \in Event
  BY OfferedAssumption DEF GroupOf, ParentsOf, SessionsOf, KeyOf, FromSource
<1>3. r \in S /\ r # NoRoot /\ \E k \in S : RootsOf(own)[k] = r
  <2>1. r \in RunRootsOf(own)
    BY RunIdsBySource
  <2> HIDE DEF own
  <2>2. r \in S
    BY <2>1, RunRootsAreSessions
  <2> QED BY <2>1, <2>2 DEF RunRootsOf
<1>4. \A k \in S : k \in SessionKey /\ k # NoRoot
  <2> SUFFICES ASSUME NEW e \in own PROVE KeyOf(e) \in SessionKey
    BY NoRootAssumption DEF SessionsOf, SessionKey
  <2>1. e \in Event
    BY <1>2
  <2> HIDE DEF own
  <2> QED BY <2>1 DEF KeyOf, Event, SessionKey
<1> HIDE DEF own, G, P
<1>5. \A k \in S : \A q : q # NoRoot =>
         (RootsOf(own)[k] = q <=> q \in Visited(k, S, P) /\ q \notin DOMAIN P)
  BY RunRootEnds DEF P
<1>6. \A k \in S : k \in Visited(k, S, P)
  BY DEF Visited
<1> HIDE DEF S
<1>7. r \notin DOMAIN P
  BY <1>3, <1>5
<1>8. RootsOf(own)[r] = r
  BY <1>3, <1>5, <1>6, <1>7
<1>9. PICK e \in own : KeyOf(e) = r
  BY <1>3 DEF S, SessionsOf
<1>10. r = <<r[1], r[2]>> /\ e.session = r[2] /\ e \in G
  BY <1>2, <1>8, <1>9
<1>11. ASSUME NEW f \in G, f.session = r[2] PROVE ~HasParent(f)
  <2>1. f \in own /\ KeyOf(f) = r
    BY <1>2, <1>10, <1>11
  <2> QED BY <1>2, <1>7, <2>1 DEF ChildrenOf
<1>12. ASSUME NEW f \in G, \A g \in G : g.session = f.session => ~HasParent(g)
       PROVE  f.session = r[2]
  <2> DEFINE k == KeyOf(f)
  <2>1. f \in own /\ k \in S /\ RootsOf(own)[k] = r /\ k = <<r[1], f.session>>
    BY <1>2
  <2>2. k \notin ChildrenOf(own)
    <3> SUFFICES ASSUME NEW g \in own, HasParent(g), KeyOf(g) = k PROVE FALSE
      BY DEF ChildrenOf
    <3>1. g \in G /\ <<r[1], g.session>> = <<r[1], f.session>>
      BY <1>2, <2>1
    <3> QED BY <1>12, <3>1
  <2> HIDE DEF k
  <2>3. RootsOf(own)[k] = k
    BY <1>2, <1>4, <1>5, <1>6, <2>1, <2>2
  <2> QED BY <1>10, <2>1, <2>3
<1>13. r[2] \in AgentIds(G)
  BY <1>10 DEF AgentIds
<1>14. \A s \in AgentIds(G) : s = r[2] <=> \A f \in G : f.session = s => ~HasParent(f)
  BY <1>11, <1>12 DEF AgentIds
<1> QED BY <1>1, <1>13, <1>14, FoldedRoot

\* The invariant of the feed: the reader shows what a fold of every Run gives.
FeedInv == /\ IInv
           /\ store.events \subseteq Offered
           /\ ViewIsTheSnapshot

\* A reader of a Run comes to its new snapshot, with a delta or without.
LEMMA ReadSnapshot ==
  ASSUME NEW base, NEW current, EventsOfRun(base), EventsOfRun(current), NEW r,
         r \in DOMAIN view => base = {} \/ view[r] = FoldEvents(base)
  PROVE  ReadRun(r, base, current) = FoldEvents(current)
<1> DEFINE snapshot == FoldEvents(current)
           applied == IF base = {} \/ r \notin DOMAIN view THEN Nothing
                      ELSE ApplyRunSnapshotDelta(view[r], SnapshotDelta(FoldEvents(base), snapshot))
<1>1. ReadRun(r, base, current) = UnwrapOr(applied, snapshot)
  BY DEF ReadRun
<1>2. IsSnapshot(FoldEvents(base)) /\ IsSnapshot(snapshot)
  BY FoldedSnapshot
<1> HIDE DEF snapshot
<1>3. applied = Nothing \/ applied = {snapshot}
  BY <1>2, Applied
<1> HIDE DEF applied
<1> QED BY <1>1, <1>3 DEF UnwrapOr, Nothing, snapshot

\* A call whose outcome names every changed Run, and gives the snapshots its
\* deltas start from, brings the reader up to date.
LEMMA ViewFollows ==
  ASSUME FeedInv, NEW F, F \subseteq Offered, IsFiniteSet(F), WellFormed(F),
         store' = RebuildAll(F), store'.events = F, Read,
         \A r \in RunIds(F) \ outcome'.updated :
            r \in DOMAIN store.runs /\ RebuildAll(F).runs[r] = store.runs[r],
         \A r \in outcome'.updated \cap DOMAIN outcome'.base :
            outcome'.base[r] = IF r \in DOMAIN store.runs THEN store.runs[r] ELSE {}
  PROVE  store'.events \subseteq Offered /\ ViewIsTheSnapshot'
<1> DEFINE E == store.events
           runs == RebuildAll(F).runs
           base(r) == IF r \in DOMAIN outcome'.base THEN outcome'.base[r] ELSE {}
<1>1. /\ store = RebuildAll(E) /\ DOMAIN store.runs = RunIds(E)
      /\ E \subseteq Offered /\ IsFiniteSet(E) /\ WellFormed(E)
  BY RunsOfStore DEF FeedInv, IInv, AlwaysLoads
<1>2. DOMAIN runs = RunIds(F) /\ store'.runs = runs
  BY RebuiltRuns
<1>3. \A r \in RunIds(F) : EventsOfRun(runs[r])
  BY EventsOfRuns
<1>4. \A r \in DOMAIN store.runs : EventsOfRun(store.runs[r])
  <2> HIDE DEF E
  <2> QED BY <1>1, EventsOfRuns
<1>5. DOMAIN view = DOMAIN store.runs /\ \A r \in DOMAIN store.runs : view[r] = FoldEvents(store.runs[r])
  BY DEF FeedInv, ViewIsTheSnapshot, Snapshots
<1>6. EventsOfRun({})
  BY FS_EmptySet DEF EventsOfRun, UniqueIds
<1> HIDE DEF runs
<1>7. ASSUME NEW r \in RunIds(F)
      PROVE  (IF r \notin outcome'.updated THEN view[r] ELSE ReadRun(r, base(r), runs[r]))
               = FoldEvents(runs[r])
  <2>1. CASE r \notin outcome'.updated
    BY <1>5, <2>1 DEF runs
  <2>2. CASE r \in outcome'.updated
    <3>1. base(r) = {} \/ (r \in DOMAIN store.runs /\ base(r) = store.runs[r])
      BY <2>2
    <3>2. EventsOfRun(base(r)) /\ (r \in DOMAIN view => base(r) = {} \/ view[r] = FoldEvents(base(r)))
      BY <1>4, <1>5, <1>6, <3>1
    <3> HIDE DEF base
    <3>3. ReadRun(r, base(r), runs[r]) = FoldEvents(runs[r])
      BY <1>3, <3>2, ReadSnapshot
    <3> QED BY <2>2, <3>3
  <2> QED BY <2>1, <2>2
<1>8. view' = [r \in DOMAIN runs |-> IF r \notin outcome'.updated THEN view[r]
                                      ELSE ReadRun(r, base(r), runs[r])]
  BY <1>2 DEF Read
<1> HIDE DEF base
<1>9. view' = [r \in DOMAIN runs |-> FoldEvents(runs[r])]
  BY <1>2, <1>7, <1>8
<1> QED BY <1>2, <1>9 DEF ViewIsTheSnapshot, Snapshots

\* Every call of the feed preserves its invariant.
LEMMA FeedStep == FeedInv /\ [FeedNext]_feedVars => FeedInv'
<1> SUFFICES ASSUME FeedInv, [FeedNext]_feedVars PROVE FeedInv'
  OBVIOUS
<1>1. IInv'
  <2>1. [Next]_vars
    BY DEF FeedNext, feedVars, Next, vars
  <2> QED BY <2>1, NextInvariant DEF FeedInv
<1>2. /\ store = RebuildAll(store.events) /\ DOMAIN store.runs = RunIds(store.events)
      /\ IInv /\ store.events \subseteq Offered
  BY RunsOfStore DEF FeedInv
<1>3. CASE UNCHANGED feedVars
  BY <1>1, <1>3 DEF FeedInv, feedVars, ViewIsTheSnapshot, Snapshots
<1>4. ASSUME NEW e \in Offered, Accept(e), Read PROVE FeedInv'
  <2> DEFINE E == store.events
             F == E \cup {e}
  <2>1. /\ store' = RebuildAll(F) /\ store'.events = F
        /\ IsFiniteSet(F) /\ WellFormed(F)
        /\ \A r \in RunIds(F) \ outcome'.updated :
              r \in RunIds(E) /\ RebuildAll(F).runs[r] = RebuildAll(E).runs[r]
    BY <1>2, <1>4, AcceptedEvent
  <2>2. \A r \in outcome'.updated :
           outcome'.base[r] = IF r \in DOMAIN store.runs THEN store.runs[r] ELSE {}
    BY <1>2, <1>4, AcceptedBases
  <2>3. F \subseteq Offered
    BY <1>2
  <2>4. \A r \in RunIds(F) \ outcome'.updated :
           r \in DOMAIN store.runs /\ RebuildAll(F).runs[r] = store.runs[r]
    <3> HIDE DEF E, F
    <3> QED BY <1>2, <2>1 DEF E
  <2> HIDE DEF E, F
  <2>5. store'.events \subseteq Offered /\ ViewIsTheSnapshot'
    BY <1>4, <2>1, <2>2, <2>3, <2>4, ViewFollows
  <2> QED BY <1>1, <2>5 DEF FeedInv
<1>5. ASSUME NEW src \in Sources, NEW session \in Sessions,
             DeleteSessionTree(src, session), Read
      PROVE  FeedInv'
  <2> DEFINE E == store.events
             F == E \ TreeEvents(E, src, session)
  <2>1. /\ store' = RebuildAll(F) /\ store'.events = F
        /\ IsFiniteSet(F) /\ WellFormed(F)
        /\ \A r \in RunIds(F) \ outcome'.updated :
              r \in RunIds(E) /\ RebuildAll(F).runs[r] = RebuildAll(E).runs[r]
    BY <1>2, <1>5, DeletedTree
  <2>2. DOMAIN outcome'.base = {}
    BY <1>5 DEF DeleteSessionTree, Quiet, NoDelta
  <2>3. F \subseteq Offered
    BY <1>2
  <2>4. \A r \in RunIds(F) \ outcome'.updated :
           r \in DOMAIN store.runs /\ RebuildAll(F).runs[r] = store.runs[r]
    <3> HIDE DEF E, F
    <3> QED BY <1>2, <2>1 DEF E
  <2> HIDE DEF E, F
  <2>5. store'.events \subseteq Offered /\ ViewIsTheSnapshot'
    BY <1>5, <2>1, <2>2, <2>3, <2>4, ViewFollows
  <2> QED BY <1>1, <2>5 DEF FeedInv
<1> QED BY <1>3, <1>4, <1>5 DEF FeedNext

\* The inductive invariant of the feed.
THEOREM FeedInvariant == FeedSpec => []FeedInv
<1>1. FeedInit => FeedInv
  <2> SUFFICES ASSUME FeedInit PROVE FeedInv
    OBVIOUS
  <2>1. IInv
    BY InitInvariant DEF FeedInit
  <2>2. store.events = {} /\ DOMAIN store.runs = RunIds({})
    <3>1. store = RebuildAll({}) /\ RebuildAll({}).events = {}
      BY DEF FeedInit, Init, RebuildAll
    <3> QED BY <3>1, RebuiltRuns
  <2>3. RunIds({}) = {}
    BY DEF RunIds, SourcesOf
  <2>4. ViewIsTheSnapshot
    BY <2>2, <2>3 DEF ViewIsTheSnapshot, Snapshots, FeedInit
  <2> QED BY <2>1, <2>2, <2>4 DEF FeedInv
<1>2. FeedInv /\ [FeedNext]_feedVars => FeedInv'
  BY FeedStep
<1> QED BY <1>1, <1>2, PTL DEF FeedSpec

\* A reader that applies every delta shows what a fold of all events gives.
THEOREM DeltasAddUp == FeedSpec => []ViewIsTheSnapshot
<1>1. FeedInv => ViewIsTheSnapshot
  BY DEF FeedInv
<1> QED BY <1>1, FeedInvariant, PTL

\* What restore_runs demands of a checkpoint holds of every snapshot published:
\* its root is the one by which the store grouped the events.
THEOREM CheckpointsRestore == FeedSpec => []CheckpointIsRestorable
<1>1. ASSUME FeedInv PROVE CheckpointIsRestorable
  <2> DEFINE E == store.events
  <2>1. /\ store = RebuildAll(E) /\ DOMAIN store.runs = RunIds(E)
        /\ E \subseteq Offered /\ IsFiniteSet(E) /\ WellFormed(E)
    BY <1>1, RunsOfStore DEF FeedInv, IInv, AlwaysLoads
  <2>2. \A r \in DOMAIN store.runs : view[r] = FoldEvents(store.runs[r])
    BY <1>1 DEF FeedInv, ViewIsTheSnapshot, Snapshots
  <2> HIDE DEF E
  <2>3. ASSUME NEW r \in DOMAIN store.runs
        PROVE  view[r].root = r[2] /\ view[r].event_count = Cardinality(store.runs[r])
    <3>1. EventsOfRun(store.runs[r]) /\ FoldEvents(store.runs[r]).root = r[2]
      BY <2>1, EventsOfRuns, RootOfRun
    <3>2. FoldEvents(store.runs[r]).event_count = Cardinality(store.runs[r])
      BY <3>1, FoldedSnapshot
    <3> QED BY <2>2, <3>1, <3>2
  <2> QED BY <2>3 DEF CheckpointIsRestorable, RestoreRunsAccepts
<1> QED BY <1>1, FeedInvariant, PTL

\* No inserted event takes a finished tool call back.
THEOREM CallsStayFinished == FeedSpec => FinishedStaysFinished
<1> DEFINE Stays == outcome'.kind = "inserted" =>
          \A r \in DOMAIN view \cap DOMAIN view' :
              FinishedCalls(view[r]) \subseteq FinishedCalls(view'[r])
<1>1. ASSUME FeedInv, FeedInv', [FeedNext]_feedVars PROVE [Stays]_feedVars
  <2>1. /\ store = RebuildAll(store.events) /\ DOMAIN store.runs = RunIds(store.events)
        /\ IInv /\ store.events \subseteq Offered /\ IsFiniteSet(store.events)
        /\ WellFormed(store.events)
    BY <1>1, RunsOfStore DEF FeedInv, IInv, AlwaysLoads
  <2>2. ASSUME NEW e \in Offered, Accept(e) PROVE Stays
    <3> DEFINE E == store.events
               F == E \cup {e}
    <3>1. store' = RebuildAll(F) /\ IsFiniteSet(F) /\ WellFormed(F) /\ F \subseteq Offered
      BY <2>1, <2>2, AcceptedEvent
    <3>2. e.source \in Sources
      BY OfferedAssumption DEF Event
    <3>3. ~ConflictingLineage(FromSource(F, e.source))
      BY <3>1, <3>2 DEF WellFormed, SourceLoads, PartitionFails, Fails
    <3>4. /\ view = [r \in DOMAIN store.runs |-> FoldEvents(store.runs[r])]
          /\ view' = [r \in DOMAIN store'.runs |-> FoldEvents(store'.runs[r])]
      BY <1>1 DEF FeedInv, ViewIsTheSnapshot, Snapshots
    <3>5. DOMAIN RebuildAll(F).runs = RunIds(F)
      BY RebuiltRuns
    <3>6. ASSUME NEW r \in RunIds(E), r \in RunIds(F)
          PROVE  FinishedCalls(FoldEvents(RebuildAll(E).runs[r]))
                   \subseteq FinishedCalls(FoldEvents(RebuildAll(F).runs[r]))
      <4>1. RebuildAll(E).runs[r] \subseteq RebuildAll(F).runs[r]
        <5> HIDE DEF E
        <5> QED BY <3>3, <3>6, GrownRun
      <4>2. EventsOfRun(RebuildAll(E).runs[r]) /\ EventsOfRun(RebuildAll(F).runs[r])
        <5> HIDE DEF E, F
        <5> QED BY <2>1, <3>1, <3>6, EventsOfRuns DEF E
      <4> HIDE DEF E, F
      <4> DEFINE G == RebuildAll(E).runs[r]
                 H == RebuildAll(F).runs[r]
      <4> HIDE DEF G, H
      <4>3. /\ FinishedCalls(FoldEvents(G))
                 = {<<x.session, x.content.call>> : x \in {f \in G : f.content.type = "ToolFinished"}}
            /\ FinishedCalls(FoldEvents(H))
                 = {<<x.session, x.content.call>> : x \in {f \in H : f.content.type = "ToolFinished"}}
        BY <4>2, FinishedOfEvents DEF G, H
      <4>4. G \subseteq H
        BY <4>1 DEF G, H
      <4>5. FinishedCalls(FoldEvents(G)) \subseteq FinishedCalls(FoldEvents(H))
        BY <4>3, <4>4
      <4> QED BY <4>5 DEF G, H
    <3> HIDE DEF E, F
    <3> QED BY <2>1, <3>1, <3>4, <3>5, <3>6 DEF E
  <2>3. ASSUME NEW src \in Sources, NEW session \in Sessions, DeleteSessionTree(src, session)
        PROVE  Stays
    <3>1. outcome'.kind = "deleted"
      BY <2>1, <2>3, DeletedTree
    <3> QED BY <3>1
  <2> HIDE DEF Stays
  <2> QED BY <1>1, <2>2, <2>3 DEF FeedNext
<1> QED BY <1>1, FeedInvariant, PTL DEF FeedSpec, FinishedStaysFinished
=============================================================================
