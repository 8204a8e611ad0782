---------------------------- MODULE IngestLemmas -----------------------------
(***************************************************************************)
(* Lemmas about the operators of Lineage and IngestStore, for every set of *)
(* sources, sessions and events: each of the three incremental updates of  *)
(* crates/ingest/src/lib.rs turns a rebuilt store into a rebuilt store.    *)
(***************************************************************************)
EXTENDS IngestStore, FiniteSetTheorems, WellFoundedInduction, TLAPS

-----------------------------------------------------------------------------
(* Induction.                                                              *)

\* A non-empty set of natural numbers has a least member.
LEMMA Least ==
  ASSUME NEW T \in SUBSET Nat, T # {}
  PROVE  \E n \in T : \A m \in T : n <= m
<1> DEFINE below == {pair \in Nat \X Nat : pair[1] < pair[2]}
<1>1. IsWellFoundedOn(below, Nat)
  BY NatLessThanWellFounded DEF OpToRel
<1>2. PICK n \in T : \A m \in T : ~(<<m, n>> \in below)
  <2> HIDE DEF below
  <2> QED BY <1>1, WFMin
<1>3. \A m \in T : ~(m < n)
  BY <1>2
<1> QED BY <1>3

\* A set of numbers up to n that holds 0 and with a number its successor, holds
\* all of them.
LEMMA UpTo ==
  ASSUME NEW n \in Nat, NEW T, 0 \in T, \A i \in 1 .. n : i - 1 \in T => i \in T
  PROVE  \A i \in 0 .. n : i \in T
<1> DEFINE missing == {i \in 0 .. n : i \notin T}
<1> SUFFICES ASSUME missing # {} PROVE FALSE
  OBVIOUS
<1>1. PICK i \in missing : \A j \in missing : i <= j
  <2>1. missing \in SUBSET Nat
    OBVIOUS
  <2> HIDE DEF missing
  <2> QED BY <2>1, Least
<1>2. i \in 1 .. n /\ i - 1 \in 0 .. n /\ ~(i <= i - 1)
  BY <1>1
<1>3. i - 1 \in T
  BY <1>1, <1>2
<1> QED BY <1>1, <1>2, <1>3

-----------------------------------------------------------------------------
(* Partitions of one source.                                               *)

\* The root of a session is one of the sessions, or NoRoot.
LEMMA RootType ==
    ASSUME NEW S, NEW P, NEW k
    PROVE  ResolveRoot(k, S, P) \in S \cup {NoRoot}
<1> DEFINE ends == {v \in Visited(k, S, P) : v \notin DOMAIN P}
<1>1. CASE ends = {}
  BY <1>1 DEF ResolveRoot
<1>2. CASE ends # {}
  <2>1. (CHOOSE r \in ends : TRUE) \in ends
    BY <1>2
  <2>2. ends \subseteq S
    BY DEF Visited
  <2> QED BY <1>2, <2>1, <2>2 DEF ResolveRoot
<1> QED BY <1>1, <1>2

\* The roots of a source's Runs are sessions of that source.
LEMMA RunRootsAreSessions ==
    ASSUME NEW own
    PROVE  RunRootsOf(own) \subseteq SessionsOf(own)
<1> SUFFICES ASSUME NEW k \in SessionsOf(own), RootsOf(own)[k] # NoRoot
             PROVE  RootsOf(own)[k] \in SessionsOf(own)
  BY DEF RunRootsOf
<1>1. RootsOf(own)[k] = ResolveRoot(k, SessionsOf(own), ParentsOf(own))
  BY DEF RootsOf
<1> QED BY <1>1, RootType

\* Session keys carry their source.
LEMMA KeySource ==
    ASSUME NEW E, NEW src
    PROVE  /\ \A e : KeyOf(e)[1] = e.source
           /\ \A k : k \in SessionsOf(FromSource(E, src))
                      <=> k \in SessionsOf(E) /\ k[1] = src
           /\ \A k : k \in ChildrenOf(FromSource(E, src))
                      <=> k \in ChildrenOf(E) /\ k[1] = src
<1>1. \A e : KeyOf(e)[1] = e.source
  BY DEF KeyOf
<1>2. ASSUME NEW k
      PROVE  k \in SessionsOf(FromSource(E, src)) <=> k \in SessionsOf(E) /\ k[1] = src
  BY <1>1 DEF SessionsOf, FromSource
<1>3. ASSUME NEW k
      PROVE  k \in ChildrenOf(FromSource(E, src)) <=> k \in ChildrenOf(E) /\ k[1] = src
  BY <1>1 DEF ChildrenOf, FromSource
<1> QED BY <1>1, <1>2, <1>3

\* An event of one source leaves the partitions of the others alone.
LEMMA OtherSources ==
    ASSUME NEW E, NEW e, NEW src, src # e.source
    PROVE  FromSource(E \cup {e}, src) = FromSource(E, src)
BY DEF FromSource

LEMMA OwnSource ==
    ASSUME NEW E, NEW e
    PROVE  FromSource(E \cup {e}, e.source) = FromSource(E, e.source) \cup {e}
BY DEF FromSource

\* The Run ids of a rebuilt store are the run roots of every source.
LEMMA RunIdsBySource ==
    ASSUME NEW E, NEW r
    PROVE  r \in RunIds(E) <=> r \in RunRootsOf(FromSource(E, r[1]))
<1>1. \A src : DOMAIN BuildPartition(E, src).groups = RunRootsOf(FromSource(E, src))
  BY DEF BuildPartition, Partition
<1>2. ASSUME NEW src, r \in RunRootsOf(FromSource(E, src))
      PROVE  r[1] = src /\ src \in SourcesOf(E)
  <2>1. r \in SessionsOf(FromSource(E, src))
    BY <1>2, RunRootsAreSessions
  <2>2. r[1] = src /\ r \in SessionsOf(E)
    BY <2>1, KeySource
  <2>3. PICK e \in E : r = KeyOf(e)
    BY <2>2 DEF SessionsOf
  <2> QED BY <2>2, <2>3, KeySource DEF SourcesOf
<1> QED BY <1>1, <1>2 DEF RunIds

-----------------------------------------------------------------------------
(* repartition_source.                                                     *)

\* Inserting into the event map leaves the derived maps as they were.
LEMMA WithEventFields ==
    ASSUME NEW E, NEW e
    PROVE  WithEvent(RebuildAll(E), e) =
             [events  |-> E \cup {e},
              parents |-> RebuildAll(E).parents,
              roots   |-> RebuildAll(E).roots,
              runs    |-> RebuildAll(E).runs,
              pending |-> RebuildAll(E).pending]
<1> DEFINE R == RebuildAll(E)
<1>1. R = [events |-> R.events, parents |-> R.parents, roots |-> R.roots,
           runs |-> R.runs, pending |-> R.pending] /\ R.events = E
  BY DEF RebuildAll
<1> HIDE DEF R
<1>2. [R EXCEPT !.events = R.events \cup {e}] =
        [events |-> E \cup {e}, parents |-> R.parents, roots |-> R.roots,
         runs |-> R.runs, pending |-> R.pending]
  BY <1>1
<1> QED BY <1>2 DEF WithEvent, R

\* A Run whose root is not reported as affected has the same events before and
\* after the insertion, and none of them belongs to the inserted session.
LEMMA UnaffectedRuns ==
    ASSUME NEW E, NEW e, NEW r, r # NoRoot,
           r \notin AffectedRoots(WithEvent(RebuildAll(E), e),
                                  BuildPartition(E \cup {e}, e.source),
                                  e.source, KeyOf(e))
    PROVE  LET own   == FromSource(E, e.source)
               grown == FromSource(E \cup {e}, e.source)
           IN  /\ r \in RunRootsOf(own) <=> r \in RunRootsOf(grown)
               /\ GroupOf(own, r) = GroupOf(grown, r)
<1> DEFINE own   == FromSource(E, e.source)
           grown == FromSource(E \cup {e}, e.source)
           s     == WithEvent(RebuildAll(E), e)
           p     == BuildPartition(E \cup {e}, e.source)
<1>1. s.roots = [k \in SessionsOf(E) |-> BuildPartition(E, k[1]).roots[k]]
  <2>1. s.roots = RebuildAll(E).roots
    BY WithEventFields
  <2>2. RebuildAll(E).roots = [k \in SessionsOf(E) |-> BuildPartition(E, k[1]).roots[k]]
    BY DEF RebuildAll
  <2> QED BY <2>1, <2>2
<1>2. OfSource(s.roots, e.source) = SessionsOf(own)
  BY <1>1, KeySource DEF OfSource
<1>3. p.roots = RootsOf(grown) /\ DOMAIN p.roots = SessionsOf(grown)
  BY DEF BuildPartition, Partition, RootsOf
<1>4. grown = own \cup {e}
  BY OwnSource
<1>5. SessionsOf(grown) = SessionsOf(own) \cup {KeyOf(e)}
  BY <1>4 DEF SessionsOf
<1>6. ASSUME NEW k \in SessionsOf(own)
      PROVE  OldRoot(s, k) = RootsOf(own)[k]
  <2>1. k \in SessionsOf(E) /\ k[1] = e.source
    BY <1>6, KeySource
  <2>2. BuildPartition(E, e.source).roots = RootsOf(own)
    BY DEF BuildPartition, Partition
  <2> QED BY <1>1, <2>1, <2>2 DEF OldRoot
<1>7. ASSUME NEW k \in SessionsOf(grown)
      PROVE  NewRoot(p, k) = RootsOf(grown)[k]
  BY <1>3 DEF NewRoot
<1>8. ASSUME NEW k \in SessionsOf(grown), k \notin SessionsOf(own)
      PROVE  OldRoot(s, k) = NoRoot
  BY <1>1, <1>3, <1>8, KeySource DEF OldRoot
<1>9. ASSUME NEW k \in SessionsOf(grown), OldRoot(s, k) = r \/ NewRoot(p, k) = r
      PROVE  OldRoot(s, k) = NewRoot(p, k)
  BY <1>2, <1>3, <1>9 DEF AffectedRoots
<1>10. NewRoot(p, KeyOf(e)) # r
  BY DEF AffectedRoots
<1>11. ASSUME NEW k \in SessionsOf(own)
       PROVE  RootsOf(own)[k] = r <=> RootsOf(grown)[k] = r
  BY <1>5, <1>6, <1>7, <1>9
<1>12. ASSUME NEW k \in SessionsOf(grown), RootsOf(grown)[k] = r
       PROVE  k \in SessionsOf(own) /\ k # KeyOf(e)
  BY <1>7, <1>8, <1>9, <1>10, <1>12
<1>13. r \in RunRootsOf(own) <=> r \in RunRootsOf(grown)
  BY <1>5, <1>11, <1>12 DEF RunRootsOf
<1>14. \A f \in own : KeyOf(f) \in SessionsOf(own)
  BY DEF SessionsOf
<1>15. GroupOf(own, r) = GroupOf(grown, r)
  BY <1>4, <1>5, <1>11, <1>12, <1>14 DEF GroupOf
<1> QED BY <1>13, <1>15

\* Replacing one source in maps that are otherwise rebuilt gives rebuilt maps.
LEMMA ReplacedParents ==
    ASSUME NEW E, NEW F, NEW src,
           \A x : x # src => FromSource(F, x) = FromSource(E, x)
    PROVE  ReplaceSource(RebuildAll(E).parents, src, BuildPartition(F, src).parents)
             = RebuildAll(F).parents
<1> DEFINE f == RebuildAll(E).parents
           g == BuildPartition(F, src).parents
           h == RebuildAll(F).parents
<1>1. f = [k \in ChildrenOf(E) |-> BuildPartition(E, k[1]).parents[k]]
      /\ h = [k \in ChildrenOf(F) |-> BuildPartition(F, k[1]).parents[k]]
  BY DEF RebuildAll
<1>2. DOMAIN g = ChildrenOf(FromSource(F, src))
  BY DEF BuildPartition, Partition, ParentsOf
<1>3. \A k : k[1] # src => BuildPartition(F, k[1]) = BuildPartition(E, k[1])
  BY DEF BuildPartition
<1>4. ASSUME NEW k, k[1] # src
      PROVE  k \in ChildrenOf(E) <=> k \in ChildrenOf(F)
  <2>1. k \in ChildrenOf(E) <=> k \in ChildrenOf(FromSource(E, k[1]))
    BY KeySource
  <2>2. k \in ChildrenOf(F) <=> k \in ChildrenOf(FromSource(F, k[1]))
    BY KeySource
  <2> QED BY <1>4, <2>1, <2>2
<1>5. (DOMAIN f \ OfSource(f, src)) \cup DOMAIN g = ChildrenOf(F)
  BY <1>1, <1>2, <1>4, KeySource DEF OfSource
<1>6. ASSUME NEW k \in ChildrenOf(F)
      PROVE  (IF k \in DOMAIN g THEN g[k] ELSE f[k]) = h[k]
  <2>1. CASE k[1] = src
    BY <1>1, <1>2, <2>1, KeySource
  <2>2. CASE k[1] # src
    BY <1>1, <1>2, <1>3, <1>4, <2>2, KeySource
  <2> QED BY <2>1, <2>2
<1> HIDE DEF f, g, h
<1>7. ReplaceSource(f, src, g) = [k \in ChildrenOf(F) |-> h[k]]
  BY <1>5, <1>6 DEF ReplaceSource
<1> QED BY <1>1, <1>7 DEF f, g, h

LEMMA ReplacedRoots ==
    ASSUME NEW E, NEW F, NEW src,
           \A x : x # src => FromSource(F, x) = FromSource(E, x)
    PROVE  ReplaceSource(RebuildAll(E).roots, src, BuildPartition(F, src).roots)
             = RebuildAll(F).roots
<1> DEFINE f == RebuildAll(E).roots
           g == BuildPartition(F, src).roots
           h == RebuildAll(F).roots
<1>1. f = [k \in SessionsOf(E) |-> BuildPartition(E, k[1]).roots[k]]
      /\ h = [k \in SessionsOf(F) |-> BuildPartition(F, k[1]).roots[k]]
  BY DEF RebuildAll
<1>2. DOMAIN g = SessionsOf(FromSource(F, src))
  BY DEF BuildPartition, Partition, RootsOf
<1>3. \A k : k[1] # src => BuildPartition(F, k[1]) = BuildPartition(E, k[1])
  BY DEF BuildPartition
<1>4. ASSUME NEW k, k[1] # src
      PROVE  k \in SessionsOf(E) <=> k \in SessionsOf(F)
  <2>1. k \in SessionsOf(E) <=> k \in SessionsOf(FromSource(E, k[1]))
    BY KeySource
  <2>2. k \in SessionsOf(F) <=> k \in SessionsOf(FromSource(F, k[1]))
    BY KeySource
  <2> QED BY <1>4, <2>1, <2>2
<1>5. (DOMAIN f \ OfSource(f, src)) \cup DOMAIN g = SessionsOf(F)
  BY <1>1, <1>2, <1>4, KeySource DEF OfSource
<1>6. ASSUME NEW k \in SessionsOf(F)
      PROVE  (IF k \in DOMAIN g THEN g[k] ELSE f[k]) = h[k]
  <2>1. CASE k[1] = src
    BY <1>1, <1>2, <2>1, KeySource
  <2>2. CASE k[1] # src
    BY <1>1, <1>2, <1>3, <1>4, <2>2, KeySource
  <2> QED BY <2>1, <2>2
<1> HIDE DEF f, g, h
<1>7. ReplaceSource(f, src, g) = [k \in SessionsOf(F) |-> h[k]]
  BY <1>5, <1>6 DEF ReplaceSource
<1> QED BY <1>1, <1>7 DEF f, g, h

\* The Runs of a rebuilt store, one by one.
LEMMA RebuiltRuns ==
    ASSUME NEW E
    PROVE  /\ DOMAIN RebuildAll(E).runs = RunIds(E)
           /\ \A r \in RunIds(E) : RebuildAll(E).runs[r] = GroupOf(FromSource(E, r[1]), r)
           /\ RebuildAll(E).runs = [r \in RunIds(E) |-> GroupOf(FromSource(E, r[1]), r)]
<1>1. RebuildAll(E).runs = [r \in RunIds(E) |-> BuildPartition(E, r[1]).groups[r]]
  BY DEF RebuildAll
<1>2. ASSUME NEW r \in RunIds(E)
      PROVE  BuildPartition(E, r[1]).groups[r] = GroupOf(FromSource(E, r[1]), r)
  BY RunIdsBySource DEF BuildPartition, Partition
<1> QED BY <1>1, <1>2

\* One BTreeMap::insert brings the pending counts up to date.
LEMMA ReplacedPending ==
    ASSUME NEW E, NEW e
    PROVE  SetPending(RebuildAll(E).pending, e.source,
                      BuildPartition(E \cup {e}, e.source).pending)
             = RebuildAll(E \cup {e}).pending
<1> DEFINE F == E \cup {e}
           f == RebuildAll(E).pending
           n == BuildPartition(F, e.source).pending
<1>1. f = [x \in SourcesOf(E) |-> BuildPartition(E, x).pending]
      /\ RebuildAll(F).pending = [x \in SourcesOf(F) |-> BuildPartition(F, x).pending]
  BY DEF RebuildAll
<1>2. SourcesOf(F) = SourcesOf(E) \cup {e.source}
  BY DEF SourcesOf
<1>3. \A x : x # e.source => BuildPartition(F, x) = BuildPartition(E, x)
  BY OtherSources DEF BuildPartition
<1> HIDE DEF F, f, n
<1>4. SetPending(f, e.source, n) = [x \in SourcesOf(F) |-> BuildPartition(F, x).pending]
  BY <1>1, <1>2, <1>3 DEF SetPending, n
<1> QED BY <1>1, <1>4 DEF F, f, n

\* The Runs after repartition_source: the affected ones are taken from the new
\* partition, the others are still right.
LEMMA RepartitionRuns ==
    ASSUME NEW E, NEW e
    PROVE  LET p        == BuildPartition(E \cup {e}, e.source)
               affected == AffectedRoots(WithEvent(RebuildAll(E), e), p, e.source, KeyOf(e))
               updated  == affected \cap DOMAIN p.groups
           IN  /\ \A r \in affected : r # NoRoot /\ r[1] = e.source
               /\ [r \in (DOMAIN RebuildAll(E).runs \ affected) \cup updated |->
                     IF r \in updated THEN p.groups[r] ELSE RebuildAll(E).runs[r]]
                   = RebuildAll(E \cup {e}).runs
<1> DEFINE F        == E \cup {e}
           own      == FromSource(E, e.source)
           grown    == FromSource(F, e.source)
           s        == WithEvent(RebuildAll(E), e)
           p        == BuildPartition(F, e.source)
           affected == AffectedRoots(s, p, e.source, KeyOf(e))
           updated  == affected \cap DOMAIN p.groups
           f        == RebuildAll(E).runs
           h        == RebuildAll(F).runs
<1>1. p.groups = [r \in RunRootsOf(grown) |-> GroupOf(grown, r)]
      /\ p.roots = RootsOf(grown)
  BY DEF BuildPartition, Partition
<1>2. ASSUME NEW r \in affected
      PROVE  r # NoRoot /\ r[1] = e.source
  <2>1. r # NoRoot
    BY DEF AffectedRoots
  <2>2. s.roots = [k \in SessionsOf(E) |-> BuildPartition(E, k[1]).roots[k]]
    <3>1. s.roots = RebuildAll(E).roots
      BY WithEventFields
    <3>2. RebuildAll(E).roots = [k \in SessionsOf(E) |-> BuildPartition(E, k[1]).roots[k]]
      BY DEF RebuildAll
    <3> QED BY <3>1, <3>2
  <2>3. ASSUME NEW k, OldRoot(s, k) = r, k[1] = e.source
        PROVE  r[1] = e.source
    <3>1. k \in SessionsOf(own) /\ OldRoot(s, k) = BuildPartition(E, k[1]).roots[k]
      BY <2>1, <2>2, <2>3, KeySource DEF OldRoot
    <3>2. r \in RunRootsOf(own)
      BY <2>1, <2>3, <3>1 DEF BuildPartition, Partition, RunRootsOf
    <3> QED BY <3>2, RunRootsAreSessions, KeySource
  <2>4. ASSUME NEW k, NewRoot(p, k) = r
        PROVE  r[1] = e.source
    <3>1. k \in SessionsOf(grown) /\ RootsOf(grown)[k] = r
      BY <1>1, <2>1, <2>4 DEF NewRoot, RootsOf
    <3>2. r \in RunRootsOf(grown)
      BY <2>1, <3>1 DEF RunRootsOf
    <3> QED BY <3>2, RunRootsAreSessions, KeySource
  <2>5. DOMAIN p.roots = SessionsOf(grown)
    BY <1>1 DEF RootsOf
  <2>6. \A k \in OfSource(s.roots, e.source) \cup DOMAIN p.roots : k[1] = e.source
    BY <2>5, KeySource DEF OfSource
  <2>7. \/ \E k \in OfSource(s.roots, e.source) \cup DOMAIN p.roots :
               OldRoot(s, k) = r \/ NewRoot(p, k) = r
        \/ NewRoot(p, KeyOf(e)) = r
    BY <1>2 DEF AffectedRoots
  <2> QED BY <2>1, <2>3, <2>4, <2>6, <2>7
<1>3. NoRoot \notin RunIds(E) /\ NoRoot \notin RunIds(F)
  BY RunIdsBySource DEF RunRootsOf
<1>4. ASSUME NEW r, r # NoRoot, r \notin affected
      PROVE  /\ r \in RunIds(E) <=> r \in RunIds(F)
             /\ r \in RunIds(F) => GroupOf(FromSource(E, r[1]), r) = GroupOf(FromSource(F, r[1]), r)
  <2>1. CASE r[1] = e.source
    <3>1. /\ r \in RunRootsOf(own) <=> r \in RunRootsOf(grown)
          /\ GroupOf(own, r) = GroupOf(grown, r)
      BY <1>4, UnaffectedRuns, ZenonT(30)
    <3> QED BY <2>1, <3>1, RunIdsBySource
  <2>2. CASE r[1] # e.source
    BY <2>2, OtherSources, RunIdsBySource
  <2> QED BY <2>1, <2>2
<1>5. \A r \in affected : r \in RunIds(F) <=> r \in DOMAIN p.groups
  BY <1>1, <1>2, RunIdsBySource
<1>6. (DOMAIN f \ affected) \cup updated = RunIds(F)
  <2>1. DOMAIN f = RunIds(E)
    BY RebuiltRuns
  <2> HIDE DEF F, affected, f, p
  <2> QED BY <1>3, <1>4, <1>5, <2>1
<1>7. ASSUME NEW r \in RunIds(F)
      PROVE  (IF r \in updated THEN p.groups[r] ELSE f[r]) = h[r]
  <2>1. h[r] = GroupOf(FromSource(F, r[1]), r)
    BY RebuiltRuns
  <2>2. CASE r \in updated
    BY <1>1, <1>2, <2>1, <2>2
  <2>3. CASE r \notin updated
    <3>1. r \notin affected /\ r # NoRoot
      BY <1>3, <1>5, <2>3
    <3>2. r \in RunIds(E) /\ GroupOf(FromSource(E, r[1]), r) = GroupOf(FromSource(F, r[1]), r)
      BY <1>4, <3>1
    <3>3. f[r] = GroupOf(FromSource(E, r[1]), r)
      BY <3>2, RebuiltRuns
    <3> QED BY <2>1, <2>3, <3>2, <3>3
  <2> QED BY <2>2, <2>3
<1>8. h = [r \in RunIds(F) |-> h[r]]
  BY RebuiltRuns
<1> HIDE DEF F, affected, updated, f, h, p
<1>9. [r \in (DOMAIN f \ affected) \cup updated |-> IF r \in updated THEN p.groups[r] ELSE f[r]]
        = [r \in RunIds(F) |-> h[r]]
  BY <1>6, <1>7
<1> QED BY <1>2, <1>8, <1>9 DEF F, affected, updated, f, h, p

\* repartition_source turns the rebuilt store into the rebuilt store.
LEMMA RepartitionMatches ==
    ASSUME NEW E, NEW e
    PROVE  Repartition(WithEvent(RebuildAll(E), e), e.source, KeyOf(e)).store
             = RebuildAll(E \cup {e})
<1> DEFINE R        == RebuildAll(E)
           F        == E \cup {e}
           s        == WithEvent(R, e)
           p        == BuildPartition(F, e.source)
           affected == AffectedRoots(s, p, e.source, KeyOf(e))
           updated  == affected \cap DOMAIN p.groups
           runs     == [r \in (DOMAIN R.runs \ affected) \cup updated |->
                          IF r \in updated THEN p.groups[r] ELSE R.runs[r]]
           S        == RebuildAll(F)
<1>1. s = [events |-> F, parents |-> R.parents, roots |-> R.roots, runs |-> R.runs,
           pending |-> R.pending]
  BY WithEventFields
<1>2. ReplaceSource(R.parents, e.source, p.parents) = S.parents
  BY OtherSources, ReplacedParents
<1>3. ReplaceSource(R.roots, e.source, p.roots) = S.roots
  BY OtherSources, ReplacedRoots
<1>4. runs = S.runs
  BY RepartitionRuns
<1>5. SetPending(R.pending, e.source, p.pending) = S.pending
  BY ReplacedPending
<1>6. S = [events |-> F, parents |-> S.parents, roots |-> S.roots, runs |-> S.runs,
           pending |-> S.pending]
  BY DEF RebuildAll
<1>7. s.events = F /\ s.parents = R.parents /\ s.roots = R.roots /\ s.runs = R.runs
      /\ s.pending = R.pending
  <2> HIDE DEF s, R, F
  <2> QED BY <1>1
<1>8. Repartition(s, e.source, KeyOf(e)).store =
        [events |-> F, parents |-> S.parents, roots |-> S.roots, runs |-> runs,
         pending |-> S.pending]
  <2> HIDE DEF s, R, F, S
  <2> QED BY <1>2, <1>3, <1>5, <1>7 DEF Repartition
<1> HIDE DEF s, R, F, S, runs
<1> QED BY <1>4, <1>6, <1>8 DEF s, R, F, S

-----------------------------------------------------------------------------
(* rebuild_session_run.                                                    *)

\* Events of one session that name a parent all name the parents map's.
LEMMA ParentAgrees ==
    ASSUME NEW own, ~ConflictingLineage(own), NEW f \in own, HasParent(f)
    PROVE  /\ KeyOf(f) \in ChildrenOf(own)
           /\ ParentsOf(own)[KeyOf(f)] = ParentKey(f)
<1> DEFINE k == KeyOf(f)
           g == CHOOSE x \in own : KeyOf(x) = k /\ HasParent(x)
<1>1. k \in ChildrenOf(own)
  BY DEF ChildrenOf
<1>2. g \in own /\ KeyOf(g) = k /\ HasParent(g)
  OBVIOUS
<1>3. ParentsOf(own)[k] = ParentKey(g)
  BY <1>1 DEF ParentsOf
<1> HIDE DEF g
<1>4. ParentKey(g) = ParentKey(f)
  BY <1>2 DEF ConflictingLineage
<1> QED BY <1>1, <1>3, <1>4

\* An event of a known session that names no parent, or the one already known,
\* leaves the partition's lineage as it is.
LEMMA SameLineage ==
    ASSUME NEW own, NEW e, ~ConflictingLineage(own),
           KeyOf(e) \in SessionsOf(own),
           HasParent(e) => /\ KeyOf(e) \in ChildrenOf(own)
                           /\ ParentsOf(own)[KeyOf(e)] = ParentKey(e)
    PROVE  /\ SessionsOf(own \cup {e}) = SessionsOf(own)
           /\ ParentsOf(own \cup {e}) = ParentsOf(own)
           /\ RootsOf(own \cup {e}) = RootsOf(own)
           /\ RunRootsOf(own \cup {e}) = RunRootsOf(own)
           /\ ~ConflictingLineage(own \cup {e})
<1> DEFINE grown == own \cup {e}
<1>1. SessionsOf(grown) = SessionsOf(own)
  BY DEF SessionsOf
<1>2. ChildrenOf(grown) = ChildrenOf(own)
  BY DEF ChildrenOf
<1>3. ASSUME NEW f \in grown, HasParent(f)
      PROVE  ParentsOf(own)[KeyOf(f)] = ParentKey(f)
  BY <1>3, ParentAgrees
<1>4. ~ConflictingLineage(grown)
  <2> SUFFICES ASSUME NEW f \in grown, NEW g \in grown, KeyOf(f) = KeyOf(g),
                      HasParent(f), HasParent(g)
               PROVE  ParentKey(f) = ParentKey(g)
    BY DEF ConflictingLineage
  <2> QED BY <1>3
<1>5. ASSUME NEW k \in ChildrenOf(own)
      PROVE  ParentsOf(grown)[k] = ParentsOf(own)[k]
  <2>1. PICK f \in own : KeyOf(f) = k /\ HasParent(f)
    BY DEF ChildrenOf
  <2>2. ParentsOf(own)[k] = ParentKey(f)
    BY <2>1, ParentAgrees
  <2>3. ParentsOf(grown)[k] = ParentKey(f)
    BY <1>4, <2>1, ParentAgrees
  <2> QED BY <2>2, <2>3
<1>6. ParentsOf(grown) = ParentsOf(own)
  <2>1. ParentsOf(own) = [k \in ChildrenOf(own) |-> ParentsOf(own)[k]]
    BY DEF ParentsOf
  <2>2. ParentsOf(grown) = [k \in ChildrenOf(grown) |-> ParentsOf(grown)[k]]
    BY DEF ParentsOf
  <2> QED BY <1>2, <1>5, <2>1, <2>2
<1>7. RootsOf(grown) = RootsOf(own)
  BY <1>1, <1>6 DEF RootsOf
<1>8. RunRootsOf(grown) = RunRootsOf(own)
  BY <1>1, <1>7 DEF RunRootsOf
<1> QED BY <1>1, <1>4, <1>6, <1>7, <1>8

\* What an event that does not change the topology says of its source.
LEMMA TopologyKept ==
    ASSUME NEW E, NEW e, ~TopologyChanged(RebuildAll(E), e),
           ~ConflictingLineage(FromSource(E, e.source))
    PROVE  LET own == FromSource(E, e.source)
           IN  /\ KeyOf(e) \in SessionsOf(own)
               /\ KeyOf(e) \in SessionsOf(E)
               /\ RebuildAll(E).roots[KeyOf(e)] = RootsOf(own)[KeyOf(e)]
               /\ SessionsOf(own \cup {e}) = SessionsOf(own)
               /\ ParentsOf(own \cup {e}) = ParentsOf(own)
               /\ RootsOf(own \cup {e}) = RootsOf(own)
               /\ RunRootsOf(own \cup {e}) = RunRootsOf(own)
               /\ ~ConflictingLineage(own \cup {e})
<1> DEFINE own == FromSource(E, e.source)
           k   == KeyOf(e)
<1>1. RebuildAll(E).roots = [x \in SessionsOf(E) |-> BuildPartition(E, x[1]).roots[x]]
      /\ RebuildAll(E).parents = [x \in ChildrenOf(E) |-> BuildPartition(E, x[1]).parents[x]]
  BY DEF RebuildAll
<1>2. BuildPartition(E, e.source).roots = RootsOf(own)
      /\ BuildPartition(E, e.source).parents = ParentsOf(own)
  BY DEF BuildPartition, Partition
<1>3. k[1] = e.source
  BY KeySource
<1>4. k \in SessionsOf(E) /\ k \in SessionsOf(own)
      /\ RebuildAll(E).roots[k] = RootsOf(own)[k]
  BY <1>1, <1>2, <1>3, KeySource DEF TopologyChanged
<1>5. HasParent(e) => k \in ChildrenOf(own) /\ ParentsOf(own)[k] = ParentKey(e)
  BY <1>1, <1>2, <1>3, KeySource DEF TopologyChanged
<1> QED BY <1>4, <1>5, SameLineage

\* The Runs of a partition that grew by one event of a known session.
LEMMA GrownGroup ==
    ASSUME NEW own, NEW e, NEW r, RootsOf(own \cup {e}) = RootsOf(own)
    PROVE  GroupOf(own \cup {e}, r) =
             IF RootsOf(own)[KeyOf(e)] = r THEN GroupOf(own, r) \cup {e} ELSE GroupOf(own, r)
BY DEF GroupOf

\* rebuild_session_run turns the rebuilt store into the rebuilt store.
LEMMA RebuildSessionRunMatches ==
    ASSUME NEW E, NEW e, IsFiniteSet(E), e \notin E,
           ~TopologyChanged(RebuildAll(E), e),
           ~ConflictingLineage(FromSource(E, e.source))
    PROVE  RebuildSessionRun(WithEvent(RebuildAll(E), e), e.source, KeyOf(e)).store
             = RebuildAll(E \cup {e})
<1> DEFINE R     == RebuildAll(E)
           F     == E \cup {e}
           S     == RebuildAll(F)
           s     == WithEvent(R, e)
           k     == KeyOf(e)
           own   == FromSource(E, e.source)
           grown == FromSource(F, e.source)
           root  == RootsOf(own)[k]
<1>1. s = [events |-> F, parents |-> R.parents, roots |-> R.roots, runs |-> R.runs,
           pending |-> R.pending]
  BY WithEventFields
<1>2. S = [events |-> F, parents |-> S.parents, roots |-> S.roots, runs |-> S.runs,
           pending |-> S.pending]
  BY DEF RebuildAll
<1>3. grown = own \cup {e}
  BY OwnSource
<1>4. /\ k \in SessionsOf(own) /\ k \in SessionsOf(E) /\ R.roots[k] = root
      /\ ParentsOf(grown) = ParentsOf(own)
      /\ RootsOf(grown) = RootsOf(own)
      /\ RunRootsOf(grown) = RunRootsOf(own)
  BY <1>3, TopologyKept
<1>5. \A x : /\ ParentsOf(FromSource(F, x)) = ParentsOf(FromSource(E, x))
             /\ RootsOf(FromSource(F, x)) = RootsOf(FromSource(E, x))
             /\ RunRootsOf(FromSource(F, x)) = RunRootsOf(FromSource(E, x))
  BY <1>4, OtherSources
<1>6. \A G, x : /\ BuildPartition(G, x).parents = ParentsOf(FromSource(G, x))
                /\ BuildPartition(G, x).roots = RootsOf(FromSource(G, x))
                /\ BuildPartition(G, x).pending = Cardinality(GroupOf(FromSource(G, x), NoRoot))
  BY DEF BuildPartition, Partition
<1>7. S.parents = R.parents
  <2>1. ChildrenOf(F) = ChildrenOf(E)
    <3>1. \A G, x : ChildrenOf(FromSource(G, x)) = DOMAIN ParentsOf(FromSource(G, x))
      BY DEF ParentsOf
    <3>2. ASSUME NEW x
          PROVE  x \in ChildrenOf(E) <=> x \in ChildrenOf(F)
      <4>1. x \in ChildrenOf(E) <=> x \in ChildrenOf(FromSource(E, x[1]))
        BY KeySource
      <4>2. x \in ChildrenOf(F) <=> x \in ChildrenOf(FromSource(F, x[1]))
        BY KeySource
      <4> QED BY <1>5, <3>1, <4>1, <4>2
    <3> QED BY <3>2
  <2>2. \A G : RebuildAll(G).parents =
                [x \in ChildrenOf(G) |-> ParentsOf(FromSource(G, x[1]))[x]]
    BY <1>6 DEF RebuildAll
  <2> HIDE DEF F
  <2> QED BY <1>5, <2>1, <2>2
<1>8. S.roots = R.roots
  <2>1. SessionsOf(F) = SessionsOf(E)
    BY <1>4 DEF SessionsOf
  <2>2. \A G : RebuildAll(G).roots =
                [x \in SessionsOf(G) |-> RootsOf(FromSource(G, x[1]))[x]]
    BY <1>6 DEF RebuildAll
  <2> HIDE DEF F
  <2> QED BY <1>5, <2>1, <2>2, ZenonT(30)
<1>9. RunIds(F) = RunIds(E)
  BY <1>5, RunIdsBySource
<1>10. \A r : GroupOf(grown, r) = IF root = r THEN GroupOf(own, r) \cup {e} ELSE GroupOf(own, r)
  <2> HIDE DEF own, grown
  <2> QED BY <1>3, <1>4, GrownGroup
<1>11. SourcesOf(F) = SourcesOf(E) /\ e.source \in SourcesOf(E)
  <2>1. PICK f \in E : KeyOf(f) = k
    BY <1>4 DEF SessionsOf
  <2>2. f.source = e.source
    BY <2>1, KeySource
  <2> QED BY <2>1, <2>2 DEF SourcesOf
<1>12. /\ R.pending = [x \in SourcesOf(E) |-> Cardinality(GroupOf(FromSource(E, x), NoRoot))]
       /\ S.pending = [x \in SourcesOf(F) |-> Cardinality(GroupOf(FromSource(F, x), NoRoot))]
  BY <1>6 DEF RebuildAll
<1>13. /\ R.runs = [r \in RunIds(E) |-> GroupOf(FromSource(E, r[1]), r)]
       /\ S.runs = [r \in RunIds(F) |-> GroupOf(FromSource(F, r[1]), r)]
  BY RebuiltRuns
<1>14. RebuildSessionRun(s, e.source, k).store = S
  <2>1. s.roots[k] = root /\ s.events = F /\ s.runs = R.runs /\ s.pending = R.pending
        /\ s.roots = R.roots
    <3> HIDE DEF s, R, F, root
    <3> QED BY <1>1, <1>4
  <2>2. CASE root = NoRoot
    <3>1. Cardinality(GroupOf(grown, NoRoot)) = Cardinality(GroupOf(own, NoRoot)) + 1
      <4>1. GroupOf(own, NoRoot) \subseteq E
        BY DEF GroupOf, FromSource
      <4>2. IsFiniteSet(GroupOf(own, NoRoot)) /\ e \notin GroupOf(own, NoRoot)
        BY <4>1, FS_Subset
      <4> QED BY <1>10, <2>2, <4>2, FS_AddElement
    <3>2. SetPending(R.pending, e.source, R.pending[e.source] + 1) = S.pending
      <4>1. \A x : x # e.source => FromSource(F, x) = FromSource(E, x)
        BY OtherSources
      <4> HIDE DEF F, R, S
      <4> QED BY <1>11, <1>12, <3>1, <4>1 DEF SetPending
    <3>3. S.runs = R.runs
      <4>1. ASSUME NEW r \in RunIds(E)
            PROVE  GroupOf(FromSource(F, r[1]), r) = GroupOf(FromSource(E, r[1]), r)
        <5>1. r # NoRoot
          BY RunIdsBySource DEF RunRootsOf
        <5> QED BY <1>10, <2>2, <5>1, OtherSources
      <4> QED BY <1>9, <1>13, <4>1
    <3>4. RebuildSessionRun(s, e.source, k).store =
            [s EXCEPT !.pending = SetPending(s.pending, e.source, s.pending[e.source] + 1)]
      <4> HIDE DEF s, k, R
      <4> QED BY <2>1, <2>2 DEF RebuildSessionRun
    <3> HIDE DEF s, R, S, F
    <3>5. [s EXCEPT !.pending = S.pending] = S
      BY <1>1, <1>2, <1>7, <1>8, <3>3
    <3> QED BY <2>1, <3>2, <3>4, <3>5
  <2>3. CASE root # NoRoot
    <3> DEFINE runs == [r \in DOMAIN s.runs \cup {root} |->
                          IF r = root
                          THEN {f \in FromSource(s.events, e.source) :
                                  s.roots[KeyOf(f)] = root}
                          ELSE s.runs[r]]
    <3>1. S.pending = R.pending
      <4>1. \A x : GroupOf(FromSource(F, x), NoRoot) = GroupOf(FromSource(E, x), NoRoot)
        BY <1>10, <2>3, OtherSources
      <4> QED BY <1>11, <1>12, <4>1
    <3>2. root[1] = e.source /\ root \in RunIds(E)
      <4>1. root \in RunRootsOf(own)
        BY <1>4, <2>3 DEF RunRootsOf
      <4>2. root[1] = e.source
        BY <4>1, RunRootsAreSessions, KeySource
      <4> QED BY <4>1, <4>2, RunIdsBySource
    <3>3. {f \in FromSource(F, e.source) : R.roots[KeyOf(f)] = root} = GroupOf(grown, root)
      <4>1. \A f \in grown : R.roots[KeyOf(f)] = RootsOf(grown)[KeyOf(f)]
        <5>1. \A f \in grown : KeyOf(f) \in SessionsOf(F) /\ KeyOf(f)[1] = e.source
          BY KeySource DEF SessionsOf, FromSource
        <5>2. \A x \in SessionsOf(F) : S.roots[x] = RootsOf(FromSource(F, x[1]))[x]
          BY <1>6 DEF RebuildAll
        <5> QED BY <1>8, <5>1, <5>2
      <4> QED BY <4>1 DEF GroupOf
    <3>4. runs = S.runs
      <4>1. \A r \in RunIds(E) : r # root =>
               GroupOf(FromSource(F, r[1]), r) = GroupOf(FromSource(E, r[1]), r)
        BY <1>10, OtherSources
      <4>2. DOMAIN s.runs \cup {root} = RunIds(F)
        BY <1>9, <1>13, <2>1, <3>2
      <4> HIDE DEF s, R, S, F, root
      <4>3. ASSUME NEW r \in RunIds(F)
            PROVE  (IF r = root
                    THEN {f \in FromSource(s.events, e.source) : s.roots[KeyOf(f)] = root}
                    ELSE s.runs[r]) = GroupOf(FromSource(F, r[1]), r)
        <5>1. CASE r = root
          BY <2>1, <3>2, <3>3, <5>1
        <5>2. CASE r # root
          BY <1>9, <1>13, <2>1, <4>1, <5>2
        <5> QED BY <5>1, <5>2
      <4> QED BY <1>13, <4>2, <4>3
    <3>5. RebuildSessionRun(s, e.source, k).store = [s EXCEPT !.runs = runs]
      <4> HIDE DEF s, k, R, root
      <4> QED BY <2>1, <2>3 DEF RebuildSessionRun
    <3> HIDE DEF s, R, S, F, runs
    <3>6. [s EXCEPT !.runs = S.runs] = S
      BY <1>1, <1>2, <1>7, <1>8, <3>1
    <3> QED BY <3>4, <3>5, <3>6
  <2> QED BY <2>2, <2>3
<1> QED BY <1>14

\* One accepted event: the incremental update is the rebuild.
LEMMA InsertMatches ==
    ASSUME NEW E, NEW e, IsFiniteSet(E), e \notin E,
           ~ConflictingLineage(FromSource(E, e.source))
    PROVE  InsertEvent(RebuildAll(E), e).store = RebuildAll(E \cup {e})
<1>1. CASE TopologyChanged(RebuildAll(E), e)
  BY <1>1, RepartitionMatches DEF InsertEvent
<1>2. CASE ~TopologyChanged(RebuildAll(E), e)
  BY <1>2, RebuildSessionRunMatches DEF InsertEvent
<1> QED BY <1>1, <1>2

-----------------------------------------------------------------------------
(* What ingest accepts.                                                    *)

\* The Runs an insertion reports as updated, and how they compare.
LEMMA InsertUpdates ==
    ASSUME NEW E, NEW e, ~ConflictingLineage(FromSource(E, e.source))
    PROVE  LET own   == FromSource(E, e.source)
               grown == FromSource(E \cup {e}, e.source)
               upd   == InsertEvent(RebuildAll(E), e).updated
           IN  /\ \A r \in upd : r \in RunRootsOf(grown) /\ r[1] = e.source
               /\ \A r \in RunRootsOf(grown) \ upd :
                     r \in RunRootsOf(own) /\ GroupOf(own, r) = GroupOf(grown, r)
<1> DEFINE F        == E \cup {e}
           own      == FromSource(E, e.source)
           grown    == FromSource(F, e.source)
           R        == RebuildAll(E)
           s        == WithEvent(R, e)
           upd      == InsertEvent(R, e).updated
<1>1. CASE TopologyChanged(R, e)
  <2> DEFINE p        == BuildPartition(F, e.source)
             affected == AffectedRoots(s, p, e.source, KeyOf(e))
  <2>1. DOMAIN p.groups = RunRootsOf(grown)
    BY DEF BuildPartition, Partition
  <2>2. s.events = F
    BY WithEventFields
  <2>3. upd = affected \cap RunRootsOf(grown)
    <3>1. upd = Repartition(s, e.source, KeyOf(e)).updated
      BY <1>1 DEF InsertEvent
    <3> HIDE DEF s, F, upd
    <3> QED BY <2>1, <2>2, <3>1 DEF Repartition
  <2>4. ASSUME NEW r, r # NoRoot, r \notin affected
        PROVE  (r \in RunRootsOf(own) <=> r \in RunRootsOf(grown))
               /\ GroupOf(own, r) = GroupOf(grown, r)
    BY <2>4, UnaffectedRuns, ZenonT(30)
  <2>5. \A r \in RunRootsOf(grown) : r[1] = e.source /\ r # NoRoot
    BY RunRootsAreSessions, KeySource DEF RunRootsOf
  <2> HIDE DEF own, grown, upd, affected
  <2>6. \A r \in upd : r \in RunRootsOf(grown) /\ r[1] = e.source
    BY <2>3, <2>5
  <2>7. \A r \in RunRootsOf(grown) \ upd :
          r \in RunRootsOf(own) /\ GroupOf(own, r) = GroupOf(grown, r)
    BY <2>3, <2>4, <2>5
  <2> QED BY <2>6, <2>7 DEF own, grown, upd
<1>2. CASE ~TopologyChanged(R, e)
  <2> DEFINE root == RootsOf(own)[KeyOf(e)]
  <2>1. grown = own \cup {e}
    BY OwnSource
  <2>2. /\ KeyOf(e) \in SessionsOf(own) /\ R.roots[KeyOf(e)] = root
        /\ RootsOf(grown) = RootsOf(own) /\ RunRootsOf(grown) = RunRootsOf(own)
    BY <1>2, <2>1, TopologyKept
  <2>3. upd = IF root = NoRoot THEN {} ELSE {root}
    <3>1. s.roots[KeyOf(e)] = root
      BY <2>2, WithEventFields
    <3>2. upd = RebuildSessionRun(s, e.source, KeyOf(e)).updated
      BY <1>2 DEF InsertEvent
    <3> HIDE DEF s, upd, root
    <3>3. CASE root = NoRoot
      BY <3>1, <3>2, <3>3 DEF RebuildSessionRun
    <3>4. CASE root # NoRoot
      BY <3>1, <3>2, <3>4 DEF RebuildSessionRun
    <3> QED BY <3>3, <3>4
  <2>4. root # NoRoot => root \in RunRootsOf(own)
    BY <2>2 DEF RunRootsOf
  <2>5. \A r \in RunRootsOf(grown) : r[1] = e.source /\ r # NoRoot
    BY RunRootsAreSessions, KeySource DEF RunRootsOf
  <2>6. ASSUME NEW r, r # root
        PROVE  GroupOf(own, r) = GroupOf(grown, r)
    <3>1. RootsOf(own \cup {e}) = RootsOf(own)
      BY <2>1, <2>2
    <3> HIDE DEF own, grown
    <3> QED BY <2>1, <2>6, <3>1, GrownGroup
  <2> HIDE DEF own, grown, upd, root
  <2>7. \A r \in upd : r \in RunRootsOf(grown) /\ r[1] = e.source
    BY <2>2, <2>3, <2>4, <2>5
  <2>8. \A r \in RunRootsOf(grown) \ upd :
          r \in RunRootsOf(own) /\ GroupOf(own, r) = GroupOf(grown, r)
    BY <2>2, <2>3, <2>5, <2>6
  <2> QED BY <2>7, <2>8 DEF own, grown, upd
<1> QED BY <1>1, <1>2

\* ingest accepts an event exactly when a rebuild with it succeeds.
LEMMA AcceptedExactly ==
    ASSUME NEW E, NEW e, IsFiniteSet(E), e \notin E, WellFormed(E),
           e.source \in Sources
    PROVE  WellFormed(E \cup {e}) <=>
             /\ Valid(e)
             /\ ~ConflictingDuplicate(RebuildAll(E), e)
             /\ ~ConflictsWithParent(RebuildAll(E), e)
             /\ ~UpdateFails(RebuildAll(E), e)
<1> DEFINE F     == E \cup {e}
           own   == FromSource(E, e.source)
           grown == FromSource(F, e.source)
           R     == RebuildAll(E)
           upd   == InsertEvent(R, e).updated
<1>1. ~ConflictingLineage(own)
  BY DEF WellFormed, SourceLoads, PartitionFails, Fails
<1>2. \A r \in upd : InsertEvent(R, e).store.runs[r] = GroupOf(grown, r)
  <2>1. ASSUME NEW r \in upd
        PROVE  r \in RunIds(F) /\ r[1] = e.source
    <3>1. r \in RunRootsOf(grown) /\ r[1] = e.source
      BY <1>1, InsertUpdates
    <3> QED BY <3>1, RunIdsBySource
  <2>2. InsertEvent(R, e).store = RebuildAll(F)
    BY <1>1, InsertMatches
  <2> QED BY <2>1, <2>2, RebuiltRuns
<1>3. UniqueIds(F) <=> ~ConflictingDuplicate(R, e)
  <2>1. R.events = E
    BY DEF RebuildAll
  <2>2. UniqueIds(E)
    BY DEF WellFormed
  <2> HIDE DEF R
  <2> QED BY <2>1, <2>2 DEF UniqueIds, ConflictingDuplicate
<1>4. \A src \in Sources : src # e.source => (SourceLoads(F, src) <=> SourceLoads(E, src))
  BY OtherSources DEF SourceLoads, PartitionFails
<1>5. WellFormed(F) <=> /\ Valid(e) /\ ~ConflictingDuplicate(R, e)
                       /\ SourceLoads(F, e.source)
  BY <1>3, <1>4 DEF WellFormed
<1>6. ConflictsWithParent(R, e) => Fails(grown)
  <2> SUFFICES ASSUME ConflictsWithParent(R, e) PROVE ConflictingLineage(grown)
    BY DEF Fails
  <2>1. HasParent(e) /\ KeyOf(e) \in ChildrenOf(E) /\ KeyOf(e)[1] = e.source
        /\ ParentsOf(own)[KeyOf(e)] # ParentKey(e)
    <3>1. KeyOf(e)[1] = e.source
      BY KeySource
    <3> QED BY <3>1 DEF ConflictsWithParent, RebuildAll, BuildPartition, Partition
  <2>2. KeyOf(e) \in ChildrenOf(own)
    BY <2>1, KeySource
  <2>3. PICK f \in own : KeyOf(f) = KeyOf(e) /\ HasParent(f)
    BY <2>2 DEF ChildrenOf
  <2>4. ParentKey(f) # ParentKey(e)
    BY <1>1, <2>1, <2>3, ParentAgrees
  <2>5. f \in grown /\ e \in grown
    BY OwnSource
  <2> QED BY <2>1, <2>3, <2>4, <2>5 DEF ConflictingLineage
<1>7. ~TopologyChanged(R, e) => ~Fails(grown)
  <2>1. ~LineageCycle(SessionsOf(own), ParentsOf(own))
    BY DEF WellFormed, SourceLoads, PartitionFails, Fails
  <2>2. grown = own \cup {e}
    BY OwnSource
  <2>3. ASSUME ~TopologyChanged(R, e)
        PROVE  /\ SessionsOf(grown) = SessionsOf(own) /\ ParentsOf(grown) = ParentsOf(own)
               /\ ~ConflictingLineage(grown)
    <3>1. /\ SessionsOf(own \cup {e}) = SessionsOf(own)
          /\ ParentsOf(own \cup {e}) = ParentsOf(own)
          /\ ~ConflictingLineage(own \cup {e})
      BY <1>1, <2>3, TopologyKept
    <3> HIDE DEF own, grown
    <3> QED BY <2>2, <3>1
  <2> QED BY <2>1, <2>3 DEF Fails
<1>8. UpdateFails(R, e) <=> Fails(grown) \/ \E r \in upd : ~Folds(GroupOf(grown, r))
  <2>1. R.events = E
    BY DEF RebuildAll
  <2> HIDE DEF R
  <2>2. UpdateFails(R, e) <=> \/ TopologyChanged(R, e) /\ Fails(grown)
                             \/ \E r \in upd : ~Folds(InsertEvent(R, e).store.runs[r])
    BY <2>1 DEF UpdateFails, PartitionFails
  <2> HIDE DEF upd, grown
  <2> QED BY <1>2, <1>7, <2>2
<1>9. SourceLoads(F, e.source) <=>
        /\ ~Fails(grown)
        /\ \A r \in upd : Folds(GroupOf(grown, r))
  <2>1. \A r \in RunRootsOf(own) : Folds(GroupOf(own, r))
    BY DEF WellFormed, SourceLoads
  <2>2. /\ \A r \in upd : r \in RunRootsOf(grown)
        /\ \A r \in RunRootsOf(grown) \ upd :
              r \in RunRootsOf(own) /\ GroupOf(own, r) = GroupOf(grown, r)
    BY <1>1, InsertUpdates
  <2>3. SourceLoads(F, e.source) <=>
          ~Fails(grown) /\ \A r \in RunRootsOf(grown) : Folds(GroupOf(grown, r))
    BY DEF SourceLoads, PartitionFails
  <2> HIDE DEF upd, grown, own
  <2> QED BY <2>1, <2>2, <2>3
<1> HIDE DEF R, F, upd, grown
<1> QED BY <1>5, <1>6, <1>8, <1>9 DEF F, R

-----------------------------------------------------------------------------
(* delete_session_tree.                                                    *)

\* A session that stays does not name a deleted one as its parent, and every
\* event of a session that stays is kept.
LEMMA TreeClosed ==
    ASSUME NEW E, NEW src, NEW session, \A e \in E : e.session \in Sessions
    PROVE  /\ \A e \in FromSource(E, src) :
                 e \notin TreeEvents(E, src, session)
                   => e.parent \notin SessionTree(E, src, session)
           /\ \A e, f \in FromSource(E, src) :
                 KeyOf(e) = KeyOf(f) =>
                   (e \in TreeEvents(E, src, session) <=> f \in TreeEvents(E, src, session))
<1> DEFINE own  == FromSource(E, src)
           tree == SessionTree(E, src, session)
           Closed(A) == /\ session \in A
                        /\ \A e \in own : e.parent \in A => e.session \in A
<1>1. tree = {s \in Sessions : \A A \in SUBSET Sessions : Closed(A) => s \in A}
  BY DEF SessionTree
<1>2. ASSUME NEW e \in own, e.parent \in tree
      PROVE  e.session \in tree
  <2>1. e.session \in Sessions
    BY DEF FromSource
  <2>2. ASSUME NEW A \in SUBSET Sessions, Closed(A)
        PROVE  e.session \in A
    BY <1>1, <1>2, <2>2
  <2> QED BY <1>1, <2>1, <2>2
<1>3. \A e, f : KeyOf(e) = KeyOf(f) => e.session = f.session
  BY DEF KeyOf
<1> HIDE DEF own, tree
<1>4. \A e \in own : e \in TreeEvents(E, src, session) <=> e.session \in tree
  BY DEF TreeEvents, own, tree
<1>5. \A e \in own : e \notin TreeEvents(E, src, session) => e.parent \notin tree
  BY <1>2, <1>4
<1>6. \A e, f \in own : KeyOf(e) = KeyOf(f) =>
        (e \in TreeEvents(E, src, session) <=> f \in TreeEvents(E, src, session))
  BY <1>3, <1>4
<1> QED BY <1>5, <1>6 DEF own, tree

\* Sources other than the deleted tree's keep all their events.
LEMMA KeptSources ==
    ASSUME NEW E, NEW src, NEW session, NEW x, x # src
    PROVE  FromSource(E \ TreeEvents(E, src, session), x) = FromSource(E, x)
BY DEF FromSource, TreeEvents

\* A walk towards the root that starts in a set of sessions closed under
\* "parent" is the same walk when the other sessions are gone.
LEMMA SameWalk ==
    ASSUME NEW S, NEW P, NEW T, NEW Q, NEW k,
           T \subseteq S, k \in T,
           \A v \in T : v \in DOMAIN Q <=> v \in DOMAIN P,
           \A v \in T : v \in DOMAIN P => Q[v] = P[v],
           \A v \in T : v \in DOMAIN P /\ P[v] \in S => P[v] \in T
    PROVE  ResolveRoot(k, S, P) = ResolveRoot(k, T, Q)
<1> DEFINE Up(A, U, R) == /\ k \in A
                          /\ \A a \in A : (a \in DOMAIN R /\ R[a] \in U) => R[a] \in A
<1>1. \A U, R : Visited(k, U, R) = {v \in U : \A A \in SUBSET U : Up(A, U, R) => v \in A}
  BY DEF Visited
<1>2. ASSUME NEW v \in Visited(k, S, P)
      PROVE  v \in Visited(k, T, Q)
  <2>1. v \in S /\ \A A \in SUBSET S : Up(A, S, P) => v \in A
    BY <1>1
  <2>2. v \in T
    <3>1. T \in SUBSET S /\ Up(T, S, P)
      OBVIOUS
    <3> QED BY <2>1, <3>1
  <2>3. ASSUME NEW A \in SUBSET T, Up(A, T, Q)
        PROVE  v \in A
    <3>1. A \in SUBSET S /\ Up(A, S, P)
      BY <2>3
    <3> HIDE DEF Up
    <3> QED BY <2>1, <3>1
  <2> QED BY <1>1, <2>2, <2>3
<1>3. ASSUME NEW v \in Visited(k, T, Q)
      PROVE  v \in Visited(k, S, P)
  <2>1. v \in T /\ \A A \in SUBSET T : Up(A, T, Q) => v \in A
    BY <1>1
  <2>2. ASSUME NEW A \in SUBSET S, Up(A, S, P)
        PROVE  v \in A
    <3>1. A \cap T \in SUBSET T /\ Up(A \cap T, T, Q)
      BY <2>2
    <3> HIDE DEF Up
    <3> QED BY <2>1, <3>1
  <2> QED BY <1>1, <2>1, <2>2
<1>4. Visited(k, S, P) = Visited(k, T, Q)
  BY <1>2, <1>3
<1>5. Visited(k, T, Q) \subseteq T
  BY DEF Visited
<1> DEFINE ends == {v \in Visited(k, S, P) : v \notin DOMAIN P}
           left == {v \in Visited(k, T, Q) : v \notin DOMAIN Q}
<1>6. ends = left
  BY <1>4, <1>5
<1>7. /\ ResolveRoot(k, S, P) = IF ends = {} THEN NoRoot ELSE CHOOSE r \in ends : TRUE
      /\ ResolveRoot(k, T, Q) = IF left = {} THEN NoRoot ELSE CHOOSE r \in left : TRUE
  BY DEF ResolveRoot
<1> HIDE DEF ends, left
<1> QED BY <1>6, <1>7

\* What is left of the source after a delete has the lineage and the roots it
\* had before.
LEMMA LineageLeft ==
    ASSUME NEW E, NEW src, NEW session, \A e \in E : e \in Event,
           ~Fails(FromSource(E, src))
    PROVE  LET own  == FromSource(E, src)
               kept == FromSource(E \ TreeEvents(E, src, session), src)
           IN  /\ kept \subseteq own
               /\ ~Fails(kept)
               /\ SessionsOf(kept) \subseteq SessionsOf(own)
               /\ \A k \in SessionsOf(kept) : RootsOf(kept)[k] = RootsOf(own)[k]
<1> DEFINE own  == FromSource(E, src)
           tree == TreeEvents(E, src, session)
           kept == FromSource(E \ tree, src)
           S == SessionsOf(own)
           T == SessionsOf(kept)
           P == ParentsOf(own)
           Q == ParentsOf(kept)
<1>0. \A e \in E : e.session \in Sessions
  BY DEF Event
<1>1. kept = own \ tree
  BY DEF FromSource
<1>2. T \subseteq S
  BY <1>1 DEF SessionsOf
<1>3. ~ConflictingLineage(own) /\ ~ConflictingLineage(kept)
  BY <1>1 DEF Fails, ConflictingLineage
<1>4. \A G : DOMAIN ParentsOf(G) = ChildrenOf(G) /\ ChildrenOf(G) \subseteq SessionsOf(G)
  BY DEF ParentsOf, ChildrenOf, SessionsOf
<1>5. ASSUME NEW f \in own, KeyOf(f) \in T
      PROVE  f \in kept
  <2>1. PICK g \in kept : KeyOf(g) = KeyOf(f)
    BY <1>5 DEF SessionsOf
  <2> HIDE DEF own, tree, kept
  <2>2. g \in own /\ g \notin tree
    BY <1>1
  <2> QED BY <1>0, <1>1, <2>1, <2>2, TreeClosed DEF own, tree
<1>6. ASSUME NEW v \in T
      PROVE  v \in DOMAIN Q <=> v \in DOMAIN P
  <2>1. v \in ChildrenOf(kept) <=> v \in ChildrenOf(own)
    BY <1>1, <1>5, <1>6 DEF ChildrenOf
  <2> QED BY <1>4, <2>1
<1>7. ASSUME NEW v \in DOMAIN Q
      PROVE  v \in DOMAIN P /\ Q[v] = P[v]
  <2>1. PICK f \in kept : KeyOf(f) = v /\ HasParent(f)
    BY <1>4 DEF ChildrenOf
  <2>2. Q[v] = ParentKey(f)
    BY <1>3, <2>1, ParentAgrees
  <2>3. f \in own
    BY <1>1
  <2>4. P[v] = ParentKey(f) /\ v \in ChildrenOf(own)
    BY <1>3, <2>1, <2>3, ParentAgrees
  <2> QED BY <1>4, <2>2, <2>4
<1>8. ASSUME NEW v \in T, v \in DOMAIN P, P[v] \in S
      PROVE  P[v] \in T
  <2>1. v \in DOMAIN Q
    BY <1>6, <1>8
  <2>2. PICK f \in kept : KeyOf(f) = v /\ HasParent(f)
    BY <1>4, <2>1 DEF ChildrenOf
  <2>3. f \in own /\ f \notin tree
    BY <1>1
  <2>4. P[v] = ParentKey(f)
    BY <1>3, <2>2, <2>3, ParentAgrees
  <2>5. PICK g \in own : KeyOf(g) = ParentKey(f)
    BY <1>8, <2>4 DEF SessionsOf
  <2>6. g.session = f.parent
    BY <2>5 DEF KeyOf, ParentKey
  <2>7. f.parent \notin SessionTree(E, src, session)
    BY <1>0, <2>3, TreeClosed
  <2>8. g \notin tree
    BY <2>6, <2>7 DEF TreeEvents
  <2> QED BY <1>1, <2>4, <2>5, <2>8 DEF SessionsOf
<1>9. ~LineageCycle(T, Q)
  <2> SUFFICES ASSUME NEW C \in SUBSET T, C # {},
                      \A k \in C : k \in DOMAIN Q /\ Q[k] \in C
               PROVE  LineageCycle(S, P)
    BY DEF Fails, LineageCycle
  <2>1. \A k \in C : k \in DOMAIN P /\ P[k] \in C
    BY <1>7
  <2>2. C \in SUBSET S
    BY <1>2
  <2> HIDE DEF S, P
  <2> QED BY <2>1, <2>2 DEF LineageCycle
<1>10. ASSUME NEW k \in T
       PROVE  RootsOf(kept)[k] = RootsOf(own)[k]
  <2>1. RootsOf(kept)[k] = ResolveRoot(k, T, Q) /\ RootsOf(own)[k] = ResolveRoot(k, S, P)
    BY <1>2 DEF RootsOf
  <2>2. ResolveRoot(k, S, P) = ResolveRoot(k, T, Q)
    <3> HIDE DEF S, T, P, Q
    <3>1. \A v \in T : v \in DOMAIN P => Q[v] = P[v]
      BY <1>6, <1>7
    <3> QED BY <1>2, <1>6, <1>8, <3>1, SameWalk
  <2> QED BY <2>1, <2>2
<1> QED BY <1>1, <1>2, <1>3, <1>9, <1>10 DEF Fails

\* One source's Runs are replaced by the ones of its new partition.
LEMMA ReplacedRuns ==
    ASSUME NEW E, NEW F, NEW src,
           \A x : x # src => FromSource(F, x) = FromSource(E, x)
    PROVE  ReplaceSource(RebuildAll(E).runs, src, BuildPartition(F, src).groups)
             = RebuildAll(F).runs
<1> DEFINE f == RebuildAll(E).runs
           g == BuildPartition(F, src).groups
           h == RebuildAll(F).runs
<1>1. g = [r \in RunRootsOf(FromSource(F, src)) |-> GroupOf(FromSource(F, src), r)]
  BY DEF BuildPartition, Partition
<1>2. \A r \in DOMAIN g : r \in RunIds(F) /\ r[1] = src
  <2>1. \A r \in DOMAIN g : r[1] = src
    BY <1>1, RunRootsAreSessions, KeySource
  <2> QED BY <1>1, <2>1, RunIdsBySource
<1>3. \A r : r[1] = src => (r \in DOMAIN g <=> r \in RunIds(F))
  BY <1>1, <1>2, RunIdsBySource
<1>4. \A r : r[1] # src => (r \in RunIds(E) <=> r \in RunIds(F))
  BY RunIdsBySource
<1>5. (DOMAIN f \ OfSource(f, src)) \cup DOMAIN g = RunIds(F)
  <2>1. DOMAIN f = RunIds(E)
    BY RebuiltRuns
  <2> HIDE DEF f, g
  <2> QED BY <1>2, <1>3, <1>4, <2>1 DEF OfSource
<1>6. ASSUME NEW r \in RunIds(F)
      PROVE  (IF r \in DOMAIN g THEN g[r] ELSE f[r]) = h[r]
  <2>1. h[r] = GroupOf(FromSource(F, r[1]), r)
    BY RebuiltRuns
  <2>2. CASE r \in DOMAIN g
    BY <1>1, <1>2, <2>1, <2>2
  <2>3. CASE r \notin DOMAIN g
    <3>1. r[1] # src /\ r \in RunIds(E)
      BY <1>3, <1>4, <2>3
    <3>2. f[r] = GroupOf(FromSource(E, r[1]), r)
      BY <3>1, RebuiltRuns
    <3> QED BY <2>1, <2>3, <3>1, <3>2
  <2> QED BY <2>2, <2>3
<1>7. h = [r \in RunIds(F) |-> h[r]]
  BY RebuiltRuns
<1> HIDE DEF f, g, h
<1>8. ReplaceSource(f, src, g) = [r \in RunIds(F) |-> h[r]]
  BY <1>5, <1>6 DEF ReplaceSource
<1> QED BY <1>7, <1>8 DEF f, g, h

\* delete_session_tree turns the rebuilt store into the rebuilt store of the
\* events that are left.
LEMMA DeleteMatches ==
    ASSUME NEW E, NEW src, NEW session, IsFiniteSet(E)
    PROVE  /\ DeleteTree(RebuildAll(E), src, session).store
                = RebuildAll(E \ TreeEvents(E, src, session))
           /\ DeleteTree(RebuildAll(E), src, session).updated
                = {r \in RunIds(E \ TreeEvents(E, src, session)) : r[1] = src}
<1> DEFINE R    == RebuildAll(E)
           F    == E \ TreeEvents(E, src, session)
           S    == RebuildAll(F)
           p    == BuildPartition(F, src)
           kept == FromSource(F, src)
           pending == IF DOMAIN p.groups = {} /\ p.pending = 0
                      THEN [x \in DOMAIN R.pending \ {src} |-> R.pending[x]]
                      ELSE SetPending(R.pending, src, p.pending)
<1>1. \A x : x # src => FromSource(F, x) = FromSource(E, x)
  BY KeptSources
<1>2. DeleteTree(R, src, session) =
        [store |-> [events  |-> F,
                    parents |-> ReplaceSource(R.parents, src, p.parents),
                    roots   |-> ReplaceSource(R.roots, src, p.roots),
                    runs    |-> ReplaceSource(R.runs, src, p.groups),
                    pending |-> pending],
         updated |-> DOMAIN p.groups]
  <2>1. R.events = E
    BY DEF RebuildAll
  <2> HIDE DEF R
  <2> QED BY <2>1 DEF DeleteTree
<1>3. ReplaceSource(R.parents, src, p.parents) = S.parents
  BY <1>1, ReplacedParents
<1>4. ReplaceSource(R.roots, src, p.roots) = S.roots
  BY <1>1, ReplacedRoots
<1>5. ReplaceSource(R.runs, src, p.groups) = S.runs
  BY <1>1, ReplacedRuns
<1>6. DOMAIN p.groups = RunRootsOf(kept) /\ p.pending = Cardinality(GroupOf(kept, NoRoot))
  BY DEF BuildPartition, Partition
<1>7. src \in SourcesOf(F) <=> kept # {}
  BY DEF SourcesOf, FromSource
<1>8. RunRootsOf(kept) = {} /\ p.pending = 0 <=> kept = {}
  <2>1. IsFiniteSet(GroupOf(kept, NoRoot))
    <3>1. GroupOf(kept, NoRoot) \subseteq E
      BY DEF GroupOf, FromSource
    <3> QED BY <3>1, FS_Subset
  <2>2. p.pending = 0 <=> GroupOf(kept, NoRoot) = {}
    BY <1>6, <2>1, FS_EmptySet
  <2>3. ASSUME NEW e \in kept
        PROVE  RunRootsOf(kept) # {} \/ GroupOf(kept, NoRoot) # {}
    <3>1. KeyOf(e) \in SessionsOf(kept)
      BY DEF SessionsOf
    <3>2. CASE RootsOf(kept)[KeyOf(e)] = NoRoot
      BY <3>2 DEF GroupOf
    <3>3. CASE RootsOf(kept)[KeyOf(e)] # NoRoot
      BY <3>1, <3>3 DEF RunRootsOf
    <3> QED BY <3>2, <3>3
  <2>4. kept = {} => RunRootsOf(kept) = {} /\ GroupOf(kept, NoRoot) = {}
    BY DEF RunRootsOf, GroupOf, SessionsOf
  <2> HIDE DEF kept, p
  <2> QED BY <2>2, <2>3, <2>4
<1>9. pending = S.pending
  <2>1. /\ R.pending = [x \in SourcesOf(E) |-> BuildPartition(E, x).pending]
        /\ S.pending = [x \in SourcesOf(F) |-> BuildPartition(F, x).pending]
    BY DEF RebuildAll
  <2>2. \A x : x # src => BuildPartition(F, x) = BuildPartition(E, x)
    BY <1>1 DEF BuildPartition
  <2>3. \A x : x # src => (x \in SourcesOf(F) <=> x \in SourcesOf(E))
    <3>1. \A G, x : x \in SourcesOf(G) <=> FromSource(G, x) # {}
      BY DEF SourcesOf, FromSource
    <3> QED BY <1>1, <3>1
  <2>4. CASE kept = {}
    <3>1. pending = [x \in DOMAIN R.pending \ {src} |-> R.pending[x]]
      BY <1>6, <1>8, <2>4
    <3>2. src \notin SourcesOf(F)
      BY <1>7, <2>4
    <3> HIDE DEF pending, R, S, F
    <3> QED BY <2>1, <2>2, <2>3, <3>1, <3>2
  <2>5. CASE kept # {}
    <3>1. pending = SetPending(R.pending, src, BuildPartition(F, src).pending)
      BY <1>6, <1>8, <2>5
    <3>2. src \in SourcesOf(F)
      BY <1>7, <2>5
    <3> HIDE DEF pending, R, S, F
    <3> QED BY <2>1, <2>2, <2>3, <3>1, <3>2 DEF SetPending
  <2> QED BY <2>4, <2>5
<1>10. S = [events |-> F, parents |-> S.parents, roots |-> S.roots, runs |-> S.runs,
            pending |-> S.pending]
  BY DEF RebuildAll
<1>11. DOMAIN p.groups = {r \in RunIds(F) : r[1] = src}
  <2>1. \A r \in RunRootsOf(kept) : r[1] = src
    BY RunRootsAreSessions, KeySource
  <2> QED BY <1>6, <2>1, RunIdsBySource
<1> HIDE DEF R, S, F, p, pending
<1> QED BY <1>2, <1>3, <1>4, <1>5, <1>9, <1>10, <1>11 DEF R, F, S

\* What is left after a delete can be loaded.
LEMMA DeleteKeepsWellFormed ==
    ASSUME NEW E, NEW src, NEW session, E \subseteq Event, WellFormed(E)
    PROVE  WellFormed(E \ TreeEvents(E, src, session))
<1> DEFINE F    == E \ TreeEvents(E, src, session)
           own  == FromSource(E, src)
           kept == FromSource(F, src)
<1>1. (\A e \in F : Valid(e)) /\ UniqueIds(F)
  BY DEF WellFormed, UniqueIds
<1>2. ASSUME NEW x \in Sources
      PROVE  SourceLoads(F, x)
  <2>1. SourceLoads(E, x)
    BY DEF WellFormed
  <2>2. CASE x # src
    BY <2>1, <2>2, KeptSources DEF SourceLoads, PartitionFails
  <2>3. CASE x = src
    <3>1. ~Fails(own) /\ \A r \in RunRootsOf(own) : Folds(GroupOf(own, r))
      BY <2>1, <2>3 DEF SourceLoads, PartitionFails
    <3>2. /\ kept \subseteq own
          /\ ~Fails(kept)
          /\ SessionsOf(kept) \subseteq SessionsOf(own)
          /\ \A k \in SessionsOf(kept) : RootsOf(kept)[k] = RootsOf(own)[k]
      BY <3>1, LineageLeft
    <3> HIDE DEF own, kept
    <3>3. ASSUME NEW r \in RunRootsOf(kept)
          PROVE  r \in RunRootsOf(own) /\ GroupOf(kept, r) \subseteq GroupOf(own, r)
      <4>1. r \in RunRootsOf(own)
        BY <3>2 DEF RunRootsOf
      <4>2. \A e \in kept : KeyOf(e) \in SessionsOf(kept)
        BY DEF SessionsOf
      <4> QED BY <3>2, <4>1, <4>2 DEF GroupOf
    <3>4. \A r \in RunRootsOf(kept) : Folds(GroupOf(kept, r))
      BY <3>1, <3>3 DEF Folds
    <3> QED BY <2>3, <3>2, <3>4 DEF SourceLoads, PartitionFails, kept
  <2> QED BY <2>2, <2>3
<1> QED BY <1>1, <1>2 DEF WellFormed

-----------------------------------------------------------------------------
(* What an update reports.                                                 *)

\* ingest reports Runs of the new catalog, and every one that is new or changed.
LEMMA InsertedRuns ==
    ASSUME NEW E, NEW e, ~ConflictingLineage(FromSource(E, e.source))
    PROVE  LET F   == E \cup {e}
               upd == InsertEvent(RebuildAll(E), e).updated
           IN  /\ upd \subseteq RunIds(F)
               /\ \A r \in RunIds(F) \ upd :
                     r \in RunIds(E) /\ RebuildAll(F).runs[r] = RebuildAll(E).runs[r]
<1> DEFINE F     == E \cup {e}
           upd   == InsertEvent(RebuildAll(E), e).updated
           own   == FromSource(E, e.source)
           grown == FromSource(F, e.source)
<1>1. /\ \A r \in upd : r \in RunRootsOf(grown) /\ r[1] = e.source
      /\ \A r \in RunRootsOf(grown) \ upd :
            r \in RunRootsOf(own) /\ GroupOf(own, r) = GroupOf(grown, r)
  BY InsertUpdates
<1>2. upd \subseteq RunIds(F)
  BY <1>1, RunIdsBySource
<1>3. ASSUME NEW r \in RunIds(F) \ upd
      PROVE  r \in RunIds(E) /\ RebuildAll(F).runs[r] = RebuildAll(E).runs[r]
  <2>1. r \in RunRootsOf(FromSource(F, r[1]))
    BY RunIdsBySource
  <2>2. r \in RunRootsOf(FromSource(E, r[1]))
        /\ GroupOf(FromSource(E, r[1]), r) = GroupOf(FromSource(F, r[1]), r)
    <3>1. CASE r[1] = e.source
      BY <1>1, <2>1, <3>1
    <3>2. CASE r[1] # e.source
      BY <2>1, <3>2, OtherSources
    <3> QED BY <3>1, <3>2
  <2>3. r \in RunIds(E)
    BY <2>2, RunIdsBySource
  <2> HIDE DEF F, upd
  <2>4. RebuildAll(F).runs[r] = GroupOf(FromSource(F, r[1]), r)
        /\ RebuildAll(E).runs[r] = GroupOf(FromSource(E, r[1]), r)
    BY <2>3, RebuiltRuns
  <2> QED BY <2>2, <2>3, <2>4
<1> QED BY <1>2, <1>3

\* A delete reports the source's Runs that are left; the removed ones and those
\* of other sources are as they were.
LEMMA DeletedRuns ==
    ASSUME NEW E, NEW src, NEW session, IsFiniteSet(E)
    PROVE  LET F == E \ TreeEvents(E, src, session)
               d == DeleteTree(RebuildAll(E), src, session)
           IN  /\ d.store = RebuildAll(F)
               /\ d.updated \subseteq {r \in RunIds(F) : r[1] = src}
               /\ OfSource(RebuildAll(E).runs, src) \ d.updated = RunIds(E) \ RunIds(F)
               /\ \A r \in RunIds(F) \ d.updated :
                     r \in RunIds(E) /\ RebuildAll(F).runs[r] = RebuildAll(E).runs[r]
<1> DEFINE F == E \ TreeEvents(E, src, session)
           d == DeleteTree(RebuildAll(E), src, session)
<1>1. d.store = RebuildAll(F) /\ d.updated = {r \in RunIds(F) : r[1] = src}
  BY DeleteMatches
<1>2. \A r : r[1] # src => (r \in RunIds(E) <=> r \in RunIds(F))
  BY KeptSources, RunIdsBySource
<1>3. OfSource(RebuildAll(E).runs, src) \ d.updated = RunIds(E) \ RunIds(F)
  BY <1>1, <1>2, RebuiltRuns DEF OfSource
<1>4. ASSUME NEW r \in RunIds(F) \ d.updated
      PROVE  r \in RunIds(E) /\ RebuildAll(F).runs[r] = RebuildAll(E).runs[r]
  <2>1. r[1] # src /\ r \in RunIds(E)
    BY <1>1, <1>2
  <2>2. FromSource(E, r[1]) = FromSource(F, r[1])
    BY <2>1, KeptSources
  <2>3. RebuildAll(F).runs[r] = GroupOf(FromSource(F, r[1]), r)
        /\ RebuildAll(E).runs[r] = GroupOf(FromSource(E, r[1]), r)
    <3> HIDE DEF F
    <3> QED BY <2>1, RebuiltRuns
  <2> HIDE DEF F, d
  <2> QED BY <2>1, <2>2, <2>3
<1> QED BY <1>1, <1>3, <1>4

\* Without events there is nothing that fails to load.
LEMMA EmptyWellFormed == WellFormed({})
<1>1. \A src : FromSource({}, src) = {}
  BY DEF FromSource
<1>2. SessionsOf({}) = {} /\ RunRootsOf({}) = {}
  BY DEF SessionsOf, RunRootsOf
<1>3. ~Fails({})
  BY <1>2 DEF Fails, ConflictingLineage, LineageCycle
<1> QED BY <1>1, <1>2, <1>3 DEF WellFormed, UniqueIds, SourceLoads, PartitionFails

-----------------------------------------------------------------------------
(* How a Run grows.                                                        *)

\* The walk from a session comes to no more than one session without parent.
LEMMA OneEnd ==
    ASSUME NEW S, NEW P, NEW k \in S, NEW r, r \in Visited(k, S, P), r \notin DOMAIN P
    PROVE  {v \in Visited(k, S, P) : v \notin DOMAIN P} = {r}
<1> DEFINE Up(A, j) == /\ j \in A
                       /\ \A a \in A : (a \in DOMAIN P /\ P[a] \in S) => P[a] \in A
           below == {v \in S : r \in Visited(v, S, P)}
<1>1. \A j : Visited(j, S, P) = {v \in S : \A A \in SUBSET S : Up(A, j) => v \in A}
  BY DEF Visited
<1>2. ASSUME NEW a \in below, a \in DOMAIN P, P[a] \in S
      PROVE  P[a] \in below
  <2>1. r \in S /\ \A A \in SUBSET S : Up(A, a) => r \in A
    BY <1>1, <1>2
  <2>2. ASSUME NEW A \in SUBSET S, Up(A, P[a])
        PROVE  r \in A
    <3>1. A \cup {a} \in SUBSET S /\ Up(A \cup {a}, a)
      BY <1>2, <2>2
    <3>2. r \in A \cup {a} /\ r # a
      <4> HIDE DEF Up
      <4> QED BY <1>2, <2>1, <3>1
    <3> QED BY <3>2
  <2> QED BY <1>1, <1>2, <2>1, <2>2
<1>3. below \in SUBSET S /\ Up(below, k)
  BY <1>2
<1>4. Visited(k, S, P) \subseteq below
  <2> HIDE DEF below, Up
  <2> QED BY <1>1, <1>3
<1>5. ASSUME NEW v \in Visited(k, S, P), v \notin DOMAIN P
      PROVE  v = r
  <2>1. v \in S /\ r \in Visited(v, S, P)
    BY <1>4, <1>5
  <2>2. {v} \in SUBSET S /\ Up({v}, v)
    BY <1>5, <2>1
  <2> HIDE DEF Up
  <2> QED BY <1>1, <2>1, <2>2
<1> QED BY <1>5

\* A walk stays a walk when sessions and links are added.
LEMMA LongerWalk ==
    ASSUME NEW S, NEW P, NEW T, NEW Q, NEW k \in S, S \subseteq T,
           \A v \in DOMAIN P : v \in DOMAIN Q /\ Q[v] = P[v]
    PROVE  Visited(k, S, P) \subseteq Visited(k, T, Q)
<1> DEFINE Up(A, U, R) == /\ k \in A
                          /\ \A a \in A : (a \in DOMAIN R /\ R[a] \in U) => R[a] \in A
<1>1. \A U, R : Visited(k, U, R) = {v \in U : \A A \in SUBSET U : Up(A, U, R) => v \in A}
  BY DEF Visited
<1>2. ASSUME NEW v \in Visited(k, S, P), NEW A \in SUBSET T, Up(A, T, Q)
      PROVE  v \in A
  <2>1. A \cap S \in SUBSET S /\ Up(A \cap S, S, P)
    BY <1>2
  <2>2. \A B \in SUBSET S : Up(B, S, P) => v \in B
    BY <1>1
  <2> HIDE DEF Up
  <2> QED BY <2>1, <2>2
<1> QED BY <1>1, <1>2

\* A root is a session of its source that names no parent, and its Run has the
\* sessions that lead to it.
LEMMA RunRootEnds ==
    ASSUME NEW own, NEW k \in SessionsOf(own), NEW r, r # NoRoot
    PROVE  RootsOf(own)[k] = r
             <=> r \in Visited(k, SessionsOf(own), ParentsOf(own)) /\ r \notin DOMAIN ParentsOf(own)
<1> DEFINE S    == SessionsOf(own)
           P    == ParentsOf(own)
           ends == {v \in Visited(k, S, P) : v \notin DOMAIN P}
<1>1. RootsOf(own)[k] = IF ends = {} THEN NoRoot ELSE CHOOSE v \in ends : TRUE
  BY DEF RootsOf, ResolveRoot
<1>2. RootsOf(own)[k] = r => r \in ends
  <2> HIDE DEF ends
  <2> QED BY <1>1
<1>3. ASSUME r \in ends PROVE RootsOf(own)[k] = r
  <2>1. ends = {r}
    <3>1. r \in Visited(k, S, P) /\ r \notin DOMAIN P
      BY <1>3
    <3> HIDE DEF S, P
    <3> QED BY <3>1, OneEnd DEF S
  <2> HIDE DEF ends
  <2> QED BY <1>1, <2>1
<1> QED BY <1>2, <1>3

\* An event that joins no Run it was offered to leaves it larger, or as it was.
LEMMA GrownRun ==
    ASSUME NEW E, NEW e, ~ConflictingLineage(FromSource(E \cup {e}, e.source)),
           NEW r, r \in RunIds(E), r \in RunIds(E \cup {e})
    PROVE  RebuildAll(E).runs[r] \subseteq RebuildAll(E \cup {e}).runs[r]
<1> DEFINE F == E \cup {e}
           own   == FromSource(E, r[1])
           grown == FromSource(F, r[1])
           S == SessionsOf(own)
           T == SessionsOf(grown)
           P == ParentsOf(own)
           Q == ParentsOf(grown)
<1>1. RebuildAll(E).runs[r] = GroupOf(own, r) /\ RebuildAll(F).runs[r] = GroupOf(grown, r)
  BY RebuiltRuns
<1>2. CASE r[1] # e.source
  BY <1>1, <1>2, OtherSources
<1>3. CASE r[1] = e.source
  <2>1. own \subseteq grown /\ ~ConflictingLineage(grown)
    BY <1>3 DEF FromSource
  <2>2. r \in RunRootsOf(grown) /\ r # NoRoot
    BY RunIdsBySource DEF RunRootsOf
  <2>3. PICK j \in SessionsOf(grown) : RootsOf(grown)[j] = r
    BY <2>2 DEF RunRootsOf
  <2> HIDE DEF own, grown
  <2>4. S \subseteq T
    BY <2>1 DEF SessionsOf
  <2>5. ASSUME NEW v \in DOMAIN P PROVE v \in DOMAIN Q /\ Q[v] = P[v]
    <3>1. ~ConflictingLineage(own)
      BY <2>1 DEF ConflictingLineage
    <3>2. PICK f \in own : KeyOf(f) = v /\ HasParent(f)
      BY DEF ParentsOf, ChildrenOf
    <3>3. P[v] = ParentKey(f)
      BY <3>1, <3>2, ParentAgrees
    <3>4. v \in ChildrenOf(grown) /\ Q[v] = ParentKey(f)
      BY <2>1, <3>2, ParentAgrees
    <3> QED BY <3>3, <3>4 DEF ParentsOf
  <2>6. r \notin DOMAIN Q
    BY <2>2, <2>3, RunRootEnds
  <2>7. ASSUME NEW f \in GroupOf(own, r) PROVE f \in GroupOf(grown, r)
    <3>1. f \in own /\ KeyOf(f) \in S /\ RootsOf(own)[KeyOf(f)] = r
      BY DEF GroupOf, SessionsOf
    <3>2. r \in Visited(KeyOf(f), S, P)
      BY <2>2, <3>1, RunRootEnds
    <3>3. Visited(KeyOf(f), S, P) \subseteq Visited(KeyOf(f), T, Q)
      <4> HIDE DEF S, T, P, Q
      <4> QED BY <2>4, <2>5, <3>1, LongerWalk
    <3>4. f \in grown /\ KeyOf(f) \in T
      BY <2>1, <2>4, <3>1
    <3>5. RootsOf(grown)[KeyOf(f)] = r
      BY <2>2, <2>6, <3>2, <3>3, <3>4, RunRootEnds
    <3> QED BY <3>4, <3>5 DEF GroupOf
  <2> QED BY <1>1, <2>7
<1> QED BY <1>2, <1>3
=============================================================================
