-------------------------- MODULE MaintenanceProofs ---------------------------
(***************************************************************************)
(* The database across servers and commands: proofs about Maintenance for  *)
(* every set of events and policies and any number of starts, crashes and  *)
(* commands.                                                               *)
(*                                                                         *)
(* The invariant has a part for each thing a start must repair or may      *)
(* trust: what the database shows under the policy of its last scrub, what *)
(* its checkpoint was folded from, what the process holds, when the mirror *)
(* equals the database, that the mirror never has less lineage, and which  *)
(* of the deltas on disk the running server wrote itself.                  *)
(***************************************************************************)
EXTENDS Maintenance, IngestLemmas

-----------------------------------------------------------------------------
(* Events and the filter.                                                  *)

IsEvent(e) ==
    /\ e = [id |-> e.id, source |-> e.source, session |-> e.session,
            parent |-> e.parent, content |-> e.content]
    /\ e.source \in Sources /\ e.session \in Sessions
    /\ e.content.at \in Nat

EventSet(E) == IsFiniteSet(E) /\ \A e \in E : IsEvent(e)

\* The filter changes nothing of an event but what its content shows.
LEMMA SanitizedEvent ==
  ASSUME NEW p, NEW e, IsEvent(e)
  PROVE  /\ IsEvent(Sanitize(p, e))
         /\ KeyOf(Sanitize(p, e)) = KeyOf(e) /\ Sanitize(p, e).parent = e.parent
         /\ Sanitize(p, e).content = SanitizedContent(p, e.content)
<1> DEFINE c == SanitizedContent(p, e.content)
           s == [id |-> e.id, source |-> e.source, session |-> e.session,
                 parent |-> e.parent, content |-> c]
<1>1. c.at \in Nat
  BY DEF SanitizedContent, IsEvent
<1>2. Sanitize(p, e) = [e EXCEPT !.content = c]
  BY DEF Sanitize
<1> HIDE DEF c
<1>3. Sanitize(p, e) = s
  BY <1>2 DEF IsEvent
<1> QED BY <1>1, <1>3 DEF IsEvent, KeyOf, c

LEMMA FilteredContent ==
  ASSUME NEW p, NEW c
  PROVE  /\ SanitizedContent(p, c).data = SanitizedData(p, c)
         /\ SanitizedContent(p, c).mode = ModeOf(p, c)
         /\ SanitizedContent(p, c).ref = IF ModeOf(p, c) = "metadata-only" /\ c.ref # None
                                        THEN "omitted" ELSE c.ref
BY DEF SanitizedContent

\* What the filter lets through, it lets through again.
LEMMA SanitizedIsClean ==
  ASSUME NEW p, NEW e, IsEvent(e)
  PROVE  Clean(p, Sanitize(p, e))
<1> DEFINE c == e.content
           d == SanitizedContent(p, c)
<1>1. /\ d.data = SanitizedData(p, c) /\ d.mode = ModeOf(p, c)
      /\ d.ref = IF ModeOf(p, c) = "metadata-only" /\ c.ref # None THEN "omitted" ELSE c.ref
  BY FilteredContent
<1> HIDE DEF d, c
<1>2. ModeOf(p, d) = ModeOf(p, c)
  BY <1>1 DEF ModeOf
<1>3. DOMAIN d.data = DOMAIN c.data
  BY <1>1 DEF SanitizedData
<1>4. ASSUME NEW k \in DOMAIN c.data
      PROVE  (IF Redacts(p, d, k) THEN "redacted"
              ELSE IF Omits(p, d, k) THEN "omitted" ELSE d.data[k]) = d.data[k]
  <2>1. Omits(p, d, k) <=> Omits(p, c, k)
    BY <1>2 DEF Omits
  <2>2. d.data[k] = IF Redacts(p, c, k) THEN "redacted"
                    ELSE IF Omits(p, c, k) THEN "omitted" ELSE c.data[k]
    BY <1>1, <1>4 DEF SanitizedData
  <2> QED BY <2>1, <2>2 DEF Redacts
<1>5. SanitizedData(p, d) = d.data
  <2>1. SanitizedData(p, d) = [k \in DOMAIN c.data |-> d.data[k]]
    BY <1>3, <1>4 DEF SanitizedData
  <2>2. d.data = [k \in DOMAIN c.data |-> d.data[k]]
    BY <1>1 DEF SanitizedData
  <2> QED BY <2>1, <2>2
<1>6. ModeOf(p, d) = "metadata-only" => d.ref \in {None, "omitted"}
  BY <1>1, <1>2
<1>7. Sanitize(p, e).content = d
  BY SanitizedEvent DEF d, c
<1> QED BY <1>5, <1>6, <1>7 DEF Clean

-----------------------------------------------------------------------------
(* Sets of events, their sessions and their links.                         *)

Links(E) == {<<KeyOf(e), ParentKey(e)>> : e \in {f \in E : HasParent(f)}}

\* Links along which some walk never ends.
Circular(L) == \E C \in SUBSET {l[1] : l \in L} :
                  C # {} /\ \A k \in C : \E j \in C : <<k, j>> \in L

LEMMA SanitizedSet ==
  ASSUME NEW p, NEW E, EventSet(E)
  PROVE  LET F == {Sanitize(p, e) : e \in E}
         IN  /\ EventSet(F) /\ \A e \in F : Clean(p, e)
             /\ Links(F) = Links(E) /\ SessionsOf(F) = SessionsOf(E)
<1> DEFINE F == {Sanitize(p, e) : e \in E}
<1>1. \A e \in E : IsEvent(e)
  BY DEF EventSet
<1>2. /\ \A e \in E : Sanitize(p, e) \in F
      /\ \A f \in F : \E e \in E : f = Sanitize(p, e)
  OBVIOUS
<1>3. IsFiniteSet(F)
  <2> DEFINE f == [e \in E |-> Sanitize(p, e)]
  <2>1. f \in Surjection(E, F)
    BY DEF Surjection
  <2> HIDE DEF f, F
  <2> QED BY <2>1, FS_Surjection DEF ExistsSurjection, EventSet
<1>4. \A e \in E : /\ KeyOf(Sanitize(p, e)) = KeyOf(e)
                   /\ HasParent(Sanitize(p, e)) <=> HasParent(e)
                   /\ HasParent(e) => ParentKey(Sanitize(p, e)) = ParentKey(e)
  <2> TAKE e \in E
  <2>1. KeyOf(Sanitize(p, e)) = KeyOf(e) /\ Sanitize(p, e).parent = e.parent
    BY <1>1, SanitizedEvent
  <2>2. Sanitize(p, e).source = e.source
    BY <2>1 DEF KeyOf
  <2> QED BY <2>1, <2>2 DEF HasParent, ParentKey
<1>5. \A f \in F : IsEvent(f) /\ Clean(p, f)
  BY <1>1, <1>2, SanitizedEvent, SanitizedIsClean
<1> HIDE DEF F
<1>6. SessionsOf(F) = SessionsOf(E)
  BY <1>2, <1>4 DEF SessionsOf
<1>7. Links(F) \subseteq Links(E)
  BY <1>2, <1>4 DEF Links
<1>8. Links(E) \subseteq Links(F)
  BY <1>2, <1>4 DEF Links
<1> QED BY <1>3, <1>5, <1>6, <1>7, <1>8 DEF F, EventSet

LEMMA FewerLinks ==
  ASSUME NEW E, NEW F, Links(E) \subseteq Links(F), ~ConflictingLineage(F), ~Circular(Links(F))
  PROVE  ~ConflictingLineage(E) /\ ~Circular(Links(E))
<1>0. ASSUME Circular(Links(E)) PROVE FALSE
  <2>1. PICK C \in SUBSET {l[1] : l \in Links(E)} :
          C # {} /\ \A k \in C : \E j \in C : <<k, j>> \in Links(E)
    BY <1>0 DEF Circular
  <2>2. {l[1] : l \in Links(E)} \subseteq {l[1] : l \in Links(F)}
    OBVIOUS
  <2>3. \A k \in C : \E j \in C : <<k, j>> \in Links(F)
    BY <2>1
  <2>4. C \in SUBSET {l[1] : l \in Links(F)}
    BY <2>2
  <2> QED BY <2>1, <2>3, <2>4 DEF Circular
<1> SUFFICES ASSUME NEW e \in E, NEW f \in E, KeyOf(e) = KeyOf(f),
                    HasParent(e), HasParent(f)
             PROVE  ParentKey(e) = ParentKey(f)
  BY <1>0 DEF ConflictingLineage
<1>1. <<KeyOf(e), ParentKey(e)>> \in Links(F) /\ <<KeyOf(f), ParentKey(f)>> \in Links(F)
  BY DEF Links
<1>2. PICK x \in F : HasParent(x) /\ KeyOf(x) = KeyOf(e) /\ ParentKey(x) = ParentKey(e)
  BY <1>1 DEF Links
<1>3. PICK y \in F : HasParent(y) /\ KeyOf(y) = KeyOf(f) /\ ParentKey(y) = ParentKey(f)
  BY <1>1 DEF Links
<1> QED BY <1>2, <1>3 DEF ConflictingLineage

LEMMA LinksOfParts ==
  /\ \A E, F : E \subseteq F => Links(E) \subseteq Links(F) /\ Kept(E, F)
  /\ \A E, F : Links(E \cup F) = Links(E) \cup Links(F)
  /\ \A E, F : SessionsOf(F) = SessionsOf(E) => Kept(E, F)
<1>1. ASSUME NEW E, NEW F, E \subseteq F PROVE Links(E) \subseteq Links(F) /\ Kept(E, F)
  BY <1>1 DEF Links, Kept, SessionsOf
<1>2. ASSUME NEW E, NEW F PROVE Links(E \cup F) = Links(E) \cup Links(F)
  BY DEF Links
<1>3. ASSUME NEW E, NEW F, SessionsOf(F) = SessionsOf(E) PROVE Kept(E, F)
  BY <1>3 DEF Kept
<1> QED BY <1>1, <1>2, <1>3

\* A store that loads has no conflict, and no session below itself.
LEMMA LoadedLineage ==
  ASSUME NEW E, WellFormed(E), \A e \in E : e.source \in Sources
  PROVE  ~ConflictingLineage(E) /\ ~Circular(Links(E))
<1>1. ASSUME NEW x \in Sources
      PROVE  /\ ~ConflictingLineage(FromSource(E, x))
             /\ ~LineageCycle(SessionsOf(FromSource(E, x)), ParentsOf(FromSource(E, x)))
  BY DEF WellFormed, SourceLoads, PartitionFails, Fails
<1>2. ~ConflictingLineage(E)
  <2> SUFFICES ASSUME NEW e \in E, NEW f \in E, KeyOf(e) = KeyOf(f),
                      HasParent(e), HasParent(f)
               PROVE  ParentKey(e) = ParentKey(f)
    BY DEF ConflictingLineage
  <2>1. e \in FromSource(E, e.source) /\ f \in FromSource(E, e.source)
    BY DEF FromSource, KeyOf
  <2> QED BY <1>1, <2>1 DEF ConflictingLineage
<1>3. ASSUME NEW C \in SUBSET {l[1] : l \in Links(E)}, NEW k0 \in C,
             \A k \in C : \E j \in C : <<k, j>> \in Links(E)
      PROVE  FALSE
  <2>1. ASSUME NEW k \in C
        PROVE  \E e \in E : HasParent(e) /\ k = KeyOf(e) /\ ParentKey(e) \in C
    <3>1. PICK j \in C : <<k, j>> \in Links(E)
      BY <1>3
    <3> QED BY <3>1 DEF Links
  <2> DEFINE x == k0[1]
             own == FromSource(E, x)
             D == {k \in C : k[1] = x}
  <2>2. x \in Sources
    BY <2>1 DEF KeyOf
  <2>3. ASSUME NEW k \in D
        PROVE  k \in SessionsOf(own) /\ k \in DOMAIN ParentsOf(own) /\ ParentsOf(own)[k] \in D
    <3>1. PICK e \in E : HasParent(e) /\ k = KeyOf(e) /\ ParentKey(e) \in C
      BY <2>1
    <3>2. e \in own /\ ParentKey(e)[1] = x
      BY <3>1 DEF FromSource, KeyOf, ParentKey
    <3>3. KeyOf(e) \in ChildrenOf(own) /\ ParentsOf(own)[KeyOf(e)] = ParentKey(e)
      BY <1>1, <2>2, <3>1, <3>2, ParentAgrees
    <3> QED BY <3>1, <3>2, <3>3 DEF ParentsOf, SessionsOf
  <2>4. k0 \in D /\ D \in SUBSET SessionsOf(own)
    BY <2>3
  <2> HIDE DEF own, D
  <2>5. LineageCycle(SessionsOf(own), ParentsOf(own))
    BY <2>3, <2>4 DEF LineageCycle
  <2> QED BY <1>1, <2>2, <2>5 DEF own
<1>4. ~Circular(Links(E))
  BY <1>3 DEF Circular
<1> QED BY <1>2, <1>4

-----------------------------------------------------------------------------
(* The operations on the database.                                         *)

IsDb(d) == d = [events |-> d.events, columns |-> d.columns, fingerprint |-> d.fingerprint,
                rows |-> d.rows, catalog |-> d.catalog, count |-> d.count]

\* A checkpoint with a catalog was folded from stored events, all of those
\* there were.
Folded(d) ==
    d.catalog # NoCatalog =>
        /\ d.catalog = Catalog(d.rows)
        /\ \E E \in SUBSET d.events : d.rows = CatalogOf(E) /\ d.count = Cardinality(E)

\* What is stored is clean under the policy of the last scrub.
Filtered(d) == \A e \in d.events : Clean(d.fingerprint, e)

Sane(d) == IsDb(d) /\ EventSet(d.events) /\ Filtered(d) /\ Folded(d)

LEMMA StoreFields ==
  ASSUME NEW d, IsDb(d), NEW E, NEW f, f = Store(d, E)
  PROVE  /\ IsDb(f) /\ f.events = E /\ f.fingerprint = d.fingerprint
         /\ f.rows = d.rows /\ f.catalog = d.catalog /\ f.count = d.count
<1>1. PICK columns : f = [d EXCEPT !.events = E, !.columns = columns]
  BY DEF Store
<1> QED BY <1>1 DEF IsDb

LEMMA InvalidatedFields ==
  ASSUME NEW d, IsDb(d), NEW f, f \in {InvalidateCheckpoint(d), InvalidateCatalog(d)}
  PROVE  /\ IsDb(f) /\ f.events = d.events /\ f.fingerprint = d.fingerprint
         /\ f.catalog = NoCatalog
<1>1. CASE f = InvalidateCheckpoint(d)
  BY <1>1 DEF IsDb, InvalidateCheckpoint
<1>2. CASE f = InvalidateCatalog(d)
  BY <1>2 DEF IsDb, InvalidateCatalog
<1> QED BY <1>1, <1>2

LEMMA SavedFields ==
  ASSUME NEW d, IsDb(d), NEW runs, NEW f, f = Save(d, runs)
  PROVE  /\ IsDb(f) /\ f.events = d.events /\ f.fingerprint = d.fingerprint
         /\ f.rows = runs /\ f.catalog = Catalog(runs) /\ f.count = Cardinality(d.events)
<1>1. PICK catalog, count : /\ f = [d EXCEPT !.rows = runs, !.catalog = catalog, !.count = count]
                            /\ catalog = Catalog(runs) /\ count = Cardinality(d.events)
  BY DEF Save
<1> QED BY <1>1 DEF IsDb

\* With all its events counted, the checkpoint is the fold of what is stored.
LEMMA HealthyIsFold ==
  ASSUME NEW d, Sane(d), CheckpointStatus(d) = "healthy"
  PROVE  d.rows = CatalogOf(d.events) /\ d.catalog = Catalog(d.rows)
<1>1. d.catalog # NoCatalog /\ d.count = Cardinality(d.events)
  BY DEF CheckpointStatus, Loadable
<1>2. PICK E \in SUBSET d.events : d.rows = CatalogOf(E) /\ d.count = Cardinality(E)
  BY <1>1 DEF Sane, Folded
<1>3. E = d.events
  BY <1>1, <1>2, FS_Subset DEF Sane, EventSet
<1> QED BY <1>1, <1>2, <1>3 DEF Sane, Folded

LEMMA ScrubIsSane ==
  ASSUME NEW d, Sane(d), NEW p
  PROVE  LET f == Scrub(d, p)
         IN  /\ Sane(f) /\ f.fingerprint = p
             /\ Links(f.events) = Links(d.events) /\ SessionsOf(f.events) = SessionsOf(d.events)
<1> DEFINE F    == {Sanitize(p, e) : e \in d.events}
           g    == InvalidateCheckpoint(Store(d, F))
           done == IF F = d.events THEN d ELSE g
           f    == [done EXCEPT !.fingerprint = p]
<1>1. CASE d.fingerprint = p
  BY <1>1 DEF Scrub
<1>2. CASE d.fingerprint # p
  <2>1. /\ EventSet(F) /\ \A e \in F : Clean(p, e)
        /\ Links(F) = Links(d.events) /\ SessionsOf(F) = SessionsOf(d.events)
    <3>1. EventSet(d.events)
      BY DEF Sane
    <3> QED BY <3>1, SanitizedSet
  <2>2. Scrub(d, p) = f
    BY <1>2 DEF Scrub
  <2> HIDE DEF F
  <2>3. IsDb(Store(d, F)) /\ Store(d, F).events = F
    BY StoreFields DEF Sane
  <2>4. IsDb(g) /\ g.events = F /\ g.catalog = NoCatalog
    BY <2>3, InvalidatedFields
  <2> HIDE DEF g
  <2>5. IsDb(done) /\ done.events = F /\ Folded(done)
    BY <2>4 DEF Sane, Folded
  <2> HIDE DEF done, f
  <2>6. /\ IsDb(f) /\ f.events = F /\ f.fingerprint = p
        /\ f.rows = done.rows /\ f.catalog = done.catalog /\ f.count = done.count
    BY <2>5 DEF IsDb, f
  <2>7. Folded(f)
    BY <2>5, <2>6 DEF Folded
  <2> QED BY <2>1, <2>2, <2>6, <2>7 DEF Sane, Filtered
<1> QED BY <1>1, <1>2

LEMMA InsertIsSane ==
  ASSUME NEW d, Sane(d), NEW E, EventSet(E), \A e \in E : Clean(d.fingerprint, e)
  PROVE  /\ Sane(Insert(d, E)) /\ Insert(d, E).events = d.events \cup E
         /\ Insert(d, E).fingerprint = d.fingerprint
<1> DEFINE f == Store(d, d.events \cup E)
<1>1. /\ IsDb(f) /\ f.events = d.events \cup E /\ f.fingerprint = d.fingerprint
      /\ f.rows = d.rows /\ f.catalog = d.catalog /\ f.count = d.count
  BY StoreFields DEF Sane
<1>2. EventSet(d.events \cup E)
  BY FS_Union DEF Sane, EventSet
<1> HIDE DEF f
<1>3. Folded(f)
  BY <1>1 DEF Sane, Folded
<1>4. Filtered(f)
  BY <1>1 DEF Sane, Filtered
<1> QED BY <1>1, <1>2, <1>3, <1>4 DEF Sane, Insert, f

\* What removes events also takes back the catalog.
LEMMA RemovalIsSane ==
  ASSUME NEW d, Sane(d), NEW E
  PROVE  \A f \in {InvalidateCheckpoint(Store(d, d.events \ E)),
                   InvalidateCatalog(Store(d, d.events \ E))} :
            Sane(f) /\ f.events = d.events \ E /\ f.fingerprint = d.fingerprint
<1> DEFINE g == Store(d, d.events \ E)
<1>1. IsDb(g) /\ g.events = d.events \ E /\ g.fingerprint = d.fingerprint
  BY StoreFields DEF Sane
<1>2. EventSet(d.events \ E)
  BY FS_Subset DEF Sane, EventSet
<1> HIDE DEF g
<1>3. ASSUME NEW f \in {InvalidateCheckpoint(g), InvalidateCatalog(g)}
      PROVE  Sane(f) /\ f.events = d.events \ E /\ f.fingerprint = d.fingerprint
  <2>1. /\ IsDb(f) /\ f.events = d.events \ E /\ f.fingerprint = d.fingerprint
        /\ f.catalog = NoCatalog
    BY <1>1, InvalidatedFields
  <2>2. Filtered(f)
    BY <2>1 DEF Sane, Filtered
  <2> QED BY <1>2, <2>1, <2>2 DEF Sane, Folded
<1> QED BY <1>3 DEF g

LEMMA SaveIsSane ==
  ASSUME NEW d, Sane(d)
  PROVE  LET f == Save(d, CatalogOf(d.events))
         IN  Sane(f) /\ f.events = d.events /\ f.fingerprint = d.fingerprint
<1> DEFINE f == Save(d, CatalogOf(d.events))
<1>1. /\ IsDb(f) /\ f.events = d.events /\ f.fingerprint = d.fingerprint
      /\ f.rows = CatalogOf(d.events) /\ f.catalog = Catalog(CatalogOf(d.events))
      /\ f.count = Cardinality(d.events)
  BY SavedFields DEF Sane
<1> HIDE DEF f
<1>2. Folded(f)
  BY <1>1 DEF Folded
<1>3. Filtered(f)
  BY <1>1 DEF Sane, Filtered
<1> QED BY <1>1, <1>2, <1>3 DEF Sane, f

LEMMA DeleteIsSane ==
  ASSUME NEW d, Sane(d), NEW src, NEW session
  PROVE  LET f == Delete(d, src, session)
         IN  /\ Sane(f) /\ f.events \subseteq d.events /\ f.fingerprint = d.fingerprint
             /\ Kept(d.events, f.events)
<1> DEFINE f    == Delete(d, src, session)
           gone == TreeEvents(d.events, src, session)
           kept == d.events \ gone
<1>1. f = IF gone = {} THEN d ELSE InvalidateCatalog(Store(d, kept))
  BY DEF Delete
<1>2. Sane(f) /\ f.events = kept /\ f.fingerprint = d.fingerprint
  <2> HIDE DEF f, gone
  <2> QED BY <1>1, RemovalIsSane
<1>3. ASSUME NEW e \in kept, HasParent(e), NEW g \in d.events, KeyOf(g) = ParentKey(e)
      PROVE  g \in kept
  <2>1. g.source = e.source /\ g.session = e.parent
    BY <1>3 DEF KeyOf, ParentKey
  <2>2. CASE e.source # src
    BY <2>1, <2>2 DEF TreeEvents, FromSource
  <2>3. CASE e.source = src
    <3>1. \A x \in d.events : x.session \in Sessions
      BY DEF Sane, EventSet, IsEvent
    <3>2. e \in FromSource(d.events, src) /\ e \notin gone
      BY <1>3, <2>3 DEF FromSource
    <3>3. e.parent \notin SessionTree(d.events, src, session)
      BY <3>1, <3>2, TreeClosed
    <3> QED BY <2>1, <3>3 DEF TreeEvents
  <2> QED BY <2>2, <2>3
<1>4. Kept(d.events, kept)
  BY <1>3 DEF Kept, SessionsOf
<1> HIDE DEF f
<1> QED BY <1>2, <1>4 DEF f

\* A session and its stored parent go together: they have the same root.
LEMMA ParentRoot ==
  ASSUME NEW E, ~ConflictingLineage(E), NEW e \in E, HasParent(e),
         ParentKey(e) \in SessionsOf(E)
  PROVE  StoredRoot(KeyOf(e), E) = StoredRoot(ParentKey(e), E)
<1> DEFINE S == SessionsOf(E)
           P == ParentsOf(E)
           k == KeyOf(e)
           j == ParentKey(e)
           Up(A, i) == /\ i \in A
                       /\ \A a \in A : (a \in DOMAIN P /\ P[a] \in S) => P[a] \in A
           Ends(i) == {v \in Visited(i, S, P) : ~(v \in DOMAIN P /\ P[v] \in S)}
<1>1. \A i : Visited(i, S, P) = {v \in S : \A A \in SUBSET S : Up(A, i) => v \in A}
  BY DEF Visited
<1>2. k \in DOMAIN P /\ P[k] = j /\ k \in S /\ j \in S
  BY ParentAgrees DEF ParentsOf, SessionsOf
<1> HIDE DEF S, P, k, j
<1>3. ASSUME NEW v \in Visited(k, S, P), v # k PROVE v \in Visited(j, S, P)
  <2>1. ASSUME NEW A \in SUBSET S, Up(A, j) PROVE v \in A
    <3>1. A \cup {k} \in SUBSET S /\ Up(A \cup {k}, k)
      BY <1>2, <2>1
    <3> HIDE DEF Up
    <3> QED BY <1>1, <1>3, <3>1
  <2> HIDE DEF Up
  <2> QED BY <1>1, <1>3, <2>1
<1>4. ASSUME NEW v \in Visited(j, S, P) PROVE v \in Visited(k, S, P)
  <2>1. ASSUME NEW A \in SUBSET S, Up(A, k) PROVE v \in A
    <3>1. Up(A, j)
      BY <1>2, <2>1
    <3> HIDE DEF Up
    <3> QED BY <1>1, <1>4, <2>1, <3>1
  <2> HIDE DEF Up
  <2> QED BY <1>1, <1>4, <2>1
<1>5. Ends(k) = Ends(j)
  BY <1>2, <1>3, <1>4
<1>6. StoredRoot(k, E) = (CHOOSE v \in Ends(k) : TRUE) /\ StoredRoot(j, E) = (CHOOSE v \in Ends(j) : TRUE)
  BY DEF StoredRoot, S, P
<1> HIDE DEF Ends
<1> QED BY <1>5, <1>6 DEF k, j

\* The roots of the Runs that retention removes, and what it leaves.
Doomed(E, p) == Expired(E, p) \cup Surplus(E, p)
Remainder(E, p) == {e \in E : StoredRoot(KeyOf(e), E) \notin Doomed(E, p)}

LEMMA RetainIsSane ==
  ASSUME NEW d, Sane(d), NEW p
  PROVE  LET f == Retain(d, p)
         IN  /\ Sane(f) /\ f.events = Remainder(d.events, p) /\ f.fingerprint = d.fingerprint
             /\ ~ConflictingLineage(d.events) => Kept(d.events, f.events)
<1> DEFINE f    == Retain(d, p)
           gone == UNION {StoredGroup(d.events, r) : r \in Doomed(d.events, p)}
           kept == d.events \ gone
<1>1. f = IF gone = {} THEN d ELSE InvalidateCheckpoint(Store(d, kept))
  BY DEF Retain, Doomed
<1>2. Sane(f) /\ f.events = kept /\ f.fingerprint = d.fingerprint
  <2> HIDE DEF f, gone
  <2> QED BY <1>1, RemovalIsSane
<1>3. kept = Remainder(d.events, p)
  BY DEF StoredGroup, Remainder
<1>4. ASSUME ~ConflictingLineage(d.events),
             NEW e \in kept, HasParent(e), NEW g \in d.events, KeyOf(g) = ParentKey(e)
      PROVE  g \in kept
  <2>1. StoredRoot(KeyOf(e), d.events) = StoredRoot(KeyOf(g), d.events)
    BY <1>4, ParentRoot DEF SessionsOf
  <2> QED BY <1>3, <1>4, <2>1 DEF Remainder
<1>5. ~ConflictingLineage(d.events) => Kept(d.events, kept)
  BY <1>4 DEF Kept, SessionsOf
<1> HIDE DEF f
<1> QED BY <1>2, <1>3, <1>5 DEF f

-----------------------------------------------------------------------------
(* The invariant.                                                          *)
Startup == {"import", "retain", "align", "load"}

Typed ==
    /\ proc = [pc |-> proc.pc, kind |-> proc.kind, policy |-> proc.policy,
               retention |-> proc.retention, runs |-> proc.runs]
    /\ EventSet(mirror)
    /\ proc.pc \in Startup \/ proc.pc = "up" => proc.kind = "serve"
    /\ proc.pc \in Startup => proc.retention \in Retentions

\* How far the process has come.
InStep ==
    /\ proc.pc # "down" /\ proc.kind = "serve" => db.fingerprint = proc.policy
    /\ (proc.pc \in {"load", "save", "publish", "up"} /\ proc.kind = "serve") => mirror = db.events
    /\ proc.pc \in {"save", "publish", "up"} => proc.runs = CatalogOf(db.events)
    /\ proc.pc = "up" => files.runs = proc.runs

\* What the database knows of the lineage the mirror knows too: an import adds
\* sessions that were stored together before.
Linked == /\ Links(db.events) \subseteq Links(mirror)
          /\ ~ConflictingLineage(mirror) /\ ~Circular(Links(mirror))

\* A server that is starting has written no delta yet, and one that is up none
\* that leads to anything but what it stores.
Starting == Startup \cup {"save", "publish"}

DeltasKnown ==
    /\ used = [starts |-> used.starts, commands |-> used.commands]
    /\ used.starts \in Nat
    /\ \A r \in DOMAIN files.deltas :
          /\ files.deltas[r].by \in Nat /\ files.deltas[r].by <= used.starts
          /\ proc.kind = "serve" /\ proc.pc \in Starting => files.deltas[r].by < used.starts
          /\ proc.pc = "up" /\ files.deltas[r].by = used.starts
                => files.deltas[r].target \subseteq db.events

IInv == Typed /\ Sane(db) /\ InStep /\ Linked /\ DeltasKnown

LEMMA OldDeltas ==
  ASSUME DeltasKnown, files' = files, used'.starts = used.starts,
         used' = [starts |-> used'.starts, commands |-> used'.commands],
         proc'.pc # "up",
         proc'.kind = "serve" /\ proc'.pc \in Starting
            => proc.kind = "serve" /\ proc.pc \in Starting
  PROVE  DeltasKnown'
BY DEF DeltasKnown

LEMMA StoredLineage ==
  ASSUME Linked PROVE ~ConflictingLineage(db.events) /\ ~Circular(Links(db.events))
BY FewerLinks DEF Linked

LEMMA InitInv == ASSUME Init PROVE IInv
<1>1. /\ db = [events |-> {}, columns |-> NoRuns, fingerprint |-> None,
               rows |-> NoRuns, catalog |-> NoCatalog, count |-> 0]
      /\ mirror = {} /\ proc = Stopped
  BY DEF Init
<1>2. EventSet({})
  BY FS_EmptySet DEF EventSet
<1>3. Sane(db)
  <2>1. db.events = {} /\ db.catalog = NoCatalog /\ IsDb(db)
    BY <1>1 DEF IsDb
  <2> QED BY <1>2, <2>1 DEF Sane, Filtered, Folded
<1>4. Typed /\ InStep
  BY <1>1, <1>2 DEF Typed, InStep, Stopped, Startup
<1>5. Linked
  BY <1>1 DEF Linked, Links, ConflictingLineage, Circular
<1>6. DeltasKnown
  BY DEF Init, DeltasKnown, NoRuns
<1> QED BY <1>3, <1>4, <1>5, <1>6 DEF IInv

\* Only what runs while the process is down.
LEMMA CommandInv ==
  ASSUME IInv, NEW d, NEW dataDir, Command(d, dataDir), Sane(d),
         Links(d.events) \subseteq Links(db.events)
  PROVE  IInv'
<1>0. /\ files' = files /\ used'.starts = used.starts
      /\ used' = [starts |-> used'.starts, commands |-> used'.commands]
  <2>1. files' = files /\ used' = [used EXCEPT !.commands = @ + 1]
    BY DEF Command
  <2>2. used = [starts |-> used.starts, commands |-> used.commands]
    BY DEF IInv, DeltasKnown
  <2> QED BY <2>1, <2>2
<1>1. db' = d /\ mirror' = mirror
  BY DEF Command
<1>2. Linked'
  BY <1>1 DEF IInv, Linked
<1>3. CASE dataDir
  <2>1. proc' = [Stopped EXCEPT !.pc = "save", !.kind = "command", !.runs = CatalogOf(d.events)]
    BY <1>3 DEF Command
  <2> DEFINE runs == CatalogOf(d.events)
  <2> HIDE DEF runs
  <2>2. /\ proc'.pc = "save" /\ proc'.kind = "command" /\ proc'.runs = runs
        /\ proc' = [pc |-> proc'.pc, kind |-> proc'.kind, policy |-> proc'.policy,
                    retention |-> proc'.retention, runs |-> proc'.runs]
    BY <2>1 DEF Stopped, runs
  <2>3. Typed' /\ InStep'
    BY <1>1, <2>2 DEF IInv, Typed, InStep, Startup, runs
  <2>4. DeltasKnown'
    BY <1>0, <2>2, OldDeltas DEF IInv
  <2> QED BY <1>1, <1>2, <2>3, <2>4 DEF IInv
<1>4. CASE ~dataDir
  <2>1. proc' = Stopped
    BY <1>4 DEF Command
  <2>2. Typed' /\ InStep'
    BY <1>1, <2>1 DEF IInv, Typed, InStep, Startup, Stopped
  <2>3. DeltasKnown'
    BY <1>0, <2>1, OldDeltas DEF IInv, Stopped
  <2> QED BY <1>1, <1>2, <2>2, <2>3 DEF IInv
<1> QED BY <1>3, <1>4

LEMMA OfflineInv == ASSUME IInv, Offline PROVE IInv'
<1>1. CASE \E p \in Policies, dataDir \in BOOLEAN : ScrubCommand(p, dataDir)
  <2>1. PICK p \in Policies, dataDir \in BOOLEAN : ScrubCommand(p, dataDir)
    BY <1>1
  <2>2. Sane(Scrub(db, p)) /\ Links(Scrub(db, p).events) = Links(db.events)
    BY ScrubIsSane DEF IInv
  <2> QED BY <2>1, <2>2, CommandInv DEF ScrubCommand
<1>2. CASE \E src \in Sources, session \in Sessions, dataDir \in BOOLEAN :
              DeleteCommand(src, session, dataDir)
  <2>1. PICK src \in Sources, session \in Sessions, dataDir \in BOOLEAN :
              DeleteCommand(src, session, dataDir)
    BY <1>2
  <2>2. /\ Sane(Delete(db, src, session))
        /\ Links(Delete(db, src, session).events) \subseteq Links(db.events)
    BY DeleteIsSane, LinksOfParts DEF IInv
  <2> QED BY <2>1, <2>2, CommandInv DEF DeleteCommand
<1>3. CASE \E r \in Retentions, dataDir \in BOOLEAN : PruneCommand(r, dataDir)
  <2>1. PICK r \in Retentions, dataDir \in BOOLEAN : PruneCommand(r, dataDir)
    BY <1>3
  <2>2. Sane(Retain(db, r)) /\ Links(Retain(db, r).events) \subseteq Links(db.events)
    BY RetainIsSane, LinksOfParts DEF IInv, Remainder
  <2> QED BY <2>1, <2>2, CommandInv DEF PruneCommand
<1>4. CASE \E dataDir \in BOOLEAN : RepairCommand(dataDir)
  <2>1. PICK dataDir \in BOOLEAN : RepairCommand(dataDir)
    BY <1>4
  <2>2. Sane(RepairDerivedState(db)) /\ RepairDerivedState(db).events = db.events
    BY SaveIsSane DEF IInv, RepairDerivedState
  <2> QED BY <2>1, <2>2, CommandInv DEF RepairCommand
<1>5. CASE DoctorCommand
  BY <1>5 DEF DoctorCommand, vars, IInv, Typed, InStep, Linked, DeltasKnown
<1> QED BY <1>1, <1>2, <1>3, <1>4, <1>5 DEF Offline

LEMMA StartInv == ASSUME IInv, NEW p \in Policies, NEW r \in Retentions, Start(p, r) PROVE IInv'
<1>1. db' = Scrub(db, p) /\ mirror' = mirror /\ files' = files
  BY DEF Start
<1>2. Sane(db)' /\ db'.fingerprint = p /\ Links(db'.events) = Links(db.events)
  BY <1>1, ScrubIsSane DEF IInv
<1>3. /\ proc'.pc = "import" /\ proc'.kind = "serve" /\ proc'.policy = p /\ proc'.retention = r
      /\ proc' = [pc |-> proc'.pc, kind |-> proc'.kind, policy |-> proc'.policy,
                  retention |-> proc'.retention, runs |-> proc'.runs]
  BY DEF Start, Stopped
<1>4. Typed' /\ InStep'
  BY <1>1, <1>2, <1>3 DEF IInv, Typed, InStep, Startup
<1>5. Linked'
  BY <1>1, <1>2 DEF IInv, Linked
<1>6. DeltasKnown'
  <2>1. /\ used = [starts |-> used.starts, commands |-> used.commands]
        /\ used.starts \in Nat
        /\ \A k \in DOMAIN files.deltas :
               files.deltas[k].by \in Nat /\ files.deltas[k].by <= used.starts
    BY DEF IInv, DeltasKnown
  <2>2. used' = [used EXCEPT !.starts = @ + 1]
    BY DEF Start
  <2>3. /\ used'.starts = used.starts + 1
        /\ used' = [starts |-> used'.starts, commands |-> used'.commands]
    BY <2>1, <2>2
  <2>4. \A k \in DOMAIN files.deltas : files.deltas[k].by < used'.starts
    BY <2>1, <2>3
  <2> QED BY <1>1, <1>3, <2>1, <2>3, <2>4 DEF DeltasKnown
<1> QED BY <1>2, <1>4, <1>5, <1>6 DEF IInv

\* The process ends.
LEMMA Stopping ==
  ASSUME IInv, proc' = Stopped, UNCHANGED <<db, mirror>>, DeltasKnown'
  PROVE  IInv'
BY DEF IInv, Typed, InStep, Linked, Stopped, Startup

LEMMA StoppedDeltas ==
  ASSUME IInv, proc' = Stopped, UNCHANGED <<files, used>>
  PROVE  DeltasKnown'
BY OldDeltas DEF IInv, DeltasKnown, Stopped

LEMMA StartingDeltas ==
  ASSUME IInv, UNCHANGED <<files, used>>, proc.pc \in Starting,
         proc'.kind = proc.kind, proc'.pc # "up"
  PROVE  DeltasKnown'
BY OldDeltas DEF IInv, DeltasKnown

LEMMA ImportInv == ASSUME IInv, ImportMirror PROVE IInv'
<1> DEFINE E == Imported(proc.policy)
<1>1. /\ proc.pc = "import" /\ proc.kind = "serve" /\ mirror' = mirror
      /\ db.fingerprint = proc.policy /\ proc.retention \in Retentions
  BY DEF ImportMirror, IInv, Typed, InStep, Startup
<1>2. CASE Conflicts(db, E)
  BY <1>2, Stopping, StoppedDeltas DEF ImportMirror
<1>3. CASE ~Conflicts(db, E)
  <2>1. db' = Insert(db, E) /\ proc' = [proc EXCEPT !.pc = "retain"]
    BY <1>3 DEF ImportMirror
  <2>2. /\ EventSet(E) /\ \A e \in E : Clean(proc.policy, e)
        /\ Links(E) = Links(mirror)
    <3>1. EventSet(mirror)
      BY DEF IInv, Typed
    <3> QED BY <3>1, SanitizedSet DEF Imported
  <2> HIDE DEF E
  <2>3. Sane(db)' /\ db'.events = db.events \cup E /\ db'.fingerprint = db.fingerprint
    BY <1>1, <2>1, <2>2, InsertIsSane DEF IInv
  <2>4. Links(db'.events) \subseteq Links(mirror)
    BY <2>2, <2>3, LinksOfParts DEF IInv, Linked
  <2>5. Linked'
    BY <1>1, <2>4 DEF IInv, Linked
  <2>6. /\ proc'.pc = "retain" /\ proc'.kind = "serve" /\ proc'.policy = proc.policy
        /\ proc'.retention = proc.retention
        /\ proc' = [pc |-> proc'.pc, kind |-> proc'.kind, policy |-> proc'.policy,
                    retention |-> proc'.retention, runs |-> proc'.runs]
    BY <1>1, <2>1 DEF IInv, Typed
  <2>7. Typed' /\ InStep'
    BY <1>1, <2>3, <2>6 DEF IInv, Typed, InStep, Startup
  <2>8. DeltasKnown'
    BY <1>1, <2>6, StartingDeltas DEF ImportMirror, Starting, Startup
  <2> QED BY <2>3, <2>5, <2>7, <2>8 DEF IInv
<1> QED BY <1>2, <1>3

LEMMA RetentionInv == ASSUME IInv, ApplyRetention PROVE IInv'
<1>1. /\ proc.pc = "retain" /\ proc.kind = "serve" /\ mirror' = mirror
      /\ db.fingerprint = proc.policy /\ proc.retention \in Retentions
      /\ db' = Retain(db, proc.retention) /\ proc' = [proc EXCEPT !.pc = "align"]
  BY DEF ApplyRetention, IInv, Typed, InStep, Startup
<1>2. Sane(db)' /\ db'.events \subseteq db.events /\ db'.fingerprint = db.fingerprint
  BY <1>1, RetainIsSane DEF IInv, Remainder
<1>3. Linked'
  BY <1>1, <1>2, LinksOfParts DEF IInv, Linked
<1>4. /\ proc'.pc = "align" /\ proc'.kind = "serve" /\ proc'.policy = proc.policy
      /\ proc'.retention = proc.retention
      /\ proc' = [pc |-> proc'.pc, kind |-> proc'.kind, policy |-> proc'.policy,
                  retention |-> proc'.retention, runs |-> proc'.runs]
  BY <1>1 DEF IInv, Typed
<1>5. Typed' /\ InStep'
  BY <1>1, <1>2, <1>4 DEF IInv, Typed, InStep, Startup
<1>6. DeltasKnown'
  BY <1>1, <1>4, StartingDeltas DEF ApplyRetention, Starting, Startup
<1> QED BY <1>6, <1>2, <1>3, <1>5 DEF IInv

LEMMA AlignInv == ASSUME IInv, AlignMirror PROVE IInv'
<1>1. /\ proc.pc = "align" /\ proc.kind = "serve" /\ mirror' = db.events /\ db' = db
      /\ db.fingerprint = proc.policy /\ proc.retention \in Retentions
      /\ proc' = [proc EXCEPT !.pc = "load"]
  BY DEF AlignMirror, IInv, Typed, InStep, Startup
<1>2. Linked'
  BY <1>1, StoredLineage DEF IInv, Linked
<1>3. /\ proc'.pc = "load" /\ proc'.kind = "serve" /\ proc'.policy = proc.policy
      /\ proc'.retention = proc.retention
      /\ proc' = [pc |-> proc'.pc, kind |-> proc'.kind, policy |-> proc'.policy,
                  retention |-> proc'.retention, runs |-> proc'.runs]
  BY <1>1 DEF IInv, Typed
<1>4. Typed' /\ InStep'
  BY <1>1, <1>3 DEF IInv, Typed, InStep, Startup, Sane
<1>5. DeltasKnown'
  BY <1>1, <1>3, StartingDeltas DEF AlignMirror, Starting, Startup
<1> QED BY <1>5, <1>1, <1>2, <1>4 DEF IInv

LEMMA LoadInv == ASSUME IInv, LoadProjection PROVE IInv'
<1>1. /\ proc.pc = "load" /\ proc.kind = "serve" /\ mirror' = mirror /\ db' = db
      /\ db.fingerprint = proc.policy /\ mirror = db.events
      /\ proc' = [proc EXCEPT !.pc = "save", !.runs = Loaded(db)]
  BY DEF LoadProjection, IInv, Typed, InStep, Startup
<1>2. Loaded(db) = CatalogOf(db.events)
  BY HealthyIsFold DEF IInv, Loaded, Restores
<1>3. Linked'
  BY <1>1 DEF IInv, Linked
<1>4. /\ proc'.pc = "save" /\ proc'.kind = "serve" /\ proc'.policy = proc.policy
      /\ proc'.runs = Loaded(db)
      /\ proc' = [pc |-> proc'.pc, kind |-> proc'.kind, policy |-> proc'.policy,
                  retention |-> proc'.retention, runs |-> proc'.runs]
  BY <1>1 DEF IInv, Typed
<1>5. Typed' /\ InStep'
  BY <1>1, <1>2, <1>4 DEF IInv, Typed, InStep, Startup
<1>6. DeltasKnown'
  BY <1>1, <1>4, StartingDeltas DEF LoadProjection, Starting, Startup
<1> QED BY <1>6, <1>1, <1>3, <1>5 DEF IInv

LEMMA SaveInv == ASSUME IInv, SaveProjection PROVE IInv'
<1>1. /\ proc.pc = "save" /\ mirror' = mirror /\ db' = Save(db, CatalogOf(db.events))
      /\ proc.runs = CatalogOf(db.events)
      /\ proc' = [proc EXCEPT !.pc = "publish"]
  BY DEF SaveProjection, IInv, InStep
<1>2. Sane(db)' /\ db'.events = db.events /\ db'.fingerprint = db.fingerprint
  BY <1>1, SaveIsSane DEF IInv
<1>3. Linked'
  BY <1>1, <1>2 DEF IInv, Linked
<1>4. /\ proc'.pc = "publish" /\ proc'.kind = proc.kind /\ proc'.policy = proc.policy
      /\ proc'.runs = proc.runs
      /\ proc' = [pc |-> proc'.pc, kind |-> proc'.kind, policy |-> proc'.policy,
                  retention |-> proc'.retention, runs |-> proc'.runs]
  BY <1>1 DEF IInv, Typed
<1>5. Typed' /\ InStep'
  BY <1>1, <1>2, <1>4 DEF IInv, Typed, InStep, Startup
<1>6. DeltasKnown'
  BY <1>1, <1>4, StartingDeltas DEF SaveProjection, Starting, Startup
<1> QED BY <1>6, <1>2, <1>3, <1>5 DEF IInv

LEMMA PublishInv == ASSUME IInv, Publish PROVE IInv'
<1>1. /\ proc.pc = "publish" /\ mirror' = mirror /\ db' = db /\ used' = used
      /\ files'.runs = proc.runs
      /\ files'.deltas = [r \in DOMAIN files.deltas \cap DOMAIN proc.runs |-> files.deltas[r]]
  BY DEF Publish, Listed
<1>4. DeltasKnown'
  <2>1. \A r \in DOMAIN files'.deltas : /\ r \in DOMAIN files.deltas
                                        /\ files'.deltas[r] = files.deltas[r]
    BY <1>1
  <2>2. \/ proc'.kind = "none" /\ proc'.pc = "down"
        \/ proc.kind = "serve" /\ proc'.pc = "up"
    <3>1. CASE proc.kind = "serve"
      BY <3>1 DEF Publish, IInv, Typed
    <3>2. CASE proc.kind # "serve"
      BY <3>2 DEF Publish, Stopped
    <3> QED BY <3>1, <3>2
  <2>3. proc.kind = "serve" => \A r \in DOMAIN files.deltas : /\ files.deltas[r].by \in Nat
                                                             /\ files.deltas[r].by < used.starts
    BY <1>1 DEF IInv, DeltasKnown, Starting
  <2>4. /\ used.starts \in Nat /\ used = [starts |-> used.starts, commands |-> used.commands]
        /\ \A r \in DOMAIN files.deltas : /\ files.deltas[r].by \in Nat
                                          /\ files.deltas[r].by <= used.starts
    BY DEF IInv, DeltasKnown
  <2>5. CASE proc'.kind = "none" /\ proc'.pc = "down"
    BY <1>1, <2>1, <2>4, <2>5 DEF DeltasKnown
  <2>6. CASE proc.kind = "serve" /\ proc'.pc = "up"
    BY <1>1, <2>1, <2>3, <2>4, <2>6 DEF DeltasKnown, Starting, Startup
  <2> QED BY <2>2, <2>5, <2>6
<1>2. CASE proc.kind # "serve"
  BY <1>2, <1>4, Stopping DEF Publish
<1>3. CASE proc.kind = "serve"
  <2>1. proc' = [proc EXCEPT !.pc = "up"]
    BY <1>3 DEF Publish
  <2>2. /\ proc'.pc = "up" /\ proc'.kind = "serve" /\ proc'.policy = proc.policy
        /\ proc'.runs = proc.runs
        /\ proc' = [pc |-> proc'.pc, kind |-> proc'.kind, policy |-> proc'.policy,
                    retention |-> proc'.retention, runs |-> proc'.runs]
    BY <1>3, <2>1 DEF IInv, Typed
  <2>3. Typed' /\ InStep'
    BY <1>1, <1>3, <2>2 DEF IInv, Typed, InStep, Startup
  <2>4. Linked'
    BY <1>1 DEF IInv, Linked
  <2> QED BY <1>1, <1>4, <2>3, <2>4 DEF IInv
<1> QED BY <1>2, <1>3

\* A Run that an event does not join and that keeps its number of events keeps
\* its events: the server need not fold it again.
LEMMA UntouchedRun ==
  ASSUME NEW E, NEW e, IsFiniteSet(E \cup {e}), ~ConflictingLineage(E \cup {e}),
         NEW r, r \in DOMAIN CatalogOf(E), r \in DOMAIN CatalogOf(E \cup {e}),
         Cardinality(CatalogOf(E)[r]) = Cardinality(CatalogOf(E \cup {e})[r])
  PROVE  CatalogOf(E)[r] = CatalogOf(E \cup {e})[r]
<1> DEFINE F == E \cup {e}
<1>1. r \in RunIds(E) /\ r \in RunIds(F)
  BY RebuiltRuns DEF CatalogOf
<1>2. ~ConflictingLineage(FromSource(F, e.source))
  BY DEF ConflictingLineage, FromSource
<1>3. RebuildAll(E).runs[r] \subseteq RebuildAll(F).runs[r]
  BY <1>1, <1>2, GrownRun
<1>4. RebuildAll(F).runs[r] \subseteq F
  <2>1. RebuildAll(F).runs[r] = GroupOf(FromSource(F, r[1]), r)
    BY <1>1, RebuiltRuns
  <2> QED BY <2>1 DEF GroupOf, FromSource
<1>5. IsFiniteSet(RebuildAll(F).runs[r])
  BY <1>4, FS_Subset
<1> QED BY <1>3, <1>5, FS_Subset DEF CatalogOf

LEMMA RunsWithin ==
  ASSUME NEW E, NEW r \in DOMAIN CatalogOf(E)
  PROVE  CatalogOf(E)[r] \subseteq E
<1>1. CatalogOf(E)[r] = GroupOf(FromSource(E, r[1]), r)
  BY RebuiltRuns DEF CatalogOf
<1> QED BY <1>1 DEF GroupOf, FromSource

LEMMA ReceiveInv == ASSUME IInv, NEW e \in Offered, Receive(e) PROVE IInv'
<1> DEFINE s    == Sanitize(proc.policy, e)
           d    == Insert(db, {s})
           now  == CatalogOf(d.events)
           updated == Updated(proc.runs, now, s)
           runs == [r \in DOMAIN now |-> IF r \in updated THEN now[r] ELSE proc.runs[r]]
           deltas == [r \in updated \cup DOMAIN Listed(files.deltas, now) |->
                        IF r \in updated THEN RunDelta(proc.runs, now, r) ELSE files.deltas[r]]
<1>1. CASE Conflicts(db, {s}) \/ s \in db.events \/ ~WellFormed(d.events)
  <2>1. UNCHANGED vars
    BY <1>1 DEF Receive
  <2> QED BY <2>1 DEF vars, IInv, Typed, InStep, Linked, DeltasKnown
<1>2. CASE ~(Conflicts(db, {s}) \/ s \in db.events \/ ~WellFormed(d.events))
  <2>1. /\ proc.pc = "up" /\ proc.kind = "serve" /\ mirror = db.events
        /\ db.fingerprint = proc.policy /\ proc.runs = CatalogOf(db.events)
    BY DEF Receive, IInv, Typed, InStep
  <2>2. /\ db' = Save(d, runs) /\ mirror' = mirror \cup {s}
        /\ proc' = [proc EXCEPT !.runs = runs]
        /\ files' = [runs |-> runs, catalog |-> Catalog(runs), deltas |-> deltas]
        /\ used' = used
    BY <1>2 DEF Receive
  <2>3. IsEvent(s) /\ Clean(proc.policy, s)
    <3>1. IsEvent(e)
      BY MaintenanceAssumption DEF IsEvent, Event
    <3> QED BY <3>1, SanitizedEvent, SanitizedIsClean
  <2>4. WellFormed(d.events)
    BY <1>2
  <2> HIDE DEF s
  <2>5. Sane(d) /\ d.events = db.events \cup {s} /\ d.fingerprint = db.fingerprint
    <3>1. EventSet({s}) /\ \A x \in {s} : Clean(db.fingerprint, x)
      BY <2>1, <2>3, FS_Singleton DEF EventSet
    <3> QED BY <3>1, InsertIsSane DEF IInv
  <2> HIDE DEF d
  <2>6. IsFiniteSet(d.events) /\ ~ConflictingLineage(d.events) /\ ~Circular(Links(d.events))
    <3>1. \A x \in d.events : x.source \in Sources
      BY <2>5 DEF Sane, EventSet, IsEvent
    <3> QED BY <2>4, <2>5, <3>1, LoadedLineage DEF Sane, EventSet
  <2>7. runs = now
    <3>1. ASSUME NEW r \in DOMAIN now, r \notin updated
          PROVE  proc.runs[r] = now[r]
      <4>0. r \in DOMAIN proc.runs /\ Cardinality(proc.runs[r]) = Cardinality(now[r])
        BY <3>1 DEF Updated
      <4>1. IsFiniteSet(db.events \cup {s}) /\ ~ConflictingLineage(db.events \cup {s})
        BY <2>5, <2>6
      <4>2. now = CatalogOf(db.events \cup {s})
        BY <2>5
      <4> HIDE DEF now
      <4>3. /\ r \in DOMAIN CatalogOf(db.events) /\ r \in DOMAIN CatalogOf(db.events \cup {s})
            /\ Cardinality(CatalogOf(db.events)[r]) = Cardinality(CatalogOf(db.events \cup {s})[r])
        BY <2>1, <3>1, <4>0, <4>2
      <4>4. CatalogOf(db.events)[r] = CatalogOf(db.events \cup {s})[r]
        BY <4>1, <4>3, UntouchedRun, ZenonT(30)
      <4> QED BY <2>1, <4>2, <4>4
    <3>2. now = [r \in DOMAIN now |-> now[r]]
      BY RebuiltRuns DEF CatalogOf
    <3> HIDE DEF now, updated
    <3> QED BY <3>1, <3>2
  <2>13. updated \subseteq DOMAIN now
    BY DEF Updated
  <2>14. \A r \in DOMAIN now : now[r] \subseteq d.events
    BY RunsWithin
  <2>15. \A r \in DOMAIN deltas :
            \/ deltas[r].by = used.starts /\ deltas[r].target \subseteq d.events
            \/ r \in DOMAIN files.deltas /\ deltas[r] = files.deltas[r]
    <3> HIDE DEF now, updated, d
    <3>1. ASSUME NEW r \in updated
          PROVE  deltas[r].by = used.starts /\ deltas[r].target \subseteq d.events
      BY <2>13, <2>14 DEF RunDelta
    <3>2. ASSUME NEW r \in DOMAIN deltas, r \notin updated
          PROVE  r \in DOMAIN files.deltas /\ deltas[r] = files.deltas[r]
      BY <3>2 DEF Listed
    <3> QED BY <3>1, <3>2
  <2> HIDE DEF runs, updated, deltas
  <2>8. Sane(db)' /\ db'.events = d.events /\ db'.fingerprint = db.fingerprint
    BY <2>2, <2>5, <2>7, SaveIsSane
  <2>9. mirror' = db'.events
    BY <2>1, <2>2, <2>5, <2>8
  <2>10. Linked'
    BY <2>6, <2>8, <2>9 DEF Linked
  <2>11. /\ proc'.pc = "up" /\ proc'.kind = "serve" /\ proc'.policy = proc.policy
         /\ proc'.runs = runs
         /\ proc' = [pc |-> proc'.pc, kind |-> proc'.kind, policy |-> proc'.policy,
                     retention |-> proc'.retention, runs |-> proc'.runs]
    BY <2>1, <2>2 DEF IInv, Typed
  <2>12. Typed' /\ InStep'
    BY <2>1, <2>2, <2>7, <2>8, <2>9, <2>11 DEF IInv, Typed, InStep, Startup, Sane
  <2>16. DeltasKnown'
    <3>1. files'.deltas = deltas /\ db.events \subseteq db'.events /\ d.events = db'.events
      BY <2>2, <2>5, <2>8
    <3>2. /\ used.starts \in Nat /\ used = [starts |-> used.starts, commands |-> used.commands]
          /\ \A r \in DOMAIN files.deltas :
                /\ files.deltas[r].by \in Nat /\ files.deltas[r].by <= used.starts
                /\ files.deltas[r].by = used.starts => files.deltas[r].target \subseteq db.events
      BY <2>1 DEF IInv, DeltasKnown
    <3>3. \A r \in DOMAIN deltas :
             /\ deltas[r].by \in Nat /\ deltas[r].by <= used.starts
             /\ deltas[r].by = used.starts => deltas[r].target \subseteq db'.events
      BY <2>15, <3>1, <3>2
    <3> QED BY <2>2, <2>11, <3>1, <3>2, <3>3 DEF DeltasKnown, Starting, Startup
  <2> QED BY <2>8, <2>10, <2>12, <2>16 DEF IInv
<1> QED BY <1>1, <1>2

LEMMA NextInv == ASSUME IInv, [Next]_vars PROVE IInv'
<1>1. CASE UNCHANGED vars
  BY <1>1 DEF vars, IInv, Typed, InStep, Linked, DeltasKnown
<1>2. CASE Offline
  BY <1>2, OfflineInv
<1>3. CASE Serving
  <2>1. CASE \E p \in Policies, r \in Retentions : Start(p, r)
    BY <2>1, StartInv
  <2>2. CASE Stop
    BY <2>2, Stopping, StoppedDeltas DEF Stop
  <2>3. CASE \E e \in Offered : Receive(e)
    BY <2>3, ReceiveInv
  <2> QED BY <1>3, <2>1, <2>2, <2>3, ImportInv, RetentionInv, AlignInv, LoadInv, SaveInv,
             PublishInv DEF Serving
<1> QED BY <1>1, <1>2, <1>3 DEF Next

\* The invariant holds for every set of events and policies, any numbers of
\* starts and commands, and whatever step the process dies at.
THEOREM Invariant == Spec => []IInv
<1>1. Init => IInv
  BY InitInv
<1>2. IInv /\ [Next]_vars => IInv'
  BY NextInv
<1> QED BY <1>1, <1>2, PTL DEF Spec

-----------------------------------------------------------------------------
(* What users rely on.                                                     *)

\* ServedIsClean: a running server shows nothing that its policy hides in its
\* database, mirror, memory, snapshots and the deltas it writes, although scrub
\* is skipped for an unchanged policy, deleted events come back from the mirror,
\* and checkpointed Runs are served without being filtered again.  Deltas that
\* earlier servers left are not among them (persist_run_data).
THEOREM NothingHiddenIsServed == Spec => []ServedIsClean
<1>1. ASSUME IInv PROVE ServedIsClean
  <2> SUFFICES ASSUME proc.pc = "up" PROVE ServedIsClean
    BY DEF ServedIsClean
  <2>1. /\ db.fingerprint = proc.policy /\ mirror = db.events
        /\ proc.runs = CatalogOf(db.events) /\ files.runs = CatalogOf(db.events)
    BY <1>1 DEF IInv, Typed, InStep
  <2>2. \A e \in db.events : Clean(proc.policy, e)
    BY <1>1, <2>1 DEF IInv, Sane, Filtered
  <2>3. ASSUME NEW r \in DOMAIN CatalogOf(db.events)
        PROVE  CatalogOf(db.events)[r] \subseteq db.events
    BY <2>3, RunsWithin
  <2>5. \A r \in OwnDeltas(used.starts) : files.deltas[r].target \subseteq db.events
    BY <1>1 DEF IInv, DeltasKnown, OwnDeltas
  <2> DEFINE runs == CatalogOf(db.events)
  <2> HIDE DEF runs
  <2>4. InRuns(proc.runs) \subseteq db.events /\ InRuns(files.runs) \subseteq db.events
    <3>1. \A r \in DOMAIN runs : runs[r] \subseteq db.events
      BY <2>3 DEF runs
    <3>2. UNION {runs[r] : r \in DOMAIN runs} \subseteq db.events
      BY <3>1
    <3> QED BY <2>1, <3>2 DEF runs, InRuns
  <2>6. UNION {files.deltas[r].target : r \in OwnDeltas(used.starts)} \subseteq db.events
    BY <2>5
  <2> QED BY <2>1, <2>2, <2>4, <2>6 DEF ServedIsClean
<1> QED BY <1>1, Invariant, PTL

\* HealthyIsTrue: no order of scrubs, imports, prunes, deletes and repairs leaves
\* a checkpoint that doctor calls healthy and that is not the fold of the events.
THEOREM DoctorIsRight == Spec => []HealthyIsTrue
<1>1. ASSUME IInv PROVE HealthyIsTrue
  BY <1>1, HealthyIsFold DEF IInv, HealthyIsTrue, Diagnosis
<1> QED BY <1>1, Invariant, PTL

LEMMA NextKeeps == ASSUME IInv, [Next]_vars PROVE Kept(db.events, db'.events)
<1>1. CASE db'.events = db.events
  BY <1>1, LinksOfParts
<1>2. ASSUME NEW p, db' = Scrub(db, p) PROVE Kept(db.events, db'.events)
  BY <1>2, ScrubIsSane, LinksOfParts DEF IInv
<1>3. ASSUME NEW p, db' = Retain(db, p) PROVE Kept(db.events, db'.events)
  BY <1>3, RetainIsSane, StoredLineage DEF IInv
<1>4. CASE Offline
  <2>1. CASE \E src \in Sources, session \in Sessions, dataDir \in BOOLEAN :
                DeleteCommand(src, session, dataDir)
    BY <2>1, DeleteIsSane DEF IInv, DeleteCommand, Command
  <2>2. CASE \E dataDir \in BOOLEAN : RepairCommand(dataDir)
    <3>1. db' = RepairDerivedState(db)
      BY <2>2 DEF RepairCommand, Command
    <3> QED BY <1>1, <3>1, SaveIsSane DEF IInv, RepairDerivedState
  <2>3. CASE DoctorCommand
    BY <1>1, <2>3 DEF DoctorCommand, vars
  <2> QED BY <1>2, <1>3, <1>4, <2>1, <2>2, <2>3
          DEF Offline, ScrubCommand, PruneCommand, Command
<1>5. CASE ImportMirror
  <2>1. db' = db \/ db' = Store(db, db.events \cup Imported(proc.policy))
    BY <1>5 DEF ImportMirror, Insert
  <2>2. db' = db \/ db'.events = db.events \cup Imported(proc.policy)
    BY <2>1, StoreFields DEF IInv, Sane
  <2> QED BY <1>1, <2>2, LinksOfParts
<1>6. CASE SaveProjection
  <2>1. IsDb(db) /\ db' = Save(db, proc.runs)
    BY <1>6 DEF SaveProjection, IInv, Sane
  <2> QED BY <1>1, <2>1, SavedFields
<1>7. CASE \E e \in Offered : Receive(e)
  <2>1. PICK e \in Offered : Receive(e)
    BY <1>7
  <2> DEFINE d == Insert(db, {Sanitize(proc.policy, e)})
  <2>2. db' = db \/ \E runs : db' = Save(d, runs)
    BY <2>1 DEF Receive, vars
  <2>3. IsDb(d) /\ d.events = db.events \cup {Sanitize(proc.policy, e)}
    BY StoreFields DEF IInv, Sane, Insert
  <2> HIDE DEF d
  <2>4. db' = db \/ db'.events = d.events
    BY <2>2, <2>3, SavedFields
  <2> QED BY <1>1, <2>3, <2>4, LinksOfParts
<1>8. CASE UNCHANGED db
  BY <1>1, <1>8
<1>9. CASE Serving
  BY <1>2, <1>3, <1>5, <1>6, <1>7, <1>8, <1>9
  DEF Serving, Start, ApplyRetention, AlignMirror, LoadProjection, Publish, Stop
<1> QED BY <1>4, <1>8, <1>9 DEF Next, vars

\* NoOrphans: a session whose parent session was stored has it still, or is gone
\* too, whatever retention, deletes, scrubs and imports do: an import cannot
\* give a session another parent than the one it was stored with.
THEOREM NobodyIsOrphaned == Spec => NoOrphans
<1>1. IInv /\ [Next]_vars => [Kept(db.events, db'.events)]_vars
  BY NextKeeps
<1> QED BY <1>1, Invariant, PTL DEF Spec, NoOrphans

-----------------------------------------------------------------------------
(* Retention.                                                              *)

\* A finite set of numbers has a greatest member.
LEMMA Greatest ==
  ASSUME NEW T \in SUBSET Nat, IsFiniteSet(T), T # {}
  PROVE  \E m \in T : \A n \in T : n <= m
<1> DEFINE bounds == {m \in Nat : \A n \in T : n <= m}
<1>1. PICK n \in Nat : ExistsBijection(1 .. n, T)
  BY FS_NatBijection
<1>2. PICK f \in Bijection(1 .. n, T) : TRUE
  BY <1>1 DEF ExistsBijection
<1>3. f \in [1 .. n -> T] /\ \A x \in T : \E i \in 1 .. n : f[i] = x
  BY DEF Bijection, Surjection
<1> DEFINE upto == {i \in 0 .. n : \E m \in Nat : \A j \in 1 .. i : f[j] <= m}
<1>4. 0 \in upto
  OBVIOUS
<1>5. ASSUME NEW i \in 1 .. n, i - 1 \in upto PROVE i \in upto
  <2>1. PICK m \in Nat : \A j \in 1 .. i - 1 : f[j] <= m
    BY <1>5
  <2>2. ASSUME NEW j \in 1 .. i PROVE f[j] \in Nat
    <3>1. j \in 1 .. n
      OBVIOUS
    <3>2. f[j] \in T
      BY <1>3, <3>1
    <3> QED BY <3>2
  <2> DEFINE top == m + f[i]
  <2>3. top \in Nat /\ f[i] <= top /\ m <= top
    <3>1. f[i] \in Nat
      BY <2>2
    <3> QED BY <3>1
  <2> HIDE DEF top
  <2>4. ASSUME NEW j \in 1 .. i PROVE f[j] <= top
    <3>1. CASE j = i
      BY <2>3, <3>1
    <3>2. CASE j # i
      <4>1. j \in 1 .. i - 1
        BY <3>2
      <4>2. f[j] <= m /\ f[j] \in Nat
        BY <2>1, <2>2, <4>1
      <4> QED BY <2>3, <4>2
    <3> QED BY <3>1, <3>2
  <2> QED BY <2>3, <2>4, SMTT(30)
<1>6. n \in upto
  <2> HIDE DEF upto
  <2>1. \A i \in 0 .. n : i \in upto
    BY <1>4, <1>5, UpTo
  <2> QED BY <2>1
<1>7. bounds \in SUBSET Nat /\ bounds # {}
  BY <1>3, <1>6, SMTT(30)
<1>8. PICK m \in bounds : \A b \in bounds : m <= b
  <2> HIDE DEF bounds
  <2> QED BY <1>7, Least
<1>9. m \in T
  <2> SUFFICES ASSUME m \notin T PROVE FALSE
    OBVIOUS
  <2>1. m \in Nat /\ \A x \in T : x \in Nat /\ x <= m /\ x # m
    BY <1>8
  <2>2. m - 1 \in Nat /\ \A x \in T : x <= m - 1
    <3>1. PICK x \in T : TRUE
      OBVIOUS
    <3> QED BY <2>1, <3>1
  <2>3. m <= m - 1
    BY <1>8, <2>2
  <2> QED BY <2>3
<1> QED BY <1>9

LEMMA LastSeenIsNumber ==
  ASSUME NEW G, EventSet(G), G # {}
  PROVE  LastSeen(G) \in Nat
<1> DEFINE times == {e.content.at : e \in G}
           f == [e \in G |-> e.content.at]
<1>1. times \in SUBSET Nat /\ times # {}
  BY DEF EventSet, IsEvent
<1>2. IsFiniteSet(times)
  <2>1. f \in Surjection(G, times)
    BY DEF Surjection
  <2> HIDE DEF f, times
  <2> QED BY <2>1, FS_Surjection DEF EventSet
<1> HIDE DEF times
<1>3. \E t \in times : \A n \in times : n <= t
  BY <1>1, <1>2, Greatest
<1>4. \E t \in times : \A e \in G : e.content.at <= t
  BY <1>3 DEF times
<1>5. LastSeen(G) \in times
  BY <1>4 DEF LastSeen, times
<1> QED BY <1>1, <1>5

\* A walk that does not go round ends, at a session of the set.
LEMMA StoredRootIsSession ==
  ASSUME NEW E, ~ConflictingLineage(E), ~Circular(Links(E)), NEW k \in SessionsOf(E)
  PROVE  StoredRoot(k, E) \in SessionsOf(E)
<1> DEFINE S == SessionsOf(E)
           P == ParentsOf(E)
           C == Visited(k, S, P)
           ends == {v \in C : ~(v \in DOMAIN P /\ P[v] \in S)}
           Up(A) == /\ k \in A
                    /\ \A a \in A : (a \in DOMAIN P /\ P[a] \in S) => P[a] \in A
<1>1. C = {v \in S : \A A \in SUBSET S : Up(A) => v \in A}
  BY DEF Visited
<1>2. k \in C /\ C \subseteq S
  BY <1>1
<1>3. ASSUME NEW v \in C, v \in DOMAIN P, P[v] \in S PROVE P[v] \in C
  <2>1. ASSUME NEW A \in SUBSET S, Up(A) PROVE P[v] \in A
    <3>1. v \in A
      <4> HIDE DEF Up, C
      <4> QED BY <1>1, <1>3, <2>1
    <3> QED BY <1>3, <2>1, <3>1
  <2> HIDE DEF Up, C
  <2> QED BY <1>1, <1>3, <2>1
<1>4. ASSUME NEW v \in DOMAIN P PROVE <<v, P[v]>> \in Links(E)
  <2>1. PICK e \in E : HasParent(e) /\ KeyOf(e) = v
    BY DEF ParentsOf, ChildrenOf
  <2>2. P[v] = ParentKey(e)
    BY <2>1, ParentAgrees
  <2> QED BY <2>1, <2>2 DEF Links
<1> HIDE DEF C, P
<1>5. ends # {}
  <2> SUFFICES ASSUME ends = {} PROVE FALSE
    OBVIOUS
  <2>1. \A v \in C : v \in DOMAIN P /\ P[v] \in S
    OBVIOUS
  <2>2. \A v \in C : P[v] \in C /\ <<v, P[v]>> \in Links(E)
    BY <1>3, <1>4, <2>1
  <2>3. ASSUME NEW v \in C PROVE v \in {l[1] : l \in Links(E)}
    <3>1. <<v, P[v]>> \in Links(E) /\ <<v, P[v]>>[1] = v
      BY <2>2
    <3> QED BY <3>1
  <2> QED BY <1>2, <2>2, <2>3 DEF Circular
<1>6. StoredRoot(k, E) = CHOOSE v \in ends : TRUE
  BY DEF StoredRoot, C, P
<1>7. ends \subseteq S
  BY <1>2
<1> HIDE DEF ends
<1> QED BY <1>5, <1>6, <1>7

\* Of any Runs there is one that no other of them is older than.
LEMMA OldestRun ==
  ASSUME NEW E, EventSet(E), ~ConflictingLineage(E), ~Circular(Links(E)),
         NEW K, K \subseteq StoredRoots(E), K # {}
  PROVE  \E k \in K : \A j \in K : ~Older(E, j, k)
<1> DEFINE seen(r) == LastSeen(StoredGroup(E, r))
<1>1. ASSUME NEW r \in K PROVE seen(r) \in Nat /\ r[2] \in Nat
  <2>1. PICK k \in SessionsOf(E) : r = StoredRoot(k, E)
    BY DEF StoredRoots
  <2>2. PICK e \in E : k = KeyOf(e)
    BY DEF SessionsOf
  <2>3. StoredGroup(E, r) # {} /\ EventSet(StoredGroup(E, r))
    BY <2>1, <2>2, FS_Subset DEF StoredGroup, EventSet
  <2>4. r \in SessionsOf(E)
    BY <2>1, StoredRootIsSession
  <2>5. PICK f \in E : r = KeyOf(f)
    BY <2>4 DEF SessionsOf
  <2>6. r[2] = f.session /\ f.session \in Sessions
    BY <2>5 DEF KeyOf, EventSet, IsEvent
  <2> QED BY <2>3, <2>6, LastSeenIsNumber, MaintenanceAssumption
<1> HIDE DEF seen
<1> DEFINE times == {seen(r) : r \in K}
<1>2. times \in SUBSET Nat /\ times # {}
  BY <1>1
<1>3. PICK t \in times : \A u \in times : t <= u
  <2> HIDE DEF times
  <2> QED BY <1>2, Least
<1> DEFINE first == {r \in K : seen(r) = t}
           ids   == {r[2] : r \in first}
<1>4. ids \in SUBSET Nat /\ ids # {}
  BY <1>1, <1>3
<1>5. PICK n \in ids : \A m \in ids : n <= m
  <2> HIDE DEF ids
  <2> QED BY <1>4, Least
<1>6. PICK k \in first : k[2] = n
  OBVIOUS
<1>7. ASSUME NEW j \in K PROVE ~(seen(j) < seen(k) \/ (seen(j) = seen(k) /\ j[2] < k[2]))
  <2>1. seen(k) = t /\ t <= seen(j) /\ t \in Nat /\ seen(j) \in Nat /\ n \in Nat /\ j[2] \in Nat
    BY <1>1, <1>2, <1>3, <1>4
  <2>2. seen(j) = t => n <= j[2]
    BY <1>5
  <2> QED BY <1>6, <2>1, <2>2
<1>8. \A j \in K : ~Older(E, j, k)
  BY <1>7 DEF Older, seen
<1> QED BY <1>6, <1>8

LEMMA MinimalRetention ==
  ASSUME NEW E, EventSet(E), ~ConflictingLineage(E), ~Circular(Links(E)),
         NEW r \in Retentions
  PROVE  MinimalRemoval(E, Remainder(E, r), r)
<1> DEFINE F == Remainder(E, r)
           gone == {k \in StoredRoots(E) : StoredGroup(E, k) \cap F = {}}
           newer(k) == UNION {StoredGroup(E, j) : j \in {j \in StoredRoots(E) : ~Older(E, j, k)}}
<1>1. \A e \in E : StoredRoot(KeyOf(e), E) \in StoredRoots(E)
  BY DEF StoredRoots, SessionsOf
<1>2. ASSUME NEW k \in StoredRoots(E)
      PROVE  /\ k \in Doomed(E, r) => k \in gone
             /\ k \notin Doomed(E, r) => k \notin gone /\ StoredGroup(E, k) \subseteq F
  <2>1. \A e \in StoredGroup(E, k) : e \in E /\ StoredRoot(KeyOf(e), E) = k
    BY DEF StoredGroup
  <2>2. \E e \in E : StoredRoot(KeyOf(e), E) = k
    BY DEF StoredRoots, SessionsOf
  <2> QED BY <2>1, <2>2 DEF Remainder, StoredGroup
<1>3. IsFiniteSet(E)
  BY DEF EventSet
<1>4. ASSUME r.max # None PROVE Cardinality(F) <= r.max
  <2> DEFINE K == StoredRoots(E) \ Doomed(E, r)
  <2>1. r.max \in Nat
    BY <1>4, MaintenanceAssumption
  <2>2. CASE F = {}
    BY <2>1, <2>2, FS_EmptySet
  <2>3. CASE F # {}
    <3>1. \A e \in F : e \in E /\ StoredRoot(KeyOf(e), E) \in K
      BY <1>1 DEF Remainder
    <3>2. K \subseteq StoredRoots(E) /\ K # {}
      BY <2>3, <3>1
    <3>3. PICK k \in K : \A j \in K : ~Older(E, j, k)
      <4> HIDE DEF K
      <4> QED BY <3>2, OldestRun
    <3> DEFINE left == Remaining(E, r, k)
    <3>4. F \subseteq left
      BY <3>1, <3>3 DEF Remaining, Doomed
    <3>5. ~(Cardinality(left) > r.max)
      BY <1>4, <3>3 DEF Doomed, Surplus
    <3>6. left \subseteq E
      BY DEF Remaining
    <3> HIDE DEF left, F
    <3>7. IsFiniteSet(left)
      BY <1>3, <3>6, FS_Subset
    <3>8. Cardinality(F) <= Cardinality(left) /\ Cardinality(left) \in Nat
      BY <3>4, <3>7, FS_Subset, FS_CardinalityType
    <3>9. IsFiniteSet(F) /\ Cardinality(F) \in Nat
      BY <3>4, <3>7, FS_Subset, FS_CardinalityType
    <3> QED BY <2>1, <3>5, <3>8, <3>9
  <2> QED BY <2>2, <2>3
<1>5. ASSUME NEW k \in gone
      PROVE  \/ r.before # None /\ LastSeen(StoredGroup(E, k)) < r.before
             \/ r.max # None /\ Cardinality(newer(k)) > r.max
  <2>1. k \in StoredRoots(E) /\ k \in Expired(E, r) \cup Surplus(E, r)
    BY <1>2, <1>5 DEF Doomed
  <2>2. CASE k \in Expired(E, r)
    BY <2>2 DEF Expired
  <2>3. CASE k \in Surplus(E, r)
    <3> DEFINE left == Remaining(E, r, k)
    <3>1. r.max # None /\ Cardinality(left) > r.max
      BY <2>3 DEF Surplus
    <3>2. r.max \in Nat
      BY <3>1, MaintenanceAssumption
    <3>3. left \subseteq newer(k)
      <4>1. ASSUME NEW e \in left PROVE e \in newer(k)
        <5> DEFINE j == StoredRoot(KeyOf(e), E)
        <5>1. e \in E /\ ~Older(E, j, k)
          BY <4>1 DEF Remaining
        <5>2. j \in StoredRoots(E) /\ e \in StoredGroup(E, j)
          BY <1>1, <5>1 DEF StoredGroup
        <5> QED BY <5>1, <5>2
      <4> QED BY <4>1
    <3>4. newer(k) \subseteq E
      BY DEF StoredGroup
    <3> DEFINE more == newer(k)
    <3> HIDE DEF left, more, newer
    <3>5. IsFiniteSet(more) /\ left \subseteq more
      BY <1>3, <3>3, <3>4, FS_Subset DEF more
    <3>6. /\ Cardinality(left) <= Cardinality(more) /\ Cardinality(more) \in Nat
          /\ Cardinality(left) \in Nat
      BY <3>5, FS_Subset, FS_CardinalityType
    <3> QED BY <3>1, <3>2, <3>6 DEF more
  <2> QED BY <2>1, <2>2, <2>3
<1> HIDE DEF F, newer
<1>6. \A k \in StoredRoots(E) \ gone : StoredGroup(E, k) \subseteq F
  BY <1>2
<1> HIDE DEF gone
<1> QED BY <1>4, <1>5, <1>6 DEF MinimalRemoval, F, gone, newer

\* RetentionIsMinimal: retention at startup deletes expired Runs, and of the
\* others the oldest until no more than the maximum are left, whole Runs only.
THEOREM RetentionTakesTheOldest == Spec => RetentionIsMinimal
<1>1. ASSUME IInv, [Next]_vars, proc.pc = "retain", proc'.pc = "align"
      PROVE  MinimalRemoval(db.events, db'.events, proc.retention)
  <2>1. ApplyRetention
    BY <1>1 DEF Next, Serving, Offline, vars, Start, ImportMirror, AlignMirror, LoadProjection,
       SaveProjection, Publish, Stop, Stopped, Receive, ScrubCommand, DeleteCommand,
       PruneCommand, RepairCommand, DoctorCommand, Command
  <2>2. db'.events = Remainder(db.events, proc.retention) /\ proc.retention \in Retentions
    BY <1>1, <2>1, RetainIsSane DEF ApplyRetention, IInv, Typed, Startup
  <2> QED BY <1>1, <2>2, MinimalRetention, StoredLineage DEF IInv, Sane
<1>2. IInv /\ [Next]_vars =>
        [proc.pc = "retain" /\ proc'.pc = "align"
            => MinimalRemoval(db.events, db'.events, proc.retention)]_vars
  BY <1>1
<1> QED BY <1>2, Invariant, PTL DEF Spec, RetentionIsMinimal

=============================================================================
