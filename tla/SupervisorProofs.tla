-------------------------- MODULE SupervisorProofs ---------------------------
(***************************************************************************)
(* Proofs about Supervisor, for any number of watchers and of server       *)
(* starts: every child is held by the program that started it, a repair    *)
(* never runs beside a server that the desktop started, and as long as no  *)
(* server of the desktop has exited by itself its watchers have the token  *)
(* of the server.                                                          *)
(*                                                                         *)
(* The invariant: the children, dead or alive, are exactly those that the  *)
(* records of the desktop and the stack of orche name, each named once     *)
(* (Held); the mutex is held by the main thread from the middle of a start *)
(* or stop to its end and by a repair for as long as it runs (Excluded);   *)
(* and as long as the desktop's server did not leave by itself, a watcher  *)
(* is only there with the server whose token it has (Current).             *)
(*                                                                         *)
(* The second part is about orche's screen: proofs about Terminal, for any *)
(* number of Runs, publications and keys.  Its invariant says that what    *)
(* the client's catalog lists is on disk at that revision or a later one,  *)
(* unless the Run's files have been removed since (Announced), and what    *)
(* each place of the client relies on: it shows what it has selected, or   *)
(* it has reported an error and read nothing since (InPlace).              *)
(***************************************************************************)
EXTENDS Supervisor, Terminal, FiniteSetTheorems, FunctionTheorems, TLAPS

Tokens == Nat \cup {NoToken}
States == {"booting", "bound", "up", "draining", "dead"}
ChildType == [kind : {"serve", "watcher"}, owner : {"desktop", "orche"}, token : Tokens,
              state : States]
RecordType == [child : Nat \cup {NoPid}, token : Tokens,
               phase : {"running", "exited", "stopped", "unavailable"}]
DeskType == [pc : {"idle", "start", "attach", "stop", "shutdown", "await", "kill"},
             guard : {Free, "main", "repair"}, repair : {"none", "asked", "running"},
             ingest : RecordType, watchers : [Watchers -> RecordType]]
OrcheType == [pc : {"off", "waiting", "spawning", "failed"}, stack : SUBSET Nat,
              token : Tokens, todo : SUBSET Watchers]

ProcsType(f) == /\ IsFiniteSet(DOMAIN f) /\ DOMAIN f \subseteq Nat
                /\ f \in [DOMAIN f -> ChildType]

TypeOK == /\ ProcsType(procs) /\ port \in Nat \cup {NoPid} /\ config \in Tokens
          /\ desk \in DeskType /\ orche \in OrcheType
          /\ used \in [serves : Nat, lost : BOOLEAN]

\* A child p of f that is the owner's and of the kind.
IsChild(f, p, owner, kind) == p \in DOMAIN f /\ f[p].owner = owner /\ f[p].kind = kind

Held(f, ingest, watchers, stack) ==
    /\ \A p \in DOMAIN f : \/ f[p].owner = "orche" /\ p \in stack
                           \/ p = ingest.child
                           \/ \E n \in Watchers : p = watchers[n].child
    /\ \A p \in stack : p \in DOMAIN f /\ f[p].owner = "orche"
    /\ ingest.child # NoPid => IsChild(f, ingest.child, "desktop", "serve")
    /\ \A n \in Watchers : watchers[n].child # NoPid =>
          IsChild(f, watchers[n].child, "desktop", "watcher")
    /\ \A m, n \in Watchers : m # n /\ watchers[m].child # NoPid =>
          watchers[m].child # watchers[n].child

Excluded ==
    /\ desk.guard = "repair" <=> desk.repair = "running"
    /\ desk.guard = "main" <=> desk.pc \in {"attach", "shutdown", "await", "kill"}
    /\ desk.repair = "running" => desk.ingest.child = NoPid

Recorded ==
    /\ desk.ingest.child # NoPid <=> desk.ingest.phase = "running"
    /\ desk.ingest.child = NoPid => desk.ingest.token = NoToken
    /\ desk.pc = "attach" => desk.ingest.child # NoPid
    /\ desk.pc \in {"shutdown", "await", "kill"} =>
          \A n \in Watchers : desk.watchers[n].child = NoPid
    /\ orche.pc = "off" => orche.stack = {}

\* The server has not been told to stop and has not failed.
Serving(f, p) == p \in DOMAIN f /\ f[p].state \notin {"draining", "dead"}

Current ==
    ~used.lost =>
       /\ \A n \in Watchers : desk.watchers[n].child # NoPid =>
             desk.ingest.child # NoPid /\ desk.watchers[n].token = desk.ingest.token
       /\ desk.ingest.child # NoPid /\ desk.pc \notin {"await", "kill"} =>
             Serving(procs, desk.ingest.child)

IInv == /\ TypeOK /\ Held(procs, desk.ingest, desk.watchers, orche.stack)
        /\ Excluded /\ Recorded /\ Current

-----------------------------------------------------------------------------
(* Children that come and go.                                              *)

\* There are free pids for any finite set of names.
LEMMA SpawnedNew ==
  ASSUME NEW f, IsFiniteSet(DOMAIN f), DOMAIN f \subseteq Nat, NEW names, IsFiniteSet(names)
  PROVE  /\ Spawned(f, names) \in [names -> Nat \ DOMAIN f]
         /\ \A a, b \in names : a # b => Spawned(f, names)[a] # Spawned(f, names)[b]
<1> DEFINE d == Cardinality(DOMAIN f)
           n == Cardinality(names)
           all == 1 .. (d + n)
           free == FreePids(f, n)
<1>1. d \in Nat /\ n \in Nat
  BY FS_CardinalityType
<1>2. IsFiniteSet(all) /\ Cardinality(all) = d + n
  <2>1. 1 \in Int /\ d + n \in Int
    BY <1>1
  <2>2. IsFiniteSet(all) /\ Cardinality(all) = IF 1 > d + n THEN 0 ELSE (d + n) - 1 + 1
    <3> HIDE DEF d, n
    <3> QED BY <2>1, FS_Interval
  <2> HIDE DEF all, d, n
  <2> QED BY <1>1, <2>2
<1>3. IsFiniteSet(free) /\ Cardinality(free) >= n
  <2>1. free = all \ DOMAIN f
    BY DEF FreePids
  <2> DEFINE both == all \cap DOMAIN f
  <2>2. IsFiniteSet(free) /\ Cardinality(free) = Cardinality(all) - Cardinality(both)
    <3> HIDE DEF all, free
    <3> QED BY <1>2, <2>1, FS_Difference
  <2>3. Cardinality(both) <= d /\ Cardinality(both) \in Nat
    <3>1. IsFiniteSet(both) /\ Cardinality(both) <= d
      BY FS_Intersection
    <3> QED BY <3>1, FS_CardinalityType
  <2> HIDE DEF d, n, all, both, free
  <2> QED BY <1>1, <1>2, <2>2, <2>3
<1> HIDE DEF d, all
<1>4. ExistsInjection(names, free)
  <2> DEFINE m == Cardinality(free)
  <2>1. m \in Nat /\ ExistsBijection(1 .. m, free) /\ ExistsBijection(1 .. n, names)
    BY <1>3, FS_CardinalityType
  <2>2. ExistsInjection(1 .. n, 1 .. m)
    <3> HIDE DEF n, m, free
    <3>1. n <= m
      BY <1>1, <1>3, <2>1 DEF m
    <3> QED BY <3>1, <1>1, <2>1, Fun_NatInjLeq
  <2> HIDE DEF n, m, free
  <2>3. ExistsInjection(names, 1 .. n) /\ ExistsInjection(1 .. m, free)
    BY <2>1, Fun_ExistsBijEquiv
  <2>4. ExistsInjection(names, 1 .. m)
    BY <2>2, <2>3, Fun_ExistsInjTransitive
  <2> QED BY <2>3, <2>4, Fun_ExistsInjTransitive
<1>5. \E pid \in [names -> free] : \A a, b \in names : a # b => pid[a] # pid[b]
  <2>1. PICK pid \in [names -> free] : IsInjective(pid)
    BY <1>4 DEF ExistsInjection, Injection
  <2> QED BY <2>1 DEF IsInjective
<1>6. /\ Spawned(f, names) \in [names -> free]
      /\ \A a, b \in names : a # b => Spawned(f, names)[a] # Spawned(f, names)[b]
  BY <1>5 DEF Spawned
<1>7. free \subseteq Nat \ DOMAIN f
  <2>1. 1 .. (d + n) \subseteq Nat
    BY <1>1
  <2> QED BY <2>1 DEF FreePids, d
<1> QED BY <1>6, <1>7

\* The children of P are reaped, and nothing names them any more.
LEMMA Dropped ==
  ASSUME NEW f, NEW i, NEW w, NEW st, NEW i2, NEW w2, NEW P, Held(f, i, w, st),
         i2.child = IF i.child \in P THEN NoPid ELSE i.child,
         \A n \in Watchers : w2[n].child = IF w[n].child \in P THEN NoPid ELSE w[n].child
  PROVE  Held(Reap(f, P), i2, w2, st \ P)
<1>1. /\ DOMAIN Reap(f, P) = DOMAIN f \ P
      /\ \A p \in DOMAIN f \ P : Reap(f, P)[p] = f[p]
  BY DEF Reap
<1> DEFINE g == Reap(f, P)
<1> HIDE DEF g
<1>2. DOMAIN g = DOMAIN f \ P /\ \A p \in DOMAIN f \ P : g[p] = f[p]
  BY <1>1 DEF g
<1>3. \A p \in DOMAIN g : \/ g[p].owner = "orche" /\ p \in st \ P
                          \/ p = i2.child
                          \/ \E n \in Watchers : p = w2[n].child
  BY <1>2 DEF Held
<1>4. \A p \in st \ P : p \in DOMAIN g /\ g[p].owner = "orche"
  BY <1>2 DEF Held
<1>5. i2.child # NoPid => IsChild(g, i2.child, "desktop", "serve")
  BY <1>2 DEF Held, IsChild
<1>6. \A n \in Watchers : w2[n].child # NoPid => IsChild(g, w2[n].child, "desktop", "watcher")
  BY <1>2 DEF Held, IsChild
<1>7. \A m, n \in Watchers : m # n /\ w2[m].child # NoPid => w2[m].child # w2[n].child
  BY DEF Held
<1> QED BY <1>3, <1>4, <1>5, <1>6, <1>7 DEF Held, g

LEMMA ReapType ==
  ASSUME NEW f, NEW P, ProcsType(f)
  PROVE  ProcsType(Reap(f, P))
<1>1. IsFiniteSet(DOMAIN f \ P)
  BY FS_Difference DEF ProcsType
<1> QED BY <1>1 DEF ProcsType, Reap

\* A child's state changes.
LEMMA StateChanged ==
  ASSUME NEW f, NEW g, NEW i, NEW w, NEW st, Held(f, i, w, st), DOMAIN g = DOMAIN f,
         \A p \in DOMAIN f : g[p].owner = f[p].owner /\ g[p].kind = f[p].kind
  PROVE  Held(g, i, w, st)
BY DEF Held, IsChild

WithState(f, p, state) == [f EXCEPT ![p].state = state]

LEMMA StateType ==
  ASSUME NEW f, ProcsType(f), NEW p \in DOMAIN f, NEW state \in States
  PROVE  /\ ProcsType(WithState(f, p, state)) /\ DOMAIN WithState(f, p, state) = DOMAIN f
         /\ WithState(f, p, state)[p].state = state
         /\ \A q \in DOMAIN f : /\ WithState(f, p, state)[q].owner = f[q].owner
                                /\ WithState(f, p, state)[q].kind = f[q].kind
                                /\ q # p => WithState(f, p, state)[q] = f[q]
<1> DEFINE new == [f[p] EXCEPT !.state = state]
<1>1. f[p] \in ChildType
  BY DEF ProcsType
<1>2. /\ new \in ChildType /\ new.state = state /\ new.owner = f[p].owner
      /\ new.kind = f[p].kind
  BY <1>1 DEF ChildType
<1> HIDE DEF new
<1>3. WithState(f, p, state) = [f EXCEPT ![p] = new]
  BY DEF new, WithState
<1> QED BY <1>2, <1>3 DEF ProcsType

LEMMA NotAPid == ASSUME NEW f, ProcsType(f) PROVE NoPid \notin DOMAIN f
BY SupervisorAssumption DEF ProcsType

\* The desktop's server is reaped, some of its watchers, or what orche holds.
LEMMA IngestDropped ==
  ASSUME NEW f, NEW i, NEW w, NEW st, NEW i2, NEW P, ProcsType(f), Held(f, i, w, st),
         P \subseteq {i.child}, i2.child = IF i.child \in P THEN NoPid ELSE i.child
  PROVE  Held(Reap(f, P), i2, w, st)
<1>1. st \ P = st
  BY NotAPid DEF Held, IsChild
<1>2. \A n \in Watchers : w[n].child = IF w[n].child \in P THEN NoPid ELSE w[n].child
  BY NotAPid DEF Held, IsChild
<1>3. Held(Reap(f, P), i2, w, st \ P)
  BY <1>2, Dropped
<1> QED BY <1>1, <1>3

LEMMA WatchersDropped ==
  ASSUME NEW f, NEW i, NEW w, NEW st, NEW w2, NEW P, ProcsType(f), Held(f, i, w, st),
         P \subseteq {w[n].child : n \in Watchers},
         \A n \in Watchers : w2[n].child = IF w[n].child \in P THEN NoPid ELSE w[n].child
  PROVE  Held(Reap(f, P), i, w2, st)
<1>1. st \ P = st
  BY NotAPid DEF Held, IsChild
<1>2. i.child = IF i.child \in P THEN NoPid ELSE i.child
  BY NotAPid DEF Held, IsChild
<1>3. Held(Reap(f, P), i, w2, st \ P)
  BY <1>2, Dropped
<1> QED BY <1>1, <1>3

LEMMA StackDropped ==
  ASSUME NEW f, NEW i, NEW w, NEW st, ProcsType(f), Held(f, i, w, st)
  PROVE  Held(Reap(f, st), i, w, {})
<1>1. i.child = IF i.child \in st THEN NoPid ELSE i.child
  BY NotAPid DEF Held, IsChild
<1>2. \A n \in Watchers : w[n].child = IF w[n].child \in st THEN NoPid ELSE w[n].child
  BY NotAPid DEF Held, IsChild
<1>3. Held(Reap(f, st), i, w, st \ st)
  BY <1>1, <1>2, Dropped
<1> QED BY <1>3

\* The same for a server, a watcher of orche, and watchers that are started.
LEMMA IngestAdded ==
  ASSUME NEW f, NEW i, NEW w, NEW st, NEW i2, NEW g, NEW p, ProcsType(f), Held(f, i, w, st),
         i.child = NoPid, p \in Nat \ DOMAIN f, i2.child = p,
         DOMAIN g = DOMAIN f \cup {p}, \A q \in DOMAIN f : g[q] = f[q],
         g[p].owner = "desktop", g[p].kind = "serve"
  PROVE  Held(g, i2, w, st)
<1>1. \A q \in DOMAIN g : \/ g[q].owner = "orche" /\ q \in st
                          \/ q = i2.child
                          \/ \E n \in Watchers : q = w[n].child
  BY NotAPid DEF Held
<1> QED BY <1>1 DEF Held, IsChild

LEMMA StackAdded ==
  ASSUME NEW f, NEW i, NEW w, NEW st, NEW g, NEW p, ProcsType(f), Held(f, i, w, st),
         p \in Nat \ DOMAIN f, DOMAIN g = DOMAIN f \cup {p}, \A q \in DOMAIN f : g[q] = f[q],
         g[p].owner = "orche"
  PROVE  Held(g, i, w, st \cup {p})
<1>1. \A q \in DOMAIN g : \/ g[q].owner = "orche" /\ q \in st \cup {p}
                          \/ q = i.child
                          \/ \E n \in Watchers : q = w[n].child
  BY DEF Held
<1> QED BY <1>1 DEF Held, IsChild

LEMMA WatchersAdded ==
  ASSUME NEW f, NEW i, NEW w, NEW st, NEW w2, NEW g, ProcsType(f), Held(f, i, w, st),
         NEW new \in SUBSET Watchers, NEW pid \in [new -> Nat \ DOMAIN f],
         \A m, n \in new : m # n => pid[m] # pid[n],
         \A n \in new : w[n].child = NoPid,
         \A n \in Watchers : w2[n].child = IF n \in new THEN pid[n] ELSE w[n].child,
         DOMAIN g = DOMAIN f \cup {pid[n] : n \in new}, \A q \in DOMAIN f : g[q] = f[q],
         \A n \in new : g[pid[n]].owner = "desktop" /\ g[pid[n]].kind = "watcher"
  PROVE  Held(g, i, w2, st)
<1>1. \A q \in DOMAIN g : \/ g[q].owner = "orche" /\ q \in st
                          \/ q = i.child
                          \/ \E n \in Watchers : q = w2[n].child
  <2> TAKE q \in DOMAIN g
  <2>1. CASE q \in DOMAIN f
    <3>1. CASE \E n \in Watchers : q = w[n].child
      <4>1. PICK n \in Watchers : q = w[n].child
        BY <3>1
      <4>2. n \notin new
        BY <4>1, <2>1, NotAPid
      <4> QED BY <4>1, <4>2
    <3> QED BY <2>1, <3>1 DEF Held
  <2>2. CASE q \notin DOMAIN f
    BY <2>2
  <2> QED BY <2>1, <2>2
<1>2. \A q \in st : q \in DOMAIN g /\ g[q].owner = "orche"
  BY DEF Held
<1>3. i.child # NoPid => IsChild(g, i.child, "desktop", "serve")
  BY DEF Held, IsChild
<1>4. \A n \in Watchers : w2[n].child # NoPid => IsChild(g, w2[n].child, "desktop", "watcher")
  BY DEF Held, IsChild
<1>5. \A m, n \in Watchers : m # n /\ w2[m].child # NoPid => w2[m].child # w2[n].child
  <2> SUFFICES ASSUME NEW m \in Watchers, NEW n \in Watchers, m # n, w2[m].child # NoPid
               PROVE  w2[m].child # w2[n].child
    OBVIOUS
  <2>1. CASE m \in new /\ n \in new
    BY <2>1
  <2>2. CASE m \in new /\ n \notin new
    <3>1. w2[m].child \in Nat \ DOMAIN f /\ w2[n].child = w[n].child
      BY <2>2
    <3>2. w2[n].child = NoPid \/ w2[n].child \in DOMAIN f
      BY <3>1 DEF Held, IsChild
    <3> QED BY <3>1, <3>2
  <2>3. CASE m \notin new /\ n \in new
    <3>1. w2[n].child \in Nat \ DOMAIN f /\ w2[m].child = w[m].child
      BY <2>3
    <3> QED BY <3>1 DEF Held, IsChild
  <2>4. CASE m \notin new /\ n \notin new
    BY <2>4 DEF Held
  <2> QED BY <2>1, <2>2, <2>3, <2>4
<1> QED BY <1>1, <1>2, <1>3, <1>4, <1>5 DEF Held

\* Children that are started have a type.
LEMMA AddedType ==
  ASSUME NEW f, ProcsType(f), NEW P, P \subseteq Nat, IsFiniteSet(P), NEW g, NEW c \in ChildType,
         g = [p \in DOMAIN f \cup P |-> IF p \in P THEN c ELSE f[p]]
  PROVE  ProcsType(g)
<1>1. IsFiniteSet(DOMAIN f \cup P)
  BY FS_Union DEF ProcsType
<1> QED BY <1>1 DEF ProcsType

-----------------------------------------------------------------------------
(* Every action keeps the invariant.                                       *)
LEMMA InitInvariant == Init => IInv
<1> SUFFICES ASSUME Init PROVE IInv
  OBVIOUS
<1>1. Stopped \in RecordType /\ Stopped.child = NoPid /\ Stopped.token = NoToken
      /\ Stopped.phase = "stopped"
  BY DEF Stopped, RecordType, Tokens
<1>2. procs = [p \in {} |-> Stopped] /\ DOMAIN procs = {}
  BY DEF Init
<1>3. ProcsType(procs)
  BY <1>2, FS_EmptySet DEF ProcsType
<1>4. /\ desk \in DeskType /\ desk.ingest = Stopped /\ desk.pc = "idle" /\ desk.guard = Free
      /\ desk.repair = "none" /\ \A n \in Watchers : desk.watchers[n] = Stopped
  BY <1>1 DEF Init, DeskType
<1>5. orche \in OrcheType /\ orche.stack = {}
  BY DEF Init, OrcheFailed, OrcheType, Tokens
<1>6. TypeOK
  BY <1>3, <1>4, <1>5 DEF TypeOK, Init, Tokens
<1>7. Held(procs, desk.ingest, desk.watchers, orche.stack)
  BY <1>1, <1>2, <1>4, <1>5 DEF Held
<1>8. Excluded /\ Recorded /\ Current
  BY <1>1, <1>4, <1>5, SupervisorAssumption DEF Excluded, Recorded, Current
<1> QED BY <1>6, <1>7, <1>8 DEF IInv

LEMMA PortType ==
  ASSUME TypeOK, NEW P
  PROVE  PortWithout(P) \in Nat \cup {NoPid}
BY DEF PortWithout, TypeOK

\* A step of a child: it can only leave Serving when it is told to stop, when
\* nobody holds the server, or when that is noted as lost.
LEMMA KeptByChildren ==
  \A p \in DOMAIN procs : IInv /\ (Bind(p) \/ WriteLiveConfig(p) \/ ShutDown(p) \/ Exit(p)) => IInv'
<1> SUFFICES ASSUME NEW p \in DOMAIN procs, IInv,
                    Bind(p) \/ WriteLiveConfig(p) \/ ShutDown(p) \/ Exit(p)
             PROVE  IInv'
  OBVIOUS
<1>1. /\ ProcsType(procs) /\ procs[p] \in ChildType /\ p \in Nat
      /\ UNCHANGED <<desk, orche>>
  BY DEF IInv, TypeOK, ProcsType, Bind, WriteLiveConfig, ShutDown, Exit
<1>2. /\ port' \in Nat \cup {NoPid} /\ config' \in Tokens /\ used' \in [serves : Nat, lost : BOOLEAN]
      /\ used.lost => used'.lost
  BY <1>1, PortType DEF IInv, TypeOK, Bind, WriteLiveConfig, ShutDown, Exit, ChildType, Tokens
<1>3. PICK state \in {"bound", "up", "dead"} :
        /\ procs' = WithState(procs, p, state)
        /\ state = "dead" => \/ procs[p].state = "draining"
                             \/ used'.lost
                             \/ ~IsChild(procs, p, "desktop", "serve")
  BY <1>1 DEF Bind, WriteLiveConfig, ShutDown, Exit, IInv, TypeOK, IsChild, WithState
<1>4. /\ ProcsType(procs') /\ DOMAIN procs' = DOMAIN procs /\ procs'[p].state = state
      /\ \A q \in DOMAIN procs : /\ procs'[q].owner = procs[q].owner /\ procs'[q].kind = procs[q].kind
                                 /\ q # p => procs'[q] = procs[q]
  <2>1. state \in States
    BY DEF States
  <2> QED BY <2>1, <1>1, <1>3, StateType
<1>5. TypeOK'
  BY <1>1, <1>2, <1>4 DEF IInv, TypeOK
<1>6. Held(procs', desk.ingest, desk.watchers, orche.stack)
  BY <1>4, StateChanged DEF IInv
<1>7. Current'
  <2> SUFFICES ASSUME ~used'.lost, desk.ingest.child # NoPid, desk.pc \notin {"await", "kill"}
               PROVE  Serving(procs', desk.ingest.child)
    BY <1>1, <1>2 DEF IInv, Current
  <2>1. Serving(procs, desk.ingest.child) /\ IsChild(procs, desk.ingest.child, "desktop", "serve")
    BY <1>2 DEF IInv, Current, Held
  <2>2. CASE p = desk.ingest.child
    <3>1. state # "dead"
      BY <2>1, <2>2, <1>3 DEF Serving
    <3> QED BY <3>1, <2>2, <1>3, <1>4 DEF Serving
  <2>3. CASE p # desk.ingest.child
    BY <2>1, <2>3, <1>4 DEF Serving
  <2> QED BY <2>2, <2>3
<1>8. Excluded' /\ Recorded'
  BY <1>1 DEF IInv, Excluded, Recorded
<1> QED BY <1>1, <1>5, <1>6, <1>7, <1>8 DEF IInv

\* The desktop after an action, but for its pc, guard and repair.
LEMMA DeskFields ==
  ASSUME TypeOK
  PROVE  /\ desk \in DeskType /\ desk.ingest \in RecordType
         /\ desk.watchers \in [Watchers -> RecordType]
         /\ orche \in OrcheType /\ ProcsType(procs) /\ used.lost \in BOOLEAN /\ used.serves \in Nat
BY DEF TypeOK, DeskType

LEMMA KeptByClick ==
  \A command \in {"start", "stop"} : IInv /\ Click(command) => IInv'
<1> SUFFICES ASSUME NEW command \in {"start", "stop"}, IInv, Click(command) PROVE IInv'
  OBVIOUS
<1>1. /\ desk' \in DeskType /\ desk'.pc = command /\ desk.pc = "idle"
      /\ desk'.guard = desk.guard /\ desk'.repair = desk.repair
      /\ desk'.ingest = desk.ingest /\ desk'.watchers = desk.watchers
  BY DeskFields DEF Click, IInv, DeskType
<1>2. UNCHANGED <<procs, port, config, orche, used>>
  BY DEF Click
<1> QED BY <1>1, <1>2 DEF IInv, TypeOK, Excluded, Recorded, Current

LEMMA KeptByRepairSteps == IInv /\ (AskRepair \/ RepairEnds \/ AwaitTimeout) => IInv'
<1> SUFFICES ASSUME IInv, AskRepair \/ RepairEnds \/ AwaitTimeout PROVE IInv'
  OBVIOUS
<1>1. UNCHANGED <<procs, port, config, orche, used>>
  BY DEF AskRepair, RepairEnds, AwaitTimeout
<1>2. desk' \in DeskType /\ desk'.ingest = desk.ingest /\ desk'.watchers = desk.watchers
  BY DeskFields DEF AskRepair, RepairEnds, AwaitTimeout, IInv, DeskType
<1>3. CASE AskRepair
  <2>1. desk'.pc = desk.pc /\ desk'.guard = desk.guard /\ desk'.repair = "asked" /\ desk.repair = "none"
    BY <1>3, DeskFields DEF AskRepair, IInv, DeskType
  <2> QED BY <1>1, <1>2, <2>1 DEF IInv, TypeOK, Excluded, Recorded, Current
<1>4. CASE RepairEnds
  <2>1. desk'.pc = desk.pc /\ desk'.guard = Free /\ desk'.repair = "none" /\ desk.repair = "running"
    BY <1>4, DeskFields DEF RepairEnds, IInv, DeskType, Excluded
  <2> QED BY <1>1, <1>2, <2>1, SupervisorAssumption DEF IInv, TypeOK, Excluded, Recorded, Current
<1>5. CASE AwaitTimeout
  <2>1. /\ desk'.pc = "kill" /\ desk'.guard = desk.guard /\ desk'.repair = desk.repair
        /\ desk.pc = "await"
    BY <1>5, DeskFields DEF AwaitTimeout, IInv, DeskType
  <2> QED BY <1>1, <1>2, <2>1 DEF IInv, TypeOK, Excluded, Recorded, Current
<1> QED BY <1>3, <1>4, <1>5

LEMMA KeptByRequest == IInv /\ RequestShutdown => IInv'
<1> SUFFICES ASSUME IInv, RequestShutdown PROVE IInv'
  OBVIOUS
<1>1. UNCHANGED <<port, config, orche, used>> /\ desk.pc = "shutdown"
  BY DEF RequestShutdown
<1>2. PICK pc \in {"await", "kill"} :
        /\ desk' = [desk EXCEPT !.pc = pc]
        /\ \/ UNCHANGED procs
           \/ port \in DOMAIN procs /\ procs' = WithState(procs, port, "draining")
  BY DEF RequestShutdown, Alive, WithState
<1>3. /\ desk' \in DeskType /\ desk'.ingest = desk.ingest /\ desk'.watchers = desk.watchers
      /\ desk'.pc = pc /\ desk'.guard = desk.guard /\ desk'.repair = desk.repair
  BY <1>2, DeskFields DEF IInv, DeskType
<1>4. /\ ProcsType(procs') /\ DOMAIN procs' = DOMAIN procs
      /\ \A q \in DOMAIN procs : procs'[q].owner = procs[q].owner /\ procs'[q].kind = procs[q].kind
  <2>1. CASE UNCHANGED procs
    BY <2>1, DeskFields DEF IInv
  <2>2. CASE port \in DOMAIN procs /\ procs' = WithState(procs, port, "draining")
    <3>1. ProcsType(procs) /\ "draining" \in States
      BY DeskFields DEF IInv, States
    <3> QED BY <2>2, <3>1, StateType
  <2> QED BY <1>2, <2>1, <2>2
<1>5. Held(procs', desk.ingest, desk.watchers, orche.stack)
  BY <1>4, StateChanged DEF IInv
<1> QED BY <1>1, <1>3, <1>4, <1>5 DEF IInv, TypeOK, Excluded, Recorded, Current

LEMMA StoppedType ==
  Stopped \in RecordType /\ Stopped.child = NoPid /\ Stopped.token = NoToken /\ Stopped.phase = "stopped"
BY DEF Stopped, RecordType, Tokens

\* The server is reaped; its watchers are gone already.
LEMMA KeptByIngestStopped == IInv /\ (NothingToStop \/ AwaitExit \/ KillIngest) => IInv'
<1> SUFFICES ASSUME IInv, NothingToStop \/ AwaitExit \/ KillIngest PROVE IInv'
  OBVIOUS
<1> DEFINE P == {desk.ingest.child}
<1>1. /\ procs' = Reap(procs, P) /\ port' = PortWithout(P) /\ UNCHANGED <<config, orche, used>>
      /\ desk' = [desk EXCEPT !.ingest = Stopped, !.pc = "idle", !.guard = Free]
      /\ desk.pc \in {"shutdown", "await", "kill"}
  BY DEF NothingToStop, AwaitExit, KillIngest, IngestStopped, Kill
<1>2. /\ desk' \in DeskType /\ desk'.ingest = Stopped /\ desk'.watchers = desk.watchers
      /\ desk'.pc = "idle" /\ desk'.guard = Free /\ desk'.repair = desk.repair
  BY <1>1, DeskFields, StoppedType DEF IInv, DeskType
<1>3. TypeOK'
  BY <1>1, <1>2, DeskFields, ReapType, PortType DEF IInv, TypeOK
<1>4. Held(procs', desk'.ingest, desk.watchers, orche.stack)
  BY <1>1, <1>2, DeskFields, IngestDropped, StoppedType DEF IInv
<1>5. Excluded' /\ Recorded' /\ Current'
  BY <1>1, <1>2, StoppedType, SupervisorAssumption DEF IInv, Excluded, Recorded, Current
<1> QED BY <1>1, <1>2, <1>3, <1>4, <1>5 DEF IInv

\* A reaped watcher leaves the server as it is.
LEMMA ServerStays ==
  ASSUME IInv, NEW P, P \subseteq {desk.watchers[n].child : n \in Watchers},
         Serving(procs, desk.ingest.child)
  PROVE  Serving(Reap(procs, P), desk.ingest.child)
<1>1. desk.ingest.child \in DOMAIN procs /\ desk.ingest.child \notin P
  BY NotAPid, DeskFields DEF IInv, Held, Serving, IsChild
<1> QED BY <1>1 DEF Serving, Reap

LEMMA KeptByStopWatchers == IInv /\ StopWatchers => IInv'
<1> SUFFICES ASSUME IInv, StopWatchers PROVE IInv'
  OBVIOUS
<1> DEFINE P == {desk.watchers[n].child : n \in Watchers}
           none == [n \in Watchers |-> Stopped]
<1>1. /\ procs' = Reap(procs, P) /\ port' = PortWithout(P) /\ UNCHANGED <<config, orche, used>>
      /\ desk' = [desk EXCEPT !.guard = "main", !.pc = "shutdown", !.watchers = none]
      /\ desk.pc = "stop" /\ desk.guard = Free
  BY DEF StopWatchers, Kill
<1>2. none \in [Watchers -> RecordType]
  BY StoppedType
<1>3. /\ desk' \in DeskType /\ desk'.ingest = desk.ingest /\ desk'.watchers = none
      /\ desk'.pc = "shutdown" /\ desk'.guard = "main" /\ desk'.repair = desk.repair
  <2> HIDE DEF none
  <2> QED BY <1>1, <1>2, DeskFields DEF IInv, DeskType
<1>4. TypeOK'
  BY <1>1, <1>3, DeskFields, ReapType, PortType DEF IInv, TypeOK
<1>5. Held(procs', desk.ingest, none, orche.stack)
  BY <1>1, DeskFields, WatchersDropped, StoppedType DEF IInv
<1>6. Current'
  BY <1>1, <1>3, StoppedType, ServerStays DEF IInv, Current
<1>7. Excluded' /\ Recorded'
  BY <1>1, <1>3, StoppedType, SupervisorAssumption DEF IInv, Excluded, Recorded
<1> QED BY <1>1, <1>3, <1>4, <1>5, <1>6, <1>7 DEF IInv

\* One watcher is stopped, or is found dead.
LEMMA KeptByWatcher ==
  \A n \in Watchers : IInv /\ (StopWatcher(n) \/ WatcherStatus(n)) => IInv'
<1> SUFFICES ASSUME NEW n \in Watchers, IInv, StopWatcher(n) \/ WatcherStatus(n) PROVE IInv'
  OBVIOUS
<1> DEFINE P == {desk.watchers[n].child}
<1>1. PICK record \in RecordType :
         /\ procs' = Reap(procs, P) /\ port' \in {port, PortWithout(P)}
         /\ desk' = [desk EXCEPT !.watchers = [desk.watchers EXCEPT ![n] = record]]
         /\ record.child = NoPid /\ record.token = NoToken
  <2>1. CASE StopWatcher(n)
    BY <2>1, StoppedType, DeskFields DEF StopWatcher, Kill, IInv, DeskType
  <2>2. CASE WatcherStatus(n)
    <3>1. Refreshed(desk.watchers[n]) = [child |-> NoPid, token |-> NoToken, phase |-> "exited"]
      BY <2>2 DEF WatcherStatus, Refreshed
    <3>2. Refreshed(desk.watchers[n]) \in RecordType
      BY <3>1 DEF RecordType, Tokens
    <3>3. /\ procs' = Reap(procs, P) /\ port' = port
          /\ desk' = [desk EXCEPT !.watchers[n] = Refreshed(desk.watchers[n])]
      BY <2>2 DEF WatcherStatus
    <3>4. /\ desk' = [desk EXCEPT !.watchers[n] = Refreshed(desk.watchers[n])]
          /\ Refreshed(desk.watchers[n]).child = NoPid /\ Refreshed(desk.watchers[n]).token = NoToken
      BY <3>1, <3>3
    <3> DEFINE record == Refreshed(desk.watchers[n])
    <3> HIDE DEF record
    <3>5. desk' = [desk EXCEPT !.watchers = [desk.watchers EXCEPT ![n] = record]]
      BY <3>4 DEF record
    <3> QED BY <3>2, <3>3, <3>4, <3>5 DEF record
  <2> QED BY <2>1, <2>2
<1> DEFINE w == [desk.watchers EXCEPT ![n] = record]
<1>2. /\ w \in [Watchers -> RecordType] /\ w[n] = record
      /\ \A m \in Watchers : m # n => w[m] = desk.watchers[m]
  BY DeskFields DEF IInv
<1> HIDE DEF w
<1>3. /\ desk' \in DeskType /\ desk'.ingest = desk.ingest /\ desk'.watchers = w
      /\ desk'.pc = desk.pc /\ desk'.guard = desk.guard /\ desk'.repair = desk.repair
  BY <1>1, <1>2, DeskFields DEF IInv, DeskType, w
<1>4. UNCHANGED <<config, orche, used>> /\ desk.pc = "idle"
  BY DEF StopWatcher, WatcherStatus
<1>5. TypeOK'
  BY <1>1, <1>3, <1>4, DeskFields, ReapType, PortType DEF IInv, TypeOK
<1>6. Held(procs', desk.ingest, w, orche.stack)
  <2>1. \A m \in Watchers : w[m].child = IF desk.watchers[m].child \in P THEN NoPid
                                         ELSE desk.watchers[m].child
    BY <1>1, <1>2 DEF IInv, Held
  <2> QED BY <1>1, <2>1, DeskFields, WatchersDropped DEF IInv
<1>7. Current'
  <2>1. P \subseteq {desk.watchers[m].child : m \in Watchers}
    OBVIOUS
  <2> QED BY <1>1, <1>2, <1>3, <1>4, <2>1, ServerStays DEF IInv, Current
<1>8. Excluded' /\ Recorded'
  BY <1>1, <1>2, <1>3, <1>4 DEF IInv, Excluded, Recorded
<1> QED BY <1>3, <1>4, <1>5, <1>6, <1>7, <1>8 DEF IInv

\* refresh of the server's record.
LEMMA RefreshedIngest ==
  ASSUME IInv
  PROVE  LET i == Refreshed(desk.ingest)
             f == Reap(procs, Reaped({desk.ingest}))
         IN  /\ i \in RecordType /\ ProcsType(f) /\ Held(f, i, desk.watchers, orche.stack)
             /\ i.child # NoPid <=> i.phase = "running"
             /\ i.child = NoPid => i.token = NoToken
             /\ i.child # NoPid => i = desk.ingest /\ f = procs
             /\ ~used.lost /\ desk.pc \notin {"await", "kill"} => i = desk.ingest /\ f = procs
<1> DEFINE i == Refreshed(desk.ingest)
           P == Reaped({desk.ingest})
           f == Reap(procs, P)
<1>1. desk.ingest \in RecordType /\ ProcsType(procs) /\ Held(procs, desk.ingest, desk.watchers, orche.stack)
  BY DeskFields DEF IInv
<1>2. CASE Exited(desk.ingest)
  <2>1. P = {desk.ingest.child} /\ i = [child |-> NoPid, token |-> NoToken, phase |-> "exited"]
    BY <1>2 DEF Reaped, Refreshed
  <2>2. i \in RecordType /\ i.child = NoPid /\ i.token = NoToken /\ i.phase = "exited"
    BY <2>1 DEF RecordType, Tokens
  <2> HIDE DEF i, P
  <2>3. ProcsType(f) /\ Held(f, i, desk.watchers, orche.stack)
    BY <1>1, <2>1, <2>2, ReapType, IngestDropped
  <2>4. used.lost \/ desk.pc \in {"await", "kill"}
    BY <1>1, <1>2, NotAPid DEF Exited, IInv, Current, Serving
  <2> QED BY <2>2, <2>3, <2>4 DEF i, P
<1>3. CASE ~Exited(desk.ingest)
  <2>1. P = {} /\ i = desk.ingest
    BY <1>3 DEF Reaped, Refreshed
  <2>2. f = procs
    BY <1>1, <2>1 DEF Reap, ProcsType
  <2> QED BY <1>1, <2>1, <2>2 DEF IInv, Recorded
<1> QED BY <1>2, <1>3

LEMMA KeptByIngestRefresh == IInv /\ (IngestStatus \/ RepairStorage) => IInv'
<1> SUFFICES ASSUME IInv, IngestStatus \/ RepairStorage PROVE IInv'
  OBVIOUS
<1> DEFINE i == Refreshed(desk.ingest)
           f == Reap(procs, Reaped({desk.ingest}))
<1>1. /\ i \in RecordType /\ ProcsType(f) /\ Held(f, i, desk.watchers, orche.stack)
      /\ i.child # NoPid <=> i.phase = "running"
      /\ i.child = NoPid => i.token = NoToken
      /\ i.child # NoPid => i = desk.ingest /\ f = procs
      /\ ~used.lost /\ desk.pc \notin {"await", "kill"} => i = desk.ingest /\ f = procs
  BY RefreshedIngest
<1>2. procs' = f /\ UNCHANGED <<port, config, orche, used>> /\ desk.pc \notin {"attach", "shutdown", "await", "kill"}
  <2>1. CASE IngestStatus
    <3>1. Reaped({desk.ingest}) = {desk.ingest.child}
      BY <2>1 DEF IngestStatus, Reaped
    <3> QED BY <2>1, <3>1 DEF IngestStatus
  <2>2. CASE RepairStorage
    BY <2>2, SupervisorAssumption DEF RepairStorage, RepairOrRefuse, IInv, Excluded
  <2> QED BY <2>1, <2>2
<1> HIDE DEF i, f
<1>3. /\ desk' \in DeskType /\ desk'.ingest = i /\ desk'.watchers = desk.watchers /\ desk'.pc = desk.pc
      /\ \/ desk'.repair = desk.repair /\ desk'.guard = desk.guard
         \/ i.phase = "running" /\ desk'.repair = "none" /\ desk'.guard = desk.guard /\ desk.repair = "asked"
         \/ i.phase # "running" /\ desk'.repair = "running" /\ desk'.guard = "repair"
  <2>1. CASE IngestStatus
    <3>1. desk' = [desk EXCEPT !.ingest = i]
      BY <2>1 DEF IngestStatus, i
    <3> QED BY <3>1, <1>1, DeskFields DEF IInv, DeskType
  <2>2. CASE RepairStorage
    <3>1. desk.repair = "asked" /\
          desk' = [desk EXCEPT !.ingest = i, !.repair = IF i.phase = "running" THEN "none" ELSE "running",
                               !.guard = IF i.phase = "running" THEN desk.guard ELSE "repair"]
      BY <2>2 DEF RepairStorage, RepairOrRefuse, i
    <3>2. CASE i.phase = "running"
      BY <3>1, <3>2, <1>1, DeskFields DEF IInv, DeskType
    <3>3. CASE i.phase # "running"
      BY <3>1, <3>3, <1>1, DeskFields DEF IInv, DeskType
    <3> QED BY <3>2, <3>3
  <2> QED BY <2>1, <2>2
<1>4. TypeOK'
  BY <1>1, <1>2, <1>3 DEF IInv, TypeOK
<1>5. Held(procs', desk'.ingest, desk'.watchers, orche'.stack)
  BY <1>1, <1>2, <1>3
<1>6. Excluded'
  BY <1>1, <1>2, <1>3, SupervisorAssumption DEF IInv, Excluded
<1>7. Recorded' /\ Current'
  BY <1>1, <1>2, <1>3 DEF IInv, Recorded, Current
<1> QED BY <1>4, <1>5, <1>6, <1>7 DEF IInv

\* One child with a free pid.
Pid(f, name) == Spawned(f, {name})[name]
WithChild(f, p, c) == [q \in DOMAIN f \cup {p} |-> IF q \in {p} THEN c ELSE f[q]]

LEMMA OneMore ==
  ASSUME NEW f, ProcsType(f), NEW name, NEW c \in ChildType
  PROVE  /\ Pid(f, name) \in Nat \ DOMAIN f
         /\ ProcsType(WithChild(f, Pid(f, name), c))
         /\ DOMAIN WithChild(f, Pid(f, name), c) = DOMAIN f \cup {Pid(f, name)}
         /\ WithChild(f, Pid(f, name), c)[Pid(f, name)] = c
         /\ \A q \in DOMAIN f : WithChild(f, Pid(f, name), c)[q] = f[q]
<1> DEFINE p == Pid(f, name)
           g == WithChild(f, p, c)
<1>1. IsFiniteSet({name}) /\ IsFiniteSet({p})
  BY FS_Singleton
<1>2. p \in Nat \ DOMAIN f
  <2>1. Spawned(f, {name}) \in [{name} -> Nat \ DOMAIN f]
    BY <1>1, SpawnedNew DEF ProcsType
  <2> QED BY <2>1 DEF Pid
<1>3. g = [q \in DOMAIN f \cup {p} |-> IF q \in {p} THEN c ELSE f[q]]
  BY DEF WithChild
<1> HIDE DEF p, g
<1>4. ProcsType(g)
  BY <1>1, <1>2, <1>3, AddedType
<1>5. DOMAIN g = DOMAIN f \cup {p} /\ g[p] = c /\ \A q \in DOMAIN f : g[q] = f[q]
  BY <1>2, <1>3
<1> QED BY <1>2, <1>4, <1>5 DEF p, g

LEMMA KeptByStartIngest == IInv /\ StartIngest => IInv'
<1> SUFFICES ASSUME IInv, StartIngest PROVE IInv'
  OBVIOUS
<1> DEFINE i == Refreshed(desk.ingest)
           f == Reap(procs, Reaped({desk.ingest}))
           c == Server("desktop", used.serves + 1)
           p == Pid(f, "serve")
           g == WithChild(f, p, c)
           new == [child |-> p, token |-> used.serves + 1, phase |-> "running"]
<1>1. /\ i \in RecordType /\ ProcsType(f) /\ Held(f, i, desk.watchers, orche.stack)
      /\ i.child # NoPid <=> i.phase = "running"
      /\ i.child = NoPid => i.token = NoToken
      /\ i.child # NoPid => i = desk.ingest /\ f = procs
      /\ ~used.lost /\ desk.pc \notin {"await", "kill"} => i = desk.ingest /\ f = procs
  BY RefreshedIngest
<1>2. UNCHANGED <<port, config, orche>> /\ desk.pc = "start" /\ desk.guard = Free
  BY DEF StartIngest
<1>3. used.serves \in Nat /\ used \in [serves : Nat, lost : BOOLEAN] /\ c \in ChildType
  BY DEF IInv, TypeOK, Server, ChildType, Tokens, States
<1>4. /\ p \in Nat \ DOMAIN f /\ ProcsType(g) /\ DOMAIN g = DOMAIN f \cup {p}
      /\ g[p] = c /\ \A q \in DOMAIN f : g[q] = f[q]
  <2>1. ProcsType(f) /\ c \in ChildType
    BY <1>1, <1>3
  <2> DEFINE name == "serve"
  <2> HIDE DEF f, c, name
  <2>2. /\ Pid(f, name) \in Nat \ DOMAIN f
        /\ ProcsType(WithChild(f, Pid(f, name), c))
        /\ DOMAIN WithChild(f, Pid(f, name), c) = DOMAIN f \cup {Pid(f, name)}
        /\ WithChild(f, Pid(f, name), c)[Pid(f, name)] = c
        /\ \A q \in DOMAIN f : WithChild(f, Pid(f, name), c)[q] = f[q]
    BY <2>1, OneMore
  <2> QED BY <2>2 DEF name
<1>5. /\ c.owner = "desktop" /\ c.kind = "serve" /\ c.state = "booting"
  BY DEF Server
<1>6. CASE i.child # NoPid
  <2>1. desk' = [desk EXCEPT !.pc = "attach", !.guard = "main"] /\ UNCHANGED <<procs, used>>
    BY <1>6 DEF StartIngest
  <2>2. /\ desk' \in DeskType /\ desk'.pc = "attach" /\ desk'.guard = "main"
        /\ desk'.ingest = desk.ingest /\ desk'.watchers = desk.watchers /\ desk'.repair = desk.repair
    BY <2>1, DeskFields DEF IInv, DeskType
  <2>3. desk.ingest.child # NoPid
    BY <1>1, <1>6
  <2> HIDE DEF i, f, c, p, g, new
  <2> QED BY <1>2, <2>1, <2>2, <2>3, SupervisorAssumption
          DEF IInv, TypeOK, Excluded, Recorded, Current
<1>7. CASE i.child = NoPid /\ used.serves = MaxServes
  <2>1. /\ desk' = [desk EXCEPT !.pc = "idle", !.ingest = [i EXCEPT !.phase = "unavailable"]]
        /\ procs' = f /\ UNCHANGED used
    BY <1>7 DEF StartIngest
  <2> HIDE DEF i, f, c, p, g, new
  <2>2. /\ [i EXCEPT !.phase = "unavailable"] \in RecordType
        /\ [i EXCEPT !.phase = "unavailable"].child = NoPid
        /\ [i EXCEPT !.phase = "unavailable"].token = NoToken
        /\ [i EXCEPT !.phase = "unavailable"].phase = "unavailable"
    BY <1>1, <1>7 DEF RecordType
  <2>3. /\ desk' \in DeskType /\ desk'.pc = "idle" /\ desk'.guard = desk.guard
        /\ desk'.ingest.child = NoPid /\ desk'.ingest.token = NoToken
        /\ desk'.ingest.phase = "unavailable"
        /\ desk'.watchers = desk.watchers /\ desk'.repair = desk.repair
    BY <2>1, <2>2, DeskFields DEF IInv, DeskType
  <2>4. Held(f, desk'.ingest, desk.watchers, orche.stack)
    BY <1>1, <1>7, <2>3 DEF Held
  <2>5. ~used.lost => desk.ingest.child = NoPid
    BY <1>1, <1>2, <1>7
  <2> QED BY <1>1, <1>2, <2>1, <2>3, <2>4, <2>5, SupervisorAssumption
          DEF IInv, TypeOK, Excluded, Recorded, Current
<1>8. CASE i.child = NoPid /\ used.serves # MaxServes
  <2>1. /\ desk' = [desk EXCEPT !.pc = "attach", !.guard = "main", !.ingest = new]
        /\ procs' = g /\ used' = [used EXCEPT !.serves = @ + 1]
    BY <1>8 DEF StartIngest, With, Pid, WithChild
  <2> HIDE DEF i, f, c, p, g
  <2>2. used' \in [serves : Nat, lost : BOOLEAN] /\ used'.lost = used.lost
    BY <1>3, <2>1
  <2>3. /\ new \in RecordType /\ new.child = p /\ new.phase = "running" /\ p # NoPid
    BY <1>3, <1>4, SupervisorAssumption DEF RecordType, Tokens
  <2> HIDE DEF new
  <2>4. /\ desk' \in DeskType /\ desk'.pc = "attach" /\ desk'.guard = "main"
        /\ desk'.ingest = new /\ desk'.watchers = desk.watchers /\ desk'.repair = desk.repair
    BY <2>1, <2>3, DeskFields DEF IInv, DeskType
  <2>5. Held(g, new, desk.watchers, orche.stack)
    BY <1>1, <1>4, <1>5, <1>8, <2>3, IngestAdded
  <2>6. ~used.lost => desk.ingest.child = NoPid
    BY <1>1, <1>2, <1>8
  <2>7. Serving(g, p)
    BY <1>4, <1>5 DEF Serving
  <2>8. TypeOK'
    BY <1>2, <1>4, <2>1, <2>2, <2>4 DEF IInv, TypeOK
  <2>9. Excluded'
    BY <1>2, <2>4, SupervisorAssumption DEF IInv, Excluded
  <2>10. Recorded' /\ Current'
    BY <1>2, <2>1, <2>2, <2>3, <2>4, <2>6, <2>7 DEF IInv, Recorded, Current
  <2> QED BY <1>2, <2>1, <2>4, <2>5, <2>8, <2>9, <2>10 DEF IInv
<1> QED BY <1>6, <1>7, <1>8

\* The watchers that are missing are started with the token of the server.
LEMMA KeptByStarted ==
  \A names \in SUBSET Watchers :
     IInv /\ Started(names, desk.ingest.token) /\ desk.ingest.child # NoPid
          /\ desk.pc \in {"idle", "attach"} /\ UNCHANGED <<port, config, orche, used>> => IInv'
<1> SUFFICES ASSUME NEW names \in SUBSET Watchers, IInv, Started(names, desk.ingest.token),
                    desk.ingest.child # NoPid, desk.pc \in {"idle", "attach"},
                    UNCHANGED <<port, config, orche, used>>
             PROVE  IInv'
  OBVIOUS
<1> DEFINE new == Missing(names)
           P == Reaped({desk.watchers[n] : n \in names})
           f == Reap(procs, P)
           pid == Spawned(f, new)
           all == {pid[n] : n \in new}
           token == desk.ingest.token
           c == Child("watcher", "desktop", token)
           g == With(f, all, LAMBDA q : c)
           w1 == [n \in Watchers |-> IF desk.watchers[n].child \in P THEN Stopped ELSE desk.watchers[n]]
           w2 == [n \in Watchers |->
                    IF n \in new THEN [child |-> pid[n], token |-> token, phase |-> "running"]
                    ELSE desk.watchers[n]]
<1>1. /\ procs' = g
      /\ desk' = [desk EXCEPT !.pc = "idle", !.guard = IF @ = "main" THEN Free ELSE @, !.watchers = w2]
  BY DEF Started
<1>2. /\ ProcsType(procs) /\ Held(procs, desk.ingest, desk.watchers, orche.stack)
      /\ desk.watchers \in [Watchers -> RecordType] /\ token \in Tokens
  BY DeskFields DEF IInv, RecordType
<1>3. P \subseteq {desk.watchers[n].child : n \in Watchers}
  BY DEF Reaped
<1>4. \A n \in Watchers : w1[n].child = IF desk.watchers[n].child \in P THEN NoPid
                                        ELSE desk.watchers[n].child
  BY StoppedType
<1>5. ProcsType(f) /\ Held(f, desk.ingest, w1, orche.stack)
  <2> HIDE DEF w1, P
  <2> QED BY <1>2, <1>3, <1>4, ReapType, WatchersDropped
<1>6. new \in SUBSET Watchers /\ IsFiniteSet(new)
  BY SupervisorAssumption, FS_Subset DEF Missing
<1>7. /\ pid \in [new -> Nat \ DOMAIN f]
      /\ \A m, n \in new : m # n => pid[m] # pid[n]
  <2> HIDE DEF f, new
  <2> QED BY <1>5, <1>6, SpawnedNew DEF ProcsType
<1>8. \A n \in new : w1[n].child = NoPid
  <2> TAKE n \in new
  <2>1. n \in names /\ n \in Watchers /\ Refreshed(desk.watchers[n]).child = NoPid
    BY DEF Missing
  <2>2. CASE Exited(desk.watchers[n])
    <3>1. desk.watchers[n].child \in P
      BY <2>1, <2>2 DEF Reaped
    <3> QED BY <3>1, <2>1, <1>4
  <2>3. CASE ~Exited(desk.watchers[n])
    BY <2>1, <2>3, <1>4 DEF Refreshed
  <2> QED BY <2>2, <2>3
<1>9. \A n \in Watchers : n \notin new => desk.watchers[n].child \notin P
  <2> SUFFICES ASSUME NEW n \in Watchers, desk.watchers[n].child \in P PROVE n \in new
    OBVIOUS
  <2>1. PICK m \in names : Exited(desk.watchers[m]) /\ desk.watchers[m].child = desk.watchers[n].child
    BY DEF Reaped
  <2>2. desk.watchers[m].child # NoPid
    BY <1>2, <2>1, NotAPid DEF Exited
  <2>3. m = n
    BY <1>2, <2>1, <2>2 DEF Held
  <2>4. Refreshed(desk.watchers[n]).child = NoPid
    BY <2>1, <2>3 DEF Refreshed
  <2> QED BY <2>1, <2>3, <2>4 DEF Missing
<1> HIDE DEF new, P, f, pid, token
<1>10. \A n \in Watchers : w2[n].child = IF n \in new THEN pid[n] ELSE w1[n].child
  BY <1>4, <1>9
<1>11. all \subseteq Nat \ DOMAIN f /\ IsFiniteSet(all)
  <2>1. all \subseteq Nat \ DOMAIN f
    BY <1>7
  <2>2. pid \in Surjection(new, all)
    BY <1>7 DEF Surjection
  <2> HIDE DEF all
  <2> QED BY <2>1, <2>2, <1>6, FS_Surjection
<1>12. /\ c \in ChildType /\ c.owner = "desktop" /\ c.kind = "watcher"
  BY <1>2 DEF Child, ChildType, States
<1> HIDE DEF c
<1>13. g = [q \in DOMAIN f \cup all |-> IF q \in all THEN c ELSE f[q]]
  BY DEF With
<1>14. /\ ProcsType(g) /\ DOMAIN g = DOMAIN f \cup all /\ \A q \in DOMAIN f : g[q] = f[q]
       /\ \A q \in all : g[q] = c
  <2> HIDE DEF all, g
  <2>1. ProcsType(g)
    BY <1>5, <1>11, <1>12, <1>13, AddedType
  <2> QED BY <2>1, <1>11, <1>13
<1>15. \A n \in new : g[pid[n]].owner = "desktop" /\ g[pid[n]].kind = "watcher"
  BY <1>12, <1>14
<1>16. w2 \in [Watchers -> RecordType]
  <2>1. \A n \in new : [child |-> pid[n], token |-> token, phase |-> "running"] \in RecordType
    BY <1>2, <1>7 DEF RecordType
  <2> QED BY <2>1, <1>2
<1>17. \A n \in Watchers : \/ w2[n] = desk.watchers[n]
                           \/ w2[n].token = desk.ingest.token
  BY DEF token
<1> HIDE DEF w1, w2, g
<1>18. Held(g, desk.ingest, w2, orche.stack)
  BY <1>5, <1>6, <1>7, <1>8, <1>10, <1>14, <1>15, WatchersAdded DEF all
<1>19. /\ desk' \in DeskType /\ desk'.ingest = desk.ingest /\ desk'.watchers = w2
       /\ desk'.pc = "idle" /\ desk'.guard = (IF desk.guard = "main" THEN Free ELSE desk.guard)
       /\ desk'.repair = desk.repair
  <2>1. (IF desk.guard = "main" THEN Free ELSE desk.guard) \in {Free, "main", "repair"}
    BY DeskFields DEF IInv, DeskType
  <2> DEFINE guard == IF desk.guard = "main" THEN Free ELSE desk.guard
  <2>2. desk' = [desk EXCEPT !.pc = "idle", !.guard = guard, !.watchers = w2]
    BY <1>1
  <2> HIDE DEF guard
  <2>3. guard \in {Free, "main", "repair"}
    BY <2>1 DEF guard
  <2> QED BY <2>2, <2>3, <1>16, DeskFields DEF IInv, DeskType, guard
<1>20. TypeOK'
  BY <1>1, <1>14, <1>19 DEF IInv, TypeOK
<1>21. Excluded' /\ Recorded'
  BY <1>19, SupervisorAssumption DEF IInv, Excluded, Recorded
<1>22. Current'
  <2>1. Serving(procs, desk.ingest.child) => Serving(g, desk.ingest.child)
    <3>1. Serving(procs, desk.ingest.child) => Serving(f, desk.ingest.child)
      BY <1>3, ServerStays DEF f
    <3> QED BY <3>1, <1>14 DEF Serving
  <2> QED BY <1>1, <1>17, <1>19, <2>1 DEF IInv, Current
<1> QED BY <1>1, <1>18, <1>19, <1>20, <1>21, <1>22 DEF IInv

\* The two ways of starting watchers have a server.
LEMMA KeptByAttachWatchers == IInv /\ AttachWatchers => IInv'
<1> SUFFICES ASSUME IInv, AttachWatchers PROVE IInv'
  OBVIOUS
<1>1. /\ Started(Watchers, desk.ingest.token) /\ desk.pc = "attach"
      /\ UNCHANGED <<port, config, orche, used>>
  BY DEF AttachWatchers
<1>2. desk.ingest.child # NoPid
  BY <1>1 DEF IInv, Recorded
<1> QED BY <1>1, <1>2, KeptByStarted

LEMMA KeptByStartWatcher == \A n \in Watchers : IInv /\ StartWatcher(n) => IInv'
<1> SUFFICES ASSUME NEW n \in Watchers, IInv, StartWatcher(n) PROVE IInv'
  OBVIOUS
<1>1. /\ Started({n}, desk.ingest.token) /\ desk.pc = "idle" /\ {n} \in SUBSET Watchers
      /\ Refreshed(desk.ingest).token # NoToken /\ UNCHANGED <<port, config, orche, used>>
  BY DEF StartWatcher
<1>2. desk.ingest.child # NoPid
  BY <1>1, RefreshedIngest
<1> QED BY <1>1, <1>2, KeptByStarted

-----------------------------------------------------------------------------
(* orche.                                                                  *)

LEMMA OrcheFields ==
  ASSUME TypeOK
  PROVE  /\ orche.pc \in {"off", "waiting", "spawning", "failed"} /\ orche.stack \subseteq Nat
         /\ orche.token \in Tokens /\ orche.todo \subseteq Watchers
         /\ OrcheFailed \in OrcheType /\ OrcheFailed.stack = {}
         /\ [OrcheFailed EXCEPT !.pc = "off"] \in OrcheType
         /\ [OrcheFailed EXCEPT !.pc = "off"].stack = {}
BY DEF TypeOK, OrcheType, OrcheFailed, Tokens

\* orche adds a child to its stack.
LEMMA KeptByOrcheChild ==
  ASSUME IInv, NEW name, NEW c \in ChildType, c.owner = "orche",
         procs' = WithChild(procs, Pid(procs, name), c),
         orche' \in OrcheType, orche'.stack = orche.stack \cup {Pid(procs, name)},
         orche'.pc # "off", used' \in [serves : Nat, lost : BOOLEAN], used'.lost = used.lost,
         UNCHANGED <<port, config, desk>>
  PROVE  IInv'
<1> DEFINE p == Pid(procs, name)
<1>1. ProcsType(procs) /\ Held(procs, desk.ingest, desk.watchers, orche.stack)
  BY DEF IInv, TypeOK
<1>2. /\ p \in Nat \ DOMAIN procs /\ ProcsType(procs') /\ DOMAIN procs' = DOMAIN procs \cup {p}
      /\ procs'[p] = c /\ \A q \in DOMAIN procs : procs'[q] = procs[q]
  <2> DEFINE g == WithChild(procs, p, c)
  <2>1. /\ p \in Nat \ DOMAIN procs /\ ProcsType(g) /\ DOMAIN g = DOMAIN procs \cup {p}
        /\ g[p] = c /\ \A q \in DOMAIN procs : g[q] = procs[q]
    BY <1>1, OneMore
  <2> HIDE DEF g, p
  <2> QED BY <2>1 DEF g, p
<1> HIDE DEF p
<1>3. TypeOK'
  BY <1>2 DEF IInv, TypeOK
<1>4. Held(procs', desk.ingest, desk.watchers, orche.stack \cup {p})
  BY <1>1, <1>2, StackAdded
<1>5. Held(procs', desk'.ingest, desk'.watchers, orche'.stack)
  BY <1>4 DEF p
<1>6. Excluded' /\ Recorded'
  BY DEF IInv, Excluded, Recorded
<1>7. Current'
  BY <1>2 DEF IInv, Current, Serving
<1> QED BY <1>3, <1>5, <1>6, <1>7 DEF IInv

\* orche drops its stack: the children of the desktop stay.
LEMMA KeptByOrcheEnd ==
  ASSUME IInv, Kill(orche.stack), orche' \in OrcheType, orche'.stack = {},
         UNCHANGED <<config, desk, used>>
  PROVE  IInv'
<1>1. ProcsType(procs) /\ Held(procs, desk.ingest, desk.watchers, orche.stack)
  BY DEF IInv, TypeOK
<1>2. procs' = Reap(procs, orche.stack) /\ port' \in Nat \cup {NoPid}
  BY PortType DEF Kill, IInv
<1>3. TypeOK'
  BY <1>1, <1>2, ReapType DEF IInv, TypeOK
<1>4. Held(procs', desk'.ingest, desk'.watchers, orche'.stack)
  BY <1>1, <1>2, StackDropped
<1>5. Excluded' /\ Recorded'
  BY DEF IInv, Excluded, Recorded
<1>6. Current'
  <2>1. desk.ingest.child \notin orche.stack
    BY <1>1, NotAPid DEF Held, IsChild
  <2> QED BY <1>2, <2>1 DEF IInv, Current, Serving, Reap
<1> QED BY <1>3, <1>4, <1>5, <1>6 DEF IInv

\* orche moves on and starts or stops nothing.
LEMMA KeptByOrcheAlone ==
  ASSUME IInv, orche' \in OrcheType, orche'.stack = orche.stack, orche.stack = {} \/ orche'.pc # "off",
         UNCHANGED <<procs, port, config, desk, used>>
  PROVE  IInv'
BY DEF IInv, TypeOK, Excluded, Recorded, Current

LEMMA KeptByProbe == IInv /\ Probe => IInv'
<1> SUFFICES ASSUME IInv, Probe PROVE IInv'
  OBVIOUS
<1>1. /\ used.serves \in Nat /\ used \in [serves : Nat, lost : BOOLEAN] /\ config \in Tokens
      /\ orche.stack = {}
  BY DEF IInv, TypeOK, Recorded, Probe
<1>2. CASE port # NoPid
  <2>1. UNCHANGED <<procs, port, config, desk, used>>
    BY <1>2 DEF Probe
  <2>2. CASE config = NoToken
    <3>1. orche' = OrcheFailed
      BY <1>2, <2>2 DEF Probe
    <3>2. orche' \in OrcheType /\ orche'.stack = {}
      BY <3>1, OrcheFields DEF IInv
    <3> QED BY <1>1, <2>1, <3>2, KeptByOrcheAlone
  <2>3. CASE config # NoToken
    <3>1. orche' = [pc |-> "spawning", stack |-> {}, token |-> config, todo |-> Watchers]
      BY <1>2, <2>3 DEF Probe
    <3>2. orche' \in OrcheType /\ orche'.stack = {}
      BY <1>1, <3>1 DEF OrcheType
    <3> QED BY <1>1, <2>1, <3>2, KeptByOrcheAlone
  <2> QED BY <2>2, <2>3
<1>3. CASE port = NoPid
  <2> DEFINE c == Server("orche", used.serves + 1)
             name == "serve"
             p == Pid(procs, name)
  <2>1. /\ used' = [used EXCEPT !.serves = @ + 1] /\ procs' = WithChild(procs, p, c)
        /\ orche' = [pc |-> "waiting", stack |-> {p}, token |-> used.serves + 1, todo |-> Watchers]
        /\ UNCHANGED <<port, config, desk>>
    BY <1>3 DEF Probe, With, WithChild, Pid
  <2>2. c \in ChildType /\ c.owner = "orche"
    BY <1>1 DEF Server, ChildType, Tokens, States
  <2> HIDE DEF c, name
  <2>3. p \in Nat
    BY OneMore, <2>2 DEF IInv, TypeOK
  <2>4. used' \in [serves : Nat, lost : BOOLEAN] /\ used'.lost = used.lost
    BY <1>1, <2>1
  <2>5. orche' \in OrcheType /\ orche'.stack = orche.stack \cup {p} /\ orche'.pc # "off"
    BY <1>1, <2>1, <2>3 DEF OrcheType, Tokens
  <2> QED BY <2>1, <2>2, <2>4, <2>5, KeptByOrcheChild
<1> QED BY <1>2, <1>3

LEMMA KeptBySpawnWatcher == \A n \in Watchers : IInv /\ SpawnWatcher(n) => IInv'
<1> SUFFICES ASSUME NEW n \in Watchers, IInv, SpawnWatcher(n) PROVE IInv'
  OBVIOUS
<1> DEFINE c == Child("watcher", "orche", orche.token)
           p == Pid(procs, n)
<1>1. /\ orche.pc = "spawning" /\ orche \in OrcheType /\ UNCHANGED <<port, config, desk, used>>
      /\ used \in [serves : Nat, lost : BOOLEAN]
  BY DEF SpawnWatcher, IInv, TypeOK
<1>2. c \in ChildType /\ c.owner = "orche"
  BY <1>1 DEF Child, ChildType, OrcheType, States
<1>3. CASE procs' = WithChild(procs, p, c)
           /\ orche' = [orche EXCEPT !.todo = @ \ {n}, !.stack = @ \cup {p}]
  <2> HIDE DEF c
  <2>1. p \in Nat
    BY OneMore, <1>2 DEF IInv, TypeOK
  <2> HIDE DEF p
  <2>2. orche' \in OrcheType /\ orche'.stack = orche.stack \cup {p} /\ orche'.pc # "off"
    BY <1>1, <1>3, <2>1 DEF OrcheType
  <2> QED BY <1>1, <1>2, <1>3, <2>2, KeptByOrcheChild DEF p
<1>4. CASE UNCHANGED procs /\ orche' = [orche EXCEPT !.todo = @ \ {n}]
  <2>1. orche' \in OrcheType /\ orche'.stack = orche.stack /\ orche'.pc # "off"
    BY <1>1, <1>4 DEF OrcheType
  <2> QED BY <1>1, <1>4, <2>1, KeptByOrcheAlone
<1> QED BY <1>3, <1>4 DEF SpawnWatcher, With, WithChild, Pid

LEMMA KeptByEndpoint == IInv /\ (EndpointReady \/ EndpointTimeout \/ Quit) => IInv'
<1> SUFFICES ASSUME IInv, EndpointReady \/ EndpointTimeout \/ Quit PROVE IInv'
  OBVIOUS
<1>1. CASE EndpointReady
  <2>1. orche' = [orche EXCEPT !.pc = "spawning"] /\ orche \in OrcheType
        /\ UNCHANGED <<procs, port, config, desk, used>>
    BY <1>1 DEF EndpointReady, IInv, TypeOK
  <2>2. orche' \in OrcheType /\ orche'.stack = orche.stack /\ orche'.pc # "off"
    BY <2>1 DEF OrcheType
  <2> QED BY <2>1, <2>2, KeptByOrcheAlone
<1>2. CASE EndpointTimeout \/ Quit
  <2>1. /\ Kill(orche.stack) /\ UNCHANGED <<config, desk, used>>
        /\ orche' \in {OrcheFailed, [OrcheFailed EXCEPT !.pc = "off"]}
    BY <1>2 DEF EndpointTimeout, Quit
  <2>2. orche' \in OrcheType /\ orche'.stack = {}
    BY <2>1, OrcheFields DEF IInv
  <2> QED BY <2>1, <2>2, KeptByOrcheEnd
<1> QED BY <1>1, <1>2

-----------------------------------------------------------------------------
(* The theorems.                                                           *)

LEMMA NextInvariant == IInv /\ [Next]_vars => IInv'
<1> SUFFICES ASSUME IInv, [Next]_vars PROVE IInv'
  OBVIOUS
<1>1. CASE Serve \/ \E p \in DOMAIN procs : Exit(p)
  BY <1>1, KeptByChildren DEF Serve
<1>2. CASE Command
  BY <1>2, KeptByStartIngest, KeptByAttachWatchers, KeptByStopWatchers, KeptByRequest,
     KeptByIngestStopped, KeptByRepairSteps DEF Command
<1>3. CASE Desktop \/ RepairEnds
  BY <1>3, KeptByClick, KeptByIngestRefresh, KeptByStartWatcher, KeptByWatcher, KeptByRepairSteps
     DEF Desktop
<1>4. CASE Orche
  BY <1>4, KeptByProbe, KeptByEndpoint, KeptBySpawnWatcher DEF Orche
<1>5. CASE UNCHANGED vars
  BY <1>5 DEF vars, IInv, TypeOK, Excluded, Recorded, Current
<1> QED BY <1>1, <1>2, <1>3, <1>4, <1>5 DEF Next

\* The inductive invariant holds of every execution.
THEOREM Invariant == Spec => []IInv
<1>1. Init => IInv
  BY InitInvariant
<1>2. IInv /\ [Next]_vars => IInv'
  BY NextInvariant
<1> QED BY <1>1, <1>2, PTL DEF Spec

\* No child is left without a program that holds it.
THEOREM NoStrayChild == Spec => []NoStrays
<1>1. IInv => NoStrays
  BY NotAPid DEF IInv, TypeOK, ProcsType, ChildType, Held, IsChild, NoStrays
<1> QED BY <1>1, Invariant, PTL

\* A repair of the storage never runs beside a server that the desktop started;
\* watchers may outlive a server that exited by itself, and are not spoken of.
THEOREM RepairIsAlone == Spec => []RepairAlone
<1>1. IInv => RepairAlone
  <2> SUFFICES ASSUME IInv, desk.repair = "running", NEW p \in DOMAIN procs,
                      procs[p].owner = "desktop", procs[p].kind = "serve"
               PROVE  FALSE
    BY DEF RepairAlone
  <2>1. desk.ingest.child = NoPid /\ p # NoPid
    BY NotAPid DEF IInv, TypeOK, Excluded
  <2>2. PICK n \in Watchers : p = desk.watchers[n].child
    BY <2>1 DEF IInv, Held
  <2> QED BY <2>1, <2>2 DEF IInv, Held, IsChild
<1> QED BY <1>1, Invariant, PTL

\* As long as no server of the desktop has exited by itself, its live watchers
\* have the token of its live server.  After such an exit they need not: a
\* watcher outlives the server and keeps the token of the one that is gone.
THEOREM TokensAlwaysAgree == Spec => []TokensAgree
<1>1. IInv => TokensAgree
  BY NotAPid DEF IInv, TypeOK, Current, TokensAgree, Alive, HoldsToken
<1> QED BY <1>1, Invariant, PTL

-----------------------------------------------------------------------------
(* The terminal client.                                                    *)
(* Orders.                                                                 *)

\* A relation that is a strict total order on S.
IsOrder(R, S) ==
    /\ \A x \in S : <<x, x>> \notin R
    /\ \A x, y, z \in S : <<x, y>> \in R /\ <<y, z>> \in R => <<x, z>> \in R
    /\ \A x, y \in S : x = y \/ <<x, y>> \in R \/ <<y, x>> \in R

Above(R, S, x) == {y \in S : <<y, x>> \in R}

\* Of a finite set, each place in the order is taken.
LEMMA Places ==
  ASSUME NEW S, IsFiniteSet(S), NEW R, IsOrder(R, S)
  PROVE  /\ Cardinality(S) \in Nat
         /\ \A i \in 1 .. Cardinality(S) : \E x \in S : Cardinality(Above(R, S, x)) = i - 1
<1> DEFINE n    == Cardinality(S)
           rank == [x \in S |-> Cardinality(Above(R, S, x))]
<1>1. n \in Nat
  BY FS_CardinalityType
<1>2. ASSUME NEW x \in S
      PROVE  IsFiniteSet(Above(R, S, x)) /\ Cardinality(Above(R, S, x)) \in 0 .. (n - 1)
  <2>1. Above(R, S, x) \in SUBSET S /\ x \notin Above(R, S, x)
    BY DEF Above, IsOrder
  <2>2. /\ IsFiniteSet(Above(R, S, x)) /\ Cardinality(Above(R, S, x)) <= n
        /\ Cardinality(Above(R, S, x)) # n
    BY <2>1, FS_Subset
  <2>3. Cardinality(Above(R, S, x)) \in Nat
    BY <2>2, FS_CardinalityType
  <2> HIDE DEF n
  <2> QED BY <1>1, <2>2, <2>3
<1>3. ASSUME NEW x \in S, NEW y \in S, <<x, y>> \in R
      PROVE  Cardinality(Above(R, S, x)) # Cardinality(Above(R, S, y))
  <2>1. Above(R, S, x) \in SUBSET Above(R, S, y) /\ x \in Above(R, S, y) /\ x \notin Above(R, S, x)
    BY <1>3 DEF Above, IsOrder
  <2> QED BY <1>2, <2>1, FS_Subset
<1>4. rank \in Injection(S, 0 .. (n - 1))
  <2>1. rank \in [S -> 0 .. (n - 1)]
    BY <1>2
  <2>2. ASSUME NEW x \in S, NEW y \in S, rank[x] = rank[y] PROVE x = y
    BY <1>3, <2>2 DEF IsOrder
  <2> QED BY <2>1, <2>2 DEF Injection, IsInjective
<1> HIDE DEF rank
<1>5. IsFiniteSet(0 .. (n - 1)) /\ Cardinality(0 .. (n - 1)) = n
  <2> HIDE DEF n
  <2>1. IsFiniteSet(0 .. (n - 1)) /\ Cardinality(0 .. (n - 1)) = IF 0 > n - 1 THEN 0 ELSE (n - 1) - 0 + 1
    BY <1>1, FS_Interval
  <2> QED BY <1>1, <2>1
<1>6. rank \in Surjection(S, 0 .. (n - 1))
  <2> DEFINE T == 0 .. (n - 1)
  <2>1. rank \in Injection(S, T) /\ IsFiniteSet(T) /\ Cardinality(T) = Cardinality(S)
    BY <1>4, <1>5
  <2> HIDE DEF T, n
  <2>2. rank \in Surjection(S, T)
    BY <2>1, FS_Injection
  <2> QED BY <2>2 DEF T
<1>7. ASSUME NEW i \in 1 .. n PROVE \E x \in S : Cardinality(Above(R, S, x)) = i - 1
  <2>1. i - 1 \in 0 .. (n - 1)
    BY <1>1
  <2>2. PICK x \in S : rank[x] = i - 1
    BY <1>6, <2>1 DEF Surjection
  <2> QED BY <2>2 DEF rank
<1> QED BY <1>1, <1>7

\* Of a finite set that is not empty, one is above all others.
LEMMA Top ==
  ASSUME NEW S, IsFiniteSet(S), S # {}, NEW R, IsOrder(R, S)
  PROVE  \E x \in S : \A y \in S : x = y \/ <<x, y>> \in R
<1>1. Cardinality(S) \in Nat /\ Cardinality(S) # 0
  BY FS_CardinalityType, FS_EmptySet
<1>2. PICK x \in S : Cardinality(Above(R, S, x)) = 0
  <2>1. 1 \in 1 .. Cardinality(S) /\ 1 - 1 = 0
    BY <1>1
  <2> QED BY <2>1, Places
<1>3. Above(R, S, x) \in SUBSET S
  BY DEF Above
<1>4. Above(R, S, x) = {}
  BY <1>2, <1>3, FS_Subset, FS_EmptySet
<1> QED BY <1>4 DEF Above, IsOrder

\* The last of a revision's times, and that a later revision ends no earlier.
Revision(E) == E \subseteq Nat /\ IsFiniteSet(E) /\ E # {}

LEMMA LastTime ==
  ASSUME NEW E, Revision(E)
  PROVE  Last(E) \in E /\ \A t \in E : t <= Last(E)
<1> DEFINE R == {p \in E \X E : p[1] > p[2]}
<1>1. IsOrder(R, E)
  <2>1. \A x, y \in E : <<x, y>> \in R <=> x > y
    OBVIOUS
  <2>2. \A x \in E : x \in Nat
    BY DEF Revision
  <2> HIDE DEF R
  <2> QED BY <2>1, <2>2 DEF IsOrder
<1>2. PICK x \in E : \A y \in E : x = y \/ <<x, y>> \in R
  <2> HIDE DEF R
  <2> QED BY <1>1, Top DEF Revision
<1>3. ASSUME NEW y \in E PROVE y <= x
  <2>1. x \in Nat /\ y \in Nat
    BY DEF Revision
  <2>2. x = y \/ x > y
    BY <1>2
  <2> QED BY <2>1, <2>2
<1> QED BY <1>3 DEF Last

\* What a summary says of a revision is not more than the revision has.
Covers(E, s) == Cardinality(E) >= s.count /\ Last(E) >= s.last

Entries == [run : Runs, count : Nat, last : Nat, life : Nat]

LEMMA LaterCovers ==
  ASSUME NEW E, NEW F, Revision(E), Revision(F), E \subseteq F, NEW s \in Entries, Covers(E, s)
  PROVE  Covers(F, s)
<1>1. Cardinality(E) <= Cardinality(F) /\ Cardinality(E) \in Nat /\ Cardinality(F) \in Nat
  BY FS_Subset, FS_CardinalityType DEF Revision
<1>2. Last(E) <= Last(F) /\ Last(E) \in Nat /\ Last(F) \in Nat
  BY LastTime DEF Revision
<1> QED BY <1>1, <1>2 DEF Covers, Entries

\* The catalog of the snapshots lists Runs that have one, each at its revision.
LEMMA CatalogType ==
  ASSUME NEW snaps, IsFiniteSet(DOMAIN snaps), DOMAIN snaps \subseteq Runs, Runs \subseteq Nat,
         \A r \in DOMAIN snaps : Revision(snaps[r]), past.lives \in [Runs -> Nat]
  PROVE  /\ Catalog(snaps) \in Seq(Entries)
         /\ \A i \in DOMAIN Catalog(snaps) :
               LET e == Catalog(snaps)[i]
               IN  /\ e.run \in DOMAIN snaps /\ Covers(snaps[e.run], e)
                   /\ e.life = past.lives[e.run]
<1> DEFINE entry(r) == [run |-> r, count |-> Cardinality(snaps[r]), last |-> Last(snaps[r]),
                        life |-> past.lives[r]]
           S        == {entry(r) : r \in DOMAIN snaps}
           R        == {p \in S \X S : \/ p[1].last > p[2].last
                                       \/ p[1].last = p[2].last /\ p[1].run > p[2].run}
           n        == Cardinality(S)
<1>1. ASSUME NEW e \in S
      PROVE  /\ e \in Entries /\ e.run \in DOMAIN snaps /\ e = entry(e.run)
             /\ Covers(snaps[e.run], e) /\ e.life = past.lives[e.run]
  <2>1. PICK r \in DOMAIN snaps : e = entry(r)
    OBVIOUS
  <2>2. Cardinality(snaps[r]) \in Nat /\ Last(snaps[r]) \in Nat /\ past.lives[r] \in Nat
    BY FS_CardinalityType, LastTime DEF Revision
  <2>3. /\ e.run = r /\ e.count = Cardinality(snaps[r]) /\ e.last = Last(snaps[r])
        /\ e.life = past.lives[r]
    BY <2>1
  <2> QED BY <2>1, <2>2, <2>3 DEF Entries, Covers
<1>2. IsFiniteSet(S)
  <2> DEFINE f == [r \in DOMAIN snaps |-> entry(r)]
  <2>1. f \in Surjection(DOMAIN snaps, S)
    BY DEF Surjection
  <2> HIDE DEF f, S
  <2> QED BY <2>1, FS_Surjection
<1>3. IsOrder(R, S)
  <2>1. \A x, y \in S : <<x, y>> \in R <=> x.last > y.last \/ (x.last = y.last /\ x.run > y.run)
    OBVIOUS
  <2>2. \A x \in S : x.last \in Nat /\ x.run \in Nat
    BY <1>1 DEF Entries
  <2>3. \A x, y \in S : x.run = y.run => x = y
    BY <1>1
  <2> HIDE DEF R, S
  <2>4. ASSUME NEW x \in S, NEW y \in S, NEW z \in S, <<x, y>> \in R, <<y, z>> \in R
        PROVE  <<x, z>> \in R
    BY <2>1, <2>2, <2>4
  <2>5. \A x \in S : <<x, x>> \notin R
    BY <2>1, <2>2
  <2>6. ASSUME NEW x \in S, NEW y \in S, x # y PROVE <<x, y>> \in R \/ <<y, x>> \in R
    BY <2>1, <2>2, <2>3, <2>6
  <2> QED BY <2>4, <2>5, <2>6 DEF IsOrder
<1>4. ASSUME NEW x \in S
      PROVE  Above(R, S, x) = {y \in S : y.last > x.last \/ (y.last = x.last /\ y.run > x.run)}
  BY DEF Above
<1>5. Catalog(snaps) = [i \in 1 .. Cardinality(S) |-> CHOOSE x \in S :
         Cardinality({y \in S : y.last > x.last \/ (y.last = x.last /\ y.run > x.run)}) = i - 1]
  BY DEF Catalog, Ranked
<1>6. /\ n \in Nat /\ n = Cardinality(S)
      /\ \A i \in 1 .. n : \E x \in S : Cardinality(Above(R, S, x)) = i - 1
  <2> HIDE DEF R, S
  <2> QED BY <1>2, <1>3, Places
<1>7. ASSUME NEW i \in 1 .. n PROVE Catalog(snaps)[i] \in S
  <2>1. Catalog(snaps)[i] = CHOOSE x \in S :
         Cardinality({y \in S : y.last > x.last \/ (y.last = x.last /\ y.run > x.run)}) = i - 1
    BY <1>5, <1>6
  <2>2. PICK x \in S : Cardinality(Above(R, S, x)) = i - 1
    BY <1>6
  <2>3. Cardinality({y \in S : y.last > x.last \/ (y.last = x.last /\ y.run > x.run)}) = i - 1
    <3> HIDE DEF S, R, n
    <3>1. Cardinality({y \in S : y.last > x.last \/ (y.last = x.last /\ y.run > x.run)}) = i - 1
      BY <1>4, <2>2
    <3> QED BY <3>1
  <2> HIDE DEF R, S, n
  <2> QED BY <2>1, <2>3
<1>8. DOMAIN Catalog(snaps) = 1 .. n /\ Catalog(snaps) \in [1 .. n -> Entries]
  <2> DEFINE c == Catalog(snaps)
  <2>1. c = [i \in 1 .. n |-> c[i]]
    BY <1>5, <1>6
  <2>2. \A i \in 1 .. n : c[i] \in Entries
    BY <1>1, <1>7
  <2> HIDE DEF c, n
  <2>3. DOMAIN c = 1 .. n /\ c \in [1 .. n -> Entries]
    BY <2>1, <2>2
  <2> QED BY <2>3 DEF c
<1> HIDE DEF S, n
<1>9. Catalog(snaps) \in Seq(Entries)
  BY <1>6, <1>8
<1> QED BY <1>1, <1>7, <1>8, <1>9

\* Of some of a catalog's entries, the most recent is one.
LEMMA MostRecent ==
  ASSUME NEW catalog \in Seq(Entries), NEW S \in SUBSET DOMAIN catalog, S # {}
  PROVE  MostRecentOf(catalog, S) \in S
<1> DEFINE later(i, j) ==
             \/ catalog[j].last < catalog[i].last
             \/ /\ catalog[j].last = catalog[i].last
                /\ \/ catalog[j].count < catalog[i].count
                   \/ catalog[j].count = catalog[i].count /\ j < i
           R == {p \in S \X S : later(p[1], p[2])}
<1>1. ASSUME NEW i \in S PROVE i \in Nat /\ catalog[i].last \in Nat /\ catalog[i].count \in Nat
  <2>1. i \in 1 .. Len(catalog) /\ catalog[i] \in Entries
    OBVIOUS
  <2> QED BY <2>1 DEF Entries
<1>2. \A i, j \in S : <<i, j>> \in R <=> later(i, j)
  OBVIOUS
<1>3. IsFiniteSet(S)
  <2>1. DOMAIN catalog = 1 .. Len(catalog) /\ Len(catalog) \in Nat
    OBVIOUS
  <2>2. IsFiniteSet(1 .. Len(catalog))
    BY <2>1, FS_Interval
  <2> QED BY <2>1, <2>2, FS_Subset
<1> HIDE DEF R
<1>4. IsOrder(R, S)
  <2>1. ASSUME NEW x \in S, NEW y \in S, NEW z \in S, <<x, y>> \in R, <<y, z>> \in R
        PROVE  <<x, z>> \in R
    <3>1. later(x, y) /\ later(y, z)
      BY <1>2, <2>1
    <3>2. later(x, z)
      <4>1. /\ x \in Nat /\ catalog[x].last \in Nat /\ catalog[x].count \in Nat
            /\ y \in Nat /\ catalog[y].last \in Nat /\ catalog[y].count \in Nat
            /\ z \in Nat /\ catalog[z].last \in Nat /\ catalog[z].count \in Nat
        BY <1>1
      <4> QED BY ONLY <3>1, <4>1
    <3> QED BY <1>2, <3>2
  <2>2. \A x \in S : <<x, x>> \notin R
    BY <1>1, <1>2
  <2>3. ASSUME NEW x \in S, NEW y \in S, x # y PROVE <<x, y>> \in R \/ <<y, x>> \in R
    BY <1>1, <1>2, <2>3
  <2> QED BY <2>1, <2>2, <2>3 DEF IsOrder
<1>5. PICK i \in S : \A j \in S : i = j \/ later(i, j)
  <2>1. PICK i \in S : \A j \in S : i = j \/ <<i, j>> \in R
    BY <1>3, <1>4, Top
  <2> QED BY <1>2, <2>1
<1>6. \A j \in S : \/ catalog[j].last < catalog[i].last
                   \/ /\ catalog[j].last = catalog[i].last
                      /\ \/ catalog[j].count < catalog[i].count
                         \/ catalog[j].count = catalog[i].count /\ j <= i
  BY <1>1, <1>5
<1> QED BY <1>6 DEF MostRecentOf

-----------------------------------------------------------------------------
(* The files and the server's writes.                                      *)

\* A summary of a Run that has a snapshot, of its revision or an earlier one.
Available(s) == /\ s.life = past.lives[s.run]
              /\ s.run \in DOMAIN files.snaps /\ Covers(files.snaps[s.run], s)

\* One that was current, and is unless the Run's files have been removed since.
Announced(s) == s.life <= past.lives[s.run] /\ (s.life = past.lives[s.run] => Available(s))

PastType(p) == /\ p = [publishes |-> p.publishes, keys |-> p.keys, lives |-> p.lives]
               /\ p.lives \in [Runs -> Nat]

FilesType ==
    /\ files = [catalog |-> files.catalog, snaps |-> files.snaps, pages |-> files.pages]
    /\ job = [stage |-> job.stage, run |-> job.run, events |-> job.events, page |-> job.page]
    /\ PastType(past)
    /\ files.catalog \in Seq(Entries)
    /\ IsFiniteSet(DOMAIN files.snaps) /\ DOMAIN files.snaps \subseteq Runs
    /\ \A r \in DOMAIN files.snaps : Revision(files.snaps[r])

\* The server writes a later revision of a Run, or its first ...
Writing == /\ job.stage \in {"pages", "snapshot", "catalog"}
           /\ job.run \in Runs /\ Revision(job.events)
           /\ job.run \in DOMAIN files.snaps => files.snaps[job.run] \subseteq job.events

\* ... or removes one, first from the catalog.
Removing == /\ job.stage \in {"catalog", "remove"} /\ job.events = {}
            /\ job.run \in DOMAIN files.snaps
            /\ job.stage = "remove" => PositionOf(files.catalog, job.run) = {}

FilesOK == /\ FilesType
           /\ \A i \in DOMAIN files.catalog : Available(files.catalog[i])
           /\ job = Quiet \/ Writing \/ Removing

\* What a step of the server may do to what a client has read: it comes to hold
\* less only when the Run's files are removed.
Onward == \A s \in Entries : Announced(s) =>
             Announced(s)' /\ (s.life = past'.lives[s.run] => s.life = past.lives[s.run])

LEMMA CatalogEntry ==
  ASSUME NEW c \in Seq(Entries), NEW i \in DOMAIN c
  PROVE  c[i] \in Entries /\ c[i].run \in Runs
<1>1. i \in 1 .. Len(c) /\ c[i] \in Entries
  OBVIOUS
<1> QED BY <1>1 DEF Entries

\* A step that leaves the snapshots as they are.
LEMMA SnapsKept ==
  ASSUME files'.snaps = files.snaps, past'.lives = past.lives
  PROVE  Onward
  BY DEF Onward, Announced, Available, Covers

LEMMA KeptByBeginWrite ==
  ASSUME FilesOK, job = Quiet, NEW r \in Runs, NEW E, Revision(E),
         r \in DOMAIN files.snaps => files.snaps[r] \subseteq E,
         job' = Publish(r, E), UNCHANGED files, past'.lives = past.lives, PastType(past')
  PROVE  FilesOK' /\ Onward
<1>1. job'.stage = "pages" /\ job'.run = r /\ job'.events = E
      /\ job' = [stage |-> job'.stage, run |-> job'.run, events |-> job'.events, page |-> job'.page]
  BY DEF Publish
<1>3. Writing'
  BY <1>1 DEF Writing
<1>4. FilesType'
  BY <1>1 DEF FilesOK, FilesType, PastType
<1>6. \A i \in DOMAIN files'.catalog : Available(files.catalog[i])'
  BY DEF FilesOK, Available, Covers
<1> QED BY <1>3, <1>4, <1>6, SnapsKept DEF FilesOK

LEMMA KeptByBeginPublish ==
  ASSUME NEW r \in Runs, NEW E \in Revisions[r]
  PROVE  FilesOK /\ BeginPublish(r, E) => FilesOK' /\ Onward
<1> SUFFICES ASSUME FilesOK, BeginPublish(r, E) PROVE FilesOK' /\ Onward
  OBVIOUS
<1> DEFINE old == IF r \in DOMAIN files.snaps THEN files.snaps[r] ELSE {}
<1>1. /\ job = Quiet /\ ~ E \subseteq old
      /\ job' = Publish(r, old \cup E) /\ UNCHANGED files
      /\ past' = [past EXCEPT !.publishes = @ + 1]
  BY DEF BeginPublish
<1>2. past'.lives = past.lives /\ PastType(past')
  BY <1>1 DEF FilesOK, FilesType, PastType
<1>3. Revision(old \cup E)
  <2>1. E \subseteq Nat /\ IsFiniteSet(E)
    BY TerminalAssumption
  <2>2. old \subseteq Nat /\ IsFiniteSet(old)
    BY FS_EmptySet DEF FilesOK, FilesType, Revision
  <2> HIDE DEF old
  <2>3. IsFiniteSet(old \cup E)
    BY <2>1, <2>2, FS_Union
  <2> QED BY <1>1, <2>1, <2>2, <2>3 DEF Revision
<1>4. r \in DOMAIN files.snaps => files.snaps[r] \subseteq old \cup E
  OBVIOUS
<1> HIDE DEF old
<1> QED BY <1>1, <1>2, <1>3, <1>4, KeptByBeginWrite

LEMMA KeptByWritePage == FilesOK /\ WritePage => FilesOK' /\ Onward
<1> SUFFICES ASSUME FilesOK, WritePage PROVE FilesOK' /\ Onward
  OBVIOUS
<1>1. /\ files' = [catalog |-> files.catalog, snaps |-> files.snaps, pages |-> files'.pages]
      /\ UNCHANGED past /\ job.stage = "pages"
  BY DEF WritePage, FilesOK, FilesType
<1>2. /\ job' = [stage |-> job'.stage, run |-> job.run, events |-> job.events, page |-> job'.page]
      /\ job'.stage \in {"pages", "snapshot"}
  BY DEF WritePage, FilesOK, FilesType
<1>3. Writing /\ ~Removing
  BY <1>1 DEF FilesOK, Removing, Quiet
<1>4. Writing'
  BY <1>1, <1>2, <1>3 DEF Writing
<1>5. FilesType'
  BY <1>1, <1>2 DEF FilesOK, FilesType, PastType
<1>6. \A i \in DOMAIN files'.catalog : Available(files.catalog[i])'
  BY <1>1 DEF FilesOK, Available, Covers
<1>7. files'.catalog = files.catalog /\ files'.snaps = files.snaps
  BY <1>1
<1> QED BY <1>1, <1>3, <1>4, <1>5, <1>6, <1>7, SnapsKept DEF FilesOK

LEMMA KeptByWriteSnapshot == FilesOK /\ WriteSnapshot => FilesOK' /\ Onward
<1> SUFFICES ASSUME FilesOK, WriteSnapshot PROVE FilesOK' /\ Onward
  OBVIOUS
<1> DEFINE snaps == files.snaps
<1>1. /\ files' = [catalog |-> files.catalog, snaps |-> Put(snaps, job.run, job.events),
                  pages |-> files.pages]
      /\ job' = [stage |-> "catalog", run |-> job.run, events |-> job.events, page |-> job.page]
      /\ UNCHANGED past /\ job.stage = "snapshot"
  BY DEF WriteSnapshot, FilesOK, FilesType
<1>2. Writing
  BY <1>1 DEF FilesOK, Removing, Quiet
<1>3. /\ DOMAIN files'.snaps = DOMAIN snaps \cup {job.run} /\ files'.snaps[job.run] = job.events
      /\ \A r \in DOMAIN snaps : r # job.run => files'.snaps[r] = snaps[r]
  BY <1>1 DEF Put
<1>4. \A r \in DOMAIN files'.snaps : Revision(files'.snaps[r])
  BY <1>2, <1>3 DEF FilesOK, FilesType, Writing
<1>5. \A r \in DOMAIN snaps : r \in DOMAIN files'.snaps /\ snaps[r] \subseteq files'.snaps[r]
  BY <1>2, <1>3 DEF Writing
<1>6. ASSUME NEW s \in Entries, Available(s) PROVE Available(s)'
  <2>1. s.run \in DOMAIN snaps /\ Covers(snaps[s.run], s) /\ s.life = past.lives[s.run]
    BY <1>6 DEF Available
  <2>2. Revision(snaps[s.run]) /\ Revision(files'.snaps[s.run])
    BY <1>4, <1>5, <2>1 DEF FilesOK, FilesType
  <2>3. Covers(files'.snaps[s.run], s)
    BY <1>5, <2>1, <2>2, LaterCovers
  <2> QED BY <1>1, <1>5, <2>1, <2>3 DEF Available, Covers
<1>7. Onward
  BY <1>1, <1>6 DEF Onward, Announced
<1>8. IsFiniteSet(DOMAIN files'.snaps) /\ DOMAIN files'.snaps \subseteq Runs
  BY <1>2, <1>3, FS_AddElement DEF FilesOK, FilesType, Writing
<1>9. FilesType'
  BY <1>1, <1>4, <1>8 DEF FilesOK, FilesType, PastType
<1>10. \A i \in DOMAIN files'.catalog : Available(files.catalog[i])'
  BY <1>1, <1>6, CatalogEntry DEF FilesOK, FilesType
<1>11. Writing'
  BY <1>1, <1>2, <1>3 DEF Writing
<1>13. files'.catalog = files.catalog
  BY <1>1
<1> QED BY <1>1, <1>7, <1>9, <1>10, <1>11, <1>13 DEF FilesOK

LEMMA KeptByWriteCatalog == FilesOK /\ WriteCatalog => FilesOK' /\ Onward
<1> SUFFICES ASSUME FilesOK, WriteCatalog PROVE FilesOK' /\ Onward
  OBVIOUS
<1> DEFINE left == IF job.events = {} THEN Without(files.snaps, job.run) ELSE files.snaps
           c    == Catalog(left)
<1>1. /\ files' = [catalog |-> c, snaps |-> files.snaps, pages |-> files.pages]
      /\ UNCHANGED past /\ job.stage = "catalog"
  BY DEF WriteCatalog, FilesOK, FilesType
<1>2. /\ DOMAIN left \subseteq DOMAIN files.snaps /\ \A r \in DOMAIN left : left[r] = files.snaps[r]
      /\ job.events = {} => job.run \notin DOMAIN left
  BY DEF Without
<1> HIDE DEF left
<1>3. /\ c \in Seq(Entries)
      /\ \A i \in DOMAIN c : /\ c[i].run \in DOMAIN left /\ Covers(left[c[i].run], c[i])
                             /\ c[i].life = past.lives[c[i].run]
  <2>1. DOMAIN left \in SUBSET DOMAIN files.snaps
    BY <1>2
  <2>2. IsFiniteSet(DOMAIN left)
    BY <2>1, FS_Subset DEF FilesOK, FilesType
  <2>3. \A r \in DOMAIN left : Revision(left[r])
    BY <1>2 DEF FilesOK, FilesType
  <2>4. DOMAIN left \subseteq Runs /\ Runs \subseteq Nat
    BY <1>2, TerminalAssumption DEF FilesOK, FilesType
  <2>5. past.lives \in [Runs -> Nat]
    BY DEF FilesOK, FilesType, PastType
  <2> QED BY <2>2, <2>3, <2>4, <2>5, CatalogType
<1> HIDE DEF c
<1>5. files'.snaps = files.snaps /\ files'.catalog = c
  BY <1>1
<1>4. \A i \in DOMAIN files'.catalog : Available(files.catalog[i])'
  <2> SUFFICES ASSUME NEW i \in DOMAIN c
               PROVE  /\ c[i].life = past.lives[c[i].run]
                      /\ c[i].run \in DOMAIN files.snaps /\ Covers(files.snaps[c[i].run], c[i])
    BY <1>1, <1>5 DEF Available, Covers
  <2> QED BY <1>2, <1>3
<1>6. CASE job.events = {}
  <2>1. job' = [stage |-> "remove", run |-> job.run, events |-> job.events, page |-> job.page]
    BY <1>6 DEF WriteCatalog, FilesOK, FilesType
  <2>2. Removing
    BY <1>1, <1>6 DEF FilesOK, Writing, Revision, Quiet
  <2>3. PositionOf(c, job.run) = {}
    BY <1>2, <1>3, <1>6 DEF PositionOf
  <2>4. Removing'
    BY <1>1, <1>5, <2>1, <2>2, <2>3 DEF Removing, PositionOf
  <2>5. FilesType'
    BY <1>1, <1>3, <1>5, <2>1 DEF FilesOK, FilesType, PastType
  <2> QED BY <1>1, <1>4, <1>5, <2>1, <2>2, <2>4, <2>5, SnapsKept DEF FilesOK
<1>7. CASE job.events # {}
  <2>1. job' = Quiet
    BY <1>7 DEF WriteCatalog
  <2>3. FilesType'
    BY <1>1, <1>3, <1>5, <2>1 DEF FilesOK, FilesType, PastType, Quiet
  <2> QED BY <1>1, <1>4, <1>5, <2>1, <2>3, SnapsKept DEF FilesOK
<1> QED BY <1>6, <1>7

LEMMA KeptByRemoveFiles == FilesOK /\ RemoveFiles => FilesOK' /\ Onward
<1> SUFFICES ASSUME FilesOK, RemoveFiles PROVE FilesOK' /\ Onward
  OBVIOUS
<1> DEFINE snaps == files.snaps
<1>1. /\ files' = [catalog |-> files.catalog, snaps |-> Without(snaps, job.run),
                  pages |-> files'.pages]
      /\ job' = Quiet /\ job.stage = "remove"
  BY DEF RemoveFiles, FilesOK, FilesType
<1>2. Removing /\ PositionOf(files.catalog, job.run) = {} /\ job.run \in Runs
  <2>1. Removing
    BY <1>1 DEF FilesOK, Writing, Quiet
  <2> QED BY <1>1, <2>1 DEF Removing, FilesOK, FilesType
<1>3. /\ DOMAIN files'.snaps = DOMAIN snaps \ {job.run}
      /\ \A r \in DOMAIN files'.snaps : files'.snaps[r] = snaps[r]
  BY <1>1 DEF Without
<1>4. /\ past'.lives[job.run] = past.lives[job.run] + 1
      /\ \A r \in Runs \ {job.run} : past'.lives[r] = past.lives[r]
      /\ PastType(past')
  <2>1. past' = [past EXCEPT !.lives[job.run] = @ + 1]
    BY DEF RemoveFiles
  <2>2. past.lives \in [Runs -> Nat]
        /\ past = [publishes |-> past.publishes, keys |-> past.keys, lives |-> past.lives]
    BY DEF FilesOK, FilesType, PastType
  <2>3. past'.lives = [past.lives EXCEPT ![job.run] = @ + 1]
        /\ past' = [publishes |-> past'.publishes, keys |-> past'.keys, lives |-> past'.lives]
    BY <2>1, <2>2
  <2> QED BY <1>2, <2>2, <2>3 DEF PastType
<1>5. ASSUME NEW s \in Entries, s.run # job.run, Available(s) PROVE Available(s)'
  <2>1. s.run \in Runs
    BY DEF Entries
  <2> QED BY <1>3, <1>4, <1>5, <2>1 DEF Available, Covers
<1>6. Onward
  <2> SUFFICES ASSUME NEW s \in Entries, Announced(s)
               PROVE  Announced(s)' /\ (s.life = past'.lives[s.run] => s.life = past.lives[s.run])
    BY DEF Onward
  <2>1. s.run \in Runs /\ s.life \in Nat /\ past.lives[s.run] \in Nat
    BY DEF Entries, FilesOK, FilesType, PastType
  <2>2. CASE s.run = job.run
    BY <1>4, <2>1, <2>2 DEF Announced
  <2>3. CASE s.run # job.run
    BY <1>4, <1>5, <2>1, <2>3 DEF Announced
  <2> QED BY <2>2, <2>3
<1>7. FilesType'
  <2>1. DOMAIN files'.snaps \in SUBSET DOMAIN snaps
    BY <1>3
  <2>2. IsFiniteSet(DOMAIN files'.snaps)
    BY <2>1, FS_Subset DEF FilesOK, FilesType
  <2> QED BY <1>1, <1>3, <1>4, <2>2 DEF FilesOK, FilesType, PastType, Quiet
<1>10. files'.catalog = files.catalog
  BY <1>1
<1>8. \A i \in DOMAIN files'.catalog : Available(files.catalog[i])'
  <2> SUFFICES ASSUME NEW i \in DOMAIN files.catalog PROVE Available(files.catalog[i])'
    BY <1>10
  <2>1. Available(files.catalog[i]) /\ files.catalog[i].run # job.run
    BY <1>2 DEF FilesOK, PositionOf
  <2>2. files.catalog[i] \in Entries
    BY CatalogEntry DEF FilesOK, FilesType
  <2> QED BY <1>5, <1>10, <2>1, <2>2
<1> QED BY <1>1, <1>6, <1>7, <1>8, <1>10 DEF FilesOK

LEMMA KeptByBeginDelete ==
  ASSUME NEW r
  PROVE  FilesOK /\ BeginDelete(r) => FilesOK' /\ Onward
<1> SUFFICES ASSUME FilesOK, BeginDelete(r) PROVE FilesOK' /\ Onward
  OBVIOUS
<1>1. /\ job = Quiet /\ r \in DOMAIN files.snaps /\ UNCHANGED <<files, past>>
      /\ job' = [stage |-> "catalog", run |-> r, events |-> {}, page |-> 0]
  BY DEF BeginDelete, Quiet, FilesOK, FilesType
<1>2. Removing'
  BY <1>1 DEF Removing
<1>4. FilesType'
  BY <1>1 DEF FilesOK, FilesType, PastType
<1>5. \A i \in DOMAIN files.catalog : Available(files.catalog[i])'
  BY <1>1 DEF FilesOK, Available, Covers
<1> QED BY <1>1, <1>2, <1>4, <1>5, SnapsKept DEF FilesOK

-----------------------------------------------------------------------------
(* The client.                                                             *)
AppFields == {"catalog", "index", "shown", "events", "timeline", "complete", "cursor", "playing",
              "follow", "auto", "dialog", "pc", "op", "switch", "target", "reading", "failed"}

IsClient(a) == /\ DOMAIN a = AppFields
               /\ a.catalog \in Seq(Entries)
               /\ HasRuns(a) => a.index \in DOMAIN a.catalog
               /\ a.dialog # NoDialog => HasRuns(a)

\* What the client's catalog lists has been published, and may be gone by now.
Known(a) == \A i \in DOMAIN a.catalog : Announced(a.catalog[i])

\* The screen shows the selected Run as the catalog has it, or as it was later,
\* if the Run's files have not been removed since the catalog was written.
Shows(a) ==
    /\ a.shown = Summary(a).run
    /\ Summary(a).life = past.lives[Summary(a).run] => Covers(a.events, Summary(a))

\* A reload keeps the Run of a client that does not follow.
KeepsRun(a) ==
    /\ a.op \in Reloads /\ ~a.failed /\ ~(a.auto /\ a.follow)
    /\ PositionOf(a.catalog, a.shown) # {}
    => Summary(a).run = a.shown

InPlace(a) ==
    /\ a.pc = "idle" /\ HasRuns(a) => a.failed \/ Shows(a)
    /\ a.pc \in {"paging", "page", "request", "awaiting"} => HasRuns(a) /\ (a.failed \/ Shows(a))
    /\ a.pc = "snapshot" => HasRuns(a) /\ KeepsRun(a)
    /\ a.pc \in {"request", "awaiting"} =>
          a.target = Summary(a).run /\ a.op \in {"renamed", "deleted"}

ClientOK(a) == IsClient(a) /\ Known(a) /\ InPlace(a)

ClientInv == FilesOK /\ ClientOK(app)

\* b shows the same as a, with or without a's dialog.
Alike(a, b) ==
    /\ DOMAIN b = AppFields
    /\ b.catalog = a.catalog /\ b.index = a.index /\ b.shown = a.shown /\ b.events = a.events
    /\ b.dialog = a.dialog \/ b.dialog = NoDialog
    /\ b.failed = a.failed \/ b.failed = TRUE

LEMMA Alikes ==
  ASSUME NEW a, NEW b, IsClient(a), Known(a), Alike(a, b)
  PROVE  /\ IsClient(b) /\ Known(b) /\ HasRuns(b) = HasRuns(a)
         /\ Summary(b) = Summary(a)
         /\ Shows(b) = Shows(a)
<1>1. HasRuns(b) = HasRuns(a) /\ Summary(b) = Summary(a)
  BY DEF Alike, HasRuns, Summary
<1>2. IsClient(b) /\ Known(b)
  BY <1>1 DEF Alike, IsClient, Known
<1> QED BY <1>1, <1>2 DEF Alike, Shows

\* At rest, what is alike is as good.
LEMMA AtRest ==
  ASSUME NEW a, NEW b, IsClient(a), Known(a), Alike(a, b), b.pc \in {"idle", "exited"},
         HasRuns(a) => b.failed \/ Shows(a)
  PROVE  ClientOK(b)
  BY Alikes DEF ClientOK, InPlace

LEMMA Rested ==
  ASSUME NEW a, NEW b, ClientOK(a), a.pc = "idle", Alike(a, b), b.pc = "idle"
  PROVE  ClientOK(b)
<1>1. HasRuns(a) => b.failed \/ Shows(a)
  BY DEF ClientOK, InPlace, Alike
<1> QED BY <1>1, AtRest DEF ClientOK

\* An error leaves the client at rest or ends it.
LEMMA FailedOK ==
  ASSUME NEW a, IsClient(a), Known(a)
  PROVE  ClientOK(Failed(a))
<1> DEFINE b == Failed(a)
<1>1. Alike(a, b) /\ b.pc \in {"idle", "exited"} /\ b.failed
  BY DEF Failed, Alike, IsClient, AppFields
<1> HIDE DEF b
<1>2. ClientOK(b)
  BY <1>1, AtRest
<1> QED BY <1>2 DEF b

\* Another Run is selected, and its snapshot is to be read.
LEMMA SelectedOK ==
  ASSUME NEW a, NEW b, IsClient(a), Known(a), DOMAIN b = AppFields, b.catalog = a.catalog,
         b.index \in DOMAIN a.catalog, b.dialog = a.dialog, HasRuns(a),
         b.pc = "snapshot", b.op \notin Reloads
  PROVE  ClientOK(b)
<1>1. HasRuns(b)
  BY DEF HasRuns
<1> QED BY <1>1 DEF ClientOK, InPlace, IsClient, Known, KeepsRun

\* The server's steps and the client's own keep what the client relies on.
LEMMA Carried ==
  ASSUME ClientOK(app'), Onward
  PROVE  ClientOK(app)'
<1>1. IsClient(app)'
  BY DEF ClientOK, IsClient, AppFields, Entries
<1>2. Known(app)'
  <2> SUFFICES ASSUME NEW i \in DOMAIN app'.catalog
               PROVE  Announced(app.catalog[i])'
    BY DEF Known
  <2> DEFINE s == app'.catalog[i]
  <2>1. s \in Entries
    BY CatalogEntry DEF ClientOK, IsClient
  <2>2. Announced(s)
    BY DEF ClientOK, Known
  <2> QED BY <2>1, <2>2 DEF Onward, Announced, Available
<1>3. HasRuns(app') /\ Shows(app') => Shows(app)'
  <2> SUFFICES ASSUME HasRuns(app'), Shows(app') PROVE Shows(app)'
    OBVIOUS
  <2> DEFINE s == app'.catalog[app'.index]
  <2>1. app'.index \in DOMAIN app'.catalog
    BY DEF ClientOK, IsClient
  <2>2. s \in Entries
    BY <2>1, CatalogEntry DEF ClientOK, IsClient
  <2>3. Announced(s)
    BY <2>1 DEF ClientOK, Known
  <2>4. s.life = past'.lives[s.run] => s.life = past.lives[s.run]
    BY <2>2, <2>3 DEF Onward
  <2>5. /\ app'.shown = s.run
        /\ s.life = past.lives[s.run] => Covers(app'.events, s)
    BY DEF Shows, Summary
  <2> QED BY <2>4, <2>5 DEF Shows, Summary, Covers
<1>5. KeepsRun(app') <=> KeepsRun(app)'
  BY DEF KeepsRun, Summary, PositionOf
<1>6. HasRuns(app') <=> HasRuns(app)'
  BY DEF HasRuns
<1>7. Summary(app').run = Summary(app)'.run
  BY DEF Summary
<1>8. InPlace(app)'
  BY <1>3, <1>5, <1>6, <1>7 DEF ClientOK, InPlace
<1> QED BY <1>1, <1>2, <1>8 DEF ClientOK

LEMMA OwnStep ==
  ASSUME FilesOK, UNCHANGED <<files, job>>, past'.lives = past.lives, ClientOK(app'),
         PastType(past')
  PROVE  ClientInv'
<1>1. FilesOK'
  BY DEF FilesOK, FilesType, PastType, Available, Covers, Removing, Writing
<1>2. Onward
  BY SnapsKept
<1> QED BY <1>1, <1>2, Carried DEF ClientInv

-----------------------------------------------------------------------------
(* The client's reads.                                                     *)
LEMMA Positions ==
  ASSUME NEW c, NEW r
  PROVE  \A i \in PositionOf(c, r) : i \in DOMAIN c /\ c[i].run = r
  BY DEF PositionOf

LEMMA Preferred ==
  ASSUME NEW a, NEW c \in Seq(Entries), c # << >>
  PROVE  /\ MostRecentRun(c) \in DOMAIN c
         /\ PreferredRun(a, c) \in DOMAIN c
         /\ ~(a.auto /\ a.follow) /\ PositionOf(c, Summary(a).run) # {} =>
               c[PreferredRun(a, c)].run = Summary(a).run
<1> DEFINE new == {i \in DOMAIN c : PositionOf(a.catalog, c[i].run) = {}}
           own == PositionOf(c, Summary(a).run)
<1>1. DOMAIN c # {}
  <2>1. DOMAIN c = 1 .. Len(c) /\ Len(c) \in Nat /\ Len(c) # 0
    OBVIOUS
  <2>2. 1 \in 1 .. Len(c)
    BY <2>1
  <2> QED BY <2>1, <2>2
<1>2. MostRecentRun(c) \in DOMAIN c
  BY <1>1, MostRecent DEF MostRecentRun
<1>3. new \in SUBSET DOMAIN c
  OBVIOUS
<1>4. PreferredRun(a, c) =
         IF a.auto /\ a.follow /\ new # {} THEN MostRecentOf(c, new)
         ELSE IF own # {} THEN CHOOSE i \in own : TRUE ELSE MostRecentRun(c)
  BY DEF PreferredRun
<1> HIDE DEF new
<1>5. new # {} => MostRecentOf(c, new) \in DOMAIN c
  BY <1>3, MostRecent
<1>6. \A i \in own : i \in DOMAIN c /\ c[i].run = Summary(a).run
  BY Positions
<1> HIDE DEF own
<1>7. ASSUME own # {} PROVE (CHOOSE i \in own : TRUE) \in own
  <2>1. \E i \in own : TRUE
    BY <1>7
  <2> QED BY <2>1
<1>8. PreferredRun(a, c) \in DOMAIN c
  BY <1>2, <1>4, <1>5, <1>6, <1>7
<1>9. ~(a.auto /\ a.follow) /\ own # {} => c[PreferredRun(a, c)].run = Summary(a).run
  BY <1>4, <1>6, <1>7
<1> QED BY <1>2, <1>8, <1>9 DEF own

\* The catalog that is on disk is as good as the one the client holds.
LEMMA OnDisk ==
  ASSUME FilesOK, NEW i \in DOMAIN files.catalog
  PROVE  /\ files.catalog \in Seq(Entries) /\ files.catalog # << >>
         /\ files.catalog[i] \in Entries
         /\ Announced(files.catalog[i])
<1>1. files.catalog[i] \in Entries /\ files.catalog \in Seq(Entries) /\ files.catalog # << >>
  BY CatalogEntry DEF FilesOK, FilesType
<1>2. Available(files.catalog[i]) /\ files.catalog[i].life \in Nat
  BY <1>1 DEF FilesOK, Entries
<1> QED BY <1>1, <1>2 DEF Announced, Available

LEMMA ReloadOK ==
  ASSUME FilesOK, NEW a, IsClient(a), Known(a), a.pc = "idle",
         HasRuns(a) => a.failed \/ Shows(a),
         a.op \in Reloads, NEW manual \in BOOLEAN
  PROVE  ClientOK(Reload(a, manual))
<1> DEFINE c == files.catalog
           b == Reload(a, manual)
<1>1. c \in Seq(Entries)
  BY DEF FilesOK, FilesType
<1>2. CASE c = << >>
  <2>1. CASE HasRuns(a)
    <3>1. b = EmptyState(a, c)
      BY <1>2, <2>1 DEF Reload
    <3>2. /\ DOMAIN b = AppFields /\ b.catalog = c /\ b.dialog = NoDialog /\ b.pc = "idle"
      BY <3>1 DEF EmptyState, IsClient, AppFields
    <3> HIDE DEF b
    <3>3. ~HasRuns(b) /\ DOMAIN c = {}
      BY <1>2, <3>2 DEF HasRuns
    <3>4. ClientOK(b)
      BY <1>1, <3>2, <3>3 DEF ClientOK, IsClient, Known, InPlace
    <3> QED BY <3>4 DEF b
  <2>2. CASE ~HasRuns(a)
    <3>1. b = [a EXCEPT !.catalog = c]
      BY <1>2, <2>2 DEF Reload
    <3>2. Alike(a, b) /\ b.pc = "idle"
      BY <1>2, <2>2, <3>1 DEF HasRuns, IsClient, AppFields, Alike
    <3> HIDE DEF b
    <3>3. ClientOK(b)
      BY <2>2, <3>2, AtRest
    <3> QED BY <3>3 DEF b
  <2> QED BY <2>1, <2>2
<1>3. CASE c # << >> /\ ~HasRuns(a)
  <2>1. b = [a EXCEPT !.catalog = c, !.index = MostRecentRun(c), !.pc = "snapshot", !.op = "first"]
    BY <1>3 DEF Reload
  <2>2. /\ DOMAIN b = AppFields /\ b.catalog = c /\ b.index = MostRecentRun(c)
        /\ b.pc = "snapshot" /\ b.op = "first" /\ b.dialog = a.dialog
    BY <2>1 DEF IsClient, AppFields
  <2> HIDE DEF b
  <2>3. HasRuns(b) /\ IsClient(b)
    BY <1>1, <1>3, <2>2, Preferred DEF HasRuns, IsClient
  <2>4. Known(b)
    BY <2>2, OnDisk DEF Known
  <2>5. KeepsRun(b)
    BY <2>2 DEF KeepsRun, Reloads
  <2>6. ClientOK(b)
    BY <2>2, <2>3, <2>4, <2>5 DEF ClientOK, InPlace
  <2> QED BY <2>6 DEF b
<1>4. CASE c # << >> /\ HasRuns(a)
  <2> DEFINE next    == PreferredRun(a, c)
             switch  == c[next].run # Summary(a).run
             changed == \/ switch
                        \/ c[next].count # Cardinality(a.events)
                        \/ c[next].last # Last(a.events)
  <2>1. b = [a EXCEPT !.catalog = c, !.index = next,
                      !.pc = IF changed \/ manual THEN "snapshot" ELSE "idle", !.switch = switch]
    BY <1>4 DEF Reload
  <2>2. next \in DOMAIN c
    BY <1>1, <1>4, Preferred
  <2>3. ~(a.auto /\ a.follow) /\ PositionOf(c, Summary(a).run) # {} => ~switch
    BY <1>1, <1>4, Preferred
  <2> HIDE DEF next, switch
  <2>4. /\ DOMAIN b = AppFields /\ b.catalog = c /\ b.index = next
        /\ b.pc = (IF changed \/ manual THEN "snapshot" ELSE "idle") /\ b.op = a.op
        /\ b.dialog = a.dialog /\ b.shown = a.shown /\ b.events = a.events
        /\ b.auto = a.auto /\ b.follow = a.follow /\ b.failed = a.failed
    BY <2>1 DEF IsClient, AppFields
  <2> HIDE DEF b, changed
  <2>5. HasRuns(b) /\ IsClient(b) /\ Known(b)
    <3>1. HasRuns(b)
      BY <1>4, <2>4 DEF HasRuns
    <3>2. IsClient(b)
      BY <1>1, <2>2, <2>4, <3>1 DEF IsClient
    <3> QED BY <2>4, <3>1, <3>2, OnDisk DEF Known
  <2>6. Summary(b) = c[next]
    BY <2>4 DEF Summary
  <2>7. CASE changed \/ manual
    <3>1. KeepsRun(b)
      <4> SUFFICES ASSUME ~a.failed, ~(a.auto /\ a.follow),
                          PositionOf(c, a.shown) # {}
                   PROVE  c[next].run = a.shown
        BY <2>4, <2>6 DEF KeepsRun
      <4>1. a.shown = Summary(a).run
        BY <1>4 DEF Shows
      <4> QED BY <2>3, <4>1 DEF switch
    <3>2. ClientOK(b)
      BY <2>4, <2>5, <2>7, <3>1 DEF ClientOK, InPlace
    <3> QED BY <3>2 DEF b
  <2>8. CASE ~(changed \/ manual)
    <3>1. /\ c[next].run = Summary(a).run
          /\ c[next].count = Cardinality(a.events) /\ c[next].last = Last(a.events)
      BY <2>8 DEF changed, switch
    <3>2. c[next] \in Entries
      BY <2>2, OnDisk
    <3>3. a.failed \/ a.shown = c[next].run
      BY <1>4, <3>1 DEF Shows
    <3>4. Covers(a.events, c[next])
      <4>1. c[next].count \in Nat /\ c[next].last \in Nat
        BY <3>2 DEF Entries
      <4> QED BY <3>1, <4>1 DEF Covers
    <3>5. b.failed \/ Shows(b)
      BY <2>4, <2>6, <3>3, <3>4 DEF Shows
    <3>6. ClientOK(b)
      BY <2>4, <2>5, <2>8, <3>5 DEF ClientOK, InPlace
    <3> QED BY <3>6 DEF b
  <2> QED BY <2>7, <2>8
<1> QED BY <1>2, <1>3, <1>4

LEMMA Placed ==
  ASSUME ClientOK(app), HasRuns(app)
  PROVE  /\ app.index \in DOMAIN app.catalog /\ Summary(app) \in Entries
         /\ Announced(Summary(app))
<1>1. app.index \in DOMAIN app.catalog
  BY DEF ClientOK, IsClient
<1>2. Announced(app.catalog[app.index])
  BY <1>1 DEF ClientOK, Known
<1>3. app.catalog[app.index] \in Entries
  BY <1>1, CatalogEntry DEF ClientOK, IsClient
<1> QED BY <1>1, <1>2, <1>3 DEF Summary

LEMMA KeptByReadSnapshot == ClientInv /\ ReadSnapshot => ClientOK(app')
<1> SUFFICES ASSUME ClientInv, ReadSnapshot PROVE ClientOK(app')
  OBVIOUS
<1>1. FilesOK /\ ClientOK(app) /\ IsClient(app) /\ Known(app) /\ app.pc = "snapshot"
      /\ HasRuns(app)
  BY DEF ClientInv, ClientOK, InPlace, ReadSnapshot
<1> DEFINE r == Summary(app).run
<1>2. CASE r \notin DOMAIN files.snaps
  <2>1. app' = Failed(app)
    BY <1>2 DEF ReadSnapshot
  <2>3. ClientOK(Failed(app))
    BY <1>1, FailedOK
  <2> QED BY <2>1, <2>3
<1>3. CASE r \in DOMAIN files.snaps
  <2> DEFINE a == Installed(app, files.snaps[r])
  <2>1. /\ DOMAIN a = AppFields /\ a.catalog = app.catalog /\ a.index = app.index
        /\ a.dialog = app.dialog /\ a.shown = r /\ a.events = files.snaps[r]
    BY <1>1 DEF Installed, IsClient, AppFields
  <2>2. /\ Alike(a, app') /\ app'.pc \in {"idle", "paging"}
    <3>1. /\ Alike(a, [a EXCEPT !.pc = "paging"]) /\ [a EXCEPT !.pc = "paging"].pc = "paging"
      <4> HIDE DEF a
      <4> QED BY <2>1 DEF Alike, AppFields
    <3>2. /\ Alike(a, Reloaded(a)) /\ Reloaded(a).pc = "idle"
      <4> HIDE DEF a
      <4> QED BY <2>1 DEF Alike, AppFields, Reloaded
    <3> DEFINE b == AtLatest(a)
    <3>3. Alike(a, b) /\ b.pc = "idle" /\ DOMAIN b = AppFields
      <4> HIDE DEF a
      <4> QED BY <2>1 DEF Alike, AppFields, AtLatest
    <3>4. \A x, y : /\ Alike(a, [b EXCEPT !.auto = x]) /\ [b EXCEPT !.auto = x].pc = "idle"
                   /\ Alike(a, [b EXCEPT !.auto = x, !.playing = y])
                   /\ [b EXCEPT !.auto = x, !.playing = y].pc = "idle"
      <4> HIDE DEF a, b
      <4> QED BY <3>3 DEF Alike, AppFields
    <3>5. \/ app' = [a EXCEPT !.pc = "paging"]
          \/ app' = Reloaded(a)
          \/ app' = b
          \/ app' = [b EXCEPT !.auto = TRUE]
          \/ app' = [b EXCEPT !.auto = TRUE, !.playing = FALSE]
          \/ app' = [b EXCEPT !.auto = FALSE, !.playing = FALSE]
      <4>1. app' = CASE app.op \in Reloads ->
                          IF ~app.switch /\ app.complete /\ ~a.complete
                          THEN [a EXCEPT !.pc = "paging"] ELSE Reloaded(a)
                     [] app.op = "launch" -> b
                     [] app.op = "first"  -> [b EXCEPT !.auto = TRUE]
                     [] app.op = "follow" -> [b EXCEPT !.auto = TRUE, !.playing = FALSE]
                     [] OTHER -> [b EXCEPT !.auto = FALSE, !.playing = FALSE]
        BY <1>3 DEF ReadSnapshot
      <4> HIDE DEF a, b
      <4> QED BY <4>1
    <3> HIDE DEF a, b
    <3>6. CASE app' = [a EXCEPT !.pc = "paging"]
      BY <3>1, <3>6
    <3>7. CASE app' = Reloaded(a)
      BY <3>2, <3>7
    <3>8. CASE app' = b
      BY <3>3, <3>8
    <3>9. CASE \E x : app' = [b EXCEPT !.auto = x]
      BY <3>4, <3>9
    <3>10. CASE \E x, y : app' = [b EXCEPT !.auto = x, !.playing = y]
      <4>1. PICK x, y : app' = [b EXCEPT !.auto = x, !.playing = y]
        BY <3>10
      <4>2. Alike(a, [b EXCEPT !.auto = x, !.playing = y])
            /\ [b EXCEPT !.auto = x, !.playing = y].pc = "idle"
        BY <3>4
      <4> QED BY <4>1, <4>2
    <3> QED BY <3>5, <3>6, <3>7, <3>8, <3>9, <3>10
  <2>3. /\ IsClient(a) /\ Known(a) /\ HasRuns(a) /\ Summary(a) = Summary(app)
    <3> HIDE DEF a
    <3>1. HasRuns(a) /\ Summary(a) = Summary(app)
      BY <1>1, <2>1 DEF HasRuns, Summary
    <3> QED BY <1>1, <2>1, <3>1 DEF IsClient, Known
  <2>4. Shows(a)
    <3>1. Announced(Summary(app))
      BY <1>1, Placed
    <3> HIDE DEF a
    <3> QED BY <2>1, <2>3, <3>1 DEF Shows, Announced, Available
  <2> HIDE DEF a
  <2>5. IsClient(app') /\ Known(app') /\ HasRuns(app') /\ Shows(app')
    BY <2>2, <2>3, <2>4, Alikes
  <2> QED BY <2>2, <2>5 DEF ClientOK, InPlace
<1> QED BY <1>2, <1>3

LEMMA KeptByReadPaging == ClientInv /\ ReadPaging => ClientOK(app')
<1> SUFFICES ASSUME ClientInv, ReadPaging PROVE ClientOK(app')
  OBVIOUS
<1>1. FilesOK /\ ClientOK(app) /\ IsClient(app) /\ Known(app) /\ app.pc = "paging"
      /\ HasRuns(app) /\ (app.failed \/ Shows(app))
  BY DEF ClientInv, ClientOK, InPlace, ReadPaging
<1>2. CASE app' = Failed(app)
  BY <1>1, <1>2, FailedOK
<1>3. CASE app' # Failed(app)
  <2>1. \E x : app' = [app EXCEPT !.pc = "page", !.reading = x]
    BY <1>3 DEF ReadPaging
  <2>2. Alike(app, app') /\ app'.pc = "page" /\ app'.failed = app.failed
    BY <1>1, <2>1 DEF Alike, IsClient, AppFields
  <2>4. IsClient(app') /\ Known(app') /\ HasRuns(app')
        /\ (app'.failed \/ Shows(app'))
    BY <1>1, <2>2, Alikes
  <2> QED BY <2>2, <2>4 DEF ClientOK, InPlace
<1> QED BY <1>2, <1>3

LEMMA KeptByReadPage == ClientInv /\ ReadPage => ClientOK(app')
<1> SUFFICES ASSUME ClientInv, ReadPage PROVE ClientOK(app')
  OBVIOUS
<1>1. ClientOK(app) /\ IsClient(app) /\ Known(app) /\ app.pc = "page"
      /\ HasRuns(app) /\ (app.failed \/ Shows(app))
  BY DEF ClientInv, ClientOK, InPlace, ReadPage
<1>2. CASE app' = Failed(app)
  BY <1>1, <1>2, FailedOK
<1>3. CASE app' # Failed(app)
  <2>1. \E x : app' = [app EXCEPT !.reading = x]
    BY <1>3 DEF ReadPage
  <2>2. Alike(app, app') /\ app'.pc = "page" /\ app'.failed = app.failed
    BY <1>1, <2>1 DEF Alike, IsClient, AppFields
  <2>3. IsClient(app') /\ Known(app') /\ HasRuns(app')
        /\ (app'.failed \/ Shows(app'))
    BY <1>1, <2>2, Alikes
  <2> QED BY <2>2, <2>3 DEF ClientOK, InPlace
<1> QED BY <1>2, <1>3

-----------------------------------------------------------------------------
(* Keys, dialogs and time.                                                 *)

\* A client that stays at rest with what it shows.
Stays(a, b) == Alike(a, b) /\ b.pc = "idle"

LEMMA ActStays ==
  ASSUME NEW a, IsClient(a), a.pc = "idle", NEW key
  PROVE  Stays(a, Act(a, key))
<1> DEFINE moved(t) == Moved(a, t)
<1>1. Stays(a, a)
  BY DEF Stays, Alike, IsClient
<1>2. \A t : Stays(a, moved(t)) /\ DOMAIN moved(t) = AppFields
  BY DEF Stays, Alike, IsClient, AppFields, Moved
<1>3. \A t, f : Stays(a, [moved(t) EXCEPT !.follow = f])
  <2> HIDE DEF moved
  <2> QED BY <1>2 DEF Stays, Alike, AppFields
<1>4. Stays(a, TogglePlay(a))
  <2>1. TogglePlay(a) = a \/ (\E x : TogglePlay(a) = [a EXCEPT !.playing = x])
        \/ \E x : TogglePlay(a) = [a EXCEPT !.cursor = x, !.playing = TRUE, !.follow = FALSE, !.auto = FALSE]
    BY DEF TogglePlay
  <2>2. \A x : Stays(a, [a EXCEPT !.playing = x])
    BY DEF Stays, Alike, IsClient, AppFields
  <2>3. \A x : Stays(a, [a EXCEPT !.cursor = x, !.playing = TRUE, !.follow = FALSE, !.auto = FALSE])
    BY DEF Stays, Alike, IsClient, AppFields
  <2> QED BY <1>1, <2>1, <2>2, <2>3
<1>5. Stays(a, [a EXCEPT !.auto = FALSE])
  BY DEF Stays, Alike, IsClient, AppFields
<1>6. \/ Act(a, key) = a
      \/ Act(a, key) = TogglePlay(a)
      \/ Act(a, key) = [a EXCEPT !.auto = FALSE]
      \/ \E t : Act(a, key) = moved(t)
      \/ \E t, f : Act(a, key) = [moved(t) EXCEPT !.follow = f]
  BY DEF Act
<1> HIDE DEF moved
<1>7. CASE \E t, f : Act(a, key) = [moved(t) EXCEPT !.follow = f]
  <2>1. PICK t, f : Act(a, key) = [moved(t) EXCEPT !.follow = f]
    BY <1>7
  <2>2. Stays(a, [moved(t) EXCEPT !.follow = f])
    BY <1>3
  <2> QED BY <2>1, <2>2
<1>8. CASE \E t : Act(a, key) = moved(t)
  <2>1. PICK t : Act(a, key) = moved(t)
    BY <1>8
  <2>2. Stays(a, moved(t))
    BY <1>2
  <2> QED BY <2>1, <2>2
<1> QED BY <1>1, <1>4, <1>5, <1>6, <1>7, <1>8

LEMMA StaysOK ==
  ASSUME NEW a, NEW b, ClientOK(a), a.pc = "idle", Stays(a, b)
  PROVE  ClientOK(b)
  BY Rested DEF Stays

LEMMA KeptByFinishTimeline == ClientInv /\ FinishTimeline => ClientOK(app')
<1> SUFFICES ASSUME ClientInv, FinishTimeline PROVE ClientOK(app')
  OBVIOUS
<1>1. ClientOK(app) /\ IsClient(app) /\ Known(app) /\ app.pc = "page"
      /\ HasRuns(app) /\ (app.failed \/ Shows(app))
  BY DEF ClientInv, ClientOK, InPlace, FinishTimeline
<1> DEFINE a == [app EXCEPT !.timeline = app.reading.entries, !.complete = TRUE, !.pc = "idle",
                            !.reading = NotReading]
<1>2. \/ app' = Failed(app) \/ app' = Reloaded(a) \/ app' = Act(a, app.op)
  BY DEF FinishTimeline
<1>3. Alike(app, a) /\ a.pc = "idle" /\ DOMAIN a = AppFields /\ a.failed = app.failed
  BY <1>1 DEF Alike, IsClient, AppFields
<1> HIDE DEF a
<1>4. IsClient(a) /\ Known(a) /\ ClientOK(a)
  BY <1>1, <1>3, Alikes, AtRest
<1>5. Stays(a, Reloaded(a)) /\ Stays(a, Act(a, app.op))
  <2>1. Stays(a, Reloaded(a))
    BY <1>3 DEF Reloaded, Stays, Alike, AppFields
  <2> QED BY <1>3, <1>4, <2>1, ActStays
<1>6. ClientOK(Failed(app)) /\ ClientOK(Reloaded(a)) /\ ClientOK(Act(a, app.op))
  BY <1>1, <1>3, <1>4, <1>5, FailedOK, StaysOK
<1> QED BY <1>2, <1>6

LEMMA FollowOK ==
  ASSUME NEW a, ClientOK(a), a.pc = "idle"
  PROVE  ClientOK(Follow(a))
<1> DEFINE latest == AtLatest(a)
           other  == [a EXCEPT !.index = MostRecentRun(a.catalog), !.pc = "snapshot", !.op = "follow"]
<1>1. \/ Follow(a) = [a EXCEPT !.auto = FALSE]
      \/ Follow(a) = [a EXCEPT !.follow = TRUE, !.auto = TRUE]
      \/ HasRuns(a) /\ Follow(a) = other
      \/ Follow(a) = [latest EXCEPT !.auto = TRUE, !.playing = FALSE]
  BY DEF Follow
<1>2. IsClient(a) /\ Known(a)
  BY DEF ClientOK
<1>3. Stays(a, [a EXCEPT !.auto = FALSE]) /\ Stays(a, [a EXCEPT !.follow = TRUE, !.auto = TRUE])
  BY <1>2 DEF Stays, Alike, IsClient, AppFields
<1>4. Stays(a, [latest EXCEPT !.auto = TRUE, !.playing = FALSE])
  <2>1. Stays(a, latest)
    BY <1>2 DEF Stays, Alike, IsClient, AppFields, AtLatest
  <2> HIDE DEF latest
  <2> QED BY <2>1 DEF Stays, Alike, AppFields
<1>5. HasRuns(a) => ClientOK(other)
  <2>1. HasRuns(a) => MostRecentRun(a.catalog) \in DOMAIN a.catalog
    BY <1>2, Preferred DEF IsClient, HasRuns
  <2>2. /\ DOMAIN other = AppFields /\ other.catalog = a.catalog /\ other.dialog = a.dialog
        /\ other.index = MostRecentRun(a.catalog) /\ other.pc = "snapshot"
        /\ other.op \notin Reloads
    BY <1>2 DEF IsClient, AppFields, Reloads
  <2> HIDE DEF other
  <2> QED BY <1>2, <2>1, <2>2, SelectedOK
<1>6. /\ ClientOK([a EXCEPT !.auto = FALSE]) /\ ClientOK([a EXCEPT !.follow = TRUE, !.auto = TRUE])
      /\ ClientOK([latest EXCEPT !.auto = TRUE, !.playing = FALSE])
  <2> HIDE DEF latest
  <2> QED BY <1>3, <1>4, StaysOK
<1> HIDE DEF latest, other
<1> QED BY <1>1, <1>5, <1>6

LEMMA ChangeRunOK ==
  ASSUME NEW a, ClientOK(a), a.pc = "idle", NEW delta \in {-1, 1}
  PROVE  ClientOK(ChangeRun(a, delta))
<1> DEFINE i     == ((a.index - 1 + delta) % Len(a.catalog)) + 1
           other == [a EXCEPT !.index = i, !.pc = "snapshot", !.op = "change"]
<1>1. CASE HasRuns(a)
  <2>1. ChangeRun(a, delta) = other
    BY <1>1 DEF ChangeRun
  <2>2. i \in DOMAIN a.catalog
    <3>1. DOMAIN a.catalog = 1 .. Len(a.catalog) /\ Len(a.catalog) \in Nat /\ Len(a.catalog) # 0
      BY <1>1 DEF ClientOK, IsClient, HasRuns
    <3>2. a.index \in 1 .. Len(a.catalog)
      BY <1>1, <3>1 DEF ClientOK, IsClient
    <3>3. i \in 1 .. Len(a.catalog)
      BY <3>1, <3>2
    <3> QED BY <3>1, <3>3
  <2> HIDE DEF i
  <2>3. /\ DOMAIN other = AppFields /\ other.catalog = a.catalog /\ other.dialog = a.dialog
        /\ other.index = i /\ other.pc = "snapshot" /\ other.op \notin Reloads
    BY DEF ClientOK, IsClient, AppFields, Reloads
  <2> HIDE DEF other
  <2> QED BY <1>1, <2>1, <2>2, <2>3, SelectedOK DEF ClientOK
<1>2. CASE ~HasRuns(a)
  BY <1>2 DEF ChangeRun
<1> QED BY <1>1, <1>2

LEMMA DialogOK ==
  ASSUME NEW a, ClientOK(a), a.pc = "idle", HasRuns(a), NEW d
  PROVE  ClientOK([a EXCEPT !.dialog = d])
<1> DEFINE b == [a EXCEPT !.dialog = d]
<1>1. /\ DOMAIN b = AppFields /\ b.catalog = a.catalog /\ b.index = a.index /\ b.shown = a.shown
      /\ b.events = a.events /\ b.pc = "idle" /\ b.failed = a.failed
  BY DEF ClientOK, IsClient, AppFields
<1> HIDE DEF b
<1>2. HasRuns(b) /\ Summary(b) = Summary(a)
  BY <1>1 DEF HasRuns, Summary
<1>3. ClientOK(b)
  BY <1>1, <1>2 DEF ClientOK, IsClient, Known, InPlace, Shows
<1> QED BY <1>3 DEF b

LEMMA PagingOK ==
  ASSUME NEW a, ClientOK(a), a.pc = "idle", HasRuns(a), NEW op
  PROVE  ClientOK([a EXCEPT !.pc = "paging", !.op = op])
<1> DEFINE b == [a EXCEPT !.pc = "paging", !.op = op]
<1>1. Alike(a, b) /\ b.pc = "paging" /\ b.failed = a.failed
  BY DEF ClientOK, IsClient, AppFields, Alike
<1> HIDE DEF b
<1>2. /\ IsClient(b) /\ Known(b) /\ HasRuns(b) /\ (b.failed \/ Shows(b))
  BY <1>1, Alikes DEF ClientOK, InPlace
<1>3. ClientOK(b)
  BY <1>1, <1>2 DEF ClientOK, InPlace
<1> QED BY <1>3 DEF b

\* A reload, after an error or not.
LEMMA AgainOK ==
  ASSUME FilesOK, NEW a, ClientOK(a), a.pc = "idle", NEW op \in {"tick", "key"},
         NEW manual \in BOOLEAN
  PROVE  ClientOK(Reload([a EXCEPT !.op = op], manual))
<1> DEFINE b == [a EXCEPT !.op = op]
<1>1. Alike(a, b) /\ b.pc = "idle" /\ b.op \in Reloads /\ b.failed = a.failed
  BY DEF ClientOK, IsClient, AppFields, Alike, Reloads
<1> HIDE DEF b
<1>3. IsClient(b) /\ Known(b) /\ (HasRuns(b) => b.failed \/ Shows(b))
  BY <1>1, Alikes DEF ClientOK, InPlace
<1>4. ClientOK(Reload(b, manual))
  BY <1>1, <1>3, ReloadOK
<1> QED BY <1>4 DEF b

LEMMA PressedOK ==
  ASSUME FilesOK, NEW a, ClientOK(a), a.pc = "idle", NEW key
  PROVE  ClientOK(Pressed(a, key))
<1> DEFINE again     == Reload([a EXCEPT !.op = "key"], TRUE)
           dialog(d) == [a EXCEPT !.dialog = d]
           paging    == [a EXCEPT !.pc = "paging", !.op = key]
<1>1. \/ Pressed(a, key) = Follow(a)
      \/ Pressed(a, key) = again
      \/ Pressed(a, key) = ChangeRun(a, -1)
      \/ Pressed(a, key) = ChangeRun(a, 1)
      \/ HasRuns(a) /\ \E d : Pressed(a, key) = dialog(d)
      \/ Pressed(a, key) = a
      \/ HasRuns(a) /\ Pressed(a, key) = paging
      \/ Pressed(a, key) = Act(a, key)
  <2>1. Pressed(a, key) =
          CASE key = "f" -> Follow(a)
            [] key = "r" -> again
            [] key = "[" -> ChangeRun(a, -1)
            [] key = "]" -> ChangeRun(a, 1)
            [] key = "e" -> IF HasRuns(a)
                            THEN dialog([kind |-> "rename", opened |-> Summary(a).run]) ELSE a
            [] key = "d" -> IF HasRuns(a)
                            THEN dialog([kind |-> "delete", opened |-> Summary(a).run]) ELSE a
            [] key \in NeedsTimeline /\ ~a.complete /\ HasRuns(a) -> paging
            [] OTHER -> Act(a, key)
    BY DEF Pressed
  <2> HIDE DEF again, dialog, paging
  <2>2. CASE key \in {"e", "d"}
    <3>1. \/ HasRuns(a) /\ \E d : Pressed(a, key) = dialog(d)
          \/ Pressed(a, key) = a
      BY <2>1, <2>2 DEF NeedsTimeline
    <3> QED BY <3>1
  <2>3. CASE key \notin {"e", "d"}
    BY <2>1, <2>3
  <2> QED BY <2>2, <2>3
<1>2. ClientOK(Follow(a)) /\ ClientOK(again)
  BY FollowOK, AgainOK
<1>3. ClientOK(ChangeRun(a, -1)) /\ ClientOK(ChangeRun(a, 1))
  BY ChangeRunOK
<1>4. HasRuns(a) => (\A d : ClientOK(dialog(d))) /\ ClientOK(paging)
  BY DialogOK, PagingOK
<1>5. ClientOK(Act(a, key))
  BY ActStays, StaysOK DEF ClientOK
<1> HIDE DEF again, dialog, paging
<1>6. CASE HasRuns(a) /\ \E d : Pressed(a, key) = dialog(d)
  <2>1. PICK d : Pressed(a, key) = dialog(d)
    BY <1>6
  <2>2. ClientOK(dialog(d))
    BY <1>4, <1>6
  <2> QED BY <2>1, <2>2
<1> QED BY <1>1, <1>2, <1>3, <1>4, <1>5, <1>6

LEMMA KeptByPress ==
  ASSUME NEW key
  PROVE  ClientInv /\ Press(key) => ClientInv'
<1> SUFFICES ASSUME ClientInv, Press(key) PROVE ClientInv'
  OBVIOUS
<1>1. /\ FilesOK /\ ClientOK(app) /\ app.pc = "idle" /\ app' = Pressed(app, key)
      /\ past' = [past EXCEPT !.keys = @ + 1] /\ UNCHANGED <<files, job>>
  BY DEF ClientInv, Press
<1>2. past'.lives = past.lives /\ PastType(past')
  BY <1>1 DEF FilesOK, FilesType, PastType
<1>3. ClientOK(app')
  BY <1>1, PressedOK
<1> QED BY <1>1, <1>2, <1>3, OwnStep

LEMMA KeptByCancelDialog == ClientInv /\ CancelDialog => ClientOK(app')
<1> SUFFICES ASSUME ClientInv, CancelDialog PROVE ClientOK(app')
  OBVIOUS
<1>1. ClientOK(app) /\ app.pc = "idle" /\ app' = [app EXCEPT !.dialog = NoDialog]
  BY DEF ClientInv, CancelDialog
<1>2. Stays(app, app')
  BY <1>1 DEF ClientOK, Stays, Alike, IsClient, AppFields
<1> QED BY <1>1, <1>2, StaysOK

LEMMA KeptByConfirmDialog == ClientInv /\ ConfirmDialog => ClientOK(app')
<1> SUFFICES ASSUME ClientInv, ConfirmDialog PROVE ClientOK(app')
  OBVIOUS
<1>1. /\ ClientOK(app) /\ IsClient(app) /\ Known(app) /\ app.pc = "idle" /\ HasRuns(app)
  BY DEF ClientInv, ClientOK, IsClient, ConfirmDialog
<1>2. /\ Alike(app, app') /\ app'.pc = "request" /\ app'.target = Summary(app).run
      /\ app'.op \in {"renamed", "deleted"} /\ app'.failed = app.failed
  BY <1>1 DEF ConfirmDialog, Alike, IsClient, AppFields
<1>3. /\ IsClient(app') /\ Known(app') /\ HasRuns(app')
      /\ Summary(app') = Summary(app)
      /\ Shows(app') = Shows(app)
  BY <1>1, <1>2, Alikes
<1>4. app.failed \/ Shows(app)
  BY <1>1 DEF ClientOK, InPlace
<1> QED BY <1>2, <1>3, <1>4 DEF ClientOK, InPlace

LEMMA KeptByPlayTick == ClientInv /\ PlayTick => ClientOK(app')
<1> SUFFICES ASSUME ClientInv, PlayTick PROVE ClientOK(app')
  OBVIOUS
<1>1. ClientOK(app) /\ app.pc = "idle"
      /\ \E t, p, f : app' = [app EXCEPT !.cursor = t, !.playing = p, !.follow = f]
  BY DEF ClientInv, PlayTick
<1>2. Stays(app, app')
  BY <1>1 DEF ClientOK, Stays, Alike, IsClient, AppFields
<1> QED BY <1>1, <1>2, StaysOK

LEMMA KeptByRefreshTick == ClientInv /\ RefreshTick => ClientOK(app')
  BY AgainOK DEF ClientInv, RefreshTick

-----------------------------------------------------------------------------
(* Requests, answers and the start of the client.                          *)

\* A rename leaves a later revision.
LEMMA RenamedRevision ==
  ASSUME NEW E, Revision(E)
  PROVE  Revision(Renamed(E)) /\ E \subseteq Renamed(E)
<1> DEFINE t == IF Last(E) < RenameTime THEN RenameTime ELSE Last(E) + 1
<1>1. t \in Nat
  <2>1. Last(E) \in Nat /\ RenameTime \in Nat
    BY LastTime, TerminalAssumption DEF Revision
  <2> QED BY <2>1
<1>2. Renamed(E) = E \cup {t}
  BY DEF Renamed
<1> HIDE DEF t
<1>3. IsFiniteSet(E \cup {t})
  BY FS_AddElement DEF Revision
<1> QED BY <1>1, <1>2, <1>3 DEF Revision

LEMMA KeptByServeRequest == ClientInv /\ ServeRequest => ClientInv'
<1> SUFFICES ASSUME ClientInv, ServeRequest PROVE ClientInv'
  OBVIOUS
<1> DEFINE r == app.target
<1>1. /\ FilesOK /\ ClientOK(app) /\ IsClient(app) /\ Known(app) /\ app.pc = "request"
      /\ HasRuns(app) /\ (app.failed \/ Shows(app))
      /\ r = Summary(app).run /\ app.op \in {"renamed", "deleted"}
      /\ job = Quiet /\ UNCHANGED files
  BY DEF ClientInv, ClientOK, InPlace, ServeRequest
<1>2. CASE r \notin DOMAIN files.snaps
  <2>1. app' = Failed(app) /\ UNCHANGED <<job, past>>
    BY <1>2 DEF ServeRequest
  <2>3. ClientOK(app')
    BY <1>1, <2>1, FailedOK
  <2>4. PastType(past')
    BY <1>1, <2>1 DEF FilesOK, FilesType
  <2> QED BY <1>1, <2>1, <2>3, <2>4, OwnStep
<1>3. CASE r \in DOMAIN files.snaps
  <2>1. /\ app' = [app EXCEPT !.pc = "awaiting"]
        /\ \/ BeginDelete(r)
           \/ job' = Publish(r, Renamed(files.snaps[r])) /\ UNCHANGED past
    BY <1>3 DEF ServeRequest
  <2>2. Alike(app, app') /\ app'.pc = "awaiting" /\ app'.target = app.target /\ app'.op = app.op
        /\ app'.failed = app.failed
    BY <1>1, <2>1 DEF Alike, IsClient, AppFields
  <2>4. /\ IsClient(app') /\ Known(app') /\ HasRuns(app')
        /\ (app'.failed \/ Shows(app')) /\ Summary(app') = Summary(app)
    BY <1>1, <2>2, Alikes
  <2>5. ClientOK(app')
    BY <1>1, <2>2, <2>4 DEF ClientOK, InPlace
  <2>6. FilesOK' /\ Onward
    <3>1. CASE BeginDelete(r)
      BY <1>1, <3>1, KeptByBeginDelete
    <3>2. CASE job' = Publish(r, Renamed(files.snaps[r])) /\ UNCHANGED past
      <4>1. r \in Runs
        BY <1>1, <1>3 DEF FilesOK, FilesType
      <4>2. Revision(files.snaps[r])
        BY <1>1, <1>3 DEF FilesOK, FilesType
      <4>3. /\ Revision(Renamed(files.snaps[r]))
            /\ files.snaps[r] \subseteq Renamed(files.snaps[r])
        BY <4>2, RenamedRevision
      <4>4. past'.lives = past.lives /\ PastType(past')
        BY <1>1, <3>2 DEF FilesOK, FilesType
      <4> HIDE DEF r
      <4> QED BY <1>1, <3>2, <4>1, <4>3, <4>4, KeptByBeginWrite
    <3> QED BY <2>1, <3>1, <3>2
  <2> QED BY <2>5, <2>6, Carried DEF ClientInv
<1> QED BY <1>2, <1>3

LEMMA KeptByAnswered == ClientInv /\ Answered => ClientOK(app')
<1> SUFFICES ASSUME ClientInv, Answered PROVE ClientOK(app')
  OBVIOUS
<1>1. /\ FilesOK /\ IsClient(app) /\ Known(app) /\ app.pc = "awaiting"
      /\ HasRuns(app) /\ (app.failed \/ Shows(app)) /\ app.op \in {"renamed", "deleted"}
  BY DEF ClientInv, ClientOK, InPlace, Answered
<1> DEFINE c == files.catalog
<1>2. CASE app.op = "renamed"
  <2> DEFINE a == [app EXCEPT !.pc = "idle"]
  <2>1. app' = Reload(a, TRUE)
    BY <1>2 DEF Answered
  <2>2. Alike(app, a) /\ a.pc = "idle" /\ a.op = "renamed" /\ a.failed = app.failed
    BY <1>1, <1>2 DEF Alike, IsClient, AppFields
  <2> HIDE DEF a
  <2>3. IsClient(a) /\ Known(a) /\ (a.failed \/ Shows(a)) /\ a.op \in Reloads
    BY <1>1, <2>2, Alikes DEF Reloads
  <2>4. ClientOK(Reload(a, TRUE))
    BY <1>1, <2>2, <2>3, ReloadOK
  <2> QED BY <2>1, <2>4
<1>3. CASE app.op = "deleted" /\ c = << >>
  <2>1. app' = [EmptyState(app, << >>) EXCEPT !.pc = "idle"]
    BY <1>3 DEF Answered
  <2>2. /\ DOMAIN app' = AppFields /\ app'.catalog = << >> /\ app'.dialog = NoDialog
        /\ app'.pc = "idle"
    BY <1>1, <2>1 DEF EmptyState, IsClient, AppFields
  <2> QED BY <2>2 DEF ClientOK, IsClient, Known, InPlace, HasRuns
<1>4. CASE app.op = "deleted" /\ c # << >>
  <2> DEFINE i == IF app.index > Len(c) THEN Len(c) ELSE app.index
  <2>1. app' = [app EXCEPT !.catalog = c, !.pc = "snapshot", !.index = i]
    BY <1>4 DEF Answered
  <2>2. c \in Seq(Entries)
    BY <1>1 DEF FilesOK, FilesType
  <2>3. i \in DOMAIN c
    <3>1. DOMAIN c = 1 .. Len(c) /\ Len(c) \in Nat /\ Len(c) # 0
      BY <1>4, <2>2
    <3>2. app.index \in 1 .. Len(app.catalog) /\ Len(app.catalog) \in Nat
      BY <1>1 DEF IsClient
    <3>3. i \in 1 .. Len(c)
      BY <3>1, <3>2
    <3> QED BY <3>1, <3>3
  <2> HIDE DEF i
  <2>4. /\ DOMAIN app' = AppFields /\ app'.catalog = c /\ app'.index = i /\ app'.pc = "snapshot"
        /\ app'.op = "deleted"
    BY <1>1, <1>4, <2>1 DEF IsClient, AppFields
  <2>5. IsClient(app') /\ HasRuns(app') /\ Known(app')
    BY <1>1, <1>4, <2>2, <2>3, <2>4, OnDisk DEF IsClient, Known, HasRuns
  <2> QED BY <2>4, <2>5 DEF ClientOK, InPlace, KeepsRun, Reloads
<1> QED BY <1>1, <1>2, <1>3, <1>4

\* The client before it has read anything.
LEMMA ClosedFields ==
  /\ DOMAIN Closed = AppFields /\ Closed.catalog = << >>
  /\ Closed.dialog = NoDialog /\ Closed.pc = "exited"
  /\ Closed.op = "launch"
  BY DEF Closed, AppFields

LEMMA KeptByLaunch ==
  ASSUME NEW r
  PROVE  ClientInv /\ Launch(r) => ClientOK(app')
<1> SUFFICES ASSUME ClientInv, Launch(r) PROVE ClientOK(app')
  OBVIOUS
<1> DEFINE c   == files.catalog
           own == PositionOf(c, r)
           a   == [Closed EXCEPT !.catalog = c, !.auto = (r = Nobody)]
           i   == IF own # {} THEN CHOOSE k \in own : TRUE ELSE MostRecentRun(c)
<1>1. FilesOK /\ c \in Seq(Entries)
  BY DEF ClientInv, FilesOK, FilesType
<1>2. app' = IF c = << >> THEN [a EXCEPT !.pc = "idle"]
             ELSE [a EXCEPT !.pc = "snapshot", !.index = i]
  BY DEF Launch
<1>3. /\ DOMAIN a = AppFields /\ a.catalog = c /\ a.dialog = NoDialog /\ a.op = "launch"
  BY ClosedFields DEF AppFields
<1> HIDE DEF a
<1>4. CASE c = << >>
  <2>1. /\ DOMAIN app' = AppFields /\ app'.catalog = << >> /\ app'.dialog = NoDialog
        /\ app'.pc = "idle"
    BY <1>2, <1>3, <1>4 DEF AppFields
  <2> QED BY <2>1 DEF ClientOK, IsClient, Known, InPlace, HasRuns
<1>5. CASE c # << >>
  <2>1. i \in DOMAIN c
    <3>1. own # {} => (CHOOSE k \in own : TRUE) \in own
      <4> SUFFICES ASSUME own # {} PROVE (CHOOSE k \in own : TRUE) \in own
        OBVIOUS
      <4>1. \E k \in own : TRUE
        OBVIOUS
      <4> HIDE DEF own
      <4> QED BY <4>1
    <3>2. \A k \in own : k \in DOMAIN c
      BY Positions
    <3>3. MostRecentRun(c) \in DOMAIN c
      BY <1>1, <1>5, Preferred
    <3> HIDE DEF own
    <3> QED BY <3>1, <3>2, <3>3
  <2> HIDE DEF i
  <2>2. /\ DOMAIN app' = AppFields /\ app'.catalog = c /\ app'.dialog = NoDialog
        /\ app'.pc = "snapshot" /\ app'.index = i /\ app'.op = "launch"
    BY <1>2, <1>3, <1>5 DEF AppFields
  <2>3. IsClient(app') /\ HasRuns(app') /\ Known(app')
    BY <1>1, <1>5, <2>1, <2>2, OnDisk DEF IsClient, Known, HasRuns
  <2> QED BY <2>2, <2>3 DEF ClientOK, InPlace, KeepsRun, Reloads
<1> QED BY <1>4, <1>5

LEMMA InitClient == ClientInit => ClientInv
<1> SUFFICES ASSUME ClientInit PROVE ClientInv
  OBVIOUS
<1>1. /\ files.catalog = << >> /\ DOMAIN files.snaps = {} /\ job = Quiet
      /\ app = Closed /\ past = [publishes |-> 0, keys |-> 0, lives |-> [r \in Runs |-> 0]]
      /\ files = [catalog |-> files.catalog, snaps |-> files.snaps, pages |-> files.pages]
  BY DEF ClientInit
<1>2. FilesType
  BY <1>1, FS_EmptySet DEF FilesType, PastType, Quiet
<1>3. FilesOK
  BY <1>1, <1>2 DEF FilesOK
<1>4. ClientOK(Closed)
  BY ClosedFields DEF ClientOK, IsClient, Known, InPlace, HasRuns
<1> QED BY <1>1, <1>3, <1>4 DEF ClientInv

LEMMA NextClient == ClientInv /\ [ClientNext]_clientVars => ClientInv'
<1> SUFFICES ASSUME ClientInv, [ClientNext]_clientVars PROVE ClientInv'
  OBVIOUS
<1>1. FilesOK /\ ClientOK(app)
  BY DEF ClientInv
<1>2. UNCHANGED past => past'.lives = past.lives /\ PastType(past')
  BY <1>1 DEF FilesOK, FilesType
<1>3. CASE ServerStep
  <2>1. FilesOK' /\ Onward
    BY <1>1, <1>3, KeptByWritePage, KeptByWriteSnapshot, KeptByWriteCatalog, KeptByRemoveFiles
       DEF ServerStep
  <2>2. UNCHANGED app
    BY <1>3 DEF ServerStep, WritePage, WriteSnapshot, WriteCatalog,
                RemoveFiles
  <2> QED BY <1>1, <2>1, <2>2, Carried DEF ClientInv
<1>4. CASE OtherClients
  <2>1. CASE \E r \in Runs : \E E \in Revisions[r] : BeginPublish(r, E)
    <3>1. FilesOK' /\ Onward
      BY <1>1, <2>1, KeptByBeginPublish
    <3>2. UNCHANGED app
      BY <2>1 DEF BeginPublish
    <3> QED BY <1>1, <3>1, <3>2, Carried DEF ClientInv
  <2>2. CASE \E r \in Runs : BeginDelete(r) /\ UNCHANGED app
    <3>1. FilesOK' /\ Onward
      BY <1>1, <2>2, KeptByBeginDelete
    <3> QED BY <1>1, <2>2, <3>1, Carried DEF ClientInv
  <2> QED BY <1>4, <2>1, <2>2 DEF OtherClients
<1>5. CASE Read
  <2>1. ClientOK(app')
    BY <1>5, KeptByReadSnapshot, KeptByReadPaging, KeptByReadPage, KeptByFinishTimeline DEF Read
  <2>2. UNCHANGED <<files, job, past>>
    BY <1>5 DEF Read, ReadSnapshot, ReadPaging, ReadPage,
                FinishTimeline
  <2> QED BY <1>1, <1>2, <2>1, <2>2, OwnStep
<1>6. CASE User
  <2>1. CASE \E r \in Runs \cup {Nobody} : Launch(r)
    <3>1. ClientOK(app')
      BY <2>1, KeptByLaunch
    <3>2. UNCHANGED <<files, job, past>>
      BY <2>1 DEF Launch
    <3> QED BY <1>1, <1>2, <3>1, <3>2, OwnStep
  <2>2. CASE \E key \in Keys : Press(key)
    BY <2>2, KeptByPress
  <2>3. CASE CancelDialog \/ ConfirmDialog
    <3>1. ClientOK(app')
      BY <2>3, KeptByCancelDialog, KeptByConfirmDialog
    <3>2. UNCHANGED <<files, job, past>>
      BY <2>3 DEF CancelDialog, ConfirmDialog
    <3> QED BY <1>1, <1>2, <3>1, <3>2, OwnStep
  <2> QED BY <1>6, <2>1, <2>2, <2>3 DEF User
<1>7. CASE ServeRequest
  BY <1>7, KeptByServeRequest
<1>8. CASE Answered \/ PlayTick \/ RefreshTick
  <2>1. ClientOK(app')
    BY <1>8, KeptByAnswered, KeptByPlayTick, KeptByRefreshTick
  <2>2. UNCHANGED <<files, job, past>>
    BY <1>8 DEF Answered, PlayTick, RefreshTick
  <2> QED BY <1>1, <1>2, <2>1, <2>2, OwnStep
<1>9. CASE UNCHANGED clientVars
  <2>1. UNCHANGED <<files, job, app, past>>
    BY <1>9 DEF clientVars
  <2> QED BY <1>1, <1>2, <2>1, OwnStep
<1> QED BY <1>3, <1>4, <1>5, <1>6, <1>7, <1>8, <1>9 DEF ClientNext

\* What the reads of a reload leave of the screen.
LEMMA ReadKeeps ==
  ASSUME ClientInv, ReadSnapshot, app.op \in Reloads
  PROVE  /\ app'.shown \in {app.shown, Summary(app).run}
         /\ ~app.follow => app'.cursor = app.cursor
<1>1. DOMAIN app = AppFields
  BY DEF ClientInv, ClientOK, IsClient
<1>2. CASE app' = Failed(app)
  BY <1>1, <1>2 DEF Failed, AppFields
<1>3. CASE app' # Failed(app)
  <2> DEFINE a == Installed(app, files.snaps[Summary(app).run])
  <2>1. /\ DOMAIN a = AppFields /\ a.shown = Summary(app).run /\ a.cursor = app.cursor
        /\ a.follow = app.follow
    BY <1>1 DEF Installed, AppFields
  <2>2. app' = [a EXCEPT !.pc = "paging"] \/ app' = Reloaded(a)
    <3>1. app' = CASE app.op \in Reloads ->
                        IF ~app.switch /\ app.complete /\ ~a.complete
                        THEN [a EXCEPT !.pc = "paging"] ELSE Reloaded(a)
                   [] app.op = "launch" -> AtLatest(a)
                   [] app.op = "first"  -> [AtLatest(a) EXCEPT !.auto = TRUE]
                   [] app.op = "follow" -> [AtLatest(a) EXCEPT !.auto = TRUE, !.playing = FALSE]
                   [] OTHER -> [AtLatest(a) EXCEPT !.auto = FALSE, !.playing = FALSE]
      BY <1>3 DEF ReadSnapshot
    <3> HIDE DEF a
    <3> QED BY <3>1 DEF Reloads
  <2> HIDE DEF a
  <2> QED BY <2>1, <2>2 DEF Reloaded, AppFields
<1> QED BY <1>2, <1>3

LEMMA PageKeeps ==
  ASSUME ClientInv, ReadPaging \/ ReadPage \/ FinishTimeline, app.op \in Reloads
  PROVE  app'.shown = app.shown /\ (~app.follow => app'.cursor = app.cursor)
<1>1. DOMAIN app = AppFields
  BY DEF ClientInv, ClientOK, IsClient
<1>2. CASE app' = Failed(app)
  BY <1>1, <1>2 DEF Failed, AppFields
<1>3. CASE app' # Failed(app) /\ (ReadPaging \/ ReadPage)
  <2>1. (\E x : app' = [app EXCEPT !.pc = "page", !.reading = x])
        \/ \E x : app' = [app EXCEPT !.reading = x]
    BY <1>3 DEF ReadPaging, ReadPage
  <2> QED BY <1>1, <2>1 DEF AppFields
<1>4. CASE app' # Failed(app) /\ FinishTimeline
  <2> DEFINE a == [app EXCEPT !.timeline = app.reading.entries, !.complete = TRUE, !.pc = "idle",
                              !.reading = NotReading]
  <2>1. app' = Reloaded(a)
    BY <1>4 DEF FinishTimeline
  <2>2. /\ DOMAIN a = AppFields /\ a.shown = app.shown /\ a.cursor = app.cursor
        /\ a.follow = app.follow
    BY <1>1 DEF AppFields
  <2> HIDE DEF a
  <2> QED BY <2>1, <2>2 DEF Reloaded, AppFields
<1> QED BY <1>2, <1>3, <1>4

-----------------------------------------------------------------------------
\* The files keep what the client's catalog rests on, unless the Run's files are
\* removed after the catalog was written, and the client keeps its place: it
\* shows what it has selected, or it has reported an error and read nothing since.
THEOREM ClientInvariant == ClientSpec => []ClientInv
<1>1. ClientInit => ClientInv
  BY InitClient
<1>2. ClientInv /\ [ClientNext]_clientVars => ClientInv'
  BY NextClient
<1> QED BY <1>1, <1>2, PTL DEF ClientSpec

\* The snapshot on the terminal's screen is the selected Run's whenever the
\* client is between two reads, unless it has reported an error and read no
\* snapshot since.
THEOREM ShownRunIsSelected == ClientSpec => []ShownIsSelected
<1>1. ClientInv => ShownIsSelected
  BY DEF ClientInv, ClientOK, InPlace, Shows, ShownIsSelected
<1> QED BY <1>1, ClientInvariant, PTL

\* It is at the catalog's revision or a later one: readers only see a revision
\* after its snapshot exists (main.rs:1310).  The exception is a Run whose files
\* were removed after the client's catalog was written, and that may have been
\* published again with fewer events.
THEOREM ShownRunIsCurrent == ClientSpec => []ShownCoversCatalog
<1>1. ClientInv => ShownCoversCatalog
  BY DEF ClientInv, ClientOK, InPlace, Shows, Covers, ShownCoversCatalog
<1> QED BY <1>1, ClientInvariant, PTL

\* A reload leaves a pinned Run, and a user who looks at the past, where they
\* are, through all of its reads and for any number of Runs, keys and publications.
THEOREM PinnedRunStays == ClientSpec => PinnedStays
<1>1. ClientInv /\ [ClientNext]_clientVars =>
        [app.pc \in {"snapshot", "paging", "page"} /\ app.op \in Reloads /\ ~app.failed
            /\ app.shown # Nobody /\ PositionOf(app.catalog, app.shown) # {} =>
           /\ ~(app.auto /\ app.follow) => app'.shown = app.shown
           /\ ~app.follow => app'.cursor = app.cursor]_clientVars
  <2> SUFFICES ASSUME ClientInv, ClientNext, app.pc \in {"snapshot", "paging", "page"},
                      app.op \in Reloads, ~app.failed, PositionOf(app.catalog, app.shown) # {}
               PROVE  /\ ~(app.auto /\ app.follow) => app'.shown = app.shown
                      /\ ~app.follow => app'.cursor = app.cursor
    OBVIOUS
  <2>1. app' = app \/ Read
    <3>1. CASE ServerStep \/ OtherClients
      BY <3>1 DEF ServerStep, WritePage, WriteSnapshot, WriteCatalog,
                  RemoveFiles, OtherClients, BeginPublish
    <3>2. ~User
      BY DEF User, Launch, Press, CancelDialog, ConfirmDialog
    <3>3. ~ServeRequest /\ ~Answered /\ ~PlayTick /\ ~RefreshTick
      BY DEF ServeRequest, Answered, PlayTick, RefreshTick
    <3> QED BY <3>1, <3>2, <3>3 DEF ClientNext
  <2>2. CASE app' = app
    BY <2>2
  <2>3. CASE ReadSnapshot
    <3>1. /\ app'.shown \in {app.shown, Summary(app).run}
          /\ ~app.follow => app'.cursor = app.cursor
      BY <2>3, ReadKeeps
    <3>2. ~(app.auto /\ app.follow) => Summary(app).run = app.shown
      BY <2>3 DEF ReadSnapshot, ClientInv, ClientOK, InPlace, KeepsRun
    <3> QED BY <3>1, <3>2
  <2>4. CASE ReadPaging \/ ReadPage \/ FinishTimeline
    BY <2>4, PageKeeps
  <2> QED BY <2>1, <2>2, <2>3, <2>4 DEF Read
<1> QED BY <1>1, ClientInvariant, PTL DEF ClientSpec, PinnedStays

=============================================================================
